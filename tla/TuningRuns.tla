---------------------------- MODULE TuningRuns ----------------------------
(***************************************************************************)
(* The attempts at one tuning experiment (tuning/runner.py, executor.py,   *)
(* store.py).  An attempt is a pair <<process, number>>: the API starts    *)
(* each in a thread of its own.  The lease keeps processes apart and lets  *)
(* every thread of its holder in, so what keeps attempts apart is the row  *)
(* of the experiment, claimed with an owner that is unique per attempt.    *)
(* The row is beaten by publish_phase alone, and an inserted row has no    *)
(* heartbeat at all: both look abandoned while somebody is at work.        *)
(***************************************************************************)
EXTENDS Naturals

CONSTANTS Tuners,        \* attempts
          TrialPoints,   \* the points proposed
          NoTuner,       \* nobody
          MaxTuneFaults  \* bound: deaths, failures, stand-downs, requests to cancel and prune

TuneProc(t) == t[1]
TuneProcs == {TuneProc(t) : t \in Tuners}

ASSUME TuneConstants == NoTuner \notin Tuners \cup TuneProcs /\ MaxTuneFaults \in Nat

VARIABLES
    expRow, expOwner,  \* the row: status ("none": no row) and owner
    expOld,            \* heartbeat_at is missing or before stale_before
    cancelFlag,        \* cancel_requested
    trials,            \* the stored trials
    evaluated,         \* the points an attempt has loaded or evaluated
    tuneLease,         \* the process that holds the tuning lease
    tuneLeaseOld,      \* the lease row is stale
    tuner,             \* how far every attempt is
    robbed,            \* history: a row was judged abandoned while its owner lived
    tuneFaults

trialVars == <<trials, evaluated>>
expVars == <<expRow, expOwner, expOld, cancelFlag>>
tuneVars == <<expRow, expOwner, expOld, cancelFlag, trials, evaluated, tuneLease,
              tuneLeaseOld, tuner, robbed, tuneFaults>>

TuningInit == /\ expRow = "none" /\ expOwner = NoTuner /\ expOld = FALSE
              /\ cancelFlag = FALSE
              /\ trials = {} /\ evaluated = [t \in Tuners |-> {}]
              /\ tuneLease = NoTuner /\ tuneLeaseOld = FALSE
              /\ tuner = [t \in Tuners |-> "out"]
              /\ robbed = FALSE /\ tuneFaults = 0

TuneFault == tuneFaults < MaxTuneFaults /\ tuneFaults' = tuneFaults + 1

\* The attempt runs the batch.
AtWork(t) == tuner[t] \in {"diagnose", "trial"}
AtTrials(t) == tuner[t] = "trial"
\* The owner of the row is an attempt that inserted it or works on it.
OwnerLives == \E t \in Tuners : /\ expOwner = t
                                /\ AtWork(t) \/ tuner[t] = "confirm"

\* Mutant: attempts of one process share their owner.
OwnerPerProcess(t) == CHOOSE u \in Tuners : TuneProc(u) = TuneProc(t)

OwnerOf(t) == t

Moves(t, to) == tuner' = [tuner EXCEPT ![t] = to]

(***************************************************************************)
(* The lease.                                                              *)
(***************************************************************************)
EnterTuning(t) == /\ tuner[t] = "out"
                  /\ tuneLease \in {NoTuner, TuneProc(t)} \/ tuneLeaseOld
                  /\ tuneLease' = TuneProc(t) /\ tuneLeaseOld' = FALSE
                  /\ Moves(t, "entered")
                  /\ UNCHANGED <<expVars, trialVars, robbed, tuneFaults>>

\* The lease statement failed: the attempt runs unguarded.
EnterUnleased(t) == /\ tuner[t] = "out" /\ TuneFault
                    /\ Moves(t, "entered")
                    /\ UNCHANGED <<expVars, trialVars, tuneLease, tuneLeaseOld, robbed>>

\* release deletes the row of the process, whichever attempt took it.
LeaveTuning(t) == /\ tuner[t] = "leave"
                  /\ tuneLease' = IF tuneLease = TuneProc(t) THEN NoTuner ELSE tuneLease
                  /\ tuneLeaseOld' = (tuneLeaseOld /\ tuneLease # TuneProc(t))
                  /\ Moves(t, "out")
                  /\ UNCHANGED <<expVars, trialVars, robbed, tuneFaults>>

TuneLeaseAges == /\ tuneLease # NoTuner /\ ~tuneLeaseOld
                 /\ \A t \in Tuners : TuneProc(t) = tuneLease => tuner[t] = "out"
                 /\ tuneLeaseOld' = TRUE
                 /\ UNCHANGED <<expVars, trialVars, tuneLease, tuner, robbed, tuneFaults>>

(***************************************************************************)
(* The claim of the row.                                                   *)
(***************************************************************************)
\* reclaim_stale_experiments: a running row that looks abandoned.
ReclaimExperiment(t) ==
    /\ tuner[t] = "entered"
    /\ LET stale == expRow = "running" /\ expOld
       IN  /\ expRow' = IF stale THEN "interrupted" ELSE expRow
           /\ robbed' = (robbed \/ (stale /\ OwnerLives))
    /\ Moves(t, "read")
    /\ UNCHANGED <<expOwner, expOld, cancelFlag, trialVars, tuneLease, tuneLeaseOld, tuneFaults>>

ReadExperiment(t) ==
    /\ tuner[t] = "read"
    /\ Moves(t, IF expRow = "none" THEN "insert"
                ELSE IF expRow = "running" /\ ~expOld THEN "leave" ELSE "resume")
    /\ UNCHANGED <<expVars, trialVars, tuneLease, tuneLeaseOld, robbed, tuneFaults>>

\* On a conflict the insert does nothing.
InsertExperiment(t) ==
    /\ tuner[t] = "insert"
    /\ IF expRow = "none"
       THEN /\ expRow' = "running" /\ expOwner' = OwnerOf(t)
            /\ expOld' = TRUE /\ cancelFlag' = FALSE
       ELSE UNCHANGED expVars
    /\ Moves(t, "confirm")
    /\ UNCHANGED <<trialVars, tuneLease, tuneLeaseOld, robbed, tuneFaults>>

ConfirmOwner(t) ==
    /\ tuner[t] = "confirm"
    /\ Moves(t, IF expRow # "none" /\ expOwner = OwnerOf(t) THEN "diagnose" ELSE "leave")
    /\ UNCHANGED <<expVars, trialVars, tuneLease, tuneLeaseOld, robbed, tuneFaults>>

\* The claim of a row that has ended.  cancel_requested stays as it is.
ClaimEnded(t) ==
    /\ tuner[t] = "resume"
    /\ IF expRow \notin {"none", "running"}
       THEN /\ expRow' = "running" /\ expOwner' = OwnerOf(t) /\ expOld' = FALSE
            /\ Moves(t, "diagnose")
       ELSE Moves(t, "takeover") /\ UNCHANGED <<expRow, expOwner, expOld>>
    /\ UNCHANGED <<cancelFlag, trialVars, tuneLease, tuneLeaseOld, robbed, tuneFaults>>

TakeOver(t) ==
    /\ tuner[t] = "takeover"
    /\ IF expRow = "running" /\ expOld
       THEN /\ expOwner' = OwnerOf(t) /\ expOld' = FALSE
            /\ robbed' = (robbed \/ OwnerLives)
            /\ Moves(t, "diagnose")
       ELSE Moves(t, "leave") /\ UNCHANGED <<expOwner, expOld, robbed>>
    /\ UNCHANGED <<expRow, cancelFlag, trialVars, tuneLease, tuneLeaseOld, tuneFaults>>

(***************************************************************************)
(* The batch.  No write of it looks at the owner or the status of the row. *)
(***************************************************************************)
\* The phases up to the trials are one step here: it loads the stored trials.
PublishPhase(t) == /\ AtWork(t)
                   /\ expOld' = (expRow = "none" /\ expOld)
                   /\ Moves(t, "trial")
                   /\ evaluated' = [evaluated EXCEPT ![t] = IF AtTrials(t) THEN @ ELSE trials]
                   /\ UNCHANGED <<expRow, expOwner, cancelFlag, trials, tuneLease, tuneLeaseOld,
                                  robbed, tuneFaults>>

SaveTrial(t, u) == /\ AtTrials(t) /\ ~cancelFlag /\ u \notin evaluated[t]
                   /\ trials' = trials \cup {u}
                   /\ evaluated' = [evaluated EXCEPT ![t] = @ \cup {u}]
                   /\ UNCHANGED <<expVars, tuneLease, tuneLeaseOld, tuner, robbed, tuneFaults>>

CloseAs(t, status) == /\ expRow' = IF expRow = "none" THEN "none" ELSE status
                      /\ Moves(t, "leave")
                      /\ evaluated' = [evaluated EXCEPT ![t] = {}]
                      /\ UNCHANGED <<expOwner, expOld, cancelFlag, trials, tuneLease,
                                     tuneLeaseOld, robbed>>

CloseExperiment(t) == /\ AtTrials(t) /\ evaluated[t] = TrialPoints
                      /\ CloseAs(t, "completed") /\ UNCHANGED tuneFaults

\* A checkpoint between two searches or trials finds the column set.
Cancelled(t) == /\ AtWork(t) /\ cancelFlag
                /\ CloseAs(t, "cancelled") /\ UNCHANGED tuneFaults

\* The gate stands the batch down, or a step of it raises.
StandDown(t) == AtWork(t) /\ TuneFault /\ CloseAs(t, "interrupted")
BatchFails(t) == AtWork(t) /\ TuneFault /\ CloseAs(t, "failed")

(***************************************************************************)
(* Everybody else.                                                         *)
(***************************************************************************)
RequestCancel == /\ expRow = "running" /\ ~cancelFlag /\ TuneFault
                 /\ cancelFlag' = TRUE
                 /\ UNCHANGED <<expRow, expOwner, expOld, trialVars, tuneLease, tuneLeaseOld, tuner,
                                robbed>>

\* The trials go in any case, the row only when it is not running.
PruneExperiment == /\ expRow # "none" /\ TuneFault
                   /\ trials' = {}
                   /\ expRow' = IF expRow = "running" THEN expRow ELSE "none"
                   /\ UNCHANGED <<expOwner, expOld, cancelFlag, evaluated, tuneLease, tuneLeaseOld,
                                  tuner, robbed>>

ExperimentAges == /\ expRow = "running" /\ ~expOld
                  /\ expOld' = TRUE
                  /\ UNCHANGED <<expRow, expOwner, cancelFlag, trialVars, tuneLease, tuneLeaseOld,
                                 tuner, robbed, tuneFaults>>

TuneProcDies(p) == /\ \E t \in Tuners : TuneProc(t) = p /\ tuner[t] # "out"
                   /\ TuneFault
                   /\ tuner' = [t \in Tuners |-> IF TuneProc(t) = p THEN "out" ELSE tuner[t]]
                   /\ evaluated' = [t \in Tuners |-> IF TuneProc(t) = p THEN {} ELSE evaluated[t]]
                   /\ UNCHANGED <<expVars, trials, tuneLease, tuneLeaseOld, robbed>>

ClaimStep(t) == \/ ReclaimExperiment(t) \/ ReadExperiment(t) \/ InsertExperiment(t)
                \/ ConfirmOwner(t) \/ ClaimEnded(t) \/ TakeOver(t)
BatchStep(t) == \/ PublishPhase(t) \/ (\E u \in TrialPoints : SaveTrial(t, u))
                \/ CloseExperiment(t) \/ Cancelled(t) \/ StandDown(t) \/ BatchFails(t)

TuningNext == \/ \E t \in Tuners : \/ EnterTuning(t) \/ EnterUnleased(t) \/ LeaveTuning(t)
                                   \/ ClaimStep(t) \/ BatchStep(t)
              \/ \E p \in TuneProcs : TuneProcDies(p)
              \/ RequestCancel \/ PruneExperiment \/ ExperimentAges \/ TuneLeaseAges

TuningSpec == TuningInit /\ [][TuningNext]_tuneVars

(***************************************************************************)
(* Properties.                                                             *)
(***************************************************************************)

\* Every variable has its type.
TuningTypeOK ==
    /\ expRow \in {"none", "running", "completed", "interrupted", "cancelled", "failed"}
    /\ expOwner \in Tuners \cup {NoTuner} /\ expOld \in BOOLEAN
    /\ cancelFlag \in BOOLEAN
    /\ trials \subseteq TrialPoints /\ evaluated \in [Tuners -> SUBSET TrialPoints]
    /\ tuneLease \in TuneProcs \cup {NoTuner} /\ tuneLeaseOld \in BOOLEAN
    /\ tuner \in [Tuners -> {"out", "entered", "read", "insert", "confirm", "resume", "takeover",
                             "diagnose", "trial", "leave"}]
    /\ robbed \in BOOLEAN /\ tuneFaults \in 0 .. MaxTuneFaults

\* One attempt at a time works on an experiment ("three batches from three
\* threads" gave two): through concurrent inserts, claims of ended rows, deaths,
\* takeovers, cancels and prunes, with the lease or without it, unless a row was
\* judged abandoned before its owner's first phase or during a long one.
OneTuner == robbed \/ \A t, u \in Tuners : AtWork(t) /\ AtWork(u) => t = u
=============================================================================
