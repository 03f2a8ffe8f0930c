--------------------------- MODULE EvaluationRuns ---------------------------
(***************************************************************************)
(* Evaluation batches (evaluation/runner.py, evaluation/store.py).  Every  *)
(* attempt at the same state and configuration is an attempt at the same   *)
(* run row, so the model has one run.  An attempt takes the evaluation     *)
(* lease, which names its process, reads the row, claims it, replays the   *)
(* units that have no checkpoint, writes the report and drops the          *)
(* checkpoints.  Beats keep row and lease fresh; a scheduler marks a stale *)
(* running row interrupted and frees a stale lease.  No write of the row   *)
(* looks at its owner, so all rests on the lease; the model records the    *)
(* windows through which two attempts get past it.                         *)
(***************************************************************************)
EXTENDS Naturals

CONSTANTS Batches,       \* attempts: <<process, number>>
          ReplayUnits,   \* (cohort, variant) pairs of the run
          NoHolder,      \* there is no lease row
          MaxEvalFaults  \* bound: deaths, errors, stalls

Proc(e) == e[1]
EvalProcs == {Proc(e) : e \in Batches}

ASSUME EvalConstants == NoHolder \notin EvalProcs /\ MaxEvalFaults \in Nat

VARIABLES
    runRow, runOld,         \* status of the row; its heartbeat_at is past the window
    evalHolder, evalOld,    \* owner of the lease row; its heartbeat_at is past the window
    checkpoints,            \* evaluation_replays
    batch,                  \* where an attempt is
    guarded,                \* it holds the lease: SourceLease._held
    replayed,               \* by_cohort: the units it has results of
    reclaimer,              \* reclaim_interrupted_runs: "idle", "selected", "marked"
    evalWindows,            \* history: what got an attempt past the lease, or broke one late
    evalFaults

evalVars == <<runRow, runOld, evalHolder, evalOld, checkpoints, batch, guarded, replayed,
              reclaimer, evalWindows, evalFaults>>
rowState == <<runRow, runOld>>
leaseState == <<evalHolder, evalOld>>

SettledRun == {"completed", "truncated", "invalid"}
Unfinished == {"running", "interrupted", "failed"}

EvalInit == /\ runRow = "none" /\ runOld = FALSE
            /\ evalHolder = NoHolder /\ evalOld = FALSE
            /\ checkpoints = {}
            /\ batch = [e \in Batches |-> "out"]
            /\ guarded = [e \in Batches |-> FALSE]
            /\ replayed = [e \in Batches |-> {}]
            /\ reclaimer = "idle" /\ evalWindows = {} /\ evalFaults = 0

Live(e) == batch[e] # "out"
Move(e, at) == batch' = [batch EXCEPT ![e] = at]
Window(w, open) == evalWindows' = IF open THEN evalWindows \cup {w} ELSE evalWindows
EvalFault == evalFaults < MaxEvalFaults /\ evalFaults' = evalFaults + 1

(***************************************************************************)
(* The lease.                                                              *)
(***************************************************************************)
\* It is free, of our process, or stale.  A second attempt of one process walks in.
Enter(e) == /\ batch[e] = "out"
            /\ evalHolder \in {NoHolder, Proc(e)} \/ evalOld
            /\ evalHolder' = Proc(e) /\ evalOld' = FALSE
            /\ guarded' = [guarded EXCEPT ![e] = TRUE]
            /\ Move(e, "entered")
            /\ Window("second", /\ evalHolder = Proc(e)
                                /\ \E f \in Batches : Proc(f) = Proc(e) /\ Live(f))
            /\ UNCHANGED <<rowState, checkpoints, replayed, reclaimer, evalFaults>>

\* The statement raises, and the attempt goes on unguarded.
EnterUnguarded(e) == /\ batch[e] = "out" /\ EvalFault
                     /\ Move(e, "entered")
                     /\ Window("unguarded", TRUE)
                     /\ UNCHANGED <<rowState, leaseState, checkpoints, guarded, replayed,
                                    reclaimer>>

\* The beat stops and our row is deleted, if we held it.
LeaveBatch(e) == /\ batch[e] = "leave"
                 /\ evalHolder' = IF guarded[e] /\ evalHolder = Proc(e) THEN NoHolder
                                  ELSE evalHolder
                 /\ evalOld' = (evalOld /\ evalHolder' # NoHolder)
                 /\ guarded' = [guarded EXCEPT ![e] = FALSE]
                 /\ replayed' = [replayed EXCEPT ![e] = {}]
                 /\ Move(e, "out")
                 /\ UNCHANGED <<rowState, checkpoints, reclaimer, evalWindows, evalFaults>>

(***************************************************************************)
(* open_run reads the row, then inserts or updates it.                     *)
(***************************************************************************)
\* Mutant: a settled run is replayed again, its row left as it is.
ReadRunAgain(e) == /\ batch[e] = "entered"
                   /\ Move(e, IF runRow = "none" THEN "insert"
                              ELSE IF runRow \in SettledRun THEN "replay" ELSE "resume")
                   /\ UNCHANGED <<rowState, leaseState, checkpoints, guarded, replayed, reclaimer,
                                  evalWindows, evalFaults>>

ReadRun(e) == /\ batch[e] = "entered"
              /\ Move(e, IF runRow = "none" THEN "insert"
                         ELSE IF runRow \in SettledRun THEN "leave" ELSE "resume")
              /\ UNCHANGED <<rowState, leaseState, checkpoints, guarded, replayed, reclaimer,
                             evalWindows, evalFaults>>

\* ON CONFLICT DO NOTHING.
InsertRun(e) == /\ batch[e] = "insert"
                /\ runRow' = IF runRow = "none" THEN "running" ELSE runRow
                /\ runOld' = (runOld /\ runRow # "none")
                /\ Move(e, "replay")
                /\ UNCHANGED <<leaseState, checkpoints, guarded, replayed, reclaimer, evalWindows,
                               evalFaults>>

\* The update names the run and nothing else.
ResumeRun(e) == /\ batch[e] = "resume"
                /\ runRow' = "running" /\ runOld' = FALSE
                /\ replayed' = [replayed EXCEPT ![e] = checkpoints]
                /\ Move(e, "replay")
                /\ UNCHANGED <<leaseState, checkpoints, guarded, reclaimer, evalWindows,
                               evalFaults>>

(***************************************************************************)
(* Replay and report.                                                      *)
(***************************************************************************)
ReplayVariant(e, u) == /\ batch[e] = "replay" /\ u \notin replayed[e]
                       /\ replayed' = [replayed EXCEPT ![e] = @ \cup {u}]
                       /\ checkpoints' = checkpoints \cup {u}
                       /\ UNCHANGED <<rowState, leaseState, batch, guarded, reclaimer, evalWindows,
                                      evalFaults>>

\* The report is completed when no unit was skipped; it is invalid, whatever has
\* been replayed, when the snapshot gate refuses.
Outcome(e) == IF replayed[e] = ReplayUnits THEN {"completed", "invalid"}
              ELSE {"truncated", "invalid"}

\* Mutant: the checkpoints go before the report is written.
CloseRunLate(e) == /\ batch[e] = "replay"
                   /\ checkpoints' = {}
                   /\ Move(e, "clear")
                   /\ UNCHANGED <<rowState, leaseState, guarded, replayed, reclaimer, evalWindows,
                                  evalFaults>>

CloseRun(e) == /\ batch[e] = "replay"
               /\ runRow' \in Outcome(e) /\ runOld' = FALSE
               /\ Move(e, "clear")
               /\ UNCHANGED <<leaseState, checkpoints, guarded, replayed, reclaimer, evalWindows,
                              evalFaults>>

ClearCheckpoints(e) == /\ batch[e] = "clear"
                       /\ checkpoints' = {}
                       /\ Move(e, "leave")
                       /\ UNCHANGED <<rowState, leaseState, guarded, replayed, reclaimer,
                                      evalWindows, evalFaults>>

(***************************************************************************)
(* Failure, death, beats.                                                  *)
(***************************************************************************)
\* An exception: the row says failed if that can be written, and the lease is
\* left.  An interrupt may come after the report.  Before the row is claimed
\* nothing is written.
BatchRaises(e) == /\ batch[e] \in {"entered", "insert", "resume", "replay", "clear"} /\ EvalFault
                  /\ \/ batch[e] \in {"replay", "clear"} /\ runRow' = "failed" /\ runOld' = FALSE
                     \/ UNCHANGED rowState
                  /\ Window("late", batch[e] = "clear")
                  /\ Move(e, "leave")
                  /\ UNCHANGED <<leaseState, checkpoints, guarded, replayed, reclaimer>>

EvalProcDies(p) ==
    /\ \E e \in Batches : Proc(e) = p /\ Live(e)
    /\ EvalFault
    /\ batch' = [e \in Batches |-> IF Proc(e) = p THEN "out" ELSE batch[e]]
    /\ guarded' = [e \in Batches |-> guarded[e] /\ Proc(e) # p]
    /\ replayed' = [e \in Batches |-> IF Proc(e) = p THEN {} ELSE replayed[e]]
    /\ UNCHANGED <<rowState, leaseState, checkpoints, reclaimer, evalWindows>>

BeatsRow(e) == batch[e] \in {"replay", "clear", "leave"}
BeatsLease(e) == guarded[e] /\ evalHolder = Proc(e)

\* Without beats the timestamps pass the window; with beats that takes a stall.
RunAges == /\ runRow = "running" /\ ~runOld
           /\ runOld' = TRUE
           /\ IF \E e \in Batches : BeatsRow(e) THEN EvalFault ELSE UNCHANGED evalFaults
           /\ UNCHANGED <<runRow, leaseState, checkpoints, batch, guarded, replayed, reclaimer,
                          evalWindows>>

EvalLeaseAges == /\ evalHolder # NoHolder /\ ~evalOld
                 /\ evalOld' = TRUE
                 /\ LET stalled == \E e \in Batches : BeatsLease(e)
                    IN  /\ IF stalled THEN EvalFault ELSE UNCHANGED evalFaults
                        /\ Window("stalled", stalled)
                 /\ UNCHANGED <<rowState, evalHolder, checkpoints, batch, guarded, replayed,
                                reclaimer>>

EvalBeat(e) == /\ (BeatsRow(e) /\ runOld) \/ (BeatsLease(e) /\ evalOld)
               /\ runOld' = (runOld /\ ~BeatsRow(e))
               /\ evalOld' = (evalOld /\ ~BeatsLease(e))
               /\ UNCHANGED <<runRow, evalHolder, checkpoints, batch, guarded, replayed, reclaimer,
                              evalWindows, evalFaults>>

(***************************************************************************)
(* reclaim_interrupted_runs: select, update, free the lease.               *)
(***************************************************************************)
\* Mutant: only a run whose lease is gone is reclaimed.
SelectStaleFree == /\ reclaimer = "idle" /\ runRow = "running" /\ runOld
                   /\ evalHolder = NoHolder
                   /\ reclaimer' = "selected"
                   /\ UNCHANGED <<rowState, leaseState, checkpoints, batch, guarded, replayed,
                                  evalWindows, evalFaults>>

SelectStale == /\ reclaimer = "idle" /\ runRow = "running" /\ runOld
               /\ reclaimer' = "selected"
               /\ UNCHANGED <<rowState, leaseState, checkpoints, batch, guarded, replayed,
                              evalWindows, evalFaults>>

\* The row may have been resumed since.
MarkInterrupted == /\ reclaimer = "selected"
                   /\ runRow' = IF runRow = "running" THEN "interrupted" ELSE runRow
                   /\ Window("raced", runRow = "running" /\ \E e \in Batches : BeatsRow(e))
                   /\ reclaimer' = "marked"
                   /\ UNCHANGED <<runOld, leaseState, checkpoints, batch, guarded, replayed,
                                  evalFaults>>

\* Mutant: the lease of the reclaimed run is freed, stale or not.
FreeLeaseAnyway == /\ reclaimer = "marked"
                   /\ evalHolder' = NoHolder /\ evalOld' = FALSE
                   /\ reclaimer' = "idle"
                   /\ UNCHANGED <<rowState, checkpoints, batch, guarded, replayed, evalWindows,
                                  evalFaults>>

FreeLease == /\ reclaimer = "marked"
             /\ evalHolder' = IF evalOld THEN NoHolder ELSE evalHolder
             /\ evalOld' = FALSE
             /\ reclaimer' = "idle"
             /\ UNCHANGED <<rowState, checkpoints, batch, guarded, replayed, evalWindows,
                            evalFaults>>

Reclaim == SelectStale \/ MarkInterrupted \/ FreeLease
Advance(e) == \/ ReadRun(e) \/ InsertRun(e) \/ ResumeRun(e) \/ CloseRun(e) \/ ClearCheckpoints(e)
              \/ LeaveBatch(e) \/ \E u \in ReplayUnits : ReplayVariant(e, u)

EvalNext == \/ \E e \in Batches : \/ Enter(e) \/ EnterUnguarded(e) \/ Advance(e) \/ BatchRaises(e)
                                  \/ EvalBeat(e)
            \/ \E p \in EvalProcs : EvalProcDies(p)
            \/ RunAges \/ EvalLeaseAges \/ Reclaim

EvalSpec == EvalInit /\ [][EvalNext]_evalVars

(***************************************************************************)
(* Properties.                                                             *)
(***************************************************************************)

\* Every variable has its type.
EvalTypeOK ==
    /\ runRow \in {"none"} \cup Unfinished \cup SettledRun /\ runOld \in BOOLEAN
    /\ evalHolder \in EvalProcs \cup {NoHolder} /\ evalOld \in BOOLEAN
    /\ checkpoints \subseteq ReplayUnits
    /\ batch \in [Batches -> {"out", "entered", "insert", "resume", "replay", "clear", "leave"}]
    /\ guarded \in [Batches -> BOOLEAN]
    /\ replayed \in [Batches -> SUBSET ReplayUnits]
    /\ reclaimer \in {"idle", "selected", "marked"}
    /\ evalWindows \subseteq {"second", "unguarded", "stalled", "late", "raced"}
    /\ evalFaults \in 0 .. MaxEvalFaults

\* One attempt at a time, through deaths, takeovers of stale leases and
\* reclamations, unless the lease statement failed, a living holder could not
\* beat for the whole window, or a process started a second attempt.
OneAttempt == evalWindows \cap {"second", "unguarded", "stalled"} = {} =>
    \A e, f \in Batches : Live(e) /\ Live(f) => e = f

\* A published report stays: no later attempt, slow attempt or reclamation
\* changes a settled row, as long as attempts never overlapped and none was
\* interrupted after its report ("a completed run is history").
ReportStays == [][(evalWindows' = {} /\ runRow \in SettledRun) => runRow' = runRow]_evalVars

\* What an attempt has replayed is there for the next one until a report is
\* published, whoever died, failed or was reclaimed in between.
CheckpointsSurvive == [][evalWindows' = {} /\ runRow \notin SettledRun
                            => checkpoints \subseteq checkpoints']_evalVars

\* No row says running for ever: a dead attempt is reclaimed, a live one ends.
RunningEnds == []<>(runRow # "running")
=============================================================================
