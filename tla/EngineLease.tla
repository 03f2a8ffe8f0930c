---------------------------- MODULE EngineLease ----------------------------
(***************************************************************************)
(* The writer lease of a SQLite state directory (EngineLease of            *)
(* sync/locks.py): a file with a pid and a heartbeat.  An engine reads the *)
(* file, judges it and writes its own in separate steps; the heartbeat     *)
(* rewrites the file without looking; a release reads it once more and     *)
(* removes it.  A write goes through a temporary file whose name all       *)
(* writers share: open truncates it, the payload is dumped into it, and it *)
(* is renamed over the lease.  A handle stays with its file through a      *)
(* rename.  Engines of one process count as one owner.  The model records  *)
(* the windows these steps leave open, so that the property can say that   *)
(* exclusion fails through them and in no other way.                       *)
(***************************************************************************)
EXTENDS Naturals, FiniteSets

CONSTANTS LeaseEngines, \* engines over one state directory: <<pid, number>>
          NoLease,      \* there is no such file
          Torn,         \* the file is empty or no JSON: _read returns None
          MaxWindows    \* bound: a behaviour is followed until it has passed through more
                        \* windows (EngineExclusive says nothing after the first)

Pid(e) == e[1]
LeaseProcs == {Pid(e) : e \in LeaseEngines}

ASSUME LeaseConstants == /\ NoLease \notin LeaseProcs /\ Torn \notin LeaseProcs
                         /\ NoLease # Torn /\ MaxWindows \in Nat

VARIABLES
    leaseFile,    \* the pid in the file, Torn, or NoLease
    tempFile,     \* the same for engine.lease.tmp
    leaseStale,   \* its heartbeat is older than stale_after_s
    leasePc,      \* of an engine: "out", "judged", "held", "left", "unlink"
    hand,         \* where a write of the engine is: "none", or opened and its handle on
                  \* the file named "temp", "lease" or on none, "lost"; or "dumped"
    sound,        \* history: it has judged, and no other process wrote since
    procUp,       \* the pid runs
    windows       \* history: the windows that were passed through

leaseVars == <<leaseFile, tempFile, leaseStale, leasePc, hand, sound, procUp, windows>>

HeldBy(p) == \E e \in LeaseEngines : Pid(e) = p /\ leasePc[e] = "held"

LeaseInit == /\ leaseFile = NoLease /\ tempFile = NoLease /\ leaseStale = FALSE
             /\ leasePc = [e \in LeaseEngines |-> "out"]
             /\ hand = [e \in LeaseEngines |-> "none"]
             /\ sound = [e \in LeaseEngines |-> FALSE]
             /\ procUp = [p \in LeaseProcs |-> TRUE]
             /\ windows = {}

Goto(e, at) == leasePc' = [leasePc EXCEPT ![e] = at]
WindowIf(name, passed) == windows' = windows \cup (IF passed THEN {name} ELSE {})

\* Mutant: every lease is taken over.
FreeForAnyone(e) == TRUE

\* The file is absent, unreadable, ours, old, or of a pid that does not run.
FreeFor(e) == \/ leaseFile \in {NoLease, Torn, Pid(e)}
              \/ leaseStale
              \/ \E p \in LeaseProcs : leaseFile = p /\ ~procUp[p]

\* The owner is alive and holding: its heartbeat has been failing for long.
Stalled == \E p \in LeaseProcs : leaseFile = p /\ HeldBy(p)

\* A second acquire beside a late write of the first is as that of two engines.
Judge(e) == /\ procUp[Pid(e)] /\ leasePc[e] = "out" /\ hand[e] = "none"
            /\ FreeFor(e)
            /\ Goto(e, "judged")
            /\ sound' = [sound EXCEPT ![e] = TRUE]
            /\ WindowIf("stall", leaseFile # Pid(e) /\ leaseStale /\ Stalled)
            /\ UNCHANGED <<leaseFile, tempFile, leaseStale, hand, procUp>>

(***************************************************************************)
(* _write, by acquire after the judgement and by the heartbeat of a holder,*)
(* whatever the file says by then.                                         *)
(***************************************************************************)
OpenTemp(e) == /\ leasePc[e] \in {"judged", "held"} /\ hand[e] = "none"
               /\ tempFile' = Torn
               /\ hand' = [hand EXCEPT ![e] = "temp"]
               /\ UNCHANGED <<leaseFile, leaseStale, leasePc, sound, procUp, windows>>

\* The payload goes where the handle is.  Over a longer one it leaves a tail.
Dumped(e, before) == IF before = Torn THEN {Pid(e)} ELSE {Pid(e), Torn}

DumpPayload(e) ==
    /\ hand[e] \in {"temp", "lease", "lost"}
    /\ hand' = [hand EXCEPT ![e] = "dumped"]
    /\ \/ /\ hand[e] = "temp"
          /\ tempFile' \in Dumped(e, tempFile)
          /\ UNCHANGED <<leaseFile, leaseStale, windows>>
       \/ /\ hand[e] = "lease"
          /\ leaseFile' \in Dumped(e, leaseFile)
          /\ leaseStale' = FALSE
          /\ WindowIf("temp", leaseFile' # leaseFile)
          /\ UNCHANGED tempFile
       \/ hand[e] = "lost" /\ UNCHANGED <<leaseFile, tempFile, leaseStale, windows>>
    /\ UNCHANGED <<leasePc, sound, procUp>>

\* What the handles of the others are on once the temporary file is the lease.
Moved(h) == CASE h = "temp" -> "lease" [] h = "lease" -> "lost" [] OTHER -> h

\* The windows of a rename: the file is not the engine's own payload, others
\* wrote since it judged, or it is the heartbeat of an engine that has let go.
RenameWindows(e) ==
    windows \cup (IF tempFile # Pid(e) THEN {"temp"} ELSE {})
            \cup (IF leasePc[e] = "judged" /\ ~sound[e] THEN {"race"} ELSE {})
            \cup (IF leasePc[e] \notin {"judged", "held"} THEN {"late"} ELSE {})

RenameTemp(e) == /\ hand[e] = "dumped" /\ tempFile # NoLease
                 /\ leaseFile' = tempFile /\ tempFile' = NoLease /\ leaseStale' = FALSE
                 /\ hand' = [f \in LeaseEngines |-> IF f = e THEN "none" ELSE Moved(hand[f])]
                 /\ sound' = [f \in LeaseEngines |-> sound[f] /\ Pid(f) = Pid(e) /\ f # e]
                 /\ leasePc' = [leasePc EXCEPT ![e] = IF @ = "judged" THEN "held" ELSE @]
                 /\ windows' = RenameWindows(e)
                 /\ UNCHANGED procUp

\* Somebody renamed it away: acquire raises, and the heartbeat tries again.
RenameFails(e) == /\ hand[e] = "dumped" /\ tempFile = NoLease
                  /\ hand' = [hand EXCEPT ![e] = "none"]
                  /\ leasePc' = [leasePc EXCEPT ![e] = IF @ = "judged" THEN "out" ELSE @]
                  /\ sound' = [sound EXCEPT ![e] = FALSE]
                  /\ UNCHANGED <<leaseFile, tempFile, leaseStale, procUp, windows>>

LeaseAges == /\ leaseFile # NoLease /\ ~leaseStale
             /\ leaseStale' = TRUE
             /\ UNCHANGED <<leaseFile, tempFile, leasePc, hand, sound, procUp, windows>>

(***************************************************************************)
(* release: the heartbeat is stopped and joined for a while, _held dropped,*)
(* the file read, and removed if it has our pid.                           *)
(***************************************************************************)
LetLeaseGo(e) == /\ leasePc[e] = "held"
                 /\ Goto(e, "left")
                 /\ UNCHANGED <<leaseFile, tempFile, leaseStale, hand, sound, procUp, windows>>

Mine(e) == leaseFile = Pid(e)

ReadBack(e) == /\ leasePc[e] = "left"
               /\ Goto(e, IF Mine(e) THEN "unlink" ELSE "out")
               /\ UNCHANGED <<leaseFile, tempFile, leaseStale, hand, sound, procUp, windows>>

Unlink(e) == /\ leasePc[e] = "unlink"
             /\ leaseFile' = NoLease /\ leaseStale' = FALSE
             /\ hand' = [f \in LeaseEngines |-> IF hand[f] = "lease" THEN "lost" ELSE hand[f]]
             /\ Goto(e, "out")
             /\ windows' = windows \cup (IF Mine(e) /\ HeldBy(Pid(e)) THEN {"sibling"} ELSE {})
                                   \cup (IF leaseFile \in LeaseProcs \ {Pid(e)} THEN {"race"}
                                         ELSE {})
             /\ UNCHANGED <<tempFile, sound, procUp>>

ProcDies(p) == /\ procUp[p]
               /\ procUp' = [procUp EXCEPT ![p] = FALSE]
               /\ leasePc' = [e \in LeaseEngines |-> IF Pid(e) = p THEN "out" ELSE leasePc[e]]
               /\ hand' = [e \in LeaseEngines |-> IF Pid(e) = p THEN "none" ELSE hand[e]]
               /\ sound' = [e \in LeaseEngines |-> sound[e] /\ Pid(e) # p]
               /\ UNCHANGED <<leaseFile, tempFile, leaseStale, windows>>

\* The next process of the container has the same pid.
ProcStarts(p) == /\ ~procUp[p]
                 /\ procUp' = [procUp EXCEPT ![p] = TRUE]
                 /\ UNCHANGED <<leaseFile, tempFile, leaseStale, leasePc, hand, sound, windows>>

LeaseNext == /\ Cardinality(windows) <= MaxWindows
             /\ \/ \E e \in LeaseEngines : \/ Judge(e) \/ OpenTemp(e) \/ DumpPayload(e)
                                           \/ RenameTemp(e) \/ RenameFails(e)
                                           \/ LetLeaseGo(e) \/ ReadBack(e) \/ Unlink(e)
                \/ LeaseAges
                \/ \E p \in LeaseProcs : ProcDies(p) \/ ProcStarts(p)

LeaseSpec == LeaseInit /\ [][LeaseNext]_leaseVars

(***************************************************************************)
(* Properties.                                                             *)
(***************************************************************************)

\* Every variable has its type.
LeaseTypeOK == /\ {leaseFile, tempFile} \subseteq LeaseProcs \cup {NoLease, Torn}
               /\ leaseStale \in BOOLEAN
               /\ leasePc \in [LeaseEngines -> {"out", "judged", "held", "left", "unlink"}]
               /\ hand \in [LeaseEngines -> {"none", "temp", "lease", "lost", "dumped"}]
               /\ sound \in [LeaseEngines -> BOOLEAN]
               /\ procUp \in [LeaseProcs -> BOOLEAN]
               /\ windows \subseteq {"race", "stall", "sibling", "temp", "late"}

\* Two processes never both hold the lease unless another process wrote the file
\* between an engine's reading and its writing or removing it, or a living
\* owner could not beat for stale_after_s, or an engine released the lease an
\* engine of its own process was still holding, or writers met in the temporary
\* file and one published or overwrote what was not its own, or a heartbeat
\* wrote after the release that joined it.  Deaths, restarts with the same pid
\* and rewrites of the file by the heartbeat break nothing.
EngineExclusive == windows = {} =>
    \A e, f \in LeaseEngines : leasePc[e] = "held" /\ leasePc[f] = "held" => Pid(e) = Pid(f)
=============================================================================
