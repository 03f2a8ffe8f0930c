----------------------------- MODULE RunProofs -----------------------------
(***************************************************************************)
(* Proofs about who may write and who may run: the lease file of a state   *)
(* directory (EngineLease), the orchestrator's lease row (Orchestration),  *)
(* one evaluation run (EvaluationRuns) and one tuning experiment           *)
(* (TuningRuns), for any engines, processes, attempts, units of work,      *)
(* deaths and failures.                                                    *)
(***************************************************************************)
EXTENDS EngineLease, Orchestration, EvaluationRuns, TuningRuns, TLAPS

(***************************************************************************)
(* The lease file.  While no window has been passed through, the file has  *)
(* the pid of whoever holds the lease, and an engine whose judgement still *)
(* stands has judged when no other process was holding.                    *)
(***************************************************************************)
EngineAlive == \A e \in LeaseEngines :
    leasePc[e] # "out" \/ hand[e] # "none" => procUp[Pid(e)]

HolderNamed == \A e \in LeaseEngines : leasePc[e] = "held" => leaseFile = Pid(e)

JudgedRightly == \A e, f \in LeaseEngines :
    leasePc[e] = "judged" /\ sound[e] /\ leasePc[f] = "held" => Pid(e) = Pid(f)

LeaseInv == /\ LeaseTypeOK
            /\ EngineAlive
            /\ windows = {} => HolderNamed /\ JudgedRightly

\* The state directory's lease starts, and every step leaves it, well typed.
LEMMA LeaseTyped == /\ LeaseInit => LeaseTypeOK
                    /\ LeaseTypeOK /\ [LeaseNext]_leaseVars => LeaseTypeOK'
  <1>1. LeaseInit => LeaseTypeOK
    BY DEF LeaseInit, LeaseTypeOK
  <1>2. ASSUME LeaseTypeOK, [LeaseNext]_leaseVars PROVE LeaseTypeOK'
    <2> USE <1>2 DEF LeaseTypeOK
    <2>1. ASSUME NEW e \in LeaseEngines, Judge(e) \/ LetLeaseGo(e) \/ ReadBack(e)
          PROVE  LeaseTypeOK'
      BY <2>1 DEF Judge, LetLeaseGo, ReadBack, Goto, WindowIf
    <2>2. ASSUME NEW e \in LeaseEngines, OpenTemp(e) \/ RenameFails(e)
          PROVE  LeaseTypeOK'
      BY <2>2 DEF OpenTemp, RenameFails
    <2>3. ASSUME NEW e \in LeaseEngines, DumpPayload(e) PROVE LeaseTypeOK'
      <3>1. \A file : Dumped(e, file) \subseteq LeaseProcs \cup {Torn}
        BY DEF Dumped, LeaseProcs
      <3>2. tempFile' \in LeaseProcs \cup {NoLease, Torn}
        BY <2>3, <3>1 DEF DumpPayload
      <3>3. leaseFile' \in LeaseProcs \cup {NoLease, Torn} /\ leaseStale' \in BOOLEAN
        BY <2>3, <3>1 DEF DumpPayload
      <3>4. windows' \subseteq {"race", "stall", "sibling", "temp", "late"}
        BY <2>3 DEF DumpPayload, WindowIf
      <3> QED
        BY <2>3, <3>2, <3>3, <3>4 DEF DumpPayload
    <2>4. ASSUME NEW e \in LeaseEngines, RenameTemp(e) PROVE LeaseTypeOK'
      <3>1. hand' \in [LeaseEngines -> {"none", "temp", "lease", "lost", "dumped"}]
        BY <2>4 DEF RenameTemp, Moved
      <3>2. windows' \subseteq {"race", "stall", "sibling", "temp", "late"}
        BY <2>4 DEF RenameTemp, RenameWindows
      <3>3. sound' \in [LeaseEngines -> BOOLEAN]
        BY <2>4 DEF RenameTemp
      <3> QED
        BY <2>4, <3>1, <3>2, <3>3 DEF RenameTemp
    <2>5. ASSUME NEW e \in LeaseEngines, Unlink(e) PROVE LeaseTypeOK'
      BY <2>5 DEF Unlink, Goto
    <2>6. ASSUME NEW p \in LeaseProcs, ProcDies(p) \/ ProcStarts(p) PROVE LeaseTypeOK'
      <3>1. sound' \in [LeaseEngines -> BOOLEAN]
        BY <2>6 DEF ProcDies, ProcStarts
      <3>2. /\ leasePc' \in [LeaseEngines -> {"out", "judged", "held", "left", "unlink"}]
            /\ hand' \in [LeaseEngines -> {"none", "temp", "lease", "lost", "dumped"}]
        BY <2>6 DEF ProcDies, ProcStarts
      <3>3. procUp' \in [LeaseProcs -> BOOLEAN]
        BY <2>6 DEF ProcDies, ProcStarts
      <3>4. UNCHANGED <<leaseFile, tempFile, leaseStale, windows>>
        BY <2>6 DEF ProcDies, ProcStarts
      <3> QED
        BY <3>1, <3>2, <3>3, <3>4
    <2>7. CASE LeaseAges \/ UNCHANGED leaseVars
      BY <2>7 DEF LeaseAges, leaseVars
    <2> QED
      BY <2>1, <2>2, <2>3, <2>4, <2>5, <2>6, <2>7 DEF LeaseNext
  <1> QED
    BY <1>1, <1>2

\* No step closes a window again.
LEMMA WindowsStay == [LeaseNext]_leaseVars => windows \subseteq windows'
  BY DEF LeaseNext, leaseVars, Judge, OpenTemp, DumpPayload, RenameTemp, RenameFails, LetLeaseGo,
         ReadBack, Unlink, LeaseAges, ProcDies, ProcStarts, WindowIf, RenameWindows

\* An engine that is doing anything belongs to a process that runs.
LEMMA AliveStep == LeaseInv /\ [LeaseNext]_leaseVars => EngineAlive'
  <1> SUFFICES ASSUME LeaseInv, [LeaseNext]_leaseVars PROVE EngineAlive'
    OBVIOUS
  <1> USE DEF LeaseInv, LeaseTypeOK, EngineAlive
  <1>1. ASSUME NEW e \in LeaseEngines,
               Judge(e) \/ LetLeaseGo(e) \/ ReadBack(e) \/ Unlink(e)
        PROVE  EngineAlive'
    BY <1>1 DEF Judge, LetLeaseGo, ReadBack, Unlink, Goto
  <1>2. ASSUME NEW e \in LeaseEngines, OpenTemp(e) \/ DumpPayload(e) \/ RenameFails(e)
        PROVE  EngineAlive'
    BY <1>2 DEF OpenTemp, DumpPayload, RenameFails
  <1>3. ASSUME NEW e \in LeaseEngines, RenameTemp(e) PROVE EngineAlive'
    <2>1. \A f \in LeaseEngines : hand'[f] # "none" => hand[f] # "none"
      BY <1>3 DEF RenameTemp, Moved
    <2>2. \A f \in LeaseEngines : leasePc'[f] # "out" => leasePc[f] # "out"
      BY <1>3 DEF RenameTemp
    <2> QED
      BY <1>3, <2>1, <2>2 DEF RenameTemp
  <1>4. ASSUME NEW p \in LeaseProcs, ProcDies(p) \/ ProcStarts(p)
        PROVE  EngineAlive'
    BY <1>4 DEF ProcDies, ProcStarts, LeaseProcs
  <1>5. CASE LeaseAges \/ UNCHANGED leaseVars
    BY <1>5 DEF LeaseAges, leaseVars
  <1> QED
    BY <1>1, <1>2, <1>3, <1>4, <1>5 DEF LeaseNext

\* What an engine judges free is not held by another process.
LEMMA JudgeSeesHolder ==
    ASSUME LeaseInv, NEW e \in LeaseEngines, Judge(e), windows' = {}
    PROVE  \A f \in LeaseEngines : leasePc[f] = "held" => Pid(f) = Pid(e)
  <1> SUFFICES ASSUME NEW f \in LeaseEngines, leasePc[f] = "held" PROVE Pid(f) = Pid(e)
    OBVIOUS
  <1>1. windows = {}
    BY DEF Judge, WindowIf
  <1>2. leaseFile = Pid(f) /\ Pid(f) \in LeaseProcs /\ procUp[Pid(f)]
    BY <1>1 DEF LeaseInv, HolderNamed, EngineAlive, LeaseProcs
  <1>3. Stalled
    BY <1>2 DEF Stalled, HeldBy
  <1> QED
    BY <1>1, <1>2, <1>3, LeaseConstants DEF Judge, FreeFor, WindowIf

\* A rename through no window publishes the pid of an engine that holds the
\* lease or may take it: whoever holds it afterwards is of its process.
LEMMA RenameNamesHolder ==
    ASSUME LeaseInv, NEW e \in LeaseEngines, RenameTemp(e), windows' = {}
    PROVE  /\ leaseFile' = Pid(e)
           /\ \A f \in LeaseEngines : leasePc'[f] = "held" => Pid(f) = Pid(e)
  <1>1. /\ windows = {} /\ tempFile = Pid(e)
        /\ leasePc[e] = "judged" => sound[e]
        /\ leasePc[e] \in {"judged", "held"}
    BY DEF RenameTemp, RenameWindows
  <1>2. \A f \in LeaseEngines : leasePc[f] = "held" => Pid(f) = Pid(e)
    <2>1. CASE leasePc[e] = "judged"
      BY <1>1, <2>1 DEF LeaseInv, JudgedRightly
    <2>2. CASE leasePc[e] = "held"
      BY <1>1, <2>2 DEF LeaseInv, HolderNamed
    <2> QED
      BY <1>1, <2>1, <2>2
  <1>3. \A f \in LeaseEngines : leasePc'[f] = "held" => f = e \/ leasePc[f] = "held"
    BY DEF RenameTemp, LeaseInv, LeaseTypeOK
  <1> QED
    BY <1>1, <1>2, <1>3 DEF RenameTemp

\* Nobody holds the lease that an engine removes, when no window is passed.
LEMMA UnlinkSeesNone ==
    ASSUME LeaseInv, NEW e \in LeaseEngines, Unlink(e), windows' = {}
    PROVE  \A f \in LeaseEngines : leasePc[f] # "held"
  <1> SUFFICES ASSUME NEW f \in LeaseEngines, leasePc[f] = "held" PROVE FALSE
    OBVIOUS
  <1>1. leaseFile = Pid(f) /\ Pid(f) \in LeaseProcs
    BY DEF LeaseInv, HolderNamed, LeaseProcs, Unlink
  <1>2. CASE Pid(f) = Pid(e)
    BY <1>1, <1>2 DEF Unlink, Mine, HeldBy
  <1>3. CASE Pid(f) # Pid(e)
    BY <1>1, <1>3 DEF Unlink
  <1> QED
    BY <1>2, <1>3

\* The file keeps naming the holder, and judgements that stand stay right.
LEMMA HolderStep == LeaseInv /\ [LeaseNext]_leaseVars /\ windows' = {}
                        => HolderNamed' /\ JudgedRightly'
  <1> SUFFICES ASSUME LeaseInv, [LeaseNext]_leaseVars, windows' = {}
               PROVE  HolderNamed' /\ JudgedRightly'
    OBVIOUS
  <1>0. windows = {} /\ HolderNamed /\ JudgedRightly
    BY WindowsStay DEF LeaseInv
  <1> USE DEF LeaseTypeOK, HolderNamed, JudgedRightly
  <1>1. ASSUME NEW e \in LeaseEngines, Judge(e) PROVE HolderNamed' /\ JudgedRightly'
    BY <1>0, <1>1, JudgeSeesHolder DEF LeaseInv, Judge, Goto
  <1>2. ASSUME NEW e \in LeaseEngines, DumpPayload(e) PROVE HolderNamed' /\ JudgedRightly'
    <2>1. leaseFile' = leaseFile
      BY <1>2 DEF DumpPayload, WindowIf
    <2> QED
      BY <1>0, <1>2, <2>1 DEF DumpPayload
  <1>3. ASSUME NEW e \in LeaseEngines, RenameTemp(e) PROVE HolderNamed' /\ JudgedRightly'
    <2>1. \A f \in LeaseEngines : sound'[f] => Pid(f) = Pid(e)
      BY <1>3 DEF RenameTemp
    <2> QED
      BY <1>3, <2>1, RenameNamesHolder
  <1>4. ASSUME NEW e \in LeaseEngines,
               OpenTemp(e) \/ RenameFails(e) \/ LetLeaseGo(e) \/ ReadBack(e)
        PROVE  HolderNamed' /\ JudgedRightly'
    BY <1>0, <1>4 DEF LeaseInv, OpenTemp, RenameFails, LetLeaseGo, ReadBack, Goto
  <1>5. ASSUME NEW e \in LeaseEngines, Unlink(e) PROVE HolderNamed' /\ JudgedRightly'
    BY <1>5, UnlinkSeesNone DEF LeaseInv, Unlink, Goto
  <1>6. CASE LeaseAges \/ UNCHANGED leaseVars
    BY <1>0, <1>6 DEF LeaseAges, leaseVars
  <1>7. ASSUME NEW p \in LeaseProcs, ProcDies(p) \/ ProcStarts(p)
        PROVE  HolderNamed' /\ JudgedRightly'
    BY <1>0, <1>7 DEF LeaseInv, ProcDies, ProcStarts
  <1> QED
    BY <1>1, <1>2, <1>3, <1>4, <1>5, <1>6, <1>7 DEF LeaseNext

\* Two processes hold the lease of one state directory only after one of the
\* five windows of locks.py was passed through, for any engines and deaths and
\* however their writes meet in the temporary file.
THEOREM EngineIsExclusive == LeaseSpec => []EngineExclusive
  <1>1. LeaseInit => LeaseInv
    BY LeaseTyped DEF LeaseInit, LeaseInv, EngineAlive, HolderNamed, JudgedRightly
  <1>2. LeaseInv /\ [LeaseNext]_leaseVars => LeaseInv'
    BY LeaseTyped, AliveStep, HolderStep DEF LeaseInv
  <1>3. LeaseInv => EngineExclusive
    BY DEF LeaseInv, HolderNamed, EngineExclusive
  <1> QED
    BY <1>1, <1>2, <1>3, PTL DEF LeaseSpec

(***************************************************************************)
(* The orchestrator's lease row.  Whoever takes itself for the holder, and *)
(* has not stalled since its last beat, is the owner of the row, and the   *)
(* row is no older than the heartbeats that failed since, which are fewer  *)
(* than it takes to give up.                                               *)
(***************************************************************************)
HolderIsFresh == \A p \in Indexers : held[p] /\ p \notin stalled =>
    leaseOwner = p /\ leaseAge <= misses[p] /\ misses[p] < GiveUpAfter

FleetInv == FleetTypeOK /\ HolderIsFresh

\* Moving one thread of a loop from a count keeps the counts natural.
LEMMA ThreadCountsTyped ==
    ASSUME NEW f \in [Indexers -> [Loops -> Nat]], NEW p \in Indexers, NEW l \in Loops
    PROVE  /\ [f EXCEPT ![p][l] = @ + 1] \in [Indexers -> [Loops -> Nat]]
           /\ f[p][l] > 0 => [f EXCEPT ![p][l] = @ - 1] \in [Indexers -> [Loops -> Nat]]
  <1>1. \A k \in Nat : k > 0 => k - 1 \in Nat
    OBVIOUS
  <1>2. \A k \in Nat : k + 1 \in Nat
    OBVIOUS
  <1> QED
    BY <1>1, <1>2

LEMMA NothingRuns == /\ NoThreads \in [Loops -> Nat]
                     /\ [l \in Loops |-> TRUE] \in [Loops -> BOOLEAN]
                     /\ [l \in Loops |-> FALSE] \in [Loops -> BOOLEAN]
  BY DEF NoThreads

\* The steps of a loop's threads keep every variable in its type.
LEMMA LoopStepTyped ==
    ASSUME FleetTypeOK, NEW p \in Indexers, NEW l \in Loops, LoopStep(p, l)
    PROVE  FleetTypeOK'
  <1> USE DEF FleetTypeOK, rowVars, beatVars, workVars
  <1>1. CASE Round(p, l)
    BY <1>1, ThreadCountsTyped DEF Round
  <1>2. CASE ThreadEnds(p, l)
    BY <1>2, ThreadCountsTyped DEF ThreadEnds
  <1>3. CASE EnterGate(p, l)
    BY <1>3, ThreadCountsTyped DEF EnterGate
  <1>4. CASE LeaveGate(p, l)
    BY <1>4, ThreadCountsTyped DEF LeaveGate
  <1> QED
    BY <1>1, <1>2, <1>3, <1>4 DEF LoopStep

\* Starting and replacing loops keeps their counts and flags in their types.
LEMMA StartTyped ==
    ASSUME FleetTypeOK, NEW p \in Indexers, StartLoops(p)
    PROVE  /\ idle' \in [Indexers -> [Loops -> Nat]]
           /\ stopped' \in [Indexers -> [Loops -> BOOLEAN]]
           /\ sup' \in [Indexers -> {"poll", "promote", "leaving", "down"}]
  <1>1. [l \in Loops |-> idle[p][l] + 1] \in [Loops -> Nat]
    BY DEF FleetTypeOK
  <1> QED
    BY <1>1, NothingRuns DEF FleetTypeOK, StartLoops

LEMMA FreshTyped ==
    ASSUME FleetTypeOK, NEW p \in Indexers, Fresh(p), faults' \in 0 .. MaxFaults
    PROVE  FleetTypeOK'
  BY NothingRuns DEF FleetTypeOK, Fresh, workVars

\* So do the steps of the election thread.
LEMMA ElectionStepTyped ==
    ASSUME FleetTypeOK, NEW p \in Indexers, ElectionStep(p)
    PROVE  FleetTypeOK'
  <1> USE FleetConstants DEF FleetTypeOK, rowVars, beatVars, loopVars, workVars
  <1>1. CASE Elect(p)
    BY <1>1 DEF Elect
  <1>2. CASE Promote(p)
    BY <1>2, StartTyped DEF Promote
  <1>3. CASE PromoteAgain(p)
    BY <1>3, StartTyped DEF PromoteAgain
  <1>4. CASE StopLoop(p)
    <2>1. stopped' \in [Indexers -> [Loops -> BOOLEAN]]
      BY <1>4 DEF StopLoop
    <2> QED
      BY <1>4, <2>1 DEF StopLoop
  <1>5. CASE Demoted(p)
    BY <1>5 DEF Demoted
  <1>6. CASE ReleaseLease(p)
    BY <1>6 DEF ReleaseLease
  <1>7. CASE Restarted(p)
    BY <1>7, FreshTyped DEF Restarted
  <1> QED
    BY <1>1, <1>2, <1>3, <1>4, <1>5, <1>6, <1>7 DEF ElectionStep

\* The fleet starts, and every step leaves it, well typed.
LEMMA FleetTyped == /\ FleetInit => FleetTypeOK
                    /\ FleetTypeOK /\ [FleetNext]_fleetVars => FleetTypeOK'
  <1>1. FleetInit => FleetTypeOK
    BY FleetConstants, NothingRuns DEF FleetInit, FleetTypeOK
  <1>2. ASSUME FleetTypeOK, [FleetNext]_fleetVars PROVE FleetTypeOK'
    <2> USE <1>2, FleetConstants DEF FleetTypeOK, rowVars, beatVars, loopVars, workVars
    <2>1. ASSUME NEW p \in Indexers, Heartbeat(p) PROVE FleetTypeOK'
      BY <2>1 DEF Heartbeat
    <2>2. ASSUME NEW p \in Indexers, HeartbeatFails(p) PROVE FleetTypeOK'
      BY <2>2 DEF HeartbeatFails, StillHeld
    <2>3. ASSUME NEW p \in Indexers, HeartbeatLost(p) \/ Shutdown(p) PROVE FleetTypeOK'
      <3>1. CASE HeartbeatLost(p)
        BY <3>1 DEF HeartbeatLost
      <3>2. CASE Shutdown(p)
        BY <3>2 DEF Shutdown
      <3> QED
        BY <2>3, <3>1, <3>2
    <2>4. ASSUME NEW p \in Indexers, Dies(p) PROVE FleetTypeOK'
      BY <2>4, FreshTyped DEF Dies
    <2>5. CASE RowAges \/ PublishTask
      BY <2>5 DEF RowAges, PublishTask
    <2>6. CASE UNCHANGED fleetVars
      BY <2>6 DEF fleetVars
    <2>7. ASSUME NEW p \in Indexers, ReconcileEnds(p) PROVE FleetTypeOK'
      BY <2>7 DEF ReconcileEnds
    <2>8. ASSUME NEW p \in Indexers, ClaimTask(p) PROVE FleetTypeOK'
      BY <2>8 DEF ClaimTask
    <2>9. ASSUME NEW p \in Indexers, Stall(p) \/ DrainerRaises(p) PROVE FleetTypeOK'
      <3>1. CASE Stall(p)
        BY <3>1 DEF Stall
      <3>2. CASE DrainerRaises(p)
        BY <3>2 DEF DrainerRaises
      <3> QED
        BY <2>9, <3>1, <3>2
    <2> QED
      BY <2>1, <2>2, <2>3, <2>4, <2>5, <2>6, <2>7, <2>8, <2>9, LoopStepTyped, ElectionStepTyped
      DEF FleetNext
  <1> QED
    BY <1>1, <1>2

\* A supervisor that is elected finds nobody who still holds the lease but by
\* having stalled: the row of any other holder is not stale.
LEMMA ElectedAlone ==
    ASSUME FleetInv, NEW p \in Indexers, Elect(p)
    PROVE  \A q \in Indexers : held[q] => q \in stalled /\ q # p
  BY FleetConstants DEF FleetInv, FleetTypeOK, HolderIsFresh, Elect, Obtainable

\* Only these steps touch the lease.
LEMMA LeaseAlone ==
    ASSUME NEW p \in Indexers,
           \/ Promote(p) \/ PromoteAgain(p) \/ StopLoop(p) \/ Demoted(p) \/ ReconcileEnds(p)
           \/ Shutdown(p) \/ ClaimTask(p) \/ DrainerRaises(p)
           \/ \E l \in Loops : LoopStep(p, l)
    PROVE  UNCHANGED <<leaseOwner, leaseAge, held, misses, stalled>>
  BY DEF Promote, PromoteAgain, StopLoop, Demoted, ReconcileEnds, Shutdown, ClaimTask,
         DrainerRaises, LoopStep, Round, ThreadEnds, EnterGate, LeaveGate, rowVars, beatVars

\* Every step leaves the holder fresh.
LEMMA FreshStep == FleetInv /\ [FleetNext]_fleetVars => HolderIsFresh'
  <1> SUFFICES ASSUME FleetInv, [FleetNext]_fleetVars PROVE HolderIsFresh'
    OBVIOUS
  <1> USE FleetConstants DEF FleetInv, FleetTypeOK, HolderIsFresh, beatVars
  <1>1. ASSUME NEW p \in Indexers, Elect(p) PROVE HolderIsFresh'
    <2>1. \A q \in Indexers : held'[q] /\ q \notin stalled' => q = p
      BY <1>1, ElectedAlone DEF Elect
    <2>2. leaseOwner' = p /\ leaseAge' = 0 /\ misses'[p] = 0
      BY <1>1 DEF Elect
    <2> QED
      BY <2>1, <2>2
  <1>2. ASSUME NEW p \in Indexers, Heartbeat(p) \/ HeartbeatLost(p) PROVE HolderIsFresh'
    <2>1. CASE Heartbeat(p)
      <3>1. leaseOwner' = p /\ leaseAge' = 0 /\ misses'[p] = 0
        BY <2>1 DEF Heartbeat
      <3>2. \A q \in Indexers : held'[q] /\ q \notin stalled' => q = p
        BY <2>1 DEF Heartbeat
      <3> QED
        BY <3>1, <3>2
    <2>2. CASE HeartbeatLost(p)
      <3>1. \A q \in Indexers : held'[q] /\ q \notin stalled' => held[q] /\ q \notin stalled
        BY <2>2 DEF HeartbeatLost
      <3> QED
        BY <2>2, <3>1 DEF HeartbeatLost, rowVars
    <2> QED
      BY <1>2, <2>1, <2>2
  <1>3. ASSUME NEW p \in Indexers, HeartbeatFails(p) PROVE HolderIsFresh'
    <2> SUFFICES ASSUME NEW q \in Indexers, held'[q], q \notin stalled'
                 PROVE  leaseOwner' = q /\ leaseAge' <= misses'[q] /\ misses'[q] < GiveUpAfter
      OBVIOUS
    <2>1. held[q] /\ q \notin stalled
      BY <1>3 DEF HeartbeatFails
    <2>2. leaseOwner = q /\ leaseAge <= misses[q] /\ misses[q] < GiveUpAfter
      BY <2>1
    <2>3. CASE q = p
      <3>1. misses'[q] = misses[q] + 1 /\ leaseOwner' = q /\ leaseAge' <= leaseAge + 1
        BY <1>3, <2>2, <2>3 DEF HeartbeatFails
      <3>2. misses'[q] < GiveUpAfter
        BY <1>3, <2>3 DEF HeartbeatFails, StillHeld
      <3> QED
        BY <1>3, <2>2, <3>1, <3>2 DEF HeartbeatFails
    <2>4. CASE q # p
      BY <1>3, <2>2, <2>4 DEF HeartbeatFails
    <2> QED
      BY <2>3, <2>4
  <1>4. ASSUME NEW p \in Indexers, ReleaseLease(p) PROVE HolderIsFresh'
    BY <1>4 DEF ReleaseLease
  <1>5. ASSUME NEW p \in Indexers, Restarted(p) \/ Dies(p) PROVE HolderIsFresh'
    <2>1. Fresh(p)
      BY <1>5 DEF Restarted, Dies
    <2>2. \A q \in Indexers : held'[q] /\ q \notin stalled' =>
                                  held[q] /\ q \notin stalled /\ q # p
      BY <2>1 DEF Fresh
    <2> QED
      BY <2>1, <2>2 DEF Fresh
  <1>6. CASE RowAges
    BY <1>6 DEF RowAges
  <1>7. CASE PublishTask \/ UNCHANGED fleetVars
    BY <1>7 DEF PublishTask, fleetVars, rowVars, beatVars
  <1>8. CASE UNCHANGED <<leaseOwner, leaseAge, held, misses, stalled>>
    BY <1>8
  <1>9. ASSUME NEW p \in Indexers, Stall(p) PROVE HolderIsFresh'
    BY <1>9 DEF Stall
  <1> QED
    BY <1>1, <1>2, <1>3, <1>4, <1>5, <1>6, <1>7, <1>8, <1>9, LeaseAlone DEF FleetNext, ElectionStep

\* Two supervisors never both take themselves for the holder of the lease but
\* while one of them has stalled, for any processes, failures and promotions, as
\* long as a holder gives up no later than its row goes stale.
THEOREM HoldersAreExclusive == FleetSpec => []HoldersExclude
  <1>1. FleetInit => FleetInv
    BY FleetTyped DEF FleetInit, FleetInv, HolderIsFresh
  <1>2. FleetInv /\ [FleetNext]_fleetVars => FleetInv'
    BY FleetTyped, FreshStep DEF FleetInv
  <1>3. FleetInv => HoldersExclude
    BY DEF FleetInv, HolderIsFresh, HoldersExclude
  <1> QED
    BY <1>1, <1>2, <1>3, PTL DEF FleetSpec

(***************************************************************************)
(* Evaluation: types.                                                      *)
(***************************************************************************)
\* The steps an attempt takes by itself keep every variable in its type.
LEMMA AdvanceTyped ==
    ASSUME EvalTypeOK, NEW e \in Batches, Advance(e)
    PROVE  EvalTypeOK'
  <1> USE DEF EvalTypeOK, rowState, leaseState, Move
  <1>1. CASE ReadRun(e)
    BY <1>1 DEF ReadRun
  <1>2. CASE InsertRun(e)
    BY <1>2 DEF InsertRun, Unfinished
  <1>3. CASE ResumeRun(e)
    BY <1>3 DEF ResumeRun, Unfinished
  <1>4. CASE CloseRun(e)
    BY <1>4 DEF CloseRun, Outcome, SettledRun
  <1>5. CASE ClearCheckpoints(e)
    BY <1>5 DEF ClearCheckpoints
  <1>6. CASE LeaveBatch(e)
    BY <1>6 DEF LeaveBatch
  <1>7. ASSUME NEW u \in ReplayUnits, ReplayVariant(e, u) PROVE EvalTypeOK'
    BY <1>7 DEF ReplayVariant
  <1> QED
    BY <1>1, <1>2, <1>3, <1>4, <1>5, <1>6, <1>7 DEF Advance

\* So do its entry and its failures.
LEMMA EntryTyped ==
    ASSUME EvalTypeOK, NEW e \in Batches, Enter(e) \/ EnterUnguarded(e) \/ BatchRaises(e)
    PROVE  EvalTypeOK'
  <1> USE EvalConstants DEF EvalTypeOK, rowState, leaseState, Move, Window, EvalFault
  <1>1. CASE Enter(e)
    BY <1>1 DEF Enter, EvalProcs
  <1>2. CASE EnterUnguarded(e)
    BY <1>2 DEF EnterUnguarded
  <1>3. CASE BatchRaises(e)
    <2>1. runRow' \in {"none"} \cup Unfinished \cup SettledRun /\ runOld' \in BOOLEAN
      BY <1>3 DEF BatchRaises, Unfinished
    <2>2. evalWindows' \subseteq {"second", "unguarded", "stalled", "late", "raced"}
      BY <1>3 DEF BatchRaises
    <2>3. batch' = [batch EXCEPT ![e] = "leave"] /\ evalFaults' \in 0 .. MaxEvalFaults
      BY <1>3 DEF BatchRaises
    <2> QED
      BY <1>3, <2>1, <2>2, <2>3 DEF BatchRaises
  <1> QED
    BY <1>1, <1>2, <1>3

\* The evaluation run starts, and every step leaves it, well typed.
LEMMA EvalTyped == /\ EvalInit => EvalTypeOK
                   /\ EvalTypeOK /\ [EvalNext]_evalVars => EvalTypeOK'
  <1>1. EvalInit => EvalTypeOK
    <2>1. EvalInit => /\ batch \in [Batches -> {"out"}] /\ guarded \in [Batches -> BOOLEAN]
                      /\ replayed \in [Batches -> SUBSET ReplayUnits]
                      /\ evalFaults \in 0 .. MaxEvalFaults
      BY EvalConstants DEF EvalInit
    <2> QED
      BY <2>1 DEF EvalInit, EvalTypeOK
  <1>2. ASSUME EvalTypeOK, [EvalNext]_evalVars PROVE EvalTypeOK'
    <2> USE <1>2, EvalConstants
        DEF EvalTypeOK, rowState, leaseState, Window, EvalFault
    <2>1. ASSUME NEW e \in Batches, EvalBeat(e) PROVE EvalTypeOK'
      BY <2>1 DEF EvalBeat
    <2>2. ASSUME NEW p \in EvalProcs, EvalProcDies(p) PROVE EvalTypeOK'
      BY <2>2 DEF EvalProcDies
    <2>3. CASE RunAges
      BY <2>3 DEF RunAges
    <2>4. CASE EvalLeaseAges
      BY <2>4 DEF EvalLeaseAges
    <2>5. CASE SelectStale \/ FreeLease
      BY <2>5 DEF SelectStale, FreeLease
    <2>6. CASE MarkInterrupted
      BY <2>6 DEF MarkInterrupted, Unfinished
    <2>7. CASE UNCHANGED evalVars
      BY <2>7 DEF evalVars
    <2> QED
      BY <2>1, <2>2, <2>3, <2>4, <2>5, <2>6, <2>7, AdvanceTyped, EntryTyped DEF EvalNext, Reclaim
  <1> QED
    BY <1>1, <1>2

(***************************************************************************)
(* Evaluation: one attempt at a time.  An attempt that got in through the  *)
(* lease owns it, and the lease of a live attempt does not go stale.       *)
(***************************************************************************)
PastLease == {"second", "unguarded", "stalled"}

LiveOwns == \A e \in Batches : Live(e) => guarded[e] /\ evalHolder = Proc(e) /\ ~evalOld
LiveAlone == \A e, f \in Batches : Live(e) /\ Live(f) => e = f

AttemptInv == evalWindows \cap PastLease = {} => LiveOwns /\ LiveAlone

\* No window closes again.
LEMMA EvalWindowsStay == [EvalNext]_evalVars => evalWindows \subseteq evalWindows'
  BY DEF EvalNext, evalVars, Advance, Reclaim, Window, Enter, EnterUnguarded, ReadRun, InsertRun,
         ResumeRun, CloseRun, ClearCheckpoints, LeaveBatch, ReplayVariant, BatchRaises, EvalBeat,
         EvalProcDies, RunAges, EvalLeaseAges, SelectStale, MarkInterrupted, FreeLease

\* An attempt that is let in without a window finds no other one alive.
LEMMA EntersAlone ==
    ASSUME EvalTypeOK, LiveOwns, NEW e \in Batches, Enter(e), "second" \notin evalWindows'
    PROVE  \A f \in Batches : ~Live(f)
  <1> SUFFICES ASSUME NEW f \in Batches, Live(f) PROVE FALSE
    OBVIOUS
  <1>1. evalHolder = Proc(f) /\ ~evalOld
    BY DEF LiveOwns
  <1>2. Proc(f) # NoHolder
    BY EvalConstants DEF EvalProcs
  <1>3. evalHolder = Proc(e)
    BY <1>1, <1>2 DEF Enter
  <1> QED
    BY <1>1, <1>3 DEF Enter, Window

\* Steps that leave the lease and who is alive alone keep the invariant.
LEMMA LeaseUntouched ==
    ASSUME LiveOwns, LiveAlone, UNCHANGED <<evalHolder, evalOld, guarded>>,
           \A e \in Batches : Live(e)' => Live(e)
    PROVE  (LiveOwns /\ LiveAlone)'
  BY DEF LiveOwns, LiveAlone

LEMMA AttemptStep == EvalTypeOK /\ AttemptInv /\ [EvalNext]_evalVars => AttemptInv'
  <1> SUFFICES ASSUME EvalTypeOK, AttemptInv, [EvalNext]_evalVars,
                      evalWindows' \cap PastLease = {}
               PROVE  (LiveOwns /\ LiveAlone)'
    BY DEF AttemptInv
  <1>0. LiveOwns /\ LiveAlone
    BY EvalWindowsStay DEF AttemptInv
  <1>1. ASSUME NEW e \in Batches, Enter(e) PROVE (LiveOwns /\ LiveAlone)'
    <2>1. \A f \in Batches : ~Live(f)
      BY <1>0, <1>1, EntersAlone DEF PastLease
    <2> QED
      BY <1>1, <2>1 DEF Enter, Move, Live, LiveOwns, LiveAlone, EvalTypeOK
  <1>2. ASSUME NEW e \in Batches, EnterUnguarded(e) PROVE FALSE
    BY <1>2 DEF EnterUnguarded, Window, PastLease
  <1>3. ASSUME NEW e \in Batches, LeaveBatch(e) PROVE (LiveOwns /\ LiveAlone)'
    <2>1. Live(e)
      BY <1>3 DEF LeaveBatch, Live
    <2>2. \A f \in Batches : ~Live(f)'
      BY <1>0, <1>3, <2>1 DEF LeaveBatch, Move, Live, LiveAlone, EvalTypeOK
    <2> QED
      BY <2>2 DEF LiveOwns, LiveAlone
  <1>4. ASSUME NEW e \in Batches,
               \/ ReadRun(e) \/ InsertRun(e) \/ ResumeRun(e) \/ CloseRun(e)
               \/ ClearCheckpoints(e) \/ BatchRaises(e)
               \/ \E u \in ReplayUnits : ReplayVariant(e, u)
        PROVE  (LiveOwns /\ LiveAlone)'
    <2>1. UNCHANGED <<evalHolder, evalOld, guarded>>
      BY <1>4 DEF ReadRun, InsertRun, ResumeRun, CloseRun, ClearCheckpoints, BatchRaises,
                  ReplayVariant, leaseState
    <2>2. \A f \in Batches : Live(f)' => Live(f)
      BY <1>4 DEF ReadRun, InsertRun, ResumeRun, CloseRun, ClearCheckpoints, BatchRaises,
                  ReplayVariant, Move, Live, EvalTypeOK
    <2> QED
      BY <1>0, <2>1, <2>2, LeaseUntouched
  <1>5. ASSUME NEW e \in Batches, EvalBeat(e) PROVE (LiveOwns /\ LiveAlone)'
    BY <1>0, <1>5 DEF EvalBeat, LiveOwns, LiveAlone, Live
  <1>6. ASSUME NEW p \in EvalProcs, EvalProcDies(p) PROVE (LiveOwns /\ LiveAlone)'
    BY <1>0, <1>6 DEF EvalProcDies, leaseState, LiveOwns, LiveAlone, Live, EvalTypeOK
  <1>7. CASE EvalLeaseAges
    <2>1. \A e \in Batches : ~Live(e)
      BY <1>0, <1>7 DEF EvalLeaseAges, BeatsLease, Window, LiveOwns, PastLease
    <2> QED
      BY <1>7, <2>1 DEF EvalLeaseAges, LiveOwns, LiveAlone, Live
  <1>8. CASE FreeLease
    BY <1>0, <1>8 DEF FreeLease, LiveOwns, LiveAlone, Live
  <1>9. CASE RunAges \/ SelectStale \/ MarkInterrupted \/ UNCHANGED evalVars
    <2>1. UNCHANGED <<evalHolder, evalOld, guarded, batch>>
      BY <1>9 DEF RunAges, SelectStale, MarkInterrupted, evalVars, leaseState
    <2> QED
      BY <1>0, <2>1, LeaseUntouched DEF Live
  <1> QED
    BY <1>1, <1>2, <1>3, <1>4, <1>5, <1>6, <1>7, <1>8, <1>9 DEF EvalNext, Advance, Reclaim

\* The evaluation lease lets one attempt at a time work on a run, for any
\* attempts, processes and faults, unless one of the three windows was used.
THEOREM AttemptsAreExclusive == EvalSpec => []OneAttempt
  <1>1. EvalInit => EvalTypeOK /\ AttemptInv
    BY EvalTyped DEF EvalInit, AttemptInv, LiveOwns, LiveAlone, Live
  <1>2. EvalTypeOK /\ AttemptInv /\ [EvalNext]_evalVars => (EvalTypeOK /\ AttemptInv)'
    BY EvalTyped, AttemptStep
  <1>3. AttemptInv => OneAttempt
    BY DEF AttemptInv, LiveAlone, OneAttempt, PastLease
  <1> QED
    BY <1>1, <1>2, <1>3, PTL DEF EvalSpec

(***************************************************************************)
(* Evaluation: the report.  With one attempt at a time, what the attempt   *)
(* read of the row stays true until it writes the row itself.              *)
(***************************************************************************)
RowAsRead == \A e \in Batches :
    /\ batch[e] = "insert" => runRow = "none"
    /\ batch[e] \in {"resume", "replay"} => runRow \in Unfinished
    /\ batch[e] = "clear" => runRow \in SettledRun

ReportInv == EvalTypeOK /\ AttemptInv /\ (evalWindows = {} => RowAsRead)

\* Without windows an attempt that acts is the only one alive.
LEMMA ActsAlone ==
    ASSUME AttemptInv, evalWindows = {}, NEW e \in Batches, Live(e)
    PROVE  \A f \in Batches : f # e => batch[f] = "out"
  BY DEF AttemptInv, PastLease, LiveAlone, Live

\* Every step keeps the attempts' view of the row true.
LEMMA RowAsReadStep ==
    ReportInv /\ [EvalNext]_evalVars /\ evalWindows' = {} => RowAsRead'
  <1> SUFFICES ASSUME ReportInv, [EvalNext]_evalVars, evalWindows' = {} PROVE RowAsRead'
    OBVIOUS
  <1>0. evalWindows = {} /\ RowAsRead /\ EvalTypeOK /\ AttemptInv
    BY EvalWindowsStay DEF ReportInv
  <1> USE DEF RowAsRead, Unfinished, SettledRun
  <1>1. ASSUME NEW e \in Batches, Enter(e) \/ EnterUnguarded(e) PROVE RowAsRead'
    BY <1>0, <1>1 DEF Enter, EnterUnguarded, Move, EvalTypeOK, rowState
  <1>2. ASSUME NEW e \in Batches, Advance(e) \/ BatchRaises(e) PROVE RowAsRead'
    <2>0. Live(e)
      BY <1>2 DEF Live, Advance, ReadRun, InsertRun, ResumeRun, CloseRun, ClearCheckpoints,
                  LeaveBatch, ReplayVariant, BatchRaises
    <2>1. \A f \in Batches : f # e => batch[f] = "out"
      BY <1>0, <2>0, ActsAlone
    <2>2. \A f \in Batches : f # e => batch'[f] = "out"
      BY <1>0, <1>2, <2>1 DEF EvalTypeOK, Move, Advance, ReadRun, InsertRun, ResumeRun, CloseRun,
                  ClearCheckpoints, LeaveBatch, ReplayVariant, BatchRaises
    <2>3. CASE ReadRun(e)
      BY <1>0, <2>2, <2>3 DEF ReadRun, Move, EvalTypeOK, rowState
    <2>4. CASE InsertRun(e)
      BY <1>0, <2>2, <2>4 DEF InsertRun, Move, EvalTypeOK
    <2>5. CASE ResumeRun(e)
      BY <1>0, <2>2, <2>5 DEF ResumeRun, Move, EvalTypeOK
    <2>6. CASE CloseRun(e)
      BY <1>0, <2>2, <2>6 DEF CloseRun, Outcome, Move, EvalTypeOK
    <2>7. CASE ClearCheckpoints(e) \/ LeaveBatch(e) \/ BatchRaises(e)
      BY <1>0, <2>2, <2>7 DEF ClearCheckpoints, LeaveBatch, BatchRaises, Move, EvalTypeOK
    <2>8. CASE \E u \in ReplayUnits : ReplayVariant(e, u)
      BY <1>0, <2>8 DEF ReplayVariant, rowState
    <2> QED
      BY <1>2, <2>3, <2>4, <2>5, <2>6, <2>7, <2>8 DEF Advance
  <1>3. ASSUME NEW p \in EvalProcs, EvalProcDies(p) PROVE RowAsRead'
    BY <1>0, <1>3 DEF EvalProcDies, EvalTypeOK, rowState
  <1>4. CASE MarkInterrupted
    BY <1>0, <1>4 DEF MarkInterrupted, EvalTypeOK
  <1>5. CASE \/ RunAges \/ EvalLeaseAges \/ SelectStale \/ FreeLease \/ UNCHANGED evalVars
             \/ \E e \in Batches : EvalBeat(e)
    <2>1. UNCHANGED <<runRow, batch>>
      BY <1>5 DEF RunAges, EvalLeaseAges, SelectStale, FreeLease, EvalBeat, evalVars, rowState
    <2> QED
      BY <1>0, <2>1
  <1> QED
    BY <1>1, <1>2, <1>3, <1>4, <1>5 DEF EvalNext, Reclaim

LEMMA ReportInvariant == EvalSpec => []ReportInv
  <1>1. EvalInit => ReportInv
    BY EvalTyped DEF EvalInit, ReportInv, AttemptInv, LiveOwns, LiveAlone, Live, RowAsRead
  <1>2. ReportInv /\ [EvalNext]_evalVars => ReportInv'
    BY EvalTyped, AttemptStep, RowAsReadStep DEF ReportInv
  <1> QED
    BY <1>1, <1>2, PTL DEF EvalSpec

\* A published report is never changed, as long as no window was used and no
\* attempt was interrupted after it: for any attempts, units and faults.
THEOREM ReportsStay == EvalSpec => ReportStays
  <1>1. ASSUME ReportInv, EvalNext, evalWindows' = {}, runRow \in SettledRun
        PROVE  runRow' = runRow
    <2>0. evalWindows = {} /\ RowAsRead
      BY <1>1, EvalWindowsStay DEF ReportInv
    <2> USE DEF RowAsRead, Unfinished, SettledRun
    <2>1. ASSUME NEW e \in Batches, Advance(e) PROVE runRow' = runRow
      BY <1>1, <2>0, <2>1 DEF Advance, ReadRun, InsertRun, ResumeRun, CloseRun, ClearCheckpoints,
                              LeaveBatch, ReplayVariant, rowState
    <2>2. ASSUME NEW e \in Batches, BatchRaises(e) PROVE runRow' = runRow
      BY <1>1, <2>0, <2>2 DEF BatchRaises, Window, rowState
    <2>3. ASSUME NEW e \in Batches, Enter(e) \/ EnterUnguarded(e) \/ EvalBeat(e)
          PROVE  runRow' = runRow
      BY <2>3 DEF Enter, EnterUnguarded, EvalBeat, rowState
    <2>4. CASE \/ RunAges \/ EvalLeaseAges \/ SelectStale \/ FreeLease \/ MarkInterrupted
               \/ \E p \in EvalProcs : EvalProcDies(p)
      BY <1>1, <2>4 DEF RunAges, EvalLeaseAges, SelectStale, FreeLease, MarkInterrupted,
                        EvalProcDies, rowState
    <2> QED
      BY <1>1, <2>1, <2>2, <2>3, <2>4 DEF EvalNext, Reclaim
  <1>2. ReportInv /\ [EvalNext]_evalVars
            => [(evalWindows' = {} /\ runRow \in SettledRun) => runRow' = runRow]_evalVars
    BY <1>1
  <1> QED
    BY <1>2, ReportInvariant, PTL DEF EvalSpec, ReportStays

\* What has been replayed stays checkpointed until a report is published, as
\* long as no window was used: for any attempts, units and faults.
THEOREM CheckpointsLast == EvalSpec => CheckpointsSurvive
  <1>1. ASSUME ReportInv, EvalNext, evalWindows' = {}, runRow \notin SettledRun
        PROVE  checkpoints \subseteq checkpoints'
    <2>0. evalWindows = {} /\ RowAsRead
      BY <1>1, EvalWindowsStay DEF ReportInv
    <2>1. ASSUME NEW e \in Batches, ClearCheckpoints(e) PROVE FALSE
      BY <1>1, <2>0, <2>1 DEF ClearCheckpoints, RowAsRead
    <2>2. ASSUME NEW e \in Batches, NEW u \in ReplayUnits, ReplayVariant(e, u)
          PROVE  checkpoints \subseteq checkpoints'
      BY <2>2 DEF ReplayVariant
    <2>3. ASSUME NEW e \in Batches,
                 \/ Enter(e) \/ EnterUnguarded(e) \/ EvalBeat(e) \/ BatchRaises(e)
                 \/ ReadRun(e) \/ InsertRun(e) \/ ResumeRun(e) \/ CloseRun(e) \/ LeaveBatch(e)
          PROVE  checkpoints' = checkpoints
      BY <2>3 DEF Enter, EnterUnguarded, EvalBeat, BatchRaises, ReadRun, InsertRun, ResumeRun,
                  CloseRun, LeaveBatch
    <2>4. CASE \/ RunAges \/ EvalLeaseAges \/ SelectStale \/ FreeLease \/ MarkInterrupted
               \/ \E p \in EvalProcs : EvalProcDies(p)
      BY <2>4 DEF RunAges, EvalLeaseAges, SelectStale, FreeLease, MarkInterrupted, EvalProcDies
    <2> QED
      BY <1>1, <2>1, <2>2, <2>3, <2>4 DEF EvalNext, Advance, Reclaim
  <1>2. ReportInv /\ [EvalNext]_evalVars
            => [evalWindows' = {} /\ runRow \notin SettledRun
                    => checkpoints \subseteq checkpoints']_evalVars
    BY <1>1
  <1> QED
    BY <1>2, ReportInvariant, PTL DEF EvalSpec, CheckpointsSurvive

(***************************************************************************)
(* Tuning: types.                                                          *)
(***************************************************************************)
\* The claim of the row keeps every variable in its type.
LEMMA ClaimTyped ==
    ASSUME TuningTypeOK, NEW t \in Tuners, ClaimStep(t)
    PROVE  TuningTypeOK'
  <1> USE DEF TuningTypeOK, expVars, trialVars, Moves, OwnerOf
  <1>1. CASE ReclaimExperiment(t)
    <2>1. robbed' \in BOOLEAN
      BY <1>1 DEF ReclaimExperiment, OwnerLives
    <2> QED
      BY <1>1, <2>1 DEF ReclaimExperiment
  <1>2. CASE ReadExperiment(t)
    BY <1>2 DEF ReadExperiment
  <1>3. CASE InsertExperiment(t)
    BY <1>3 DEF InsertExperiment
  <1>4. CASE ConfirmOwner(t)
    BY <1>4 DEF ConfirmOwner
  <1>5. CASE ClaimEnded(t)
    BY <1>5 DEF ClaimEnded
  <1>6. CASE TakeOver(t)
    <2>1. robbed' \in BOOLEAN
      BY <1>6 DEF TakeOver, OwnerLives
    <2> QED
      BY <1>6, <2>1 DEF TakeOver
  <1> QED
    BY <1>1, <1>2, <1>3, <1>4, <1>5, <1>6 DEF ClaimStep

\* So does the batch.
LEMMA BatchTyped ==
    ASSUME TuningTypeOK, NEW t \in Tuners, BatchStep(t)
    PROVE  TuningTypeOK'
  <1> USE TuneConstants DEF TuningTypeOK, expVars, trialVars, Moves, TuneFault
  <1>1. CASE PublishPhase(t)
    BY <1>1 DEF PublishPhase
  <1>2. ASSUME NEW u \in TrialPoints, SaveTrial(t, u) PROVE TuningTypeOK'
    BY <1>2 DEF SaveTrial
  <1>3. ASSUME NEW status \in {"completed", "interrupted", "cancelled", "failed"},
               CloseAs(t, status), tuneFaults' \in 0 .. MaxTuneFaults
        PROVE  TuningTypeOK'
    BY <1>3 DEF CloseAs
  <1>4. CASE CloseExperiment(t) \/ Cancelled(t)
    BY <1>3, <1>4 DEF CloseExperiment, Cancelled
  <1>5. CASE StandDown(t) \/ BatchFails(t)
    BY <1>3, <1>5 DEF StandDown, BatchFails
  <1> QED
    BY <1>1, <1>2, <1>4, <1>5 DEF BatchStep

\* The experiment starts, and every step leaves it, well typed.
LEMMA TuningTyped == /\ TuningInit => TuningTypeOK
                     /\ TuningTypeOK /\ [TuningNext]_tuneVars => TuningTypeOK'
  <1>1. TuningInit => TuningTypeOK
    <2>1. TuningInit => /\ evaluated \in [Tuners -> SUBSET TrialPoints]
                        /\ tuner \in [Tuners -> {"out"}]
                        /\ trials \subseteq TrialPoints
      BY DEF TuningInit
    <2>2. TuningInit => tuneFaults \in 0 .. MaxTuneFaults
      BY TuneConstants DEF TuningInit
    <2>3. tuner \in [Tuners -> {"out"}] =>
              tuner \in [Tuners -> {"out", "entered", "read", "insert", "confirm", "resume",
                                    "takeover", "diagnose", "trial", "leave"}]
      OBVIOUS
    <2> QED
      BY <2>1, <2>2, <2>3 DEF TuningInit, TuningTypeOK
  <1>2. ASSUME TuningTypeOK, [TuningNext]_tuneVars PROVE TuningTypeOK'
    <2> USE <1>2, TuneConstants
        DEF TuningTypeOK, expVars, trialVars, Moves, TuneFault
    <2>1. ASSUME NEW t \in Tuners, EnterTuning(t) \/ LeaveTuning(t) PROVE TuningTypeOK'
      BY <2>1 DEF EnterTuning, LeaveTuning, TuneProcs
    <2>2. ASSUME NEW t \in Tuners, EnterUnleased(t) PROVE TuningTypeOK'
      BY <2>2 DEF EnterUnleased
    <2>3. ASSUME NEW p \in TuneProcs, TuneProcDies(p) PROVE TuningTypeOK'
      BY <2>3 DEF TuneProcDies
    <2>4. CASE RequestCancel \/ PruneExperiment
      <3>1. CASE RequestCancel
        BY <3>1 DEF RequestCancel
      <3>2. CASE PruneExperiment
        BY <3>2 DEF PruneExperiment
      <3> QED
        BY <2>4, <3>1, <3>2
    <2>5. CASE ExperimentAges \/ TuneLeaseAges
      BY <2>5 DEF ExperimentAges, TuneLeaseAges
    <2>6. CASE UNCHANGED tuneVars
      BY <2>6 DEF tuneVars
    <2> QED
      BY <2>1, <2>2, <2>3, <2>4, <2>5, <2>6, ClaimTyped, BatchTyped DEF TuningNext
  <1> QED
    BY <1>1, <1>2

(***************************************************************************)
(* Tuning: one attempt at work.  Whoever works is the owner of the row; an *)
(* owner that works, or has inserted and not yet confirmed, finds the row  *)
(* running; and who is about to insert beside another row is not its owner.*)
(***************************************************************************)
WorkerOwns == \A t \in Tuners : AtWork(t) => expOwner = t

Owning(t) == expOwner = t /\ (AtWork(t) \/ tuner[t] = "confirm")
OwnedRuns == \A t \in Tuners : Owning(t) => expRow = "running"

InsertsBeside == \A t \in Tuners : tuner[t] = "insert" /\ expRow # "none" => expOwner # t

TuneInv == TuningTypeOK /\ InsertsBeside /\ (~robbed => WorkerOwns /\ OwnedRuns)

\* A row once taken from a living owner stays marked as that.
LEMMA RobbedStays == TuningTypeOK /\ [TuningNext]_tuneVars /\ ~robbed' => ~robbed
  <1> SUFFICES ASSUME TuningTypeOK, [TuningNext]_tuneVars, robbed PROVE robbed'
    BY DEF TuningTypeOK
  <1>1. ASSUME NEW t \in Tuners, BatchStep(t) PROVE robbed'
    BY <1>1 DEF BatchStep, PublishPhase, SaveTrial, CloseExperiment, Cancelled, StandDown,
                BatchFails, CloseAs
  <1>2. ASSUME NEW t \in Tuners, ClaimStep(t) PROVE robbed'
    BY <1>2 DEF ClaimStep, ReclaimExperiment, ReadExperiment, InsertExperiment, ConfirmOwner,
                ClaimEnded, TakeOver
  <1>3. ASSUME NEW t \in Tuners, EnterTuning(t) \/ EnterUnleased(t) \/ LeaveTuning(t)
        PROVE  robbed'
    BY <1>3 DEF EnterTuning, EnterUnleased, LeaveTuning
  <1>4. CASE \/ RequestCancel \/ PruneExperiment \/ ExperimentAges \/ TuneLeaseAges
             \/ (\E p \in TuneProcs : TuneProcDies(p)) \/ UNCHANGED tuneVars
    BY <1>4 DEF RequestCancel, PruneExperiment, ExperimentAges, TuneLeaseAges, TuneProcDies,
                tuneVars
  <1> QED
    BY <1>1, <1>2, <1>3, <1>4 DEF TuningNext

\* The claim of the row keeps the invariant.
LEMMA ClaimKeeps ==
    ASSUME TuneInv, NEW t \in Tuners, ClaimStep(t), ~robbed' => ~robbed
    PROVE  InsertsBeside' /\ (~robbed' => (WorkerOwns /\ OwnedRuns)')
  <1> USE DEF TuneInv, TuningTypeOK, InsertsBeside, WorkerOwns, OwnedRuns, Owning, AtWork, Moves,
              OwnerOf
  <1>1. CASE ReclaimExperiment(t)
    <2>1. ASSUME ~robbed', NEW u \in Tuners, Owning(u) PROVE expRow' = "running"
      <3>1. OwnerLives /\ expRow = "running"
        BY <1>1, <2>1 DEF OwnerLives
      <3> QED
        BY <1>1, <2>1, <3>1 DEF ReclaimExperiment
    <2> QED
      BY <1>1, <2>1 DEF ReclaimExperiment
  <1>2. CASE ReadExperiment(t)
    BY <1>2 DEF ReadExperiment, expVars
  <1>3. CASE InsertExperiment(t)
    BY <1>3 DEF InsertExperiment, expVars
  <1>4. CASE ConfirmOwner(t)
    BY <1>4 DEF ConfirmOwner, expVars
  <1>5. CASE ClaimEnded(t)
    BY <1>5 DEF ClaimEnded
  <1>6. CASE TakeOver(t)
    <2>1. ASSUME ~robbed', expRow = "running", expOld, NEW u \in Tuners PROVE ~AtWork(u)
      BY <1>6, <2>1 DEF TakeOver, OwnerLives
    <2> QED
      BY <1>6, <2>1 DEF TakeOver
  <1> QED
    BY <1>1, <1>2, <1>3, <1>4, <1>5, <1>6 DEF ClaimStep

\* So does the batch: closing the row is its owner's doing.
LEMMA BatchKeeps ==
    ASSUME TuneInv, NEW t \in Tuners, BatchStep(t), ~robbed' => ~robbed
    PROVE  InsertsBeside' /\ (~robbed' => (WorkerOwns /\ OwnedRuns)')
  <1> USE DEF TuneInv, TuningTypeOK, InsertsBeside, WorkerOwns, OwnedRuns, Owning, AtWork, Moves
  <1>1. CASE PublishPhase(t)
    BY <1>1 DEF PublishPhase
  <1>2. CASE \E u \in TrialPoints : SaveTrial(t, u)
    BY <1>2 DEF SaveTrial, expVars
  <1>3. CASE CloseExperiment(t) \/ Cancelled(t) \/ StandDown(t) \/ BatchFails(t)
    <2>1. PICK status \in {"completed", "interrupted", "cancelled", "failed"} :
              AtWork(t) /\ CloseAs(t, status)
      BY <1>3 DEF CloseExperiment, Cancelled, StandDown, BatchFails, AtTrials
    <2> QED
      BY <2>1 DEF CloseAs
  <1> QED
    BY <1>1, <1>2, <1>3 DEF BatchStep

\* Every step keeps the invariant.
LEMMA TuneKeeps == TuneInv /\ [TuningNext]_tuneVars => TuneInv'
  <1> SUFFICES ASSUME TuneInv, [TuningNext]_tuneVars
               PROVE  InsertsBeside' /\ (~robbed' => (WorkerOwns /\ OwnedRuns)')
    BY TuningTyped DEF TuneInv
  <1>0. ~robbed' => ~robbed
    BY RobbedStays DEF TuneInv
  <1> USE DEF TuneInv, TuningTypeOK, InsertsBeside, WorkerOwns, OwnedRuns, Owning, AtWork, Moves
  <1>1. ASSUME NEW t \in Tuners, EnterTuning(t) \/ EnterUnleased(t) \/ LeaveTuning(t)
        PROVE  InsertsBeside' /\ (~robbed' => (WorkerOwns /\ OwnedRuns)')
    BY <1>0, <1>1 DEF EnterTuning, EnterUnleased, LeaveTuning, expVars
  <1>2. ASSUME NEW p \in TuneProcs, TuneProcDies(p)
        PROVE  InsertsBeside' /\ (~robbed' => (WorkerOwns /\ OwnedRuns)')
    BY <1>0, <1>2 DEF TuneProcDies, expVars
  <1>3. CASE PruneExperiment
    BY <1>0, <1>3 DEF PruneExperiment
  <1>4. CASE RequestCancel \/ ExperimentAges \/ TuneLeaseAges \/ UNCHANGED tuneVars
    BY <1>0, <1>4 DEF RequestCancel, ExperimentAges, TuneLeaseAges, tuneVars, expVars
  <1> QED
    BY <1>0, <1>1, <1>2, <1>3, <1>4, ClaimKeeps, BatchKeeps DEF TuningNext

\* The claim of the row lets one attempt at a time work on an experiment, with
\* the lease or without it, for any attempts, trials and faults, unless a row
\* was judged abandoned while its owner lived.
THEOREM TunersAreExclusive == TuningSpec => []OneTuner
  <1>1. TuningInit => TuneInv
    BY TuningTyped DEF TuningInit, TuneInv, InsertsBeside, WorkerOwns, OwnedRuns, Owning, AtWork
  <1>2. TuneInv => OneTuner
    BY DEF TuneInv, WorkerOwns, OneTuner
  <1> QED
    BY <1>1, <1>2, TuneKeeps, PTL DEF TuningSpec
=============================================================================
