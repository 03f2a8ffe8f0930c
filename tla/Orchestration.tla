--------------------------- MODULE Orchestration ---------------------------
(***************************************************************************)
(* The indexers of a fleet elect one orchestrator (_OrchestrationSupervisor*)
(* of cli.py over the lease of sync/locks.py).  The leader runs three      *)
(* loops: the queue drainer, the scheduler and the file watcher.  All of   *)
(* them, and the reconciliation at promotion, work under one lock per      *)
(* process, the gate.  A loop is stopped by an event and a join that times *)
(* out, so a thread that works, or waits for the gate, outlives its stop,  *)
(* and a later start revives it beside the new one.                        *)
(***************************************************************************)
EXTENDS Naturals, Sequences, Functions

CONSTANTS Indexers,
          OtherLoops,    \* the scheduler and the watcher, in the order _demote stops them
          NoOne,         \* there is no lease row
          Departed,      \* the owner of the row is a process that has ended
          GiveUpAfter,   \* failed heartbeats after which held is dropped
          StaleAfter,    \* heartbeat intervals after which a row is stale
          MaxElections,  \* bound: promotions
          MaxFaults,     \* bound: failed and stalled heartbeats, errors of the drainer,
                         \* deaths and shutdowns
          MaxBacklog     \* bound: tasks ever published

ASSUME FleetConstants == /\ NoOne \notin Indexers /\ Departed \notin Indexers
                         /\ NoOne # Departed
                         /\ GiveUpAfter \in Nat \ {0} /\ StaleAfter \in Nat
                         /\ GiveUpAfter <= StaleAfter
                         /\ {MaxElections, MaxFaults, MaxBacklog} \subseteq Nat
                         /\ MaxFaults < MaxElections

VARIABLES
    leaseOwner, leaseAge,  \* the row: owner, intervals since its heartbeat_at
    held,                  \* SourceLease._held
    misses,                \* failures of _heartbeat_loop in a row
    stalled,               \* history: holders that lost time without an exception
    sup,                   \* where the election thread of the supervisor is
    leader,                \* _leader
    gate,                  \* who has the sync lock of the process
    idle, waiting,         \* threads of a loop: between rounds; at the gate
    stopped,               \* the loop's stop event
    backlog, published,    \* tasks claimable; tasks ever published
    elections, faults

rowVars == <<leaseOwner, leaseAge>>
beatVars == <<held, misses, stalled>>
loopVars == <<gate, idle, waiting, stopped>>
workVars == <<backlog, published>>
fleetVars == <<leaseOwner, leaseAge, held, misses, stalled, sup, leader, gate, idle,
               waiting, stopped, backlog, published, elections, faults>>

\* The order in which _demote stops the loops.
StopOrder == <<"drainer">> \o OtherLoops
Loops == Range(StopOrder)
NoThreads == [l \in Loops |-> 0]

FleetInit == /\ leaseOwner = NoOne /\ leaseAge = 0
             /\ held = [p \in Indexers |-> FALSE]
             /\ misses = [p \in Indexers |-> 0]
             /\ stalled = {}
             /\ sup = [p \in Indexers |-> "poll"]
             /\ leader = [p \in Indexers |-> FALSE]
             /\ gate = [p \in Indexers |-> "free"]
             /\ idle = [p \in Indexers |-> NoThreads]
             /\ waiting = [p \in Indexers |-> NoThreads]
             /\ stopped = [p \in Indexers |-> [l \in Loops |-> TRUE]]
             /\ backlog = 0 /\ published = 0 /\ elections = 0 /\ faults = 0

(***************************************************************************)
(* The lease: one conditional statement to take it, a heartbeat thread to  *)
(* keep it.  Time passes with the heartbeats.                              *)
(***************************************************************************)
\* Mutant: a row is taken over only when it is free or one's own.
ObtainableFree(p) == leaseOwner \in {NoOne, p}

Obtainable(p) == leaseOwner \in {NoOne, p} \/ leaseAge >= StaleAfter

Elect(p) == /\ sup[p] = "poll" /\ ~held[p] /\ ~leader[p]
            /\ elections < MaxElections
            /\ Obtainable(p)
            /\ leaseOwner' = p /\ leaseAge' = 0
            /\ held' = [held EXCEPT ![p] = TRUE]
            /\ misses' = [misses EXCEPT ![p] = 0]
            /\ stalled' = stalled \ {p}
            /\ sup' = [sup EXCEPT ![p] = "promote"]
            /\ leader' = [leader EXCEPT ![p] = TRUE]
            /\ elections' = elections + 1
            /\ UNCHANGED <<loopVars, workVars, faults>>

Heartbeat(p) == /\ held[p] /\ leaseOwner = p
                /\ leaseAge' = 0
                /\ misses' = [misses EXCEPT ![p] = 0]
                /\ stalled' = stalled \ {p}
                /\ UNCHANGED <<leaseOwner, held, sup, leader, loopVars, workVars, elections,
                               faults>>

\* The conditional update found no row of ours.
HeartbeatLost(p) == /\ held[p] /\ leaseOwner # p
                    /\ held' = [held EXCEPT ![p] = FALSE]
                    /\ stalled' = stalled \ {p}
                    /\ UNCHANGED <<rowVars, misses, sup, leader, loopVars, workVars, elections,
                                   faults>>

\* Mutant: leadership is never given up for failing heartbeats.
StillHeldAlways(n) == TRUE

StillHeld(n) == n < GiveUpAfter

HeartbeatFails(p) ==
    /\ held[p] /\ faults < MaxFaults
    /\ faults' = faults + 1
    /\ misses' = [misses EXCEPT ![p] = @ + 1]
    /\ held' = [held EXCEPT ![p] = StillHeld(misses'[p])]
    /\ stalled' = {q \in stalled : held'[q]}
    /\ leaseAge' = IF leaseOwner = p /\ leaseAge < StaleAfter THEN leaseAge + 1 ELSE leaseAge
    /\ UNCHANGED <<leaseOwner, sup, leader, loopVars, workVars, elections>>

\* The heartbeat thread hangs in its statement, or the process is paused: its
\* row grows old, nothing is raised and nothing counted.
Stall(p) == /\ held[p] /\ leaseOwner = p /\ leaseAge < StaleAfter
            /\ faults < MaxFaults
            /\ faults' = faults + 1
            /\ leaseAge' = leaseAge + 1
            /\ stalled' = stalled \cup {p}
            /\ UNCHANGED <<leaseOwner, held, misses, sup, leader, loopVars, workVars, elections>>

\* The row of a process that no longer beats grows old.
RowAges == /\ leaseOwner # NoOne /\ leaseAge < StaleAfter
           /\ \A p \in Indexers : leaseOwner = p => ~held[p]
           /\ leaseAge' = leaseAge + 1
           /\ UNCHANGED <<leaseOwner, beatVars, sup, leader, loopVars, workVars, elections,
                          faults>>

(***************************************************************************)
(* Promotion: reserve the gate, reconcile under it, start the loops.  The  *)
(* election thread waits for the gate and does not look at held meanwhile. *)
(***************************************************************************)
StartLoops(p) == /\ idle' = [idle EXCEPT ![p] = [l \in Loops |-> @[l] + 1]]
                 /\ stopped' = [stopped EXCEPT ![p] = [l \in Loops |-> FALSE]]
                 /\ sup' = [sup EXCEPT ![p] = "poll"]

Promote(p) == /\ sup[p] = "promote"
              /\ gate[p] = "free"
              /\ gate' = [gate EXCEPT ![p] = "reconcile"]
              /\ StartLoops(p)
              /\ UNCHANGED <<rowVars, beatVars, leader, waiting, workVars, elections,
                             faults>>

\* An earlier reconciliation is still running: no second one is started.
PromoteAgain(p) == /\ sup[p] = "promote"
                   /\ gate[p] = "reconcile"
                   /\ StartLoops(p)
                   /\ UNCHANGED <<rowVars, beatVars, leader, gate, waiting, workVars,
                                  elections, faults>>

ReconcileEnds(p) == /\ gate[p] = "reconcile"
                    /\ gate' = [gate EXCEPT ![p] = "free"]
                    /\ UNCHANGED <<rowVars, beatVars, sup, leader, idle, waiting, stopped,
                                   workVars, elections, faults>>

(***************************************************************************)
(* Demotion and shutdown: stop one loop after the other.                   *)
(***************************************************************************)
Demoting(p) == leader[p] /\ (sup[p] = "leaving" \/ (sup[p] = "poll" /\ ~held[p]))

NextToStop(p) == CHOOSE i \in DOMAIN StopOrder :
                     /\ ~stopped[p][StopOrder[i]]
                     /\ \A k \in 1 .. i - 1 : stopped[p][StopOrder[k]]

StopLoop(p) == /\ Demoting(p)
               /\ \E l \in Loops : ~stopped[p][l]
               /\ stopped' = [stopped EXCEPT ![p][StopOrder[NextToStop(p)]] = TRUE]
               /\ UNCHANGED <<rowVars, beatVars, sup, leader, gate, idle, waiting, workVars,
                              elections, faults>>

Demoted(p) == /\ Demoting(p)
              /\ \A l \in Loops : stopped[p][l]
              /\ leader' = [leader EXCEPT ![p] = FALSE]
              /\ UNCHANGED <<rowVars, beatVars, sup, loopVars, workVars, elections, faults>>

Shutdown(p) == /\ sup[p] = "poll" /\ faults < MaxFaults
               /\ faults' = faults + 1
               /\ sup' = [sup EXCEPT ![p] = "leaving"]
               /\ UNCHANGED <<rowVars, beatVars, leader, loopVars, workVars, elections>>

\* The lease is released after the demotion, and only our own row is deleted.
ReleaseLease(p) == /\ sup[p] = "leaving" /\ ~leader[p]
                   /\ leaseOwner' = IF held[p] /\ leaseOwner = p THEN NoOne ELSE leaseOwner
                   /\ held' = [held EXCEPT ![p] = FALSE]
                   /\ stalled' = stalled \ {p}
                   /\ sup' = [sup EXCEPT ![p] = "down"]
                   /\ UNCHANGED <<leaseAge, misses, leader, loopVars, workVars, elections, faults>>

\* The process ends, after a shutdown or by dying, and another with an owner id
\* of its own takes its place.
Fresh(p) == /\ leaseOwner' = IF leaseOwner = p THEN Departed ELSE leaseOwner
            /\ held' = [held EXCEPT ![p] = FALSE]
            /\ misses' = [misses EXCEPT ![p] = 0]
            /\ stalled' = stalled \ {p}
            /\ sup' = [sup EXCEPT ![p] = "poll"]
            /\ leader' = [leader EXCEPT ![p] = FALSE]
            /\ gate' = [gate EXCEPT ![p] = "free"]
            /\ idle' = [idle EXCEPT ![p] = NoThreads]
            /\ waiting' = [waiting EXCEPT ![p] = NoThreads]
            /\ stopped' = [stopped EXCEPT ![p] = [l \in Loops |-> TRUE]]
            /\ UNCHANGED <<leaseAge, workVars, elections>>

Restarted(p) == sup[p] = "down" /\ Fresh(p) /\ UNCHANGED faults

Dies(p) == faults < MaxFaults /\ faults' = faults + 1 /\ Fresh(p)

(***************************************************************************)
(* The loops.  A thread looks at the stop event between rounds, and not    *)
(* while it waits for the gate or works: a drain goes on claiming until    *)
(* the queue is empty.                                                     *)
(***************************************************************************)
Round(p, l) == /\ idle[p][l] > 0 /\ ~stopped[p][l]
               /\ idle' = [idle EXCEPT ![p][l] = @ - 1]
               /\ waiting' = [waiting EXCEPT ![p][l] = @ + 1]
               /\ UNCHANGED <<rowVars, beatVars, sup, leader, gate, stopped, workVars,
                              elections, faults>>

\* Mutant: a stopped thread goes back to sleep instead of ending.
ThreadSleeps(p, l) == /\ idle[p][l] > 0 /\ stopped[p][l]
                      /\ UNCHANGED fleetVars

ThreadEnds(p, l) == /\ idle[p][l] > 0 /\ stopped[p][l]
                    /\ idle' = [idle EXCEPT ![p][l] = @ - 1]
                    /\ UNCHANGED <<rowVars, beatVars, sup, leader, gate, waiting, stopped,
                                   workVars, elections, faults>>

EnterGate(p, l) == /\ waiting[p][l] > 0 /\ gate[p] = "free"
                   /\ waiting' = [waiting EXCEPT ![p][l] = @ - 1]
                   /\ gate' = [gate EXCEPT ![p] = l]
                   /\ UNCHANGED <<rowVars, beatVars, sup, leader, idle, stopped, workVars,
                                  elections, faults>>

ClaimTask(p) == /\ gate[p] = "drainer" /\ backlog > 0
                /\ backlog' = backlog - 1
                /\ UNCHANGED <<rowVars, beatVars, sup, leader, loopVars, published, elections,
                               faults>>

LeaveGate(p, l) == /\ gate[p] = l
                   /\ l = "drainer" => backlog = 0
                   /\ gate' = [gate EXCEPT ![p] = "free"]
                   /\ idle' = [idle EXCEPT ![p][l] = @ + 1]
                   /\ UNCHANGED <<rowVars, beatVars, sup, leader, waiting, stopped, workVars,
                                  elections, faults>>

\* A claim, an ack or a nack raises out of drain: the thread logs it and is gone,
\* and nobody starts another while the process leads.  A task it had claimed is
\* claimable again once its visibility ends.
DrainerRaises(p) == /\ gate[p] = "drainer" /\ faults < MaxFaults
                    /\ faults' = faults + 1
                    /\ gate' = [gate EXCEPT ![p] = "free"]
                    /\ UNCHANGED <<rowVars, beatVars, sup, leader, idle, waiting, stopped,
                                   workVars, elections>>

PublishTask == /\ published < MaxBacklog
               /\ published' = published + 1
               /\ backlog' = backlog + 1
               /\ UNCHANGED <<rowVars, beatVars, sup, leader, loopVars, elections, faults>>

LoopStep(p, l) == Round(p, l) \/ ThreadEnds(p, l) \/ EnterGate(p, l) \/ LeaveGate(p, l)
ElectionStep(p) == \/ Elect(p) \/ Promote(p) \/ PromoteAgain(p) \/ StopLoop(p) \/ Demoted(p)
                   \/ ReleaseLease(p) \/ Restarted(p)

FleetNext == \/ \E p \in Indexers :
                  \/ ElectionStep(p) \/ Heartbeat(p) \/ HeartbeatLost(p) \/ HeartbeatFails(p)
                  \/ Stall(p) \/ ReconcileEnds(p) \/ Shutdown(p) \/ Dies(p) \/ ClaimTask(p)
                  \/ DrainerRaises(p)
                  \/ \E l \in Loops : LoopStep(p, l)
             \/ RowAges \/ PublishTask

FleetSpec == FleetInit /\ [][FleetNext]_fleetVars

(***************************************************************************)
(* Properties.                                                             *)
(***************************************************************************)

\* Every variable has its type.
FleetTypeOK == /\ leaseOwner \in Indexers \cup {NoOne, Departed} /\ leaseAge \in 0 .. StaleAfter
               /\ held \in [Indexers -> BOOLEAN] /\ misses \in [Indexers -> Nat]
               /\ stalled \subseteq Indexers
               /\ sup \in [Indexers -> {"poll", "promote", "leaving", "down"}]
               /\ leader \in [Indexers -> BOOLEAN]
               /\ gate \in [Indexers -> {"free", "reconcile"} \cup Loops]
               /\ idle \in [Indexers -> [Loops -> Nat]]
               /\ waiting \in [Indexers -> [Loops -> Nat]]
               /\ stopped \in [Indexers -> [Loops -> BOOLEAN]]
               /\ backlog \in 0 .. published /\ published \in 0 .. MaxBacklog
               /\ elections \in 0 .. MaxElections /\ faults \in 0 .. MaxFaults

\* Two supervisors never both take themselves for the holder of the lease,
\* unless the heartbeat of one of them lost time without an exception and has
\* not run since: whoever cannot beat gives up before another may find the row
\* stale ("Continuing to orchestrate after three missed heartbeats risks
\* overlapping a successor that correctly took the stale lease").
HoldersExclude == \A p, q \in Indexers :
    held[p] /\ held[q] => p = q \/ p \in stalled \/ q \in stalled

\* A process that is not the leader, and does not become it again, ends its
\* loops: the threads that outlive the joins of _demote, and the ones revived
\* by a second promotion, all come to an end.
Quiet(p) == gate[p] = "free" /\ idle[p] = NoThreads /\ waiting[p] = NoThreads
DemotedQuiesces == \A p \in Indexers : []<>(leader[p] \/ Quiet(p))

\* The rounds of the other loops are intervals apart: the gate that keeps coming
\* free is not denied to the drainer for ever.
DrainerGetsIn == SF_fleetVars(\E p \in Indexers : EnterGate(p, "drainer"))

\* The process leads, and its drainer has ended with an exception.
Deserted(p) == /\ leader[p] /\ sup[p] = "poll" /\ ~stopped[p]["drainer"]
               /\ gate[p] # "drainer" /\ idle[p]["drainer"] + waiting[p]["drainer"] = 0

\* Published tasks are claimed in the end, whichever process stalls, fails,
\* demotes or restarts, unless the leader goes on without its drainer: the lease
\* of a dead leader goes stale, a successor is elected and its drainer gets past
\* the reconciliation and the other loops at the gate.
BacklogDrains == DrainerGetsIn => []<>(backlog = 0 \/ \E p \in Indexers : Deserted(p))
=============================================================================
