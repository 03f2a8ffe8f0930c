----------------------------- MODULE TaskQueue -----------------------------
(***************************************************************************)
(* The default durable queue, LocalQueue of sync/queue.py, with the drain  *)
(* loops and keepalive threads that use it.  The table index_tasks is the  *)
(* only shared state; every SQL statement is one atomic step, except the   *)
(* claim, which Postgres runs under READ COMMITTED as two: the subquery    *)
(* picks a row, and only the outer WHERE clause is evaluated again when    *)
(* the row is finally locked.                                              *)
(*                                                                         *)
(* Abstractions.  visible_at is kept as "has it passed": a write of        *)
(* visible_at into the future makes visible false and time makes it true   *)
(* again.  enqueued_at is kept as the set of rows that are older.          *)
(* attempts saturates at MaxAttempts + 1: no guard tells larger values     *)
(* apart.  The owner column is written and never read, and is left out.    *)
(***************************************************************************)
EXTENDS Naturals, FiniteSets

CONSTANTS Tasks,        \* task ids, content-addressed on (kb, source, mode)
          Workers,      \* drain loops, each its own claimant
          MaxAttempts,  \* IndexTask.max_attempts
          MaxReplays,   \* bound: how often an operator runs requeue-dead
          Stalls,       \* may a live handler outlast its visibility timeout?
          Purging,      \* does anybody call purge_completed?
          NoTask        \* "no task in hand"

ASSUME QueueConstants == /\ MaxAttempts \in Nat \ {0}
                         /\ MaxReplays \in Nat
                         /\ Stalls \in BOOLEAN
                         /\ Purging \in BOOLEAN
                         /\ NoTask \notin Tasks

VARIABLES
    status,     \* [Tasks -> Status]; "absent": the table has no such row
    attempts,   \* [Tasks -> 0 .. MaxAttempts + 1]
    visible,    \* [Tasks -> BOOLEAN]: visible_at <= now
    older,      \* [Tasks -> SUBSET Tasks]: rows with a smaller enqueued_at
    pc,         \* [Workers -> Pc]: where a drain loop is
    inHand,     \* [Workers -> Tasks \cup {NoTask}]: the IndexTask it holds
    stamp,      \* [Workers -> 0 .. MaxAttempts + 1]: task.attempts of that copy
    admin,      \* what the operator's maintenance command is doing
    batch,      \* the row ids its SELECT returned, not yet written
    replays,    \* requeue-dead commands so far (bound)
    deliveries  \* history: handler runs of a task since it was last armed

rowVars == <<status, attempts, visible, older>>
workerVars == <<pc, inHand, stamp>>
adminVars == <<admin, batch, replays>>
vars == <<status, attempts, visible, older, pc, inHand, stamp, admin, batch,
          replays, deliveries>>

Status == {"absent", "pending", "inflight", "done", "dead"}
Pc == {"polling", "selected", "running", "burying"}

\* Mutant: a claim that looks at pending rows only.
ClaimablePendingOnly(t) == status[t] = "pending" /\ visible[t]

\* status IN ('pending', 'inflight') AND visible_at <= now
Claimable(t) == status[t] \in {"pending", "inflight"} /\ visible[t]

\* The claim's subquery: ORDER BY enqueued_at, id LIMIT 1 over claimable rows.
Oldest(t) == Claimable(t) /\ \A u \in older[t] : ~Claimable(u)

\* w runs t's handler, or holds it on the way to the dead letter.
Holds(w, t) == pc[w] \in {"running", "burying"} /\ inHand[w] = t

Init == /\ status = [t \in Tasks |-> "absent"]
        /\ attempts = [t \in Tasks |-> 0]
        /\ visible = [t \in Tasks |-> FALSE]
        /\ older = [t \in Tasks |-> {}]
        /\ pc = [w \in Workers |-> "polling"]
        /\ inHand = [w \in Workers |-> NoTask]
        /\ stamp = [w \in Workers |-> 0]
        /\ admin = "idle"
        /\ batch = {}
        /\ replays = 0
        /\ deliveries = [t \in Tasks |-> 0]

(***************************************************************************)
(* Publishing.  One INSERT ... ON CONFLICT(id) DO UPDATE ... WHERE         *)
(* status = 'done': a new row is inserted, a finished one is re-armed, and *)
(* a pending, inflight or dead one is left as it is.                       *)
(***************************************************************************)
Arm(t) ==
    /\ status' = [status EXCEPT ![t] = "pending"]
    /\ attempts' = [attempts EXCEPT ![t] = 0]
    /\ visible' = [visible EXCEPT ![t] = TRUE]
    /\ older' = [u \in Tasks |->
                    IF u = t THEN {v \in Tasks \ {t} : status[v] # "absent"}
                             ELSE older[u] \ {t}]
    /\ deliveries' = [deliveries EXCEPT ![t] = 0]
    /\ UNCHANGED <<workerVars, adminVars>>

\* Mutant: the re-arm takes a claimed row as well.
PublishInflight(t) == status[t] \in {"absent", "inflight", "done"} /\ Arm(t)

Publish(t) == status[t] \in {"absent", "done"} /\ Arm(t)

\* The same statement on a row that is outstanding or dead: the WHERE clause
\* matches nothing.
PublishDuplicate(t) == /\ status[t] \in {"pending", "inflight", "dead"}
                       /\ UNCHANGED vars

(***************************************************************************)
(* Claiming.                                                               *)
(***************************************************************************)
ClaimSelect(w, t) ==
    /\ pc[w] = "polling"
    /\ Oldest(t)
    /\ pc' = [pc EXCEPT ![w] = "selected"]
    /\ inHand' = [inHand EXCEPT ![w] = t]
    /\ UNCHANGED <<rowVars, stamp, adminVars, deliveries>>

\* Mutant: a delivery is counted twice.
BumpTwice(n) == IF n > MaxAttempts THEN n ELSE n + 2

\* attempts + 1, as far as any guard can tell.
Bump(n) == IF n > MaxAttempts THEN n ELSE n + 1

\* Mutant: max_attempts is not looked at when a row is claimed.
TakeAlways(w, t) ==
    /\ status' = [status EXCEPT ![t] = "inflight"]
    /\ attempts' = [attempts EXCEPT ![t] = Bump(@)]
    /\ visible' = [visible EXCEPT ![t] = FALSE]
    /\ stamp' = [stamp EXCEPT ![w] = Bump(attempts[t])]
    /\ pc' = [pc EXCEPT ![w] = "running"]
    /\ deliveries' = [deliveries EXCEPT ![t] = @ + 1]
    /\ UNCHANGED <<older, inHand, adminVars>>

\* The claim's SET clauses, and what claim() does with the row it returns.
Take(w, t) ==
    /\ status' = [status EXCEPT ![t] = "inflight"]
    /\ attempts' = [attempts EXCEPT ![t] = Bump(@)]
    /\ visible' = [visible EXCEPT ![t] = FALSE]
    /\ stamp' = [stamp EXCEPT ![w] = Bump(attempts[t])]
    /\ IF Bump(attempts[t]) > MaxAttempts
       THEN /\ pc' = [pc EXCEPT ![w] = "burying"]
            /\ UNCHANGED deliveries
       ELSE /\ pc' = [pc EXCEPT ![w] = "running"]
            /\ deliveries' = [deliveries EXCEPT ![t] = @ + 1]
    /\ UNCHANGED <<older, inHand, adminVars>>

\* Mutant: the outer WHERE does not look at visible_at again.
WinStale(w, t) == status[t] \in {"pending", "inflight"} /\ Take(w, t)

\* The outer WHERE holds for the row as it is now: it is ours.
Win(w, t) == Claimable(t) /\ Take(w, t)

LetGo(w) == /\ pc' = [pc EXCEPT ![w] = "polling"]
            /\ inHand' = [inHand EXCEPT ![w] = NoTask]
            /\ stamp' = [stamp EXCEPT ![w] = 0]

\* Another claimant, an ack or a dead letter got there first: zero rows.
Lose(w, t) == /\ ~Claimable(t)
              /\ LetGo(w)
              /\ UNCHANGED <<rowVars, adminVars, deliveries>>

ClaimUpdate(w, t) == /\ pc[w] = "selected"
                     /\ inHand[w] = t
                     /\ Win(w, t) \/ Lose(w, t)

\* UPDATE ... SET status = 'dead' WHERE id = ?
DeadLetter(t) == /\ status' = [status EXCEPT ![t] =
                                 IF @ = "absent" THEN @ ELSE "dead"]
                 /\ UNCHANGED <<attempts, visible, older>>

\* claim(): the delivery that exceeds max_attempts goes to the dead letter.
Bury(w, t) == /\ pc[w] = "burying"
              /\ inHand[w] = t
              /\ DeadLetter(t)
              /\ LetGo(w)
              /\ UNCHANGED <<adminVars, deliveries>>

(***************************************************************************)
(* Running.  The handler returns and drain acks, or raises and drain nacks *)
(* with the attempts of its own copy of the task.  Neither statement looks *)
(* at who owns the row: WHERE id = ? is all there is.                      *)
(***************************************************************************)
MarkDone(t) == /\ status' = [status EXCEPT ![t] =
                               IF @ = "absent" THEN @ ELSE "done"]
               /\ UNCHANGED <<attempts, visible, older>>

Ack(w, t) == /\ pc[w] = "running"
             /\ inHand[w] = t
             /\ MarkDone(t)
             /\ LetGo(w)
             /\ UNCHANGED <<adminVars, deliveries>>

MakePending(t) ==
    /\ status' = [status EXCEPT ![t] = IF @ = "absent" THEN @ ELSE "pending"]
    /\ visible' = [visible EXCEPT ![t] = FALSE]
    /\ UNCHANGED <<attempts, older>>

\* Mutant: the last attempt is given up before it is made.
NackEarly(w, t) ==
    /\ pc[w] = "running"
    /\ inHand[w] = t
    /\ IF stamp[w] + 1 >= MaxAttempts THEN DeadLetter(t) ELSE MakePending(t)
    /\ LetGo(w)
    /\ UNCHANGED <<adminVars, deliveries>>

Nack(w, t) == /\ pc[w] = "running"
              /\ inHand[w] = t
              /\ IF stamp[w] >= MaxAttempts THEN DeadLetter(t) ELSE MakePending(t)
              /\ LetGo(w)
              /\ UNCHANGED <<adminVars, deliveries>>

\* The keepalive thread: UPDATE ... WHERE id = ? AND status = 'inflight'.
Heartbeat(w, t) ==
    /\ pc[w] = "running"
    /\ inHand[w] = t
    /\ status[t] = "inflight"
    /\ visible' = [visible EXCEPT ![t] = FALSE]
    /\ UNCHANGED <<status, attempts, older, workerVars, adminVars, deliveries>>

\* The process dies; whatever restarts it polls under a new owner id.
Crash(w) == /\ pc[w] \in {"running", "burying"}
            /\ LetGo(w)
            /\ UNCHANGED <<rowVars, adminVars, deliveries>>

\* visible_at passes.  Without stalls a live holder always beats in time.
Lapse(t) == /\ status[t] # "absent"
            /\ ~visible[t]
            /\ Stalls \/ \A w \in Workers : ~Holds(w, t)
            /\ visible' = [visible EXCEPT ![t] = TRUE]
            /\ UNCHANGED <<status, attempts, older, workerVars, adminVars, deliveries>>

(***************************************************************************)
(* Maintenance: both commands SELECT the ids first and then write one row  *)
(* at a time with WHERE id = ?.                                            *)
(***************************************************************************)
RequeueSelect ==
    /\ admin = "idle"
    /\ replays < MaxReplays
    /\ batch' = {t \in Tasks : status[t] = "dead"}
    /\ batch' # {}
    /\ admin' = "requeue"
    /\ replays' = replays + 1
    /\ UNCHANGED <<rowVars, workerVars, deliveries>>

\* The last row written ends the command.
Written(t) == /\ batch' = batch \ {t}
              /\ admin' = IF batch = {t} THEN "idle" ELSE admin
              /\ UNCHANGED replays

RequeueRow(t) ==
    /\ admin = "requeue"
    /\ t \in batch
    /\ status' = [status EXCEPT ![t] = "pending"]
    /\ attempts' = [attempts EXCEPT ![t] = 0]
    /\ visible' = [visible EXCEPT ![t] = TRUE]
    /\ deliveries' = [deliveries EXCEPT ![t] = 0]
    /\ Written(t)
    /\ UNCHANGED <<older, workerVars>>

\* updated_at < cutoff: any finished rows may be the old ones.
PurgeSelect ==
    /\ Purging
    /\ admin = "idle"
    /\ \E old \in SUBSET {t \in Tasks : status[t] = "done"} :
          old # {} /\ batch' = old
    /\ admin' = "purge"
    /\ UNCHANGED <<rowVars, workerVars, replays, deliveries>>

PurgeRow(t) ==
    /\ admin = "purge"
    /\ t \in batch
    /\ status' = [status EXCEPT ![t] = "absent"]
    /\ attempts' = [attempts EXCEPT ![t] = 0]
    /\ visible' = [visible EXCEPT ![t] = FALSE]
    /\ older' = [u \in Tasks |-> IF u = t THEN {} ELSE older[u] \ {t}]
    /\ deliveries' = [deliveries EXCEPT ![t] = 0]
    /\ Written(t)
    /\ UNCHANGED workerVars

Next == \/ \E t \in Tasks : \/ Publish(t) \/ PublishDuplicate(t) \/ Lapse(t)
                           \/ RequeueRow(t) \/ PurgeRow(t)
        \/ \E w \in Workers, t \in Tasks :
              \/ ClaimSelect(w, t) \/ ClaimUpdate(w, t) \/ Bury(w, t)
              \/ Ack(w, t) \/ Nack(w, t) \/ Heartbeat(w, t)
        \/ \E w \in Workers : Crash(w)
        \/ RequeueSelect \/ PurgeSelect

Spec == Init /\ [][Next]_vars

(***************************************************************************)
(* Fairness: the loops keep polling, a statement once issued is executed,  *)
(* a handler ends (the sync child is killed at its deadline), time passes  *)
(* and a maintenance command finishes.  A process does not die between the *)
(* same two statements for ever: strong fairness of Bury.                  *)
(***************************************************************************)
Fairness == /\ \A w \in Workers :
                  /\ WF_vars(\E t \in Tasks : ClaimSelect(w, t))
                  /\ WF_vars(\E t \in Tasks : ClaimUpdate(w, t))
                  /\ WF_vars(\E t \in Tasks : Ack(w, t) \/ Nack(w, t))
            /\ \A t \in Tasks : /\ SF_vars(\E w \in Workers : Bury(w, t))
                                /\ WF_vars(Lapse(t))
            /\ WF_vars(\E t \in Tasks : RequeueRow(t) \/ PurgeRow(t))

LiveSpec == Spec /\ Fairness

(***************************************************************************)
(* Properties.                                                             *)
(***************************************************************************)

\* Every variable has its type (columns of index_tasks, drain() locals).
TypeOK == /\ status \in [Tasks -> Status]
          /\ attempts \in [Tasks -> 0 .. MaxAttempts + 1]
          /\ visible \in [Tasks -> BOOLEAN]
          /\ older \in [Tasks -> SUBSET Tasks]
          /\ pc \in [Workers -> Pc]
          /\ inHand \in [Workers -> Tasks \cup {NoTask}]
          /\ stamp \in [Workers -> 0 .. MaxAttempts + 1]
          /\ admin \in {"idle", "requeue", "purge"}
          /\ batch \in SUBSET Tasks
          /\ replays \in 0 .. MaxReplays
          /\ deliveries \in [Tasks -> Nat]

\* Two drain loops never hold the same task: the comment in _sync_all_queued
\* (sync/engine.py), and what the two-step claim has to guarantee.
ExclusiveDelivery == \A v, w \in Workers, t \in Tasks :
                        Holds(v, t) /\ Holds(w, t) => v = w

\* At-least-once: a row is done only if a handler was started for it after
\* the publish (insert or re-arm) that last asked for a run.
NoLostRequest == \A t \in Tasks : status[t] = "done" => deliveries[t] > 0

\* A poison task cannot consume the fleet: crashes, redeliveries and late
\* nacks included, a request reaches a handler at most MaxAttempts times.
BoundedDelivery == \A t \in Tasks : deliveries[t] <= MaxAttempts

\* A published task does not stay queued or claimed for ever: whatever dies
\* or stalls, it ends done or in the dead letter.
EventuallySettled == \A t \in Tasks :
    status[t] \in {"pending", "inflight"} ~> status[t] \in {"done", "dead", "absent"}

(***************************************************************************)
(* Refinement: what the table and the drain loops mean as requests.        *)
(***************************************************************************)
OwedOf(st) == CASE st = "absent" -> "none"
                [] st \in {"pending", "inflight"} -> "owed"
                [] OTHER -> st
RequestOf == [t \in Tasks |-> OwedOf(status[t])]
ServingOf == [t \in Tasks |-> {w \in Workers : pc[w] = "running" /\ inHand[w] = t}]

Requests == INSTANCE IndexRequests WITH request <- RequestOf, serving <- ServingOf

\* The queue implements the ledger of requests: handed to one worker at a
\* time, closed only by that worker, given up after exactly MaxAttempts
\* deliveries and dead until an operator replays it.
ImplementsRequests == Requests!Spec
=============================================================================
