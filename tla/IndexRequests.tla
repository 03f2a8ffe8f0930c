--------------------------- MODULE IndexRequests ---------------------------
(***************************************************************************)
(* What the durable task queue promises to the callers of sync_all and to  *)
(* the indexers that drain it, with no table, no clock and no SQL:         *)
(*                                                                         *)
(*   - a request is handed to one worker at a time;                        *)
(*   - it is closed only by a worker that was handed it;                   *)
(*   - it is given up after exactly MaxAttempts deliveries, never earlier  *)
(*     and never later, and stays given up until an operator replays it.   *)
(*                                                                         *)
(* TaskQueue (LocalQueue of sync/queue.py) is shown to implement this.     *)
(***************************************************************************)
EXTENDS Naturals

CONSTANTS Tasks,        \* logical task ids: (knowledge base, source, mode)
          Workers,      \* claimants
          MaxAttempts   \* IndexTask.max_attempts

VARIABLES request,      \* [Tasks -> {"none", "owed", "done", "dead"}]
          deliveries,   \* deliveries of the request since it was last made
          serving       \* [Tasks -> SUBSET Workers]: who is running it now

vars == <<request, deliveries, serving>>

Init == /\ request = [t \in Tasks |-> "none"]
        /\ deliveries = [t \in Tasks |-> 0]
        /\ serving = [t \in Tasks |-> {}]

\* A caller asks for a run of t: new, or again after the last one finished.
Request(t) == /\ request[t] \in {"none", "done"}
              /\ request' = [request EXCEPT ![t] = "owed"]
              /\ deliveries' = [deliveries EXCEPT ![t] = 0]
              /\ UNCHANGED serving

\* One worker is handed t, and only while nobody else runs it.
Deliver(t, w) == /\ request[t] = "owed"
                 /\ serving[t] = {}
                 /\ deliveries[t] < MaxAttempts
                 /\ serving' = [serving EXCEPT ![t] = {w}]
                 /\ deliveries' = [deliveries EXCEPT ![t] = @ + 1]
                 /\ UNCHANGED request

\* The worker that runs t finishes it.
Complete(t, w) == /\ request[t] = "owed"
                  /\ w \in serving[t]
                  /\ request' = [request EXCEPT ![t] = "done"]
                  /\ serving' = [serving EXCEPT ![t] = {}]
                  /\ UNCHANGED deliveries

\* The worker that runs t fails or dies; the request is still owed.
Abandon(t, w) == /\ w \in serving[t]
                 /\ serving' = [serving EXCEPT ![t] = {}]
                 /\ UNCHANGED <<request, deliveries>>

\* Nobody finished it in MaxAttempts deliveries: dead-letter it.
GiveUp(t) == /\ request[t] = "owed"
             /\ deliveries[t] = MaxAttempts
             /\ request' = [request EXCEPT ![t] = "dead"]
             /\ serving' = [serving EXCEPT ![t] = {}]
             /\ UNCHANGED deliveries

\* An operator replays a dead letter.
Replay(t) == /\ request[t] = "dead"
             /\ request' = [request EXCEPT ![t] = "owed"]
             /\ deliveries' = [deliveries EXCEPT ![t] = 0]
             /\ UNCHANGED serving

Next == \E t \in Tasks :
            \/ Request(t) \/ GiveUp(t) \/ Replay(t)
            \/ \E w \in Workers : Deliver(t, w) \/ Complete(t, w) \/ Abandon(t, w)

Spec == Init /\ [][Next]_vars
=============================================================================
