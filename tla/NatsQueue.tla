----------------------------- MODULE NatsQueue -----------------------------
(***************************************************************************)
(* The JetStream backend of the task queue (NatsQueue of sync/queue.py)    *)
(* under the drain loop.  A task is a message of a stream: the broker      *)
(* delivers it, redelivers it when no answer comes in time, and forgets it *)
(* on ack or term.  A task that fails for the last time is first published *)
(* on the dead-letter subject and then terminated; requeue_dead publishes  *)
(* a dead record again and then acknowledges it.  Publications carry an id *)
(* the broker remembers for a while, to drop a second copy.                *)
(***************************************************************************)
EXTENDS Naturals, Sequences, FiniteSets

CONSTANTS NatsWorkers,   \* drain loops
          StreamLength,  \* bound: messages of the task subject
          MaxAttempts,   \* max_attempts of a task
          MaxNatsFaults  \* bound: deaths, lapses, errors, forgotten ids

ASSUME NatsConstants == /\ MaxAttempts \in Nat \ {0} /\ MaxNatsFaults \in Nat
                        /\ StreamLength \in Nat /\ IsFiniteSet(NatsWorkers)

VARIABLES
    message,    \* what the broker knows of a message of the task subject
    delivered,  \* num_delivered
    replayOf,   \* the dead record a message replays, 0 for a first publication
    dlq,        \* the dead-letter subject: [of |-> message, state |-> ...]
    remembered, \* Nats-Msg-Id values in the duplicate window
    worker,     \* [at, msg, attempts] of every drain loop
    replayer,   \* the record requeue_dead is at: [at, rec]
    natsFaults

natsVars == <<message, delivered, replayOf, dlq, remembered, worker, replayer, natsFaults>>

NatsMessages == 1 .. StreamLength
Rest == [at |-> "idle", msg |-> 0, attempts |-> 0]
NoReplay == [at |-> "idle", rec |-> 0]

NatsInit == /\ message = [m \in NatsMessages |-> "absent"]
            /\ delivered = [m \in NatsMessages |-> 0]
            /\ replayOf = [m \in NatsMessages |-> 0]
            /\ dlq = <<>> /\ remembered = {}
            /\ worker = [w \in NatsWorkers |-> Rest]
            /\ replayer = NoReplay
            /\ natsFaults = 0

NatsFault == natsFaults < MaxNatsFaults /\ natsFaults' = natsFaults + 1

(***************************************************************************)
(* publish and claim.                                                      *)
(***************************************************************************)
NextFree(m) == message[m] = "absent" /\ \A k \in 1 .. m - 1 : message[k] # "absent"

PublishNew(m) == /\ NextFree(m)
                 /\ message' = [message EXCEPT ![m] = "waiting"]
                 /\ UNCHANGED <<delivered, replayOf, dlq, remembered, worker, replayer, natsFaults>>

\* Mutant: claim skips a message that has had its attempts.
NatsClaimLimited(w, m) == /\ worker[w] = Rest /\ message[m] = "waiting"
                          /\ delivered[m] < MaxAttempts
                          /\ message' = [message EXCEPT ![m] = "out"]
                          /\ delivered' = [delivered EXCEPT ![m] = @ + 1]
                          /\ worker' = [worker EXCEPT ![w] = [at |-> "handle", msg |-> m,
                                                              attempts |-> delivered[m] + 1]]
                          /\ UNCHANGED <<replayOf, dlq, remembered, replayer, natsFaults>>

\* claim looks at no attempt count.
NatsClaim(w, m) == /\ worker[w] = Rest /\ message[m] = "waiting"
                   /\ message' = [message EXCEPT ![m] = "out"]
                   /\ delivered' = [delivered EXCEPT ![m] = @ + 1]
                   /\ worker' = [worker EXCEPT ![w] = [at |-> "handle", msg |-> m,
                                                       attempts |-> delivered[m] + 1]]
                   /\ UNCHANGED <<replayOf, dlq, remembered, replayer, natsFaults>>

(***************************************************************************)
(* The answers.  The broker takes the answer of an earlier delivery too,   *)
(* and ignores one to a message it has settled.                            *)
(***************************************************************************)
Settled(m) == message[m] \in {"acked", "termed"}
Settle(m, how) == message' = [message EXCEPT ![m] = IF Settled(m) THEN @ ELSE how]

NatsAck(w) == /\ worker[w].at = "handle"
              /\ Settle(worker[w].msg, "acked")
              /\ worker' = [worker EXCEPT ![w] = Rest]
              /\ UNCHANGED <<delivered, replayOf, dlq, remembered, replayer, natsFaults>>

\* Mutant: the last attempt is counted one too far.
ExhaustedLate(w) == worker[w].attempts > MaxAttempts

Exhausted(w) == worker[w].attempts >= MaxAttempts

NatsNak(w) ==
    /\ worker[w].at = "handle" /\ ~Exhausted(w)
    /\ message' = [message EXCEPT ![worker[w].msg] = IF @ = "out" THEN "waiting" ELSE @]
    /\ worker' = [worker EXCEPT ![w] = Rest]
    /\ UNCHANGED <<delivered, replayOf, dlq, remembered, replayer, natsFaults>>

DeadId(m) == <<"dlq", m>>
ReplayId(d) == <<"requeue", d>>

\* Mutant: term goes first, the dead record second.
PublishDeadLate(w) ==
    /\ worker[w].at = "handle" /\ Exhausted(w)
    /\ Settle(worker[w].msg, "termed")
    /\ worker' = [worker EXCEPT ![w].at = "term"]
    /\ UNCHANGED <<delivered, replayOf, dlq, remembered, replayer, natsFaults>>

\* nack of a spent task: a durable dead record first, unless its id is known.
PublishDead(w) ==
    /\ worker[w].at = "handle" /\ Exhausted(w)
    /\ LET m == worker[w].msg IN
         /\ dlq' = IF DeadId(m) \in remembered THEN dlq
                   ELSE Append(dlq, [of |-> m, state |-> "waiting"])
         /\ remembered' = remembered \cup {DeadId(m)}
    /\ worker' = [worker EXCEPT ![w].at = "term"]
    /\ UNCHANGED <<message, delivered, replayOf, replayer, natsFaults>>

Term(w) == /\ worker[w].at = "term"
           /\ Settle(worker[w].msg, "termed")
           /\ worker' = [worker EXCEPT ![w] = Rest]
           /\ UNCHANGED <<delivered, replayOf, dlq, remembered, replayer, natsFaults>>

\* The loop dies with its process, or an answer raises: nothing is settled.
WorkerDies(w) == /\ NatsFault /\ worker[w] # Rest
                 /\ worker' = [worker EXCEPT ![w] = Rest]
                 /\ UNCHANGED <<message, delivered, replayOf, dlq, remembered, replayer>>

\* No answer and no in_progress within ack_wait: the message waits again.
\* That is a fault while somebody works on it.
InHand(m) == \E w \in NatsWorkers : worker[w].msg = m
AckWaitEnds(m) == /\ message[m] = "out"
                  /\ message' = [message EXCEPT ![m] = "waiting"]
                  /\ IF InHand(m) THEN NatsFault ELSE UNCHANGED natsFaults
                  /\ UNCHANGED <<delivered, replayOf, dlq, remembered, worker, replayer>>

Forget(id) == /\ NatsFault /\ id \in remembered
              /\ remembered' = remembered \ {id}
              /\ UNCHANGED <<message, delivered, replayOf, dlq, worker, replayer>>

(***************************************************************************)
(* requeue_dead: fetch, publish again, acknowledge, until nothing is left. *)
(***************************************************************************)
FetchDead(d) == /\ replayer = NoReplay /\ dlq[d].state = "waiting"
                /\ \E m \in NatsMessages : message[m] = "absent"
                /\ replayer' = [at |-> "fetched", rec |-> d]
                /\ dlq' = [dlq EXCEPT ![d].state = "out"]
                /\ UNCHANGED <<message, delivered, replayOf, remembered, worker, natsFaults>>

Republish(m) ==
    /\ replayer.at = "fetched"
    /\ NextFree(m)
    /\ LET id == ReplayId(replayer.rec) IN
         IF id \in remembered THEN UNCHANGED <<message, replayOf, remembered>>
         ELSE /\ message' = [message EXCEPT ![m] = "waiting"]
              /\ replayOf' = [replayOf EXCEPT ![m] = replayer.rec]
              /\ remembered' = remembered \cup {id}
    /\ replayer' = [replayer EXCEPT !.at = "published"]
    /\ UNCHANGED <<delivered, dlq, worker, natsFaults>>

AckDead == /\ replayer.at = "published"
           /\ dlq' = [dlq EXCEPT ![replayer.rec].state = "acked"]
           /\ replayer' = NoReplay
           /\ UNCHANGED <<message, delivered, replayOf, remembered, worker, natsFaults>>

ReplayerDies == /\ NatsFault /\ replayer # NoReplay
                /\ replayer' = NoReplay
                /\ dlq' = [dlq EXCEPT ![replayer.rec].state = "waiting"]
                /\ UNCHANGED <<message, delivered, replayOf, remembered, worker>>

NatsNext ==
    \/ \E w \in NatsWorkers : \/ NatsAck(w) \/ NatsNak(w) \/ PublishDead(w) \/ Term(w)
                              \/ WorkerDies(w)
                              \/ \E m \in NatsMessages : NatsClaim(w, m)
    \/ \E m \in NatsMessages : PublishNew(m) \/ AckWaitEnds(m) \/ Republish(m)
    \/ \E id \in remembered : Forget(id)
    \/ \E d \in DOMAIN dlq : FetchDead(d)
    \/ AckDead \/ ReplayerDies

NatsSpec == NatsInit /\ [][NatsNext]_natsVars

(***************************************************************************)
(* Properties.                                                             *)
(***************************************************************************)

\* Every variable has its type.
NatsTypeOK ==
    /\ message \in [NatsMessages -> {"absent", "waiting", "out", "acked", "termed"}]
    /\ delivered \in [NatsMessages -> Nat]
    /\ replayOf \in [NatsMessages -> Nat]
    /\ dlq \in Seq([of : NatsMessages, state : {"waiting", "out", "acked"}])
    /\ remembered \subseteq {DeadId(m) : m \in NatsMessages} \cup {ReplayId(d) : d \in DOMAIN dlq}
    /\ worker \in [NatsWorkers -> {Rest} \cup [at : {"handle", "term"}, msg : NatsMessages,
                                               attempts : Nat \ {0}]]
    /\ replayer \in {NoReplay} \cup [at : {"fetched", "published"}, rec : DOMAIN dlq]
    /\ natsFaults \in 0 .. MaxNatsFaults

\* No task vanishes between two steps: whoever dies when, a message the broker
\* has dropped unfinished has a dead record, and a dead record that is gone has
\* been published again ("Never term first").
NoTaskLost ==
    /\ \A m \in NatsMessages : message[m] = "termed" => \E d \in DOMAIN dlq : dlq[d].of = m
    /\ \A d \in DOMAIN dlq :
          dlq[d].state = "acked" => \E m \in NatsMessages : replayOf[m] = d

\* A task is delivered more often than max_attempts only by as much as loops
\* died or lost their delivery: claim itself sets no limit.
DeliveriesBounded == \A m \in NatsMessages : delivered[m] <= MaxAttempts + natsFaults

\* Every task is acknowledged or dead-lettered in the end, after any number of
\* failures and a bounded number of deaths.
TasksSettle == []<>(\A m \in NatsMessages : message[m] # "absent" => Settled(m))
=============================================================================
