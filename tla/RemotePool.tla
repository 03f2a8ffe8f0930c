----------------------------- MODULE RemotePool -----------------------------
(***************************************************************************)
(* The pool of remote preparation workers (WorkerPool of                   *)
(* sync/worker_pool.py).  File workers of the engine share one pool.  Each *)
(* asks for the available endpoints, dispatches to them one after another  *)
(* and records how it went; a breaker per endpoint takes one that keeps    *)
(* failing out of rotation, and lets a probe through after a cooldown.     *)
(* The order is read once and used later, the half-open slot and the       *)
(* record are separate lock scopes, so callers act on what has changed.    *)
(***************************************************************************)
EXTENDS Naturals, Sequences, FiniteSets

CONSTANTS Callers,          \* file workers
          PoolSize,         \* endpoints, numbered from 0
          FailureThreshold, \* FAILURE_THRESHOLD
          MaxDispatches,    \* MAX_ATTEMPTS of a batch
          MaxOutages        \* bound: changes of health, deadlines that pass

ASSUME PoolConstants == /\ {PoolSize, FailureThreshold, MaxDispatches} \subseteq Nat \ {0}
                        /\ MaxOutages \in Nat /\ IsFiniteSet(Callers) /\ Callers # {}

VARIABLES
    failures,   \* _Breaker.failures, counted up to the threshold
    cooled,     \* no cooldown is running: BREAKER_RESET_SECONDS have passed since opened_at
    probing,    \* _Breaker.probing
    cursor,     \* _cursor
    caller,     \* [at, cands, tries, probe, ok] of every caller
    healthy,    \* the endpoint would answer
    wasted,     \* history: dispatches to an open breaker since it opened
    outages

poolVars == <<failures, cooled, probing, cursor, caller, healthy, wasted, outages>>
breakerVars == <<failures, cooled, probing>>

Endpoints == 0 .. PoolSize - 1
NoCall == [at |-> "idle", cands |-> <<>>, tries |-> 0, probe |-> FALSE, ok |-> FALSE]

PoolInit == /\ failures = [e \in Endpoints |-> 0]
            /\ cooled = [e \in Endpoints |-> TRUE]
            /\ probing = [e \in Endpoints |-> FALSE]
            /\ cursor = 0
            /\ caller = [c \in Callers |-> NoCall]
            /\ healthy = [e \in Endpoints |-> TRUE]
            /\ wasted = [e \in Endpoints |-> 0]
            /\ outages = 0

Tripped(e) == failures[e] >= FailureThreshold

\* Mutant: an open breaker never lets a probe through.
AvailableClosed(e) == ~Tripped(e)

Available(e) == ~Tripped(e) \/ (~probing[e] /\ cooled[e])

(***************************************************************************)
(* prepare_batch.                                                          *)
(***************************************************************************)
\* The place of endpoint e in the list rotated to start at k.
Place(k, e) == (e + PoolSize - k) % PoolSize

\* The available endpoints, each once, in the order of the rotated list.
Orders(k) == {s \in UNION {[1 .. n -> Endpoints] : n \in 0 .. PoolSize} :
                 /\ {s[i] : i \in DOMAIN s} = {e \in Endpoints : Available(e)}
                 /\ \A i, j \in DOMAIN s : i < j => Place(k, s[i]) < Place(k, s[j])}

\* No candidate and no attempt left both end the call: the caller prepares locally.
Ordered(c, cands) == caller' = [caller EXCEPT ![c] =
                         IF cands = <<>> THEN NoCall ELSE [@ EXCEPT !.at = "pick", !.cands = cands]]

\* Mutant: every cooled candidate is marked as being probed.
OrderMarking(c) ==
    /\ caller[c].at \in {"idle", "order"}
    /\ cursor' = (cursor + 1) % PoolSize
    /\ \E s \in Orders(cursor') : Ordered(c, s)
    /\ probing' = [e \in Endpoints |-> probing[e] \/ (Tripped(e) /\ Available(e))]
    /\ UNCHANGED <<failures, cooled, healthy, wasted, outages>>

\* Mutant: when every breaker is open, all endpoints are tried.
OrderAnyway(c) ==
    /\ caller[c].at \in {"idle", "order"}
    /\ cursor' = (cursor + 1) % PoolSize
    /\ \E s \in Orders(cursor') :
         Ordered(c, IF s = <<>> THEN [i \in 1 .. PoolSize |-> (cursor' + i - 1) % PoolSize]
                                ELSE s)
    /\ UNCHANGED <<breakerVars, healthy, wasted, outages>>

Order(c) == /\ caller[c].at \in {"idle", "order"}
            /\ cursor' = (cursor + 1) % PoolSize
            /\ \E s \in Orders(cursor') : Ordered(c, s)
            /\ UNCHANGED <<breakerVars, healthy, wasted, outages>>

\* _probe takes the half-open slot of a tripped breaker, taken or not.
Dispatch(c) == /\ caller[c].at = "pick"
               /\ caller[c].cands # <<>> /\ caller[c].tries < MaxDispatches
               /\ LET e == Head(caller[c].cands) IN
                    /\ caller' = [caller EXCEPT ![c].at = "sent", ![c].tries = @ + 1,
                                                ![c].probe = Tripped(e)]
                    /\ probing' = [probing EXCEPT ![e] = @ \/ Tripped(e)]
                    /\ wasted' = [wasted EXCEPT ![e] = IF Tripped(e) /\ ~cooled[e]
                                                       THEN @ + 1 ELSE @]
               /\ UNCHANGED <<failures, cooled, cursor, healthy, outages>>

\* The candidates are used up: order again, or give up.
RoundEnds(c) == /\ caller[c].at = "pick"
                /\ caller[c].cands = <<>> \/ caller[c].tries >= MaxDispatches
                /\ caller' = [caller EXCEPT ![c] = IF @.tries < MaxDispatches
                                                   THEN [@ EXCEPT !.at = "order"] ELSE NoCall]
                /\ UNCHANGED <<breakerVars, cursor, healthy, wasted, outages>>

\* The deadline of the batch passes before a dispatch.
DeadlinePasses(c) == /\ caller[c].at = "pick" /\ caller[c].cands # <<>>
                     /\ outages < MaxOutages /\ outages' = outages + 1
                     /\ caller' = [caller EXCEPT ![c] = NoCall]
                     /\ UNCHANGED <<breakerVars, cursor, healthy, wasted>>

\* An answer, a refusal of the task, an error or a timeout: the slot is left.
Answer(c) == /\ caller[c].at = "sent"
             /\ LET e == Head(caller[c].cands) IN
                  /\ caller' = [caller EXCEPT ![c].at = "record", ![c].ok = healthy[e],
                                              ![c].probe = FALSE]
                  /\ probing' = [probing EXCEPT ![e] = @ /\ ~caller[c].probe]
             /\ UNCHANGED <<failures, cooled, cursor, healthy, wasted, outages>>

RecordSuccess(c) ==
    /\ caller[c].at = "record" /\ caller[c].ok
    /\ LET e == Head(caller[c].cands) IN
         /\ failures' = [failures EXCEPT ![e] = 0]
         /\ probing' = [probing EXCEPT ![e] = FALSE]
         /\ cooled' = [cooled EXCEPT ![e] = TRUE]
         /\ wasted' = [wasted EXCEPT ![e] = 0]
    /\ caller' = [caller EXCEPT ![c] = NoCall]
    /\ UNCHANGED <<cursor, healthy, outages>>

\* From the threshold on every failure starts the cooldown again.
RecordFailure(c) ==
    /\ caller[c].at = "record" /\ ~caller[c].ok
    /\ LET e == Head(caller[c].cands) IN
         /\ failures' = [failures EXCEPT ![e] = IF @ < FailureThreshold THEN @ + 1 ELSE @]
         /\ probing' = [probing EXCEPT ![e] = FALSE]
         /\ cooled' = [cooled EXCEPT ![e] = @ /\ failures'[e] < FailureThreshold]
    /\ caller' = [caller EXCEPT ![c].at = "pick", ![c].cands = Tail(@)]
    /\ UNCHANGED <<cursor, healthy, wasted, outages>>

Cool(e) == /\ ~cooled[e]
           /\ cooled' = [cooled EXCEPT ![e] = TRUE]
           /\ wasted' = [wasted EXCEPT ![e] = 0]
           /\ UNCHANGED <<failures, probing, cursor, caller, healthy, outages>>

Outage(e) == /\ outages < MaxOutages /\ outages' = outages + 1
             /\ healthy' = [healthy EXCEPT ![e] = ~@]
             /\ UNCHANGED <<breakerVars, cursor, caller, wasted>>

CallStep(c) == \/ Order(c) \/ Dispatch(c) \/ RoundEnds(c) \/ Answer(c)
               \/ RecordSuccess(c) \/ RecordFailure(c)

PoolNext == \/ \E c \in Callers : CallStep(c) \/ DeadlinePasses(c)
            \/ \E e \in Endpoints : Cool(e) \/ Outage(e)

PoolSpec == PoolInit /\ [][PoolNext]_poolVars

(***************************************************************************)
(* Properties.                                                             *)
(***************************************************************************)

\* Every variable has its type.
PoolTypeOK ==
    /\ failures \in [Endpoints -> 0 .. FailureThreshold]
    /\ cooled \in [Endpoints -> BOOLEAN] /\ probing \in [Endpoints -> BOOLEAN]
    /\ cursor \in Endpoints
    /\ caller \in [Callers -> [at : {"idle", "order", "pick", "sent", "record"},
                              cands : Seq(Endpoints), tries : 0 .. MaxDispatches,
                              probe : BOOLEAN, ok : BOOLEAN]]
    /\ healthy \in [Endpoints -> BOOLEAN] /\ wasted \in [Endpoints -> Nat]
    /\ outages \in 0 .. MaxOutages

\* The half-open slot is taken only while somebody is probing: no way out of a
\* dispatch leaves a recovered endpoint excluded ("which cannot leak").
NoLeakedProbe == \A e \in Endpoints : probing[e] =>
    \E c \in Callers : caller[c].at = "sent" /\ caller[c].probe /\ Head(caller[c].cands) = e

\* An open breaker costs at most one dispatch of every other caller, the ones
\* whose order was read before it opened, until the cooldown is over.
DeadWorkerIsCheap == \A e \in Endpoints : wasted[e] <= Cardinality(Callers) - 1

\* An endpoint that stays healthy comes back into rotation again and again,
\* however often it had failed.
RecoveredReturns == \A e \in Endpoints : []<>(healthy[e] => ~Tripped(e))
=============================================================================
