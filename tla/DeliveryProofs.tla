--------------------------- MODULE DeliveryProofs ---------------------------
(***************************************************************************)
(* Proofs about what is handed on: no task of the JetStream queue is lost  *)
(* and none is delivered without end, whoever dies when; no event of the   *)
(* observation ledger vanishes uncounted, and cold storage has it once.    *)
(***************************************************************************)
EXTENDS NatsQueue, LogTier, FiniteSetTheorems, WellFoundedInduction, TLAPS

(***************************************************************************)
(* NatsQueue: what a dead letter and a replay leave behind.                *)
(***************************************************************************)
DeadRecord == [of : NatsMessages, state : {"waiting", "out", "acked"}]

Dead(m) == \E d \in DOMAIN dlq : dlq[d].of = m
Replayed(d) == \E m \in NatsMessages : replayOf[m] = d

\* Whoever may forget a task has seen to its copy first: a loop about to term,
\* an id the broker remembers, a replay about to be acknowledged.
CopiesExist ==
    /\ \A w \in NatsWorkers : worker[w].at = "term" => Dead(worker[w].msg)
    /\ \A m \in NatsMessages : DeadId(m) \in remembered => Dead(m)
    /\ \A d \in DOMAIN dlq : ReplayId(d) \in remembered => Replayed(d)
    /\ replayer.at = "published" => Replayed(replayer.rec)
    /\ \A m \in NatsMessages : message[m] = "absent" => replayOf[m] = 0

LossInv == NatsTypeOK /\ CopiesExist /\ NoTaskLost

\* A sequence of records as a function, and back.
LEMMA DlqShape ==
    ASSUME NatsTypeOK
    PROVE  /\ Len(dlq) \in Nat /\ DOMAIN dlq = 1 .. Len(dlq)
           /\ \A d \in DOMAIN dlq : dlq[d] \in DeadRecord
           /\ dlq \in Seq(DeadRecord)
  <1>1. dlq \in Seq(DeadRecord)
    BY DEF NatsTypeOK, DeadRecord
  <1>2. Len(dlq) \in Nat /\ DOMAIN dlq = 1 .. Len(dlq)
    BY <1>1
  <1>3. \A d \in 1 .. Len(dlq) : dlq[d] \in DeadRecord
    BY <1>1
  <1> QED
    BY <1>1, <1>2, <1>3

\* A record that is appended disturbs no other.
LEMMA DlqAppend ==
    ASSUME NatsTypeOK, NEW r \in DeadRecord
    PROVE  /\ Append(dlq, r) \in Seq(DeadRecord)
           /\ DOMAIN Append(dlq, r) = DOMAIN dlq \cup {Len(dlq) + 1}
           /\ \A d \in DOMAIN dlq : Append(dlq, r)[d] = dlq[d]
           /\ Append(dlq, r)[Len(dlq) + 1] = r
  BY DlqShape

\* A record changes its state alone.
LEMMA DlqMark ==
    ASSUME NatsTypeOK, NEW d \in DOMAIN dlq, NEW st \in {"waiting", "out", "acked"}
    PROVE  LET q == [dlq EXCEPT ![d].state = st]
           IN  /\ q \in Seq(DeadRecord)
               /\ DOMAIN q = DOMAIN dlq
               /\ \A k \in DOMAIN dlq : /\ q[k].of = dlq[k].of
                                        /\ q[k].state = IF k = d THEN st ELSE dlq[k].state
  <1> DEFINE q == [dlq EXCEPT ![d].state = st]
  <1>1. DOMAIN q = 1 .. Len(dlq)
    BY DlqShape
  <1>2. \A k \in DOMAIN dlq : q[k] = IF k = d THEN [dlq[d] EXCEPT !.state = st] ELSE dlq[k]
    BY DlqShape
  <1>3. [dlq[d] EXCEPT !.state = st] \in DeadRecord
    BY DlqShape DEF DeadRecord
  <1>4. q \in [1 .. Len(dlq) -> DeadRecord]
    BY <1>1, <1>2, <1>3, DlqShape
  <1>5. q \in Seq(DeadRecord)
    BY <1>4, DlqShape
  <1> QED
    BY <1>1, <1>2, <1>5, DlqShape DEF DeadRecord

\* Every step keeps the types.
LEMMA NatsTyped == /\ NatsInit => NatsTypeOK
                   /\ NatsTypeOK /\ [NatsNext]_natsVars => NatsTypeOK'
  <1>1. NatsInit => NatsTypeOK
    <2> SUFFICES ASSUME NatsInit PROVE NatsTypeOK
      OBVIOUS
    <2>1. /\ message \in [NatsMessages -> {"absent"}] /\ delivered \in [NatsMessages -> {0}]
          /\ replayOf \in [NatsMessages -> {0}] /\ worker \in [NatsWorkers -> {Rest}]
      BY DEF NatsInit
    <2>2. dlq \in Seq([of : NatsMessages, state : {"waiting", "out", "acked"}])
      BY DEF NatsInit
    <2>3. natsFaults \in 0 .. MaxNatsFaults
      BY NatsConstants DEF NatsInit
    <2> QED
      BY <2>1, <2>2, <2>3 DEF NatsInit, NatsTypeOK
  <1>2. ASSUME NatsTypeOK, [NatsNext]_natsVars PROVE NatsTypeOK'
    <2> DEFINE WorkerType == {Rest} \cup [at : {"handle", "term"}, msg : NatsMessages,
                                          attempts : Nat \ {0}]
    <2> USE <1>2, NatsConstants DEF NatsTypeOK
    <2>0. ASSUME NEW w \in NatsWorkers, worker[w].at \in {"handle", "term"}
          PROVE  worker[w] \in [at : {"handle", "term"}, msg : NatsMessages, attempts : Nat \ {0}]
      BY <2>0 DEF Rest
    <2>00. replayer.at \in {"fetched", "published"} =>
               replayer \in [at : {"fetched", "published"}, rec : DOMAIN dlq]
      BY DEF NoReplay
    <2>1. ASSUME NEW w \in NatsWorkers, NatsAck(w) \/ NatsNak(w) \/ Term(w) \/ WorkerDies(w)
          PROVE  NatsTypeOK'
      <3>1. worker' \in [NatsWorkers -> WorkerType]
        BY <2>1 DEF NatsAck, NatsNak, Term, WorkerDies
      <3>2. message' \in [NatsMessages -> {"absent", "waiting", "out", "acked", "termed"}]
        BY <2>1 DEF NatsAck, NatsNak, Term, WorkerDies, Settle
      <3>3. natsFaults' \in 0 .. MaxNatsFaults
        BY <2>1 DEF NatsAck, NatsNak, Term, WorkerDies, NatsFault
      <3>4. UNCHANGED <<delivered, replayOf, dlq, remembered, replayer>>
        BY <2>1 DEF NatsAck, NatsNak, Term, WorkerDies
      <3> QED
        BY <3>1, <3>2, <3>3, <3>4
    <2>2. ASSUME NEW w \in NatsWorkers, NEW m \in NatsMessages, NatsClaim(w, m)
          PROVE  NatsTypeOK'
      <3>1. [at |-> "handle", msg |-> m, attempts |-> delivered[m] + 1] \in WorkerType
        OBVIOUS
      <3>2. worker' \in [NatsWorkers -> WorkerType]
        BY <2>2, <3>1 DEF NatsClaim
      <3>3. /\ message' \in [NatsMessages -> {"absent", "waiting", "out", "acked", "termed"}]
            /\ delivered' \in [NatsMessages -> Nat]
        BY <2>2 DEF NatsClaim
      <3>4. UNCHANGED <<replayOf, dlq, remembered, replayer, natsFaults>>
        BY <2>2 DEF NatsClaim
      <3> QED
        BY <3>2, <3>3, <3>4
    <2>3. ASSUME NEW w \in NatsWorkers, PublishDead(w)
          PROVE  NatsTypeOK'
      <3>1. worker[w] \in [at : {"handle", "term"}, msg : NatsMessages, attempts : Nat \ {0}]
        BY <2>0, <2>3 DEF PublishDead
      <3>2. worker' \in [NatsWorkers -> WorkerType]
        BY <2>3, <3>1 DEF PublishDead
      <3>3. /\ dlq' \in Seq(DeadRecord) /\ DOMAIN dlq \subseteq DOMAIN dlq'
        <4>1. [of |-> worker[w].msg, state |-> "waiting"] \in DeadRecord
          BY <3>1 DEF DeadRecord
        <4> HIDE DEF NatsTypeOK
        <4>2. CASE dlq' = dlq
          BY <4>2, DlqShape
        <4>3. CASE dlq' = Append(dlq, [of |-> worker[w].msg, state |-> "waiting"])
          BY <4>1, <4>3, DlqAppend
        <4> QED
          BY <2>3, <4>2, <4>3 DEF PublishDead
      <3>4. /\ remembered' = remembered \cup {DeadId(worker[w].msg)}
            /\ UNCHANGED <<message, delivered, replayOf, replayer, natsFaults>>
        BY <2>3 DEF PublishDead
      <3>5. remembered' \subseteq {DeadId(m) : m \in NatsMessages}
                                     \cup {ReplayId(d) : d \in DOMAIN dlq'}
        BY <3>1, <3>3, <3>4
      <3> QED
        BY <3>2, <3>3, <3>4, <3>5 DEF DeadRecord
    <2>4. ASSUME NEW m \in NatsMessages, PublishNew(m) \/ AckWaitEnds(m)
          PROVE  NatsTypeOK'
      <3>1. natsFaults' \in 0 .. MaxNatsFaults
        BY <2>4 DEF PublishNew, AckWaitEnds, NatsFault
      <3> QED
        BY <2>4, <3>1 DEF PublishNew, AckWaitEnds
    <2>5. ASSUME NEW m \in NatsMessages, Republish(m)
          PROVE  NatsTypeOK'
      <3>1. replayer.rec \in DOMAIN dlq /\ replayer.rec \in Nat
        BY <2>00, <2>5, DlqShape DEF Republish
      <3>2. replayer' \in [at : {"fetched", "published"}, rec : DOMAIN dlq]
        BY <2>00, <2>5 DEF Republish
      <3>3. /\ message' \in [NatsMessages -> {"absent", "waiting", "out", "acked", "termed"}]
            /\ replayOf' \in [NatsMessages -> Nat]
        BY <2>5, <3>1 DEF Republish
      <3>4. UNCHANGED <<delivered, dlq, worker, natsFaults>>
        BY <2>5 DEF Republish
      <3>5. remembered' \subseteq remembered \cup {ReplayId(replayer.rec)}
        BY <2>5 DEF Republish
      <3> QED
        BY <3>1, <3>2, <3>3, <3>4, <3>5
    <2>6. ASSUME NEW id \in remembered, Forget(id)
          PROVE  NatsTypeOK'
      <3>1. natsFaults' \in 0 .. MaxNatsFaults
        BY <2>6 DEF Forget, NatsFault
      <3> QED
        BY <2>6, <3>1 DEF Forget
    <2>7. ASSUME NEW d \in DOMAIN dlq, FetchDead(d)
          PROVE  NatsTypeOK'
      <3>1. dlq' \in Seq(DeadRecord) /\ DOMAIN dlq' = DOMAIN dlq
        BY <2>7, DlqMark DEF FetchDead
      <3> QED
        BY <2>7, <3>1 DEF FetchDead, DeadRecord
    <2>8. ASSUME AckDead \/ ReplayerDies
          PROVE  NatsTypeOK'
      <3>1. replayer.rec \in DOMAIN dlq
        BY <2>00, <2>8 DEF AckDead, ReplayerDies
      <3>2. dlq' \in Seq(DeadRecord) /\ DOMAIN dlq' = DOMAIN dlq
        <4> HIDE DEF NatsTypeOK
        <4>1. CASE AckDead
          BY <3>1, <4>1, DlqMark DEF AckDead
        <4>2. CASE ReplayerDies
          BY <3>1, <4>2, DlqMark DEF ReplayerDies
        <4> QED
          BY <2>8, <4>1, <4>2
      <3>3. natsFaults' \in 0 .. MaxNatsFaults
        BY <2>8 DEF AckDead, ReplayerDies, NatsFault
      <3> QED
        BY <2>8, <3>2, <3>3 DEF AckDead, ReplayerDies, DeadRecord
    <2>9. CASE UNCHANGED natsVars
      BY <2>9 DEF natsVars
    <2> QED
      BY <2>1, <2>2, <2>3, <2>4, <2>5, <2>6, <2>7, <2>8, <2>9 DEF NatsNext
  <1> QED
    BY <1>1, <1>2

\* A dead record and a replay are never taken back.
LEMMA CopiesStay ==
    ASSUME LossInv, [NatsNext]_natsVars
    PROVE  /\ \A d \in DOMAIN dlq : d \in DOMAIN dlq' /\ dlq'[d].of = dlq[d].of
           /\ \A m \in NatsMessages : Dead(m) => Dead(m)'
           /\ \A d \in DOMAIN dlq : Replayed(d) => Replayed(d)'
  <1>0. NatsTypeOK
    BY DEF LossInv
  <1>1. \A d \in DOMAIN dlq : d \in DOMAIN dlq' /\ dlq'[d].of = dlq[d].of
    <2>1. CASE dlq' = dlq
      BY <2>1
    <2>2. ASSUME NEW w \in NatsWorkers, PublishDead(w), dlq' # dlq
          PROVE  \A d \in DOMAIN dlq : d \in DOMAIN dlq' /\ dlq'[d].of = dlq[d].of
      <3>1. [of |-> worker[w].msg, state |-> "waiting"] \in DeadRecord
        BY <1>0, <2>2 DEF PublishDead, NatsTypeOK, Rest, DeadRecord
      <3>2. dlq' = Append(dlq, [of |-> worker[w].msg, state |-> "waiting"])
        BY <2>2 DEF PublishDead
      <3> QED
        BY <1>0, <3>1, <3>2, DlqAppend
    <2>3. ASSUME NEW d \in DOMAIN dlq, FetchDead(d)
          PROVE  \A k \in DOMAIN dlq : k \in DOMAIN dlq' /\ dlq'[k].of = dlq[k].of
      BY <1>0, <2>3, DlqMark DEF FetchDead
    <2>4. replayer # NoReplay => replayer.rec \in DOMAIN dlq
      BY <1>0 DEF NatsTypeOK
    <2>5. CASE AckDead
      <3>1. replayer.rec \in DOMAIN dlq
        BY <2>4, <2>5 DEF AckDead, NoReplay
      <3> QED
        BY <1>0, <2>5, <3>1, DlqMark DEF AckDead
    <2>6. CASE ReplayerDies
      <3>1. replayer.rec \in DOMAIN dlq
        BY <2>4, <2>6 DEF ReplayerDies
      <3> QED
        BY <1>0, <2>6, <3>1, DlqMark DEF ReplayerDies
    <2> QED
      BY <2>1, <2>2, <2>3, <2>5, <2>6
         DEF NatsNext, natsVars, NatsAck, NatsNak, Term, WorkerDies, NatsClaim, PublishNew,
             AckWaitEnds, Republish, Forget
  <1>2. \A m \in NatsMessages : replayOf[m] # 0 => replayOf'[m] = replayOf[m]
    <2>1. ASSUME NEW m \in NatsMessages, Republish(m)
          PROVE  \A k \in NatsMessages : replayOf[k] # 0 => replayOf'[k] = replayOf[k]
      BY <1>0, <2>1 DEF Republish, NextFree, LossInv, CopiesExist, NatsTypeOK
    <2> QED
      BY <2>1
         DEF NatsNext, natsVars, NatsAck, NatsNak, Term, WorkerDies, NatsClaim, PublishNew,
             AckWaitEnds, PublishDead, Forget, FetchDead, AckDead, ReplayerDies
  <1>3. \A m \in NatsMessages : Dead(m) => Dead(m)'
    BY <1>1 DEF Dead
  <1>4. \A d \in DOMAIN dlq : d # 0
    BY <1>0, DlqShape
  <1>5. \A d \in DOMAIN dlq : Replayed(d) => Replayed(d)'
    BY <1>2, <1>4 DEF Replayed
  <1> QED
    BY <1>1, <1>3, <1>5

\* Every step sees to the copy before it forgets.
LEMMA LossStep == LossInv /\ [NatsNext]_natsVars => LossInv'
  <1> SUFFICES ASSUME LossInv, [NatsNext]_natsVars PROVE CopiesExist' /\ NoTaskLost'
    BY NatsTyped DEF LossInv
  <1>0. NatsTypeOK /\ NatsTypeOK'
    BY NatsTyped DEF LossInv
  <1>1. /\ \A d \in DOMAIN dlq : d \in DOMAIN dlq' /\ dlq'[d].of = dlq[d].of
        /\ \A m \in NatsMessages : Dead(m) => Dead(m)'
        /\ \A d \in DOMAIN dlq : Replayed(d) => Replayed(d)'
    BY CopiesStay
  <1>2. \A w \in NatsWorkers : worker[w].at = "term" => worker[w].msg \in NatsMessages
    BY <1>0 DEF NatsTypeOK, Rest
  <1>3. replayer # NoReplay => replayer.rec \in DOMAIN dlq
    BY <1>0 DEF NatsTypeOK
  <1>4. /\ \A m \in NatsMessages : message[m] = "termed" => Dead(m)
        /\ \A d \in DOMAIN dlq : dlq[d].state = "acked" => Replayed(d)
    BY DEF LossInv, NoTaskLost, Dead, Replayed
  <1>5. SUFFICES /\ CopiesExist'
                 /\ \A m \in NatsMessages : message'[m] = "termed" => Dead(m)'
                 /\ \A d \in DOMAIN dlq' : dlq'[d].state = "acked" => Replayed(d)'
    BY DEF NoTaskLost, Dead, Replayed
  <1> USE DEF LossInv, CopiesExist
  <1>6. ASSUME UNCHANGED <<dlq, replayOf, remembered, replayer>>,
               \A w \in NatsWorkers : worker'[w].at = "term" =>
                   worker[w].at = "term" /\ worker'[w].msg = worker[w].msg,
               \A m \in NatsMessages : /\ message'[m] = "absent" => message[m] = "absent"
                                       /\ message'[m] = "termed" => Dead(m)
        PROVE  /\ CopiesExist'
               /\ \A m \in NatsMessages : message'[m] = "termed" => Dead(m)'
               /\ \A d \in DOMAIN dlq' : dlq'[d].state = "acked" => Replayed(d)'
    <2>1. \A w \in NatsWorkers : (worker[w].at = "term" => Dead(worker[w].msg))'
      BY <1>6 DEF Dead
    <2>2. /\ \A m \in NatsMessages : DeadId(m) \in remembered' => Dead(m)'
          /\ \A d \in DOMAIN dlq' : ReplayId(d) \in remembered' => Replayed(d)'
      BY <1>1, <1>6
    <2>3. (replayer.at = "published" => Replayed(replayer.rec))'
      BY <1>6 DEF Replayed
    <2>4. CopiesExist'
      BY <1>6, <2>1, <2>2, <2>3
    <2> QED
      BY <1>1, <1>4, <1>6, <2>4
  <1>7. ASSUME NEW w \in NatsWorkers, NatsAck(w) \/ NatsNak(w) \/ Term(w) \/ WorkerDies(w)
        PROVE  /\ CopiesExist'
               /\ \A m \in NatsMessages : message'[m] = "termed" => Dead(m)'
               /\ \A d \in DOMAIN dlq' : dlq'[d].state = "acked" => Replayed(d)'
    <2>1. UNCHANGED <<dlq, replayOf, remembered, replayer>>
      BY <1>7 DEF NatsAck, NatsNak, Term, WorkerDies
    <2>2. \A v \in NatsWorkers : worker'[v].at = "term" =>
              worker[v].at = "term" /\ worker'[v].msg = worker[v].msg
      <3>1. worker' = [worker EXCEPT ![w] = Rest]
        BY <1>7 DEF NatsAck, NatsNak, Term, WorkerDies
      <3> QED
        BY <1>0, <3>1 DEF NatsTypeOK, Rest
    <2>3. \A m \in NatsMessages : /\ message'[m] = "absent" => message[m] = "absent"
                                  /\ message'[m] = "termed" => Dead(m)
      <3>1. CASE NatsAck(w)
        BY <1>0, <1>4, <3>1 DEF NatsAck, Settle, NatsTypeOK
      <3>2. CASE NatsNak(w)
        BY <1>0, <1>4, <3>2 DEF NatsNak, NatsTypeOK
      <3>3. CASE Term(w)
        BY <1>0, <1>4, <3>3 DEF Term, Settle, NatsTypeOK
      <3>4. CASE WorkerDies(w)
        BY <1>4, <3>4 DEF WorkerDies
      <3> QED
        BY <1>7, <3>1, <3>2, <3>3, <3>4
    <2> QED
      BY <1>6, <2>1, <2>2, <2>3
  <1>8. ASSUME NEW m \in NatsMessages,
               PublishNew(m) \/ AckWaitEnds(m) \/ \E w \in NatsWorkers : NatsClaim(w, m)
        PROVE  /\ CopiesExist'
               /\ \A k \in NatsMessages : message'[k] = "termed" => Dead(k)'
               /\ \A d \in DOMAIN dlq' : dlq'[d].state = "acked" => Replayed(d)'
    <2>1. UNCHANGED <<dlq, replayOf, remembered, replayer>>
      BY <1>8 DEF PublishNew, AckWaitEnds, NatsClaim
    <2>2. \A v \in NatsWorkers : worker'[v].at = "term" =>
              worker[v].at = "term" /\ worker'[v].msg = worker[v].msg
      BY <1>0, <1>8 DEF PublishNew, AckWaitEnds, NatsClaim, NatsTypeOK
    <2>3. \A k \in NatsMessages : /\ message'[k] = "absent" => message[k] = "absent"
                                  /\ message'[k] = "termed" => message[k] = "termed"
      BY <1>0, <1>8 DEF PublishNew, AckWaitEnds, NatsClaim, NatsTypeOK
    <2> QED
      BY <1>4, <1>6, <2>1, <2>2, <2>3
  <1>9. ASSUME NEW w \in NatsWorkers, PublishDead(w)
        PROVE  /\ CopiesExist'
               /\ \A m \in NatsMessages : message'[m] = "termed" => Dead(m)'
               /\ \A d \in DOMAIN dlq' : dlq'[d].state = "acked" => Replayed(d)'
    <2>0. PICK m \in NatsMessages : m = worker[w].msg
      BY <1>0, <1>9 DEF PublishDead, NatsTypeOK, Rest
    <2> DEFINE r == [of |-> m, state |-> "waiting"]
    <2>1. r \in DeadRecord
      BY DEF DeadRecord
    <2>2. IF DeadId(m) \in remembered THEN dlq' = dlq ELSE dlq' = Append(dlq, r)
      BY <1>9, <2>0 DEF PublishDead
    <2>3. /\ \A d \in DOMAIN dlq' : (d \in DOMAIN dlq /\ dlq'[d] = dlq[d]) \/ dlq'[d].state = "waiting"
          /\ DeadId(m) \notin remembered => Dead(m)'
      <3>1. CASE DeadId(m) \in remembered
        BY <2>2, <3>1
      <3>2. CASE DeadId(m) \notin remembered
        <4>1. dlq' = Append(dlq, r)
          BY <2>2, <3>2
        <4>2. /\ DOMAIN dlq' = DOMAIN dlq \cup {Len(dlq) + 1}
              /\ \A d \in DOMAIN dlq : dlq'[d] = dlq[d]
              /\ dlq'[Len(dlq) + 1] = r
          BY <1>0, <2>1, <4>1, DlqAppend
        <4> QED
          BY <4>2 DEF Dead
      <3> QED
        BY <3>1, <3>2
    <2>4. Dead(m)'
      BY <1>1, <2>3
    <2>5. /\ UNCHANGED <<message, replayOf, replayer>>
          /\ remembered' = remembered \cup {DeadId(m)}
      BY <1>9, <2>0 DEF PublishDead
    <2>6. \A v \in NatsWorkers : worker'[v].at = "term" =>
              worker'[v].msg = m \/ (worker[v].at = "term" /\ worker'[v].msg = worker[v].msg)
      BY <1>0, <1>9, <2>0 DEF PublishDead, NatsTypeOK
    <2>7. \A v \in NatsWorkers : (worker[v].at = "term" => Dead(worker[v].msg))'
      BY <1>1, <1>2, <2>4, <2>6 DEF Dead
    <2>8. \A k \in NatsMessages : DeadId(k) \in remembered' => Dead(k)'
      BY <1>1, <2>4, <2>5 DEF DeadId
    <2>9. \A d \in DOMAIN dlq' : ReplayId(d) \in remembered' => Replayed(d)'
      <3>1. \A d \in DOMAIN dlq' : ReplayId(d) \in remembered' => ReplayId(d) \in remembered
        BY <2>5 DEF DeadId, ReplayId
      <3>2. \A d \in DOMAIN dlq' : ReplayId(d) \in remembered => d \in DOMAIN dlq
        BY <1>0 DEF NatsTypeOK, ReplayId, DeadId
      <3> QED
        BY <1>1, <3>1, <3>2
    <2>10. (replayer.at = "published" => Replayed(replayer.rec))'
      BY <2>5 DEF Replayed
    <2>11. \A k \in NatsMessages : message'[k] = "absent" => replayOf'[k] = 0
      BY <2>5
    <2>12. CopiesExist'
      BY <2>7, <2>8, <2>9, <2>10, <2>11
    <2> QED
      BY <1>1, <1>4, <2>3, <2>5, <2>12 DEF Replayed
  <1>10. ASSUME NEW m \in NatsMessages, Republish(m)
         PROVE  /\ CopiesExist'
                /\ \A k \in NatsMessages : message'[k] = "termed" => Dead(k)'
                /\ \A d \in DOMAIN dlq' : dlq'[d].state = "acked" => Replayed(d)'
    <2>0. PICK d \in DOMAIN dlq : d = replayer.rec
      BY <1>3, <1>10 DEF Republish, NoReplay
    <2>1. /\ UNCHANGED <<dlq, worker>>
          /\ replayer'.rec = d
          /\ remembered' \subseteq remembered \cup {ReplayId(d)}
      BY <1>0, <1>10, <2>0 DEF Republish, NatsTypeOK, NoReplay
    <2>2. \A k \in NatsMessages : /\ message'[k] = "absent" => message[k] = "absent"
                                  /\ message'[k] = "termed" => message[k] = "termed"
                                  /\ message'[k] = "absent" => replayOf'[k] = 0
      BY <1>0, <1>10 DEF Republish, NatsTypeOK
    <2>3. Replayed(d)'
      <3>1. CASE ReplayId(d) \in remembered
        BY <1>1, <3>1
      <3>2. CASE ReplayId(d) \notin remembered
        BY <1>0, <1>10, <2>0, <3>2 DEF Republish, Replayed, NatsTypeOK
      <3> QED
        BY <3>1, <3>2
    <2>4. \A k \in DOMAIN dlq' : ReplayId(k) \in remembered' => Replayed(k)'
      BY <1>1, <2>1, <2>3 DEF ReplayId
    <2>5. \A k \in NatsMessages : DeadId(k) \in remembered' => Dead(k)'
      BY <1>1, <2>1 DEF ReplayId, DeadId
    <2>6. (replayer.at = "published" => Replayed(replayer.rec))'
      BY <2>1, <2>3 DEF Replayed
    <2>7. \A v \in NatsWorkers : (worker[v].at = "term" => Dead(worker[v].msg))'
      BY <2>1 DEF Dead
    <2>8. CopiesExist'
      BY <2>2, <2>4, <2>5, <2>6, <2>7
    <2> QED
      BY <1>1, <1>4, <2>1, <2>2, <2>8
  <1>11. ASSUME NEW id \in remembered, Forget(id)
         PROVE  /\ CopiesExist'
                /\ \A m \in NatsMessages : message'[m] = "termed" => Dead(m)'
                /\ \A d \in DOMAIN dlq' : dlq'[d].state = "acked" => Replayed(d)'
    BY <1>1, <1>2, <1>3, <1>4, <1>11 DEF Forget, NoReplay
  <1>12. ASSUME NEW d \in DOMAIN dlq, FetchDead(d)
         PROVE  /\ CopiesExist'
                /\ \A m \in NatsMessages : message'[m] = "termed" => Dead(m)'
                /\ \A k \in DOMAIN dlq' : dlq'[k].state = "acked" => Replayed(k)'
    <2>1. /\ DOMAIN dlq' = DOMAIN dlq
          /\ \A k \in DOMAIN dlq : dlq'[k].state = "acked" => dlq[k].state = "acked"
      BY <1>0, <1>12, DlqMark DEF FetchDead
    <2>2. /\ UNCHANGED <<message, replayOf, remembered, worker>>
          /\ replayer'.at = "fetched"
      BY <1>12 DEF FetchDead
    <2> QED
      BY <1>1, <1>2, <1>4, <2>1, <2>2
  <1>13. CASE AckDead \/ ReplayerDies
    <2>1. replayer.rec \in DOMAIN dlq
      BY <1>3, <1>13 DEF AckDead, ReplayerDies, NoReplay
    <2>2. /\ DOMAIN dlq' = DOMAIN dlq
          /\ \A k \in DOMAIN dlq : dlq'[k].state = "acked" =>
                 dlq[k].state = "acked" \/ (k = replayer.rec /\ replayer.at = "published")
      <3>1. CASE AckDead
        BY <1>0, <2>1, <3>1, DlqMark DEF AckDead
      <3>2. CASE ReplayerDies
        BY <1>0, <2>1, <3>2, DlqMark DEF ReplayerDies
      <3> QED
        BY <1>13, <3>1, <3>2
    <2>3. /\ UNCHANGED <<message, replayOf, remembered, worker>>
          /\ replayer'.at = "idle"
      BY <1>13 DEF AckDead, ReplayerDies, NoReplay
    <2> QED
      BY <1>1, <1>2, <1>4, <2>1, <2>2, <2>3
  <1>14. CASE UNCHANGED natsVars
    BY <1>4, <1>6, <1>14 DEF natsVars
  <1> QED
    BY <1>7, <1>8, <1>9, <1>10, <1>11, <1>12, <1>13, <1>14 DEF NatsNext

\* A task the broker has dropped unfinished has its dead record, and a dead
\* record that is gone was published again: for any loops, tasks and faults.
THEOREM TasksAreKept == NatsSpec => []NoTaskLost
  <1>1. NatsInit => LossInv
    <2> SUFFICES ASSUME NatsInit PROVE CopiesExist /\ NoTaskLost
      BY NatsTyped DEF LossInv
    <2>1. DOMAIN dlq = {}
      BY DEF NatsInit
    <2> QED
      BY <2>1 DEF NatsInit, CopiesExist, NoTaskLost, Rest, NoReplay
  <1>2. LossInv => NoTaskLost
    BY DEF LossInv
  <1> QED
    BY <1>1, <1>2, LossStep, PTL DEF NatsSpec

(***************************************************************************)
(* NatsQueue: what pays for a delivery.  A message comes back because its  *)
(* last holder naks it, which max_attempts pays for; because nobody answers*)
(* in time, which is a fault or follows one; or because a loop whose own   *)
(* delivery had lapsed naks it, which that lapse pays for, once.           *)
(***************************************************************************)
\* Loops that can still send a message back, and those of an earlier delivery.
Nakers(m) == {w \in NatsWorkers : /\ worker[w].at = "handle" /\ worker[w].msg = m
                                  /\ worker[w].attempts < MaxAttempts}
Stale(m) == {w \in Nakers(m) : worker[w].attempts < delivered[m]}
Held(m) == \E w \in NatsWorkers : worker[w].msg = m /\ worker[w].attempts = delivered[m]

\* Every delivery has had one holder, and no holder is ahead of the count.
HoldersFit ==
    /\ \A w \in NatsWorkers : worker[w] # Rest => worker[w].attempts <= delivered[worker[w].msg]
    /\ \A v, w \in NatsWorkers :
           worker[w] # Rest /\ worker[v].msg = worker[w].msg
               /\ worker[v].attempts = worker[w].attempts => v = w

Budget == MaxAttempts + natsFaults
CountFits(m) ==
    /\ message[m] = "absent" => delivered[m] = 0
    /\ delivered[m] <= Budget
    /\ message[m] = "waiting" => /\ Cardinality(Nakers(m)) <= natsFaults
                                 /\ delivered[m] + 1 + Cardinality(Nakers(m)) <= Budget
    /\ message[m] = "out" => /\ Cardinality(Stale(m)) <= natsFaults
                             /\ delivered[m] + Cardinality(Stale(m)) <= Budget
                             /\ ~Held(m) => delivered[m] + 1 + Cardinality(Stale(m)) <= Budget

CountInv == NatsTypeOK /\ HoldersFit /\ \A m \in NatsMessages : CountFits(m)

LEMMA CountsTyped ==
    ASSUME NatsTypeOK, NEW m \in NatsMessages
    PROVE  /\ IsFiniteSet(Nakers(m)) /\ Cardinality(Nakers(m)) \in Nat
           /\ IsFiniteSet(Stale(m)) /\ Cardinality(Stale(m)) \in Nat
           /\ delivered[m] \in Nat /\ natsFaults \in Nat /\ MaxAttempts \in Nat \ {0}
  <1>1. Nakers(m) \subseteq NatsWorkers /\ Stale(m) \subseteq NatsWorkers
    BY DEF Nakers, Stale
  <1>2. IsFiniteSet(Nakers(m)) /\ IsFiniteSet(Stale(m))
    BY <1>1, NatsConstants, FS_Subset
  <1> QED
    BY <1>2, NatsConstants, FS_CardinalityType DEF NatsTypeOK


\* Of the loops that can send a message back, one at most is not stale.
LEMMA StaleCount ==
    ASSUME CountInv, NEW m \in NatsMessages
    PROVE  \/ Cardinality(Nakers(m)) = Cardinality(Stale(m))
           \/ /\ delivered[m] + 1 <= MaxAttempts
              /\ Cardinality(Nakers(m)) = Cardinality(Stale(m)) + 1
  <1>0. NatsTypeOK
    BY DEF CountInv
  <1>1. \A w \in Nakers(m) : /\ worker[w] # Rest /\ worker[w].msg = m
                             /\ worker[w].attempts \in Nat
                             /\ worker[w].attempts < MaxAttempts
                             /\ worker[w].attempts <= delivered[m]
    BY <1>0 DEF CountInv, HoldersFit, NatsTypeOK, Nakers, Rest
  <1>2. CASE Nakers(m) = Stale(m)
    BY <1>2
  <1>3. CASE Nakers(m) # Stale(m)
    <2>1. PICK w \in Nakers(m) : w \notin Stale(m)
      BY <1>3 DEF Stale
    <2>2. worker[w].attempts = delivered[m]
      <3>1. delivered[m] \in Nat /\ worker[w].attempts \in Nat
        BY <1>0, <1>1 DEF NatsTypeOK
      <3>2. ~(worker[w].attempts < delivered[m])
        BY <2>1 DEF Stale
      <3> QED
        BY <1>1, <3>1, <3>2
    <2>3. \A v \in Nakers(m) : v # w => v \in Stale(m)
      BY <1>1, <2>2, <1>0, CountsTyped DEF Stale, CountInv, HoldersFit, Nakers
    <2>4. Nakers(m) = Stale(m) \cup {w}
      BY <2>1, <2>3 DEF Stale
    <2>5. Cardinality(Nakers(m)) = Cardinality(Stale(m)) + 1
      BY <1>0, <2>1, <2>4, CountsTyped, FS_AddElement
    <2> QED
      BY <1>0, <1>1, <2>1, <2>2, <2>5, CountsTyped
  <1> QED
    BY <1>2, <1>3

\* Any other message: it may be settled, or lose a holder.
LEMMA CountQuiet ==
    ASSUME NatsTypeOK, NatsTypeOK', NEW m \in NatsMessages, CountFits(m),
           message'[m] = message[m] \/ message'[m] \in {"acked", "termed"},
           delivered'[m] = delivered[m], natsFaults <= natsFaults',
           \A w \in Nakers(m)' : w \in Nakers(m) /\ worker'[w] = worker[w],
           Held(m) => Held(m)' \/ message'[m] # "out" \/ natsFaults + 1 <= natsFaults'
    PROVE  CountFits(m)'
  <1>1. Nakers(m)' \subseteq Nakers(m) /\ Stale(m)' \subseteq Stale(m)
    BY DEF Stale
  <1>2. /\ Cardinality(Nakers(m)') <= Cardinality(Nakers(m)) /\ IsFiniteSet(Nakers(m)')
        /\ Cardinality(Stale(m)') <= Cardinality(Stale(m)) /\ IsFiniteSet(Stale(m)')
    BY <1>1, CountsTyped, FS_Subset
  <1>3. Cardinality(Nakers(m)') \in Nat /\ Cardinality(Stale(m)') \in Nat /\ natsFaults' \in Nat
    BY <1>2, FS_CardinalityType DEF NatsTypeOK
  <1> QED
    BY <1>2, <1>3, CountsTyped DEF CountFits, Budget

\* A step that takes loops off their messages, and leaves the count alone.
LEMMA HoldersLeave ==
    ASSUME NatsTypeOK, HoldersFit, UNCHANGED delivered,
           \A w \in NatsWorkers : \/ worker'[w] = worker[w] \/ worker'[w] = Rest
                                  \/ /\ worker[w] # Rest
                                     /\ worker'[w] = [worker[w] EXCEPT !.at = "term"]
    PROVE  HoldersFit'
  <1>1. \A w \in NatsWorkers : worker'[w] # Rest =>
            /\ worker[w] # Rest /\ worker'[w].msg = worker[w].msg
            /\ worker'[w].attempts = worker[w].attempts /\ worker[w].msg # 0
    <2> SUFFICES ASSUME NEW w \in NatsWorkers, worker'[w] # Rest
                 PROVE  /\ worker[w] # Rest /\ worker'[w].msg = worker[w].msg
                        /\ worker'[w].attempts = worker[w].attempts /\ worker[w].msg # 0
      OBVIOUS
    <2>1. worker[w] # Rest
      OBVIOUS
    <2>2. worker[w] \in [at : {"handle", "term"}, msg : NatsMessages, attempts : Nat \ {0}]
      BY <2>1 DEF NatsTypeOK
    <2>3. \/ worker'[w] = worker[w] \/ worker'[w] = [worker[w] EXCEPT !.at = "term"]
      OBVIOUS
    <2> QED
      BY <2>1, <2>2, <2>3 DEF NatsMessages
  <1>2. \A w \in NatsWorkers : worker'[w] = Rest => worker'[w].msg = 0
    BY DEF Rest
  <1>3. \A v, w \in NatsWorkers : worker'[w] # Rest /\ worker'[v].msg = worker'[w].msg
                                      => worker'[v] # Rest
    BY <1>1, <1>2
  <1> QED
    BY <1>1, <1>3 DEF HoldersFit, Rest

LEMMA HoldersStep == CountInv /\ [NatsNext]_natsVars => HoldersFit'
  <1> SUFFICES ASSUME CountInv, [NatsNext]_natsVars PROVE HoldersFit'
    OBVIOUS
  <1>0. NatsTypeOK /\ HoldersFit
    BY DEF CountInv
  <1>1. ASSUME NEW w \in NatsWorkers, NatsAck(w) \/ NatsNak(w) \/ Term(w) \/ WorkerDies(w)
        PROVE  HoldersFit'
    <2>1. worker' = [worker EXCEPT ![w] = Rest] /\ UNCHANGED delivered
      BY <1>1 DEF NatsAck, NatsNak, Term, WorkerDies
    <2>2. \A v \in NatsWorkers : worker'[v] = worker[v] \/ worker'[v] = Rest
      BY <1>0, <2>1 DEF NatsTypeOK
    <2> QED
      BY <1>0, <2>1, <2>2, HoldersLeave
  <1>2. ASSUME NEW w \in NatsWorkers, PublishDead(w) PROVE HoldersFit'
    <2>1. /\ worker' = [worker EXCEPT ![w].at = "term"] /\ UNCHANGED delivered
          /\ worker[w] # Rest
      BY <1>2 DEF PublishDead, Rest
    <2>2. \A v \in NatsWorkers :
              \/ worker'[v] = worker[v]
              \/ worker[v] # Rest /\ worker'[v] = [worker[v] EXCEPT !.at = "term"]
      BY <1>0, <2>1 DEF NatsTypeOK
    <2> QED
      BY <1>0, <2>1, <2>2, HoldersLeave
  <1>3. ASSUME NEW w \in NatsWorkers, NEW m \in NatsMessages, NatsClaim(w, m) PROVE HoldersFit'
    <2>1. /\ worker[w] = Rest
          /\ delivered' = [delivered EXCEPT ![m] = @ + 1]
          /\ worker' = [worker EXCEPT ![w] = [at |-> "handle", msg |-> m,
                                              attempts |-> delivered[m] + 1]]
      BY <1>3 DEF NatsClaim
    <2>2. /\ worker'[w].msg = m /\ worker'[w].attempts = delivered[m] + 1
          /\ \A v \in NatsWorkers : v # w => worker'[v] = worker[v]
      BY <1>0, <2>1 DEF NatsTypeOK
    <2>3. /\ delivered'[m] = delivered[m] + 1 /\ delivered[m] \in Nat
          /\ \A k \in NatsMessages : k # m => delivered'[k] = delivered[k]
      BY <1>0, <2>1 DEF NatsTypeOK
    <2>4. \A v \in NatsWorkers : worker[v] # Rest =>
              /\ worker[v].msg \in NatsMessages /\ worker[v].attempts \in Nat
              /\ worker[v].attempts <= delivered[worker[v].msg]
      BY <1>0 DEF NatsTypeOK, HoldersFit
    <2>5. \A v \in NatsWorkers : worker[v] = Rest => worker[v].msg # m
      BY DEF Rest, NatsMessages
    <2>6. \A v \in NatsWorkers : v # w /\ worker[v].msg = m => worker[v].attempts # delivered[m] + 1
      BY <2>3, <2>4, <2>5
    <2>7. \A v \in NatsWorkers : (worker[v] # Rest => worker[v].attempts <= delivered[worker[v].msg])'
      <3> SUFFICES ASSUME NEW v \in NatsWorkers, worker'[v] # Rest
                   PROVE  worker'[v].attempts <= delivered'[worker'[v].msg]
        BY DEF Rest
      <3>1. CASE v = w
        BY <2>2, <2>3, <3>1
      <3>2. CASE v # w
        <4>1. worker'[v] = worker[v] /\ worker[v] # Rest
          BY <2>2, <3>2
        <4>2. /\ worker[v].msg \in NatsMessages /\ worker[v].attempts \in Nat
              /\ worker[v].attempts <= delivered[worker[v].msg]
          BY <2>4, <4>1
        <4>3. delivered[worker[v].msg] \in Nat
                  /\ delivered[worker[v].msg] <= delivered'[worker[v].msg]
                  /\ delivered'[worker[v].msg] \in Nat
          <5>1. delivered[worker[v].msg] \in Nat
            BY <1>0, <4>2 DEF NatsTypeOK
          <5>2. CASE worker[v].msg = m
            BY <2>3, <5>1, <5>2
          <5>3. CASE worker[v].msg # m
            BY <2>3, <4>2, <5>1, <5>3
          <5> QED
            BY <5>2, <5>3
        <4> QED
          BY <4>1, <4>2, <4>3
      <3> QED
        BY <3>1, <3>2
    <2>8. \A v, u \in NatsWorkers : (worker[u] # Rest /\ worker[v].msg = worker[u].msg
                                       /\ worker[v].attempts = worker[u].attempts => v = u)'
      <3> SUFFICES ASSUME NEW v \in NatsWorkers, NEW u \in NatsWorkers, worker'[u] # Rest,
                          worker'[v].msg = worker'[u].msg,
                          worker'[v].attempts = worker'[u].attempts, v # u
                   PROVE  FALSE
        BY DEF Rest
      <3>1. CASE v = w
        BY <2>2, <2>6, <3>1
      <3>2. CASE u = w
        BY <2>2, <2>6, <3>2
      <3>3. CASE v # w /\ u # w
        BY <1>0, <2>2, <3>3 DEF HoldersFit
      <3> QED
        BY <3>1, <3>2, <3>3
    <2> QED
      BY <2>7, <2>8 DEF HoldersFit
  <1>4. ASSUME UNCHANGED <<worker, delivered>> PROVE HoldersFit'
    BY <1>0, <1>4, HoldersLeave
  <1> QED
    BY <1>1, <1>2, <1>3, <1>4
       DEF NatsNext, natsVars, PublishNew, AckWaitEnds, Republish, Forget, FetchDead, AckDead,
           ReplayerDies

\* A step that takes one loop off its message keeps the counts, unless the
\* message is then to be delivered again.
LEMMA LeaveCounts ==
    ASSUME CountInv, NatsTypeOK', NEW w \in NatsWorkers, NEW m \in NatsMessages,
           worker' = [worker EXCEPT ![w] = Rest], UNCHANGED delivered,
           message'[m] = message[m] \/ message'[m] \in {"acked", "termed"},
           natsFaults <= natsFaults',
           worker[w].msg # m \/ message'[m] # "out" \/ natsFaults + 1 <= natsFaults'
               \/ worker[w].attempts # delivered[m]
    PROVE  CountFits(m)'
  <1>0. NatsTypeOK /\ CountFits(m)
    BY DEF CountInv
  <1>1. \A v \in NatsWorkers : worker'[v] = IF v = w THEN Rest ELSE worker[v]
    BY <1>0 DEF NatsTypeOK
  <1>2. \A v \in Nakers(m)' : v \in Nakers(m) /\ worker'[v] = worker[v]
    BY <1>1 DEF Nakers, Rest
  <1>3. Held(m) => Held(m)' \/ message'[m] # "out" \/ natsFaults + 1 <= natsFaults'
    BY <1>1 DEF Held
  <1> QED
    BY <1>0, <1>2, <1>3, CountQuiet

\* A message nobody has touched.
LEMMA IdleCounts ==
    ASSUME CountInv, NatsTypeOK', NEW m \in NatsMessages, UNCHANGED <<worker, delivered>>,
           message'[m] = message[m], natsFaults <= natsFaults'
    PROVE  CountFits(m)'
  <1>0. NatsTypeOK /\ CountFits(m)
    BY DEF CountInv
  <1>1. Nakers(m)' = Nakers(m) /\ (Held(m) => Held(m)')
    BY DEF Nakers, Held
  <1> QED
    BY <1>0, <1>1, CountQuiet

\* A message is published: nothing has been delivered yet.
LEMMA PublishCounts ==
    ASSUME CountInv, NatsTypeOK', NEW m \in NatsMessages, UNCHANGED <<worker, delivered, natsFaults>>,
           message[m] = "absent", message'[m] = "waiting"
    PROVE  CountFits(m)'
  <1>0. NatsTypeOK /\ CountFits(m) /\ HoldersFit
    BY DEF CountInv
  <1>1. delivered[m] = 0
    BY <1>0 DEF CountFits
  <1>2. Nakers(m) = {}
    <2> SUFFICES ASSUME NEW w \in Nakers(m) PROVE FALSE
      OBVIOUS
    <2>1. worker[w] # Rest /\ worker[w].msg = m
      BY DEF Nakers, Rest
    <2>2. worker[w].attempts \in Nat \ {0}
      BY <1>0, <2>1 DEF NatsTypeOK, Nakers
    <2>3. worker[w].attempts <= 0
      BY <1>0, <1>1, <2>1 DEF HoldersFit, Nakers
    <2> QED
      BY <2>2, <2>3
  <1>3. Nakers(m)' = {}
    BY <1>2 DEF Nakers
  <1>4. Cardinality(Nakers(m)') = 0
    BY <1>3, FS_EmptySet
  <1> QED
    BY <1>0, <1>1, <1>4, CountsTyped DEF CountFits, Budget

\* A delivery was paid for when the message came back.
LEMMA ClaimCounts ==
    ASSUME CountInv, NatsTypeOK', NEW w \in NatsWorkers, NEW m \in NatsMessages, NatsClaim(w, m)
    PROVE  CountFits(m)'
  <1>0. NatsTypeOK /\ CountFits(m) /\ HoldersFit
    BY DEF CountInv
  <1>1. /\ worker[w] = Rest /\ message[m] = "waiting" /\ message'[m] = "out"
        /\ delivered'[m] = delivered[m] + 1 /\ UNCHANGED natsFaults
    BY <1>0 DEF NatsClaim, NatsTypeOK
  <1>2. /\ worker'[w].msg = m /\ worker'[w].attempts = delivered[m] + 1
        /\ \A v \in NatsWorkers : v # w => worker'[v] = worker[v]
    BY <1>0 DEF NatsClaim, NatsTypeOK
  <1>3. delivered[m] \in Nat /\ Held(m)'
    BY <1>0, <1>1, <1>2 DEF Held, NatsTypeOK
  <1>4. \A v \in Nakers(m) : /\ v # w /\ worker[v].attempts \in Nat
                             /\ worker[v].attempts <= delivered[m]
    BY <1>0, <1>1 DEF Nakers, HoldersFit, NatsTypeOK, Rest
  <1>5. w \notin Stale(m)'
    BY <1>1, <1>2, <1>3 DEF Stale
  <1>6. Stale(m)' = Nakers(m)
    <2>1. \A v \in NatsWorkers : v # w => (v \in Nakers(m)' <=> v \in Nakers(m))
      BY <1>2 DEF Nakers
    <2>2. \A v \in Nakers(m) : worker'[v].attempts < delivered'[m]
      BY <1>1, <1>2, <1>3, <1>4 DEF Nakers
    <2>3. Stale(m)' \subseteq NatsWorkers /\ Nakers(m) \subseteq NatsWorkers
      BY DEF Stale, Nakers
    <2>4. \A v \in Stale(m)' : v \in Nakers(m)'
      BY DEF Stale
    <2>5. Stale(m)' \subseteq Nakers(m)
      BY <1>5, <2>1, <2>3, <2>4
    <2>6. \A v \in Nakers(m) : v \in Nakers(m)' /\ worker'[v].attempts < delivered'[m]
      BY <1>4, <2>1, <2>2, <2>3
    <2>7. Nakers(m) \subseteq Stale(m)'
      BY <2>6 DEF Stale
    <2> QED
      BY <2>5, <2>7
  <1>7. Cardinality(Stale(m)') = Cardinality(Nakers(m))
    BY <1>6
  <1> QED
    BY <1>0, <1>1, <1>3, <1>7, CountsTyped DEF CountFits, Budget

\* A loop sends its message back: its own delivery, or its lapse, pays.
LEMMA NakCounts ==
    ASSUME CountInv, NatsTypeOK', NEW w \in NatsWorkers, NEW m \in NatsMessages, NatsNak(w)
    PROVE  CountFits(m)'
  <1>0. NatsTypeOK /\ CountFits(m)
    BY DEF CountInv
  <1>1. /\ worker' = [worker EXCEPT ![w] = Rest] /\ UNCHANGED <<delivered, natsFaults>>
        /\ message' = [message EXCEPT ![worker[w].msg] = IF @ = "out" THEN "waiting" ELSE @]
        /\ worker[w].at = "handle" /\ worker[w].msg \in NatsMessages
        /\ worker[w].attempts < MaxAttempts
    <2>1. worker[w] \in [at : {"handle", "term"}, msg : NatsMessages, attempts : Nat \ {0}]
      BY <1>0 DEF NatsNak, NatsTypeOK, Rest
    <2> QED
      BY <2>1, NatsConstants DEF NatsNak, Exhausted
  <1>2. natsFaults <= natsFaults'
    BY <1>0, <1>1, CountsTyped
  <1>3. CASE worker[w].msg # m
    BY <1>0, <1>1, <1>2, <1>3, LeaveCounts DEF NatsTypeOK
  <1>4. CASE worker[w].msg = m /\ message[m] # "out"
    <2>1. message'[m] = message[m] /\ message'[m] # "out"
      BY <1>0, <1>1, <1>4 DEF NatsTypeOK
    <2> QED
      BY <1>1, <1>2, <2>1, LeaveCounts
  <1>5. CASE worker[w].msg = m /\ message[m] = "out"
    <2>1. message'[m] = "waiting"
      BY <1>0, <1>1, <1>5 DEF NatsTypeOK
    <2>2. w \in Nakers(m)
      BY <1>1, <1>5 DEF Nakers
    <2>3. \A v \in NatsWorkers : worker'[v] = IF v = w THEN Rest ELSE worker[v]
      BY <1>0, <1>1 DEF NatsTypeOK
    <2>4. Nakers(m)' = Nakers(m) \ {w}
      BY <2>3 DEF Nakers, Rest
    <2>5. Cardinality(Nakers(m)') = Cardinality(Nakers(m)) - 1
      BY <1>0, <2>2, <2>4, CountsTyped, FS_RemoveElement
    <2>6. \/ Cardinality(Nakers(m)) = Cardinality(Stale(m))
          \/ /\ delivered[m] + 1 <= MaxAttempts
             /\ Cardinality(Nakers(m)) = Cardinality(Stale(m)) + 1
      BY StaleCount
    <2> QED
      BY <1>0, <1>1, <1>5, <2>1, <2>5, <2>6, CountsTyped DEF CountFits, Budget
  <1> QED
    BY <1>3, <1>4, <1>5

\* Nobody has answered in time: a fault, or the death of the last holder, pays.
LEMMA LapseCounts ==
    ASSUME CountInv, NatsTypeOK', NEW m \in NatsMessages, AckWaitEnds(m)
    PROVE  CountFits(m)'
  <1>0. NatsTypeOK /\ CountFits(m)
    BY DEF CountInv
  <1>1. /\ message[m] = "out" /\ message'[m] = "waiting" /\ UNCHANGED <<worker, delivered>>
    BY <1>0 DEF AckWaitEnds, NatsTypeOK
  <1>2. Cardinality(Nakers(m)') = Cardinality(Nakers(m))
    <2>1. Nakers(m)' = Nakers(m)
      BY <1>1 DEF Nakers
    <2> QED
      BY <2>1
  <1>3. CASE InHand(m)
    <2>1. natsFaults' = natsFaults + 1
      BY <1>3 DEF AckWaitEnds, NatsFault
    <2>2. \/ Cardinality(Nakers(m)) = Cardinality(Stale(m))
          \/ /\ delivered[m] + 1 <= MaxAttempts
             /\ Cardinality(Nakers(m)) = Cardinality(Stale(m)) + 1
      BY StaleCount
    <2> QED
      BY <1>0, <1>1, <1>2, <2>1, <2>2, CountsTyped DEF CountFits, Budget
  <1>4. CASE ~InHand(m)
    <2>1. Nakers(m) = {} /\ ~Held(m) /\ natsFaults' = natsFaults
      BY <1>4 DEF InHand, Nakers, Held, AckWaitEnds
    <2>2. Cardinality(Nakers(m)) = 0
      BY <2>1, FS_EmptySet
    <2> QED
      BY <1>0, <1>1, <1>2, <2>1, <2>2, CountsTyped DEF CountFits, Budget
  <1> QED
    BY <1>3, <1>4

LEMMA CountStep == CountInv /\ [NatsNext]_natsVars => CountInv'
  <1> SUFFICES ASSUME CountInv, [NatsNext]_natsVars, NEW m \in NatsMessages PROVE CountFits(m)'
    BY NatsTyped, HoldersStep DEF CountInv
  <1>0. NatsTypeOK /\ NatsTypeOK' /\ CountFits(m)
    BY NatsTyped DEF CountInv
  <1>1. natsFaults \in Nat /\ natsFaults <= natsFaults /\ natsFaults <= natsFaults + 1
    BY <1>0, CountsTyped
  <1>2. ASSUME NEW w \in NatsWorkers, NatsAck(w) \/ Term(w) PROVE CountFits(m)'
    <2>1. /\ worker' = [worker EXCEPT ![w] = Rest] /\ UNCHANGED <<delivered, natsFaults>>
      BY <1>2 DEF NatsAck, Term
    <2>2. worker[w].msg \in NatsMessages
      BY <1>0, <1>2 DEF NatsAck, Term, NatsTypeOK, Rest
    <2>3. /\ message'[m] = message[m] \/ message'[m] \in {"acked", "termed"}
          /\ worker[w].msg # m \/ message'[m] # "out"
      BY <1>0, <1>2, <2>2 DEF NatsAck, Term, Settle, Settled, NatsTypeOK
    <2> QED
      BY <1>0, <1>1, <2>1, <2>3, LeaveCounts
  <1>3. ASSUME NEW w \in NatsWorkers, WorkerDies(w) PROVE CountFits(m)'
    <2>1. /\ worker' = [worker EXCEPT ![w] = Rest] /\ UNCHANGED <<message, delivered>>
          /\ natsFaults' = natsFaults + 1
      BY <1>3 DEF WorkerDies, NatsFault
    <2>2. message'[m] = message[m] /\ natsFaults <= natsFaults' /\ natsFaults + 1 <= natsFaults'
      BY <1>1, <2>1
    <2> QED
      BY <1>0, <2>1, <2>2, LeaveCounts
  <1>4. ASSUME NEW w \in NatsWorkers, NatsNak(w) PROVE CountFits(m)'
    BY <1>0, <1>4, NakCounts
  <1>5. ASSUME NEW w \in NatsWorkers, PublishDead(w) PROVE CountFits(m)'
    <2>1. /\ UNCHANGED <<message, delivered, natsFaults>>
          /\ worker' = [worker EXCEPT ![w].at = "term"]
          /\ worker[w].attempts >= MaxAttempts
      BY <1>5 DEF PublishDead, Exhausted
    <2>2. \A v \in NatsWorkers :
              /\ worker'[v].msg = worker[v].msg /\ worker'[v].attempts = worker[v].attempts
              /\ IF v = w THEN worker'[v].at = "term" ELSE worker'[v] = worker[v]
      BY <1>0, <2>1 DEF NatsTypeOK, Rest
    <2>3. \A v \in Nakers(m)' : v \in Nakers(m) /\ worker'[v] = worker[v]
      BY <2>2 DEF Nakers
    <2>4. Held(m) => Held(m)'
      BY <2>1, <2>2 DEF Held
    <2> QED
      BY <1>0, <1>1, <2>1, <2>3, <2>4, CountQuiet
  <1>6. ASSUME NEW w \in NatsWorkers, NEW k \in NatsMessages, NatsClaim(w, k) PROVE CountFits(m)'
    <2>1. CASE k = m
      BY <1>0, <1>6, <2>1, ClaimCounts
    <2>2. CASE k # m
      <3>1. /\ message'[m] = message[m] /\ delivered'[m] = delivered[m] /\ UNCHANGED natsFaults
            /\ worker'[w].msg = k /\ worker[w].msg = 0 /\ worker[w].at = "idle"
            /\ \A v \in NatsWorkers : v # w => worker'[v] = worker[v]
        BY <1>0, <1>6, <2>2 DEF NatsClaim, NatsTypeOK, Rest
      <3>2. \A v \in Nakers(m)' : v \in Nakers(m) /\ worker'[v] = worker[v]
        BY <2>2, <3>1 DEF Nakers
      <3>3. m # 0
        BY DEF NatsMessages
      <3>4. Held(m) => Held(m)'
        BY <3>1, <3>3 DEF Held
      <3> QED
        BY <1>0, <1>1, <3>1, <3>2, <3>4, CountQuiet
    <2> QED
      BY <2>1, <2>2
  <1>7. ASSUME NEW k \in NatsMessages, PublishNew(k) \/ Republish(k) PROVE CountFits(m)'
    <2>1. /\ UNCHANGED <<worker, delivered, natsFaults>>
          /\ \/ message'[m] = message[m]
             \/ message[m] = "absent" /\ message'[m] = "waiting"
      BY <1>0, <1>7 DEF PublishNew, Republish, NextFree, NatsTypeOK
    <2> QED
      BY <1>0, <1>1, <2>1, IdleCounts, PublishCounts
  <1>8. ASSUME NEW k \in NatsMessages, AckWaitEnds(k) PROVE CountFits(m)'
    <2>1. CASE k = m
      BY <1>0, <1>8, <2>1, LapseCounts
    <2>2. CASE k # m
      <3>1. /\ message'[m] = message[m] /\ UNCHANGED <<worker, delivered>>
            /\ natsFaults <= natsFaults'
        BY <1>0, <1>1, <1>8, <2>2 DEF AckWaitEnds, NatsFault, NatsTypeOK
      <3> QED
        BY <1>0, <3>1, IdleCounts
    <2> QED
      BY <2>1, <2>2
  <1>9. ASSUME UNCHANGED <<worker, delivered, message>>, natsFaults <= natsFaults' PROVE CountFits(m)'
    BY <1>0, <1>9, IdleCounts
  <1>10. ASSUME NEW id \in remembered, Forget(id) PROVE CountFits(m)'
    BY <1>1, <1>9, <1>10 DEF Forget, NatsFault
  <1>11. ASSUME NEW d \in DOMAIN dlq, FetchDead(d) PROVE CountFits(m)'
    BY <1>1, <1>9, <1>11 DEF FetchDead
  <1>12. CASE AckDead \/ ReplayerDies
    BY <1>1, <1>9, <1>12 DEF AckDead, ReplayerDies, NatsFault
  <1>13. CASE UNCHANGED natsVars
    BY <1>1, <1>9, <1>13 DEF natsVars
  <1> QED
    BY <1>2, <1>3, <1>4, <1>5, <1>6, <1>7, <1>8, <1>10, <1>11, <1>12, <1>13 DEF NatsNext

\* A task is delivered at most max_attempts times, and once more for every loop
\* that died or lost its delivery, though claim sets no limit: for any loops.
THEOREM DeliveriesArePaid == NatsSpec => []DeliveriesBounded
  <1>1. NatsInit => CountInv
    <2> SUFFICES ASSUME NatsInit PROVE HoldersFit /\ \A m \in NatsMessages : CountFits(m)
      BY NatsTyped DEF CountInv
    <2>1. HoldersFit
      BY DEF NatsInit, HoldersFit
    <2>2. \A m \in NatsMessages : CountFits(m)
      BY NatsConstants DEF NatsInit, CountFits, Budget
    <2> QED
      BY <2>1, <2>2
  <1>2. CountInv => DeliveriesBounded
    BY DEF CountInv, CountFits, Budget, DeliveriesBounded
  <1> QED
    BY <1>1, <1>2, CountStep, PTL DEF NatsSpec

(***************************************************************************)
(* LogTier: the ring, and the order of days.                               *)
(***************************************************************************)
\* A set of numbers that is not empty has a least one.
LEMMA LeastExists ==
    ASSUME NEW T \in SUBSET Nat, T # {}
    PROVE  \E e \in T : \A d \in T : e <= d
  <1>1. PICK e \in T : \A d \in T : ~(<<d, e>> \in OpToRel(<, Nat))
    BY NatLessThanWellFounded, WFMin
  <1>2. \A d \in T : ~(d < e)
    BY <1>1 DEF OpToRel
  <1> QED
    BY <1>2

\* The ring after Record has the event, and all the others but the dropped one.
LEMMA RingPushed ==
    ASSUME NEW s \in Seq(Events), Len(s) <= RingCapacity, NEW e \in Events
    PROVE  LET full == Len(s) >= RingCapacity
               q == Append(IF full THEN Tail(s) ELSE s, e)
           IN  /\ q \in Seq(Events) /\ Len(q) <= RingCapacity
               /\ full => Head(s) \in Events
               /\ e \in ToSet(q)
               /\ ToSet(s) \subseteq ToSet(q) \cup (IF full THEN {Head(s)} ELSE {})
  <1>0. RingCapacity \in Nat \ {0}
    BY LogConstants
  <1>1. CASE Len(s) >= RingCapacity
    <2> DEFINE t == Tail(s)
               q == Append(t, e)
    <2>1. s # <<>> /\ Head(s) = s[1] /\ Len(s) \in Nat \ {0}
      BY <1>0, <1>1
    <2>2. t \in Seq(Events) /\ Len(t) = Len(s) - 1 /\ \A i \in 1 .. Len(t) : t[i] = s[i + 1]
      BY <2>1
    <2> HIDE DEF t
    <2>3. /\ q \in Seq(Events) /\ Len(q) = Len(s) /\ q[Len(s)] = e
          /\ \A i \in 1 .. Len(t) : q[i] = t[i]
      BY <2>1, <2>2
    <2> HIDE DEF q
    <2>4. e \in ToSet(q)
      BY <2>1, <2>3 DEF ToSet
    <2>5. ASSUME NEW i \in 1 .. Len(s) PROVE s[i] \in ToSet(q) \cup {Head(s)}
      <3>1. CASE i = 1
        BY <2>1, <3>1
      <3>2. CASE i # 1
        <4>1. i - 1 \in 1 .. Len(t) /\ i - 1 \in DOMAIN q
          BY <2>1, <2>2, <2>3, <3>2
        <4>2. q[i - 1] = s[i]
          BY <2>1, <2>2, <2>3, <4>1
        <4> QED
          BY <4>1, <4>2 DEF ToSet
      <3> QED
        BY <3>1, <3>2
    <2>6. Append(IF Len(s) >= RingCapacity THEN Tail(s) ELSE s, e) = q
      BY <1>1 DEF q, t
    <2>7. Head(s) \in Events
      BY <2>1
    <2>8. ToSet(s) \subseteq ToSet(q) \cup {Head(s)}
      BY <2>5 DEF ToSet
    <2> QED
      BY <1>1, <2>3, <2>4, <2>6, <2>7, <2>8
  <1>2. CASE ~(Len(s) >= RingCapacity)
    <2> DEFINE q == Append(s, e)
    <2>1. /\ q \in Seq(Events) /\ Len(q) = Len(s) + 1 /\ q[Len(s) + 1] = e
          /\ \A i \in 1 .. Len(s) : q[i] = s[i]
      OBVIOUS
    <2>2. Append(IF Len(s) >= RingCapacity THEN Tail(s) ELSE s, e) = q
      BY <1>2
    <2> HIDE DEF q
    <2>3. Len(q) <= RingCapacity
      BY <1>0, <1>2, <2>1
    <2>4. e \in ToSet(q) /\ ToSet(s) \subseteq ToSet(q)
      BY <2>1 DEF ToSet
    <2> QED
      BY <1>2, <2>1, <2>2, <2>3, <2>4
  <1> QED
    BY <1>1, <1>2

\* A batch and what is left of the ring hold what the ring held.
LEMMA RingTaken ==
    ASSUME NEW s \in Seq(Events), Len(s) <= RingCapacity
    PROVE  LET k == Min({BatchSize, Len(s)})
               batch == SubSeq(s, 1, k)
               rest == SubSeq(s, k + 1, Len(s))
           IN  /\ ToSet(batch) \subseteq Events
               /\ rest \in Seq(Events) /\ Len(rest) <= RingCapacity
               /\ ToSet(s) \subseteq ToSet(batch) \cup ToSet(rest)
  <1> DEFINE k == Min({BatchSize, Len(s)})
             batch == SubSeq(s, 1, k)
             rest == SubSeq(s, k + 1, Len(s))
  <1>0. BatchSize \in Nat /\ Len(s) \in Nat /\ RingCapacity \in Nat
    BY LogConstants
  <1>1. \E x \in {BatchSize, Len(s)} : \A y \in {BatchSize, Len(s)} : x <= y
    BY <1>0
  <1>2. k \in 0 .. Len(s)
    BY <1>0, <1>1 DEF Min
  <1> HIDE DEF k
  <1>3. /\ batch \in Seq(Events) /\ Len(batch) = k /\ \A i \in 1 .. k : batch[i] = s[i]
    BY <1>0, <1>2
  <1>4. /\ rest \in Seq(Events) /\ Len(rest) = Len(s) - k
        /\ \A i \in 1 .. Len(s) - k : rest[i] = s[k + i]
    BY <1>0, <1>2
  <1> HIDE DEF batch, rest
  <1>5. ASSUME NEW i \in 1 .. Len(s) PROVE s[i] \in ToSet(batch) \cup ToSet(rest)
    <2>1. CASE i <= k
      <3>1. i \in DOMAIN batch /\ batch[i] = s[i]
        BY <1>2, <1>3, <2>1
      <3> QED
        BY <3>1 DEF ToSet
    <2>2. CASE ~(i <= k)
      <3>1. i - k \in 1 .. Len(s) - k /\ k + (i - k) = i
        BY <1>0, <1>2, <2>2
      <3>2. i - k \in DOMAIN rest /\ rest[i - k] = s[i]
        BY <1>4, <3>1
      <3> QED
        BY <3>2 DEF ToSet
    <2> QED
      BY <2>1, <2>2
  <1>6. ToSet(batch) \subseteq Events
    BY <1>3 DEF ToSet
  <1>7. Len(rest) <= RingCapacity
    BY <1>0, <1>2, <1>4
  <1>8. ToSet(s) \subseteq ToSet(batch) \cup ToSet(rest)
    BY <1>5 DEF ToSet
  <1> QED
    BY <1>4, <1>6, <1>7, <1>8 DEF batch, rest, k

(***************************************************************************)
(* LogTier: where an event may be forgotten, it is kept elsewhere.         *)
(***************************************************************************)
\* A batch on its way has a delivery left.
TriesLeft == \A t \in logTasks : t.tries < MaxTries
LogTyped == LogTypeOK /\ TriesLeft

Stored == hot \cup {e \in Events : cold[e] > 0} \cup excused

\* Rows that are written stay in the store until a partition has them, and what
\* is about to be forgotten (a claimed batch, the spool file, the rows of a day)
\* has been written.
WrittenStored ==
    /\ logger.at = "written" => logger.events \subseteq Stored
    /\ ingest.at = "written" => ingest.events \subseteq Stored
    /\ ingest.at # "idle" => spool \subseteq ingest.events \cup appended
    /\ \A r \in Rollers : \A e \in roller[r].done : cold[e] > 0 \/ e \in excused

KeptInv == LogTyped /\ WrittenStored /\ NoSilentLoss

\* What a roller has in hand.
InRoll(r) == roller[r].todo \cup roller[r].done

\* An event whose cold row could not be doubled yet: the pass that has its row
\* in hand is the only one, and has written it at most once.
ColdFits(e) ==
    /\ cold[e] <= 1
    /\ \A r \in Rollers : e \in roller[r].todo => cold[e] = 0 /\ e \notin roller[r].done
    /\ e \in hot /\ cold[e] > 0 => \E r \in Rollers : e \in roller[r].done
    /\ \A r \in Rollers : e \in InRoll(r) =>
           e \in hot /\ \A q \in Rollers : e \in InRoll(q) => q = r

ColdInv == LogTyped /\ \A e \in Events : e \notin twice => ColdFits(e)

\* The day written next is one of those to be written.
LEMMA EarliestIn ==
    ASSUME LogTyped, NEW r \in Rollers, roller[r].todo # {}
    PROVE  Earliest(r) \in roller[r].todo /\ Earliest(r) \in Events
  <1>1. roller[r].todo \subseteq Events /\ Events \subseteq Nat
    BY DEF LogTyped, LogTypeOK, Events
  <1>2. \E e \in roller[r].todo : \A d \in roller[r].todo : e <= d
    BY <1>1, LeastExists
  <1> QED
    BY <1>1, <1>2 DEF Earliest

RollType == [at : {"idle", "write"}, todo : SUBSET Events, done : SUBSET Events]
ClaimType == [at : {"idle", "claimed", "written"}, events : SUBSET Events, tries : 0 .. MaxTries]
TaskType == [events : SUBSET Events, tries : 0 .. MaxTries]

LEMMA LogTypes ==
    LogTypeOK <=>
      /\ sink \in {"state", "queue", "spool"}
      /\ recorded \subseteq Events /\ flushing \subseteq Events /\ deadTasks \subseteq Events
      /\ spool \subseteq Events /\ hot \subseteq Events /\ excused \subseteq Events
      /\ appended \subseteq Events /\ twice \subseteq Events
      /\ ring \in Seq(Events) /\ Len(ring) <= RingCapacity
      /\ logTasks \subseteq TaskType /\ logger \in ClaimType
      /\ ingest \in [at : {"idle", "read", "written"}, events : SUBSET Events]
      /\ cold \in [Events -> Nat] /\ roller \in [Rollers -> RollType]
      /\ logFaults \in 0 .. MaxLogFaults
  BY DEF LogTypeOK, RollType, ClaimType, TaskType

\* Every step keeps the types.
LEMMA LogTypedStep == LogTyped /\ [LogNext]_logVars => LogTyped'
  <1> SUFFICES ASSUME LogTyped, [LogNext]_logVars PROVE LogTyped'
    OBVIOUS
  <1>0. /\ sink \in {"state", "queue", "spool"}
        /\ recorded \subseteq Events /\ flushing \subseteq Events /\ deadTasks \subseteq Events
        /\ spool \subseteq Events /\ hot \subseteq Events /\ excused \subseteq Events
        /\ appended \subseteq Events /\ twice \subseteq Events
        /\ ring \in Seq(Events) /\ Len(ring) <= RingCapacity
        /\ logTasks \subseteq TaskType /\ logger \in ClaimType
        /\ ingest \in [at : {"idle", "read", "written"}, events : SUBSET Events]
        /\ cold \in [Events -> Nat] /\ roller \in [Rollers -> RollType]
        /\ logFaults \in 0 .. MaxLogFaults
    BY LogTypes DEF LogTyped
  <1>1. TriesLeft
    BY DEF LogTyped
  <1> DEFINE G == /\ sink' \in {"state", "queue", "spool"}
                  /\ recorded' \subseteq Events /\ flushing' \subseteq Events
                  /\ deadTasks' \subseteq Events
                  /\ spool' \subseteq Events /\ hot' \subseteq Events /\ excused' \subseteq Events
                  /\ appended' \subseteq Events /\ twice' \subseteq Events
                  /\ ring' \in Seq(Events) /\ Len(ring') <= RingCapacity
                  /\ logTasks' \subseteq TaskType /\ logger' \in ClaimType
                  /\ ingest' \in [at : {"idle", "read", "written"}, events : SUBSET Events]
                  /\ cold' \in [Events -> Nat] /\ roller' \in [Rollers -> RollType]
                  /\ logFaults' \in 0 .. MaxLogFaults
                  /\ TriesLeft'
  <1>2. G => LogTyped'
    BY DEF LogTyped, LogTypeOK, RollType, ClaimType, TaskType
  <1> SUFFICES G
    BY <1>2
  <1>3. LogFault => logFaults' \in 0 .. MaxLogFaults
    BY <1>0, LogConstants DEF LogFault
  <1>4. NoClaim \in ClaimType /\ NoRoll \in RollType
        /\ NoIngest \in [at : {"idle", "read", "written"}, events : SUBSET Events]
    BY LogConstants DEF NoClaim, NoRoll, NoIngest, ClaimType, RollType
  <1> USE DEF bufferVars, queueVars, spoolVars, tierVars
  <1>5. ASSUME NEW e \in Events, Record(e) PROVE G
    <2>1. /\ ring' \in Seq(Events) /\ Len(ring') <= RingCapacity
          /\ excused' \subseteq Events
      BY <1>0, <1>5, RingPushed DEF Record
    <2>2. UNCHANGED <<sink, flushing, logTasks, deadTasks, logger, spool, ingest, appended, hot,
                      cold, roller, twice, logFaults>>
      BY <1>5 DEF Record
    <2>3. recorded' \subseteq Events
      BY <1>0, <1>5 DEF Record
    <2> QED
      BY <1>0, <1>1, <2>1, <2>2, <2>3 DEF TriesLeft
  <1>6. CASE TakeBatch
    <2>1. /\ ring' \in Seq(Events) /\ Len(ring') <= RingCapacity
          /\ flushing' \subseteq Events
      BY <1>0, <1>6, RingTaken DEF TakeBatch
    <2>2. UNCHANGED <<sink, recorded, logTasks, deadTasks, logger, spool, ingest, appended, hot,
                      cold, roller, twice, excused, logFaults>>
      BY <1>6 DEF TakeBatch
    <2> QED
      BY <1>0, <1>1, <2>1, <2>2 DEF TriesLeft
  <1>7. CASE FlushToState
    BY <1>0, <1>1, <1>7 DEF FlushToState, WriteEvents, TriesLeft
  <1>8. CASE FlushToQueue
    <2>1. [events |-> flushing, tries |-> 0] \in TaskType
      BY <1>0, LogConstants DEF TaskType
    <2>2. /\ logTasks' \subseteq logTasks \cup {[events |-> flushing, tries |-> 0]}
          /\ excused' \subseteq excused \cup flushing
      BY <1>8 DEF FlushToQueue
    <2>3. TriesLeft'
      BY <1>1, <2>2, LogConstants DEF TriesLeft
    <2>4. UNCHANGED <<sink, recorded, ring, deadTasks, logger, spool, ingest, appended, hot, cold,
                      roller, twice, logFaults>> /\ flushing' = {}
      BY <1>8 DEF FlushToQueue
    <2> QED
      BY <1>0, <2>1, <2>2, <2>3, <2>4
  <1>9. CASE FlushToSpool
    BY <1>0, <1>1, <1>9 DEF FlushToSpool, TriesLeft
  <1>10. CASE FlushFails
    BY <1>0, <1>1, <1>3, <1>10 DEF FlushFails, TriesLeft
  <1>11. CASE ProducerDies
    <2>1. ToSet(ring) \subseteq Events
      BY <1>0 DEF ToSet
    <2>2. <<>> \in Seq(Events) /\ Len(<<>>) <= RingCapacity
      BY LogConstants
    <2> QED
      BY <1>0, <1>1, <1>3, <1>11, <2>1, <2>2 DEF ProducerDies, TriesLeft
  <1>12. ASSUME NEW t \in logTasks, ClaimBatch(t) PROVE G
    <2>1. [at |-> "claimed", events |-> t.events, tries |-> t.tries + 1] \in ClaimType
      BY <1>0, <1>1, LogConstants DEF TaskType, ClaimType, TriesLeft
    <2> QED
      BY <1>0, <1>1, <1>12, <2>1 DEF ClaimBatch, TriesLeft
  <1>13. CASE HandleBatch
    <2>1. logger.events \subseteq Events /\ [logger EXCEPT !.at = "written"] \in ClaimType
      BY <1>0 DEF ClaimType
    <2> QED
      BY <1>0, <1>1, <1>13, <2>1 DEF HandleBatch, WriteEvents, TriesLeft
  <1>14. CASE AckBatch
    BY <1>0, <1>1, <1>4, <1>14 DEF AckBatch, TriesLeft
  <1>15. CASE BatchReturns
    <2>1. logger.events \subseteq Events /\ logger.tries \in 0 .. MaxTries
      BY <1>0 DEF ClaimType
    <2>2. [events |-> logger.events, tries |-> logger.tries] \in TaskType
      BY <2>1 DEF TaskType
    <2>3. /\ logTasks' \subseteq logTasks \cup {[events |-> logger.events, tries |-> logger.tries]}
          /\ logger.tries < MaxTries \/ logTasks' = logTasks
          /\ deadTasks' \subseteq deadTasks \cup logger.events
      BY <1>15 DEF BatchReturns
    <2>4. TriesLeft'
      BY <1>1, <2>3 DEF TriesLeft
    <2>5. /\ UNCHANGED <<sink, recorded, ring, flushing, spool, ingest, appended, hot, cold,
                         roller, twice, excused>>
          /\ logger' = NoClaim /\ LogFault
      BY <1>15 DEF BatchReturns
    <2> QED
      BY <1>0, <1>3, <1>4, <2>1, <2>2, <2>3, <2>4, <2>5
  <1>16. CASE ReadSpool
    BY <1>0, <1>1, <1>16 DEF ReadSpool, TriesLeft
  <1>17. CASE IngestSpool
    BY <1>0, <1>1, <1>17 DEF IngestSpool, WriteEvents, TriesLeft
  <1>18. CASE UnlinkSpool
    BY <1>0, <1>1, <1>4, <1>18 DEF UnlinkSpool, TriesLeft
  <1>19. CASE IngestFails
    BY <1>0, <1>1, <1>3, <1>4, <1>19 DEF IngestFails, TriesLeft
  <1>20. ASSUME NEW r \in Rollers, NEW n \in Events, SelectExpired(r, n) PROVE G
    <2>1. [at |-> "write", todo |-> {e \in hot : e <= n}, done |-> {}] \in RollType
      BY <1>0 DEF RollType
    <2>2. roller' \in [Rollers -> RollType]
      BY <1>0, <1>20, <2>1 DEF SelectExpired
    <2>3. twice' \subseteq Events
      BY <1>0, <1>20 DEF SelectExpired
    <2> QED
      BY <1>0, <1>1, <1>20, <2>2, <2>3 DEF SelectExpired, TriesLeft
  <1>21. ASSUME NEW r \in Rollers, WritePartition(r) \/ DropDay(r) \/ DeferDay(r) PROVE G
    <2>1. PICK e \in Events : e = Earliest(r)
      BY <1>21, EarliestIn DEF WritePartition, DropDay, DeferDay
    <2>2. roller[r] \in RollType
      BY <1>0
    <2>3. /\ [roller[r] EXCEPT !.todo = @ \ {e}] \in RollType
          /\ [roller[r] EXCEPT !.todo = @ \ {e}, !.done = @ \cup {e}] \in RollType
      BY <2>2 DEF RollType
    <2>4. roller' \in [Rollers -> RollType]
      <3>1. CASE WritePartition(r)
        BY <1>0, <2>1, <2>2, <3>1 DEF WritePartition, RollType
      <3>2. CASE DropDay(r)
        BY <1>0, <2>1, <2>2, <3>2 DEF DropDay, RollType
      <3>3. CASE DeferDay(r)
        BY <1>0, <2>1, <2>2, <3>3 DEF DeferDay, RollType
      <3> QED
        BY <1>21, <3>1, <3>2, <3>3
    <2>5. cold' \in [Events -> Nat]
      <3>1. cold' = cold \/ cold' = [cold EXCEPT ![e] = cold[e] + 1]
        BY <1>21, <2>1 DEF WritePartition, DropDay, DeferDay
      <3>2. cold[e] + 1 \in Nat
        BY <1>0
      <3> QED
        BY <1>0, <3>1, <3>2
    <2>6. excused' \subseteq Events /\ logFaults' \in 0 .. MaxLogFaults
      BY <1>0, <1>3, <1>21, <2>1 DEF WritePartition, DropDay, DeferDay
    <2>7. UNCHANGED <<sink, recorded, ring, flushing, logTasks, deadTasks, logger, spool, ingest,
                      appended, hot, twice>>
      BY <1>21 DEF WritePartition, DropDay, DeferDay
    <2> QED
      BY <1>0, <1>1, <2>4, <2>5, <2>6, <2>7 DEF TriesLeft
  <1>22. ASSUME NEW r \in Rollers, DeleteIds(r) PROVE G
    BY <1>0, <1>1, <1>4, <1>22 DEF DeleteIds, TriesLeft
  <1>23. ASSUME NEW r \in Rollers, RollFails(r) PROVE G
    <2>1. roller[r].done \subseteq Events
      BY <1>0 DEF RollType
    <2> QED
      BY <1>0, <1>1, <1>3, <1>4, <1>23, <2>1 DEF RollFails, TriesLeft
  <1>24. ASSUME NEW e \in Events, DropExpiredPartition(e) PROVE G
    BY <1>0, <1>1, <1>24 DEF DropExpiredPartition, TriesLeft
  <1>25. CASE UNCHANGED logVars
    BY <1>0, <1>1, <1>25 DEF logVars, TriesLeft
  <1> HIDE DEF G
  <1> QED
    BY <1>5, <1>6, <1>7, <1>8, <1>9, <1>10, <1>11, <1>12, <1>13, <1>14, <1>15, <1>16, <1>17, <1>18,
       <1>19, <1>20, <1>21, <1>22, <1>23, <1>24, <1>25 DEF LogNext, Flush, Persist, Ingest

\* On its way, and not yet in the store.
Queued == UNION {t.events : t \in logTasks}
Claimed == IF logger.at = "claimed" THEN logger.events ELSE {}
Waiting == ToSet(ring) \cup flushing \cup Queued \cup deadTasks \cup Claimed \cup spool

LEMMA KeptParts == NoSilentLoss <=> recorded \subseteq Waiting \cup Stored \cup appended
  <1>1. Kept = ToSet(ring) \cup flushing \cup Queued \cup deadTasks \cup Claimed
               \cup spool \cup hot \cup {e \in Events : cold[e] > 0}
    BY DEF Kept, Queued, Claimed
  <1> QED
    BY <1>1 DEF NoSilentLoss, Waiting, Stored

\* What is stored stays stored, or is dropped with a count or by retention.
LEMMA StoredStays ==
    ASSUME KeptInv, [LogNext]_logVars
    PROVE  Stored \subseteq Stored' /\ appended \subseteq appended'
  <1>0. LogTyped /\ cold \in [Events -> Nat] /\ hot \subseteq Events /\ WrittenStored
    BY LogTypes DEF KeptInv, LogTyped
  <1> USE DEF bufferVars, queueVars, spoolVars, tierVars
  <1>1. ASSUME hot \subseteq hot', \A e \in Events : cold[e] > 0 => cold'[e] > 0,
               excused \subseteq excused', appended \subseteq appended'
        PROVE  Stored \subseteq Stored' /\ appended \subseteq appended'
    BY <1>1 DEF Stored
  <1>2. ASSUME UNCHANGED cold, hot \subseteq hot', excused \subseteq excused',
               appended \subseteq appended'
        PROVE  Stored \subseteq Stored' /\ appended \subseteq appended'
    BY <1>1, <1>2
  <1>3. ASSUME NEW e \in Events, Record(e) \/ DropExpiredPartition(e)
        PROVE  Stored \subseteq Stored' /\ appended \subseteq appended'
    <2>1. CASE Record(e)
      BY <1>2, <2>1 DEF Record
    <2>2. CASE DropExpiredPartition(e)
      <3>1. /\ \A d \in Events : d # e => cold'[d] = cold[d]
            /\ excused' = excused \cup {e} /\ UNCHANGED <<hot, appended>>
        BY <1>0, <2>2 DEF DropExpiredPartition
      <3> QED
        BY <3>1 DEF Stored
    <2> QED
      BY <1>3, <2>1, <2>2
  <1>4. CASE Flush \/ FlushFails \/ ProducerDies
    BY <1>2, <1>4 DEF Flush, TakeBatch, FlushToState, FlushToQueue, FlushToSpool, FlushFails,
                      ProducerDies, WriteEvents
  <1>5. CASE Persist \/ BatchReturns \/ Ingest \/ IngestFails
    BY <1>2, <1>5 DEF Persist, ClaimBatch, HandleBatch, AckBatch, BatchReturns, Ingest, ReadSpool,
                      IngestSpool, UnlinkSpool, IngestFails, WriteEvents
  <1>6. ASSUME NEW r \in Rollers, NEW n \in Events, SelectExpired(r, n)
        PROVE  Stored \subseteq Stored' /\ appended \subseteq appended'
    BY <1>2, <1>6 DEF SelectExpired
  <1>7. ASSUME NEW r \in Rollers, WritePartition(r)
        PROVE  Stored \subseteq Stored' /\ appended \subseteq appended'
    <2>1. \A d \in Events : cold[d] > 0 => cold'[d] > 0
      BY <1>0, <1>7 DEF WritePartition
    <2> QED
      BY <1>1, <1>7, <2>1 DEF WritePartition
  <1>8. ASSUME NEW r \in Rollers, DeferDay(r) \/ DropDay(r) \/ RollFails(r)
        PROVE  Stored \subseteq Stored' /\ appended \subseteq appended'
    BY <1>2, <1>8 DEF DeferDay, DropDay, RollFails
  <1>9. ASSUME NEW r \in Rollers, DeleteIds(r)
        PROVE  Stored \subseteq Stored' /\ appended \subseteq appended'
    <2>1. hot' = hot \ roller[r].done /\ UNCHANGED <<cold, excused, appended>>
      BY <1>9 DEF DeleteIds
    <2>2. \A e \in roller[r].done \cap hot : e \in Events /\ (cold[e] > 0 \/ e \in excused)
      BY <1>0 DEF WrittenStored
    <2> QED
      BY <2>1, <2>2 DEF Stored
  <1>10. CASE UNCHANGED logVars
    BY <1>2, <1>10 DEF logVars
  <1> QED
    BY <1>3, <1>4, <1>5, <1>6, <1>7, <1>8, <1>9, <1>10 DEF LogNext

\* What is on its way goes on, gets to the store, or is dropped with a count.
LEMMA WaitingMoves ==
    ASSUME KeptInv, [LogNext]_logVars
    PROVE  Waiting \subseteq Waiting' \cup Stored' \cup appended'
  <1> DEFINE G == Waiting \subseteq Waiting' \cup Stored' \cup appended'
  <1>0. /\ LogTyped /\ WrittenStored /\ ring \in Seq(Events) /\ Len(ring) <= RingCapacity
        /\ flushing \subseteq Events /\ logger \in ClaimType
        /\ ingest \in [at : {"idle", "read", "written"}, events : SUBSET Events]
    BY LogTypes DEF KeptInv, LogTyped
  <1>1. Stored \subseteq Stored' /\ appended \subseteq appended'
    BY StoredStays
  <1> USE DEF bufferVars, queueVars, spoolVars, tierVars
  <1>2. ASSUME UNCHANGED <<ring, flushing, logTasks, deadTasks, logger, spool>> PROVE G
    BY <1>2 DEF Waiting, Queued, Claimed
  <1>3. ASSUME NEW e \in Events, Record(e) PROVE G
    <2>1. /\ ToSet(ring) \subseteq ToSet(ring') \cup excused'
          /\ UNCHANGED <<flushing, logTasks, deadTasks, logger, spool>>
      BY <1>0, <1>3, RingPushed DEF Record
    <2> QED
      BY <2>1 DEF Waiting, Queued, Claimed, Stored
  <1>4. CASE TakeBatch
    <2>1. /\ ToSet(ring) \subseteq ToSet(ring') \cup flushing' /\ flushing = {}
          /\ UNCHANGED <<logTasks, deadTasks, logger, spool>>
      BY <1>0, <1>4, RingTaken DEF TakeBatch
    <2> QED
      BY <2>1 DEF Waiting, Queued, Claimed
  <1>5. CASE FlushToState
    <2>1. flushing \subseteq hot' /\ UNCHANGED <<ring, logTasks, deadTasks, logger, spool>>
      BY <1>5 DEF FlushToState, WriteEvents
    <2> QED
      BY <2>1 DEF Waiting, Queued, Claimed, Stored
  <1>6. CASE FlushToQueue
    <2>1. /\ UNCHANGED <<ring, deadTasks, logger, spool>> /\ logTasks \subseteq logTasks'
          /\ \/ flushing \subseteq excused'
             \/ [events |-> flushing, tries |-> 0] \in logTasks'
      BY <1>6 DEF FlushToQueue
    <2>2. Queued \subseteq Queued' /\ (flushing \subseteq excused' \/ flushing \subseteq Queued')
      BY <2>1 DEF Queued
    <2> QED
      BY <2>1, <2>2 DEF Waiting, Claimed, Stored
  <1>7. CASE FlushToSpool
    <2>1. /\ UNCHANGED <<ring, logTasks, deadTasks, logger>> /\ spool' = spool \cup flushing
      BY <1>7 DEF FlushToSpool
    <2> QED
      BY <2>1 DEF Waiting, Queued, Claimed
  <1>8. CASE FlushFails \/ ProducerDies
    <2>1. /\ flushing \subseteq excused' /\ (ring' = ring \/ ToSet(ring) \subseteq excused')
          /\ UNCHANGED <<logTasks, deadTasks, logger, spool>>
      BY <1>8 DEF FlushFails, ProducerDies
    <2> QED
      BY <2>1 DEF Waiting, Queued, Claimed, Stored
  <1>9. ASSUME NEW t \in logTasks, ClaimBatch(t) PROVE G
    <2>1. /\ UNCHANGED <<ring, flushing, deadTasks, spool>> /\ logger = NoClaim
          /\ logTasks' = logTasks \ {t}
          /\ logger'.at = "claimed" /\ logger'.events = t.events
      BY <1>9 DEF ClaimBatch
    <2>2. Queued \subseteq Queued' \cup Claimed' /\ Claimed = {}
      BY <2>1 DEF Queued, Claimed, NoClaim
    <2> QED
      BY <2>1, <2>2 DEF Waiting
  <1>10. CASE HandleBatch
    <2>1. /\ UNCHANGED <<ring, flushing, logTasks, deadTasks, spool>>
          /\ logger.events \subseteq hot'
      BY <1>10 DEF HandleBatch, WriteEvents
    <2> QED
      BY <2>1 DEF Waiting, Queued, Claimed, Stored
  <1>11. CASE AckBatch
    <2>1. /\ UNCHANGED <<ring, flushing, logTasks, deadTasks, spool>> /\ logger.at = "written"
      BY <1>11 DEF AckBatch
    <2> QED
      BY <2>1 DEF Waiting, Queued, Claimed
  <1>12. CASE BatchReturns
    <2>1. /\ UNCHANGED <<ring, flushing, spool>>
          /\ logTasks \subseteq logTasks' /\ deadTasks \subseteq deadTasks'
          /\ \/ [events |-> logger.events, tries |-> logger.tries] \in logTasks'
             \/ logger.events \subseteq deadTasks'
      BY <1>12 DEF BatchReturns
    <2>2. /\ Queued \subseteq Queued'
          /\ logger.events \subseteq deadTasks' \/ logger.events \subseteq Queued'
      BY <2>1 DEF Queued
    <2> QED
      BY <2>1, <2>2 DEF Waiting, Claimed
  <1>13. CASE UnlinkSpool
    <2>1. /\ UNCHANGED <<ring, flushing, logTasks, deadTasks, logger>>
          /\ spool \subseteq Stored \cup appended
      BY <1>0, <1>13 DEF UnlinkSpool, WrittenStored
    <2> QED
      BY <1>1, <2>1 DEF Waiting, Queued, Claimed
  <1>14. CASE ReadSpool \/ IngestSpool \/ IngestFails
    BY <1>2, <1>14 DEF ReadSpool, IngestSpool, IngestFails
  <1>15. ASSUME NEW r \in Rollers,
                WritePartition(r) \/ DeferDay(r) \/ DropDay(r) \/ DeleteIds(r) \/ RollFails(r)
         PROVE  G
    BY <1>2, <1>15 DEF WritePartition, DeferDay, DropDay, DeleteIds, RollFails
  <1>16. ASSUME NEW e \in Events, DropExpiredPartition(e) \/ \E r \in Rollers : SelectExpired(r, e)
         PROVE  G
    BY <1>2, <1>16 DEF DropExpiredPartition, SelectExpired
  <1>17. CASE UNCHANGED logVars
    BY <1>2, <1>17 DEF logVars
  <1>18. CASE Flush
    BY <1>4, <1>5, <1>6, <1>7, <1>18 DEF Flush
  <1>19. CASE Persist
    BY <1>9, <1>10, <1>11, <1>19 DEF Persist
  <1>20. CASE Ingest
    BY <1>13, <1>14, <1>20 DEF Ingest
  <1> QED
    BY <1>3, <1>8, <1>12, <1>14, <1>15, <1>16, <1>17, <1>18, <1>19, <1>20 DEF LogNext

\* What is about to be forgotten has been written, at every step.
LEMMA WrittenStep ==
    ASSUME KeptInv, [LogNext]_logVars
    PROVE  WrittenStored'
  <1>0. /\ LogTyped /\ WrittenStored /\ roller \in [Rollers -> RollType]
        /\ logger \in ClaimType /\ cold \in [Events -> Nat]
        /\ ingest \in [at : {"idle", "read", "written"}, events : SUBSET Events]
    BY LogTypes DEF KeptInv, LogTyped
  <1>1. Stored \subseteq Stored' /\ appended \subseteq appended'
    BY StoredStays
  <1> USE DEF bufferVars, queueVars, spoolVars, tierVars
  <1>2. (logger.at = "written" => logger.events \subseteq Stored)'
    <2>1. CASE UNCHANGED logger
      BY <1>0, <1>1, <2>1 DEF WrittenStored
    <2>2. CASE HandleBatch
      <3>1. logger'.events = logger.events /\ logger.events \subseteq hot'
        BY <1>0, <2>2 DEF HandleBatch, WriteEvents, ClaimType
      <3> QED
        BY <3>1 DEF Stored
    <2>3. CASE logger'.at \in {"idle", "claimed"}
      BY <2>3
    <2>4. CASE Persist \/ BatchReturns
      BY <2>2, <2>3, <2>4 DEF Persist, ClaimBatch, AckBatch, BatchReturns, NoClaim
    <2>5. \/ UNCHANGED logger \/ Persist \/ BatchReturns
      BY DEF LogNext, logVars, Flush, Ingest, Record, DropExpiredPartition, TakeBatch,
             FlushToState, FlushToQueue, FlushToSpool, FlushFails, ProducerDies,
             ReadSpool, IngestSpool, UnlinkSpool, IngestFails,
             SelectExpired, WritePartition, DeferDay, DropDay, DeleteIds, RollFails
    <2> QED
      BY <2>1, <2>4, <2>5
  <1>3. /\ (ingest.at = "written" => ingest.events \subseteq Stored)'
        /\ (ingest.at # "idle" => spool \subseteq ingest.events \cup appended)'
    <2>1. CASE UNCHANGED <<ingest, spool>>
      BY <1>0, <1>1, <2>1 DEF WrittenStored
    <2>2. CASE FlushToSpool
      <3>1. /\ UNCHANGED ingest /\ spool' = spool \cup flushing
            /\ ingest.at # "idle" => flushing \subseteq appended'
        BY <2>2 DEF FlushToSpool, NoIngest
      <3> QED
        BY <1>0, <1>1, <3>1 DEF WrittenStored
    <2>3. CASE ReadSpool
      <3>1. ingest'.at = "read" /\ ingest'.events = spool /\ spool' = spool
        BY <2>3 DEF ReadSpool
      <3> QED
        BY <3>1
    <2>4. CASE IngestSpool
      <3>1. /\ ingest'.events = ingest.events /\ ingest.events \subseteq hot'
            /\ spool' = spool /\ ingest.at = "read"
        BY <1>0, <2>4 DEF IngestSpool, WriteEvents
      <3> QED
        BY <1>0, <1>1, <3>1 DEF WrittenStored, Stored
    <2>5. CASE ingest'.at = "idle"
      BY <2>5
    <2>6. CASE Ingest \/ IngestFails
      BY <2>3, <2>4, <2>5, <2>6 DEF Ingest, UnlinkSpool, IngestFails, NoIngest
    <2>7. UNCHANGED <<ingest, spool>> \/ FlushToSpool \/ Ingest \/ IngestFails
      BY DEF LogNext, logVars, Flush, Persist, Record, DropExpiredPartition, TakeBatch,
             FlushToState, FlushToQueue, FlushFails, ProducerDies, ClaimBatch, HandleBatch,
             AckBatch, BatchReturns, SelectExpired, WritePartition,
             DeferDay, DropDay, DeleteIds, RollFails
    <2> QED
      BY <2>1, <2>2, <2>6, <2>7
  <1>4. \A r \in Rollers : \A e \in roller'[r].done : cold'[e] > 0 \/ e \in excused'
    <2> DEFINE H == \A r \in Rollers : \A e \in roller'[r].done : cold'[e] > 0 \/ e \in excused'
    <2>0. \A r \in Rollers : roller[r].done \subseteq Events
      BY <1>0 DEF RollType
    <2>1. ASSUME UNCHANGED <<roller, cold>>, excused \subseteq excused' PROVE H
      BY <1>0, <2>1 DEF WrittenStored
    <2>2. ASSUME NEW e \in Events, DropExpiredPartition(e) PROVE H
      BY <1>0, <2>0, <2>2 DEF DropExpiredPartition, WrittenStored
    <2>3. ASSUME NEW r \in Rollers, \/ \E n \in Events : SelectExpired(r, n)
                                    \/ DeleteIds(r) \/ RollFails(r)
          PROVE H
      <3>1. /\ UNCHANGED <<cold, excused>> /\ roller'[r].done = {}
            /\ \A q \in Rollers : q # r => roller'[q] = roller[q]
        BY <1>0, <2>3 DEF SelectExpired, DeleteIds, RollFails, NoRoll
      <3> QED
        BY <1>0, <3>1 DEF WrittenStored
    <2>4. ASSUME NEW r \in Rollers, DeferDay(r) PROVE H
      <3>1. /\ UNCHANGED <<cold, excused>> /\ roller'[r].done = roller[r].done
            /\ \A q \in Rollers : q # r => roller'[q] = roller[q]
        BY <1>0, <2>4 DEF DeferDay, RollType
      <3> QED
        BY <1>0, <3>1 DEF WrittenStored
    <2>5. ASSUME NEW r \in Rollers, WritePartition(r) \/ DropDay(r) PROVE H
      <3>1. PICK e \in Events : e = Earliest(r)
        BY <1>0, <2>5, EarliestIn DEF WritePartition, DropDay
      <3>2. /\ roller'[r].done = roller[r].done \cup {e}
            /\ \A q \in Rollers : q # r => roller'[q] = roller[q]
        <4>1. roller' = [roller EXCEPT ![r].todo = @ \ {e}, ![r].done = @ \cup {e}]
          BY <2>5, <3>1 DEF WritePartition, DropDay
        <4> QED
          BY <1>0, <4>1 DEF RollType
      <3>3. /\ \A d \in Events : cold[d] > 0 => cold'[d] > 0
            /\ excused \subseteq excused' /\ (cold'[e] > 0 \/ e \in excused')
        BY <1>0, <2>5, <3>1 DEF WritePartition, DropDay
      <3> QED
        BY <1>0, <2>0, <3>2, <3>3 DEF WrittenStored
    <2> HIDE DEF H
    <2>6. H
      BY <2>1, <2>2, <2>3, <2>4, <2>5
         DEF LogNext, logVars, Flush, Persist, Ingest, Record, TakeBatch,
             FlushToState, FlushToQueue, FlushToSpool, FlushFails, ProducerDies, ClaimBatch,
             HandleBatch, AckBatch, BatchReturns, ReadSpool, IngestSpool, UnlinkSpool, IngestFails
    <2> QED
      BY <2>6 DEF H
  <1> QED
    BY <1>2, <1>3, <1>4 DEF WrittenStored

LEMMA LogTypedStart == LogInit => LogTyped
  <1> SUFFICES ASSUME LogInit PROVE LogTyped
    OBVIOUS
  <1>1. cold \in [Events -> Nat] /\ roller \in [Rollers -> RollType]
    BY DEF LogInit, NoRoll, RollType
  <1>2. logger \in ClaimType /\ ingest \in [at : {"idle", "read", "written"}, events : SUBSET Events]
    BY LogConstants DEF LogInit, NoClaim, NoIngest, ClaimType
  <1>3. ring \in Seq(Events) /\ Len(ring) <= RingCapacity /\ logFaults \in 0 .. MaxLogFaults
    BY LogConstants DEF LogInit
  <1> QED
    BY <1>1, <1>2, <1>3 DEF LogInit, LogTyped, LogTypeOK, TriesLeft, ClaimType, RollType

\* No event vanishes uncounted between the ring and the partitions, whoever dies
\* or fails when: for any events, rollers, capacities and faults.
THEOREM EventsAreCounted == LogSpec => []NoSilentLoss
  <1>1. LogInit => KeptInv
    <2> SUFFICES ASSUME LogInit PROVE KeptInv
      OBVIOUS
    <2>1. WrittenStored
      BY DEF LogInit, WrittenStored, NoClaim, NoIngest, NoRoll
    <2>2. NoSilentLoss
      BY DEF LogInit, NoSilentLoss
    <2> QED
      BY <2>1, <2>2, LogTypedStart DEF KeptInv
  <1>2. KeptInv /\ [LogNext]_logVars => KeptInv'
    <2> SUFFICES ASSUME KeptInv, [LogNext]_logVars PROVE KeptInv'
      OBVIOUS
    <2>1. Waiting \subseteq Waiting' \cup Stored' \cup appended'
      BY WaitingMoves
    <2>2. Stored \subseteq Stored' /\ appended \subseteq appended'
      BY StoredStays
    <2>3. recorded' \subseteq recorded \cup Waiting'
      <3>1. ASSUME NEW e \in Events, Record(e) PROVE recorded' \subseteq recorded \cup Waiting'
        <4>1. e \in ToSet(ring') /\ recorded' = recorded \cup {e}
          BY <3>1, RingPushed, LogTypes DEF Record, KeptInv, LogTyped
        <4> QED
          BY <4>1 DEF Waiting
      <3>2. CASE UNCHANGED recorded
        BY <3>2
      <3> QED
        BY <3>1, <3>2
           DEF LogNext, logVars, Flush, Persist, Ingest, DropExpiredPartition, TakeBatch,
               FlushToState, FlushToQueue, FlushToSpool, FlushFails, ProducerDies, ClaimBatch,
               HandleBatch, AckBatch, BatchReturns, ReadSpool, IngestSpool, UnlinkSpool,
               IngestFails, SelectExpired, WritePartition, DeferDay, DropDay, DeleteIds,
               RollFails, bufferVars
    <2>4. recorded \subseteq Waiting \cup Stored \cup appended
      BY KeptParts DEF KeptInv
    <2>5. recorded' \subseteq Waiting' \cup Stored' \cup appended'
      BY <2>1, <2>2, <2>3, <2>4
    <2>6. NoSilentLoss'
      <3>1. Kept' = (ToSet(ring) \cup flushing \cup Queued \cup deadTasks \cup Claimed
                     \cup spool \cup hot \cup {e \in Events : cold[e] > 0})'
        BY DEF Kept, Queued, Claimed
      <3> QED
        BY <2>5, <3>1 DEF NoSilentLoss, Waiting, Stored
    <2> QED
      BY <2>6, LogTypedStep, WrittenStep DEF KeptInv
  <1>3. KeptInv => NoSilentLoss
    BY DEF KeptInv
  <1> QED
    BY <1>1, <1>2, <1>3, PTL DEF LogSpec

(***************************************************************************)
(* LogTier: one pass at a time has the rows of an event in hand.           *)
(***************************************************************************)
\* Rows are inserted: one that conflicts is left alone, one whose event is cold
\* already may double it.
LEMMA WriteCold ==
    ASSUME ColdInv, NEW E, WriteEvents(E), UNCHANGED <<cold, roller>>,
           NEW e \in Events, e \notin twice'
    PROVE  ColdFits(e)'
  <1>1. e \notin twice /\ ColdFits(e)
    BY DEF WriteEvents, ColdInv
  <1>2. hot \subseteq hot' /\ (e \in hot' /\ cold[e] > 0 => e \in hot)
    BY DEF WriteEvents
  <1>3. \A r \in Rollers : InRoll(r)' = InRoll(r)
    BY DEF InRoll
  <1> QED
    BY <1>1, <1>2, <1>3 DEF ColdFits

\* A pass that begins with an event nobody else has in hand, and that is not cold.
LEMMA SelectCold ==
    ASSUME ColdInv, NEW r \in Rollers, NEW n \in Events, SelectExpired(r, n),
           NEW e \in Events, e \notin twice'
    PROVE  ColdFits(e)'
  <1> DEFINE rows == {d \in hot : d <= n}
  <1>0. roller \in [Rollers -> RollType]
    BY LogTypes DEF ColdInv, LogTyped
  <1>1. /\ roller[r] = NoRoll /\ UNCHANGED <<hot, cold>>
        /\ roller' = [roller EXCEPT ![r] = [at |-> "write", todo |-> rows, done |-> {}]]
        /\ twice' = twice \cup (rows \cap UNION {roller[q].todo \cup roller[q].done : q \in Rollers})
    BY DEF SelectExpired
  <1>2. e \notin twice /\ ColdFits(e)
    BY <1>1 DEF ColdInv
  <1>3. e \in rows => \A q \in Rollers : e \notin InRoll(q)
    BY <1>1 DEF InRoll
  <1>4. /\ roller'[r].todo = rows /\ roller'[r].done = {} /\ roller[r].done = {}
        /\ \A q \in Rollers : q # r => roller'[q] = roller[q]
    BY <1>0, <1>1 DEF NoRoll
  <1>5. e \in rows => e \in hot /\ cold[e] = 0
    <2>1. cold[e] \in Nat
      BY LogTypes DEF ColdInv, LogTyped
    <2>2. e \in rows => ~(cold[e] > 0)
      BY <1>2, <1>3 DEF ColdFits, InRoll
    <2> QED
      BY <2>1, <2>2
  <1>6. /\ InRoll(r)' = rows
        /\ \A q \in Rollers : q # r => InRoll(q)' = InRoll(q)
    BY <1>4 DEF InRoll
  <1> HIDE DEF rows
  <1>7. /\ cold'[e] <= 1
        /\ e \in hot' /\ cold'[e] > 0 => \E q \in Rollers : e \in roller'[q].done
    BY <1>1, <1>2, <1>4 DEF ColdFits
  <1>8. \A q \in Rollers : e \in roller'[q].todo => cold'[e] = 0 /\ e \notin roller'[q].done
    BY <1>1, <1>2, <1>4, <1>5 DEF ColdFits
  <1>9. \A q \in Rollers : e \in InRoll(q)' =>
            e \in hot' /\ \A p \in Rollers : e \in InRoll(p)' => p = q
    BY <1>1, <1>2, <1>3, <1>5, <1>6 DEF ColdFits
  <1> QED
    BY <1>7, <1>8, <1>9 DEF ColdFits

\* A day is written, deferred or dropped by the one pass that has it.
LEMMA DayCold ==
    ASSUME ColdInv, NEW r \in Rollers, WritePartition(r) \/ DeferDay(r) \/ DropDay(r),
           NEW e \in Events, e \notin twice'
    PROVE  ColdFits(e)'
  <1>0. roller \in [Rollers -> RollType] /\ cold \in [Events -> Nat]
    BY LogTypes DEF ColdInv, LogTyped
  <1>1. PICK d \in Events : d = Earliest(r) /\ d \in roller[r].todo
    BY EarliestIn DEF ColdInv, WritePartition, DeferDay, DropDay
  <1>2. e \notin twice /\ ColdFits(e) /\ UNCHANGED hot
    BY DEF ColdInv, WritePartition, DeferDay, DropDay
  <1>3. /\ \A q \in Rollers : q # r => roller'[q] = roller[q]
        /\ roller'[r].todo = roller[r].todo \ {d}
        /\ \/ roller'[r].done = roller[r].done /\ cold' = cold
           \/ /\ roller'[r].done = roller[r].done \cup {d}
              /\ cold' = cold \/ cold' = [cold EXCEPT ![d] = @ + 1]
    <2>1. CASE WritePartition(r)
      BY <1>0, <1>1, <2>1 DEF WritePartition, RollType
    <2>2. CASE DeferDay(r)
      BY <1>0, <1>1, <2>2 DEF DeferDay, RollType
    <2>3. CASE DropDay(r)
      BY <1>0, <1>1, <2>3 DEF DropDay, RollType
    <2> QED
      BY <2>1, <2>2, <2>3
  <1>4. CASE e # d
    <2>1. cold'[e] = cold[e]
      BY <1>0, <1>3, <1>4
    <2>2. \A q \in Rollers : /\ e \in roller'[q].todo <=> e \in roller[q].todo
                             /\ e \in roller'[q].done <=> e \in roller[q].done
      BY <1>3, <1>4
    <2> QED
      BY <1>2, <2>1, <2>2 DEF ColdFits, InRoll
  <1>5. CASE e = d
    <2>1. cold[e] = 0 /\ e \notin roller[r].done /\ e \in InRoll(r) /\ e \in hot
      BY <1>1, <1>2, <1>5 DEF ColdFits, InRoll
    <2>2. \A q \in Rollers : q # r => e \notin roller'[q].todo /\ e \notin roller'[q].done
      BY <1>2, <1>3, <2>1 DEF ColdFits, InRoll
    <2>3. e \notin roller'[r].todo
      BY <1>3, <1>5
    <2>4. cold'[e] \in {0, 1} /\ (cold'[e] = 1 => e \in roller'[r].done)
      BY <1>0, <1>3, <1>5, <2>1
    <2> QED
      BY <1>2, <2>1, <2>2, <2>3, <2>4 DEF ColdFits, InRoll
  <1> QED
    BY <1>4, <1>5

\* A pass that ends deletes the rows it has written, or is known to have failed.
LEMMA EndCold ==
    ASSUME ColdInv, NEW r \in Rollers, DeleteIds(r) \/ RollFails(r),
           NEW e \in Events, e \notin twice'
    PROVE  ColdFits(e)'
  <1>0. roller \in [Rollers -> RollType] /\ cold \in [Events -> Nat]
    BY LogTypes DEF ColdInv, LogTyped
  <1>1. /\ roller'[r] = NoRoll /\ UNCHANGED cold
        /\ \A q \in Rollers : q # r => roller'[q] = roller[q]
    BY <1>0 DEF DeleteIds, RollFails
  <1>2. e \notin twice /\ ColdFits(e)
    BY DEF ColdInv, DeleteIds, RollFails
  <1>3. roller'[r].todo = {} /\ roller'[r].done = {}
    BY <1>1 DEF NoRoll
  <1>4. \/ hot' = hot \ roller[r].done
        \/ hot' = hot /\ e \notin roller[r].done
    BY DEF DeleteIds, RollFails
  <1>5. /\ cold'[e] <= 1
        /\ \A q \in Rollers : e \in roller'[q].todo => cold'[e] = 0 /\ e \notin roller'[q].done
    BY <1>1, <1>2, <1>3 DEF ColdFits
  <1>6. e \in hot' /\ cold'[e] > 0 => \E q \in Rollers : e \in roller'[q].done
    <2> SUFFICES ASSUME e \in hot', cold'[e] > 0 PROVE \E q \in Rollers : e \in roller'[q].done
      OBVIOUS
    <2>1. e \in hot /\ e \notin roller[r].done
      BY <1>4
    <2>2. PICK q \in Rollers : e \in roller[q].done
      BY <1>1, <1>2, <2>1 DEF ColdFits
    <2> QED
      BY <1>1, <2>1, <2>2
  <1>7. \A q \in Rollers : e \in InRoll(q)' => q # r /\ e \in InRoll(q)
    BY <1>1, <1>3 DEF InRoll
  <1>8. \A q \in Rollers : e \in InRoll(q)' =>
            e \in hot' /\ \A p \in Rollers : e \in InRoll(p)' => p = q
    <2> SUFFICES ASSUME NEW q \in Rollers, e \in InRoll(q)'
                 PROVE  e \in hot' /\ \A p \in Rollers : e \in InRoll(p)' => p = q
      OBVIOUS
    <2>1. q # r /\ e \in hot /\ \A p \in Rollers : e \in InRoll(p) => p = q
      BY <1>2, <1>7 DEF ColdFits
    <2>2. e \notin roller[r].done
      BY <2>1 DEF InRoll
    <2> QED
      BY <1>4, <1>7, <2>1, <2>2
  <1> QED
    BY <1>5, <1>6, <1>8 DEF ColdFits

\* Every step leaves an event that could not be doubled in one cold row at most.
LEMMA ColdStep == ColdInv /\ [LogNext]_logVars => ColdInv'
  <1> SUFFICES ASSUME ColdInv, [LogNext]_logVars, NEW e \in Events, e \notin twice'
               PROVE  ColdFits(e)'
    BY LogTypedStep DEF ColdInv
  <1> USE DEF bufferVars, queueVars, spoolVars, tierVars
  <1>1. ASSUME UNCHANGED <<hot, cold, roller, twice>> PROVE ColdFits(e)'
    BY <1>1 DEF ColdInv, ColdFits, InRoll
  <1>2. ASSUME NEW E, WriteEvents(E), UNCHANGED <<cold, roller>> PROVE ColdFits(e)'
    BY <1>2, WriteCold
  <1>3. CASE Flush \/ FlushFails \/ ProducerDies
    BY <1>1, <1>2, <1>3 DEF Flush, TakeBatch, FlushToState, FlushToQueue, FlushToSpool, FlushFails,
                            ProducerDies
  <1>4. CASE Persist \/ BatchReturns
    BY <1>1, <1>2, <1>4 DEF Persist, ClaimBatch, HandleBatch, AckBatch, BatchReturns
  <1>5. CASE Ingest \/ IngestFails
    BY <1>1, <1>2, <1>5 DEF Ingest, ReadSpool, IngestSpool, UnlinkSpool, IngestFails
  <1>6. ASSUME NEW d \in Events, Record(d) PROVE ColdFits(e)'
    BY <1>1, <1>6 DEF Record
  <1>7. ASSUME NEW d \in Events, DropExpiredPartition(d) PROVE ColdFits(e)'
    <2>1. /\ UNCHANGED <<hot, roller, twice>> /\ (cold'[e] = cold[e] \/ cold'[e] = 0)
      BY <1>7, LogTypes DEF DropExpiredPartition, ColdInv, LogTyped
    <2>2. e \notin twice /\ ColdFits(e)
      BY <2>1 DEF ColdInv
    <2>3. \A r \in Rollers : InRoll(r)' = InRoll(r)
      BY <2>1 DEF InRoll
    <2>4. cold'[e] <= 1 /\ (cold'[e] > 0 => cold'[e] = cold[e])
      BY <2>1, <2>2 DEF ColdFits
    <2>5. \A r \in Rollers : e \in roller[r].todo => cold'[e] = 0 /\ e \notin roller[r].done
      BY <2>1, <2>2 DEF ColdFits
    <2> QED
      BY <2>1, <2>2, <2>3, <2>4, <2>5 DEF ColdFits
  <1>8. ASSUME NEW r \in Rollers, NEW n \in Events, SelectExpired(r, n) PROVE ColdFits(e)'
    BY <1>8, SelectCold
  <1>9. ASSUME NEW r \in Rollers, WritePartition(r) \/ DeferDay(r) \/ DropDay(r) PROVE ColdFits(e)'
    BY <1>9, DayCold
  <1>10. ASSUME NEW r \in Rollers, DeleteIds(r) \/ RollFails(r) PROVE ColdFits(e)'
    BY <1>10, EndCold
  <1>11. CASE UNCHANGED logVars
    BY <1>1, <1>11 DEF logVars
  <1> QED
    BY <1>3, <1>4, <1>5, <1>6, <1>7, <1>8, <1>9, <1>10, <1>11 DEF LogNext

\* Cold storage holds an event once, unless a pass died between writing and
\* deleting, two passes rolled its row, or it came back after it was rolled: for
\* any events, rollers and faults.
THEOREM ColdRowsAreSingle == LogSpec => []ColdOnce
  <1>1. LogInit => ColdInv
    <2> SUFFICES ASSUME LogInit PROVE \A e \in Events : ColdFits(e)
      BY LogTypedStart DEF ColdInv
    <2>1. \A r \in Rollers : roller[r].todo = {} /\ roller[r].done = {} /\ InRoll(r) = {}
      BY DEF LogInit, NoRoll, InRoll
    <2> QED
      BY <2>1 DEF LogInit, ColdFits
  <1>2. ColdInv => ColdOnce
    BY LogTypes DEF ColdInv, ColdFits, ColdOnce, LogTyped
  <1> QED
    BY <1>1, <1>2, ColdStep, PTL DEF LogSpec
=============================================================================
