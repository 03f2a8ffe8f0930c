--------------------------- MODULE ServiceProofs ---------------------------
(***************************************************************************)
(* Proofs about the services a sync leans on: the pool of remote workers,  *)
(* where a probe is never leaked and a dead worker stays cheap, and the    *)
(* board of background jobs, which shows what runs.                        *)
(***************************************************************************)
EXTENDS RemotePool, JobRegistry, FiniteSetTheorems, SequenceTheorems, TLAPS

(***************************************************************************)
(* RemotePool: types.                                                      *)
(***************************************************************************)
Places == {"idle", "order", "pick", "sent", "record"}

Call == [at : Places, cands : Seq(Endpoints), tries : 0 .. MaxDispatches,
         probe : BOOLEAN, ok : BOOLEAN]

\* What is left of the candidates when the first has been tried.
LEMMA RestOfCandidates ==
    ASSUME NEW S, NEW s \in Seq(S), s # <<>>
    PROVE  /\ Len(s) \in Nat \ {0} /\ DOMAIN s = 1 .. Len(s)
           /\ Head(s) = s[1] /\ Head(s) \in S
           /\ Tail(s) \in Seq(S) /\ Len(Tail(s)) = Len(s) - 1
           /\ \A i \in 1 .. Len(s) - 1 : Tail(s)[i] = s[i + 1]
  BY HeadTailProperties

\* An order is a list of available endpoints, each of them once.
LEMMA OrdersAre ==
    ASSUME PoolTypeOK, NEW k \in Endpoints, NEW s \in Orders(k)
    PROVE  /\ s \in Seq(Endpoints) /\ Len(s) \in Nat /\ DOMAIN s = 1 .. Len(s)
           /\ \A i \in DOMAIN s : Available(s[i])
           /\ \A i, j \in DOMAIN s : s[i] = s[j] => i = j
  <1>1. PICK n \in 0 .. PoolSize : s \in [1 .. n -> Endpoints]
    BY DEF Orders
  <1>2. s \in Seq(Endpoints) /\ Len(s) = n /\ DOMAIN s = 1 .. Len(s) /\ Len(s) \in Nat
    BY <1>1, PoolConstants
  <1>3. \A i \in DOMAIN s : s[i] \in {e \in Endpoints : Available(e)}
    BY DEF Orders
  <1>4. \A e \in Endpoints : Place(k, e) \in Int
    BY PoolConstants DEF Endpoints, Place
  <1>5. \A i, j \in DOMAIN s : i < j => Place(k, s[i]) < Place(k, s[j])
    BY DEF Orders
  <1>6. ASSUME NEW i \in DOMAIN s, NEW j \in DOMAIN s, s[i] = s[j]
        PROVE  i = j
    <2>1. s[i] \in Endpoints
      BY <1>1
    <2>2. Place(k, s[i]) \in Int /\ Place(k, s[i]) = Place(k, s[j])
      BY <1>4, <1>6, <2>1
    <2>3. ~ (i < j) /\ ~ (j < i)
      BY <1>5, <2>2
    <2> QED
      BY <1>2, <2>3
  <1> QED
    BY <1>2, <1>3, <1>6

\* A candidate list names an endpoint once, and is not used up while its head
\* is being tried.
ListsAreUsable ==
    \A c \in Callers :
       /\ caller[c].at \in {"sent", "record"} => caller[c].cands # <<>>
       /\ \A i, j \in DOMAIN caller[c].cands :
             caller[c].cands[i] = caller[c].cands[j] => i = j

PoolBase == PoolTypeOK /\ ListsAreUsable

\* What a step makes of one caller's record; the others keep theirs.
Usable(r) == /\ r \in Call
             /\ r.at \in {"sent", "record"} => r.cands # <<>>
             /\ \A i, j \in DOMAIN r.cands : r.cands[i] = r.cands[j] => i = j

LEMMA BaseByCaller == ASSUME PoolBase PROVE caller \in [Callers -> Call] /\ \A c \in Callers : Usable(caller[c])
  <1>1. caller \in [Callers -> Call]
    BY DEF PoolBase, PoolTypeOK, Call, Places
  <1> QED
    BY <1>1 DEF Usable, PoolBase, ListsAreUsable

LEMMA NoCallUsable == Usable(NoCall)
  BY EmptySeq, PoolConstants DEF Usable, NoCall, Call, Places

\* Every step keeps the types and the lists.
LEMMA PoolBased == /\ PoolInit => PoolBase
                   /\ PoolBase /\ [PoolNext]_poolVars => PoolBase'
  <1> USE PoolConstants
  <1>1. PoolInit => PoolBase
    <2> SUFFICES ASSUME PoolInit PROVE PoolBase
      OBVIOUS
    <2>1. /\ caller \in [Callers -> Call]
          /\ \A c \in Callers : caller[c] = NoCall
      BY NoCallUsable DEF PoolInit, Usable
    <2>2. cursor \in Endpoints
      BY DEF PoolInit, Endpoints
    <2>3. ListsAreUsable
      BY <2>1, NoCallUsable DEF ListsAreUsable, Usable
    <2> QED
      BY <2>1, <2>2, <2>3 DEF PoolInit, PoolTypeOK, PoolBase, Call, Places
  <1>2. ASSUME PoolBase, [PoolNext]_poolVars PROVE PoolBase'
    <2> DEFINE Rest == /\ failures \in [Endpoints -> 0 .. FailureThreshold]
                       /\ cooled \in [Endpoints -> BOOLEAN] /\ probing \in [Endpoints -> BOOLEAN]
                       /\ cursor \in Endpoints
                       /\ healthy \in [Endpoints -> BOOLEAN] /\ wasted \in [Endpoints -> Nat]
                       /\ outages \in 0 .. MaxOutages
    <2>0. caller \in [Callers -> Call] /\ \A c \in Callers : Usable(caller[c])
      BY <1>2, BaseByCaller
    <2>01. Rest
      BY <1>2 DEF PoolBase, PoolTypeOK
    <2>02. ASSUME Rest', NEW c \in Callers, NEW r, Usable(r), caller' = [caller EXCEPT ![c] = r]
           PROVE  PoolBase'
      <3>1. caller' \in [Callers -> Call] /\ \A d \in Callers : Usable(caller'[d])
        BY <2>0, <2>02 DEF Usable
      <3>2. ListsAreUsable'
        BY <3>1 DEF Usable, ListsAreUsable
      <3> QED
        BY <2>02, <3>1, <3>2 DEF PoolTypeOK, PoolBase, Call, Places
    <2>03. ASSUME Rest', UNCHANGED caller PROVE PoolBase'
      BY <2>03, <1>2 DEF PoolTypeOK, PoolBase, ListsAreUsable
    <2>04. ASSUME NEW c \in Callers, caller[c].cands # <<>>
           PROVE  /\ Head(caller[c].cands) \in Endpoints
                  /\ Len(caller[c].cands) \in Nat
                  /\ DOMAIN caller[c].cands = 1 .. Len(caller[c].cands)
                  /\ Tail(caller[c].cands) \in Seq(Endpoints)
                  /\ DOMAIN Tail(caller[c].cands) = 1 .. Len(caller[c].cands) - 1
                  /\ \A i \in 1 .. Len(caller[c].cands) - 1 :
                        Tail(caller[c].cands)[i] = caller[c].cands[i + 1]
      <3>1. caller[c].cands \in Seq(Endpoints)
        BY <2>0 DEF Call
      <3> QED
        BY <2>04, <3>1, RestOfCandidates
    <2>1. ASSUME NEW c \in Callers, Order(c) PROVE PoolBase'
      <3>1. cursor' \in Endpoints
        BY <2>01, <2>1 DEF Order, Endpoints
      <3>2. PICK s \in Orders(cursor') : Ordered(c, s)
        BY <2>1 DEF Order
      <3>3. s \in Seq(Endpoints) /\ \A i, j \in DOMAIN s : s[i] = s[j] => i = j
        BY <1>2, <3>1, OrdersAre DEF PoolBase
      <3> DEFINE r == IF s = <<>> THEN NoCall ELSE [caller[c] EXCEPT !.at = "pick", !.cands = s]
      <3>4. Usable(r)
        BY <2>0, <3>3, NoCallUsable DEF Usable, Call, Places
      <3>5. caller' = [caller EXCEPT ![c] = r]
        BY <3>2 DEF Ordered
      <3>6. Rest'
        BY <2>01, <2>1, <3>1 DEF Order, breakerVars
      <3> QED
        BY <2>02, <3>4, <3>5, <3>6
    <2>2. ASSUME NEW c \in Callers, Dispatch(c) PROVE PoolBase'
      <3> DEFINE e == Head(caller[c].cands)
                 r == [caller[c] EXCEPT !.at = "sent", !.tries = @ + 1, !.probe = Tripped(e)]
      <3>1. caller[c].cands # <<>> /\ caller[c].tries < MaxDispatches
        BY <2>2 DEF Dispatch
      <3>2. Usable(r)
        <4>1. Tripped(e) \in BOOLEAN /\ caller[c].tries + 1 \in 0 .. MaxDispatches
          BY <2>0, <3>1 DEF Tripped, Call
        <4> HIDE DEF e
        <4>2. r \in Call
          BY <2>0, <4>1 DEF Call, Places
        <4>3. r.cands = caller[c].cands
          BY <2>0 DEF Call
        <4> QED
          BY <2>0, <3>1, <4>2, <4>3 DEF Usable
      <3>3. caller' = [caller EXCEPT ![c] = r]
        BY <2>2 DEF Dispatch
      <3>4. e \in Endpoints
        BY <2>04, <3>1
      <3>5. Rest'
        BY <2>01, <2>2, <3>4 DEF Dispatch, Tripped
      <3> QED
        BY <2>02, <3>2, <3>3, <3>5
    <2>3. ASSUME NEW c \in Callers, RoundEnds(c) PROVE PoolBase'
      <3> DEFINE r == IF caller[c].tries < MaxDispatches
                      THEN [caller[c] EXCEPT !.at = "order"] ELSE NoCall
      <3>1. Usable(r)
        BY <2>0, NoCallUsable DEF Usable, Call, Places
      <3>2. caller' = [caller EXCEPT ![c] = r] /\ Rest'
        BY <2>01, <2>3 DEF RoundEnds, breakerVars
      <3> QED
        BY <2>02, <3>1, <3>2
    <2>4. ASSUME NEW c \in Callers, DeadlinePasses(c) PROVE PoolBase'
      <3>1. caller' = [caller EXCEPT ![c] = NoCall] /\ Rest'
        BY <2>01, <2>4 DEF DeadlinePasses, breakerVars
      <3> QED
        BY <2>02, <3>1, NoCallUsable
    <2>5. ASSUME NEW c \in Callers, Answer(c) PROVE PoolBase'
      <3> DEFINE e == Head(caller[c].cands)
                 r == [caller[c] EXCEPT !.at = "record", !.ok = healthy[e], !.probe = FALSE]
      <3>1. caller[c].cands # <<>>
        BY <2>0, <2>5 DEF Usable, Answer
      <3>2. e \in Endpoints
        BY <2>04, <3>1
      <3>3. Usable(r)
        <4>1. healthy[e] \in BOOLEAN
          BY <2>01, <3>2
        <4> HIDE DEF e
        <4>2. r \in Call
          BY <2>0, <4>1 DEF Call, Places
        <4>3. r.cands = caller[c].cands
          BY <2>0 DEF Call
        <4> QED
          BY <2>0, <3>1, <4>2, <4>3 DEF Usable
      <3>4. caller' = [caller EXCEPT ![c] = r]
        BY <2>5 DEF Answer
      <3>5. caller[c].probe \in BOOLEAN
        BY <2>0 DEF Call
      <3>6. Rest'
        BY <2>01, <2>5, <3>2, <3>5 DEF Answer
      <3> QED
        BY <2>02, <3>3, <3>4, <3>6
    <2>6. ASSUME NEW c \in Callers, RecordSuccess(c) PROVE PoolBase'
      <3> DEFINE e == Head(caller[c].cands)
      <3>0. e \in Endpoints
        BY <2>0, <2>04, <2>6 DEF RecordSuccess, Usable
      <3>1. caller' = [caller EXCEPT ![c] = NoCall] /\ Rest'
        <4>1. /\ failures' = [failures EXCEPT ![e] = 0] /\ probing' = [probing EXCEPT ![e] = FALSE]
              /\ cooled' = [cooled EXCEPT ![e] = TRUE] /\ wasted' = [wasted EXCEPT ![e] = 0]
              /\ caller' = [caller EXCEPT ![c] = NoCall]
              /\ UNCHANGED <<cursor, healthy, outages>>
          BY <2>6 DEF RecordSuccess
        <4> HIDE DEF e
        <4> QED
          BY <2>01, <3>0, <4>1
      <3> QED
        BY <2>02, <3>1, NoCallUsable
    <2>7. ASSUME NEW c \in Callers, RecordFailure(c) PROVE PoolBase'
      <3> DEFINE e == Head(caller[c].cands)
                 r == [caller[c] EXCEPT !.at = "pick", !.cands = Tail(@)]
      <3>1. caller[c].cands # <<>>
        BY <2>0, <2>7 DEF Usable, RecordFailure
      <3>2. e \in Endpoints /\ r.cands = Tail(caller[c].cands) /\ r \in Call
        <4>1. e \in Endpoints /\ Tail(caller[c].cands) \in Seq(Endpoints)
          BY <2>04, <3>1
        <4>2. r.cands = Tail(caller[c].cands)
          BY <2>0 DEF Call
        <4>3. r \in Call
          BY <2>0, <4>1 DEF Call, Places
        <4> QED
          BY <4>1, <4>2, <4>3
      <3>3. \A i, j \in DOMAIN r.cands : r.cands[i] = r.cands[j] => i = j
        <4> DEFINE s == caller[c].cands
        <4>1. /\ Len(s) \in Nat /\ DOMAIN s = 1 .. Len(s)
              /\ DOMAIN r.cands = 1 .. Len(s) - 1
              /\ \A i \in 1 .. Len(s) - 1 : r.cands[i] = s[i + 1]
          BY <2>04, <3>1, <3>2
        <4>2. \A i, j \in DOMAIN s : s[i] = s[j] => i = j
          BY <2>0 DEF Usable
        <4> HIDE DEF r, s
        <4> SUFFICES ASSUME NEW i \in 1 .. Len(s) - 1, NEW j \in 1 .. Len(s) - 1,
                            s[i + 1] = s[j + 1]
                     PROVE  i = j
          BY <4>1
        <4>3. i + 1 \in DOMAIN s /\ j + 1 \in DOMAIN s
          BY <4>1
        <4>4. i + 1 = j + 1
          BY <4>2, <4>3
        <4> QED
          BY <4>4
      <3>4. Usable(r)
        BY <3>2, <3>3 DEF Usable
      <3>5. caller' = [caller EXCEPT ![c] = r]
        BY <2>7 DEF RecordFailure
      <3>6. Rest'
        <4>1. /\ failures' = [failures EXCEPT ![e] = IF @ < FailureThreshold THEN @ + 1 ELSE @]
              /\ probing' = [probing EXCEPT ![e] = FALSE]
              /\ cooled' = [cooled EXCEPT ![e] = @ /\ failures'[e] < FailureThreshold]
              /\ UNCHANGED <<cursor, healthy, wasted, outages>>
          BY <2>7 DEF RecordFailure
        <4>2. (cooled[e] /\ failures'[e] < FailureThreshold) \in BOOLEAN
          OBVIOUS
        <4> HIDE DEF e
        <4>3. failures' \in [Endpoints -> 0 .. FailureThreshold]
          BY <2>01, <3>2, <4>1
        <4>4. cooled' \in [Endpoints -> BOOLEAN]
          BY <2>01, <3>2, <4>1, <4>2
        <4> QED
          BY <2>01, <3>2, <4>1, <4>3, <4>4
      <3> QED
        BY <2>02, <3>4, <3>5, <3>6
    <2>8. ASSUME NEW e \in Endpoints, Cool(e) \/ Outage(e) PROVE PoolBase'
      <3>1. CASE Cool(e)
        BY <2>01, <2>03, <3>1 DEF Cool
      <3>2. CASE Outage(e)
        <4>1. Rest'
          BY <2>01, <3>2 DEF Outage, breakerVars
        <4> QED
          BY <2>03, <3>2, <4>1 DEF Outage
      <3> QED
        BY <2>8, <3>1, <3>2
    <2>9. ASSUME UNCHANGED poolVars PROVE PoolBase'
      BY <2>01, <2>03, <2>9 DEF poolVars
    <2> QED
      BY <1>2, <2>1, <2>2, <2>3, <2>4, <2>5, <2>6, <2>7, <2>8, <2>9
         DEF PoolNext, CallStep
  <1> QED
    BY <1>1, <1>2

(***************************************************************************)
(* The half-open slot.                                                     *)
(***************************************************************************)
Probes(c, e) == caller[c].at = "sent" /\ caller[c].probe /\ Head(caller[c].cands) = e

LEMMA ProbeStep ==
    ASSUME PoolBase, NoLeakedProbe, [PoolNext]_poolVars
    PROVE  NoLeakedProbe'
  <1> USE PoolConstants
  <1> SUFFICES ASSUME NEW e \in Endpoints, probing'[e]
               PROVE  (\E c \in Callers : Probes(c, e))'
    BY DEF NoLeakedProbe, Probes
  <1>0. /\ caller \in [Callers -> Call] /\ \A c \in Callers : Usable(caller[c])
        /\ probing \in [Endpoints -> BOOLEAN]
        /\ probing[e] => \E c \in Callers : Probes(c, e)
    BY BaseByCaller DEF PoolBase, PoolTypeOK, NoLeakedProbe, Probes
  <1>1. ASSUME probing[e], NEW c \in Callers, NEW r, caller' = [caller EXCEPT ![c] = r],
               ~Probes(c, e)
        PROVE  (\E d \in Callers : Probes(d, e))'
    <2>1. PICK d \in Callers : Probes(d, e)
      BY <1>0, <1>1
    <2>2. d # c /\ caller'[d] = caller[d]
      BY <1>0, <1>1, <2>1
    <2> QED
      BY <2>1, <2>2 DEF Probes
  <1>2. ASSUME NEW c \in Callers, Order(c) PROVE (\E d \in Callers : Probes(d, e))'
    <2>1. PICK s : caller' = [caller EXCEPT ![c] = IF s = <<>> THEN NoCall
                                    ELSE [@ EXCEPT !.at = "pick", !.cands = s]]
      BY <1>2 DEF Order, Ordered
    <2> QED
      BY <1>1, <1>2, <2>1 DEF Order, breakerVars, Probes
  <1>3. ASSUME NEW c \in Callers, Dispatch(c) PROVE (\E d \in Callers : Probes(d, e))'
    <2> DEFINE h == Head(caller[c].cands)
               r == [caller[c] EXCEPT !.at = "sent", !.tries = @ + 1, !.probe = Tripped(h)]
    <2>1. /\ caller' = [caller EXCEPT ![c] = r] /\ ~Probes(c, e)
          /\ probing' = [probing EXCEPT ![h] = @ \/ Tripped(h)]
      BY <1>3 DEF Dispatch, Probes
    <2>2. r.cands = caller[c].cands /\ r.at = "sent" /\ r.probe = Tripped(h)
      BY <1>0 DEF Call
    <2>3. CASE probing[e]
      BY <1>1, <2>1, <2>3
    <2>4. CASE ~probing[e]
      <3>1. e = h /\ Tripped(h)
        BY <1>0, <2>1, <2>4
      <3>2. Probes(c, e)'
        BY <1>0, <2>1, <2>2, <3>1 DEF Probes
      <3> QED
        BY <3>2
    <2> QED
      BY <2>3, <2>4
  <1>4. ASSUME NEW c \in Callers, RoundEnds(c) \/ DeadlinePasses(c)
        PROVE  (\E d \in Callers : Probes(d, e))'
    <2>1. probing[e] /\ ~Probes(c, e)
      BY <1>4 DEF RoundEnds, DeadlinePasses, breakerVars, Probes
    <2>2. \E r : caller' = [caller EXCEPT ![c] = r]
      BY <1>4 DEF RoundEnds, DeadlinePasses
    <2> QED
      BY <1>1, <2>1, <2>2
  <1>5. ASSUME NEW c \in Callers, Answer(c) PROVE (\E d \in Callers : Probes(d, e))'
    <2> DEFINE h == Head(caller[c].cands)
               r == [caller[c] EXCEPT !.at = "record", !.ok = healthy[h], !.probe = FALSE]
    <2>1. /\ caller' = [caller EXCEPT ![c] = r]
          /\ probing' = [probing EXCEPT ![h] = @ /\ ~caller[c].probe]
      BY <1>5 DEF Answer
    <2>2. probing[e] /\ ~(e = h /\ caller[c].probe)
      BY <1>0, <2>1
    <2>3. ~Probes(c, e)
      BY <2>2 DEF Probes
    <2> QED
      BY <1>1, <2>1, <2>2, <2>3
  <1>6. ASSUME NEW c \in Callers, RecordSuccess(c) \/ RecordFailure(c)
        PROVE  (\E d \in Callers : Probes(d, e))'
    <2>1. probing[e] /\ ~Probes(c, e)
      BY <1>0, <1>6 DEF RecordSuccess, RecordFailure, Probes
    <2>2. \E r : caller' = [caller EXCEPT ![c] = r]
      <3>1. CASE RecordSuccess(c)
        BY <3>1 DEF RecordSuccess
      <3>2. CASE RecordFailure(c)
        <4>1. caller' = [caller EXCEPT ![c] = [caller[c] EXCEPT !.at = "pick", !.cands = Tail(@)]]
          BY <3>2 DEF RecordFailure
        <4> QED
          BY <4>1
      <3> QED
        BY <1>6, <3>1, <3>2
    <2> QED
      BY <1>1, <2>1, <2>2
  <1>7. ASSUME \/ UNCHANGED poolVars
               \/ \E x \in Endpoints : Cool(x) \/ Outage(x)
        PROVE  (\E d \in Callers : Probes(d, e))'
    <2>1. UNCHANGED <<probing, caller>>
      BY <1>7 DEF poolVars, Cool, Outage, breakerVars
    <2> QED
      BY <1>0, <2>1 DEF Probes
  <1> QED
    BY <1>2, <1>3, <1>4, <1>5, <1>6, <1>7 DEF PoolNext, CallStep

(***************************************************************************)
(* The cost of an open breaker: every dispatch it still gets is one of a   *)
(* caller that has it on a list read earlier, which is then one caller     *)
(* fewer; and whoever opened it has it on its list no more.                *)
(***************************************************************************)
Arms(r, e) == \/ r.at = "pick" /\ \E i \in DOMAIN r.cands : r.cands[i] = e
              \/ r.at \in {"sent", "record"} /\ \E i \in DOMAIN r.cands : i # 1 /\ r.cands[i] = e

Armed(e) == {c \in Callers : Arms(caller[c], e)}

CheapAt(e) ==
    /\ ~cooled[e] => Tripped(e)
    /\ cooled[e] => wasted[e] = 0
    /\ ~cooled[e] => wasted[e] + Cardinality(Armed(e)) <= Cardinality(Callers) - 1

CheapInv == PoolBase /\ \A e \in Endpoints : CheapAt(e)

\* Callers are finitely many, and so are the armed ones.
LEMMA ArmedFinite ==
    ASSUME NEW S \in SUBSET Callers
    PROVE  /\ IsFiniteSet(S) /\ Cardinality(S) \in Nat
           /\ Cardinality(Callers) \in Nat \ {0} /\ Cardinality(S) <= Cardinality(Callers)
           /\ \A T \in SUBSET S : Cardinality(T) <= Cardinality(S)
           /\ \A c \in S : Cardinality(S \ {c}) = Cardinality(S) - 1
  <1>1. IsFiniteSet(Callers) /\ Callers # {}
    BY PoolConstants
  <1>2. IsFiniteSet(S) /\ Cardinality(S) <= Cardinality(Callers)
    BY <1>1, FS_Subset
  <1>3. Cardinality(S) \in Nat /\ Cardinality(Callers) \in Nat
    BY <1>1, <1>2, FS_CardinalityType
  <1>4. Cardinality(Callers) # 0
    BY <1>1, FS_EmptySet
  <1>5. \A T \in SUBSET S : Cardinality(T) <= Cardinality(S)
    BY <1>2, FS_Subset
  <1>6. \A c \in S : Cardinality(S \ {c}) = Cardinality(S) - 1
    BY <1>2, FS_RemoveElement
  <1> QED
    BY <1>2, <1>3, <1>4, <1>5, <1>6

\* A step that arms nobody and leaves the breaker alone.
LEMMA StaysCheap ==
    ASSUME PoolBase, NEW e \in Endpoints, CheapAt(e),
           ~cooled[e] => Armed(e)' \subseteq Armed(e),
           cooled'[e] = cooled[e], wasted'[e] = wasted[e], failures'[e] = failures[e]
    PROVE  CheapAt(e)'
  <1>1. Armed(e) \in SUBSET Callers
    BY DEF Armed
  <1>2. wasted[e] \in Nat
    BY DEF PoolBase, PoolTypeOK
  <1>3. CASE cooled[e]
    BY <1>3 DEF CheapAt
  <1>4. CASE ~cooled[e]
    <2>1. /\ Cardinality(Armed(e)') <= Cardinality(Armed(e)) /\ Cardinality(Armed(e)) \in Nat
          /\ Cardinality(Callers) \in Nat
      BY <1>1, <1>4, ArmedFinite
    <2>2. Armed(e)' \in SUBSET Callers
      BY DEF Armed
    <2>3. Cardinality(Armed(e)') \in Nat
      BY <2>2, ArmedFinite
    <2> QED
      BY <1>2, <1>4, <2>1, <2>3 DEF CheapAt, Tripped
  <1> QED
    BY <1>3, <1>4

\* One caller's record changes and it is armed no more than before.
LEMMA NobodyArmed ==
    ASSUME PoolBase, NEW e \in Endpoints, NEW c \in Callers, NEW r,
           caller' = [caller EXCEPT ![c] = r], Arms(r, e) => Arms(caller[c], e)
    PROVE  Armed(e)' \subseteq Armed(e) /\ (~Arms(r, e) => c \notin Armed(e)')
  <1>1. caller \in [Callers -> Call]
    BY BaseByCaller
  <1>2. caller'[c] = r /\ \A d \in Callers \ {c} : caller'[d] = caller[d]
    BY <1>1
  <1>3. Armed(e)' = {d \in Callers : Arms(caller'[d], e)}
    BY DEF Armed, Arms
  <1> QED
    BY <1>2, <1>3 DEF Armed

LEMMA CheapStep ==
    ASSUME PoolBase, NEW e \in Endpoints, CheapAt(e), [PoolNext]_poolVars
    PROVE  CheapAt(e)'
  <1> USE PoolConstants
  <1>0. /\ caller \in [Callers -> Call] /\ \A c \in Callers : Usable(caller[c])
        /\ cooled \in [Endpoints -> BOOLEAN] /\ wasted \in [Endpoints -> Nat]
        /\ failures \in [Endpoints -> 0 .. FailureThreshold]
        /\ Cardinality(Callers) \in Nat \ {0}
    BY BaseByCaller, ArmedFinite DEF PoolBase, PoolTypeOK
  <1>00. ASSUME NEW c \in Callers, caller[c].cands # <<>>
         PROVE  /\ caller[c].cands \in Seq(Endpoints)
                /\ Len(caller[c].cands) \in Nat \ {0}
                /\ DOMAIN caller[c].cands = 1 .. Len(caller[c].cands)
                /\ Head(caller[c].cands) = caller[c].cands[1]
                /\ Head(caller[c].cands) \in Endpoints
                /\ DOMAIN Tail(caller[c].cands) = 1 .. Len(caller[c].cands) - 1
                /\ \A i \in 1 .. Len(caller[c].cands) - 1 :
                      Tail(caller[c].cands)[i] = caller[c].cands[i + 1]
                /\ \A i \in DOMAIN caller[c].cands :
                      caller[c].cands[i] = Head(caller[c].cands) => i = 1
    <2>1. caller[c].cands \in Seq(Endpoints)
      BY <1>0 DEF Call
    <2>2. /\ Len(caller[c].cands) \in Nat \ {0}
          /\ DOMAIN caller[c].cands = 1 .. Len(caller[c].cands)
          /\ Head(caller[c].cands) = caller[c].cands[1] /\ Head(caller[c].cands) \in Endpoints
          /\ DOMAIN Tail(caller[c].cands) = 1 .. Len(caller[c].cands) - 1
          /\ \A i \in 1 .. Len(caller[c].cands) - 1 :
                Tail(caller[c].cands)[i] = caller[c].cands[i + 1]
      BY <1>00, <2>1, RestOfCandidates
    <2>3. 1 \in DOMAIN caller[c].cands
      BY <2>2
    <2> QED
      BY <1>0, <2>1, <2>2, <2>3 DEF Usable
  <1>1. ASSUME NEW c \in Callers, Order(c) PROVE CheapAt(e)'
    <2>1. PICK s \in Orders(cursor') :
             caller' = [caller EXCEPT ![c] = IF s = <<>> THEN NoCall
                                    ELSE [@ EXCEPT !.at = "pick", !.cands = s]]
      BY <1>1 DEF Order, Ordered
    <2> DEFINE r == IF s = <<>> THEN NoCall ELSE [caller[c] EXCEPT !.at = "pick", !.cands = s]
    <2>2. cursor' \in Endpoints
      BY <1>1 DEF Order, Endpoints, PoolBase, PoolTypeOK
    <2>3. \A i \in DOMAIN s : Available(s[i])
      BY <2>2, OrdersAre DEF PoolBase
    <2>4. ASSUME ~cooled[e] PROVE ~Arms(r, e)
      <3>1. ~Available(e)
        BY <2>4 DEF CheapAt, Available
      <3>2. CASE s = <<>>
        BY <3>2 DEF Arms, NoCall
      <3>3. CASE s # <<>>
        <4>1. r.at = "pick" /\ r.cands = s
          BY <1>0, <3>3 DEF Call
        <4> HIDE DEF r
        <4> QED
          BY <2>3, <3>1, <4>1 DEF Arms
      <3> QED
        BY <3>2, <3>3
    <2>5. caller' = [caller EXCEPT ![c] = r]
      BY <2>1
    <2> HIDE DEF r
    <2>6. ~cooled[e] => Armed(e)' \subseteq Armed(e)
      BY <2>4, <2>5, NobodyArmed
    <2>7. cooled'[e] = cooled[e] /\ wasted'[e] = wasted[e] /\ failures'[e] = failures[e]
      BY <1>1 DEF Order, breakerVars
    <2> QED
      BY <2>6, <2>7, StaysCheap
  <1>2. ASSUME NEW c \in Callers, Dispatch(c) PROVE CheapAt(e)'
    <2> DEFINE h == Head(caller[c].cands)
               r == [caller[c] EXCEPT !.at = "sent", !.tries = @ + 1, !.probe = Tripped(h)]
    <2>1. /\ caller' = [caller EXCEPT ![c] = r]
          /\ wasted' = [wasted EXCEPT ![h] = IF Tripped(h) /\ ~cooled[h] THEN @ + 1 ELSE @]
          /\ UNCHANGED <<failures, cooled>>
          /\ caller[c].at = "pick" /\ caller[c].cands # <<>>
      BY <1>2 DEF Dispatch
    <2>2. r.at = "sent" /\ r.cands = caller[c].cands
      BY <1>0 DEF Call
    <2> HIDE DEF r
    <2>3. Arms(r, e) => Arms(caller[c], e)
      BY <2>1, <2>2 DEF Arms
    <2>4. Armed(e)' \subseteq Armed(e) /\ (~Arms(r, e) => c \notin Armed(e)')
      BY <2>1, <2>3, NobodyArmed
    <2>5. CASE e = h /\ ~cooled[e]
      <3>1. ~Arms(r, e)
        BY <1>00, <2>1, <2>2, <2>5 DEF Arms
      <3>2. c \in Armed(e)
        <4>1. 1 \in DOMAIN caller[c].cands /\ caller[c].cands[1] = e
          BY <1>00, <2>1, <2>5
        <4> QED
          BY <2>1, <4>1 DEF Armed, Arms
      <3>3. Armed(e)' \in SUBSET (Armed(e) \ {c}) /\ Armed(e) \in SUBSET Callers
        BY <2>4, <3>1 DEF Armed
      <3>4. Cardinality(Armed(e)') <= Cardinality(Armed(e) \ {c})
        <4>1. Armed(e) \ {c} \in SUBSET Callers
          BY <3>3
        <4> QED
          BY <3>3, <4>1, ArmedFinite
      <3>5. Cardinality(Armed(e) \ {c}) = Cardinality(Armed(e)) - 1 /\ Cardinality(Armed(e)) \in Nat
        BY <3>2, <3>3, ArmedFinite
      <3>6. Cardinality(Armed(e)') \in Nat
        <4>1. Armed(e)' \in SUBSET Callers
          BY <3>3
        <4> QED
          BY <4>1, ArmedFinite
      <3>7. Tripped(e) /\ wasted'[e] = wasted[e] + 1 /\ ~cooled'[e] /\ Tripped(e)' /\ wasted[e] \in Nat
        BY <1>0, <2>1, <2>5 DEF CheapAt, Tripped
      <3>8. wasted[e] + Cardinality(Armed(e)) <= Cardinality(Callers) - 1
        BY <2>5 DEF CheapAt
      <3>9. (wasted[e] + Cardinality(Armed(e)))' <= Cardinality(Callers) - 1
        BY <1>0, <3>4, <3>5, <3>6, <3>7, <3>8
      <3> QED
        BY <3>7, <3>9 DEF CheapAt
    <2>6. CASE ~(e = h /\ ~cooled[e])
      <3>1. cooled'[e] = cooled[e] /\ wasted'[e] = wasted[e] /\ failures'[e] = failures[e]
        BY <1>0, <2>1, <2>6
      <3> QED
        BY <2>4, <3>1, StaysCheap
    <2> QED
      BY <2>5, <2>6
  <1>3. ASSUME NEW c \in Callers, RoundEnds(c) \/ DeadlinePasses(c) PROVE CheapAt(e)'
    <2>1. ~Arms(NoCall, e)
      BY DEF Arms, NoCall
    <2>2. PICK r \in {NoCall, [caller[c] EXCEPT !.at = "order"]} : caller' = [caller EXCEPT ![c] = r]
      BY <1>3 DEF RoundEnds, DeadlinePasses
    <2>3. ~Arms([caller[c] EXCEPT !.at = "order"], e)
      BY <1>0 DEF Arms, Call
    <2>4. ~Arms(r, e)
      BY <2>1, <2>2, <2>3
    <2>5. Armed(e)' \subseteq Armed(e)
      BY <2>2, <2>4, NobodyArmed
    <2>6. cooled'[e] = cooled[e] /\ wasted'[e] = wasted[e] /\ failures'[e] = failures[e]
      BY <1>3 DEF RoundEnds, DeadlinePasses, breakerVars
    <2> QED
      BY <2>5, <2>6, StaysCheap
  <1>4. ASSUME NEW c \in Callers, Answer(c) PROVE CheapAt(e)'
    <2> DEFINE h == Head(caller[c].cands)
               r == [caller[c] EXCEPT !.at = "record", !.ok = healthy[h], !.probe = FALSE]
    <2>1. caller' = [caller EXCEPT ![c] = r] /\ caller[c].at = "sent"
      BY <1>4 DEF Answer
    <2>2. r.at = "record" /\ r.cands = caller[c].cands
      BY <1>0 DEF Call
    <2> HIDE DEF r
    <2>3. Arms(r, e) => Arms(caller[c], e)
      BY <2>1, <2>2 DEF Arms
    <2>4. Armed(e)' \subseteq Armed(e)
      BY <2>1, <2>3, NobodyArmed
    <2>5. cooled'[e] = cooled[e] /\ wasted'[e] = wasted[e] /\ failures'[e] = failures[e]
      BY <1>4 DEF Answer
    <2> QED
      BY <2>4, <2>5, StaysCheap
  <1>5. ASSUME NEW c \in Callers, RecordSuccess(c) PROVE CheapAt(e)'
    <2> DEFINE h == Head(caller[c].cands)
    <2>1. /\ caller' = [caller EXCEPT ![c] = NoCall]
          /\ failures' = [failures EXCEPT ![h] = 0]
          /\ cooled' = [cooled EXCEPT ![h] = TRUE] /\ wasted' = [wasted EXCEPT ![h] = 0]
      BY <1>5 DEF RecordSuccess
    <2>2. CASE e = h
      BY <1>0, <2>1, <2>2 DEF CheapAt
    <2>3. CASE e # h
      <3>1. Armed(e)' \subseteq Armed(e)
        <4>1. ~Arms(NoCall, e)
          BY DEF Arms, NoCall
        <4> QED
          BY <2>1, <4>1, NobodyArmed
      <3>2. cooled'[e] = cooled[e] /\ wasted'[e] = wasted[e] /\ failures'[e] = failures[e]
        BY <1>0, <2>1, <2>3
      <3> QED
        BY <3>1, <3>2, StaysCheap
    <2> QED
      BY <2>2, <2>3
  <1>6. ASSUME NEW c \in Callers, RecordFailure(c) PROVE CheapAt(e)'
    <2> DEFINE h == Head(caller[c].cands)
               r == [caller[c] EXCEPT !.at = "pick", !.cands = Tail(@)]
    <2>1. /\ caller' = [caller EXCEPT ![c] = r] /\ caller[c].at = "record"
          /\ failures' = [failures EXCEPT ![h] = IF @ < FailureThreshold THEN @ + 1 ELSE @]
          /\ cooled' = [cooled EXCEPT ![h] = @ /\ failures'[h] < FailureThreshold]
          /\ wasted' = wasted
      BY <1>6 DEF RecordFailure
    <2>2. caller[c].cands # <<>>
      BY <1>0, <2>1 DEF Usable
    <2>3. r.at = "pick" /\ r.cands = Tail(caller[c].cands)
      BY <1>0 DEF Call
    <2> HIDE DEF r
    <2>4. ASSUME NEW i \in DOMAIN r.cands
          PROVE  i + 1 \in DOMAIN caller[c].cands /\ i + 1 # 1 /\ r.cands[i] = caller[c].cands[i + 1]
      BY <1>00, <2>2, <2>3, <2>4
    <2>5. Arms(r, e) => Arms(caller[c], e)
      BY <2>1, <2>3, <2>4 DEF Arms
    <2>6. Armed(e)' \subseteq Armed(e) /\ (~Arms(r, e) => c \notin Armed(e)')
      BY <2>1, <2>5, NobodyArmed
    <2>7. CASE e # h
      <3>1. cooled'[e] = cooled[e] /\ wasted'[e] = wasted[e] /\ failures'[e] = failures[e]
        BY <1>0, <2>1, <2>7
      <3> QED
        BY <2>6, <3>1, StaysCheap
    <2>8. CASE e = h
      <3>1. ~Arms(r, e)
        BY <1>00, <2>2, <2>3, <2>4, <2>8 DEF Arms
      <3>2. Armed(e)' \in SUBSET (Callers \ {c})
        BY <2>6, <3>1 DEF Armed
      <3>3. /\ Cardinality(Armed(e)') <= Cardinality(Callers) - 1
            /\ Cardinality(Armed(e)') \in Nat
        <4>1. Callers \ {c} \in SUBSET Callers /\ Callers \in SUBSET Callers
          OBVIOUS
        <4>2. Cardinality(Callers \ {c}) = Cardinality(Callers) - 1
          BY <4>1, ArmedFinite
        <4>3. Cardinality(Armed(e)') <= Cardinality(Callers \ {c})
          BY <3>2, <4>1, ArmedFinite
        <4>4. Armed(e)' \in SUBSET Callers
          BY <3>2
        <4>5. Cardinality(Armed(e)') \in Nat
          BY <4>4, ArmedFinite
        <4> QED
          BY <4>2, <4>3, <4>5
      <3>4. CASE cooled[e]
        <4>1. wasted'[e] = 0
          BY <2>1, <3>4 DEF CheapAt
        <4>2. ~cooled'[e] => failures'[e] >= FailureThreshold
          BY <1>0, <2>1, <2>8, <3>4
        <4> QED
          BY <1>0, <3>3, <4>1, <4>2 DEF CheapAt, Tripped
      <3>5. CASE ~cooled[e]
        <4>1. cooled'[e] = cooled[e] /\ wasted'[e] = wasted[e] /\ failures'[e] = failures[e]
          BY <1>0, <2>1, <2>8, <3>5 DEF CheapAt, Tripped
        <4> QED
          BY <2>6, <4>1, StaysCheap
      <3> QED
        BY <3>4, <3>5
    <2> QED
      BY <2>7, <2>8
  <1>7. ASSUME NEW x \in Endpoints, Cool(x) PROVE CheapAt(e)'
    <2>1. Armed(e)' = Armed(e)
      BY <1>7 DEF Cool, Armed, Arms
    <2>2. CASE e = x
      BY <1>0, <1>7, <2>2 DEF Cool, CheapAt
    <2>3. CASE e # x
      BY <1>0, <1>7, <2>1, <2>3, StaysCheap DEF Cool
    <2> QED
      BY <2>2, <2>3
  <1>8. ASSUME UNCHANGED poolVars \/ \E x \in Endpoints : Outage(x) PROVE CheapAt(e)'
    <2>1. UNCHANGED <<caller, cooled, wasted, failures>>
      BY <1>8 DEF Outage, poolVars, breakerVars
    <2>2. Armed(e)' = Armed(e)
      BY <2>1 DEF Armed, Arms
    <2> QED
      BY <2>1, <2>2, StaysCheap
  <1> QED
    BY <1>1, <1>2, <1>3, <1>4, <1>5, <1>6, <1>7, <1>8 DEF PoolNext, CallStep

(***************************************************************************)
(* The pool's theorems.                                                    *)
(***************************************************************************)

\* The half-open slot of a breaker never outlives the probes that took it,
\* whichever way a dispatch ends and whoever else is probing (_probe,
\* _record_success, _record_failure), for any number of callers and endpoints.
THEOREM ProbesAreReturned == PoolSpec => []NoLeakedProbe
  <1>1. PoolInit => PoolBase /\ NoLeakedProbe
    BY PoolBased DEF PoolInit, NoLeakedProbe
  <1>2. PoolBase /\ NoLeakedProbe /\ [PoolNext]_poolVars => (PoolBase /\ NoLeakedProbe)'
    BY PoolBased, ProbeStep
  <1> QED
    BY <1>1, <1>2, PTL DEF PoolSpec

\* Between two cooldowns an open breaker is sent at most one dispatch by every
\* caller but the one that opened it, for any number of callers and endpoints,
\* any threshold and any number of attempts of a batch.
THEOREM DeadWorkersAreCheap == PoolSpec => []DeadWorkerIsCheap
  <1>1. PoolInit => CheapInv
    <2> SUFFICES ASSUME PoolInit PROVE CheapInv
      OBVIOUS
    <2>1. \A e \in Endpoints : cooled[e] /\ wasted[e] = 0
      BY DEF PoolInit
    <2> QED
      BY <2>1, PoolBased DEF CheapInv, CheapAt
  <1>2. CheapInv /\ [PoolNext]_poolVars => CheapInv'
    <2> SUFFICES ASSUME CheapInv, [PoolNext]_poolVars PROVE CheapInv'
      OBVIOUS
    <2>1. PoolBase'
      BY PoolBased DEF CheapInv
    <2>2. ASSUME NEW e \in Endpoints PROVE CheapAt(e)'
      BY CheapStep DEF CheapInv
    <2> QED
      BY <2>1, <2>2 DEF CheapInv
  <1>3. CheapInv => DeadWorkerIsCheap
    <2> SUFFICES ASSUME CheapInv, NEW e \in Endpoints
                 PROVE  wasted[e] <= Cardinality(Callers) - 1
      BY DEF DeadWorkerIsCheap
    <2>1. wasted[e] \in Nat /\ cooled[e] \in BOOLEAN /\ CheapAt(e)
      BY DEF CheapInv, PoolBase, PoolTypeOK
    <2>2. Armed(e) \in SUBSET Callers
      BY DEF Armed
    <2>3. Cardinality(Armed(e)) \in Nat /\ Cardinality(Callers) \in Nat \ {0}
      BY <2>2, ArmedFinite
    <2> QED
      BY <2>1, <2>3 DEF CheapAt
  <1> QED
    BY <1>1, <1>2, <1>3, PTL DEF PoolSpec

(***************************************************************************)
(* JobRegistry: an order from which places are taken.                      *)
(***************************************************************************)

\* Of the places that are kept each has its own rank, and every rank is used.
LEMMA Ranks ==
    ASSUME NEW m \in Nat, NEW kept \in SUBSET (1 .. m)
    PROVE  /\ Cardinality(kept) \in Nat
           /\ \A i \in kept : Rank(kept, i) \in 1 .. Cardinality(kept)
           /\ \A i, k \in kept : Rank(kept, i) = Rank(kept, k) => i = k
           /\ \A n \in 1 .. Cardinality(kept) : \E i \in kept : Rank(kept, i) = n
  <1> DEFINE Upto(i) == {k \in kept : k <= i}
  <1>1. IsFiniteSet(kept) /\ Cardinality(kept) \in Nat
    <2>1. IsFiniteSet(1 .. m)
      BY FS_Interval
    <2>2. IsFiniteSet(kept)
      BY <2>1, FS_Subset
    <2> QED
      BY <2>2, FS_CardinalityType
  <1>2. ASSUME NEW i \in kept
        PROVE  /\ IsFiniteSet(Upto(i)) /\ Cardinality(Upto(i)) \in 1 .. Cardinality(kept)
               /\ Rank(kept, i) = Cardinality(Upto(i))
    <2>1. Upto(i) \in SUBSET kept /\ i \in Upto(i)
      OBVIOUS
    <2>2. IsFiniteSet(Upto(i)) /\ Cardinality(Upto(i)) <= Cardinality(kept)
      BY <1>1, <2>1, FS_Subset
    <2>3. Cardinality(Upto(i)) \in Nat /\ Cardinality(Upto(i)) # 0
      BY <2>1, <2>2, FS_CardinalityType, FS_EmptySet
    <2> QED
      BY <1>1, <2>2, <2>3 DEF Rank
  <1>3. ASSUME NEW i \in kept, NEW k \in kept, i < k
        PROVE  Cardinality(Upto(i)) # Cardinality(Upto(k))
    <2>0. \A x \in kept : x \in Nat
      OBVIOUS
    <2>1. Upto(i) \in SUBSET Upto(k) /\ k \in Upto(k) /\ k \notin Upto(i)
      <3>1. \A x \in kept : x <= i => x <= k
        BY <1>3, <2>0
      <3>2. k <= k /\ ~(k <= i)
        BY <1>3, <2>0
      <3> QED
        BY <3>1, <3>2
    <2> QED
      BY <1>2, <2>1, FS_Subset
  <1>4. \A i, k \in kept : Rank(kept, i) = Rank(kept, k) => i = k
    <2> SUFFICES ASSUME NEW i \in kept, NEW k \in kept, i # k
                 PROVE  Rank(kept, i) # Rank(kept, k)
      OBVIOUS
    <2>1. i < k \/ k < i
      OBVIOUS
    <2> QED
      BY <1>2, <1>3, <2>1
  <1> DEFINE f == [i \in kept |-> Rank(kept, i)]
             ranks == 1 .. Cardinality(kept)
  <1>5. f \in [kept -> ranks]
    BY <1>2
  <1>6. f \in Injection(kept, ranks)
    BY <1>4, <1>5 DEF Injection, IsInjective
  <1>7. IsFiniteSet(ranks) /\ Cardinality(ranks) = Cardinality(kept)
    BY <1>1, FS_Interval
  <1>8. f \in Surjection(kept, ranks)
    BY <1>6, <1>7, FS_Injection
  <1>9. \A n \in ranks : \E i \in kept : f[i] = n
    BY <1>8 DEF Surjection
  <1> QED
    BY <1>1, <1>2, <1>4, <1>9

\* Taking places from an order leaves an order, with every other entry in it.
LEMMA WithoutKeeps ==
    ASSUME NEW X, NEW ord \in Seq(X), NEW places
    PROVE  /\ Without(ord, places) \in Seq(X)
           /\ \A i \in DOMAIN ord \ places :
                 \E n \in DOMAIN Without(ord, places) : Without(ord, places)[n] = ord[i]
  <1> DEFINE kept == DOMAIN ord \ places
             at(n) == CHOOSE i \in kept : Rank(kept, i) = n
             w == [n \in 1 .. Cardinality(kept) |-> ord[at(n)]]
  <1>1. Len(ord) \in Nat /\ DOMAIN ord = 1 .. Len(ord)
    OBVIOUS
  <1>2. kept \in SUBSET (1 .. Len(ord))
    BY <1>1
  <1>3. /\ Cardinality(kept) \in Nat
        /\ \A i \in kept : Rank(kept, i) \in 1 .. Cardinality(kept)
        /\ \A i, k \in kept : Rank(kept, i) = Rank(kept, k) => i = k
        /\ \A n \in 1 .. Cardinality(kept) : \E i \in kept : Rank(kept, i) = n
    BY <1>1, <1>2, Ranks
  <1>4. Without(ord, places) = w
    BY DEF Without
  <1> HIDE DEF kept
  <1>5. \A n \in 1 .. Cardinality(kept) : at(n) \in kept /\ Rank(kept, at(n)) = n
    BY <1>3
  <1>6. \A i \in kept : at(Rank(kept, i)) = i
    BY <1>3, <1>5
  <1>7. \A i \in kept : ord[i] \in X
    BY <1>1, <1>2
  <1>8. w \in [1 .. Cardinality(kept) -> X]
    BY <1>5, <1>7
  <1>9. w \in Seq(X) /\ DOMAIN w = 1 .. Cardinality(kept)
    <2> HIDE DEF w
    <2> QED
      BY <1>3, <1>8
  <1>10. \A i \in kept : w[Rank(kept, i)] = ord[i]
    BY <1>3, <1>6
  <1> QED
    BY <1>3, <1>4, <1>9, <1>10 DEF kept

(***************************************************************************)
(* Threads and what they have yet to write.                                *)
(***************************************************************************)
Tied == \A p \in JobHosts, j \in JobIds :
           /\ outbox[p][j] = "running" => thread[p][j] = "running"
           /\ outbox[p][j] = "ended" => thread[p][j] = "finishing"

JobInv == JobTypeOK /\ Tied /\ NoGhostJob /\ RunningJobIsKept

\* Only an ended job is evicted.
LEMMA EvictsEnded ==
    ASSUME NEW reg, NEW ord, NEW k \in EvictedPlaces(reg, ord)
    PROVE  reg[ord[k]] = "ended" /\ k \in DOMAIN ord
  BY DEF EvictedPlaces, Removable

LEMMA CreateKeeps ==
    ASSUME JobInv, NEW p \in JobHosts, NEW j \in JobIds, Create(p, j)
    PROVE  JobInv'
  <1> DEFINE reg == [registry[p] EXCEPT ![j] = "running"]
             ord == Append(order[p], j)
             places == EvictedPlaces(reg, ord)
             left == [i \in JobIds |-> IF \E k \in places : ord[k] = i THEN "none" ELSE reg[i]]
  <1>1. /\ registry' = [registry EXCEPT ![p] = left]
        /\ order' = [order EXCEPT ![p] = Without(ord, places)]
        /\ thread[p][j] = "idle" /\ thread' = [thread EXCEPT ![p][j] = "running"]
        /\ outbox' = [outbox EXCEPT ![p][j] = "running"]
        /\ orphan' = [orphan EXCEPT ![j] = FALSE]
        /\ jobRuns < MaxRuns /\ jobRuns' = jobRuns + 1
        /\ UNCHANGED <<snaps, clearing, hostDeaths>>
    BY DEF Create
  <1>2. /\ registry \in [JobHosts -> [JobIds -> JobStatus]]
        /\ order \in [JobHosts -> Seq(JobIds)]
        /\ thread \in [JobHosts -> [JobIds -> {"idle", "running", "finishing"}]]
        /\ outbox \in [JobHosts -> [JobIds -> JobStatus]]
        /\ orphan \in [JobIds -> BOOLEAN]
    BY DEF JobInv, JobTypeOK
  <1>3. /\ ord \in Seq(JobIds) /\ reg \in [JobIds -> JobStatus]
        /\ Len(order[p]) \in Nat /\ DOMAIN order[p] = 1 .. Len(order[p])
        /\ DOMAIN ord = 1 .. Len(order[p]) + 1
        /\ \A i \in DOMAIN order[p] : ord[i] = order[p][i]
        /\ ord[Len(order[p]) + 1] = j
    BY <1>2 DEF JobStatus
  <1>4. \A k \in places : reg[ord[k]] = "ended"
    <2> HIDE DEF reg, ord
    <2> QED
      BY EvictsEnded
  <1>5. /\ Without(ord, places) \in Seq(JobIds)
        /\ \A i \in DOMAIN ord \ places :
              \E n \in DOMAIN Without(ord, places) : Without(ord, places)[n] = ord[i]
    <2> HIDE DEF reg, ord, places
    <2>1. ord \in Seq(JobIds)
      BY <1>3
    <2> QED
      BY <2>1, WithoutKeeps
  <1>6. reg[j] = "running" /\ \A i \in JobIds : i # j => reg[i] = registry[p][i]
    BY <1>2
  <1> HIDE DEF reg, ord, places
  <1>7. left \in [JobIds -> JobStatus]
    BY <1>3 DEF JobStatus
  <1>8. JobTypeOK'
    <2>1. registry' \in [JobHosts -> [JobIds -> JobStatus]] /\ order' \in [JobHosts -> Seq(JobIds)]
      <3> HIDE DEF left
      <3> QED
        BY <1>1, <1>2, <1>5, <1>7
    <2>2. /\ thread' \in [JobHosts -> [JobIds -> {"idle", "running", "finishing"}]]
          /\ outbox' \in [JobHosts -> [JobIds -> JobStatus]]
          /\ orphan' \in [JobIds -> BOOLEAN]
      BY <1>1, <1>2 DEF JobStatus
    <2>3. jobRuns' \in 0 .. MaxRuns
      BY <1>1, JobConstants DEF JobInv, JobTypeOK
    <2> QED
      BY <1>1, <2>1, <2>2, <2>3 DEF JobInv, JobTypeOK
  <1>9. Tied'
    BY <1>1, <1>2 DEF JobInv, Tied
  <1>10. NoGhostJob'
    BY <1>1, <1>2 DEF JobInv, NoGhostJob
  <1>11. RunningJobIsKept'
    <2> SUFFICES ASSUME NEW q \in JobHosts, NEW i \in JobIds, thread'[q][i] = "running"
                 PROVE  registry'[q][i] = "running" /\ \E n \in DOMAIN order'[q] : order'[q][n] = i
      BY DEF RunningJobIsKept
    <2>1. CASE q # p
      <3>1. registry'[q] = registry[q] /\ order'[q] = order[q] /\ thread'[q][i] = thread[q][i]
        BY <1>1, <1>2, <2>1
      <3> QED
        BY <3>1 DEF JobInv, RunningJobIsKept
    <2>2. CASE q = p
      <3>1. registry'[p] = left /\ order'[p] = Without(ord, places)
        BY <1>1, <1>2
      <3>2. reg[i] = "running" /\ \E k \in DOMAIN ord : ord[k] = i
        <4>1. CASE i = j
          <5>1. Len(order[p]) + 1 \in DOMAIN ord
            BY <1>3
          <5> QED
            BY <1>3, <1>6, <4>1, <5>1
        <4>2. CASE i # j
          <5>1. thread[p][i] = "running"
            BY <1>1, <1>2, <2>2, <4>2
          <5>2. registry[p][i] = "running" /\ \E k \in DOMAIN order[p] : order[p][k] = i
            BY <5>1 DEF JobInv, RunningJobIsKept
          <5>3. \A k \in DOMAIN order[p] : k \in DOMAIN ord
            BY <1>3
          <5> QED
            BY <1>3, <1>6, <4>2, <5>2, <5>3
        <4> QED
          BY <4>1, <4>2
      <3>3. ~ \E k \in places : ord[k] = i
        BY <1>4, <3>2
      <3>4. left[i] = "running"
        BY <3>2, <3>3
      <3>5. PICK k \in DOMAIN ord \ places : ord[k] = i
        BY <3>2, <3>3
      <3>6. \E n \in DOMAIN Without(ord, places) : Without(ord, places)[n] = i
        BY <1>5, <3>5
      <3> QED
        BY <2>2, <3>1, <3>4, <3>6
    <2> QED
      BY <2>1, <2>2
  <1> QED
    BY <1>8, <1>9, <1>10, <1>11 DEF JobInv

\* Dropping ended records of one process, and their places.
LEMMA ClearKeeps ==
    ASSUME JobInv, NEW p \in JobHosts, NEW chosen \in SUBSET JobIds, ClearLocal(p, chosen)
    PROVE  JobInv'
  <1> DEFINE gone == {j \in chosen : registry[p][j] = "ended"}
             reg == [j \in JobIds |-> IF j \in gone THEN "none" ELSE registry[p][j]]
             places == {i \in DOMAIN order[p] : reg[order[p][i]] = "none"}
             ord == IF gone = {} THEN order[p] ELSE Without(order[p], places)
  <1>1. /\ registry' = [registry EXCEPT ![p] = reg] /\ order' = [order EXCEPT ![p] = ord]
        /\ clearing' = [j \in JobIds |-> IF j \in chosen THEN "read" ELSE "no"]
        /\ UNCHANGED <<thread, outbox, snaps, orphan, jobRuns, hostDeaths>>
    BY DEF ClearLocal
  <1>2. /\ registry \in [JobHosts -> [JobIds -> JobStatus]]
        /\ order \in [JobHosts -> Seq(JobIds)]
    BY DEF JobInv, JobTypeOK
  <1>3. /\ Without(order[p], places) \in Seq(JobIds)
        /\ \A i \in DOMAIN order[p] \ places :
              \E n \in DOMAIN Without(order[p], places) : Without(order[p], places)[n] = order[p][i]
    <2> HIDE DEF places
    <2>1. order[p] \in Seq(JobIds)
      BY <1>2
    <2> QED
      BY <2>1, WithoutKeeps
  <1>4. reg \in [JobIds -> JobStatus] /\ ord \in Seq(JobIds)
    BY <1>2, <1>3 DEF JobStatus
  <1>5. JobTypeOK'
    <2>1. registry' \in [JobHosts -> [JobIds -> JobStatus]] /\ order' \in [JobHosts -> Seq(JobIds)]
      <3> HIDE DEF reg, ord
      <3> QED
        BY <1>1, <1>2, <1>4
    <2>2. clearing' \in [JobIds -> {"no", "read", "unlink"}]
      BY <1>1
    <2> QED
      BY <1>1, <2>1, <2>2 DEF JobInv, JobTypeOK
  <1>6. Tied' /\ NoGhostJob'
    BY <1>1 DEF JobInv, Tied, NoGhostJob
  <1>7. RunningJobIsKept'
    <2> SUFFICES ASSUME NEW q \in JobHosts, NEW i \in JobIds, thread[q][i] = "running"
                 PROVE  registry'[q][i] = "running" /\ \E n \in DOMAIN order'[q] : order'[q][n] = i
      BY <1>1 DEF RunningJobIsKept
    <2>1. registry[q][i] = "running" /\ \E k \in DOMAIN order[q] : order[q][k] = i
      BY DEF JobInv, RunningJobIsKept
    <2>2. CASE q # p
      BY <1>1, <1>2, <2>1, <2>2
    <2>3. CASE q = p
      <3>1. registry'[p] = reg /\ order'[p] = ord
        BY <1>1, <1>2
      <3>2. reg[i] = "running"
        BY <2>1, <2>3
      <3>3. PICK k \in DOMAIN order[p] : order[p][k] = i /\ k \notin places
        BY <2>1, <2>3, <3>2
      <3>4. \E n \in DOMAIN Without(order[p], places) : Without(order[p], places)[n] = i
        BY <1>3, <3>3
      <3> HIDE DEF places, reg
      <3>5. \E n \in DOMAIN ord : ord[n] = i
        BY <3>3, <3>4
      <3> QED
        BY <2>3, <3>1, <3>2, <3>5
    <2> QED
      BY <2>2, <2>3
  <1> QED
    BY <1>5, <1>6, <1>7 DEF JobInv

\* A thread changes its record, or renders what it will write.
LEMMA ThreadKeeps ==
    ASSUME JobInv, NEW p \in JobHosts, NEW j \in JobIds, Progress(p, j) \/ FinishJob(p, j)
    PROVE  JobInv'
  <1>1. /\ registry \in [JobHosts -> [JobIds -> JobStatus]]
        /\ thread \in [JobHosts -> [JobIds -> {"idle", "running", "finishing"}]]
        /\ outbox \in [JobHosts -> [JobIds -> JobStatus]]
    BY DEF JobInv, JobTypeOK
  <1>2. CASE Progress(p, j)
    <2>1. /\ thread[p][j] = "running" /\ registry[p][j] = "running"
          /\ outbox' = [outbox EXCEPT ![p][j] = "running"]
          /\ UNCHANGED <<registry, order, thread, snaps, clearing, orphan, jobRuns, hostDeaths>>
      BY <1>2 DEF Progress
    <2>2. JobTypeOK'
      BY <1>1, <2>1 DEF JobInv, JobTypeOK, JobStatus
    <2>3. Tied'
      BY <1>1, <2>1 DEF JobInv, Tied
    <2> QED
      BY <2>1, <2>2, <2>3 DEF JobInv, NoGhostJob, RunningJobIsKept
  <1>3. CASE FinishJob(p, j)
    <2>1. registry[p][j] = "running" /\ thread[p][j] = "running"
      BY <1>3 DEF FinishJob, JobInv, RunningJobIsKept
    <2>2. /\ registry' = [registry EXCEPT ![p][j] = "ended"]
          /\ outbox' = [outbox EXCEPT ![p][j] = "ended"]
          /\ thread' = [thread EXCEPT ![p][j] = "finishing"]
          /\ UNCHANGED <<order, snaps, clearing, orphan, jobRuns, hostDeaths>>
      BY <1>3, <2>1 DEF FinishJob
    <2>3. /\ registry' \in [JobHosts -> [JobIds -> JobStatus]]
          /\ thread' \in [JobHosts -> [JobIds -> {"idle", "running", "finishing"}]]
          /\ outbox' \in [JobHosts -> [JobIds -> JobStatus]]
      BY <1>1, <2>2 DEF JobStatus
    <2>4. JobTypeOK'
      BY <2>2, <2>3 DEF JobInv, JobTypeOK
    <2>5. Tied'
      BY <1>1, <2>2 DEF JobInv, Tied
    <2>6. NoGhostJob'
      <3>1. \A q \in JobHosts, i \in JobIds : thread[q][i] # "idle" => thread'[q][i] # "idle"
        BY <1>1, <2>2
      <3> QED
        BY <2>2, <3>1 DEF JobInv, NoGhostJob
    <2>7. RunningJobIsKept'
      <3>1. \A q \in JobHosts, i \in JobIds : thread'[q][i] = "running" =>
               thread[q][i] = "running" /\ registry'[q][i] = registry[q][i]
        BY <1>1, <2>2
      <3> QED
        BY <2>2, <3>1 DEF JobInv, RunningJobIsKept
    <2> QED
      BY <2>4, <2>5, <2>6, <2>7 DEF JobInv
  <1> QED
    BY <1>2, <1>3

\* A snapshot is written, or its write fails.
LEMMA WriteKeeps ==
    ASSUME JobInv, NEW p \in JobHosts, NEW j \in JobIds, WriteSnapshot(p, j) \/ WriteFails(p, j)
    PROVE  JobInv'
  <1>1. /\ thread \in [JobHosts -> [JobIds -> {"idle", "running", "finishing"}]]
        /\ outbox \in [JobHosts -> [JobIds -> JobStatus]]
        /\ snaps \in [JobIds -> JobStatus] /\ orphan \in [JobIds -> BOOLEAN]
    BY DEF JobInv, JobTypeOK
  <1>2. /\ outbox' = [outbox EXCEPT ![p][j] = "none"]
        /\ thread' = [thread EXCEPT ![p][j] = IF @ = "finishing" THEN "idle" ELSE @]
        /\ UNCHANGED <<registry, order, clearing, jobRuns, hostDeaths>>
        /\ outbox[p][j] # "none"
    BY DEF WriteSnapshot, WriteFails, Published
  <1>3. /\ thread' \in [JobHosts -> [JobIds -> {"idle", "running", "finishing"}]]
        /\ outbox' \in [JobHosts -> [JobIds -> JobStatus]]
    BY <1>1, <1>2 DEF JobStatus
  <1>4. Tied'
    BY <1>1, <1>2 DEF JobInv, Tied
  <1>5. RunningJobIsKept'
    <2>1. \A q \in JobHosts, i \in JobIds : thread'[q][i] = "running" => thread[q][i] = "running"
      BY <1>1, <1>2
    <2> QED
      BY <1>2, <2>1 DEF JobInv, RunningJobIsKept
  <1>6. \A q \in JobHosts, i \in JobIds : (q # p \/ i # j) => thread'[q][i] = thread[q][i]
    BY <1>1, <1>2
  <1>7. CASE WriteSnapshot(p, j)
    <2> DEFINE written == [snaps EXCEPT ![j] = outbox[p][j]]
    <2>1. PICK gone \in Surplus(written) :
             snaps' = [i \in JobIds |-> IF i \in gone THEN "none" ELSE written[i]]
      BY <1>7 DEF WriteSnapshot
    <2>2. orphan' = orphan
      BY <1>7 DEF WriteSnapshot
    <2>3. /\ snaps' \in [JobIds -> JobStatus]
          /\ \A i \in JobIds : snaps'[i] = "running" => written[i] = "running"
      BY <1>1, <2>1 DEF JobStatus
    <2>4. NoGhostJob'
      <3> SUFFICES ASSUME NEW i \in JobIds, snaps'[i] = "running"
                   PROVE  orphan[i] \/ \E q \in JobHosts : thread'[q][i] # "idle"
        BY <2>2 DEF NoGhostJob
      <3>1. CASE i = j
        <4>1. outbox[p][j] = "running"
          BY <1>1, <2>3, <3>1
        <4>2. thread'[p][j] = "running"
          BY <1>1, <1>2, <4>1 DEF JobInv, Tied
        <4> QED
          BY <3>1, <4>2
      <3>2. CASE i # j
        BY <1>1, <1>6, <2>3, <3>2 DEF JobInv, NoGhostJob
      <3> QED
        BY <3>1, <3>2
    <2>5. JobTypeOK'
      BY <1>2, <1>3, <2>2, <2>3 DEF JobInv, JobTypeOK
    <2> QED
      BY <1>4, <1>5, <2>4, <2>5 DEF JobInv
  <1>8. CASE WriteFails(p, j)
    <2>1. orphan' = [orphan EXCEPT ![j] = TRUE] /\ snaps' = snaps
      BY <1>8 DEF WriteFails
    <2>2. JobTypeOK'
      BY <1>1, <1>2, <1>3, <2>1 DEF JobInv, JobTypeOK
    <2>3. NoGhostJob'
      BY <1>1, <1>6, <2>1 DEF JobInv, NoGhostJob
    <2> QED
      BY <1>4, <1>5, <2>2, <2>3 DEF JobInv
  <1> QED
    BY <1>7, <1>8

\* A console's clear goes through the files; a process dies.
LEMMA RestKeeps ==
    ASSUME JobInv,
           \/ \E j \in JobIds : ClearRead(j) \/ ClearUnlink(j)
           \/ \E p \in JobHosts : HostDies(p)
           \/ UNCHANGED jobVars
    PROVE  JobInv'
  <1>1. ASSUME NEW j \in JobIds, ClearRead(j) PROVE JobInv'
    BY <1>1 DEF ClearRead, JobInv, JobTypeOK, Tied, NoGhostJob, RunningJobIsKept
  <1>2. ASSUME NEW j \in JobIds, ClearUnlink(j) PROVE JobInv'
    <2>1. JobTypeOK' /\ \A i \in JobIds : snaps'[i] = "running" => snaps[i] = "running"
      BY <1>2 DEF ClearUnlink, JobInv, JobTypeOK, JobStatus
    <2> QED
      BY <1>2, <2>1 DEF ClearUnlink, JobInv, Tied, NoGhostJob, RunningJobIsKept
  <1>3. ASSUME NEW p \in JobHosts, HostDies(p) PROVE JobInv'
    <2>1. /\ hostDeaths' \in 0 .. MaxHostDeaths
          /\ registry' \in [JobHosts -> [JobIds -> JobStatus]]
          /\ thread' \in [JobHosts -> [JobIds -> {"idle", "running", "finishing"}]]
          /\ outbox' \in [JobHosts -> [JobIds -> JobStatus]]
      BY <1>3, JobConstants DEF HostDies, JobInv, JobTypeOK, JobStatus
    <2>2. order' \in [JobHosts -> Seq(JobIds)]
      BY <1>3, EmptySeq DEF HostDies, JobInv, JobTypeOK
    <2>3. orphan' \in [JobIds -> BOOLEAN]
      BY <1>3 DEF HostDies, JobInv, JobTypeOK
    <2>4. JobTypeOK'
      BY <1>3, <2>1, <2>2, <2>3 DEF HostDies, JobInv, JobTypeOK
    <2>5. \A q \in JobHosts : IF q = p THEN \A i \in JobIds : thread'[q][i] = "idle" /\ outbox'[q][i] = "none"
                                       ELSE UNCHANGED <<thread[q], outbox[q], registry[q], order[q]>>
      BY <1>3 DEF HostDies, JobInv, JobTypeOK
    <2>6. Tied' /\ RunningJobIsKept'
      BY <2>5 DEF JobInv, Tied, RunningJobIsKept
    <2>7. NoGhostJob'
      <3> SUFFICES ASSUME NEW i \in JobIds, snaps'[i] = "running", ~orphan'[i]
                   PROVE  \E q \in JobHosts : thread'[q][i] # "idle"
        BY DEF NoGhostJob
      <3>1. snaps[i] = "running" /\ ~orphan[i] /\ thread[p][i] = "idle"
        BY <1>3 DEF HostDies
      <3>2. PICK q \in JobHosts : thread[q][i] # "idle"
        BY <3>1 DEF JobInv, NoGhostJob
      <3> QED
        BY <2>5, <3>1, <3>2
    <2> QED
      BY <2>4, <2>6, <2>7 DEF JobInv
  <1>4. ASSUME UNCHANGED jobVars PROVE JobInv'
    BY <1>4 DEF jobVars, JobInv, JobTypeOK, Tied, NoGhostJob, RunningJobIsKept
  <1> QED
    BY <1>1, <1>2, <1>3, <1>4

\* What a thread has yet to write, the shared board and the orders stay in step.
LEMMA JobsKept == /\ JobInit => JobInv
                  /\ JobInv /\ [JobNext]_jobVars => JobInv'
  <1>1. JobInit => JobInv
    <2> SUFFICES ASSUME JobInit PROVE JobInv
      OBVIOUS
    <2>1. JobTypeOK
      BY EmptySeq, JobConstants DEF JobInit, JobTypeOK, JobStatus
    <2>2. Tied /\ NoGhostJob /\ RunningJobIsKept
      BY DEF JobInit, Tied, NoGhostJob, RunningJobIsKept
    <2> QED
      BY <2>1, <2>2 DEF JobInv
  <1>2. JobInv /\ [JobNext]_jobVars => JobInv'
    <2> SUFFICES ASSUME JobInv, [JobNext]_jobVars PROVE JobInv'
      OBVIOUS
    <2>1. ASSUME NEW p \in JobHosts, ClearLocal(p, JobIds) PROVE JobInv'
      BY <2>1, ClearKeeps
    <2>2. ASSUME NEW p \in JobHosts, NEW j \in JobIds, ClearLocal(p, {j}) PROVE JobInv'
      <3>1. {j} \in SUBSET JobIds
        OBVIOUS
      <3> QED
        BY <2>2, <3>1, ClearKeeps
    <2> QED
      BY <2>1, <2>2, CreateKeeps, ThreadKeeps, WriteKeeps, RestKeeps DEF JobNext
  <1> QED
    BY <1>1, <1>2

\* No replica shows a job as running that nothing runs, unless its process died
\* or could not write, and no registry forgets what it runs: for any number of
\* processes and ids, whatever the caps, and whatever is evicted, cleared or
\* killed meanwhile.
THEOREM BoardStaysTrue == JobSpec => []JobBoardIsTrue
  <1>1. JobInv => JobBoardIsTrue
    BY DEF JobInv, JobBoardIsTrue
  <1> QED
    BY <1>1, JobsKept, PTL DEF JobSpec
=============================================================================
