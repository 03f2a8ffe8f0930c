---------------------------- MODULE PartsProofs ----------------------------
(***************************************************************************)
(* Proofs about what a region serves: the graph of a replica               *)
(* (GraphRefresh), the tuning bundle it ranks with (TuningOverlay) and the *)
(* memory it returns (MemoryRecords), for any replicas, bundles, claims,   *)
(* interleavings and deaths.  Then about the composition of MCParts: it    *)
(* runs every component by the component's own specification, so that the  *)
(* theorems of all proof modules hold of the model the run parts checks.   *)
(***************************************************************************)
EXTENDS MCParts, MemoryRecords, RunProofs, GraphRowsProofs, DeliveryProofs,
        ServiceProofs, WellFoundedInduction, TLAPS

(***************************************************************************)
(* Graph generations at a replica.                                         *)
(***************************************************************************)
\* Nothing is newer than the file, and a replica that has yet to take its stamp
\* serves the file or has missed a change.
NoneAhead == \A r \in Replicas : serving[r] <= graphFile /\ seen[r] <= graphFile

StartsCurrent == \A r \in Replicas :
    phase[r] \in {"loaded", "noted"} => serving[r] = graphFile \/ missed[r]

RefreshInv == RefreshTypeOK /\ NoneAhead /\ StartsCurrent /\ NotedIsServed

\* Every variable of the publisher and the replicas keeps its type.
LEMMA RefreshTyped == /\ RefreshInit => RefreshTypeOK
                      /\ RefreshTypeOK /\ [RefreshNext]_refreshVars => RefreshTypeOK'
  <1> USE RefreshConstants DEF RefreshTypeOK, Generations
  <1>1. RefreshInit => RefreshTypeOK
    <2> SUFFICES ASSUME RefreshInit PROVE RefreshTypeOK
      OBVIOUS
    <2>1. 0 \in Generations /\ 0 \in 0 .. MaxRefreshFaults
      OBVIOUS
    <2>2. /\ phase \in [Replicas -> {"down", "loaded", "noted", "wait", "look", "load", "note"}]
          /\ wake \in [Replicas -> BOOLEAN] /\ missed \in [Replicas -> BOOLEAN]
      BY DEF RefreshInit
    <2>3. /\ serving \in [Replicas -> Generations] /\ label \in [Replicas -> Generations]
          /\ seen \in [Replicas -> Generations]
      BY <2>1 DEF RefreshInit
    <2> QED
      BY <2>1, <2>2, <2>3 DEF RefreshInit
  <1>2. ASSUME RefreshTypeOK, [RefreshNext]_refreshVars PROVE RefreshTypeOK'
    <2> USE <1>2
    <2>1. CASE ReplaceGraph \/ ReplaceMeta \/ WriterDies
      <3>1. graphFile' \in Generations /\ refreshFaults' \in 0 .. MaxRefreshFaults
        BY <2>1 DEF ReplaceGraph, ReplaceMeta, WriterDies, RefreshFault
      <3> QED
        BY <2>1, <3>1 DEF ReplaceGraph, ReplaceMeta, WriterDies
    <2>2. CASE Announce
      BY <2>2 DEF Announce
    <2>3. ASSUME NEW r \in Replicas, Boot(r) \/ ReloadGraph(r) PROVE RefreshTypeOK'
      BY <2>3 DEF Boot, ReloadGraph, LoadFile, fileVars
    <2>4. ASSUME NEW r \in Replicas, NoteGeneration(r) PROVE RefreshTypeOK'
      BY <2>4 DEF NoteGeneration, PublishedGeneration, fileVars
    <2>5. ASSUME NEW r \in Replicas, StartRefresher(r) \/ Waking(r) \/ CompareStamp(r)
          PROVE  RefreshTypeOK'
      BY <2>5 DEF StartRefresher, Waking, WakeUp, CompareStamp, fileVars
    <2>6. ASSUME NEW r \in Replicas, ReloadFails(r) \/ ReplicaStops(r) PROVE RefreshTypeOK'
      <3>1. refreshFaults' \in 0 .. MaxRefreshFaults
        BY <2>6 DEF ReloadFails, ReplicaStops, RefreshFault
      <3>2. /\ phase' \in [Replicas -> {"down", "loaded", "noted", "wait", "look", "load", "note"}]
            /\ wake' \in [Replicas -> BOOLEAN] /\ missed' \in [Replicas -> BOOLEAN]
        BY <2>6 DEF ReloadFails, ReplicaStops
      <3>3. UNCHANGED <<graphFile, graphMeta, publisher, serving, label, seen>>
        BY <2>6 DEF ReloadFails, ReplicaStops, fileVars
      <3> QED
        BY <3>1, <3>2, <3>3
    <2>7. CASE UNCHANGED refreshVars
      BY <2>7 DEF refreshVars
    <2> QED
      BY <2>1, <2>2, <2>3, <2>4, <2>5, <2>6, <2>7 DEF RefreshNext, ReplicaStep
  <1> QED
    BY <1>1, <1>2

\* The stamps and the served generations stay in step with the file.
LEMMA StampsKept == RefreshInv /\ [RefreshNext]_refreshVars
                          => NoneAhead' /\ StartsCurrent' /\ NotedIsServed'
  <1> SUFFICES ASSUME RefreshInv, [RefreshNext]_refreshVars
               PROVE  NoneAhead' /\ StartsCurrent' /\ NotedIsServed'
    OBVIOUS
  <1> USE DEF RefreshInv, RefreshTypeOK, Generations, NoneAhead, StartsCurrent, NotedIsServed
  <1>1. CASE ReplaceGraph
    <2>1. /\ graphFile \in Nat /\ graphFile' = graphFile + 1
          /\ UNCHANGED <<phase, serving, seen>>
      BY <1>1, RefreshConstants DEF ReplaceGraph
    <2>2. NoneAhead'
      BY <2>1, RefreshConstants
    <2>3. \A r \in Replicas : /\ missed[r] => missed'[r]
                              /\ phase[r] \in {"loaded", "noted"} => missed'[r]
      BY <1>1 DEF ReplaceGraph
    <2> QED
      BY <2>1, <2>2, <2>3
  <1>2. CASE ReplaceMeta \/ WriterDies \/ Announce
    BY <1>2 DEF ReplaceMeta, WriterDies, Announce
  <1>3. ASSUME NEW r \in Replicas, Boot(r) \/ ReloadGraph(r)
        PROVE  NoneAhead' /\ StartsCurrent' /\ NotedIsServed'
    BY <1>3 DEF Boot, ReloadGraph, LoadFile, fileVars
  <1>4. ASSUME NEW r \in Replicas, NoteGeneration(r)
        PROVE  NoneAhead' /\ StartsCurrent' /\ NotedIsServed'
    BY <1>4 DEF NoteGeneration, fileVars
  <1>5. ASSUME NEW r \in Replicas, StartRefresher(r)
        PROVE  NoneAhead' /\ StartsCurrent' /\ NotedIsServed'
    BY <1>5 DEF StartRefresher, fileVars
  <1>6. ASSUME NEW r \in Replicas, Waking(r) \/ CompareStamp(r)
        PROVE  NoneAhead' /\ StartsCurrent' /\ NotedIsServed'
    BY <1>6 DEF Waking, WakeUp, CompareStamp, fileVars
  <1>7. ASSUME NEW r \in Replicas, ReloadFails(r) \/ ReplicaStops(r)
        PROVE  NoneAhead' /\ StartsCurrent' /\ NotedIsServed'
    BY <1>7 DEF ReloadFails, ReplicaStops, fileVars
  <1>8. CASE UNCHANGED refreshVars
    BY <1>8 DEF refreshVars
  <1> QED
    BY <1>1, <1>2, <1>3, <1>4, <1>5, <1>6, <1>7, <1>8 DEF RefreshNext, ReplicaStep

LEMMA RefreshInvariant == RefreshSpec => []RefreshInv
  <1>1. RefreshInit => RefreshInv
    BY RefreshTyped DEF RefreshInit, RefreshInv, NoneAhead, StartsCurrent, NotedIsServed
  <1>2. RefreshInv /\ [RefreshNext]_refreshVars => RefreshInv'
    BY RefreshTyped, StampsKept DEF RefreshInv
  <1> QED
    BY <1>1, <1>2, PTL DEF RefreshSpec

\* A replica that takes its graph for the published one is right, or has missed a
\* change in one of the two named ways: for any number of replicas, publications
\* at any moment, lost announcements, failed loads and restarts.
THEOREM ReplicasKnow == RefreshSpec => []NotedIsServed
  BY RefreshInvariant, PTL DEF RefreshInv

\* A replica never goes back to an older generation, restarts included.
THEOREM ReplicasAdvance == RefreshSpec => NeverOlder
  <1>1. ASSUME RefreshInv, [RefreshNext]_refreshVars
        PROVE  [\A r \in Replicas : serving[r] <= serving'[r]]_refreshVars
    <2> USE <1>1 DEF RefreshInv, RefreshTypeOK, Generations, NoneAhead
    <2>1. ASSUME NEW r \in Replicas, Boot(r) \/ ReloadGraph(r)
          PROVE  \A q \in Replicas : serving[q] <= serving'[q]
      BY <2>1 DEF Boot, ReloadGraph, LoadFile
    <2>2. CASE UNCHANGED serving
      BY <2>2
    <2>3. \/ UNCHANGED serving
          \/ \E r \in Replicas : Boot(r) \/ ReloadGraph(r)
      BY DEF RefreshNext, refreshVars, ReplaceGraph, ReplaceMeta, Announce, WriterDies,
             ReplicaStep, NoteGeneration, StartRefresher, Waking, WakeUp, CompareStamp,
             ReloadFails, ReplicaStops
    <2> QED
      BY <2>1, <2>2, <2>3
  <1> QED
    BY <1>1, RefreshInvariant, PTL DEF RefreshSpec, NeverOlder

(***************************************************************************)
(* The newest and the oldest of a set, which CHOOSE picks.                 *)
(***************************************************************************)
LEMMA HasLeast == ASSUME NEW T, T \subseteq Nat, T # {}
                  PROVE  \E n \in T : \A m \in T : n <= m
  <1> DEFINE R == {p \in Nat \X Nat : p[1] < p[2]}
  <1>1. \A m, n \in Nat : m < n => <<m, n>> \in R
    OBVIOUS
  <1>2. IsWellFoundedOn(R, Nat)
    BY NatLessThanWellFounded DEF OpToRel
  <1> HIDE DEF R
  <1>3. PICK n \in T : \A m \in T : ~(<<m, n>> \in R)
    BY <1>2, WFMin
  <1>4. ASSUME NEW m \in T PROVE n <= m
    <2>1. m \in Nat /\ n \in Nat /\ ~(m < n)
      BY <1>1, <1>3
    <2> QED
      BY <2>1
  <1> QED
    BY <1>4

LEMMA HasGreatest == ASSUME NEW N \in Nat, NEW T, T \subseteq 0 .. N, T # {}
                     PROVE  \E n \in T : \A m \in T : m <= n
  <1> DEFINE U == {N - n : n \in T}
  <1>1. ASSUME NEW n \in T PROVE N - n \in Nat
    <2>1. n \in 0 .. N
      OBVIOUS
    <2> QED
      BY <2>1
  <1>2. U \subseteq Nat /\ U # {}
    BY <1>1
  <1> HIDE DEF U
  <1>3. PICK u \in U : \A v \in U : u <= v
    BY <1>2, HasLeast
  <1> USE DEF U
  <1>4. PICK n \in T : u = N - n
    OBVIOUS
  <1>5. \A m \in T : m <= n
    <2> SUFFICES ASSUME NEW m \in T PROVE m <= n
      OBVIOUS
    <2>1. N - n <= N - m /\ m \in 0 .. N /\ n \in 0 .. N
      BY <1>3, <1>4
    <2> QED
      BY <2>1
  <1> QED
    BY <1>5

(***************************************************************************)
(* The tuning overlay.                                                     *)
(***************************************************************************)
\* An act has what its next statement needs.
ActsPlaced == \A x \in OverlayActors :
    /\ actor[x].at \in {"supersede", "activate"} => actor[x].target \in TuningBundles
    /\ actor[x].at = "retire" => actor[x].read \in TuningBundles
    /\ Acting(x) => acts > 0

\* An act that no other overlapped is the only one, and finds what it left.
CleanIsAlone == \A x, y \in OverlayActors :
    Acting(x) /\ actor[x].clean /\ Acting(y) => x = y

CleanFinds == \A x \in OverlayActors :
    actor[x].at = "activate" /\ actor[x].clean => ActiveRows = {}

\* Without overlaps and deaths the rows follow the act, statement by statement.
RowsFollow == ~muddled =>
    /\ \A x \in OverlayActors : Acting(x) => actor[x].clean
    /\ \A r, s \in ActiveRows : r = s
    /\ (\A x \in OverlayActors : ~Acting(x)) => ActiveRows = {wanted} \ {Base}
    /\ \A x \in OverlayActors : actor[x].at = "retire" => ActiveRows \subseteq {actor[x].read}

OverlayInv == OverlayTypeOK /\ ActsPlaced /\ CleanIsAlone /\ CleanFinds /\ RowsFollow

\* active_overlay is an active row, if there is one.
LEMMA OverlayChosen == OverlayTypeOK =>
                          /\ ActiveRows = {} => ActiveOverlay = Base
                          /\ ActiveRows # {} => ActiveOverlay \in ActiveRows
  <1> SUFFICES ASSUME OverlayTypeOK, ActiveRows # {} PROVE ActiveOverlay \in ActiveRows
    BY DEF ActiveOverlay
  <1> DEFINE Times == {appliedAt[r] : r \in ActiveRows}
  <1>1. Times \subseteq 0 .. MaxActs /\ Times # {}
    <2>1. ASSUME NEW r \in ActiveRows PROVE appliedAt[r] \in 0 .. MaxActs
      BY DEF OverlayTypeOK, ActiveRows
    <2> QED
      BY <2>1
  <1>2. MaxActs \in Nat
    BY OverlayConstants
  <1> HIDE DEF Times
  <1>3. PICK n \in Times : \A m \in Times : m <= n
    BY <1>1, <1>2, HasGreatest
  <1> USE DEF Times
  <1>4. PICK r \in ActiveRows : \A s \in ActiveRows : appliedAt[s] <= appliedAt[r]
    BY <1>3
  <1> HIDE DEF Times
  <1> QED
    BY <1>4 DEF ActiveOverlay

\* Every variable of the actors and the replicas keeps its type.
LEMMA OverlayTyped == /\ OverlayInit => OverlayTypeOK
                      /\ OverlayTypeOK /\ [OverlayNext]_overlayVars => OverlayTypeOK'
  <1> USE OverlayConstants
  <1>1. OverlayInit => OverlayTypeOK
    <2> SUFFICES ASSUME OverlayInit PROVE OverlayTypeOK
      OBVIOUS
    <2>1. 0 \in 0 .. MaxActs /\ 0 \in 0 .. MaxOverlayFaults
      OBVIOUS
    <2>2. /\ appliedAt \in [TuningBundles -> 0 .. MaxActs]
          /\ retired \in [TuningBundles -> BOOLEAN]
          /\ cached \in [Rankers -> TuningBundles \cup {Base}]
          /\ expired \in [Rankers -> BOOLEAN]
      BY <2>1 DEF OverlayInit
    <2>3. NoAct \in [at : {"idle", "supersede", "activate", "retire"},
                     target : TuningBundles \cup {Base}, read : TuningBundles \cup {Base},
                     clean : BOOLEAN]
      BY DEF NoAct
    <2>4. actor \in [OverlayActors -> [at : {"idle", "supersede", "activate", "retire"},
                                       target : TuningBundles \cup {Base},
                                       read : TuningBundles \cup {Base}, clean : BOOLEAN]]
      BY <2>3 DEF OverlayInit
    <2> QED
      BY <2>1, <2>2, <2>4 DEF OverlayInit, OverlayTypeOK
  <1>2. ASSUME OverlayTypeOK, [OverlayNext]_overlayVars PROVE OverlayTypeOK'
    <2> USE <1>2 DEF OverlayTypeOK
    <2> DEFINE Options == TuningBundles \cup {Base}
               Acts == [at : {"idle", "supersede", "activate", "retire"},
                        target : Options, read : Options, clean : BOOLEAN]
    <2>1. actor \in [OverlayActors -> Acts] /\ NoAct \in Acts
      BY DEF NoAct
    <2>2. ActiveOverlay \in Options
      BY OverlayChosen DEF ActiveRows
    <2>3. ASSUME NEW x \in OverlayActors, NEW at \in {"supersede", "retire"},
                 NEW target \in Options, NEW read \in Options, Begins(x, at, target, read),
                 UNCHANGED <<bundleVars, cacheVars, wanted, overlayFaults>>
          PROVE  OverlayTypeOK'
      <3>1. acts' \in 0 .. MaxActs /\ muddled' \in BOOLEAN
        BY <2>3 DEF Begins
      <3>2. actor' \in [OverlayActors -> Acts]
        BY <2>1, <2>3 DEF Begins, Acting
      <3> QED
        BY <2>3, <3>1, <3>2 DEF bundleVars, cacheVars
    <2>4. ASSUME NEW x \in OverlayActors, NEW target \in Options, Completes(x, target)
          PROVE  /\ actor' \in [OverlayActors -> Acts] /\ wanted' \in Options
                 /\ cached' = cached /\ expired' \in [Rankers -> BOOLEAN]
      BY <2>1, <2>4 DEF Completes
    <2>5. ASSUME NEW x \in OverlayActors, Supersede(x) PROVE OverlayTypeOK'
      <3>1. actor' \in [OverlayActors -> Acts]
        BY <2>1, <2>5 DEF Supersede
      <3>2. retired' \in [TuningBundles -> BOOLEAN]
        BY <2>5 DEF Supersede
      <3> QED
        BY <2>5, <3>1, <3>2 DEF Supersede, cacheVars
    <2>6. ASSUME NEW x \in OverlayActors, Activate(x) PROVE OverlayTypeOK'
      <3> DEFINE chosen == actor[x].target
      <3>1. chosen \in Options
        BY <2>1
      <3>2. appliedAt' \in [TuningBundles -> 0 .. MaxActs] /\ retired' \in [TuningBundles -> BOOLEAN]
        BY <2>6 DEF Activate
      <3>3. Completes(x, chosen) /\ muddled' \in BOOLEAN /\ UNCHANGED <<acts, overlayFaults>>
        BY <2>6 DEF Activate
      <3> HIDE DEF chosen
      <3>4. /\ actor' \in [OverlayActors -> Acts] /\ wanted' \in Options
            /\ cached' = cached /\ expired' \in [Rankers -> BOOLEAN]
        BY <2>4, <3>1, <3>3
      <3> QED
        BY <3>2, <3>3, <3>4
    <2>7. ASSUME NEW x \in OverlayActors, Retire(x) PROVE OverlayTypeOK'
      <3>1. /\ actor' \in [OverlayActors -> Acts] /\ wanted' \in Options
            /\ cached' = cached /\ expired' \in [Rankers -> BOOLEAN]
        <4>1. CASE actor[x].target = Base
          <5>1. Completes(x, Base) /\ Base \in Options
            BY <2>7, <4>1 DEF Retire
          <5> QED
            BY <2>4, <5>1
        <4>2. CASE actor[x].target # Base
          BY <2>1, <2>7, <4>2 DEF Retire, cacheVars
        <4> QED
          BY <4>1, <4>2
      <3>2. retired' \in [TuningBundles -> BOOLEAN]
        BY <2>7 DEF Retire
      <3> QED
        BY <2>7, <3>1, <3>2 DEF Retire
    <2>8. ASSUME NEW x \in OverlayActors, ActorDies(x) PROVE OverlayTypeOK'
      <3>1. actor' \in [OverlayActors -> Acts] /\ overlayFaults' \in 0 .. MaxOverlayFaults
        BY <2>1, <2>8 DEF ActorDies, OverlayFault
      <3> QED
        BY <2>8, <3>1 DEF ActorDies, bundleVars, cacheVars
    <2>9. ASSUME NEW r \in Rankers, ResolveOverlay(r) \/ ResolveFails(r) \/ CacheExpires(r)
          PROVE  OverlayTypeOK'
      <3>1. overlayFaults' \in 0 .. MaxOverlayFaults
        BY <2>9 DEF ResolveOverlay, ResolveFails, CacheExpires, OverlayFault
      <3>2. cached' \in [Rankers -> Options] /\ expired' \in [Rankers -> BOOLEAN]
        BY <2>2, <2>9 DEF ResolveOverlay, ResolveFails, CacheExpires, Resolved
      <3>3. UNCHANGED <<bundleVars, actor, wanted, muddled, acts>>
        BY <2>9 DEF ResolveOverlay, ResolveFails, CacheExpires, Resolved
      <3> QED
        BY <3>1, <3>2, <3>3 DEF bundleVars
    <2>10. CASE UNCHANGED overlayVars
      BY <2>10 DEF overlayVars
    <2>11. ASSUME NEW x \in OverlayActors, NEW q \in TuningBundles, BeginApply(x, q)
           PROVE  OverlayTypeOK'
      BY <2>3, <2>11 DEF BeginApply
    <2>12. ASSUME NEW x \in OverlayActors, NEW to \in Options, BeginRevert(x, to)
           PROVE  OverlayTypeOK'
      BY <2>2, <2>3, <2>12 DEF BeginRevert
    <2> QED
      BY <2>5, <2>6, <2>7, <2>8, <2>9, <2>10, <2>11, <2>12 DEF OverlayNext, ActStep
  <1> QED
    BY <1>1, <1>2

\* An act that begins disturbs nothing but the cleanness of those it overlaps.
LEMMA BeginsKept ==
    ASSUME OverlayInv, NEW x \in OverlayActors, NEW at \in {"supersede", "retire"},
           NEW target \in TuningBundles \cup {Base}, NEW read \in TuningBundles \cup {Base},
           Begins(x, at, target, read), UNCHANGED <<appliedAt, retired, wanted>>,
           at = "supersede" => target \in TuningBundles,
           at = "retire" => read = ActiveOverlay /\ read # Base
    PROVE  ActsPlaced' /\ CleanIsAlone' /\ CleanFinds' /\ RowsFollow'
  <1> DEFINE overlap == \E y \in OverlayActors : Acting(y)
  <1> USE DEF Acting
  <1>1. ActiveRows' = ActiveRows /\ wanted' = wanted /\ acts \in Nat /\ acts' = acts + 1
    BY DEF ActiveRows, Begins, OverlayInv, OverlayTypeOK
  <1>2. /\ actor[x].at = "idle"
        /\ actor'[x] = [at |-> at, target |-> target, read |-> read, clean |-> ~overlap]
        /\ muddled' = (muddled \/ overlap)
    BY DEF Begins
  <1>3. ASSUME NEW y \in OverlayActors, y # x
        PROVE  /\ actor'[y].at = actor[y].at /\ actor'[y].target = actor[y].target
               /\ actor'[y].read = actor[y].read
               /\ actor'[y].clean = (actor[y].clean /\ actor[y].at = "idle")
    BY <1>3 DEF Begins, OverlayInv, OverlayTypeOK
  <1>4. read = ActiveOverlay => (read # Base => read \in ActiveRows /\ read \in TuningBundles)
    BY OverlayChosen DEF OverlayInv, ActiveRows
  <1>5. ActsPlaced'
    BY <1>1, <1>2, <1>3, <1>4 DEF ActsPlaced, OverlayInv
  <1>6. /\ actor'[x].at = at /\ actor'[x].read = read
        /\ actor'[x].clean <=> ~overlap
        /\ \A y \in OverlayActors : y # x /\ actor'[y].at # "idle" => ~actor'[y].clean
    <2>1. ASSUME NEW y \in OverlayActors, y # x, actor'[y].at # "idle" PROVE ~actor'[y].clean
      BY <1>3, <2>1
    <2> HIDE DEF overlap
    <2>2. actor'[x].at = at /\ actor'[x].read = read /\ actor'[x].clean = ~overlap
      BY <1>2
    <2>3. actor'[x].clean <=> ~overlap
      BY <2>2
    <2> QED
      BY <2>1, <2>2, <2>3
  <1>7. CleanIsAlone'
    <2>1. actor'[x].clean => \A y \in OverlayActors : y # x => actor'[y].at = "idle"
      BY <1>3, <1>6
    <2> QED
      BY <1>6, <2>1 DEF CleanIsAlone
  <1>8. CleanFinds'
    BY <1>6 DEF CleanFinds
  <1>9. RowsFollow'
    <2> SUFFICES ASSUME ~muddled, ~overlap PROVE RowsFollow'
      BY <1>2 DEF RowsFollow
    <2>1. \A y \in OverlayActors : y # x => actor'[y].at = "idle"
      BY <1>3
    <2>2. actor'[x].at = at /\ actor'[x].clean /\ actor'[x].read = read
      BY <1>6
    <2>3. ActiveRows = {wanted} \ {Base} /\ \A r, s \in ActiveRows : r = s
      BY DEF OverlayInv, RowsFollow
    <2>4. at = "retire" => ActiveRows \subseteq {read}
      BY <1>4, <2>3
    <2> QED
      BY <1>1, <2>1, <2>2, <2>3, <2>4 DEF RowsFollow
  <1> QED
    BY <1>5, <1>7, <1>8, <1>9

\* Each statement of an act leaves the rows as the next one expects them.
LEMMA StatementsKept ==
    OverlayInv /\ [OverlayNext]_overlayVars
        => ActsPlaced' /\ CleanIsAlone' /\ CleanFinds' /\ RowsFollow'
  <1> SUFFICES ASSUME OverlayInv, [OverlayNext]_overlayVars
               PROVE  ActsPlaced' /\ CleanIsAlone' /\ CleanFinds' /\ RowsFollow'
    OBVIOUS
  <1> USE DEF Acting
  <1>1. ASSUME NEW x \in OverlayActors, Supersede(x)
        PROVE  ActsPlaced' /\ CleanIsAlone' /\ CleanFinds' /\ RowsFollow'
    <2>1. ActiveRows' = {}
      BY <1>1 DEF Supersede, ActiveRows, OverlayInv, OverlayTypeOK
    <2>2. /\ actor[x].at = "supersede" /\ actor'[x].at = "activate"
          /\ actor'[x].target = actor[x].target /\ actor'[x].clean = actor[x].clean
          /\ \A y \in OverlayActors : y # x => actor'[y] = actor[y]
          /\ UNCHANGED <<muddled, acts>>
      BY <1>1 DEF Supersede, OverlayInv, OverlayTypeOK
    <2>3. ActsPlaced'
      BY <2>2 DEF ActsPlaced, OverlayInv
    <2>4. CleanIsAlone'
      BY <2>2 DEF CleanIsAlone, OverlayInv
    <2>5. RowsFollow'
      BY <2>1, <2>2 DEF RowsFollow, OverlayInv
    <2> QED
      BY <2>1, <2>3, <2>4, <2>5 DEF CleanFinds
  <1>2. ASSUME NEW x \in OverlayActors, Activate(x)
        PROVE  ActsPlaced' /\ CleanIsAlone' /\ CleanFinds' /\ RowsFollow'
    <2> DEFINE chosen == actor[x].target
    <2>1. chosen \in TuningBundles /\ actor[x].at = "activate" /\ acts > 0
      BY <1>2 DEF Activate, ActsPlaced, OverlayInv
    <2>2. ActiveRows' = ActiveRows \cup {chosen}
      BY <1>2, <2>1 DEF Activate, ActiveRows, OverlayInv, OverlayTypeOK
    <2>3. /\ actor'[x].at = "idle" /\ \A y \in OverlayActors : y # x => actor'[y] = actor[y]
          /\ acts' = acts /\ wanted' = chosen
          /\ muddled' = (muddled /\ ~actor[x].clean)
      BY <1>2 DEF Activate, Completes, NoAct, OverlayInv, OverlayTypeOK
    <2>4. ActsPlaced' /\ CleanIsAlone'
      BY <2>3 DEF ActsPlaced, CleanIsAlone, OverlayInv
    <2>5. ASSUME NEW y \in OverlayActors, y # x, actor[y].at # "idle"
          PROVE  ~actor[y].clean /\ ~actor[x].clean
      BY <2>1, <2>5 DEF CleanIsAlone, OverlayInv
    <2>6. CleanFinds'
      BY <2>3, <2>5 DEF CleanFinds
    <2>7. RowsFollow'
      <3> SUFFICES ASSUME ~muddled' PROVE RowsFollow'
        BY DEF RowsFollow
      <3>1. actor[x].clean
        <4>1. ~muddled => actor[x].clean
          BY <2>1 DEF RowsFollow, OverlayInv
        <4> QED
          BY <2>3, <4>1
      <3>2. ActiveRows' = {chosen}
        BY <2>1, <2>2, <3>1 DEF CleanFinds, OverlayInv
      <3>3. \A y \in OverlayActors : actor'[y].at = "idle"
        BY <2>3, <2>5, <3>1
      <3>4. chosen # Base
        BY <2>1, OverlayConstants
      <3> HIDE DEF chosen
      <3> QED
        BY <2>3, <3>2, <3>3, <3>4 DEF RowsFollow
    <2> QED
      BY <2>4, <2>6, <2>7
  <1>3. ASSUME NEW x \in OverlayActors, Retire(x)
        PROVE  ActsPlaced' /\ CleanIsAlone' /\ CleanFinds' /\ RowsFollow'
    <2>1. /\ actor[x].at = "retire" /\ actor[x].read \in TuningBundles
          /\ actor[x].target \in TuningBundles \cup {Base} /\ acts > 0
      BY <1>3 DEF Retire, ActsPlaced, OverlayInv, OverlayTypeOK
    <2>2. ActiveRows' = ActiveRows \ {actor[x].read}
      BY <1>3, <2>1 DEF Retire, ActiveRows, OverlayInv, OverlayTypeOK
    <2>3. /\ \A y \in OverlayActors : y # x => actor'[y] = actor[y]
          /\ UNCHANGED <<muddled, acts>>
      BY <1>3 DEF Retire, Completes, OverlayInv, OverlayTypeOK
    <2>4. \/ actor'[x].at = "idle" /\ wanted' = Base
          \/ /\ actor'[x].at = "supersede" /\ actor'[x].target \in TuningBundles
             /\ actor'[x].clean = actor[x].clean
      BY <1>3, <2>1 DEF Retire, Completes, NoAct, OverlayInv, OverlayTypeOK
    <2>5. ActsPlaced'
      BY <2>1, <2>3, <2>4 DEF ActsPlaced, OverlayInv
    <2>6. CleanIsAlone'
      BY <2>1, <2>3, <2>4 DEF CleanIsAlone, OverlayInv
    <2>7. CleanFinds'
      BY <2>1, <2>3, <2>4 DEF CleanFinds, CleanIsAlone, OverlayInv
    <2>8. RowsFollow'
      <3> SUFFICES ASSUME ~muddled PROVE RowsFollow'
        BY <2>3 DEF RowsFollow
      <3>1. ActiveRows' = {}
        BY <2>1, <2>2 DEF RowsFollow, OverlayInv
      <3>2. \A y \in OverlayActors : actor'[y].at # "idle" => actor'[y].clean
        BY <2>1, <2>3, <2>4 DEF RowsFollow, OverlayInv
      <3>3. (\A y \in OverlayActors : actor'[y].at = "idle") => wanted' = Base
        BY <2>4
      <3> QED
        BY <3>1, <3>2, <3>3 DEF RowsFollow
    <2> QED
      BY <2>5, <2>6, <2>7, <2>8
  <1>4. ASSUME NEW x \in OverlayActors, ActorDies(x)
        PROVE  ActsPlaced' /\ CleanIsAlone' /\ CleanFinds' /\ RowsFollow'
    <2>1. /\ ActiveRows' = ActiveRows /\ muddled' = TRUE /\ acts' = acts
          /\ actor'[x].at = "idle" /\ \A y \in OverlayActors : y # x => actor'[y] = actor[y]
      BY <1>4 DEF ActorDies, ActiveRows, bundleVars, NoAct, OverlayInv, OverlayTypeOK
    <2> QED
      BY <2>1 DEF ActsPlaced, CleanIsAlone, CleanFinds, RowsFollow, OverlayInv
  <1>5. CASE UNCHANGED <<appliedAt, retired, actor, wanted, muddled, acts>>
    <2>1. ActiveRows' = ActiveRows
      BY <1>5 DEF ActiveRows
    <2> QED
      BY <1>5, <2>1 DEF ActsPlaced, CleanIsAlone, CleanFinds, RowsFollow, OverlayInv
  <1>6. ASSUME NEW x \in OverlayActors, NEW q \in TuningBundles, BeginApply(x, q)
        PROVE  ActsPlaced' /\ CleanIsAlone' /\ CleanFinds' /\ RowsFollow'
    <2>1. Begins(x, "supersede", q, Base) /\ UNCHANGED <<appliedAt, retired, wanted>>
      BY <1>6 DEF BeginApply, bundleVars
    <2> QED
      BY <2>1, BeginsKept
  <1>7. ASSUME NEW x \in OverlayActors, NEW to \in TuningBundles \cup {Base}, BeginRevert(x, to)
        PROVE  ActsPlaced' /\ CleanIsAlone' /\ CleanFinds' /\ RowsFollow'
    <2>1. /\ Begins(x, "retire", to, ActiveOverlay) /\ ActiveOverlay # Base
          /\ UNCHANGED <<appliedAt, retired, wanted>>
      BY <1>7 DEF BeginRevert, bundleVars
    <2>2. ActiveOverlay \in TuningBundles \cup {Base}
      BY OverlayChosen DEF ActiveRows, OverlayInv
    <2> QED
      BY <2>1, <2>2, BeginsKept
  <1>8. ASSUME NEW r \in Rankers, ResolveOverlay(r) \/ ResolveFails(r) \/ CacheExpires(r)
        PROVE  UNCHANGED <<appliedAt, retired, actor, wanted, muddled, acts>>
    BY <1>8 DEF ResolveOverlay, ResolveFails, CacheExpires, Resolved, bundleVars
  <1>9. CASE UNCHANGED overlayVars
    BY <1>5, <1>9 DEF overlayVars
  <1> QED
    BY <1>1, <1>2, <1>3, <1>4, <1>5, <1>6, <1>7, <1>8, <1>9 DEF OverlayNext, ActStep

LEMMA OverlayInvariant == OverlaySpec => []OverlayInv
  <1>1. OverlayInit => OverlayInv
    <2> SUFFICES ASSUME OverlayInit PROVE OverlayInv
      OBVIOUS
    <2>1. ActiveRows = {} /\ \A x \in OverlayActors : actor[x].at = "idle"
      BY DEF OverlayInit, ActiveRows, NoAct
    <2> QED
      BY <2>1, OverlayTyped DEF OverlayInit, OverlayInv, ActsPlaced, CleanIsAlone, CleanFinds,
                                RowsFollow, Acting
  <1>2. OverlayInv /\ [OverlayNext]_overlayVars => OverlayInv'
    BY OverlayTyped, StatementsKept DEF OverlayInv
  <1> QED
    BY <1>1, <1>2, PTL DEF OverlaySpec

\* The region ranks with one bundle, the one the last act asked for: for any
\* bundles, actors and interleavings of their statements, unless acts overlapped
\* or one died and no clean apply followed.
THEOREM OverlayIsOne == OverlaySpec => []OneOverlay
  <1>1. OverlayInv => OneOverlay
    <2> SUFFICES ASSUME OverlayInv, ~muddled,
                        \A x \in OverlayActors : ~Acting(x)
                 PROVE  ActiveOverlay = wanted
      BY DEF OverlayInv, RowsFollow, OneOverlay
    <2>1. ActiveRows = {wanted} \ {Base}
      BY DEF OverlayInv, RowsFollow
    <2> QED
      BY <2>1, OverlayChosen DEF OverlayInv
  <1> QED
    BY <1>1, OverlayInvariant, PTL

(***************************************************************************)
(* Agent memory.                                                           *)
(***************************************************************************)
\* The seconds of the writes to come are not in any id.
IdsPast == \A r \in live \cup archived : r[2] <= writes

\* What is archived, and what a pass is about to archive, somebody corrected, or
\* it came back after a pass had listed it.
CorrectionsKept ==
    /\ Superseded \subseteq corrected
    /\ \A x \in Passes : memPass[x].todo \ memPass[x].met \subseteq corrected
    /\ NothingForgotten

\* The manifest is to get what has its chunks, or will before it is saved.
ChunksKept ==
    /\ IndexIsTrue
    /\ memSync.at = "read" => memSync.fresh \subseteq memSync.items
    /\ memSync.at \in {"indexed", "listed", "placed"} =>
           memSync.fresh \cap live \subseteq indexed \cup torn
    /\ \A x \in Passes : memPass[x].at \in {"dropped", "listed"} => memPass[x].done = {}

MemoryInv == MemoryTypeOK /\ IdsPast /\ CorrectionsKept /\ ChunksKept

PassRecords == [at : {"idle", "archive", "dropped", "listed"}, todo : SUBSET Records,
                met : SUBSET Records, done : SUBSET Records, rows : RowTables]

\* What a pass is after a step of its own; the other passes are as before.
PassBecomes(x, at, todo, met, done, table) ==
    memPass' = [memPass EXCEPT ![x] = [at |-> at, todo |-> todo, met |-> met, done |-> done,
                                       rows |-> table]]

\* A set of records has an oldest one.
LEMMA OldestIsOne == ASSUME NEW S, S \subseteq Records, S # {} PROVE Oldest(S) \in S
  <1> DEFINE Seconds == {r[2] : r \in S}
  <1>1. Seconds \subseteq Nat /\ Seconds # {}
    <2>1. ASSUME NEW r \in S PROVE r[2] \in Nat
      BY MemoryConstants DEF Records
    <2> QED
      BY <2>1
  <1> HIDE DEF Seconds
  <1>2. PICK n \in Seconds : \A m \in Seconds : n <= m
    BY <1>1, HasLeast
  <1> USE DEF Seconds
  <1>3. PICK r \in S : \A q \in S : r[2] <= q[2]
    BY <1>2
  <1> HIDE DEF Seconds
  <1> QED
    BY <1>3 DEF Oldest

\* The record a write makes: of the claim, and no live file.
LEMMA NewRecordIsNew ==
    ASSUME MemoryTypeOK, IdsPast, writes < MaxWrites, NEW c \in Claims
    PROVE  NewRecord(c) \in Records /\ NewRecord(c)[2] <= writes + 1 /\ NewRecord(c) \notin live
  <1> USE MemoryConstants DEF IdsPast
  <1>1. live \subseteq Records /\ archived \subseteq Records /\ writes \in Nat
    BY DEF MemoryTypeOK
  <1>2. CASE Of(c, live) = {} /\ Of(c, archived) # {}
    <2>1. NewRecord(c) \in Of(c, archived)
      <3>1. Of(c, archived) \subseteq Records
        BY <1>1 DEF Of
      <3> QED
        BY <1>2, <3>1, OldestIsOne DEF NewRecord
    <2>2. NewRecord(c) \in archived /\ NewRecord(c)[1] = c
      BY <2>1 DEF Of
    <2>3. NewRecord(c)[2] \in Nat
      BY <1>1, <2>2 DEF Records
    <2> QED
      BY <1>1, <1>2, <2>2, <2>3 DEF Of
  <1>3. CASE ~(Of(c, live) = {} /\ Of(c, archived) # {})
    <2>1. NewRecord(c) = <<c, writes + 1>>
      BY <1>3 DEF NewRecord
    <2>2. writes + 1 \in 1 .. MaxWrites
      BY <1>1
    <2>3. <<c, writes + 1>> \notin live
      <3> SUFFICES ASSUME <<c, writes + 1>> \in live PROVE FALSE
        OBVIOUS
      <3> QED
        BY <1>1
    <2> QED
      BY <1>1, <2>1, <2>2, <2>3 DEF Records
  <1> QED
    BY <1>2, <1>3

\* The record a writer is told it is folded into, and which is not corrected anew.
LEMMA FoldsLive ==
    ASSUME MemoryTypeOK, NEW c \in Claims, Reinforce(c)
    PROVE  /\ \E r \in live : told' = [told EXCEPT ![c] = r]
           /\ corrected' = corrected
  <1>1. live \subseteq Records
    BY DEF MemoryTypeOK
  <1>2. CASE FoldsInto(c) /\ Folded(c, Oldest(Of(c, live)))
    <2>1. Oldest(Of(c, live)) \in Of(c, live)
      <3>1. Of(c, live) \subseteq Records /\ Of(c, live) # {}
        BY <1>1, <1>2 DEF Of, FoldsInto
      <3> QED
        BY <3>1, OldestIsOne
    <2> QED
      BY <1>2, <2>1 DEF FoldsInto, Foldable, Folded, Answers, Of
  <1>3. CASE Restates(c) /\ Folded(c, Oldest(CurrentRows(c)))
    <2>1. Oldest(CurrentRows(c)) \in CurrentRows(c)
      <3>1. CurrentRows(c) \subseteq Records /\ CurrentRows(c) # {}
        BY <1>3 DEF Of, CurrentRows, Restates
      <3> QED
        BY <3>1, OldestIsOne
    <2>2. rows[Oldest(CurrentRows(c))] # "ended"
      BY <2>1 DEF CurrentRows
    <2> QED
      BY <1>3, <2>2 DEF Restates, Folded, Answers
  <1> QED
    BY <1>2, <1>3 DEF Reinforce

\* Every variable of the files, the sync and the pass keeps its type.
LEMMA MemoryTypedStart == MemoryInit => MemoryTypeOK
  <1> SUFFICES ASSUME MemoryInit PROVE MemoryTypeOK
    OBVIOUS
  <1>1. NoRows \in RowTables
    BY DEF NoRows, RowTables
  <1>2. 0 \in 0 .. MaxWrites /\ 0 \in 0 .. MaxMemoryFaults
    BY MemoryConstants
  <1>3. /\ fixes \in [Records -> Records \cup {NoRecord}]
        /\ told \in [Claims -> Records \cup {NoRecord}]
    BY DEF MemoryInit
  <1>4. memSync \in [at : {"idle", "scanned", "read", "indexed", "listed", "placed"},
                     items : SUBSET Records, fresh : SUBSET Records, rows : RowTables]
    BY <1>1 DEF MemoryInit, NoSync
  <1>5. memPass \in [Passes -> PassRecords]
    BY <1>1 DEF MemoryInit, NoPass, PassRecords
  <1> QED
    BY <1>1, <1>2, <1>3, <1>4, <1>5 DEF MemoryInit, MemoryTypeOK, PassRecords

\* A pass with some of its fields set.
LEMMA PassSets ==
    ASSUME NEW q \in PassRecords, NEW v, NEW w
    PROVE  /\ [q EXCEPT !.at = v, !.todo = w]
              = [at |-> v, todo |-> w, met |-> q.met, done |-> q.done, rows |-> q.rows]
           /\ [q EXCEPT !.at = v, !.done = w]
              = [at |-> v, todo |-> q.todo, met |-> q.met, done |-> w, rows |-> q.rows]
           /\ [q EXCEPT !.at = v, !.rows = w]
              = [at |-> v, todo |-> q.todo, met |-> q.met, done |-> q.done, rows |-> w]
  <1>1. [q EXCEPT !.at = v, !.todo = w]
        = [at |-> v, todo |-> w, met |-> q.met, done |-> q.done, rows |-> q.rows]
    <2>1. [q EXCEPT !.at = v]
          = [at |-> v, todo |-> q.todo, met |-> q.met, done |-> q.done, rows |-> q.rows]
      BY DEF PassRecords
    <2>2. [[at |-> v, todo |-> q.todo, met |-> q.met, done |-> q.done, rows |-> q.rows]
              EXCEPT !.todo = w]
          = [at |-> v, todo |-> w, met |-> q.met, done |-> q.done, rows |-> q.rows]
      OBVIOUS
    <2>3. [q EXCEPT !.at = v, !.todo = w] = [[q EXCEPT !.at = v] EXCEPT !.todo = w]
      OBVIOUS
    <2> QED
      BY <2>1, <2>2, <2>3, Zenon
  <1>2. [q EXCEPT !.at = v, !.done = w]
        = [at |-> v, todo |-> q.todo, met |-> q.met, done |-> w, rows |-> q.rows]
    <2>1. [q EXCEPT !.at = v]
          = [at |-> v, todo |-> q.todo, met |-> q.met, done |-> q.done, rows |-> q.rows]
      BY DEF PassRecords
    <2>2. [[at |-> v, todo |-> q.todo, met |-> q.met, done |-> q.done, rows |-> q.rows]
              EXCEPT !.done = w]
          = [at |-> v, todo |-> q.todo, met |-> q.met, done |-> w, rows |-> q.rows]
      OBVIOUS
    <2>3. [q EXCEPT !.at = v, !.done = w] = [[q EXCEPT !.at = v] EXCEPT !.done = w]
      OBVIOUS
    <2> QED
      BY <2>1, <2>2, <2>3, Zenon
  <1>3. [q EXCEPT !.at = v, !.rows = w]
        = [at |-> v, todo |-> q.todo, met |-> q.met, done |-> q.done, rows |-> w]
    <2>1. [q EXCEPT !.at = v]
          = [at |-> v, todo |-> q.todo, met |-> q.met, done |-> q.done, rows |-> q.rows]
      BY DEF PassRecords
    <2>2. [[at |-> v, todo |-> q.todo, met |-> q.met, done |-> q.done, rows |-> q.rows]
              EXCEPT !.rows = w]
          = [at |-> v, todo |-> q.todo, met |-> q.met, done |-> q.done, rows |-> w]
      OBVIOUS
    <2>3. [q EXCEPT !.at = v, !.rows = w] = [[q EXCEPT !.at = v] EXCEPT !.rows = w]
      OBVIOUS
    <2> QED
      BY <2>1, <2>2, <2>3, Zenon
  <1> QED
    BY <1>1, <1>2, <1>3

\* The steps of a pass, as what they make of it.
LEMMA PassMoves ==
    ASSUME MemoryTypeOK, NEW x \in Passes
    PROVE  LET q == memPass[x]
           IN  /\ BeginPass(x) =>
                      PassBecomes(x, "archive", live \cap Superseded, q.met, q.done, q.rows)
               /\ \A r \in Records : Archive(x, r) =>
                      PassBecomes(x, "archive", q.todo \ {r}, q.met \ {r}, q.done \cup {r}, q.rows)
               /\ DropArchived(x) => PassBecomes(x, "dropped", q.todo, q.met, {}, q.rows)
               /\ PassLists(x) => PassBecomes(x, "listed", q.todo, q.met, q.done, Projected)
               /\ PassRebuilds(x) \/ PassEnds(x) => PassBecomes(x, "idle", {}, {}, {}, NoRows)
  <1>1. memPass \in [Passes -> PassRecords]
    BY DEF MemoryTypeOK, PassRecords
  <1>2. memPass[x] \in PassRecords
    BY <1>1
  <1>3. BeginPass(x) => PassBecomes(x, "archive", live \cap Superseded, memPass[x].met,
                                    memPass[x].done, memPass[x].rows)
    <2>1. [memPass[x] EXCEPT !.at = "archive", !.todo = live \cap Superseded]
          = [at |-> "archive", todo |-> live \cap Superseded, met |-> memPass[x].met,
             done |-> memPass[x].done, rows |-> memPass[x].rows]
      BY <1>2, PassSets
    <2> QED
      BY <2>1 DEF BeginPass, PassBecomes
  <1>4. ASSUME NEW r \in Records, Archive(x, r)
        PROVE  PassBecomes(x, "archive", memPass[x].todo \ {r}, memPass[x].met \ {r},
                           memPass[x].done \cup {r}, memPass[x].rows)
    <2> DEFINE q == memPass[x]
               todo == q.todo \ {r}
               met == q.met \ {r}
               done == q.done \cup {r}
    <2>1. /\ q \in PassRecords
          /\ memPass' = [memPass EXCEPT ![x] =
                             [q EXCEPT !.todo = todo, !.met = met, !.done = done]]
      BY <1>2, <1>4 DEF Archive
    <2>2. q.at = "archive"
      BY <1>4 DEF Archive
    <2> HIDE DEF q, todo, met, done
    <2>3. [q EXCEPT !.todo = todo]
          = [at |-> q.at, todo |-> todo, met |-> q.met, done |-> q.done, rows |-> q.rows]
      BY <2>1 DEF PassRecords
    <2>4. [[at |-> q.at, todo |-> todo, met |-> q.met, done |-> q.done, rows |-> q.rows]
              EXCEPT !.met = met]
          = [at |-> q.at, todo |-> todo, met |-> met, done |-> q.done, rows |-> q.rows]
      OBVIOUS
    <2>5. [[at |-> q.at, todo |-> todo, met |-> met, done |-> q.done, rows |-> q.rows]
              EXCEPT !.done = done]
          = [at |-> q.at, todo |-> todo, met |-> met, done |-> done, rows |-> q.rows]
      OBVIOUS
    <2>6. [q EXCEPT !.todo = todo, !.met = met, !.done = done]
          = [[[q EXCEPT !.todo = todo] EXCEPT !.met = met] EXCEPT !.done = done]
      OBVIOUS
    <2>7. [q EXCEPT !.todo = todo, !.met = met, !.done = done]
          = [at |-> q.at, todo |-> todo, met |-> met, done |-> done, rows |-> q.rows]
      BY <2>3, <2>4, <2>5, <2>6, Zenon
    <2>8. PassBecomes(x, "archive", todo, met, done, q.rows)
      BY <2>1, <2>2, <2>7 DEF PassBecomes
    <2> QED
      BY <2>8 DEF q, todo, met, done
  <1>5. DropArchived(x) => PassBecomes(x, "dropped", memPass[x].todo, memPass[x].met, {},
                                       memPass[x].rows)
    <2>1. [memPass[x] EXCEPT !.at = "dropped", !.done = {}]
          = [at |-> "dropped", todo |-> memPass[x].todo, met |-> memPass[x].met, done |-> {},
             rows |-> memPass[x].rows]
      BY <1>2, PassSets
    <2> QED
      BY <2>1 DEF DropArchived, PassBecomes
  <1>6. PassLists(x) => PassBecomes(x, "listed", memPass[x].todo, memPass[x].met,
                                    memPass[x].done, Projected)
    <2>1. [memPass[x] EXCEPT !.at = "listed", !.rows = Projected]
          = [at |-> "listed", todo |-> memPass[x].todo, met |-> memPass[x].met,
             done |-> memPass[x].done, rows |-> Projected]
      BY <1>2, PassSets
    <2> QED
      BY <2>1 DEF PassLists, PassBecomes
  <1>7. PassRebuilds(x) \/ PassEnds(x) => PassBecomes(x, "idle", {}, {}, {}, NoRows)
    BY DEF PassRebuilds, PassEnds, PassBecomes, NoPass
  <1> QED
    BY <1>3, <1>4, <1>5, <1>6, <1>7

\* A write touches of a pass only what it has met.
LEMMA WriteMeets ==
    ASSUME MemoryTypeOK, NEW c \in Claims, NEW target \in Records \cup {NoRecord},
           WriteRecord(c, target)
    PROVE  memPass' = [x \in Passes |->
               [at |-> memPass[x].at, todo |-> memPass[x].todo,
                met |-> memPass[x].met \cup ({NewRecord(c)} \cap memPass[x].todo),
                done |-> memPass[x].done, rows |-> memPass[x].rows]]
  <1>1. \A x \in Passes : memPass[x] \in PassRecords
    BY DEF MemoryTypeOK, PassRecords
  <1>2. \A x \in Passes :
            [memPass[x] EXCEPT !.met = @ \cup ({NewRecord(c)} \cap memPass[x].todo)]
            = [at |-> memPass[x].at, todo |-> memPass[x].todo,
               met |-> memPass[x].met \cup ({NewRecord(c)} \cap memPass[x].todo),
               done |-> memPass[x].done, rows |-> memPass[x].rows]
    <2> SUFFICES ASSUME NEW x \in Passes, NEW S
                 PROVE  [memPass[x] EXCEPT !.met = S]
                        = [at |-> memPass[x].at, todo |-> memPass[x].todo, met |-> S,
                           done |-> memPass[x].done, rows |-> memPass[x].rows]
      OBVIOUS
    <2> QED
      BY <1>1 DEF PassRecords
  <1>3. memPass' = [x \in Passes |->
            [memPass[x] EXCEPT !.met = @ \cup ({NewRecord(c)} \cap memPass[x].todo)]]
    BY DEF WriteRecord
  <1> QED
    BY <1>2, <1>3

LEMMA MemoryTypedStep ==
    MemoryTypeOK /\ IdsPast /\ [MemoryNext]_memoryVars => MemoryTypeOK'
  <1> SUFFICES ASSUME MemoryTypeOK, IdsPast, [MemoryNext]_memoryVars PROVE MemoryTypeOK'
    OBVIOUS
  <1> DEFINE Syncs == [at : {"idle", "scanned", "read", "indexed", "listed", "placed"},
                       items : SUBSET Records, fresh : SUBSET Records, rows : RowTables]
             FilesTyped == /\ live \subseteq Records /\ archived \subseteq Records
                           /\ fixes \in [Records -> Records \cup {NoRecord}]
             HistoryTyped == /\ told \in [Claims -> Records \cup {NoRecord}]
                             /\ corrected \subseteq Records /\ torn \subseteq Records
                             /\ lapsed \subseteq Records
             CountTyped == writes \in 0 .. MaxWrites
             FaultsTyped == memoryFaults \in 0 .. MaxMemoryFaults
             IndexTyped == known \subseteq Records /\ indexed \subseteq Records
  <1>1. /\ FilesTyped /\ HistoryTyped /\ CountTyped /\ FaultsTyped /\ IndexTyped
        /\ rows \in RowTables /\ memSync \in Syncs /\ memPass \in [Passes -> PassRecords]
    BY DEF MemoryTypeOK, PassRecords
  <1>2. (FilesTyped /\ HistoryTyped /\ CountTyped /\ FaultsTyped /\ IndexTyped
         /\ rows \in RowTables /\ memSync \in Syncs /\ memPass \in [Passes -> PassRecords])' => MemoryTypeOK'
    BY DEF MemoryTypeOK, PassRecords
  <1>3. NoRows \in RowTables /\ Projected \in RowTables
    BY DEF NoRows, Projected, RowTables
  <1>4. NoSync \in Syncs
    BY <1>3 DEF NoSync
  <1>5. MemoryFault => FaultsTyped'
    BY <1>1, MemoryConstants DEF MemoryFault
  <1>6. writes < MaxWrites /\ writes' = writes + 1 => CountTyped'
    BY <1>1, MemoryConstants
  <1>7. ASSUME NEW some \in SUBSET Records, Commits(some)
        PROVE  indexed' \subseteq Records /\ torn' \subseteq Records
    BY <1>1, <1>7 DEF Commits
  <1>8. PartlyIndexed => indexed' \subseteq Records /\ torn' \subseteq Records
    BY <1>1, <1>7 DEF PartlyIndexed
  <1>9. UNCHANGED memHistory => HistoryTyped'
    BY <1>1 DEF memHistory
  <1>10. UNCHANGED memFiles => FilesTyped'
    BY <1>1 DEF memFiles
  <1> HIDE DEF FilesTyped, HistoryTyped, CountTyped, FaultsTyped, IndexTyped, Syncs
  <1>11. ASSUME NEW c \in Claims, Reinforce(c) PROVE MemoryTypeOK'
    <2>1. HistoryTyped'
      <3>1. /\ \E r \in live : told' = [told EXCEPT ![c] = r]
            /\ corrected' = corrected /\ torn' = torn /\ lapsed' = lapsed
        BY <1>11, FoldsLive DEF Reinforce
      <3> QED
        BY <1>1, <3>1 DEF HistoryTyped, FilesTyped
    <2>2. CountTyped'
      BY <1>6, <1>11 DEF Reinforce
    <2>3. UNCHANGED <<memFiles, known, indexed, rows, memSync, memPass, memoryFaults>>
      BY <1>11 DEF Reinforce
    <2> QED
      BY <1>1, <1>2, <1>10, <2>1, <2>2, <2>3 DEF FaultsTyped, IndexTyped
  <1>12. ASSUME NEW c \in Claims, NEW target \in Records \cup {NoRecord}, WriteRecord(c, target)
         PROVE  MemoryTypeOK'
    <2> DEFINE r == NewRecord(c)
    <2>1. r \in Records
      BY <1>12, NewRecordIsNew DEF WriteRecord
    <2>2. /\ live' = live \cup {r} /\ fixes' = [fixes EXCEPT ![r] = target]
          /\ known' = known \ {r} /\ memSync' = [memSync EXCEPT !.fresh = @ \ {r}]
          /\ told' = [told EXCEPT ![c] = r]
          /\ corrected' = (corrected \ ({r} \ Superseded)) \cup ({target} \ {NoRecord})
          /\ torn' = torn \ {r} /\ lapsed' = lapsed \ {r}
          /\ UNCHANGED <<archived, indexed, rows, memoryFaults>>
      BY <1>12 DEF WriteRecord, Answers
    <2>3. CountTyped'
      BY <1>6, <1>12 DEF WriteRecord
    <2> HIDE DEF r
    <2>4. FilesTyped'
      BY <1>1, <2>1, <2>2 DEF FilesTyped
    <2>5. HistoryTyped'
      BY <1>1, <2>1, <2>2 DEF HistoryTyped
    <2>6. memSync' \in Syncs
      BY <1>1, <2>2 DEF Syncs
    <2>7. memPass' \in [Passes -> PassRecords]
      <3>1. \A x \in Passes : memPass[x] \in PassRecords
        BY <1>1
      <3> QED
        BY <1>12, <3>1, WriteMeets DEF PassRecords
    <2> QED
      BY <1>1, <1>2, <2>2, <2>3, <2>4, <2>5, <2>6, <2>7 DEF FaultsTyped, IndexTyped
  <1>13. CASE ScanMemory \/ ReadMemory \/ ListForRows
    <2>1. /\ UNCHANGED <<memFiles, known, indexed, rows, memPass, memHistory, writes, memoryFaults>>
      BY <1>13 DEF ScanMemory, ReadMemory, ListForRows
    <2>2. memSync' \in Syncs
      BY <1>1, <1>3, <1>13 DEF ScanMemory, ReadMemory, ListForRows, Syncs, FilesTyped
    <2> QED
      BY <1>1, <1>2, <1>9, <1>10, <2>1, <2>2 DEF FaultsTyped, IndexTyped, CountTyped
  <1>14. CASE ReadFails \/ SyncDies
    <2>1. /\ UNCHANGED <<memFiles, known, rows, memPass, told, corrected, lapsed, writes>>
          /\ PartlyIndexed /\ memSync' = NoSync
          /\ UNCHANGED memoryFaults \/ MemoryFault
      BY <1>14 DEF ReadFails, SyncDies
    <2> QED
      BY <1>1, <1>2, <1>4, <1>5, <1>8, <1>10, <2>1
         DEF FaultsTyped, IndexTyped, CountTyped, HistoryTyped
  <1>15. CASE IndexMemory
    <2>1. /\ UNCHANGED <<memFiles, known, rows, memPass, told, corrected, lapsed, writes, memoryFaults>>
          /\ Commits(memSync.items)
          /\ memSync' = [memSync EXCEPT !.at = "indexed", !.items = {}]
      BY <1>15 DEF IndexMemory
    <2>2. memSync' \in Syncs /\ memSync.items \in SUBSET Records
      BY <1>1, <2>1 DEF Syncs
    <2> QED
      BY <1>1, <1>2, <1>7, <1>10, <2>1, <2>2
         DEF FaultsTyped, IndexTyped, CountTyped, HistoryTyped
  <1>16. CASE ReplaceRows
    <2>1. /\ UNCHANGED <<memFiles, known, indexed, memPass, memHistory, writes>>
          /\ rows' \in {rows, memSync.rows} /\ (UNCHANGED memoryFaults \/ MemoryFault)
          /\ memSync' = [memSync EXCEPT !.at = "placed", !.rows = NoRows]
      BY <1>16 DEF ReplaceRows
    <2>2. memSync' \in Syncs /\ rows' \in RowTables
      BY <1>1, <1>3, <2>1 DEF Syncs
    <2> QED
      BY <1>1, <1>2, <1>5, <1>9, <1>10, <2>1, <2>2 DEF FaultsTyped, IndexTyped, CountTyped
  <1>17. CASE SaveManifest
    <2>1. /\ UNCHANGED <<memFiles, indexed, rows, memPass, memHistory, writes, memoryFaults>>
          /\ known' = known \cup (memSync.fresh \cap live) /\ memSync' = NoSync
      BY <1>17 DEF SaveManifest
    <2>2. memSync.fresh \subseteq Records
      BY <1>1 DEF Syncs
    <2> QED
      BY <1>1, <1>2, <1>4, <1>9, <1>10, <2>1, <2>2 DEF FaultsTyped, IndexTyped, CountTyped
  <1>18. ASSUME NEW x \in Passes, NEW at \in {"idle", "archive", "dropped", "listed"},
                NEW todo \in SUBSET Records, NEW met \in SUBSET Records,
                NEW done \in SUBSET Records, NEW table \in RowTables,
                PassBecomes(x, at, todo, met, done, table)
         PROVE  memPass' \in [Passes -> PassRecords]
    BY <1>1, <1>18 DEF PassBecomes, PassRecords
  <1>19. ASSUME NEW x \in Passes, BeginPass(x) \/ PassLists(x) PROVE MemoryTypeOK'
    <2>1. /\ UNCHANGED <<memFiles, known, indexed, rows, memSync, memHistory, writes>>
          /\ UNCHANGED memoryFaults \/ MemoryFault
      BY <1>19 DEF BeginPass, PassLists
    <2>2. memPass[x] \in PassRecords /\ live \cap Superseded \subseteq Records
      BY <1>1 DEF FilesTyped
    <2>3. memPass' \in [Passes -> PassRecords]
      BY <1>3, <1>18, <1>19, <2>2, PassMoves DEF PassRecords
    <2> QED
      BY <1>1, <1>2, <1>5, <1>9, <1>10, <2>1, <2>3 DEF FaultsTyped, IndexTyped, CountTyped
  <1>20. ASSUME NEW x \in Passes, NEW r \in Records, Archive(x, r) PROVE MemoryTypeOK'
    <2>1. /\ UNCHANGED <<indexed, rows, memSync, told, corrected, torn, writes, memoryFaults>>
          /\ live' = live \ {r} /\ archived' = archived \cup {r}
          /\ fixes' = [fixes EXCEPT ![r] = NoRecord] /\ known' = known \ {r}
          /\ lapsed' = lapsed \cup ({r} \cap memPass[x].met)
      BY <1>20 DEF Archive
    <2>2. memPass[x] \in PassRecords
      BY <1>1
    <2>3. memPass' \in [Passes -> PassRecords]
      <3>1. PassBecomes(x, "archive", memPass[x].todo \ {r}, memPass[x].met \ {r},
                        memPass[x].done \cup {r}, memPass[x].rows)
        BY <1>20, PassMoves
      <3>2. /\ memPass[x].todo \ {r} \in SUBSET Records /\ memPass[x].met \ {r} \in SUBSET Records
            /\ memPass[x].done \cup {r} \in SUBSET Records /\ memPass[x].rows \in RowTables
        BY <2>2 DEF PassRecords
      <3> QED
        BY <1>18, <3>1, <3>2
    <2>4. FilesTyped'
      BY <1>1, <2>1 DEF FilesTyped
    <2>5. HistoryTyped'
      BY <1>1, <2>1 DEF HistoryTyped
    <2> QED
      BY <1>1, <1>2, <2>1, <2>3, <2>4, <2>5 DEF FaultsTyped, IndexTyped, CountTyped
  <1>21. ASSUME NEW x \in Passes, DropArchived(x) PROVE MemoryTypeOK'
    <2>1. /\ UNCHANGED <<memFiles, known, rows, memSync, told, corrected, lapsed, writes,
                         memoryFaults>>
          /\ indexed' = indexed \ memPass[x].done
          /\ torn' = (torn \ memPass[x].done) \cup (memPass[x].done \cap live)
      BY <1>21 DEF DropArchived
    <2>2. memPass[x] \in PassRecords
      BY <1>1
    <2>3. memPass' \in [Passes -> PassRecords]
      BY <1>18, <1>21, <2>2, PassMoves DEF PassRecords
    <2>4. torn' \subseteq Records
      BY <1>1, <2>1 DEF FilesTyped, HistoryTyped
    <2> QED
      BY <1>1, <1>2, <1>10, <2>1, <2>3, <2>4
         DEF FaultsTyped, IndexTyped, CountTyped, HistoryTyped
  <1>22. ASSUME NEW x \in Passes, PassRebuilds(x) PROVE MemoryTypeOK'
    <2>1. /\ UNCHANGED <<memFiles, known, indexed, memSync, memHistory, writes, memoryFaults>>
          /\ rows' = memPass[x].rows
      BY <1>22 DEF PassRebuilds
    <2>2. memPass[x].rows \in RowTables
      BY <1>1 DEF PassRecords
    <2>3. memPass' \in [Passes -> PassRecords]
      BY <1>3, <1>18, <1>22, PassMoves
    <2> QED
      BY <1>1, <1>2, <1>9, <1>10, <2>1, <2>2, <2>3 DEF FaultsTyped, IndexTyped, CountTyped
  <1>23. ASSUME NEW x \in Passes, ArchiveFails(x) \/ PassDies(x) PROVE MemoryTypeOK'
    <2>1. PassEnds(x) /\ (UNCHANGED memoryFaults \/ MemoryFault)
      BY <1>23 DEF ArchiveFails, PassDies
    <2>2. /\ UNCHANGED <<memFiles, known, indexed, rows, memSync, told, corrected, lapsed, writes>>
          /\ torn' = torn \cup ((memPass[x].done \cap indexed) \ live)
      BY <2>1 DEF PassEnds
    <2>3. memPass' \in [Passes -> PassRecords]
      BY <1>3, <1>18, <2>1, PassMoves
    <2>4. torn' \subseteq Records
      BY <1>1, <2>2 DEF IndexTyped, HistoryTyped
    <2> QED
      BY <1>1, <1>2, <1>5, <1>10, <2>1, <2>2, <2>3, <2>4
         DEF FaultsTyped, IndexTyped, CountTyped, HistoryTyped
  <1>24. CASE UNCHANGED memoryVars
    BY <1>24 DEF memoryVars, MemoryTypeOK
  <1> QED
    BY <1>11, <1>12, <1>13, <1>14, <1>15, <1>16, <1>17, <1>19, <1>20, <1>21, <1>22, <1>23, <1>24
       DEF MemoryNext, SyncStep, PassStep

\* No step forgets: what leaves the live files was corrected, and stays marked.
LEMMA CorrectionsStep == MemoryInv /\ [MemoryNext]_memoryVars => IdsPast' /\ CorrectionsKept'
  <1> SUFFICES ASSUME MemoryInv, [MemoryNext]_memoryVars PROVE IdsPast' /\ CorrectionsKept'
    OBVIOUS
  <1>1. /\ live \subseteq Records /\ archived \subseteq Records /\ writes \in Nat
        /\ told \in [Claims -> Records \cup {NoRecord}]
        /\ fixes \in [Records -> Records \cup {NoRecord}]
        /\ \A r \in Records : r[2] \in Nat
    BY MemoryConstants DEF MemoryInv, MemoryTypeOK, Records
  <1>2. /\ Superseded \subseteq corrected
        /\ \A x \in Passes : memPass[x].todo \ memPass[x].met \subseteq corrected
        /\ archived \ live \subseteq corrected \cup lapsed
        /\ \A c \in Claims : told[c] # NoRecord => told[c] \in live \cup corrected \cup lapsed
        /\ IdsPast
    BY DEF MemoryInv, CorrectionsKept, NothingForgotten
  <1>3. ASSUME NEW c \in Claims, Reinforce(c) PROVE IdsPast' /\ CorrectionsKept'
    <2>1. PICK r \in live : told' = [told EXCEPT ![c] = r]
      BY <1>3, FoldsLive DEF MemoryInv
    <2>2. /\ corrected' = corrected /\ writes' = writes + 1
          /\ UNCHANGED <<live, archived, fixes, memPass, lapsed>>
      BY <1>3, FoldsLive DEF Reinforce, MemoryInv, memFiles
    <2>3. Superseded' = Superseded
      BY <2>2 DEF Superseded
    <2>4. NothingForgotten'
      BY <1>1, <1>2, <2>1, <2>2 DEF NothingForgotten
    <2>5. IdsPast'
      BY <1>1, <1>2, <2>2 DEF IdsPast
    <2> QED
      BY <1>2, <2>2, <2>3, <2>4, <2>5 DEF CorrectionsKept
  <1>4. ASSUME NEW c \in Claims, NEW target \in Records \cup {NoRecord}, WriteRecord(c, target)
        PROVE  IdsPast' /\ CorrectionsKept'
    <2> DEFINE r == NewRecord(c)
    <2>1. r \in Records /\ r[2] <= writes + 1 /\ r \notin live
      BY <1>4, NewRecordIsNew DEF WriteRecord, MemoryInv
    <2>2. /\ live' = live \cup {r} /\ fixes' = [fixes EXCEPT ![r] = target]
          /\ told' = [told EXCEPT ![c] = r]
          /\ corrected' = (corrected \ ({r} \ Superseded)) \cup ({target} \ {NoRecord})
          /\ lapsed' = lapsed \ {r}
          /\ writes' = writes + 1 /\ UNCHANGED archived
      BY <1>4 DEF WriteRecord, Answers
    <2>3. \A x \in Passes : /\ memPass'[x].todo = memPass[x].todo
                            /\ memPass'[x].met = memPass[x].met \cup ({r} \cap memPass[x].todo)
      BY <1>4, WriteMeets DEF MemoryInv
    <2> HIDE DEF r
    <2>4. Superseded' \subseteq Superseded \cup ({target} \ {NoRecord})
      BY <1>1, <2>1, <2>2 DEF Superseded
    <2>5. corrected \ {r} \subseteq corrected' /\ Superseded' \subseteq corrected'
      BY <1>2, <2>2, <2>4
    <2>6. NothingForgotten'
      BY <1>1, <1>2, <2>2, <2>5 DEF NothingForgotten
    <2>7. IdsPast'
      BY <1>1, <1>2, <2>1, <2>2 DEF IdsPast
    <2>8. \A x \in Passes : memPass'[x].todo \ memPass'[x].met \subseteq corrected'
      BY <1>2, <2>3, <2>5
    <2> QED
      BY <2>5, <2>6, <2>7, <2>8 DEF CorrectionsKept
  <1>5. ASSUME NEW x \in Passes, NEW r \in Records, Archive(x, r)
        PROVE  IdsPast' /\ CorrectionsKept'
    <2>1. /\ r \in memPass[x].todo \cap live
          /\ live' = live \ {r} /\ archived' = archived \cup {r}
          /\ fixes' = [fixes EXCEPT ![r] = NoRecord]
          /\ lapsed' = lapsed \cup ({r} \cap memPass[x].met)
          /\ UNCHANGED <<told, corrected, writes>>
      BY <1>5 DEF Archive
    <2>2. \A y \in Passes : memPass'[y].todo \ memPass'[y].met \subseteq
                                memPass[y].todo \ memPass[y].met
      <3>1. memPass \in [Passes -> PassRecords]
        BY DEF MemoryInv, MemoryTypeOK, PassRecords
      <3> QED
        BY <1>5, <3>1, PassMoves DEF PassBecomes, MemoryInv
    <2>3. Superseded' \subseteq Superseded
      BY <1>1, <2>1 DEF Superseded
    <2>4. r \in corrected' \cup lapsed'
      BY <1>2, <2>1
    <2>5. NothingForgotten'
      BY <1>2, <2>1, <2>4 DEF NothingForgotten
    <2>6. IdsPast'
      BY <1>2, <2>1 DEF IdsPast
    <2> QED
      BY <1>2, <2>1, <2>2, <2>3, <2>5, <2>6 DEF CorrectionsKept
  <1>6. CASE /\ UNCHANGED <<live, archived, fixes, told, corrected, lapsed, writes>>
             /\ \A x \in Passes : memPass'[x].todo \ memPass'[x].met \subseteq
                                      (memPass[x].todo \ memPass[x].met) \cup Superseded
    <2>1. Superseded' = Superseded /\ IdsPast'
      BY <1>2, <1>6 DEF Superseded, IdsPast
    <2> QED
      BY <1>2, <1>6, <2>1 DEF CorrectionsKept, NothingForgotten
  <1>7. ASSUME NEW x \in Passes,
               \/ BeginPass(x) \/ DropArchived(x) \/ PassLists(x) \/ PassRebuilds(x)
               \/ ArchiveFails(x) \/ PassDies(x)
        PROVE  IdsPast' /\ CorrectionsKept'
    <2>1. UNCHANGED <<live, archived, fixes, told, corrected, lapsed, writes>>
      BY <1>7 DEF BeginPass, DropArchived, PassLists, PassRebuilds, ArchiveFails, PassDies,
                  PassEnds, memFiles, memHistory
    <2>2. memPass \in [Passes -> PassRecords] /\ MemoryTypeOK
      BY DEF MemoryInv, MemoryTypeOK, PassRecords
    <2>3. CASE BeginPass(x)
      BY <1>6, <2>1, <2>2, <2>3, PassMoves DEF PassBecomes
    <2>4. CASE DropArchived(x) \/ PassLists(x)
      BY <1>6, <2>1, <2>2, <2>4, PassMoves DEF PassBecomes
    <2>5. CASE PassRebuilds(x) \/ PassEnds(x)
      BY <1>6, <2>1, <2>2, <2>5, PassMoves DEF PassBecomes
    <2> QED
      BY <1>7, <2>3, <2>4, <2>5 DEF ArchiveFails, PassDies
  <1>8. CASE SyncStep \/ SyncDies
    <2>1. UNCHANGED <<live, archived, fixes, told, corrected, lapsed, writes, memPass>>
      BY <1>8 DEF SyncStep, ScanMemory, ReadMemory, ReadFails, IndexMemory, ListForRows,
                  ReplaceRows, SaveManifest, SyncDies, memFiles, memHistory
    <2> QED
      BY <1>6, <2>1
  <1>9. CASE UNCHANGED memoryVars
    BY <1>6, <1>9 DEF memoryVars
  <1> QED
    BY <1>3, <1>4, <1>5, <1>7, <1>8, <1>9 DEF MemoryNext, PassStep

\* No step tears the index unnoticed: what is committed, dropped and listed in the
\* manifest is what was read.
LEMMA ChunksStep == MemoryInv /\ [MemoryNext]_memoryVars => ChunksKept'
  <1> SUFFICES ASSUME MemoryInv, [MemoryNext]_memoryVars PROVE ChunksKept'
    OBVIOUS
  <1> DEFINE Read == memSync.at = "read" => memSync.fresh \subseteq memSync.items
             Backed == memSync.at \in {"indexed", "listed", "placed"} =>
                           memSync.fresh \cap live \subseteq indexed \cup torn
             Dropped == \A x \in Passes :
                            memPass[x].at \in {"dropped", "listed"} => memPass[x].done = {}
  <1>1. IndexIsTrue /\ Read /\ Backed /\ Dropped
    BY DEF MemoryInv, ChunksKept
  <1>2. IndexIsTrue' /\ Read' /\ Backed' /\ Dropped' => ChunksKept'
    BY DEF ChunksKept
  <1>3. /\ memSync = [at |-> memSync.at, items |-> memSync.items, fresh |-> memSync.fresh,
                      rows |-> memSync.rows]
        /\ memPass \in [Passes -> PassRecords] /\ MemoryTypeOK
    BY DEF MemoryInv, MemoryTypeOK, PassRecords
  <1>4. ASSUME NEW c \in Claims, Reinforce(c) PROVE ChunksKept'
    <2>1. UNCHANGED <<live, known, indexed, torn, memSync, memPass>>
      BY <1>4 DEF Reinforce, memFiles
    <2> QED
      BY <1>1, <1>2, <2>1 DEF IndexIsTrue
  <1>5. ASSUME NEW c \in Claims, NEW target \in Records \cup {NoRecord}, WriteRecord(c, target)
        PROVE  ChunksKept'
    <2> DEFINE r == NewRecord(c)
    <2>1. /\ live' = live \cup {r} /\ known' = known \ {r} /\ torn' = torn \ {r}
          /\ memSync'.at = memSync.at /\ memSync'.items = memSync.items
          /\ memSync'.fresh = memSync.fresh \ {r} /\ UNCHANGED indexed
      BY <1>3, <1>5 DEF WriteRecord
    <2>2. \A x \in Passes : memPass'[x].at = memPass[x].at /\ memPass'[x].done = memPass[x].done
      BY <1>3, <1>5, WriteMeets
    <2> HIDE DEF r
    <2>3. IndexIsTrue'
      BY <1>1, <2>1, <2>2 DEF IndexIsTrue
    <2> QED
      BY <1>1, <1>2, <2>1, <2>2, <2>3
  <1>6. ASSUME NEW some, Commits(some), UNCHANGED <<live, known, memPass>>
        PROVE  IndexIsTrue'
    BY <1>1, <1>6 DEF Commits, IndexIsTrue
  <1>7. CASE ReadFails \/ SyncDies
    <2>1. /\ \E some : Commits(some)
          /\ UNCHANGED <<live, known, memPass>> /\ memSync'.at = "idle"
      BY <1>7 DEF ReadFails, SyncDies, PartlyIndexed, memFiles, NoSync
    <2> QED
      BY <1>1, <1>2, <1>6, <2>1
  <1>8. CASE IndexMemory
    <2>1. /\ Commits(memSync.items) /\ UNCHANGED <<live, known, memPass>>
          /\ memSync'.at = "indexed" /\ memSync'.fresh = memSync.fresh /\ memSync.at = "read"
      BY <1>3, <1>8 DEF IndexMemory, memFiles
    <2>2. Backed'
      BY <1>1, <2>1 DEF Commits
    <2> QED
      BY <1>1, <1>2, <1>6, <2>1, <2>2
  <1>9. CASE ScanMemory \/ ReadMemory
    <2>1. /\ UNCHANGED <<live, known, indexed, torn, memPass>>
          /\ memSync'.at \in {"scanned", "read"}
          /\ memSync'.at = "read" => memSync'.fresh = memSync'.items
      BY <1>3, <1>9 DEF ScanMemory, ReadMemory, memFiles, memHistory
    <2> QED
      BY <1>1, <1>2, <2>1 DEF IndexIsTrue
  <1>10. CASE ListForRows \/ ReplaceRows
    <2>1. /\ UNCHANGED <<live, known, indexed, torn, memPass>>
          /\ memSync.at \in {"indexed", "listed"} /\ memSync'.at \in {"listed", "placed"}
          /\ memSync'.fresh = memSync.fresh
      BY <1>3, <1>10 DEF ListForRows, ReplaceRows, memFiles, memHistory
    <2> QED
      BY <1>1, <1>2, <2>1 DEF IndexIsTrue
  <1>11. CASE SaveManifest
    BY <1>1, <1>2, <1>11 DEF SaveManifest, NoSync, memFiles, memHistory, IndexIsTrue
  <1>12. ASSUME NEW x \in Passes, BeginPass(x) \/ PassLists(x) PROVE ChunksKept'
    <2>1. UNCHANGED <<live, known, indexed, torn, memSync>>
      BY <1>12 DEF BeginPass, PassLists, memFiles, memHistory
    <2>2. \A y \in Passes :
              /\ memPass'[y].done = memPass[y].done
              /\ memPass'[y].at \in {"dropped", "listed"} => memPass[y].at \in {"dropped", "listed"}
      <3>1. CASE BeginPass(x)
        <4>1. PassBecomes(x, "archive", live \cap Superseded, memPass[x].met, memPass[x].done,
                          memPass[x].rows)
          BY <1>3, <3>1, PassMoves
        <4> QED
          BY <1>3, <4>1 DEF PassBecomes
      <3>2. CASE PassLists(x)
        <4>1. /\ memPass[x].at = "dropped"
              /\ PassBecomes(x, "listed", memPass[x].todo, memPass[x].met, memPass[x].done,
                             Projected)
          BY <1>3, <3>2, PassMoves DEF PassLists
        <4> QED
          BY <1>3, <4>1 DEF PassBecomes
      <3> QED
        BY <1>12, <3>1, <3>2
    <2>3. IndexIsTrue'
      BY <1>1, <2>1, <2>2 DEF IndexIsTrue
    <2> QED
      BY <1>1, <1>2, <2>1, <2>2, <2>3
  <1>13. ASSUME NEW x \in Passes, NEW r \in Records, Archive(x, r) PROVE ChunksKept'
    <2>1. /\ live' = live \ {r} /\ known' = known \ {r} /\ UNCHANGED <<indexed, torn, memSync>>
      BY <1>13 DEF Archive
    <2>2. /\ memPass'[x].done = memPass[x].done \cup {r} /\ memPass'[x].at = "archive"
          /\ \A y \in Passes : y # x => memPass'[y] = memPass[y]
      BY <1>3, <1>13, PassMoves DEF PassBecomes
    <2>3. IndexIsTrue'
      BY <1>1, <2>1, <2>2 DEF IndexIsTrue
    <2> QED
      BY <1>1, <1>2, <2>1, <2>2, <2>3
  <1>14. ASSUME NEW x \in Passes, DropArchived(x) PROVE ChunksKept'
    <2>1. /\ indexed' = indexed \ memPass[x].done
          /\ torn' = (torn \ memPass[x].done) \cup (memPass[x].done \cap live)
          /\ UNCHANGED <<live, known, memSync>>
      BY <1>14 DEF DropArchived, memFiles
    <2>2. /\ memPass'[x].done = {}
          /\ \A y \in Passes : y # x => memPass'[y] = memPass[y]
      BY <1>3, <1>14, PassMoves DEF PassBecomes
    <2>3. IndexIsTrue'
      BY <1>1, <2>1, <2>2 DEF IndexIsTrue
    <2>4. Dropped'
      BY <1>1, <2>2
    <2> QED
      BY <1>1, <1>2, <2>1, <2>3, <2>4
  <1>15. ASSUME NEW x \in Passes, PassRebuilds(x) PROVE ChunksKept'
    <2>1. UNCHANGED <<live, known, indexed, torn, memSync>> /\ memPass[x].done = {}
      BY <1>1, <1>15 DEF PassRebuilds, memFiles, memHistory
    <2>2. /\ memPass'[x].done = {}
          /\ \A y \in Passes : y # x => memPass'[y] = memPass[y]
      BY <1>3, <1>15, PassMoves DEF PassBecomes
    <2>3. IndexIsTrue'
      BY <1>1, <2>1, <2>2 DEF IndexIsTrue
    <2>4. Dropped'
      BY <1>1, <2>2
    <2> QED
      BY <1>1, <1>2, <2>1, <2>3, <2>4
  <1>16. ASSUME NEW x \in Passes, ArchiveFails(x) \/ PassDies(x) PROVE ChunksKept'
    <2>1. PassEnds(x)
      BY <1>16 DEF ArchiveFails, PassDies
    <2>2. /\ torn' = torn \cup ((memPass[x].done \cap indexed) \ live)
          /\ UNCHANGED <<live, known, indexed, memSync>>
      BY <2>1 DEF PassEnds, memFiles
    <2>3. /\ memPass'[x].done = {}
          /\ \A y \in Passes : y # x => memPass'[y] = memPass[y]
      BY <1>3, <2>1, PassMoves DEF PassBecomes
    <2>4. IndexIsTrue'
      BY <1>1, <2>2, <2>3 DEF IndexIsTrue
    <2>5. Dropped'
      BY <1>1, <2>3
    <2> QED
      BY <1>1, <1>2, <2>2, <2>4, <2>5
  <1>17. CASE UNCHANGED memoryVars
    BY <1>1, <1>2, <1>17 DEF memoryVars, IndexIsTrue
  <1> QED
    BY <1>4, <1>5, <1>7, <1>8, <1>9, <1>10, <1>11, <1>12, <1>13, <1>14, <1>15, <1>16, <1>17
       DEF MemoryNext, SyncStep, PassStep

LEMMA MemoryKept == /\ MemoryInit => MemoryInv
                    /\ MemoryInv /\ [MemoryNext]_memoryVars => MemoryInv'
  <1>1. MemoryInit => MemoryInv
    <2> SUFFICES ASSUME MemoryInit PROVE MemoryInv
      OBVIOUS
    <2>1. MemoryTypeOK
      BY MemoryTypedStart
    <2>2. Superseded = {} /\ IdsPast
      BY DEF MemoryInit, Superseded, IdsPast
    <2>3. NothingForgotten
      BY DEF MemoryInit, NothingForgotten
    <2>4. /\ memSync.at = "idle"
          /\ \A x \in Passes : memPass[x].todo = {} /\ memPass[x].at = "idle"
      BY DEF MemoryInit, NoPass, NoSync
    <2>5. IndexIsTrue
      BY DEF MemoryInit, IndexIsTrue
    <2> QED
      BY <2>1, <2>2, <2>3, <2>4, <2>5 DEF MemoryInv, CorrectionsKept, ChunksKept
  <1>2. MemoryInv /\ [MemoryNext]_memoryVars => MemoryInv'
    BY MemoryTypedStep, CorrectionsStep, ChunksStep DEF MemoryInv
  <1> QED
    BY <1>1, <1>2

\* Memory forgets nothing that was not corrected, but what came back after a pass
\* had listed it, and its index is wrong only where passes and syncs crossed or a
\* pass did not end: for any claims, writers, corrections, number of passes that
\* run at once, interleavings and deaths.
THEOREM MemoryIsKept == MemorySpec => []MemoryHolds
  <1>1. MemoryInv => MemoryHolds
    BY DEF MemoryInv, CorrectionsKept, ChunksKept, MemoryHolds
  <1> QED
    BY <1>1, MemoryKept, PTL DEF MemorySpec

(***************************************************************************)
(* The components together.                                                *)
(***************************************************************************)
\* A step of the composition is a step of one component, and leaves the others.
LEMMA StepsAreTheirs ==
    [PartsNext]_partsVars =>
        /\ [JobNext]_jobVars
        /\ [FleetNext]_fleetVars
        /\ [NatsNext]_natsVars
        /\ [RowsNext]_rowsVars
        /\ [RefreshNext]_refreshVars
        /\ [LeaseNext]_leaseVars
        /\ [EvalNext]_evalVars
        /\ [LogNext]_logVars
        /\ [PoolNext]_poolVars
        /\ [TuningNext]_tuneVars
        /\ [OverlayNext]_overlayVars
  <1> SUFFICES ASSUME [PartsNext]_partsVars
               PROVE  /\ [JobNext]_jobVars
                      /\ [FleetNext]_fleetVars
                      /\ [NatsNext]_natsVars
                      /\ [RowsNext]_rowsVars
                      /\ [RefreshNext]_refreshVars
                      /\ [LeaseNext]_leaseVars
                      /\ [EvalNext]_evalVars
                      /\ [LogNext]_logVars
                      /\ [PoolNext]_poolVars
                      /\ [TuningNext]_tuneVars
                      /\ [OverlayNext]_overlayVars
    OBVIOUS
  <1>1. CASE JobStep
    BY <1>1 DEF JobStep
  <1>2. CASE FleetStep
    BY <1>2 DEF FleetStep
  <1>3. CASE NatsStep
    BY <1>3 DEF NatsStep
  <1>4. CASE RowsStep
    BY <1>4 DEF RowsStep
  <1>5. CASE RefreshStep
    BY <1>5 DEF RefreshStep
  <1>6. CASE LeaseStep
    BY <1>6 DEF LeaseStep
  <1>7. CASE EvalStep
    BY <1>7 DEF EvalStep
  <1>8. CASE LogStep
    BY <1>8 DEF LogStep
  <1>9. CASE PoolStep
    BY <1>9 DEF PoolStep
  <1>10. CASE TuneStep
    BY <1>10 DEF TuneStep
  <1>11. CASE OverlayStep
    BY <1>11 DEF OverlayStep
  <1>12. CASE UNCHANGED partsVars
    BY <1>12 DEF partsVars
  <1> QED
    BY <1>1, <1>2, <1>3, <1>4, <1>5, <1>6, <1>7,
       <1>8, <1>9, <1>10, <1>11, <1>12, <1>12 DEF PartsNext

\* The composition runs every component by its own specification.
THEOREM PartsRunComponents == PartsSpec =>
        /\ JobSpec
        /\ FleetSpec
        /\ NatsSpec
        /\ RowsSpec
        /\ RefreshSpec
        /\ LeaseSpec
        /\ EvalSpec
        /\ LogSpec
        /\ PoolSpec
        /\ TuningSpec
        /\ OverlaySpec
  <1>1. PartsInit =>
            /\ JobInit
            /\ FleetInit
            /\ NatsInit
            /\ RowsInit
            /\ RefreshInit
            /\ LeaseInit
            /\ EvalInit
            /\ LogInit
            /\ PoolInit
            /\ TuningInit
            /\ OverlayInit
    BY DEF PartsInit
  <1> QED
    BY <1>1, StepsAreTheirs, PTL
       DEF PartsSpec, JobSpec, FleetSpec, NatsSpec, RowsSpec, RefreshSpec, LeaseSpec,
           EvalSpec, LogSpec, PoolSpec, TuningSpec, OverlaySpec

\* Every variable of every component keeps its type, and what has a capacity keeps
\* within it: for any capacities, and for any number of hosts, workers and records.
THEOREM PartsTypeCorrect == PartsSpec => []PartsTypeOK
  <1>1. JobSpec => []JobTypeOK
    <2>1. JobInv => JobTypeOK
      BY DEF JobInv
    <2> QED
      BY <2>1, JobsKept, PTL DEF JobSpec
  <1>2. FleetSpec => []FleetTypeOK
    BY FleetTyped, PTL DEF FleetSpec
  <1>3. NatsSpec => []NatsTypeOK
    BY NatsTyped, PTL DEF NatsSpec
  <1>4. RowsSpec => []RowsTypeOK
    BY RowsTyped, PTL DEF RowsSpec
  <1>5. RefreshSpec => []RefreshTypeOK
    BY RefreshTyped, PTL DEF RefreshSpec
  <1>6. LeaseSpec => []LeaseTypeOK
    BY LeaseTyped, PTL DEF LeaseSpec
  <1>7. EvalSpec => []EvalTypeOK
    BY EvalTyped, PTL DEF EvalSpec
  <1>8. LogSpec => []LogTypeOK
    <2>1. LogTyped => LogTypeOK
      BY DEF LogTyped
    <2> QED
      BY <2>1, LogTypedStart, LogTypedStep, PTL DEF LogSpec
  <1>9. PoolSpec => []PoolTypeOK
    <2>1. PoolBase => PoolTypeOK
      BY DEF PoolBase
    <2> QED
      BY <2>1, PoolBased, PTL DEF PoolSpec
  <1>10. TuningSpec => []TuningTypeOK
    BY TuningTyped, PTL DEF TuningSpec
  <1>11. OverlaySpec => []OverlayTypeOK
    BY OverlayTyped, PTL DEF OverlaySpec
  <1> QED
    BY <1>1, <1>2, <1>3, <1>4, <1>5, <1>6, <1>7, <1>8, <1>9, <1>10, <1>11,
       PartsRunComponents, PTL DEF PartsTypeOK

\* The safety of the composition, for every value of the constants: each invariant
\* and action property that the run parts checks on one instance.
THEOREM PartsAreSafe == PartsSpec =>
        /\ []JobBoardIsTrue
        /\ []HoldersExclude
        /\ []NoTaskLost /\ []DeliveriesBounded
        /\ []NoWriteLost /\ []NoDanglingRow /\ []GenerationNamesRows
        /\ []NotedIsServed /\ NeverOlder
        /\ []EngineExclusive
        /\ []OneAttempt /\ ReportStays /\ CheckpointsSurvive
        /\ []NoSilentLoss /\ []ColdOnce
        /\ []NoLeakedProbe /\ []DeadWorkerIsCheap
        /\ []OneTuner
        /\ []OneOverlay
  BY PartsRunComponents, BoardStaysTrue, HoldersAreExclusive, TasksAreKept, DeliveriesArePaid,
     WritesArrive, NoRowDangles, GenerationsNameRows, ReplicasKnow, ReplicasAdvance,
     EngineIsExclusive, AttemptsAreExclusive, ReportsStay, CheckpointsLast, EventsAreCounted,
     ColdRowsAreSingle, ProbesAreReturned, DeadWorkersAreCheap, TunersAreExclusive,
     OverlayIsOne, PTL
=============================================================================
