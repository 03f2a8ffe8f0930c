-------------------------- MODULE GraphRowsProofs --------------------------
(***************************************************************************)
(* Proofs about GraphRows, for any graph, edits, failed saves and deaths:  *)
(* what is written gets to the rows, no edge row dangles, and a published  *)
(* generation names the rows exactly.                                      *)
(***************************************************************************)
EXTENDS GraphRows, FiniteSetTheorems, TLAPS

(***************************************************************************)
(* Vocabulary: what the rows will hold once the running save has written,  *)
(* and what will still be owed once it has forgotten what it wrote.        *)
(***************************************************************************)
Values == {0} \cup GraphValues

NodeTarget(n) == IF saver # "read" THEN rowNode[n]
                 ELSE IF n \in delta.nodes THEN delta.node[n]
                 ELSE IF n \in delta.gone THEN 0 ELSE rowNode[n]

EdgeTarget(e) == IF saver # "read" THEN rowEdge[e]
                 ELSE IF e \in delta.pairs THEN delta.edge[e]
                 ELSE IF e \in Deleted(delta) THEN 0 ELSE rowEdge[e]

LeftNodes == dueNodes \ delta.nodes
LeftGone == dueGone \ delta.gone
LeftPairs == duePairs \ delta.pairs

(***************************************************************************)
(* The parts of the inductive invariant.                                   *)
(***************************************************************************)
\* The delta is one: sets of ids and the two graphs it was read from.
DeltaTyped == delta \in [nodes : SUBSET GraphNodes, gone : SUBSET GraphNodes,
                         pairs : SUBSET GraphPairs, gonePairs : SUBSET GraphPairs,
                         node : [GraphNodes -> Values], edge : [GraphPairs -> Values]]

\* The memory graph has no dangling edge, and owes what it has.
MemoryClosed == \A e \in GraphPairs : edge[e] # 0 => node[e[1]] # 0 /\ node[e[2]] # 0
DuesFit == /\ \A n \in dueNodes : node[n] # 0
           /\ \A n \in dueGone : node[n] = 0
           /\ \A e \in duePairs : edge[e] # 0

\* The delta names what was there, and the rows follow it.
DeltaFits == /\ saver \notin {"read", "written"} => delta = NoDelta
             /\ \A n \in delta.nodes : NodeTarget(n) # 0
             /\ \A n \in delta.gone : NodeTarget(n) = 0
             /\ \A e \in delta.pairs : EdgeTarget(e) # 0

\* What differs from the rows is owed, before the save and after it.
Owed == saver = "read" =>
    /\ \A n \in GraphNodes : /\ rowNode[n] = node[n] \/ n \in dueNodes \cup dueGone \cup overtaken
                             /\ node[n] # 0 /\ rowNode[n] = 0 => n \in dueNodes
    /\ \A e \in GraphPairs : edge[e] # 0 =>
           rowEdge[e] = edge[e] \/ e \in duePairs \cup overtaken

LeftOwed ==
    /\ \A n \in GraphNodes :
           /\ NodeTarget(n) = node[n] \/ n \in LeftNodes \cup LeftGone \cup overtaken
           /\ node[n] # 0 /\ NodeTarget(n) = 0 => n \in LeftNodes
    /\ \A e \in GraphPairs : edge[e] # 0 =>
           EdgeTarget(e) = edge[e] \/ e \in LeftPairs \cup overtaken

\* No edge will dangle either.
TargetClosed == \A e \in GraphPairs :
    EdgeTarget(e) # 0 => NodeTarget(e[1]) # 0 /\ NodeTarget(e[2]) # 0

OwedInv == /\ RowsTypeOK /\ DeltaTyped /\ MemoryClosed /\ DuesFit /\ DeltaFits
           /\ Owed /\ LeftOwed /\ NoDanglingRow /\ TargetClosed

\* The aggregates are those of the rows, and the generation is their name.
StoreNamed == /\ fold = {NodeRow(n) : n \in Present(rowNode)}
                            \cup {EdgeRow(e) : e \in Present(rowEdge)}
              /\ rowCount = <<Cardinality(Present(rowNode)), Cardinality(Present(rowEdge))>>
GenerationNamed == saver \in {"idle", "read"} /\ ~unnamed => generation = RowsName

NameInv == OwedInv /\ StoreNamed /\ GenerationNamed

(***************************************************************************)
(* Types.                                                                  *)
(***************************************************************************)
LEMMA Ends == \A e \in GraphPairs : e[1] \in GraphNodes /\ e[2] \in GraphNodes
  BY RowConstants

LEMMA NoDeltaTyped ==
    NoDelta \in [nodes : SUBSET GraphNodes, gone : SUBSET GraphNodes,
                 pairs : SUBSET GraphPairs, gonePairs : SUBSET GraphPairs,
                 node : [GraphNodes -> Values], edge : [GraphPairs -> Values]]
  <1>1. NoValues(GraphNodes) \in [GraphNodes -> Values]
    BY DEF NoValues, Values
  <1>2. NoValues(GraphPairs) \in [GraphPairs -> Values]
    BY DEF NoValues, Values
  <1> QED
    BY <1>1, <1>2 DEF NoDelta

\* The edits keep every variable in its type.
LEMMA EditTyped ==
    ASSUME RowsTypeOK, DeltaTyped,
           \/ \E n \in GraphNodes, v \in GraphValues : AddNode(n, v)
           \/ \E e \in GraphPairs, v \in GraphValues : AddEdge(e, v)
           \/ \E S \in SUBSET GraphNodes : RemoveNodes(S)
    PROVE  RowsTypeOK' /\ DeltaTyped'
  <1> USE RowConstants DEF RowsTypeOK, DeltaTyped, Edit, storeVars, Overtake
  <1>1. ASSUME NEW n \in GraphNodes, NEW v \in GraphValues, AddNode(n, v)
        PROVE  RowsTypeOK' /\ DeltaTyped'
    BY <1>1 DEF AddNode
  <1>2. ASSUME NEW e \in GraphPairs, NEW v \in GraphValues, AddEdge(e, v)
        PROVE  RowsTypeOK' /\ DeltaTyped'
    BY <1>2 DEF AddEdge
  <1>3. ASSUME NEW S \in SUBSET GraphNodes, RemoveNodes(S)
        PROVE  RowsTypeOK' /\ DeltaTyped'
    BY <1>3 DEF RemoveNodes
  <1> QED
    BY <1>1, <1>2, <1>3

\* Every step does.
LEMMA RowsTyped == /\ RowsInit => RowsTypeOK /\ DeltaTyped
                   /\ RowsTypeOK /\ DeltaTyped /\ [RowsNext]_rowsVars
                          => RowsTypeOK' /\ DeltaTyped'
  <1>1. RowsInit => RowsTypeOK /\ DeltaTyped
    <2>1. RowsInit => rowNode \in [GraphNodes -> {1}] /\ rowEdge \in [GraphPairs -> {1}]
      BY DEF RowsInit
    <2>2. RowsInit => edits \in 0 .. MaxEdits /\ reloads \in 0 .. MaxReloads
      BY RowConstants DEF RowsInit
    <2> QED
      BY <2>1, <2>2, NoDeltaTyped DEF RowsInit, RowsTypeOK, DeltaTyped, GraphValues
  <1>2. ASSUME RowsTypeOK, DeltaTyped, [RowsNext]_rowsVars PROVE RowsTypeOK' /\ DeltaTyped'
    <2> USE <1>2, RowConstants, NoDeltaTyped
        DEF RowsTypeOK, DeltaTyped, memVars, dueVars, storeVars
    <2>1. CASE ReadDelta
      <3>1. DeltaTyped'
        BY <2>1 DEF ReadDelta, Present, Values
      <3> QED
        BY <2>1, <3>1 DEF ReadDelta
    <2>2. CASE ApplyDelta
      <3>1. rowNode' \in [GraphNodes -> Values]
        BY <2>2 DEF ApplyDelta, Values
      <3>2. rowEdge' \in [GraphPairs -> Values]
        BY <2>2 DEF ApplyDelta, Values
      <3>3. saver' = "written"
        BY <2>2 DEF ApplyDelta
      <3>4. /\ UNCHANGED <<node, edge, dueNodes, dueGone, duePairs, delta, overtaken, unnamed>>
            /\ UNCHANGED <<edits, reloads>>
        BY <2>2 DEF ApplyDelta
      <3> QED
        BY <3>1, <3>2, <3>3, <3>4 DEF Values
    <2>3. CASE ClearDelta
      BY <2>3 DEF ClearDelta, ForgetDelta
    <2>4. CASE PublishRows \/ SaveFails
      <3>1. CASE PublishRows
        BY <3>1 DEF PublishRows
      <3>2. CASE SaveFails
        BY <3>2 DEF SaveFails
      <3> QED
        BY <2>4, <3>1, <3>2
    <2>5. CASE ReloadRows
      <3>1. unnamed' \in BOOLEAN /\ reloads' \in 0 .. MaxReloads
        BY <2>5 DEF ReloadRows
      <3> QED
        BY <2>5, <3>1 DEF ReloadRows
    <2>6. CASE UNCHANGED rowsVars
      BY <2>6 DEF rowsVars
    <2> QED
      BY <2>1, <2>2, <2>3, <2>4, <2>5, <2>6, EditTyped DEF RowsNext
  <1> QED
    BY <1>1, <1>2

(***************************************************************************)
(* What is owed.                                                           *)
(***************************************************************************)
OwedParts == MemoryClosed /\ DuesFit /\ DeltaFits /\ Owed /\ LeftOwed /\ NoDanglingRow /\ TargetClosed

\* The targets move with the rows, the delta and the save alone.
LEMMA TargetsStay ==
    ASSUME UNCHANGED <<rowNode, rowEdge, saver, delta>>
    PROVE  /\ \A n \in GraphNodes : NodeTarget(n)' = NodeTarget(n)
           /\ \A e \in GraphPairs : EdgeTarget(e)' = EdgeTarget(e)
  BY DEF NodeTarget, EdgeTarget, Deleted, Touching

\* An edit leaves the save, its delta and the rows alone.
LEMMA EditStays ==
    ASSUME Edit
    PROVE  UNCHANGED <<saver, delta, rowNode, rowEdge, fold, rowCount, generation, unnamed>>
  BY DEF Edit, storeVars

\* A node that is added or changed is owed, or is overtaken.
LEMMA AddNodeOwes ==
    ASSUME OwedInv, NEW n \in GraphNodes, NEW v \in GraphValues, AddNode(n, v)
    PROVE  OwedParts'
  <1>1. /\ UNCHANGED <<saver, delta, rowNode, rowEdge, edge, duePairs>>
        /\ node' = [node EXCEPT ![n] = v]
        /\ dueNodes' = dueNodes \cup {n} /\ dueGone' = dueGone \ {n}
        /\ overtaken \subseteq overtaken'
        /\ saver \in {"read", "written"} => n \in overtaken'
    BY EditStays DEF AddNode, Overtake
  <1>2. v # 0
    BY DEF GraphValues
  <1>3. /\ \A k \in GraphNodes : NodeTarget(k)' = NodeTarget(k)
        /\ \A e \in GraphPairs : EdgeTarget(e)' = EdgeTarget(e)
    BY <1>1, TargetsStay
  <1> USE Ends DEF OwedInv, RowsTypeOK, DeltaTyped
  <1>4. MemoryClosed' /\ DuesFit'
    BY <1>1, <1>2 DEF MemoryClosed, DuesFit
  <1>5. DeltaFits'
    BY <1>1, <1>3 DEF DeltaFits
  <1>6. Owed'
    BY <1>1 DEF Owed
  <1>7. saver \notin {"read", "written"} => delta.nodes = {}
    BY DEF DeltaFits, NoDelta
  <1>8. NodeTarget(n) = 0 => n \notin delta.nodes
    BY DEF DeltaFits
  <1>9. LeftOwed'
    BY <1>1, <1>3, <1>7, <1>8 DEF LeftOwed, LeftNodes, LeftGone, LeftPairs
  <1>10. NoDanglingRow' /\ TargetClosed'
    BY <1>1, <1>3 DEF NoDanglingRow, Present, TargetClosed
  <1> QED
    BY <1>4, <1>5, <1>6, <1>9, <1>10 DEF OwedParts

\* So is an edge.
LEMMA AddEdgeOwes ==
    ASSUME OwedInv, NEW e \in GraphPairs, NEW v \in GraphValues, AddEdge(e, v)
    PROVE  OwedParts'
  <1>1. /\ UNCHANGED <<saver, delta, rowNode, rowEdge, node, dueNodes, dueGone>>
        /\ edge' = [edge EXCEPT ![e] = v]
        /\ duePairs' = duePairs \cup {e}
        /\ node[e[1]] # 0 /\ node[e[2]] # 0
        /\ overtaken \subseteq overtaken'
        /\ saver \in {"read", "written"} => e \in overtaken'
    BY EditStays DEF AddEdge, Overtake
  <1>2. v # 0
    BY DEF GraphValues
  <1>3. /\ \A k \in GraphNodes : NodeTarget(k)' = NodeTarget(k)
        /\ \A f \in GraphPairs : EdgeTarget(f)' = EdgeTarget(f)
    BY <1>1, TargetsStay
  <1> USE Ends DEF OwedInv, RowsTypeOK, DeltaTyped
  <1>4. MemoryClosed' /\ DuesFit'
    BY <1>1, <1>2 DEF MemoryClosed, DuesFit
  <1>5. DeltaFits'
    BY <1>1, <1>3 DEF DeltaFits
  <1>6. Owed'
    BY <1>1 DEF Owed
  <1>7. saver \notin {"read", "written"} => delta.pairs = {}
    BY DEF DeltaFits, NoDelta
  <1>8. LeftOwed'
    BY <1>1, <1>3, <1>7 DEF LeftOwed, LeftNodes, LeftGone, LeftPairs
  <1>9. NoDanglingRow' /\ TargetClosed'
    BY <1>1, <1>3 DEF NoDanglingRow, Present, TargetClosed
  <1> QED
    BY <1>4, <1>5, <1>6, <1>8, <1>9 DEF OwedParts

\* A removed node is owed as gone, unless its row is already going.
LEMMA RemoveNodesOwes ==
    ASSUME OwedInv, NEW S \in SUBSET GraphNodes, RemoveNodes(S)
    PROVE  OwedParts'
  <1>1. /\ UNCHANGED <<saver, delta, rowNode, rowEdge, overtaken>>
        /\ node' = [n \in GraphNodes |-> IF n \in S THEN 0 ELSE node[n]]
        /\ edge' = [e \in GraphPairs |-> IF e \in Touching(S) THEN 0 ELSE edge[e]]
        /\ dueNodes' = dueNodes \ S
        /\ dueGone' = dueGone \cup (S \cap Present(node))
        /\ duePairs' = duePairs \ Touching(S)
    BY EditStays DEF RemoveNodes
  <1>2. /\ \A k \in GraphNodes : NodeTarget(k)' = NodeTarget(k)
        /\ \A f \in GraphPairs : EdgeTarget(f)' = EdgeTarget(f)
    BY <1>1, TargetsStay
  <1>3. \A n \in GraphNodes : n \in Present(node) <=> node[n] # 0
    BY DEF OwedInv, RowsTypeOK, Present
  <1> USE Ends DEF OwedInv, RowsTypeOK, DeltaTyped
  <1>4. MemoryClosed'
    BY <1>1 DEF MemoryClosed, Touching
  <1>5. DuesFit'
    BY <1>1, <1>3 DEF DuesFit
  <1>6. DeltaFits'
    BY <1>1, <1>2 DEF DeltaFits
  <1>7. Owed'
    BY <1>1, <1>3 DEF Owed, DuesFit
  <1>8. \A n \in delta.gone : NodeTarget(n) = 0
    BY DEF DeltaFits
  <1>9. LeftOwed'
    BY <1>1, <1>2, <1>3, <1>8 DEF LeftOwed, LeftNodes, LeftGone, LeftPairs, DuesFit
  <1>10. NoDanglingRow' /\ TargetClosed'
    BY <1>1, <1>2 DEF NoDanglingRow, Present, TargetClosed
  <1> QED
    BY <1>4, <1>5, <1>6, <1>7, <1>9, <1>10 DEF OwedParts

\* A save that begins will settle all that is owed, and leave no edge dangling:
\* the edges of the memory graph have their ends, and those of a removed node
\* go with it.
LEMMA ReadOwes ==
    ASSUME OwedInv, ReadDelta
    PROVE  OwedParts'
  <1>1. /\ UNCHANGED <<node, edge, dueNodes, dueGone, duePairs, rowNode, rowEdge>>
        /\ saver = "idle" /\ saver' = "read"
    BY DEF ReadDelta, memVars, dueVars, storeVars
  <1> USE Ends DEF OwedInv, RowsTypeOK
  <1>2. /\ delta'.nodes = dueNodes /\ delta'.gone = dueGone
        /\ delta'.pairs = duePairs /\ delta'.gonePairs = duePairs
        /\ delta'.node = node /\ delta'.edge = edge
    BY DEF ReadDelta, Present, DuesFit
  <1>3. /\ \A n \in overtaken \cap GraphNodes : n \in overtaken' \/ n \in dueNodes \cup dueGone
        /\ \A e \in overtaken \cap GraphPairs : e \in overtaken' \/ e \in duePairs
    BY <1>2, RowConstants DEF ReadDelta
  <1>4. delta = NoDelta
    BY <1>1 DEF DeltaFits
  <1>5. \A n \in GraphNodes : NodeTarget(n) = rowNode[n]
    BY <1>1 DEF NodeTarget
  <1>6. \A e \in GraphPairs : EdgeTarget(e) = rowEdge[e]
    BY <1>1 DEF EdgeTarget
  <1>7. /\ LeftNodes = dueNodes /\ LeftGone = dueGone /\ LeftPairs = duePairs
    BY <1>4 DEF LeftNodes, LeftGone, LeftPairs, NoDelta
  <1>8. \A n \in GraphNodes : NodeTarget(n)' = IF n \in dueNodes THEN node[n]
                                               ELSE IF n \in dueGone THEN 0 ELSE rowNode[n]
    BY <1>1, <1>2 DEF NodeTarget
  <1>9. \A e \in GraphPairs : EdgeTarget(e)' = IF e \in duePairs THEN edge[e]
                                               ELSE IF e \in Touching(dueGone) THEN 0
                                               ELSE rowEdge[e]
    BY <1>1, <1>2 DEF EdgeTarget, Deleted
  <1>10. MemoryClosed' /\ DuesFit' /\ NoDanglingRow'
    BY <1>1 DEF MemoryClosed, DuesFit, NoDanglingRow, Present
  <1>11. DeltaFits'
    <2>1. \A n \in dueNodes : n \in GraphNodes /\ node[n] # 0
      BY DEF DuesFit
    <2>2. \A n \in dueGone : n \in GraphNodes /\ n \notin dueNodes
      BY DEF DuesFit
    <2>3. \A e \in duePairs : e \in GraphPairs /\ edge[e] # 0
      BY DEF DuesFit
    <2> QED
      BY <1>1, <1>2, <1>8, <1>9, <2>1, <2>2, <2>3 DEF DeltaFits
  <1>12. Owed'
    BY <1>1, <1>3, <1>5, <1>6, <1>7 DEF Owed, LeftOwed
  <1>13. \A n \in GraphNodes : /\ NodeTarget(n)' = node[n] \/ n \in overtaken'
                               /\ node[n] # 0 => NodeTarget(n)' # 0
    BY <1>3, <1>5, <1>7, <1>8 DEF LeftOwed, DuesFit
  <1>14. \A e \in GraphPairs : edge[e] # 0 => e \notin Touching(dueGone)
    BY DEF Touching, MemoryClosed, DuesFit
  <1>15. LeftOwed'
    BY <1>1, <1>3, <1>6, <1>7, <1>9, <1>13, <1>14 DEF LeftOwed
  <1>16. TargetClosed'
    <2> SUFFICES ASSUME NEW e \in GraphPairs, EdgeTarget(e)' # 0
                 PROVE  NodeTarget(e[1])' # 0 /\ NodeTarget(e[2])' # 0
      BY DEF TargetClosed
    <2>1. CASE e \in duePairs
      BY <1>13, <2>1 DEF DuesFit, MemoryClosed
    <2>2. CASE e \notin duePairs
      <3>1. rowEdge[e] # 0 /\ e[1] \notin dueGone /\ e[2] \notin dueGone
        BY <1>9, <2>2 DEF Touching
      <3>2. rowNode[e[1]] # 0 /\ rowNode[e[2]] # 0
        BY <3>1 DEF NoDanglingRow, Present
      <3> QED
        BY <1>8, <3>1, <3>2 DEF DuesFit
    <2> QED
      BY <2>1, <2>2
  <1> QED
    BY <1>10, <1>11, <1>12, <1>15, <1>16 DEF OwedParts

\* The transaction makes the rows what they were going to be.
LEMMA ApplyHits ==
    ASSUME OwedInv, ApplyDelta
    PROVE  /\ \A n \in GraphNodes : rowNode'[n] = NodeTarget(n) /\ NodeTarget(n)' = NodeTarget(n)
           /\ \A e \in GraphPairs : rowEdge'[e] = EdgeTarget(e) /\ EdgeTarget(e)' = EdgeTarget(e)
  <1>1. saver = "read" /\ saver' = "written"
    BY DEF ApplyDelta
  <1>2. \A n \in GraphNodes : rowNode'[n] = NodeTarget(n)
    BY <1>1 DEF ApplyDelta, NodeTarget
  <1>3. \A e \in GraphPairs : rowEdge'[e] = EdgeTarget(e)
    BY <1>1 DEF ApplyDelta, EdgeTarget
  <1> QED
    BY <1>1, <1>2, <1>3 DEF NodeTarget, EdgeTarget

LEMMA ApplyOwes ==
    ASSUME OwedInv, RowsTypeOK', ApplyDelta
    PROVE  OwedParts'
  <1>1. /\ UNCHANGED <<node, edge, dueNodes, dueGone, duePairs, delta, overtaken>>
        /\ saver' = "written"
    BY DEF ApplyDelta, memVars, dueVars
  <1>2. /\ \A n \in GraphNodes : rowNode'[n] = NodeTarget(n) /\ NodeTarget(n)' = NodeTarget(n)
        /\ \A e \in GraphPairs : rowEdge'[e] = EdgeTarget(e) /\ EdgeTarget(e)' = EdgeTarget(e)
    BY ApplyHits
  <1> USE <1>1, <1>2, Ends DEF OwedInv, RowsTypeOK, DeltaTyped
  <1>3. MemoryClosed' /\ DuesFit' /\ DeltaFits' /\ Owed'
    BY DEF MemoryClosed, DuesFit, DeltaFits, Owed
  <1>4. LeftOwed'
    BY DEF LeftOwed, LeftNodes, LeftGone, LeftPairs
  <1>5. TargetClosed'
    BY DEF TargetClosed
  <1>6. NoDanglingRow'
    BY DEF NoDanglingRow, TargetClosed, Present
  <1> QED
    BY <1>3, <1>4, <1>5, <1>6 DEF OwedParts

\* Forgetting the delta forgets what is settled.
LEMMA ClearOwes ==
    ASSUME OwedInv, ClearDelta
    PROVE  OwedParts'
  <1>1. /\ UNCHANGED <<node, edge, rowNode, rowEdge, overtaken>>
        /\ saver = "written" /\ saver' = "cleared" /\ delta' = NoDelta
        /\ dueNodes' = LeftNodes /\ dueGone' = LeftGone /\ duePairs' = LeftPairs
    BY DEF ClearDelta, ForgetDelta, memVars, storeVars, LeftNodes, LeftGone, LeftPairs
  <1>2. /\ \A n \in GraphNodes : NodeTarget(n)' = NodeTarget(n)
        /\ \A e \in GraphPairs : EdgeTarget(e)' = EdgeTarget(e)
    BY <1>1 DEF NodeTarget, EdgeTarget
  <1>3. LeftNodes' = LeftNodes /\ LeftGone' = LeftGone /\ LeftPairs' = LeftPairs
    BY <1>1 DEF LeftNodes, LeftGone, LeftPairs, NoDelta
  <1> USE <1>1, <1>2, <1>3, Ends DEF OwedInv, RowsTypeOK
  <1>4. MemoryClosed' /\ DuesFit' /\ DeltaFits' /\ Owed'
    BY DEF MemoryClosed, DuesFit, DeltaFits, Owed, NoDelta, LeftNodes, LeftGone, LeftPairs
  <1>5. LeftOwed'
    BY DEF LeftOwed
  <1>6. TargetClosed' /\ NoDanglingRow'
    BY DEF TargetClosed, NoDanglingRow, Present
  <1> QED
    BY <1>4, <1>5, <1>6 DEF OwedParts

\* Publishing changes nothing that is owed; a failed save owes what it did.
LEMMA EndOwes ==
    ASSUME OwedInv, PublishRows \/ SaveFails
    PROVE  OwedParts'
  <1>1. /\ UNCHANGED <<node, edge, rowNode, rowEdge, overtaken, dueNodes, dueGone, duePairs>>
        /\ saver' = "idle" /\ delta' = NoDelta
    BY DEF OwedInv, PublishRows, SaveFails, memVars, dueVars, storeVars, DeltaFits
  <1>2. /\ \A n \in GraphNodes : NodeTarget(n)' = rowNode[n]
        /\ \A e \in GraphPairs : EdgeTarget(e)' = rowEdge[e]
    BY <1>1 DEF NodeTarget, EdgeTarget
  <1>3. LeftNodes' = dueNodes /\ LeftGone' = dueGone /\ LeftPairs' = duePairs
    BY <1>1 DEF LeftNodes, LeftGone, LeftPairs, NoDelta
  <1> USE <1>1, <1>2, <1>3, Ends DEF OwedInv, RowsTypeOK
  <1>4. MemoryClosed' /\ DuesFit' /\ Owed' /\ NoDanglingRow'
    BY DEF MemoryClosed, DuesFit, Owed, NoDanglingRow, Present
  <1>5. DeltaFits'
    BY DEF DeltaFits, NoDelta
  <1>6. TargetClosed'
    BY DEF TargetClosed, NoDanglingRow, Present
  <1>7. LeftOwed'
    <2>1. CASE SaveFails
      BY <2>1 DEF SaveFails, Owed, LeftOwed
    <2>2. CASE PublishRows
      <3>1. saver = "cleared" /\ delta = NoDelta
        BY <2>2 DEF PublishRows, DeltaFits
      <3>2. /\ \A n \in GraphNodes : NodeTarget(n) = rowNode[n]
            /\ \A e \in GraphPairs : EdgeTarget(e) = rowEdge[e]
        BY <3>1 DEF NodeTarget, EdgeTarget
      <3>3. LeftNodes = dueNodes /\ LeftGone = dueGone /\ LeftPairs = duePairs
        BY <3>1 DEF LeftNodes, LeftGone, LeftPairs, NoDelta
      <3> QED
        BY <3>2, <3>3 DEF LeftOwed
    <2> QED
      BY <2>1, <2>2
  <1> QED
    BY <1>4, <1>5, <1>6, <1>7 DEF OwedParts

\* A process that loads the rows owes nothing.
LEMMA ReloadOwes ==
    ASSUME OwedInv, RowsTypeOK', ReloadRows
    PROVE  OwedParts'
  <1>1. /\ node' = rowNode' /\ edge' = rowEdge' /\ UNCHANGED <<rowNode, rowEdge>>
        /\ delta' = NoDelta /\ saver' = "idle"
        /\ dueNodes' = {} /\ dueGone' = {} /\ duePairs' = {}
    BY DEF ReloadRows, storeVars
  <1>2. NoDanglingRow'
    BY <1>1 DEF OwedInv, NoDanglingRow, Present
  <1>3. /\ \A n \in GraphNodes : NodeTarget(n)' = node'[n]
        /\ \A e \in GraphPairs : EdgeTarget(e)' = edge'[e]
    BY <1>1 DEF NodeTarget, EdgeTarget
  <1> USE <1>1, <1>2, <1>3, Ends DEF RowsTypeOK
  <1>4. MemoryClosed' /\ TargetClosed'
    BY DEF NoDanglingRow, Present, MemoryClosed, TargetClosed
  <1>5. DuesFit' /\ DeltaFits' /\ Owed' /\ LeftOwed'
    BY DEF NoDelta, DuesFit, DeltaFits, Owed, LeftOwed
  <1> QED
    BY <1>2, <1>4, <1>5 DEF OwedParts

\* Every step keeps what is owed accounted for.
LEMMA OwedStep == OwedInv /\ [RowsNext]_rowsVars => OwedInv'
  <1> SUFFICES ASSUME OwedInv, [RowsNext]_rowsVars PROVE OwedParts'
    BY RowsTyped DEF OwedInv, OwedParts
  <1>0. RowsTypeOK'
    BY RowsTyped DEF OwedInv
  <1>1. CASE UNCHANGED rowsVars
    <2>1. UNCHANGED <<rowNode, rowEdge, saver, delta, node, edge, dueNodes, dueGone, duePairs,
                      overtaken>>
      BY <1>1 DEF rowsVars
    <2>2. /\ \A n \in GraphNodes : NodeTarget(n)' = NodeTarget(n)
          /\ \A e \in GraphPairs : EdgeTarget(e)' = EdgeTarget(e)
      BY <2>1, TargetsStay
    <2> USE <2>1, <2>2, Ends DEF OwedInv, RowsTypeOK, DeltaTyped
    <2>3. MemoryClosed' /\ DuesFit' /\ DeltaFits' /\ Owed' /\ NoDanglingRow' /\ TargetClosed'
      BY DEF MemoryClosed, DuesFit, DeltaFits, Owed, NoDanglingRow, Present, TargetClosed
    <2>4. LeftOwed'
      BY DEF LeftOwed, LeftNodes, LeftGone, LeftPairs
    <2> QED
      BY <2>3, <2>4 DEF OwedParts
  <1> QED
    BY <1>0, <1>1, AddNodeOwes, AddEdgeOwes, RemoveNodesOwes, ReadOwes, ApplyOwes, ClearOwes,
       EndOwes, ReloadOwes DEF RowsNext

LEMMA OwedStart == RowsInit => OwedInv
  <1> SUFFICES ASSUME RowsInit PROVE OwedInv
    OBVIOUS
  <1>1. RowsTypeOK /\ DeltaTyped
    BY RowsTyped
  <1>2. /\ \A n \in GraphNodes : rowNode[n] = 1 /\ node[n] = 1 /\ NodeTarget(n) = 1
        /\ \A e \in GraphPairs : rowEdge[e] = 1 /\ edge[e] = 1 /\ EdgeTarget(e) = 1
    BY DEF RowsInit, NodeTarget, EdgeTarget
  <1>3. MemoryClosed /\ TargetClosed /\ NoDanglingRow /\ LeftOwed
    BY <1>1, <1>2, Ends
       DEF MemoryClosed, TargetClosed, NoDanglingRow, Present, LeftOwed, RowsTypeOK
  <1>4. DuesFit /\ DeltaFits /\ Owed
    BY DEF RowsInit, NoDelta, DuesFit, DeltaFits, Owed
  <1> QED
    BY <1>1, <1>3, <1>4 DEF OwedInv

LEMMA OwedAlways == RowsSpec => []OwedInv
  BY OwedStart, OwedStep, PTL DEF RowsSpec

\* No change of the graph is lost on the way to its rows, except one overtaken
\* between graph_delta and clear_graph_delta: for any graph, edits and deaths.
THEOREM WritesArrive == RowsSpec => []NoWriteLost
  <1>1. OwedInv => NoWriteLost
    <2> SUFFICES ASSUME OwedInv, saver = "idle", NothingDue
                 PROVE  /\ \A n \in GraphNodes : rowNode[n] = node[n] \/ n \in overtaken
                        /\ \A e \in Present(edge) : rowEdge[e] = edge[e] \/ e \in overtaken
      BY DEF NoWriteLost
    <2>1. LeftNodes = {} /\ LeftGone = {} /\ LeftPairs = {}
      BY DEF NothingDue, LeftNodes, LeftGone, LeftPairs
    <2>2. /\ \A n \in GraphNodes : NodeTarget(n) = rowNode[n]
          /\ \A e \in GraphPairs : EdgeTarget(e) = rowEdge[e]
      BY DEF NodeTarget, EdgeTarget
    <2> QED
      BY <2>1, <2>2 DEF OwedInv, LeftOwed, RowsTypeOK, Present
  <1> QED
    BY <1>1, OwedAlways, PTL

\* No row of an edge outlives the rows of its ends, at any point of any save:
\* for any graph, edits and deaths.
THEOREM NoRowDangles == RowsSpec => []NoDanglingRow
  <1>1. OwedInv => NoDanglingRow
    BY DEF OwedInv
  <1> QED
    BY <1>1, OwedAlways, PTL

(***************************************************************************)
(* The name of the rows: what a delta folds out and in, and what it counts.*)
(***************************************************************************)
\* Replacing the rows of the keys in G, and keeping N of them, is a fold.
LEMMA Refold ==
    ASSUME NEW P, NEW G, NEW N \in SUBSET G, NEW f, NEW g,
           \A x \in P \ G : g[x] = f[x]
    PROVE  LET R == {<<x, f[x]>> : x \in P}
               Out == {<<x, f[x]>> : x \in G \cap P}
               In == {<<x, g[x]>> : x \in N}
           IN  /\ Out \subseteq R
               /\ In \cap (R \ Out) = {}
               /\ (R \ Out) \cup In = {<<x, g[x]>> : x \in (P \ G) \cup N}
  <1> DEFINE R == {<<x, f[x]>> : x \in P}
             Out == {<<x, f[x]>> : x \in G \cap P}
             In == {<<x, g[x]>> : x \in N}
             Kept == {<<x, f[x]>> : x \in P \ G}
  <1>1. Out \subseteq R
    OBVIOUS
  <1>2. R \ Out = Kept
    OBVIOUS
  <1>3. In \cap Kept = {}
    OBVIOUS
  <1>4. Kept \cup In = {<<x, g[x]>> : x \in (P \ G) \cup N}
    OBVIOUS
  <1> QED
    BY <1>1, <1>2, <1>3, <1>4

\* Rows are counted by their keys.
LEMMA RowsCounted ==
    ASSUME NEW N, IsFiniteSet(N), NEW f
    PROVE  Cardinality({<<x, f[x]>> : x \in N}) = Cardinality(N)
  <1> DEFINE T == {<<x, f[x]>> : x \in N}
             g == [x \in N |-> <<x, f[x]>>]
  <1>0. g \in [N -> T]
    OBVIOUS
  <1>1. g \in Bijection(N, T)
    <2>1. \A a, b \in N : g[a] = g[b] => a = b
      OBVIOUS
    <2>2. \A t \in T : \E a \in N : g[a] = t
      OBVIOUS
    <2> HIDE DEF g, T
    <2> QED
      BY <1>0, <2>1, <2>2 DEF Bijection, Injection, Surjection, IsInjective
  <1>2. ExistsBijection(N, T)
    BY <1>1 DEF ExistsBijection
  <1> QED
    BY <1>2, FS_Bijection

LEMMA Recount ==
    ASSUME NEW P, IsFiniteSet(P), NEW G, IsFiniteSet(G), NEW N \in SUBSET G
    PROVE  /\ Cardinality((P \ G) \cup N) = Cardinality(P) + Cardinality(N) - Cardinality(G \cap P)
           /\ IsFiniteSet(N) /\ IsFiniteSet(G \cap P)
  <1>1. /\ IsFiniteSet(P \ G) /\ IsFiniteSet(N) /\ IsFiniteSet(G \cap P)
        /\ Cardinality(P \ G) = Cardinality(P) - Cardinality(P \cap G)
    BY FS_Difference, FS_Subset, FS_Intersection
  <1>2. (P \ G) \cap N = {} /\ P \cap G = G \cap P
    OBVIOUS
  <1>3. Cardinality((P \ G) \cup N)
            = Cardinality(P \ G) + Cardinality(N) - Cardinality((P \ G) \cap N)
    BY <1>1, FS_Union
  <1>4. Cardinality((P \ G) \cap N) = 0 /\ Cardinality(P \cap G) = Cardinality(G \cap P)
    BY <1>2, FS_EmptySet
  <1>5. /\ Cardinality(P) \in Nat /\ Cardinality(N) \in Nat /\ Cardinality(G \cap P) \in Nat
    BY <1>1, FS_CardinalityType
  <1> QED
    BY <1>1, <1>3, <1>4, <1>5

LEMMA GraphFinite ==
    ASSUME NEW N \in SUBSET GraphNodes, NEW E \in SUBSET GraphPairs
    PROVE  IsFiniteSet(N) /\ IsFiniteSet(E)
  <1>1. IsFiniteSet(GraphNodes \X GraphNodes)
    BY RowConstants, FS_Product
  <1> QED
    BY <1>1, RowConstants, FS_Subset

\* The transaction folds out the rows it replaces or deletes, folds in the ones
\* it writes, and counts both: the aggregates remain those of the rows.
LEMMA ApplyNames ==
    ASSUME OwedInv, RowsTypeOK', StoreNamed, ApplyDelta
    PROVE  StoreNamed'
  <1> DEFINE G == delta.nodes \cup delta.gone
             H == FoldedOut(delta)
             P == Present(rowNode)
             Q == Present(rowEdge)
             outN == {NodeRow(n) : n \in G \cap P}
             outE == {EdgeRow(e) : e \in H \cap Q}
             inN == {<<n, delta.node[n]>> : n \in delta.nodes}
             inE == {<<e, delta.edge[e]>> : e \in delta.pairs}
             A == {NodeRow(n) : n \in P}
             B == {EdgeRow(e) : e \in Q}
  <1> USE DEF OwedInv
  <1>1. /\ fold' = Xor(Xor(fold, outN \cup outE), inN \cup inE)
        /\ rowCount' = <<rowCount[1] + Cardinality(inN) - Cardinality(outN),
                         rowCount[2] + Cardinality(inE) - Cardinality(outE)>>
    <2>1. CASE P # {}
      BY <2>1 DEF ApplyDelta
    <2>2. CASE P = {}
      <3>1. Q = {}
        BY <2>2, Ends DEF NoDanglingRow, Present, RowsTypeOK
      <3>2. outN = {} /\ outE = {}
        BY <2>2, <3>1
      <3> HIDE DEF outN, outE
      <3> QED
        BY <2>2, <3>2 DEF ApplyDelta
    <2> QED
      BY <2>1, <2>2
  <1>2. /\ G \subseteq GraphNodes /\ H \subseteq GraphPairs
        /\ P \subseteq GraphNodes /\ Q \subseteq GraphPairs
        /\ delta.nodes \subseteq G /\ delta.pairs \subseteq H
    BY DEF DeltaTyped, RowsTypeOK, FoldedOut, Touching, Present
  <1>3. /\ \A n \in GraphNodes : rowNode'[n] = IF n \in delta.nodes THEN delta.node[n]
                                              ELSE IF n \in G THEN 0 ELSE rowNode[n]
        /\ \A e \in GraphPairs : rowEdge'[e] = IF e \in delta.pairs THEN delta.edge[e]
                                              ELSE IF e \in H THEN 0 ELSE rowEdge[e]
    BY DEF ApplyDelta, FoldedOut, Deleted
  <1>4. /\ \A n \in delta.nodes : rowNode'[n] # 0
        /\ \A e \in delta.pairs : rowEdge'[e] # 0
    BY <1>2, ApplyHits DEF DeltaFits
  <1>5. /\ Present(rowNode') = (P \ G) \cup delta.nodes
        /\ Present(rowEdge') = (Q \ H) \cup delta.pairs
    BY <1>2, <1>3, <1>4 DEF Present, RowsTypeOK
  <1>6. /\ inN = {<<n, rowNode'[n]>> : n \in delta.nodes}
        /\ inE = {<<e, rowEdge'[e]>> : e \in delta.pairs}
    BY <1>2, <1>3
  <1>7. /\ outN \subseteq A /\ inN \cap (A \ outN) = {}
        /\ (A \ outN) \cup inN = {<<n, rowNode'[n]>> : n \in Present(rowNode')}
    BY <1>2, <1>3, <1>5, <1>6, Refold DEF NodeRow
  <1>8. /\ outE \subseteq B /\ inE \cap (B \ outE) = {}
        /\ (B \ outE) \cup inE = {<<e, rowEdge'[e]>> : e \in Present(rowEdge')}
    BY <1>2, <1>3, <1>5, <1>6, Refold DEF EdgeRow
  <1>9. A \cap B = {} /\ inN \cap B = {} /\ inE \cap A = {} /\ inN \cap inE = {}
    BY <1>2, RowConstants DEF NodeRow, EdgeRow
  <1>10. fold = A \cup B
    BY DEF StoreNamed
  <1>11. fold' = {<<n, rowNode'[n]>> : n \in Present(rowNode')}
                    \cup {<<e, rowEdge'[e]>> : e \in Present(rowEdge')}
    <2>1. fold' = ((A \ outN) \cup inN) \cup ((B \ outE) \cup inE)
      <3> HIDE DEF A, B, outN, outE, inN, inE
      <3>0. /\ outN \in SUBSET A /\ outE \in SUBSET B
            /\ A \cap B = {} /\ inN \cap B = {} /\ inE \cap A = {} /\ inN \cap inE = {}
            /\ inN \cap (A \ outN) = {} /\ inE \cap (B \ outE) = {}
        BY <1>7, <1>8, <1>9
      <3>1. Xor(Xor(A \cup B, outN \cup outE), inN \cup inE)
                = ((A \ outN) \cup inN) \cup ((B \ outE) \cup inE)
        <4>1. Xor(A \cup B, outN \cup outE) = (A \ outN) \cup (B \ outE)
          BY <3>0 DEF Xor
        <4>2. (inN \cup inE) \cap ((A \ outN) \cup (B \ outE)) = {}
          BY <3>0
        <4> QED
          BY <4>1, <4>2 DEF Xor
      <3>2. fold' = Xor(Xor(A \cup B, outN \cup outE), inN \cup inE)
        BY <1>1, <1>10
      <3> QED
        BY <3>1, <3>2
    <2> QED
      BY <1>7, <1>8, <2>1
  <1>12. /\ Cardinality(Present(rowNode')) = Cardinality(P) + Cardinality(inN) - Cardinality(outN)
         /\ Cardinality(Present(rowEdge')) = Cardinality(Q) + Cardinality(inE) - Cardinality(outE)
    <2>1. IsFiniteSet(P) /\ IsFiniteSet(Q) /\ IsFiniteSet(G) /\ IsFiniteSet(H)
      BY <1>2, GraphFinite
    <2>2. /\ IsFiniteSet(delta.nodes) /\ IsFiniteSet(G \cap P)
          /\ IsFiniteSet(delta.pairs) /\ IsFiniteSet(H \cap Q)
          /\ Cardinality(Present(rowNode'))
                = Cardinality(P) + Cardinality(delta.nodes) - Cardinality(G \cap P)
          /\ Cardinality(Present(rowEdge'))
                = Cardinality(Q) + Cardinality(delta.pairs) - Cardinality(H \cap Q)
      <3> HIDE DEF G, H, P, Q
      <3> QED
        BY <1>2, <1>5, <2>1, Recount
    <2>3. /\ Cardinality(inN) = Cardinality(delta.nodes)
          /\ Cardinality(inE) = Cardinality(delta.pairs)
          /\ Cardinality(outN) = Cardinality(G \cap P)
          /\ Cardinality(outE) = Cardinality(H \cap Q)
      BY <2>2, RowsCounted DEF NodeRow, EdgeRow
    <2> QED
      BY <2>2, <2>3
  <1> QED
    BY <1>1, <1>11, <1>12 DEF StoreNamed, NodeRow, EdgeRow

\* Every step keeps the aggregates those of the rows, and the generation their name.
LEMMA NameStep == NameInv /\ [RowsNext]_rowsVars => NameInv'
  <1> SUFFICES ASSUME NameInv, [RowsNext]_rowsVars PROVE NameInv'
    OBVIOUS
  <1>0. OwedInv' /\ RowsTypeOK' /\ RowsTypeOK
    BY OwedStep DEF NameInv, OwedInv
  <1>1. ASSUME UNCHANGED <<rowNode, rowEdge, fold, rowCount>> PROVE StoreNamed' /\ RowsName' = RowsName
    BY <1>1 DEF NameInv, StoreNamed, NodeRow, EdgeRow, RowsName
  <1>2. ASSUME UNCHANGED <<rowNode, rowEdge, fold, rowCount, generation, saver, unnamed>>
        PROVE  NameInv'
    BY <1>0, <1>1, <1>2 DEF NameInv, GenerationNamed
  <1>3. CASE ApplyDelta
    <2>1. saver' = "written"
      BY <1>3 DEF ApplyDelta
    <2> QED
      BY <1>0, <1>3, <2>1, ApplyNames DEF NameInv, GenerationNamed
  <1>4. CASE ReadDelta
    BY <1>0, <1>1, <1>4 DEF NameInv, GenerationNamed, ReadDelta, storeVars
  <1>5. CASE ClearDelta
    BY <1>0, <1>1, <1>5 DEF NameInv, GenerationNamed, ClearDelta, storeVars
  <1>6. CASE PublishRows
    BY <1>0, <1>1, <1>6 DEF NameInv, GenerationNamed, PublishRows, storeVars
  <1>7. CASE SaveFails
    BY <1>0, <1>1, <1>7 DEF NameInv, GenerationNamed, SaveFails, storeVars
  <1>8. CASE ReloadRows
    <2>1. saver \in {"idle", "read", "written", "cleared"}
      BY <1>0 DEF RowsTypeOK
    <2> QED
      BY <1>0, <1>1, <1>8, <2>1 DEF NameInv, GenerationNamed, ReloadRows, storeVars
  <1>9. CASE UNCHANGED rowsVars
    BY <1>2, <1>9 DEF rowsVars
  <1>10. ASSUME Edit PROVE NameInv'
    BY <1>2, <1>10, EditStays
  <1> QED
    BY <1>3, <1>4, <1>5, <1>6, <1>7, <1>8, <1>9, <1>10 DEF RowsNext, AddNode, AddEdge, RemoveNodes

LEMMA NameStart == RowsInit => NameInv
  <1> SUFFICES ASSUME RowsInit PROVE NameInv
    OBVIOUS
  <1>1. Present(rowNode) = GraphNodes /\ Present(rowEdge) = GraphPairs
    BY DEF RowsInit, Present
  <1>2. StoreNamed
    BY <1>1 DEF RowsInit, StoreNamed
  <1>3. GenerationNamed
    BY DEF RowsInit, GenerationNamed
  <1> QED
    BY <1>2, <1>3, OwedStart DEF NameInv

\* The published generation is the name of what the rows hold, whatever deltas
\* were applied, failed or cut short: for any graph, edits and deaths.
THEOREM GenerationsNameRows == RowsSpec => []GenerationNamesRows
  <1>1. NameInv => GenerationNamesRows
    BY DEF NameInv, StoreNamed, GenerationNamed, GenerationNamesRows, RowsName
  <1> QED
    BY <1>1, NameStart, NameStep, PTL DEF RowsSpec
=============================================================================
