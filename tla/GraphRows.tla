----------------------------- MODULE GraphRows -----------------------------
(***************************************************************************)
(* The graph of an indexer in memory (graph/simple.py) and as rows of the  *)
(* state store (persistence/graph_rows.py).  The memory graph keeps what   *)
(* the rows still owe it as three pending sets.  A save reads them, writes  *)
(* the difference in one transaction, forgets what it wrote and publishes  *)
(* the name of the result, which is computed from aggregates the deltas    *)
(* maintain.  Other threads go on changing the graph between these steps.  *)
(* Value 0 stands for no node and no edge.                                 *)
(***************************************************************************)
EXTENDS Naturals, FiniteSets

CONSTANTS GraphNodes,  \* node ids
          GraphPairs,  \* endpoint pairs that may carry edges
          SerialWriters, \* every change waits for a save to end
          MaxEdits,    \* bound: changes of the memory graph
          MaxReloads   \* bound: processes that die and load the rows

ASSUME RowConstants == /\ IsFiniteSet(GraphNodes)
                       /\ GraphPairs \subseteq GraphNodes \X GraphNodes
                       /\ GraphNodes \cap GraphPairs = {}
                       /\ SerialWriters \in BOOLEAN
                       /\ MaxEdits \in Nat /\ MaxReloads \in Nat

VARIABLES
    node, edge,                \* _nodes, _edges of the memory graph
    dueNodes, dueGone,         \* _pending_nodes, _pending_removed_nodes
    duePairs,                  \* _pending_pairs; nothing calls remove_edges_from,
                               \* so _pending_removed_pairs stays empty
    saver, delta,              \* where the save is, and the delta it has read
    rowNode, rowEdge,          \* graph_nodes, graph_edges
    fold,                      \* node_fold and edge_fold: what was folded in
    rowCount,                  \* nodes and edges of graph_generations
    generation,                \* the published generation_id
    overtaken,                 \* history: written again while being saved
    unnamed,                   \* history: a save died before its publish
    edits, reloads

memVars == <<node, edge>>
dueVars == <<dueNodes, dueGone, duePairs>>
storeVars == <<rowNode, rowEdge, fold, rowCount>>
rowsVars == <<node, edge, dueNodes, dueGone, duePairs, saver, delta, rowNode,
              rowEdge, fold, rowCount, generation, overtaken, unnamed, edits, reloads>>

GraphValues == {1, 2}
NoValues(S) == [x \in S |-> 0]
Present(f) == {x \in DOMAIN f : f[x] # 0}
Touching(nodes) == {e \in GraphPairs : e[1] \in nodes \/ e[2] \in nodes}
NoDelta == [nodes |-> {}, gone |-> {}, pairs |-> {}, gonePairs |-> {},
            node |-> NoValues(GraphNodes), edge |-> NoValues(GraphPairs)]

\* A row as it enters the fold: its key and its content.
NodeRow(n) == <<n, rowNode[n]>>
EdgeRow(e) == <<e, rowEdge[e]>>
Xor(A, B) == (A \ B) \cup (B \ A)
RowsName == [fold |-> fold, count |-> rowCount]

\* The indexer has loaded a stored graph, which owes nothing.
RowsInit == /\ rowNode = [n \in GraphNodes |-> 1] /\ rowEdge = [e \in GraphPairs |-> 1]
            /\ fold = {NodeRow(n) : n \in GraphNodes} \cup {EdgeRow(e) : e \in GraphPairs}
            /\ rowCount = <<Cardinality(GraphNodes), Cardinality(GraphPairs)>>
            /\ generation = RowsName
            /\ node = rowNode /\ edge = rowEdge
            /\ dueNodes = {} /\ dueGone = {} /\ duePairs = {}
            /\ saver = "idle" /\ delta = NoDelta
            /\ overtaken = {} /\ unnamed = FALSE /\ edits = 0 /\ reloads = 0

(***************************************************************************)
(* Changes of the memory graph.                                            *)
(***************************************************************************)
Edit == /\ SerialWriters => saver = "idle"
        /\ edits < MaxEdits /\ edits' = edits + 1
        /\ UNCHANGED <<saver, delta, storeVars, generation, unnamed, reloads>>

\* What a save has read and not yet forgotten is overtaken by a new write, until
\* another save reads it.
Overtake(x) == overtaken' = IF saver \in {"read", "written"} THEN overtaken \cup {x} ELSE overtaken

AddNode(n, v) == /\ Edit
                 /\ node' = [node EXCEPT ![n] = v]
                 /\ dueNodes' = dueNodes \cup {n}
                 /\ dueGone' = dueGone \ {n}
                 /\ Overtake(n)
                 /\ UNCHANGED <<edge, duePairs>>

\* add_edge, and touch_edge after a change in place; both ends are nodes.
AddEdge(e, v) == /\ Edit
                 /\ node[e[1]] # 0 /\ node[e[2]] # 0
                 /\ edge' = [edge EXCEPT ![e] = v]
                 /\ duePairs' = duePairs \cup {e}
                 /\ Overtake(e)
                 /\ UNCHANGED <<node, dueNodes, dueGone>>

\* The edges of a removed node go with it and are not recorded: the writer is
\* to cascade.
RemoveNodes(S) == /\ Edit
                  /\ node' = [n \in GraphNodes |-> IF n \in S THEN 0 ELSE node[n]]
                  /\ edge' = [e \in GraphPairs |-> IF e \in Touching(S) THEN 0 ELSE edge[e]]
                  /\ dueNodes' = dueNodes \ S
                  /\ dueGone' = dueGone \cup (S \cap Present(node))
                  /\ duePairs' = duePairs \ Touching(S)
                  /\ UNCHANGED overtaken

(***************************************************************************)
(* A save: graph_delta, apply_delta, clear_graph_delta, publish.           *)
(***************************************************************************)
ReadDelta == /\ saver = "idle"
             /\ delta' = [nodes |-> dueNodes \cap Present(node), gone |-> dueGone,
                          pairs |-> duePairs \cap Present(edge),
                          gonePairs |-> duePairs, node |-> node, edge |-> edge]
             /\ overtaken' = overtaken \ (delta'.nodes \cup delta'.gone \cup delta'.gonePairs)
             /\ saver' = "read"
             /\ UNCHANGED <<memVars, dueVars, storeVars, generation, unnamed, edits, reloads>>

\* Mutant: the digests of the edges at removed nodes are not read.
PairDigests(d) == d.pairs \cup d.gonePairs

\* The edge rows _digests_for folds out: replaced pairs, edges at removed nodes.
FoldedOut(d) == d.pairs \cup d.gonePairs \cup Touching(d.gone)

\* Mutant: the edges at removed nodes are not deleted.
PairRows(d) == d.pairs \cup d.gonePairs

\* The edge rows the transaction deletes.
Deleted(d) == d.pairs \cup d.gonePairs \cup Touching(d.gone)

\* An empty store has nothing to delete and nothing to fold out.
ApplyDelta ==
    /\ saver = "read"
    /\ LET d == delta
           touched == d.nodes \cup d.gone
           fresh == Present(rowNode) = {}
           out == IF fresh THEN {} ELSE {NodeRow(n) : n \in touched \cap Present(rowNode)}
           edgeOut == IF fresh THEN {} ELSE {EdgeRow(e) : e \in FoldedOut(d) \cap Present(rowEdge)}
           in == {<<n, d.node[n]>> : n \in d.nodes}
           edgeIn == {<<e, d.edge[e]>> : e \in d.pairs}
       IN  /\ rowNode' = [n \in GraphNodes |-> IF n \in d.nodes THEN d.node[n]
                                               ELSE IF n \in d.gone THEN 0 ELSE rowNode[n]]
           /\ rowEdge' = [e \in GraphPairs |-> IF e \in d.pairs THEN d.edge[e]
                                               ELSE IF e \in Deleted(d) THEN 0 ELSE rowEdge[e]]
           /\ fold' = Xor(Xor(fold, out \cup edgeOut), in \cup edgeIn)
           /\ rowCount' = <<rowCount[1] + Cardinality(in) - Cardinality(out),
                            rowCount[2] + Cardinality(edgeIn) - Cardinality(edgeOut)>>
    /\ saver' = "written"
    /\ UNCHANGED <<memVars, dueVars, delta, generation, overtaken, unnamed, edits, reloads>>

\* Mutant: everything pending is forgotten, not what was written.
ForgetAllDue == /\ dueNodes' = {} /\ dueGone' = {} /\ duePairs' = {}

ForgetDelta == /\ dueNodes' = dueNodes \ delta.nodes
               /\ dueGone' = dueGone \ delta.gone
               /\ duePairs' = duePairs \ delta.pairs

ClearDelta == /\ saver = "written"
              /\ ForgetDelta
              /\ delta' = NoDelta
              /\ saver' = "cleared"
              /\ UNCHANGED <<memVars, storeVars, generation, overtaken, unnamed, edits, reloads>>

PublishRows == /\ saver = "cleared"
               /\ generation' = RowsName
               /\ unnamed' = FALSE
               /\ saver' = "idle"
               /\ UNCHANGED <<memVars, dueVars, delta, storeVars, overtaken, edits, reloads>>

\* The transaction fails: nothing is forgotten, a later save tries again.
SaveFails == /\ saver = "read" /\ reloads < MaxReloads
             /\ saver' = "idle" /\ delta' = NoDelta
             /\ reloads' = reloads + 1
             /\ UNCHANGED <<memVars, dueVars, storeVars, generation, overtaken, unnamed, edits>>

\* The process dies; the next one loads the rows and owes nothing.
ReloadRows == /\ reloads < MaxReloads /\ reloads' = reloads + 1
              /\ node' = rowNode /\ edge' = rowEdge
              /\ dueNodes' = {} /\ dueGone' = {} /\ duePairs' = {}
              /\ saver' = "idle" /\ delta' = NoDelta
              /\ overtaken' = {}
              /\ unnamed' = (unnamed \/ saver \in {"written", "cleared"})
              /\ UNCHANGED <<storeVars, generation, edits>>

RowsNext == \/ \E n \in GraphNodes, v \in GraphValues : AddNode(n, v)
            \/ \E e \in GraphPairs, v \in GraphValues : AddEdge(e, v)
            \/ \E S \in SUBSET GraphNodes : S # {} /\ RemoveNodes(S)
            \/ ReadDelta \/ ApplyDelta \/ ClearDelta \/ PublishRows \/ SaveFails \/ ReloadRows

RowsSpec == RowsInit /\ [][RowsNext]_rowsVars

(***************************************************************************)
(* Properties.                                                             *)
(***************************************************************************)

\* Every variable has its type.
RowsTypeOK ==
    /\ node \in [GraphNodes -> {0} \cup GraphValues]
    /\ edge \in [GraphPairs -> {0} \cup GraphValues]
    /\ rowNode \in [GraphNodes -> {0} \cup GraphValues]
    /\ rowEdge \in [GraphPairs -> {0} \cup GraphValues]
    /\ dueNodes \subseteq GraphNodes /\ dueGone \subseteq GraphNodes
    /\ duePairs \subseteq GraphPairs
    /\ saver \in {"idle", "read", "written", "cleared"}
    /\ overtaken \subseteq GraphNodes \cup GraphPairs
    /\ unnamed \in BOOLEAN
    /\ edits \in 0 .. MaxEdits /\ reloads \in 0 .. MaxReloads

NothingDue == dueNodes = {} /\ dueGone = {} /\ duePairs = {}

\* Nothing written to the graph is lost on the way to the rows: when no save is
\* running and none is owed, every node is as in memory and every edge of the
\* memory graph has its row, whatever failed or was removed meanwhile.  The
\* exception is what was written again between graph_delta and
\* clear_graph_delta, which is forgotten with the older version.
NoWriteLost == saver = "idle" /\ NothingDue =>
    /\ \A n \in GraphNodes : rowNode[n] = node[n] \/ n \in overtaken
    /\ \A e \in Present(edge) : rowEdge[e] = edge[e] \/ e \in overtaken

\* No row of an edge outlives the row of one of its ends ("a dangling edge would
\* show up in a traversal as a neighbour with no attributes").
NoDanglingRow == \A e \in Present(rowEdge) : rowNode[e[1]] # 0 /\ rowNode[e[2]] # 0

\* The published generation is the name of what the rows hold, although it is
\* computed from aggregates that deltas maintain, an edge can leave for two
\* reasons and a removed node takes edges with it the delta does not name.  The
\* exception is a save that died between its transaction and its publication.
GenerationNamesRows == saver \in {"idle", "read"} /\ ~unnamed =>
    generation = [fold |-> {NodeRow(n) : n \in Present(rowNode)}
                               \cup {EdgeRow(e) : e \in Present(rowEdge)},
                  count |-> <<Cardinality(Present(rowNode)), Cardinality(Present(rowEdge))>>]

\* What graph_rows.py says a persisted graph has to do: once every change is
\* written, the rows hold the edges of the memory graph and no others.
RowsMatchGraph == saver = "idle" /\ NothingDue /\ overtaken = {} => rowNode = node /\ rowEdge = edge
=============================================================================
