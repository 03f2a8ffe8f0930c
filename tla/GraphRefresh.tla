---------------------------- MODULE GraphRefresh ----------------------------
(***************************************************************************)
(* How a graph generation reaches the replicas that serve it (the file     *)
(* backend of persistence/graph_store.py, sync/graph_events.py and the     *)
(* _GraphRefresher of cli.py).  The indexer replaces the graph file, then  *)
(* the record that describes it, then announces it to whoever listens.  A  *)
(* replica loads the file when it starts, notes the generation and later   *)
(* remembers the stamp of the file; from then on an announcement or a poll *)
(* makes it compare stamps and load again.                                 *)
(***************************************************************************)
EXTENDS Naturals

CONSTANTS Replicas,
          MaxPublications,  \* bound: generations published
          MaxRefreshFaults  \* bound: failed loads, restarts, writer deaths

ASSUME RefreshConstants == MaxPublications \in Nat /\ MaxRefreshFaults \in Nat

VARIABLES
    graphFile,      \* the generation in graph.latest.json.zst
    graphMeta,      \* the generation graph.latest.meta.json describes
    publisher,      \* "idle", "replaced", "recorded"
    phase,          \* of a replica: "down", "loaded", "noted", "wait", "look", "load", "note"
    serving,        \* the generation in its memory
    label,          \* loaded_graph_generation, 0 for none
    seen,           \* _seen of the refresher
    wake,           \* the event of the refresher
    missed,         \* history: a change the replica had no way to notice
    refreshFaults

refreshVars == <<graphFile, graphMeta, publisher, phase, serving, label, seen, wake, missed,
                 refreshFaults>>
fileVars == <<graphFile, graphMeta, publisher>>

Generations == 0 .. MaxPublications

RefreshInit == /\ graphFile = 0 /\ graphMeta = 0 /\ publisher = "idle"
               /\ phase = [r \in Replicas |-> "down"]
               /\ serving = [r \in Replicas |-> 0]
               /\ label = [r \in Replicas |-> 0]
               /\ seen = [r \in Replicas |-> 0]
               /\ wake = [r \in Replicas |-> FALSE]
               /\ missed = [r \in Replicas |-> FALSE]
               /\ refreshFaults = 0

RefreshFault == refreshFaults < MaxRefreshFaults /\ refreshFaults' = refreshFaults + 1

(***************************************************************************)
(* _save_file of the indexer.                                              *)
(***************************************************************************)
\* A replica that has loaded and not yet taken its stamp will never notice.
ReplaceGraph == /\ publisher = "idle" /\ graphFile < MaxPublications
                /\ graphFile' = graphFile + 1
                /\ publisher' = "replaced"
                /\ missed' = [r \in Replicas |-> missed[r] \/ phase[r] \in {"loaded", "noted"}]
                /\ UNCHANGED <<graphMeta, phase, serving, label, seen, wake, refreshFaults>>

ReplaceMeta == /\ publisher = "replaced"
               /\ graphMeta' = graphFile
               /\ publisher' = "recorded"
               /\ UNCHANGED <<graphFile, phase, serving, label, seen, wake, missed, refreshFaults>>

\* At most once: any subset of the listeners hears it.
Announce == /\ publisher = "recorded"
            /\ publisher' = "idle"
            /\ \E heard \in SUBSET {r \in Replicas : phase[r] \notin {"down", "loaded", "noted"}} :
                  wake' = [r \in Replicas |-> wake[r] \/ r \in heard]
            /\ UNCHANGED <<graphFile, graphMeta, phase, serving, label, seen, missed,
                           refreshFaults>>

WriterDies == /\ publisher # "idle" /\ RefreshFault
              /\ publisher' = "idle"
              /\ UNCHANGED <<graphFile, graphMeta, phase, serving, label, seen, wake, missed>>

(***************************************************************************)
(* A replica.                                                              *)
(***************************************************************************)
\* published_generation: the record counts only if it describes the file.
PublishedGeneration == IF graphMeta = graphFile THEN graphMeta ELSE 0

LoadFile(r, next) == /\ serving' = [serving EXCEPT ![r] = graphFile]
                     /\ phase' = [phase EXCEPT ![r] = next]
                     /\ missed' = [missed EXCEPT ![r] = FALSE]

Boot(r) == /\ phase[r] = "down"
           /\ LoadFile(r, "loaded")
           /\ UNCHANGED <<fileVars, label, seen, wake, refreshFaults>>

NoteGeneration(r) == /\ phase[r] \in {"loaded", "note"}
                     /\ label' = [label EXCEPT ![r] = PublishedGeneration]
                     /\ phase' = [phase EXCEPT ![r] = IF @ = "loaded" THEN "noted" ELSE "wait"]
                     /\ UNCHANGED <<fileVars, serving, seen, wake, missed, refreshFaults>>

StartRefresher(r) == /\ phase[r] = "noted"
                     /\ seen' = [seen EXCEPT ![r] = graphFile]
                     /\ phase' = [phase EXCEPT ![r] = "wait"]
                     /\ UNCHANGED <<fileVars, serving, label, wake, missed, refreshFaults>>

\* Woken by the event or by the interval; the event is cleared before looking.
WakeUp(r) == /\ phase[r] = "wait"
             /\ wake' = [wake EXCEPT ![r] = FALSE]
             /\ phase' = [phase EXCEPT ![r] = "look"]
             /\ UNCHANGED <<fileVars, serving, label, seen, missed, refreshFaults>>

\* Mutant: only an announcement makes the replica look.
WakeUpOnEvent(r) == wake[r] /\ WakeUp(r)

Waking(r) == WakeUp(r)

CompareStamp(r) == /\ phase[r] = "look"
                   /\ seen' = [seen EXCEPT ![r] = graphFile]
                   /\ phase' = [phase EXCEPT ![r] = IF graphFile = seen[r] THEN "wait" ELSE "load"]
                   /\ UNCHANGED <<fileVars, serving, label, wake, missed, refreshFaults>>

ReloadGraph(r) == /\ phase[r] = "load"
                  /\ LoadFile(r, "note")
                  /\ UNCHANGED <<fileVars, label, seen, wake, refreshFaults>>

\* The stamp is remembered already: what the log calls a retry needs another
\* publication.
ReloadFails(r) == /\ phase[r] = "load" /\ RefreshFault
                  /\ phase' = [phase EXCEPT ![r] = "wait"]
                  /\ missed' = [missed EXCEPT ![r] = TRUE]
                  /\ UNCHANGED <<fileVars, serving, label, seen, wake>>

ReplicaStops(r) == /\ phase[r] # "down" /\ RefreshFault
                   /\ phase' = [phase EXCEPT ![r] = "down"]
                   /\ wake' = [wake EXCEPT ![r] = FALSE]
                   /\ UNCHANGED <<fileVars, serving, label, seen, missed>>

ReplicaStep(r) == \/ Boot(r) \/ NoteGeneration(r) \/ StartRefresher(r) \/ Waking(r)
                  \/ CompareStamp(r) \/ ReloadGraph(r)

RefreshNext == \/ ReplaceGraph \/ ReplaceMeta \/ Announce \/ WriterDies
               \/ \E r \in Replicas : ReplicaStep(r) \/ ReloadFails(r) \/ ReplicaStops(r)

RefreshSpec == RefreshInit /\ [][RefreshNext]_refreshVars

(***************************************************************************)
(* Properties.                                                             *)
(***************************************************************************)

\* Every variable has its type.
RefreshTypeOK ==
    /\ graphFile \in Generations /\ graphMeta \in Generations
    /\ publisher \in {"idle", "replaced", "recorded"}
    /\ phase \in [Replicas -> {"down", "loaded", "noted", "wait", "look", "load", "note"}]
    /\ serving \in [Replicas -> Generations] /\ label \in [Replicas -> Generations]
    /\ seen \in [Replicas -> Generations] /\ wake \in [Replicas -> BOOLEAN]
    /\ missed \in [Replicas -> BOOLEAN] /\ refreshFaults \in 0 .. MaxRefreshFaults

\* The stamp a replica remembers is never newer than the graph it serves, except
\* between the comparison and the load: otherwise it would take an old graph for
\* the published one and never look again.  What it has missed is named.
NotedIsServed == \A r \in Replicas :
    phase[r] \in {"wait", "look", "note"} => seen[r] <= serving[r] \/ missed[r]

\* No load, retry or restart brings an older generation back than the replica
\* has served before.
NeverOlder == [][\A r \in Replicas : serving[r] <= serving'[r]]_refreshVars

\* Every replica comes to serve the newest generation even when no announcement
\* reaches it and however publications fall between its steps, unless the load
\* of this very generation failed or it was published while the replica started.
ReplicasCatchUp == \A r \in Replicas : []<>(serving[r] = graphFile \/ missed[r])
=============================================================================
