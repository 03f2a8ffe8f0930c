----------------------------- MODULE SyncCommit ----------------------------
(***************************************************************************)
(* The commit protocol of one source: SyncEngine.sync_source and           *)
(* _finalize_index_state of sync/engine.py, with the checkpoints inside a  *)
(* pass, the resume marker of full passes and the queue's redelivery of a  *)
(* full task.  The writer lock is held throughout, so passes do not        *)
(* overlap; what interleaves with a pass is the user editing files and the *)
(* process dying, or the pass failing, between any two durable writes.     *)
(*                                                                         *)
(* A row, a graph node or a manifest entry is represented by what it was   *)
(* made from: the content version of the file and, for rows and nodes, the *)
(* source configuration (globs, chunking) as well.                         *)
(***************************************************************************)
EXTENDS Naturals, FiniteSets

CONSTANTS Files,        \* the items of the source
          Configs,      \* source configurations (source_fingerprint values)
          None,         \* no row, no node, no manifest entry, no fingerprint
          MaxEdits,     \* bound: file edits
          MaxDeaths,    \* bound: passes that fail, processes killed or stopped
          FullDies,     \* may a full pass die before its first checkpoint?
          Reverts,      \* may an edit bring back an earlier content?
          MidEdit       \* may the config change while a pass lies interrupted?

ASSUME CommitConstants == /\ MaxEdits \in Nat /\ MaxDeaths \in Nat
                          /\ {FullDies, Reverts, MidEdit} \subseteq BOOLEAN
                          /\ Configs # {}
                          /\ None \notin Configs \cup Nat \cup (Nat \X Configs)

VARIABLES
    content,      \* [Files -> Versions]: what is on disk in the source
    rows,         \* artifacts and chunks tables
    published,    \* the graph generation in the graph store
    manifest,     \* the manifests table: file -> sha256
    fingerprint,  \* sync_fingerprints, scope of the source
    scope,        \* sync_fingerprints, FULL_RESUME_SCOPE of the source
    config,       \* the configuration this process runs with
    graph,        \* graph_builder.graph, in memory
    dirty,        \* _graph_dirty: the graph holds unpublished items
    mani,         \* the pass's manifest, in memory
    pc, mode, todo, indexed,   \* the pass: where, how, what is left
    pass,         \* "plain", "task" (a queued full task) or "resumed"
    task,         \* is a full task outstanding in the queue?
    clean,        \* history: no edit since the pass began
    interrupted,  \* history: the last pass did not end
    edits, deaths

disk == <<rows, published, manifest, fingerprint, scope>>
ram == <<config, graph, dirty>>
job == <<mode, pass, task>>
hist == <<clean, interrupted, edits, deaths>>
vars == <<content, rows, published, manifest, fingerprint, scope, config, graph,
          dirty, mani, pc, mode, todo, indexed, pass, task, clean, interrupted, edits,
          deaths>>

Versions == 0 .. MaxEdits
Made == (Versions \X Configs) \cup {None}
Nothing == [f \in Files |-> None]

Init == /\ content = [f \in Files |-> 0]
        /\ rows = Nothing /\ published = Nothing /\ manifest = Nothing
        /\ fingerprint = None /\ scope = "none"
        /\ config \in Configs
        /\ graph = Nothing /\ dirty = FALSE /\ mani = Nothing
        /\ pc = "idle" /\ mode = "incremental" /\ todo = {} /\ indexed = FALSE
        /\ pass = "plain" /\ task = FALSE
        /\ clean = FALSE /\ interrupted = FALSE /\ edits = 0 /\ deaths = 0

(***************************************************************************)
(* Beginning a pass.  A changed fingerprint escalates an incremental or    *)
(* repair pass to a full one, unless the pass resumes a full task.         *)
(***************************************************************************)
\* Mutant: a changed configuration goes unnoticed.
EscalatedNever(m) == m

Escalated(m) ==
    IF fingerprint # None /\ fingerprint # config THEN "full" ELSE m

Begin(m, kind) ==
    /\ pc = "idle"
    /\ mode' = m
    /\ pass' = kind
    /\ pc' = IF m = "full" THEN "starting" ELSE "items"
    /\ mani' = manifest
    /\ todo' = Files
    /\ indexed' = FALSE
    /\ clean' = TRUE
    /\ UNCHANGED <<content, disk, ram, interrupted, edits, deaths>>

SyncSource(m) == Begin(Escalated(m), "plain") /\ UNCHANGED task

\* startup: repair if the tables have an artifact the graph does not know.
GraphGap == \E f \in Files : rows[f] # None /\ graph[f] = None
Startup == SyncSource(IF GraphGap THEN "repair" ELSE "incremental")

\* sync_all("full") through the queue: the first delivery of a full task.
FirstDelivery == ~task /\ Begin("full", "task") /\ task' = TRUE

\* apply_index_task, attempts > 1: resume from a published checkpoint.
Resume == /\ task
          /\ scope = "checkpointed"
          /\ Begin("incremental", "resumed")
          /\ UNCHANGED task

\* Without a checkpoint, or in sync_all's own drain loops, start over.
StartOver == task /\ Begin("full", "task") /\ UNCHANGED task

(***************************************************************************)
(* A full pass empties the source first, in three durable writes.  The     *)
(* stored manifest is left as it is; only the pass's copy is emptied.      *)
(***************************************************************************)
MarkStarting == /\ pc = "starting"
                /\ scope' = "starting"
                /\ pc' = "deleting"
                /\ UNCHANGED <<content, rows, published, manifest, fingerprint, ram,
                               mani, todo, indexed, job, hist>>

DeleteArtifacts == /\ pc = "deleting"
                   /\ rows' = Nothing
                   /\ graph' = Nothing
                   /\ pc' = "clearing"
                   /\ UNCHANGED <<content, published, manifest, fingerprint, scope, config,
                                  dirty, mani, todo, indexed, job, hist>>

MarkCleared == /\ pc = "clearing"
               /\ scope' = "cleared"
               /\ mani' = Nothing
               /\ pc' = "items"
               /\ UNCHANGED <<content, rows, published, manifest, fingerprint, ram,
                              todo, indexed, job, hist>>

(***************************************************************************)
(* Items.                                                                  *)
(***************************************************************************)
NeedsRepair(f) == \/ mani[f] # content[f]
                  \/ rows[f] = None
                  \/ graph[f] = None
                  \/ rows[f][1] # content[f]

\* Mutant: a file the manifest knows is skipped, whatever its hash.
SkippableKnown(f) == \/ mode = "incremental" /\ mani[f] # None
                     \/ mode = "repair" /\ ~NeedsRepair(f)

\* _prepare_item: is there nothing to do for this file?
Skippable(f) == \/ mode = "incremental" /\ mani[f] = content[f]
                \/ mode = "repair" /\ ~NeedsRepair(f)

SkipItem(f) == /\ pc = "items"
               /\ f \in todo
               /\ Skippable(f)
               /\ todo' = todo \ {f}
               /\ UNCHANGED <<content, disk, ram, mani, pc, indexed, job, hist>>

CommitItem(f) ==
    /\ pc = "items"
    /\ f \in todo
    /\ ~Skippable(f)
    /\ rows' = [rows EXCEPT ![f] = <<content[f], config>>]
    /\ graph' = [graph EXCEPT ![f] = <<content[f], config>>]
    /\ mani' = [mani EXCEPT ![f] = content[f]]
    /\ indexed' = TRUE
    /\ dirty' = TRUE
    /\ todo' = todo \ {f}
    /\ pc' = "committed"
    /\ UNCHANGED <<content, published, manifest, fingerprint, scope, config, job, hist>>

(***************************************************************************)
(* _maybe_checkpoint after each item: nothing while the interval has not   *)
(* passed, else checkpoint_graph: graph, manifest, marker.  A checkpoint   *)
(* that fails part way does not fail the pass.                             *)
(***************************************************************************)
NoCheckpoint == /\ pc = "committed"
                /\ pc' = "items"
                /\ UNCHANGED <<content, disk, ram, mani, todo, indexed, job, hist>>

\* Mutant: the manifest is checkpointed and the graph is not.
CheckpointWithoutGraph == /\ pc = "committed"
                          /\ pc' = "ckptManifest"
                          /\ UNCHANGED <<content, disk, ram, mani, todo, indexed, job, hist>>

CheckpointGraph == /\ pc = "committed"
                   /\ published' = graph
                   /\ pc' = "ckptManifest"
                   /\ UNCHANGED <<content, rows, manifest, fingerprint, scope, ram,
                                  mani, todo, indexed, job, hist>>

CheckpointManifest == /\ pc = "ckptManifest"
                      /\ manifest' = mani
                      /\ pc' = "ckptScope"
                      /\ UNCHANGED <<content, rows, published, fingerprint, scope, ram,
                                     mani, todo, indexed, job, hist>>

CheckpointScope == /\ pc = "ckptScope"
                   /\ scope' = IF scope \in {"starting", "cleared"} THEN "checkpointed"
                                                                    ELSE scope
                   /\ dirty' = FALSE
                   /\ pc' = "items"
                   /\ UNCHANGED <<content, rows, published, manifest, fingerprint, config,
                                  graph, mani, todo, indexed, job, hist>>

CheckpointFails == /\ pc \in {"ckptManifest", "ckptScope"}
                   /\ pc' = "items"
                   /\ UNCHANGED <<content, disk, ram, mani, todo, indexed, job, hist>>

(***************************************************************************)
(* _finalize_index_state and the end of sync_source: graph (if anything    *)
(* changed), manifest, fingerprint, marker.                                *)
(***************************************************************************)
SaveGraph == /\ pc = "items"
             /\ todo = {}
             /\ LET changed == indexed \/ mode = "full"
                IN  /\ published' = IF changed THEN graph ELSE published
                    /\ dirty' = (dirty /\ ~changed)
             /\ pc' = "saveManifest"
             /\ UNCHANGED <<content, rows, manifest, fingerprint, scope, config, graph,
                            mani, todo, indexed, job, hist>>

SaveManifest == /\ pc = "saveManifest"
                /\ manifest' = mani
                /\ pc' = "setFingerprint"
                /\ UNCHANGED <<content, rows, published, fingerprint, scope, ram,
                               mani, todo, indexed, job, hist>>

SetFingerprint == /\ pc = "setFingerprint"
                  /\ fingerprint' = config
                  /\ pc' = "clearScope"
                  /\ UNCHANGED <<content, rows, published, manifest, scope, ram,
                                 mani, todo, indexed, job, hist>>

\* The pass returns; a queued task is acknowledged.
Finish == /\ pc = "clearScope"
          /\ scope' = IF mode = "full" \/ pass = "resumed" THEN "none" ELSE scope
          /\ task' = (task /\ pass = "plain")
          /\ interrupted' = FALSE
          /\ pc' = "done"
          /\ UNCHANGED <<content, rows, published, manifest, fingerprint, ram, mani,
                         mode, todo, indexed, pass, clean, edits, deaths>>

Rest == /\ pc = "done"
        /\ pc' = "idle"
        /\ UNCHANGED <<content, disk, ram, mani, todo, indexed, job, hist>>

(***************************************************************************)
(* The world: edits of files; a pass that raises; the process killed, or   *)
(* stopped with close(), and started again, perhaps with another           *)
(* configuration.                                                          *)
(***************************************************************************)
Edit(f) == /\ edits < MaxEdits
           /\ edits' = edits + 1
           /\ \E v \in Versions : /\ v = edits' \/ (Reverts /\ v < edits' /\ v # content[f])
                                 /\ content' = [content EXCEPT ![f] = v]
           /\ clean' = FALSE
           /\ UNCHANGED <<disk, ram, mani, pc, todo, indexed, job, interrupted, deaths>>

Running == pc \notin {"idle", "done"}

\* Emptied by a full pass and not yet replaced by a published checkpoint.
Exposed == Running /\ mode = "full" /\ scope \in {"starting", "cleared"}

\* What every end of a pass before its time leaves behind.
Drop == /\ deaths < MaxDeaths
        /\ FullDies \/ ~Exposed
        /\ deaths' = deaths + 1
        /\ interrupted' = (interrupted \/ Running)
        /\ mani' = Nothing /\ todo' = {} /\ indexed' = FALSE
        /\ mode' = "incremental" /\ pass' = "plain" /\ pc' = "idle"
        /\ clean' = FALSE
        /\ UNCHANGED <<content, rows, manifest, fingerprint, scope, edits>>

\* sync_source raises: the process lives on with the graph as it is.  A
\* queued task is nacked, or dead-lettered when its attempts are spent.
Fail == /\ Running
        /\ Drop
        /\ task' \in {task} \cup (IF pass = "plain" THEN {} ELSE {FALSE})
        /\ UNCHANGED <<published, ram>>

\* A new process, with the published graph g and the configuration c.
Restart(g, c) == /\ MidEdit \/ c = config \/ (~interrupted' /\ scope = "none")
                 /\ published' = g /\ graph' = g /\ dirty' = FALSE
                 /\ config' = c
                 /\ UNCHANGED task

Kill(c) == Drop /\ Restart(published, c)

\* SyncEngine.close checkpoints the graph, without any manifest.
Close(c) == Drop /\ Restart(IF dirty THEN graph ELSE published, c)

PassStep == \/ MarkStarting \/ DeleteArtifacts \/ MarkCleared
            \/ \E f \in Files : SkipItem(f) \/ CommitItem(f)
            \/ NoCheckpoint \/ CheckpointManifest \/ CheckpointScope
            \/ SaveGraph \/ SaveManifest \/ SetFingerprint \/ Finish \/ Rest

Next == \/ \E m \in {"incremental", "repair", "full"} : SyncSource(m)
        \/ Startup \/ FirstDelivery \/ Resume \/ StartOver
        \/ PassStep
        \/ CheckpointGraph \/ CheckpointFails
        \/ \E f \in Files : Edit(f)
        \/ Fail
        \/ \E c \in Configs : Kill(c) \/ Close(c)

Spec == Init /\ [][Next]_vars

(***************************************************************************)
(* Fairness: the scheduler keeps starting incremental passes and a pass    *)
(* that does not die goes on.                                              *)
(***************************************************************************)
LiveSpec == Spec /\ WF_vars(PassStep) /\ WF_vars(SyncSource("incremental"))

(***************************************************************************)
(* Properties.                                                             *)
(***************************************************************************)

\* Every variable has its type.
TypeOK == /\ content \in [Files -> Versions]
          /\ rows \in [Files -> Made] /\ published \in [Files -> Made]
          /\ graph \in [Files -> Made]
          /\ manifest \in [Files -> Versions \cup {None}]
          /\ mani \in [Files -> Versions \cup {None}]
          /\ fingerprint \in Configs \cup {None} /\ config \in Configs
          /\ scope \in {"none", "starting", "cleared", "checkpointed"}
          /\ pc \in {"idle", "starting", "deleting", "clearing", "items",
                     "committed", "ckptManifest",
                     "ckptScope", "saveManifest", "setFingerprint", "clearScope", "done"}
          /\ mode \in {"incremental", "repair", "full"}
          /\ pass \in {"plain", "task", "resumed"}
          /\ todo \in SUBSET Files
          /\ {dirty, indexed, task, clean, interrupted} \subseteq BOOLEAN
          /\ edits \in 0 .. MaxEdits /\ deaths \in 0 .. MaxDeaths

\* What searches see of f is what indexing f now would produce.
Current(f) == rows[f] = <<content[f], config>> /\ published[f] = <<content[f], config>>

\* A pass that ends, over files nobody edited meanwhile, leaves every file
\* indexed as a fresh index would: whatever earlier passes died, and at
\* whichever write.
PassConverges == pc = "done" /\ clean => \A f \in Files : Current(f)

\* The stored manifest never claims a version that is in neither the tables
\* nor the published graph, except while a full pass is emptying the source
\* ("manifests may lag a published generation, but must never claim a graph
\* generation that did not commit").
ManifestIsBacked == Exposed \/ \A f \in Files : manifest[f] # None =>
    /\ published[f] # None /\ published[f][1] >= manifest[f]
    /\ rows[f] # None /\ rows[f][1] >= manifest[f]

\* After the last edit and the last death the scheduler's own passes bring the
\* index up to date again and again, with nobody asking for a repair.
IndexHeals == []<>(\A f \in Files : Current(f))
=============================================================================
