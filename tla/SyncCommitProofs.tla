-------------------------- MODULE SyncCommitProofs -------------------------
(***************************************************************************)
(* Proofs about SyncCommit, for any files, configurations, edits and       *)
(* deaths, when no full pass dies before its first checkpoint, contents do *)
(* not revert and the configuration does not change over an interrupted    *)
(* pass: the manifest is backed by what was committed, and a pass that     *)
(* ends leaves the index a fresh one would be.                             *)
(***************************************************************************)
EXTENDS SyncCommit, TLAPS

(***************************************************************************)
(* Vocabulary.                                                             *)
(***************************************************************************)

\* x, a row or a node, holds version v or a later one.
Backs(x, v) == v # None => x # None /\ x[1] >= v

\* x, a row or a node, is not newer than version v.
UpTo(x, v) == x # None => x[1] <= v

\* x, a row or a node, was made under configuration c, if it is there at all.
Under(x, c) == x # None => x[2] = c

\* The labels of a pass, in stages.
Emptying == {"starting", "deleting", "clearing"}
Checkpointing == {"ckptManifest", "ckptScope"}
Closing == {"setFingerprint", "clearScope", "done"}
Saved == {"saveManifest"} \cup Closing
Working == {"items", "committed"} \cup Checkpointing \cup Saved

(***************************************************************************)
(* The parts of the inductive invariant.                                   *)
(***************************************************************************)

\* Where a pass may be, and what the resume marker says then.
Control ==
    /\ pc \in Emptying => mode = "full" /\ todo = Files
    /\ pc \in {"deleting", "clearing"} => scope = "starting"
    /\ scope \in {"starting", "cleared"} => Exposed
    /\ Running /\ pc \in Working /\ mode = "full" => scope \in {"cleared", "checkpointed"}
    /\ pc \in Saved => todo = {}
    /\ pc \in {"ckptScope"} \cup Closing => manifest = mani
    /\ Running /\ mode # "full" /\ ~indexed => mani = manifest
    /\ pc \in {"clearScope", "done"} => fingerprint = config

\* Nothing is newer than the file it was made from.
NoneNewer == \A f \in Files :
    /\ content[f] <= edits
    /\ UpTo(rows[f], content[f]) /\ UpTo(graph[f], content[f])
    /\ UpTo(published[f], content[f])
    /\ manifest[f] # None => manifest[f] <= content[f]
    /\ mani[f] # None => mani[f] <= content[f]

\* The stored manifest is backed by the tables, the published graph and the
\* graph in memory.
StoredBacked == ~Exposed => \A f \in Files :
    /\ Backs(rows[f], manifest[f]) /\ Backs(graph[f], manifest[f])
    /\ Backs(published[f], manifest[f])

\* So is the manifest of the pass; by the published graph once that is saved.
PassBacked ==
    /\ pc \in Working =>
          \A f \in Files : Backs(rows[f], mani[f]) /\ Backs(graph[f], mani[f])
    /\ pc \in Checkpointing \cup Saved => \A f \in Files : Backs(published[f], mani[f])

\* What a pass has dealt with is up to date, unless the user edits files.
Progress == clean /\ pc \in Working =>
    \A f \in Files \ todo : mani[f] = content[f]

\* The published graph, or all there is, was made under configuration c.
PublishedUnder(c) == \A f \in Files : Under(published[f], c)
WorkUnder(c) == \A f \in Files : Under(rows[f], c) /\ Under(graph[f], c)

\* Configurations do not mix unnoticed.
OneConfig ==
    /\ pc \in Working \cup {"clearing"} => WorkUnder(config)
    /\ pc \in Checkpointing \cup Saved => PublishedUnder(config)
    /\ Running /\ mode # "full" => WorkUnder(config) /\ PublishedUnder(config)
    /\ scope = "checkpointed" => WorkUnder(config) /\ PublishedUnder(config)
    /\ pc \in {"idle", "starting"} =>
                      \/ fingerprint # None /\ fingerprint # config
                      \/ WorkUnder(config) /\ PublishedUnder(config)
    /\ ~interrupted /\ ~Running => WorkUnder(fingerprint) /\ PublishedUnder(fingerprint)

CommitInv == TypeOK /\ Control /\ NoneNewer /\ StoredBacked /\ PassBacked /\ Progress /\ OneConfig

(***************************************************************************)
(* Type correctness.                                                       *)
(***************************************************************************)
Modes == {"incremental", "repair", "full"}
Passes == {"plain", "task", "resumed"}

LEMMA BeginType ==
    ASSUME TypeOK, NEW m \in Modes, NEW k \in Passes, Begin(m, k), task' \in BOOLEAN
    PROVE  TypeOK'
  BY DEF TypeOK, Begin, disk, ram, Modes, Passes

LEMMA NothingType == /\ Nothing \in [Files -> Made]
                     /\ Nothing \in [Files -> Versions \cup {None}]
  BY DEF Nothing, Made

\* A pass that is dropped leaves what it owns in its type.
LEMMA DropType ==
    ASSUME TypeOK, Drop
    PROVE  /\ mani' \in [Files -> Versions \cup {None}]
           /\ deaths' \in 0 .. MaxDeaths
           /\ todo' \in SUBSET Files
           /\ indexed' \in BOOLEAN /\ interrupted' \in BOOLEAN /\ clean' \in BOOLEAN
  <1>1. deaths' \in 0 .. MaxDeaths
    BY CommitConstants DEF TypeOK, Drop
  <1>2. interrupted' \in BOOLEAN
    BY DEF TypeOK, Drop, Running
  <1> QED
    BY <1>1, <1>2, NothingType DEF Drop

LEMMA RestartType ==
    ASSUME TypeOK, NEW c \in Configs, Drop, NEW g, g \in {published, graph}, Restart(g, c)
    PROVE  TypeOK'
  <1>1. g \in [Files -> Made]
    BY DEF TypeOK
  <1> QED
    BY <1>1, DropType DEF TypeOK, Drop, Restart

\* Every step keeps every variable in its type.
LEMMA TypeStep == TypeOK /\ [Next]_vars => TypeOK'
  <1> SUFFICES ASSUME TypeOK, [Next]_vars PROVE TypeOK'
    OBVIOUS
  <1>1. ASSUME NEW m \in Modes, SyncSource(m) PROVE TypeOK'
    <2>1. Escalated(m) \in Modes
      BY DEF Escalated, Modes
    <2> QED
      BY <1>1, <2>1, BeginType DEF SyncSource, Passes, TypeOK
  <1>2. CASE Startup
    BY <1>1, <1>2 DEF Startup, Modes
  <1>3. CASE FirstDelivery \/ Resume \/ StartOver
    BY <1>3, BeginType DEF FirstDelivery, Resume, StartOver, Modes, Passes, TypeOK
  <1>4. CASE MarkStarting \/ DeleteArtifacts \/ MarkCleared
    BY <1>4 DEF TypeOK, MarkStarting, DeleteArtifacts, MarkCleared, Nothing, Made, ram, job, hist
  <1>5. ASSUME NEW f \in Files, SkipItem(f) PROVE TypeOK'
    BY <1>5 DEF TypeOK, SkipItem, disk, ram, job, hist
  <1>6. ASSUME NEW f \in Files, CommitItem(f) PROVE TypeOK'
    <2>1. <<content[f], config>> \in Made
      BY DEF TypeOK, Made
    <2> QED
      BY <1>6, <2>1 DEF TypeOK, CommitItem, job, hist
  <1>7. CASE NoCheckpoint \/ CheckpointGraph \/ CheckpointManifest
    BY <1>7 DEF TypeOK, NoCheckpoint, CheckpointGraph, CheckpointManifest, disk, ram, job, hist
  <1>8. CASE CheckpointScope \/ CheckpointFails
    BY <1>8 DEF TypeOK, CheckpointScope, CheckpointFails, disk, ram, job, hist
  <1>9. CASE SaveGraph
    BY <1>9 DEF TypeOK, SaveGraph, job, hist
  <1>10. CASE SaveManifest \/ SetFingerprint \/ Rest
    BY <1>10 DEF TypeOK, SaveManifest, SetFingerprint, Rest, disk, ram, job, hist
  <1>11. CASE Finish
    BY <1>11 DEF TypeOK, Finish, ram
  <1>12. ASSUME NEW f \in Files, Edit(f) PROVE TypeOK'
    <2>1. edits' \in 0 .. MaxEdits
      BY <1>12, CommitConstants DEF TypeOK, Edit
    <2>2. content' \in [Files -> Versions]
      BY <1>12 DEF TypeOK, Edit
    <2> QED
      BY <1>12, <2>1, <2>2 DEF TypeOK, Edit, disk, ram, job
  <1>13. CASE Fail
    <2>1. task' \in BOOLEAN
      BY <1>13 DEF TypeOK, Fail
    <2> QED
      BY <1>13, <2>1, DropType DEF TypeOK, Fail, Drop, ram
  <1>14. ASSUME NEW c \in Configs, Kill(c) \/ Close(c) PROVE TypeOK'
    BY <1>14, RestartType DEF Kill, Close
  <1>15. CASE UNCHANGED vars
    BY <1>15 DEF TypeOK, vars
  <1> QED
    BY <1>1, <1>2, <1>3, <1>4, <1>5, <1>6, <1>7, <1>8, <1>9, <1>10, <1>11, <1>12, <1>13, <1>14,
       <1>15 DEF Next, PassStep, Modes

LEMMA InitType == Init => TypeOK
  <1> SUFFICES ASSUME Init PROVE TypeOK
    OBVIOUS
  <1>1. content \in [Files -> Versions] /\ edits \in 0 .. MaxEdits /\ deaths \in 0 .. MaxDeaths
    BY CommitConstants DEF Init, Versions
  <1> QED
    BY <1>1, NothingType DEF Init, TypeOK

\* Every state of the commit protocol is well typed.
THEOREM CommitTypeCorrect == Spec => []TypeOK
  BY InitType, TypeStep, PTL DEF Spec

(***************************************************************************)
(* The invariant of a careful world: one lemma per group of actions, one   *)
(* step per part of the invariant.                                         *)
(***************************************************************************)
AllUnder(c) == WorkUnder(c) /\ PublishedUnder(c)

LEMMA CommitInit == Init => CommitInv
  <1> SUFFICES ASSUME Init PROVE CommitInv
    OBVIOUS
  <1>1. TypeOK
    BY InitType
  <1>2. Control
    BY DEF Init, Control, Emptying, Saved, Closing, Working, Exposed, Running
  <1>3. NoneNewer
    BY DEF Init, NoneNewer, UpTo, Nothing
  <1>4. StoredBacked /\ PassBacked /\ Progress
    BY DEF Init, StoredBacked, PassBacked, Progress, Backs, Nothing, Working, Checkpointing,
           Saved, Closing
  <1>5. OneConfig
    BY DEF Init, OneConfig, WorkUnder, PublishedUnder, Under, Nothing, Working, Checkpointing,
           Saved, Closing, Running
  <1> QED
    BY <1>1, <1>2, <1>3, <1>4, <1>5 DEF CommitInv

\* A pass begins with the stored manifest, and without a full pass only where
\* everything was made under the configuration it will record.
LEMMA BeginStep ==
    ASSUME CommitInv, NEW m \in Modes, NEW k \in Passes, Begin(m, k),
           m # "full" => AllUnder(config)
    PROVE  (Control /\ NoneNewer /\ StoredBacked /\ PassBacked /\ Progress /\ OneConfig)'
  <1> USE DEF CommitInv, Begin, disk, ram
  <1>1. Control'
    BY DEF Control, Emptying, Saved, Closing, Checkpointing, Working, Exposed, Running, Modes
  <1>2. NoneNewer'
    BY DEF NoneNewer, UpTo
  <1>3. StoredBacked'
    BY DEF StoredBacked, Backs, Exposed, Running
  <1>4. PassBacked'
    BY DEF PassBacked, StoredBacked, Backs, Exposed, Running, Working, Checkpointing, Saved, Closing
  <1>5. Progress'
    BY DEF Progress
  <1>6. OneConfig'
    BY DEF OneConfig, AllUnder, WorkUnder, PublishedUnder, Under, Running, Working, Checkpointing,
           Saved, Closing
  <1> QED
    BY <1>1, <1>2, <1>3, <1>4, <1>5, <1>6

\* A full pass empties the source.
LEMMA EmptyingStep ==
    ASSUME CommitInv, MarkStarting \/ DeleteArtifacts \/ MarkCleared
    PROVE  (Control /\ NoneNewer /\ StoredBacked /\ PassBacked /\ Progress /\ OneConfig)'
  <1> USE DEF CommitInv, MarkStarting, DeleteArtifacts, MarkCleared, ram, job, hist
  <1>1. Control'
    BY DEF Control, Emptying, Saved, Closing, Checkpointing, Working, Exposed, Running
  <1>2. NoneNewer'
    BY DEF NoneNewer, UpTo, Nothing
  <1>3. StoredBacked'
    BY DEF StoredBacked, Control, Emptying, Exposed, Running
  <1>4. PassBacked'
    BY DEF PassBacked, Backs, Nothing, Working, Checkpointing, Saved, Closing
  <1>5. Progress'
    BY DEF Progress, Control, Emptying, Working, Checkpointing, Saved, Closing
  <1>6. OneConfig'
    BY DEF OneConfig, Control, Emptying, WorkUnder, PublishedUnder, Under, Nothing, Running,
           Working, Checkpointing, Saved, Closing
  <1> QED
    BY <1>1, <1>2, <1>3, <1>4, <1>5, <1>6

\* An item is skipped because the manifest of the pass has its content.
LEMMA SkipStep ==
    ASSUME CommitInv, NEW f \in Files, SkipItem(f)
    PROVE  (Control /\ NoneNewer /\ StoredBacked /\ PassBacked /\ Progress /\ OneConfig)'
  <1> USE DEF CommitInv, SkipItem, disk, ram, job, hist
  <1>1. Control'
    BY DEF Control, Emptying, Saved, Closing, Working, Exposed, Running
  <1>2. NoneNewer' /\ StoredBacked' /\ PassBacked'
    BY DEF NoneNewer, StoredBacked, PassBacked, UpTo, Backs, Exposed, Running
  <1>3. mani[f] = content[f]
    BY DEF Skippable, NeedsRepair
  <1>4. Progress'
    BY <1>3 DEF Progress, Working
  <1>5. OneConfig'
    BY DEF OneConfig, WorkUnder, PublishedUnder, Under, Running
  <1> QED
    BY <1>1, <1>2, <1>4, <1>5

\* An item is committed: rows, graph and manifest of the pass move together.
LEMMA CommitStep ==
    ASSUME CommitInv, NEW f \in Files, CommitItem(f)
    PROVE  (Control /\ NoneNewer /\ StoredBacked /\ PassBacked /\ Progress /\ OneConfig)'
  <1> USE DEF CommitInv, CommitItem, job, hist
  <1>1. /\ <<content[f], config>> # None /\ content[f] # None
        /\ content[f] \in Nat
    BY CommitConstants DEF TypeOK, Versions
  <1>2. /\ \A g \in Files : g # f => rows'[g] = rows[g] /\ graph'[g] = graph[g] /\ mani'[g] = mani[g]
        /\ rows'[f] = <<content[f], config>> /\ graph'[f] = <<content[f], config>>
        /\ mani'[f] = content[f]
    BY DEF TypeOK
  <1>3. Control'
    BY DEF Control, Emptying, Saved, Closing, Working, Exposed, Running
  <1>4. NoneNewer'
    BY <1>1, <1>2 DEF NoneNewer, UpTo
  <1>5. StoredBacked'
    BY <1>1, <1>2 DEF StoredBacked, NoneNewer, Backs, Exposed, Running
  <1>6. PassBacked'
    BY <1>1, <1>2 DEF PassBacked, Backs, Working, Checkpointing, Saved, Closing
  <1>7. Progress'
    BY <1>2 DEF Progress, Working
  <1>8. OneConfig'
    BY <1>1, <1>2 DEF OneConfig, WorkUnder, PublishedUnder, Under, Running, Working, Checkpointing,
           Saved, Closing
  <1> QED
    BY <1>3, <1>4, <1>5, <1>6, <1>7, <1>8

\* A checkpoint publishes the graph before the manifest moves.
LEMMA CheckpointStep ==
    ASSUME CommitInv,
           NoCheckpoint \/ CheckpointGraph \/ CheckpointManifest \/ CheckpointScope
              \/ CheckpointFails
    PROVE  (Control /\ NoneNewer /\ StoredBacked /\ PassBacked /\ Progress /\ OneConfig)'
  <1> USE DEF CommitInv, NoCheckpoint, CheckpointGraph, CheckpointManifest, CheckpointScope,
              CheckpointFails, disk, ram, job, hist
  <1>1. Control'
    BY DEF Control, Emptying, Saved, Closing, Working, Checkpointing, Exposed, Running
  <1>2. NoneNewer'
    BY DEF NoneNewer, UpTo
  <1>3. StoredBacked'
    BY DEF StoredBacked, PassBacked, Control, Backs, Exposed, Running, Working, Checkpointing,
           Saved, Closing
  <1>4. PassBacked'
    BY DEF PassBacked, Backs, Working, Checkpointing, Saved, Closing
  <1>5. Progress'
    BY DEF Progress, Working, Checkpointing, Saved, Closing
  <1>6. OneConfig'
    BY DEF OneConfig, WorkUnder, PublishedUnder, Under, Running, Working, Checkpointing,
           Saved, Closing
  <1> QED
    BY <1>1, <1>2, <1>3, <1>4, <1>5, <1>6

\* The end of a pass: graph, manifest, fingerprint, marker.
LEMMA ClosingStep ==
    ASSUME CommitInv, SaveGraph \/ SaveManifest \/ SetFingerprint \/ Finish \/ Rest
    PROVE  (Control /\ NoneNewer /\ StoredBacked /\ PassBacked /\ Progress /\ OneConfig)'
  <1> USE DEF CommitInv, SaveGraph, SaveManifest, SetFingerprint, Finish, Rest, disk, ram, job, hist
  <1>1. Control'
    BY DEF Control, Emptying, Saved, Closing, Working, Checkpointing, Exposed, Running
  <1>2. NoneNewer'
    BY DEF NoneNewer, UpTo
  <1>3. StoredBacked'
    BY DEF StoredBacked, PassBacked, Control, Backs, Exposed, Running, Working, Checkpointing,
           Saved, Closing
  <1>4. PassBacked'
    BY DEF PassBacked, StoredBacked, Control, Backs, Exposed, Running, Working, Checkpointing,
           Saved, Closing
  <1>5. Progress'
    BY DEF Progress, Working, Checkpointing, Saved, Closing
  <1>6. OneConfig'
    BY DEF OneConfig, Control, WorkUnder, PublishedUnder, Under, Running, Working, Checkpointing,
           Saved, Closing
  <1> QED
    BY <1>1, <1>2, <1>3, <1>4, <1>5, <1>6

\* The user edits a file: its version is newer than everything made from it.
LEMMA EditStep ==
    ASSUME ~Reverts, CommitInv, NEW f \in Files, Edit(f)
    PROVE  (Control /\ NoneNewer /\ StoredBacked /\ PassBacked /\ Progress /\ OneConfig)'
  <1> USE DEF CommitInv, Edit, disk, ram, job
  <1>1. Control'
    BY DEF Control, Emptying, Saved, Closing, Working, Exposed, Running
  <1>2. \A g \in Files : /\ content[g] \in Nat /\ content'[g] \in Nat
                         /\ content[g] <= content'[g] /\ content'[g] <= edits'
    BY DEF NoneNewer, TypeOK, Versions
  <1>3. NoneNewer'
    BY <1>2 DEF NoneNewer, UpTo, TypeOK, Made, Versions
  <1>4. StoredBacked' /\ PassBacked'
    BY DEF StoredBacked, PassBacked, Backs, Exposed, Running
  <1>5. Progress' /\ OneConfig'
    BY DEF Progress, OneConfig, WorkUnder, PublishedUnder, Under, Running
  <1> QED
    BY <1>1, <1>3, <1>4, <1>5

\* What a pass that ends early leaves behind, whichever graph survives.
LEMMA DropStep ==
    ASSUME ~FullDies, CommitInv, Drop,
           graph' \in {graph, published}, published' \in {graph, published},
           config' = config \/ (~interrupted' /\ scope = "none")
    PROVE  (Control /\ NoneNewer /\ StoredBacked /\ PassBacked /\ Progress /\ OneConfig)'
  <1> USE DEF CommitInv, Drop
  <1>1. ~Exposed /\ scope \in {"none", "checkpointed"}
    BY DEF Control, TypeOK
  <1>2. Control'
    BY <1>1 DEF Control, Emptying, Saved, Closing, Checkpointing, Working, Exposed, Running
  <1>3. NoneNewer'
    BY DEF NoneNewer, UpTo, Nothing
  <1>4. StoredBacked'
    BY <1>1 DEF StoredBacked, Backs
  <1>5. PassBacked' /\ Progress'
    BY DEF PassBacked, Progress, Working, Checkpointing, Saved, Closing
  <1>6. OneConfig'
    <2>1. \A c : AllUnder(c) => \A f \in Files :
                    Under(rows'[f], c) /\ Under(graph'[f], c) /\ Under(published'[f], c)
      BY DEF AllUnder, WorkUnder, PublishedUnder
    <2>2. ~interrupted' => AllUnder(fingerprint)
      BY DEF OneConfig, AllUnder
    <2>3. AllUnder(None) => \A c : AllUnder(c)
      <3>1. \A x \in Made : x # None => x[2] # None
        BY CommitConstants DEF Made
      <3> QED
        BY <3>1 DEF AllUnder, WorkUnder, PublishedUnder, Under, TypeOK
    <2>4. ~(fingerprint # None /\ fingerprint # config') => AllUnder(config')
      <3>1. CASE config' # config
        BY <3>1, <2>2, <2>3
      <3>2. CASE config' = config /\ scope = "checkpointed"
        BY <3>2 DEF OneConfig, AllUnder
      <3>3. CASE config' = config /\ scope = "none"
        <4>1. CASE Running /\ mode # "full"
          BY <3>3, <4>1 DEF OneConfig, AllUnder
        <4>2. CASE Running /\ mode = "full"
          <5>1. pc = "starting"
            BY <3>3, <4>2 DEF Control, TypeOK, Running, Working, Checkpointing, Saved, Closing
          <5> QED
            BY <3>3, <5>1 DEF OneConfig, AllUnder
        <4>3. CASE ~Running
          BY <3>3, <4>3 DEF OneConfig, AllUnder, Running, Working, Saved, Closing
        <4> QED
          BY <4>1, <4>2, <4>3
      <3> QED
        BY <1>1, <3>1, <3>2, <3>3
    <2>5. scope = "checkpointed" => AllUnder(config')
      BY DEF OneConfig, AllUnder
    <2>6. \/ fingerprint # None /\ fingerprint # config'
          \/ (WorkUnder(config) /\ PublishedUnder(config))'
      BY <2>1, <2>4 DEF WorkUnder, PublishedUnder
    <2>7. scope = "checkpointed" => (WorkUnder(config) /\ PublishedUnder(config))'
      BY <2>1, <2>5 DEF WorkUnder, PublishedUnder
    <2>8. ~interrupted' => (WorkUnder(fingerprint) /\ PublishedUnder(fingerprint))'
      BY <2>1, <2>2 DEF WorkUnder, PublishedUnder
    <2> QED
      BY <2>6, <2>7, <2>8 DEF OneConfig, Running, Working, Checkpointing, Saved, Closing
  <1> QED
    BY <1>2, <1>3, <1>4, <1>5, <1>6

\* Every step of a careful world keeps the invariant.
LEMMA CommitInvStep ==
    ASSUME ~FullDies, ~Reverts, ~MidEdit, CommitInv, [Next]_vars
    PROVE  CommitInv'
  <1> DEFINE Untyped == Control /\ NoneNewer /\ StoredBacked /\ PassBacked /\ Progress /\ OneConfig
  <1> SUFFICES Untyped'
    BY TypeStep DEF CommitInv
  <1>1. ASSUME NEW m \in Modes, SyncSource(m) PROVE Untyped'
    <2>1. Escalated(m) \in Modes /\ "plain" \in Passes
      BY DEF Escalated, Modes, Passes
    <2>2. Escalated(m) # "full" => AllUnder(config)
      BY <1>1 DEF Escalated, SyncSource, Begin, CommitInv, OneConfig, AllUnder
    <2> QED
      BY <1>1, <2>1, <2>2, BeginStep DEF SyncSource
  <1>2. CASE Startup
    BY <1>1, <1>2 DEF Startup, Modes
  <1>3. CASE FirstDelivery \/ StartOver
    BY <1>3, BeginStep DEF FirstDelivery, StartOver, Modes, Passes
  <1>4. CASE Resume
    <2>1. AllUnder(config)
      BY <1>4 DEF Resume, CommitInv, OneConfig, AllUnder
    <2> QED
      BY <1>4, <2>1, BeginStep DEF Resume, Modes, Passes
  <1>5. CASE PassStep \/ CheckpointGraph \/ CheckpointFails
    BY <1>5, EmptyingStep, SkipStep, CommitStep, CheckpointStep, ClosingStep DEF PassStep
  <1>6. ASSUME NEW f \in Files, Edit(f) PROVE Untyped'
    BY <1>6, EditStep
  <1>7. CASE Fail
    BY <1>7, DropStep DEF Fail, ram
  <1>8. ASSUME NEW c \in Configs, Kill(c) \/ Close(c) PROVE Untyped'
    BY <1>8, DropStep DEF Kill, Close, Restart
  <1>9. CASE UNCHANGED vars
    BY <1>9 DEF vars, CommitInv, Control, NoneNewer, StoredBacked, PassBacked, Progress, OneConfig,
                WorkUnder, PublishedUnder, Exposed, Running
  <1> QED
    BY <1>1, <1>2, <1>3, <1>4, <1>5, <1>6, <1>7, <1>8, <1>9 DEF Next, Modes

LEMMA InvConverges == CommitInv => PassConverges
  <1> SUFFICES ASSUME CommitInv, pc = "done", clean, NEW f \in Files PROVE Current(f)
    BY DEF PassConverges
  <1>1. mani[f] = content[f]
    BY DEF CommitInv, Control, Progress, Working, Saved, Closing
  <1>2. content[f] \in Nat /\ content[f] # None
    BY CommitConstants DEF CommitInv, TypeOK, Versions
  <1>3. /\ rows[f] # None /\ rows[f][1] >= content[f] /\ rows[f][1] <= content[f]
        /\ published[f] # None /\ published[f][1] >= content[f] /\ published[f][1] <= content[f]
    BY <1>1, <1>2 DEF CommitInv, PassBacked, NoneNewer, Backs, UpTo, Working, Saved, Closing
  <1>4. rows[f][2] = config /\ published[f][2] = config
    BY <1>3 DEF CommitInv, OneConfig, WorkUnder, PublishedUnder, Under, Working, Saved, Closing
  <1>5. rows[f] \in Versions \X Configs /\ published[f] \in Versions \X Configs
    BY <1>3 DEF CommitInv, TypeOK, Made
  <1> QED
    BY <1>2, <1>3, <1>4, <1>5 DEF Current, Versions

LEMMA InvBacked == CommitInv => ManifestIsBacked
  BY DEF CommitInv, StoredBacked, ManifestIsBacked, Backs

\* A pass of sync_source that ends over files nobody edited meanwhile leaves
\* the tables and the published graph as a fresh index would, however many
\* earlier passes failed, were killed or were stopped, and at whichever of
\* their durable writes.
THEOREM PassesConverge ==
    ASSUME ~FullDies, ~Reverts, ~MidEdit
    PROVE  Spec => []PassConverges
  <1>1. CommitInv /\ [Next]_vars => CommitInv'
    BY CommitInvStep
  <1> QED
    BY CommitInit, <1>1, InvConverges, PTL DEF Spec

\* The manifest that checkpoint_graph and _finalize_index_state store never
\* claims a version the tables and the published graph do not have.
THEOREM ManifestsAreBacked ==
    ASSUME ~FullDies, ~Reverts, ~MidEdit
    PROVE  Spec => []ManifestIsBacked
  <1>1. CommitInv /\ [Next]_vars => CommitInv'
    BY CommitInvStep
  <1> QED
    BY CommitInit, <1>1, InvBacked, PTL DEF Spec
=============================================================================
