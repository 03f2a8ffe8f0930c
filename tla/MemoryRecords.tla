--------------------------- MODULE MemoryRecords ---------------------------
(***************************************************************************)
(* Agent memory: the record files (memory/store.py), their projection into *)
(* rows (memory/projection.py), their index, and the consolidating pass    *)
(* (memory/maintenance.py).  A record is <<claim, version>>: its id is the *)
(* digest of the claim and the second of its writing, and a version stands *)
(* for the second.  Files are renamed and never deleted.  Rows are rebuilt *)
(* wholesale from a listing taken before.  An incremental sync adds to the *)
(* index what is new and takes nothing away: that is left to the pass.     *)
(* Syncs of the source exclude each other; a pass takes no lock of its own *)
(* and runs beside them and beside other passes: the scheduler's beat, the *)
(* endpoint and the MCP tool each start one.  An append is one step, and   *)
(* writes of one claim are more than a second apart.  TTLs, caps,          *)
(* retention, compaction and formation are off, as they are by default.    *)
(***************************************************************************)
EXTENDS Naturals, FiniteSets

CONSTANTS Claims,         \* texts
          NoRecord,       \* no record
          Passes,         \* who may be running a pass
          MaxWrites,      \* bound: writes
          MaxMemoryFaults \* bound: syncs and passes that die, and passes that begin beside others

ASSUME MemoryConstants == /\ NoRecord \notin Claims \X (1 .. MaxWrites)
                          /\ MaxWrites \in Nat /\ MaxMemoryFaults \in Nat

Records == Claims \X (1 .. MaxWrites)

VARIABLES
    live,        \* the files mem-*.md
    archived,    \* the files mem-*.md.archived; one may exist beside its live file
    fixes,       \* the supersedes field of every live file
    known,       \* the live files whose hash the manifest of the source has
    indexed,     \* the records with chunks
    rows,        \* memory_records: "none", "current", or "ended" (valid_until has come)
    memSync,     \* the sync of the source: [at, items, fresh, rows]
    memPass,     \* the passes: [Passes -> [at, todo, met, done, rows]]; met is history: the
                 \* records of todo that came back after the pass listed them
    told,        \* history: [Claims -> record the last writer was told holds the claim]
    corrected,   \* history: records corrected, as far as a later writer could not see
    torn,        \* history: records whose index the pass left wrong, see DropArchived,
                 \* IndexMemory and PassEnds
    lapsed,      \* history: records a pass archived although they had come back
    writes, memoryFaults

memFiles == <<live, archived, fixes>>
memHistory == <<told, corrected, torn, lapsed>>
memoryVars == <<live, archived, fixes, known, indexed, rows, memSync, memPass, told, corrected,
                torn, lapsed, writes, memoryFaults>>

RowTables == [Records -> {"none", "current", "ended"}]
NoRows == [r \in Records |-> "none"]
NoSync == [at |-> "idle", items |-> {}, fresh |-> {}, rows |-> NoRows]
NoPass == [at |-> "idle", todo |-> {}, met |-> {}, done |-> {}, rows |-> NoRows]

MemoryInit == /\ live = {} /\ archived = {} /\ fixes = [r \in Records |-> NoRecord]
              /\ known = {} /\ indexed = {} /\ rows = NoRows
              /\ memSync = NoSync /\ memPass = [x \in Passes |-> NoPass]
              /\ told = [c \in Claims |-> NoRecord] /\ corrected = {} /\ torn = {} /\ lapsed = {}
              /\ writes = 0 /\ memoryFaults = 0

MemoryFault == memoryFaults < MaxMemoryFaults /\ memoryFaults' = memoryFaults + 1

\* superseded_ids, supersession_index: what the live files name.
Superseded == {fixes[r] : r \in live} \ {NoRecord}

\* project: a row for every live file, ended when a live file corrects it.
Projected == [r \in Records |-> IF r \notin live THEN "none"
                                ELSE IF r \in Superseded THEN "ended" ELSE "current"]

Of(c, S) == {r \in S : r[1] = c}
Oldest(S) == CHOOSE r \in S : \A q \in S : r[2] <= q[2]

(***************************************************************************)
(* append.                                                                 *)
(***************************************************************************)
\* foldable_record: a record without a row is taken for current.
Foldable(r) == rows[r] # "ended"

\* Mutant: a file with the same digest is enough.
FoldsExact(c) == Of(c, live) # {}

\* A live file has the digest of the write, and the projection does not say it ended.
FoldsInto(c) == Of(c, live) # {} /\ Foldable(Oldest(Of(c, live)))

\* find_canonical_record: a current row of the claim whose file is there.
CurrentRows(c) == {r \in Of(c, Records) : rows[r] = "current"}
Restates(c) == CurrentRows(c) # {} /\ Oldest(CurrentRows(c)) \in live

Answers(c, r) == told' = [told EXCEPT ![c] = r]

\* Nobody is to be told that a record holds which the rows say has ended.
Folded(c, r) == /\ Answers(c, r)
                /\ corrected' = corrected \ {q \in {r} : rows[q] = "ended"}

\* The write is a restatement: nothing is written, not even what it supersedes.
Reinforce(c) == /\ writes < MaxWrites /\ writes' = writes + 1
                /\ \/ FoldsInto(c) /\ Folded(c, Oldest(Of(c, live)))
                   \/ ~FoldsInto(c) /\ Restates(c) /\ Folded(c, Oldest(CurrentRows(c)))
                /\ UNCHANGED <<memFiles, known, indexed, rows, memSync, memPass, torn, lapsed,
                               memoryFaults>>

\* A new id when a live file has ended or none ever was; else the archived
\* record comes back under its own id, which its correction may still name, and
\* a pass that listed it before may still be about to archive it.
NewRecord(c) == IF Of(c, live) = {} /\ Of(c, archived) # {}
                THEN Oldest(Of(c, archived))
                ELSE <<c, writes + 1>>

WriteRecord(c, target) ==
    /\ writes < MaxWrites /\ writes' = writes + 1
    /\ ~FoldsInto(c) /\ ~Restates(c)
    /\ target \in live \cup archived \cup {NoRecord}
    /\ LET r == NewRecord(c)
       IN  /\ live' = live \cup {r}
           /\ fixes' = [fixes EXCEPT ![r] = target]
           /\ known' = known \ {r}
           /\ memSync' = [memSync EXCEPT !.fresh = @ \ {r}]
           /\ Answers(c, r)
           /\ corrected' = (corrected \ ({r} \ Superseded)) \cup ({target} \ {NoRecord})
           /\ torn' = torn \ {r}
           /\ lapsed' = lapsed \ {r}
           /\ memPass' = [x \in Passes |->
                             [memPass[x] EXCEPT !.met = @ \cup ({r} \cap memPass[x].todo)]]
    /\ UNCHANGED <<archived, indexed, rows, memoryFaults>>

(***************************************************************************)
(* A sync of the memory source, incremental: the listing, the files, their *)
(* chunks, the listing for the projection, the rows, the manifest.         *)
(***************************************************************************)
ScanMemory == /\ memSync.at = "idle"
              /\ memSync' = [memSync EXCEPT !.at = "scanned", !.items = live]
              /\ UNCHANGED <<memFiles, known, indexed, rows, memPass, memHistory, writes,
                             memoryFaults>>

\* Every listed file is read, and skipped if the manifest has its hash.
ReadMemory == /\ memSync.at = "scanned" /\ memSync.items \subseteq live
              /\ LET fresh == memSync.items \ known
                 IN  memSync' = [memSync EXCEPT !.at = "read", !.items = fresh, !.fresh = fresh]
              /\ UNCHANGED <<memFiles, known, indexed, rows, memPass, memHistory, writes,
                             memoryFaults>>

\* What was archived since it was read gets its chunks all the same.
Commits(some) == /\ indexed' = indexed \cup some
                 /\ torn' = (torn \ some) \cup (some \ live)

\* Files are committed one by one: of those that could be, some have been.
PartlyIndexed == LET readable == IF memSync.at = "scanned"
                                 THEN (memSync.items \ known) \cap live
                                 ELSE memSync.items
                 IN  \E some \in SUBSET readable : Commits(some)

\* A listed file is gone: reading it raises, and the sync ends without a manifest.
ReadFails == /\ memSync.at = "scanned" /\ ~(memSync.items \subseteq live)
             /\ PartlyIndexed
             /\ memSync' = NoSync
             /\ UNCHANGED <<memFiles, known, rows, memPass, told, corrected, lapsed, writes,
                            memoryFaults>>

IndexMemory == /\ memSync.at = "read"
               /\ Commits(memSync.items)
               /\ memSync' = [memSync EXCEPT !.at = "indexed", !.items = {}]
               /\ UNCHANGED <<memFiles, known, rows, memPass, told, corrected, lapsed, writes,
                              memoryFaults>>

ListForRows == /\ memSync.at = "indexed"
               /\ memSync' = [memSync EXCEPT !.at = "listed", !.rows = Projected]
               /\ UNCHANGED <<memFiles, known, indexed, rows, memPass, memHistory, writes,
                              memoryFaults>>

\* Fail-soft: the sync goes on with the previous rows.
ReplaceRows == /\ memSync.at = "listed"
               /\ \/ rows' = memSync.rows /\ UNCHANGED memoryFaults
                  \/ UNCHANGED rows /\ MemoryFault
               /\ memSync' = [memSync EXCEPT !.at = "placed", !.rows = NoRows]
               /\ UNCHANGED <<memFiles, known, indexed, memPass, memHistory, writes>>

\* Mutant: the manifest is made of the files as they are now.
SaveManifestOfLive == /\ memSync.at = "placed"
                      /\ known' = known \cup live
                      /\ memSync' = NoSync
                      /\ UNCHANGED <<memFiles, indexed, rows, memPass, memHistory, writes,
                                     memoryFaults>>

\* The hashes are those of what was read: a file written since then differs.
SaveManifest == /\ memSync.at = "placed"
                /\ known' = known \cup (memSync.fresh \cap live)
                /\ memSync' = NoSync
                /\ UNCHANGED <<memFiles, indexed, rows, memPass, memHistory, writes,
                               memoryFaults>>

SyncDies == /\ memSync.at # "idle" /\ MemoryFault
            /\ PartlyIndexed
            /\ memSync' = NoSync
            /\ UNCHANGED <<memFiles, known, rows, memPass, told, corrected, lapsed, writes>>

(***************************************************************************)
(* A pass: list, archive one by one, drop what was archived, rebuild.      *)
(***************************************************************************)
\* With nothing to archive it ends at once, and rebuilds nothing.
BeginPass(x) == /\ memPass[x].at = "idle" /\ live \cap Superseded # {}
                /\ memPass' = [memPass EXCEPT ![x] = [@ EXCEPT !.at = "archive",
                                                         !.todo = live \cap Superseded]]
                /\ \/ memPass = [y \in Passes |-> NoPass] /\ UNCHANGED memoryFaults
                   \/ memPass # [y \in Passes |-> NoPass] /\ MemoryFault
                /\ UNCHANGED <<memFiles, known, indexed, rows, memSync, memHistory, writes>>

\* The rename goes by the path that was listed, whatever the file is now.
Archive(x, r) == /\ memPass[x].at = "archive" /\ r \in memPass[x].todo \cap live
                 /\ live' = live \ {r}
                 /\ archived' = archived \cup {r}
                 /\ fixes' = [fixes EXCEPT ![r] = NoRecord]
                 /\ known' = known \ {r}
                 /\ lapsed' = lapsed \cup ({r} \cap memPass[x].met)
                 /\ memPass' = [memPass EXCEPT ![x] = [@ EXCEPT
                                                           !.todo = memPass[x].todo \ {r},
                                                           !.met = memPass[x].met \ {r},
                                                           !.done = memPass[x].done \cup {r}]]
                 /\ UNCHANGED <<indexed, rows, memSync, told, corrected, torn, writes,
                                memoryFaults>>

\* What it has archived and not dropped, no later pass looks at.
PassEnds(x) == /\ torn' = torn \cup ((memPass[x].done \cap indexed) \ live)
               /\ memPass' = [memPass EXCEPT ![x] = NoPass]
               /\ UNCHANGED <<memFiles, known, indexed, rows, memSync, told, corrected, lapsed,
                              writes>>

\* Another pass has archived a listed record: the rename raises.
ArchiveFails(x) == /\ memPass[x].at = "archive" /\ ~(memPass[x].todo \subseteq live)
                   /\ PassEnds(x) /\ UNCHANGED memoryFaults

\* A record that came back loses its chunks, and the manifest may have it.
DropArchived(x) == /\ memPass[x].at = "archive" /\ memPass[x].todo = {}
                   /\ indexed' = indexed \ memPass[x].done
                   /\ torn' = (torn \ memPass[x].done) \cup (memPass[x].done \cap live)
                   /\ memPass' = [memPass EXCEPT ![x] = [@ EXCEPT !.at = "dropped", !.done = {}]]
                   /\ UNCHANGED <<memFiles, known, rows, memSync, told, corrected, lapsed, writes,
                                  memoryFaults>>

PassLists(x) == /\ memPass[x].at = "dropped"
                /\ memPass' = [memPass EXCEPT ![x] = [@ EXCEPT !.at = "listed", !.rows = Projected]]
                /\ UNCHANGED <<memFiles, known, indexed, rows, memSync, memHistory, writes,
                               memoryFaults>>

PassRebuilds(x) == /\ memPass[x].at = "listed"
                   /\ rows' = memPass[x].rows
                   /\ memPass' = [memPass EXCEPT ![x] = NoPass]
                   /\ UNCHANGED <<memFiles, known, indexed, memSync, memHistory, writes,
                                  memoryFaults>>

PassDies(x) == memPass[x].at # "idle" /\ MemoryFault /\ PassEnds(x)

SyncStep == \/ ScanMemory \/ ReadMemory \/ ReadFails \/ IndexMemory \/ ListForRows
            \/ ReplaceRows \/ SaveManifest
PassStep(x) == \/ (\E r \in Records : Archive(x, r)) \/ ArchiveFails(x)
               \/ DropArchived(x) \/ PassLists(x) \/ PassRebuilds(x)

MemoryNext == \/ \E c \in Claims : Reinforce(c)
              \/ \E c \in Claims, target \in Records \cup {NoRecord} : WriteRecord(c, target)
              \/ SyncStep \/ SyncDies
              \/ \E x \in Passes : BeginPass(x) \/ PassStep(x) \/ PassDies(x)

MemorySpec == MemoryInit /\ [][MemoryNext]_memoryVars

(***************************************************************************)
(* Properties.                                                             *)
(***************************************************************************)

\* Every variable has its type.
MemoryTypeOK ==
    /\ live \subseteq Records /\ archived \subseteq Records
    /\ fixes \in [Records -> Records \cup {NoRecord}]
    /\ known \subseteq Records /\ indexed \subseteq Records
    /\ rows \in RowTables
    /\ memSync \in [at : {"idle", "scanned", "read", "indexed", "listed", "placed"},
                    items : SUBSET Records, fresh : SUBSET Records, rows : RowTables]
    /\ memPass \in [Passes -> [at : {"idle", "archive", "dropped", "listed"},
                               todo : SUBSET Records, met : SUBSET Records,
                               done : SUBSET Records, rows : RowTables]]
    /\ told \in [Claims -> Records \cup {NoRecord}]
    /\ corrected \subseteq Records /\ torn \subseteq Records /\ lapsed \subseteq Records
    /\ writes \in 0 .. MaxWrites /\ memoryFaults \in 0 .. MaxMemoryFaults

\* No record leaves memory on its own: what a writer was told is held, and every
\* record ever written, is among the live files unless somebody corrected it,
\* whatever the passes list, archive and die over meanwhile.  The exception is a
\* record that came back after a pass had listed it: the pass archives it all the
\* same, although nothing may correct it any more.
NothingForgotten ==
    /\ archived \ live \subseteq corrected \cup lapsed
    /\ \A c \in Claims : told[c] # NoRecord => told[c] \in live \cup corrected \cup lapsed

\* The index is wrong only where passes and syncs crossed or a pass did not end:
\* chunks of an archived record are about to be dropped, and a record the next
\* sync will skip, because the manifest has the hash of its file, has its chunks.
IndexIsTrue == /\ indexed \ live \subseteq torn \cup UNION {memPass[x].done : x \in Passes}
               /\ known \cap live \subseteq indexed \cup torn

\* Both, for the records that searches and writers rely on.
MemoryHolds == NothingForgotten /\ IndexIsTrue

\* What a search of current memory returns: a hit without a row is not taken
\* for a memory, and passes.
Served(r) == r \in indexed /\ rows[r] # "ended"

\* Memory comes to say what its writers were told, through writes that are
\* folded, records that are archived and come back, deaths, and rows rebuilt
\* from older listings: a claim a writer was told is held is served unless it
\* was corrected, and what a live record corrects, or was archived, is not.  The
\* exceptions are a record that came back while a pass was about to archive or
\* drop it, and one whose chunks no pass drops: it was archived while a sync was
\* about to commit it, or by a pass that died or met another.
MemoryIsTrue ==
    []<>(/\ \A c \in Claims : \/ told[c] = NoRecord
                              \/ told[c] \in corrected \cup torn \cup lapsed
                              \/ Served(told[c])
         /\ \A r \in Records : Served(r) => r \in (live \ Superseded) \cup torn)
=============================================================================
