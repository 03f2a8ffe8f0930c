----------------------------- MODULE MCWriters -----------------------------
(***************************************************************************)
(* One TLC model for the two ways of writing beside others: the processes  *)
(* that index a source under its lock, and the writers, syncs and passes   *)
(* over the files of agent memory, which take none.  A behaviour picks one *)
(* of them in its initial state and runs it alone.                         *)
(***************************************************************************)
EXTENDS SourceWriteLock, MemoryRecords

VARIABLE side

writersVars == <<side, vars, memoryVars>>

WritersInit == side \in {"lock", "memory"} /\ Init /\ MemoryInit

LockStep == side = "lock" /\ Next /\ UNCHANGED <<side, memoryVars>>
MemoryStep == side = "memory" /\ MemoryNext /\ UNCHANGED <<side, vars>>

\* The scheduler keeps syncing the memory source, and a pass that has begun goes on.
MemoryFairness == /\ WF_memoryVars(side = "memory" /\ SyncStep)
                  /\ WF_memoryVars(side = "memory" /\ \E x \in Passes : PassStep(x))

WritersSpec == WritersInit /\ [][LockStep \/ MemoryStep]_writersVars /\ MemoryFairness
=============================================================================
