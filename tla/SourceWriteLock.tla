-------------------------- MODULE SourceWriteLock --------------------------
(***************************************************************************)
(* How a writer of one source is excluded from every other writer of it on *)
(* a shared (Postgres) backend: SyncEngine._source_write_lock of           *)
(* sync/engine.py takes a SourceLease (a database row with a heartbeat)    *)
(* and then the source_lock file (both of sync/locks.py), yields to the    *)
(* writer, removes the file and releases the lease.                        *)
(*                                                                         *)
(* A writer is a thread of a process; there is one process per host.  The  *)
(* lease owner is host:pid, the same string for every thread of a process. *)
(* Time is kept as "is the lease's heartbeat recent".  The state           *)
(* directory, and with it the lock file, is shared by all hosts.           *)
(***************************************************************************)
EXTENDS Naturals, FiniteSets

CONSTANTS Procs,         \* indexer processes (one per host)
          Slots,         \* writer threads of a process
          Stalls,        \* may a live process miss its heartbeats?
          SameIdentity,  \* does a restart keep hostname and pid?
          MaxRestarts,   \* bound: restarts of one process
          Free           \* "no lease row", "no lock file"

ASSUME LockConstants == /\ Stalls \in BOOLEAN
                        /\ SameIdentity \in BOOLEAN
                        /\ MaxRestarts \in Nat
                        /\ Free \notin Procs \X Nat

Writers == Procs \X Slots

VARIABLES
    restarts,  \* [Procs -> 0 .. MaxRestarts]
    pc,        \* [Writers -> Pc]: where a writer is in _source_write_lock
    held,      \* [Writers -> BOOLEAN]: SourceLease._held, its thread is beating
    lease,     \* source_leases: the owner of the row, or Free
    recent,    \* heartbeat_at >= now - stale_after_s
    file,      \* the lock file: who created it, whether its JSON is complete
    stamp      \* the host:pid its JSON names

vars == <<restarts, pc, held, lease, recent, file, stamp>>
leaseVars == <<held, lease, recent>>
fileVars == <<file, stamp>>

Pc == {"idle", "acquiring", "checking", "clearing", "creating", "filling",
       "writing", "releasing"}

\* hostname:pid.  A recreated container has a new one.
Identity(p) == <<p, IF SameIdentity THEN 0 ELSE restarts[p]>>
Owner(w) == Identity(w[1])
Identities == Procs \X (0 .. MaxRestarts)
NoFile == [by |-> Free, full |-> FALSE]

Init == /\ restarts = [p \in Procs |-> 0]
        /\ pc = [w \in Writers |-> "idle"]
        /\ held = [w \in Writers |-> FALSE]
        /\ lease = Free
        /\ recent = FALSE
        /\ file = NoFile
        /\ stamp = Free

Goto(w, l) == pc' = [pc EXCEPT ![w] = l]

\* Mutant: a writer that takes the file lock alone.
BeginUnleased(w) == /\ pc[w] = "idle"
                    /\ Goto(w, "checking")
                    /\ UNCHANGED <<restarts, leaseVars, fileVars>>

Begin(w) == /\ pc[w] = "idle"
            /\ Goto(w, "acquiring")
            /\ UNCHANGED <<restarts, leaseVars, fileVars>>

(***************************************************************************)
(* SourceLease.  try_acquire is one INSERT ... ON CONFLICT DO UPDATE WHERE *)
(* the row is ours or its heartbeat has aged out.                          *)
(***************************************************************************)
\* Mutant: the upsert without its WHERE clause.
AvailableAnyway(w) == TRUE

Available(w) == lease = Free \/ lease = Owner(w) \/ ~recent

Acquire(w) == /\ pc[w] = "acquiring"
              /\ Available(w)
              /\ lease' = Owner(w)
              /\ recent' = TRUE
              /\ held' = [held EXCEPT ![w] = TRUE]
              /\ Goto(w, "checking")
              /\ UNCHANGED <<restarts, fileVars>>

\* acquire() gives up after lock_timeout_seconds: SourceLeaseError.
AcquireTimeout(w) == /\ pc[w] = "acquiring"
                     /\ ~Available(w)
                     /\ Goto(w, "idle")
                     /\ UNCHANGED <<restarts, leaseVars, fileVars>>

\* One round of the heartbeat thread: UPDATE ... WHERE owner = ours.  No row
\* means the lease was lost: the thread stops and clears _held; the writer
\* that took the lease is not told.
Beat(w) == /\ held[w]
           /\ IF lease = Owner(w)
              THEN recent' = TRUE /\ UNCHANGED held
              ELSE held' = [held EXCEPT ![w] = FALSE] /\ UNCHANGED recent
           /\ UNCHANGED <<restarts, pc, lease, fileVars>>

\* Three heartbeats in a row fail: the lease is relinquished.
GiveUpLease(w) == /\ Stalls
                  /\ held[w]
                  /\ held' = [held EXCEPT ![w] = FALSE]
                  /\ UNCHANGED <<restarts, pc, lease, recent, fileVars>>

\* stale_after_s pass without a heartbeat of the row's owner.
GoStale == /\ recent
           /\ Stalls \/ ~\E w \in Writers : held[w] /\ lease = Owner(w)
           /\ recent' = FALSE
           /\ UNCHANGED <<restarts, pc, held, lease, fileVars>>

\* release(): DELETE ... WHERE owner = ours, and only if still held.
Release(w) == /\ pc[w] = "releasing"
              /\ lease' = IF held[w] /\ lease = Owner(w) THEN Free ELSE lease
              /\ held' = [held EXCEPT ![w] = FALSE]
              /\ Goto(w, "idle")
              /\ UNCHANGED <<restarts, recent, fileVars>>

(***************************************************************************)
(* source_lock.  A lock file is active only if its JSON can be read and    *)
(* names this host and a live pid: here, this very process.                *)
(***************************************************************************)
\* Mutant: any complete lock file counts, whatever host wrote it.
ActiveAnyHost(w) == file.full

Active(w) == file.full /\ stamp = Owner(w)

Check(w) == /\ pc[w] = "checking"
            /\ Goto(w, IF file # NoFile /\ ~Active(w) THEN "clearing" ELSE "creating")
            /\ UNCHANGED <<restarts, leaseVars, fileVars>>

RemoveFile == file' = NoFile /\ stamp' = Free

\* _unlink_lock removes whatever file is there now.
Clear(w) == /\ pc[w] = "clearing"
            /\ RemoveFile
            /\ Goto(w, "creating")
            /\ UNCHANGED <<restarts, leaseVars>>

\* open(..., "x") creates an empty file.
Create(w) == /\ pc[w] = "creating"
             /\ file = NoFile
             /\ file' = [by |-> w, full |-> FALSE]
             /\ stamp' = Owner(w)
             /\ Goto(w, "filling")
             /\ UNCHANGED <<restarts, leaseVars>>

\* FileExistsError: poll again, or give up once lock_timeout_seconds are over.
CreateFails(w) == /\ pc[w] = "creating"
                  /\ file # NoFile
                  /\ Goto(w, "checking") \/ Goto(w, "releasing")
                  /\ UNCHANGED <<restarts, leaseVars, fileVars>>

\* json.dump and close; an unlinked file takes the text with it.
Fill(w) == /\ pc[w] = "filling"
           /\ file' = IF file.by = w THEN [file EXCEPT !.full = TRUE] ELSE file
           /\ Goto(w, "writing")
           /\ UNCHANGED <<restarts, leaseVars, stamp>>

\* The body of the with statement ends; the file is removed, whoever made it.
EndWrite(w) == /\ pc[w] = "writing"
               /\ RemoveFile
               /\ Goto(w, "releasing")
               /\ UNCHANGED <<restarts, leaseVars>>

(***************************************************************************)
(* A process is killed and started again: nothing is released.             *)
(***************************************************************************)
Crash(p) == /\ restarts[p] < MaxRestarts
            /\ restarts' = [restarts EXCEPT ![p] = @ + 1]
            /\ pc' = [w \in Writers |-> IF w[1] = p THEN "idle" ELSE pc[w]]
            /\ held' = [w \in Writers |-> IF w[1] = p THEN FALSE ELSE held[w]]
            /\ UNCHANGED <<lease, recent, fileVars>>

Step(w) == \/ Begin(w) \/ Acquire(w) \/ AcquireTimeout(w) \/ Release(w)
           \/ Check(w) \/ Clear(w) \/ Create(w) \/ CreateFails(w)
           \/ Fill(w) \/ EndWrite(w)

Next == \/ \E w \in Writers : Step(w) \/ Beat(w) \/ GiveUpLease(w)
        \/ \E p \in Procs : Crash(p)
        \/ GoStale

Spec == Init /\ [][Next]_vars

(***************************************************************************)
(* Fairness: writes keep being asked for (the scheduler beat), a writer    *)
(* that is past the lease keeps going, and time passes.  Strong fairness   *)
(* of Acquire: a poller of a lease that is free again and again does not   *)
(* miss it for ever.  Timeouts, missed heartbeats and crashes are under no *)
(* obligation to happen.                                                   *)
(***************************************************************************)
Fairness == /\ \A w \in Writers :
                 /\ WF_vars(Begin(w))
                 /\ SF_vars(Acquire(w))
                 /\ WF_vars(Check(w) \/ Clear(w) \/ Fill(w) \/ EndWrite(w) \/ Release(w))
                 /\ WF_vars(Create(w) \/ CreateFails(w))
            /\ WF_vars(GoStale)

LiveSpec == Spec /\ Fairness

(***************************************************************************)
(* Properties.                                                             *)
(***************************************************************************)

\* Every variable has its type.
TypeOK == /\ restarts \in [Procs -> 0 .. MaxRestarts]
          /\ pc \in [Writers -> Pc]
          /\ held \in [Writers -> BOOLEAN]
          /\ lease \in Identities \cup {Free}
          /\ recent \in BOOLEAN
          /\ file \in [by : Writers \cup {Free}, full : BOOLEAN]
          /\ stamp \in Identities \cup {Free}

\* Two indexers can never both commit one source (class SourceLease).
IndexersExclude == \A v, w \in Writers :
    pc[v] = "writing" /\ pc[w] = "writing" => v[1] = w[1]

\* Clearing "stale" lock files never removes the file of a live writer: while
\* a source is written, the file in place is its writer's and complete.
WriterKeepsFile == \A w \in Writers : pc[w] = "writing" => file = [by |-> w, full |-> TRUE]

\* A crash never locks a source for good: from any state, some writer gets to
\* write it (the comment in _lock_is_active about bricked restarts).
NeverBricked == []<>(\E w \in Writers : pc[w] = "writing")
=============================================================================
