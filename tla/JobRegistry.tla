---------------------------- MODULE JobRegistry ----------------------------
(***************************************************************************)
(* Background jobs (jobs.py): the in-memory registry of each process and   *)
(* the snapshot files all processes share.  A job is driven by one thread  *)
(* of a process.  The thread changes the record under the registry lock    *)
(* and only then writes the snapshot, so between the two anything may      *)
(* happen.  The id of an index task is its job id too: a redelivered task  *)
(* runs under the id another process may still be using.                   *)
(***************************************************************************)
EXTENDS Naturals, Sequences, FiniteSetsExt

CONSTANTS JobHosts,      \* processes with a registry
          JobIds,        \* ids of jobs
          MaxRecords,    \* max_records of registry and store
          MaxRuns,       \* bound: jobs created
          MaxHostDeaths  \* bound: processes that die

ASSUME JobConstants == /\ MaxRecords \in Nat \ {0}
                       /\ MaxRuns \in Nat /\ MaxHostDeaths \in Nat

VARIABLES
    registry,   \* _jobs: [JobHosts -> [JobIds -> status]]
    order,      \* _order: [JobHosts -> Seq(JobIds)]
    thread,     \* the thread of a job: "idle", "running", "finishing"
    outbox,     \* the payload _publish has rendered and not yet written
    snaps,      \* the snapshot files: [JobIds -> status]
    clearing,   \* clear_finished: [JobIds -> {"no", "read", "unlink"}]
    orphan,     \* history: no writer is left behind the snapshot
    jobRuns, hostDeaths

jobVars == <<registry, order, thread, outbox, snaps, clearing, orphan, jobRuns,
             hostDeaths>>

\* No step tells a job that succeeded from one that failed.
JobStatus == {"none", "running", "ended"}

JobInit == /\ registry = [p \in JobHosts |-> [j \in JobIds |-> "none"]]
           /\ order = [p \in JobHosts |-> <<>>]
           /\ thread = [p \in JobHosts |-> [j \in JobIds |-> "idle"]]
           /\ outbox = [p \in JobHosts |-> [j \in JobIds |-> "none"]]
           /\ snaps = [j \in JobIds |-> "none"]
           /\ clearing = [j \in JobIds |-> "no"]
           /\ orphan = [j \in JobIds |-> FALSE]
           /\ jobRuns = 0 /\ hostDeaths = 0

(***************************************************************************)
(* _evict drops the oldest finished jobs past the cap: their record, and   *)
(* the first place of their id in the order.  A further place of the same  *)
(* id stays, for by then the record is gone.                               *)
(***************************************************************************)
\* Mutant: a running job may be evicted too.
RemovableAny(reg, ord) ==
    {i \in DOMAIN ord : reg[ord[i]] # "none" /\ \A k \in 1 .. i - 1 : ord[k] # ord[i]}

Removable(reg, ord) ==
    {i \in DOMAIN ord : reg[ord[i]] = "ended" /\ \A k \in 1 .. i - 1 : ord[k] # ord[i]}

\* How many of some places there are up to i.
Rank(places, i) == Cardinality({k \in places : k <= i})

EvictedPlaces(reg, ord) ==
    LET places == Removable(reg, ord)
    IN  {i \in places : Rank(places, i) + MaxRecords <= Len(ord)}

\* What is left of an order, closed up.
Without(ord, places) ==
    LET kept == DOMAIN ord \ places
    IN  [n \in 1 .. Cardinality(kept) |-> ord[CHOOSE i \in kept : Rank(kept, i) = n]]

Create(p, j) ==
    /\ jobRuns < MaxRuns
    /\ thread[p][j] = "idle"
    /\ LET reg == [registry[p] EXCEPT ![j] = "running"]
           ord == Append(order[p], j)
           places == EvictedPlaces(reg, ord)
       IN  /\ registry' = [registry EXCEPT ![p] =
                  [i \in JobIds |-> IF \E k \in places : ord[k] = i THEN "none" ELSE reg[i]]]
           /\ order' = [order EXCEPT ![p] = Without(ord, places)]
    /\ thread' = [thread EXCEPT ![p][j] = "running"]
    /\ outbox' = [outbox EXCEPT ![p][j] = "running"]
    /\ orphan' = [orphan EXCEPT ![j] = FALSE]
    /\ jobRuns' = jobRuns + 1
    /\ UNCHANGED <<snaps, clearing, hostDeaths>>

Progress(p, j) ==
    /\ thread[p][j] = "running" /\ outbox[p][j] = "none"
    /\ registry[p][j] = "running"
    /\ outbox' = [outbox EXCEPT ![p][j] = registry[p][j]]
    /\ UNCHANGED <<registry, order, thread, snaps, clearing, orphan, jobRuns, hostDeaths>>

\* finish has no guard on a status that is terminal already.
FinishJob(p, j) ==
    /\ thread[p][j] = "running" /\ outbox[p][j] = "none"
    /\ IF registry[p][j] = "none"
       THEN /\ thread' = [thread EXCEPT ![p][j] = "idle"]
            /\ UNCHANGED <<registry, outbox>>
       ELSE /\ registry' = [registry EXCEPT ![p][j] = "ended"]
            /\ outbox' = [outbox EXCEPT ![p][j] = "ended"]
            /\ thread' = [thread EXCEPT ![p][j] = "finishing"]
    /\ UNCHANGED <<order, snaps, clearing, orphan, jobRuns, hostDeaths>>

(***************************************************************************)
(* The snapshot store.  write replaces one file and evicts finished ones   *)
(* past the cap, the oldest first (which of them is left open here).       *)
(***************************************************************************)
Published(p, j) == /\ outbox' = [outbox EXCEPT ![p][j] = "none"]
                   /\ thread' = [thread EXCEPT ![p][j] = IF @ = "finishing" THEN "idle" ELSE @]

\* _evict: the finished files a store over its cap removes.
Surplus(files) ==
    LET present == {i \in JobIds : files[i] # "none"}
        finished == {i \in present : files[i] = "ended"}
        excess == IF Cardinality(present) > MaxRecords THEN Cardinality(present) - MaxRecords ELSE 0
    IN  {gone \in SUBSET finished : Cardinality(gone) = Min({excess, Cardinality(finished)})}

WriteSnapshot(p, j) ==
    /\ outbox[p][j] # "none"
    /\ LET written == [snaps EXCEPT ![j] = outbox[p][j]]
       IN  \E gone \in Surplus(written) :
              snaps' = [i \in JobIds |-> IF i \in gone THEN "none" ELSE written[i]]
    /\ Published(p, j)
    /\ UNCHANGED <<registry, order, clearing, orphan, jobRuns, hostDeaths>>

\* An OSError of the write is swallowed.
WriteFails(p, j) ==
    /\ outbox[p][j] # "none"
    /\ orphan' = [orphan EXCEPT ![j] = TRUE]
    /\ Published(p, j)
    /\ UNCHANGED <<registry, order, snaps, clearing, jobRuns, hostDeaths>>

(***************************************************************************)
(* clear: finished records of this process, then finished snapshot files,  *)
(* each read first and unlinked afterwards.                                *)
(***************************************************************************)
ClearLocal(p, chosen) ==
    /\ \A j \in JobIds : clearing[j] = "no"
    /\ LET gone == {j \in chosen : registry[p][j] = "ended"}
           reg == [j \in JobIds |-> IF j \in gone THEN "none" ELSE registry[p][j]]
       IN  /\ registry' = [registry EXCEPT ![p] = reg]
           /\ order' = [order EXCEPT ![p] =
                 IF gone = {} THEN @
                 ELSE Without(@, {i \in DOMAIN order[p] : reg[order[p][i]] = "none"})]
    /\ clearing' = [j \in JobIds |-> IF j \in chosen THEN "read" ELSE "no"]
    /\ UNCHANGED <<thread, outbox, snaps, orphan, jobRuns, hostDeaths>>

ClearRead(j) ==
    /\ clearing[j] = "read"
    /\ clearing' = [clearing EXCEPT ![j] = IF snaps[j] = "ended" THEN "unlink" ELSE "no"]
    /\ UNCHANGED <<registry, order, thread, outbox, snaps, orphan, jobRuns, hostDeaths>>

ClearUnlink(j) ==
    /\ clearing[j] = "unlink"
    /\ clearing' = [clearing EXCEPT ![j] = "no"]
    /\ snaps' = [snaps EXCEPT ![j] = "none"]
    /\ UNCHANGED <<registry, order, thread, outbox, orphan, jobRuns, hostDeaths>>

\* A process dies with its registry and its threads; the files stay.
HostDies(p) ==
    /\ hostDeaths < MaxHostDeaths
    /\ hostDeaths' = hostDeaths + 1
    /\ registry' = [registry EXCEPT ![p] = [j \in JobIds |-> "none"]]
    /\ order' = [order EXCEPT ![p] = <<>>]
    /\ thread' = [thread EXCEPT ![p] = [j \in JobIds |-> "idle"]]
    /\ outbox' = [outbox EXCEPT ![p] = [j \in JobIds |-> "none"]]
    /\ orphan' = [j \in JobIds |-> orphan[j] \/ thread[p][j] # "idle"]
    /\ UNCHANGED <<snaps, clearing, jobRuns>>

JobNext ==
    \/ \E p \in JobHosts, j \in JobIds :
          \/ Create(p, j) \/ Progress(p, j)
          \/ FinishJob(p, j)
          \/ WriteSnapshot(p, j) \/ WriteFails(p, j)
          \/ ClearLocal(p, {j})
    \/ \E p \in JobHosts : ClearLocal(p, JobIds) \/ HostDies(p)
    \/ \E j \in JobIds : ClearRead(j) \/ ClearUnlink(j)

JobSpec == JobInit /\ [][JobNext]_jobVars

(***************************************************************************)
(* Properties.                                                             *)
(***************************************************************************)

\* Every variable has its type.
JobTypeOK == /\ registry \in [JobHosts -> [JobIds -> JobStatus]]
             /\ order \in [JobHosts -> Seq(JobIds)]
             /\ thread \in [JobHosts -> [JobIds -> {"idle", "running", "finishing"}]]
             /\ outbox \in [JobHosts -> [JobIds -> JobStatus]]
             /\ snaps \in [JobIds -> JobStatus]
             /\ clearing \in [JobIds -> {"no", "read", "unlink"}]
             /\ orphan \in [JobIds -> BOOLEAN]
             /\ jobRuns \in 0 .. MaxRuns /\ hostDeaths \in 0 .. MaxHostDeaths

\* A shared snapshot that says "running" has a thread behind it, unless its
\* process died or could not write.
NoGhostJob == \A j \in JobIds :
    snaps[j] = "running" => orphan[j] \/ \E p \in JobHosts : thread[p][j] # "idle"

\* The registry of a process has every job that runs there ("Running jobs are
\* never evicted").
RunningJobIsKept == \A p \in JobHosts, j \in JobIds :
    thread[p][j] = "running" =>
        registry[p][j] = "running" /\ \E i \in DOMAIN order[p] : order[p][i] = j

\* The jobs a console shows are the jobs there are: what replicas show as
\* indexing is being indexed, and no process forgets what it runs, although
\* several processes may drive one id, snapshots are written after the registry
\* lock is released, and jobs are evicted and cleared meanwhile.
JobBoardIsTrue == NoGhostJob /\ RunningJobIsKept
=============================================================================
