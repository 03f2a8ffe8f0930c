----------------------- MODULE SourceWriteLockProofs -----------------------
(***************************************************************************)
(* With one writer thread per process and heartbeats that arrive in time,  *)
(* the lease excludes any number of indexers through any number of         *)
(* crashes and takeovers.  The argument: a writer past acquire() has the   *)
(* row and is beating it, so the row cannot go stale, be re-acquired or be *)
(* deleted under it; hence nobody else is in source_lock, and the file it  *)
(* made is still there.                                                    *)
(***************************************************************************)
EXTENDS SourceWriteLock, TLAPS

\* Past SourceLease.acquire and not yet released.
Inside == {"checking", "clearing", "creating", "filling", "writing", "releasing"}

\* Every variable has its type in every reachable state.
THEOREM LockTypeCorrect == Spec => []TypeOK
  <1> USE LockConstants DEF TypeOK, Pc
  <1>0. NoFile \in [by : Writers \cup {Free}, full : BOOLEAN]
    BY DEF NoFile
  <1>1. Init => TypeOK
    <2> SUFFICES ASSUME Init PROVE TypeOK
      OBVIOUS
    <2>1. restarts \in [Procs -> 0 .. MaxRestarts]
      BY DEF Init
    <2>2. pc \in [Writers -> Pc] /\ held \in [Writers -> BOOLEAN]
      BY DEF Init
    <2> QED
      BY <1>0, <2>1, <2>2 DEF Init
  <1>2. TypeOK /\ [Next]_vars => TypeOK'
    <2> SUFFICES ASSUME TypeOK, [Next]_vars PROVE TypeOK'
      OBVIOUS
    <2> USE DEF leaseVars, fileVars, Goto, RemoveFile
    <2>1. ASSUME NEW w \in Writers PROVE Owner(w) \in Identities
      BY DEF Owner, Identity, Identities, Writers
    <2>2. ASSUME NEW w \in Writers, Begin(w) \/ AcquireTimeout(w) \/ Check(w) \/ CreateFails(w)
          PROVE  TypeOK'
      BY <2>2 DEF Begin, AcquireTimeout, Check, CreateFails
    <2>3. ASSUME NEW w \in Writers, Acquire(w) \/ Release(w) PROVE TypeOK'
      BY <2>1, <2>3 DEF Acquire, Release
    <2>4. ASSUME NEW w \in Writers, Clear(w) \/ EndWrite(w) PROVE TypeOK'
      BY <1>0, <2>4 DEF Clear, EndWrite
    <2>5. ASSUME NEW w \in Writers, Create(w) PROVE TypeOK'
      BY <2>1, <2>5 DEF Create
    <2>6. ASSUME NEW w \in Writers, Fill(w) PROVE TypeOK'
      BY <2>6 DEF Fill
    <2>7. ASSUME NEW w \in Writers, Beat(w) \/ GiveUpLease(w) PROVE TypeOK'
      BY <2>7 DEF Beat, GiveUpLease
    <2>8. ASSUME NEW p \in Procs, Crash(p) PROVE TypeOK'
      <3>1. restarts' \in [Procs -> 0 .. MaxRestarts]
        BY <2>8 DEF Crash
      <3>2. pc' \in [Writers -> Pc]
        BY <2>8 DEF Crash
      <3>3. held' \in [Writers -> BOOLEAN]
        BY <2>8 DEF Crash
      <3> QED
        BY <2>8, <3>1, <3>2, <3>3 DEF Crash
    <2>9. CASE GoStale
      BY <2>9 DEF GoStale
    <2>10. CASE UNCHANGED vars
      BY <2>10 DEF vars
    <2> QED
      BY <2>2, <2>3, <2>4, <2>5, <2>6, <2>7, <2>8, <2>9, <2>10 DEF Next, Step
  <1> QED
    BY <1>1, <1>2, PTL DEF Spec

-----------------------------------------------------------------------------
\* Whoever is inside owns the row and keeps it recent.
InsideOwnsLease == \A w \in Writers :
    pc[w] \in Inside => held[w] = TRUE /\ lease = Owner(w) /\ recent = TRUE

\* The lock file follows its writer from open(..., "x") to unlink.
InsideOwnsFile == \A w \in Writers :
    /\ pc[w] = "filling" => file = [by |-> w, full |-> FALSE]
    /\ pc[w] = "writing" => file = [by |-> w, full |-> TRUE]

LockInv == TypeOK /\ InsideOwnsLease /\ InsideOwnsFile

\* With one thread per process an owner string names one writer.
LEMMA OwnerIsUnique == ASSUME \A a, b \in Slots : a = b,
                              NEW v \in Writers, NEW w \in Writers, Owner(v) = Owner(w)
                       PROVE  v = w
  BY DEF Owner, Identity, Writers

LEMMA OwnerIsNotFree == ASSUME TypeOK, NEW w \in Writers PROVE Owner(w) # Free
  BY LockConstants DEF TypeOK, Owner, Identity, Writers

\* At most one writer is inside.
LEMMA AloneInside == ASSUME \A a, b \in Slots : a = b, LockInv,
                            NEW v \in Writers, NEW w \in Writers,
                            pc[v] \in Inside, pc[w] \in Inside
                     PROVE  v = w
  BY OwnerIsUnique DEF LockInv, InsideOwnsLease

\* A step of a writer in source_lock keeps the row and the file its own.
LEMMA WriterStep == ASSUME ~Stalls, \A a, b \in Slots : a = b, LockInv,
                           NEW w \in Writers, Step(w)
                    PROVE  InsideOwnsLease' /\ InsideOwnsFile'
  <1> USE DEF LockInv, TypeOK, leaseVars, fileVars, Goto, Inside
  <1>0. \A v \in Writers : Owner(v)' = Owner(v)
    BY DEF Step, Begin, Acquire, AcquireTimeout, Release, Check, Clear, Create,
           CreateFails, Fill, EndWrite, Owner, Identity
  <1>1. CASE Begin(w) \/ AcquireTimeout(w)
    BY <1>0, <1>1 DEF Begin, AcquireTimeout, InsideOwnsLease, InsideOwnsFile
  <1>2. CASE Acquire(w)
    <2>1. \A v \in Writers : pc[v] \notin Inside
      <3> SUFFICES ASSUME NEW v \in Writers, pc[v] \in Inside PROVE FALSE
        OBVIOUS
      <3>1. lease = Owner(v) /\ recent
        BY DEF InsideOwnsLease
      <3>2. Owner(w) = Owner(v)
        BY <1>2, <3>1, OwnerIsNotFree DEF Acquire, Available
      <3>3. v = w
        BY <3>2, OwnerIsUnique
      <3> QED
        BY <1>2, <3>3 DEF Acquire
    <2>2. \A v \in Writers : pc'[v] \in Inside => v = w
      BY <1>2, <2>1 DEF Acquire
    <2>3. pc'[w] = "checking" /\ held'[w] = TRUE /\ lease' = Owner(w) /\ recent' = TRUE
      BY <1>2 DEF Acquire
    <2> QED
      BY <1>0, <2>2, <2>3 DEF InsideOwnsLease, InsideOwnsFile
  <1>3. CASE pc[w] \in Inside
    <2>1. \A v \in Writers : pc[v] \in Inside => v = w
      BY <1>3, AloneInside
    <2>2. \A v \in Writers : v # w => pc'[v] = pc[v]
      BY DEF Step, Begin, Acquire, AcquireTimeout, Release, Check, Clear, Create,
             CreateFails, Fill, EndWrite
    <2>3. \A v \in Writers : pc'[v] \in Inside => v = w
      BY <2>1, <2>2
    <2>4. held[w] = TRUE /\ lease = Owner(w) /\ recent = TRUE
      BY <1>3 DEF InsideOwnsLease
    <2>5. CASE Release(w)
      BY <2>3, <2>5 DEF Release, InsideOwnsLease, InsideOwnsFile
    <2>6. CASE Check(w) \/ CreateFails(w)
      BY <1>0, <2>3, <2>4, <2>6 DEF Check, CreateFails, InsideOwnsLease, InsideOwnsFile
    <2>7. CASE Clear(w) \/ EndWrite(w)
      BY <1>0, <2>3, <2>4, <2>7 DEF Clear, EndWrite, InsideOwnsLease, InsideOwnsFile
    <2>8. CASE Create(w)
      BY <1>0, <2>3, <2>4, <2>8 DEF Create, InsideOwnsLease, InsideOwnsFile
    <2>9. CASE Fill(w)
      <3>1. file = [by |-> w, full |-> FALSE]
        BY <2>9 DEF Fill, InsideOwnsFile
      <3>2. file' = [by |-> w, full |-> TRUE]
        BY <2>9, <3>1 DEF Fill
      <3> QED
        BY <1>0, <2>3, <2>4, <2>9, <3>2 DEF Fill, InsideOwnsLease, InsideOwnsFile
    <2> QED
      BY <1>3, <2>5, <2>6, <2>7, <2>8, <2>9
         DEF Step, Begin, Acquire, AcquireTimeout
  <1> QED
    BY <1>1, <1>2, <1>3 DEF Step, Release, Check, Clear, Create, CreateFails, Fill, EndWrite

\* Heartbeats, time and crashes take nothing from a live writer.
LEMMA AroundStep == ASSUME ~Stalls, LockInv,
                           \/ \E w \in Writers : Beat(w) \/ GiveUpLease(w)
                           \/ \E p \in Procs : Crash(p)
                           \/ GoStale
                    PROVE  InsideOwnsLease' /\ InsideOwnsFile'
  <1> USE DEF LockInv, TypeOK, leaseVars, fileVars, Inside
  <1>1. CASE \E w \in Writers : Beat(w)
    <2> PICK w \in Writers : Beat(w)
      BY <1>1
    <2>1. UNCHANGED <<pc, lease, restarts, file>> /\ (recent => recent')
      BY DEF Beat
    <2>2. \A v \in Writers : Owner(v)' = Owner(v)
      BY <2>1 DEF Owner, Identity
    <2>3. \A v \in Writers : lease = Owner(v) => held'[v] = held[v]
      BY DEF Beat
    <2> QED
      BY <2>1, <2>2, <2>3 DEF InsideOwnsLease, InsideOwnsFile
  <1>2. CASE \E p \in Procs : Crash(p)
    <2> PICK p \in Procs : Crash(p)
      BY <1>2
    <2>1. \A v \in Writers : pc'[v] \in Inside =>
              /\ v[1] # p /\ pc'[v] = pc[v] /\ held'[v] = held[v]
              /\ Owner(v)' = Owner(v)
      BY DEF Crash, Owner, Identity, Writers
    <2> QED
      BY <2>1 DEF Crash, InsideOwnsLease, InsideOwnsFile
  <1>3. CASE GoStale
    <2>1. \A w \in Writers : pc[w] \notin Inside
      BY <1>3 DEF GoStale, InsideOwnsLease
    <2> QED
      BY <1>3, <2>1 DEF GoStale, InsideOwnsLease, InsideOwnsFile
  <1> QED
    BY <1>1, <1>2, <1>3 DEF GiveUpLease

\* Indexers never write one source at the same time, and stale-file clearing
\* never removes a live writer's file: for any number of processes and
\* crashes, given one writer thread per process and timely heartbeats.
THEOREM SourceIsExclusive ==
    ASSUME ~Stalls, \A a, b \in Slots : a = b
    PROVE  Spec => [](IndexersExclude /\ WriterKeepsFile)
  <1>1. Init => InsideOwnsLease /\ InsideOwnsFile
    BY DEF Init, InsideOwnsLease, InsideOwnsFile, Inside
  <1>2. LockInv /\ TypeOK' /\ [Next]_vars => (InsideOwnsLease /\ InsideOwnsFile)'
    <2> SUFFICES ASSUME LockInv, [Next]_vars PROVE InsideOwnsLease' /\ InsideOwnsFile'
      OBVIOUS
    <2>1. CASE Next
      BY <2>1, WriterStep, AroundStep DEF Next
    <2>2. CASE UNCHANGED vars
      BY <2>2 DEF vars, LockInv, InsideOwnsLease, InsideOwnsFile, Owner, Identity
    <2> QED
      BY <2>1, <2>2
  <1>3. LockInv => IndexersExclude /\ WriterKeepsFile
    BY AloneInside DEF LockInv, InsideOwnsFile, IndexersExclude, WriterKeepsFile, Inside
  <1> QED
    BY LockTypeCorrect, <1>1, <1>2, <1>3, PTL DEF Spec, LockInv

\* In particular a live writer's lock file is there as long as the writer is
\* inside: under the same two conditions nobody takes it for a stale one.
COROLLARY WriterFileStays ==
    ASSUME ~Stalls, \A a, b \in Slots : a = b
    PROVE  Spec => []WriterKeepsFile
  <1>1. Spec => [](IndexersExclude /\ WriterKeepsFile)
    BY SourceIsExclusive
  <1> QED
    BY <1>1, PTL
=============================================================================
