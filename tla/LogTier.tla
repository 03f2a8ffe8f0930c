------------------------------ MODULE LogTier ------------------------------
(***************************************************************************)
(* The observation ledger (telemetry/interactions.py, sync/log_queue.py).  *)
(* A request leaves an event in a bounded ring; the flusher hands batches  *)
(* to a sink: the state store, the log queue, or a spool file.  The log    *)
(* tier claims queued batches, ingests spool files, rolls expired rows     *)
(* into one partition per day and drops old partitions.  Every process     *)
(* with a scheduler, and the logger, may roll.  Events are numbered in the *)
(* order of started_at and each has a day of its own.                      *)
(***************************************************************************)
EXTENDS Naturals, Sequences, FiniteSets, SequencesExt

CONSTANTS MaxEvents,    \* bound: events
          RingCapacity, \* capacity of the ring
          BatchSize,    \* batch_size of a flush
          MaxDepth,     \* max_queue_depth
          MaxTries,     \* max_attempts of a log task
          Rollers,      \* who runs run_log_maintenance
          MaxLogFaults  \* bound: deaths and failed writes

ASSUME LogConstants == /\ {RingCapacity, BatchSize, MaxDepth, MaxTries} \subseteq Nat \ {0}
                       /\ MaxEvents \in Nat /\ MaxLogFaults \in Nat

VARIABLES
    sink,        \* the sink resolve_sink has picked
    recorded,    \* history: events recorded
    ring,        \* InteractionBuffer._events
    flushing,    \* the batch between _drain and the sink
    logTasks,    \* rows of log_tasks to be done: [events, tries]
    deadTasks,   \* events of dead rows
    logger,      \* the claimed task, and whether its rows are written
    spool,       \* events in the spool file
    ingest,      \* ingest_spool: [at, events]
    hot,         \* interaction_events
    cold,        \* rows of an event in the partitions
    roller,      \* roll: [at, todo, done] of every roller
    excused,     \* history: counted as dropped, lost with a process, expired
    appended,    \* history: added to a spool file that was being ingested
    twice,       \* history: what may give an event a second cold row
    logFaults

logVars == <<sink, recorded, ring, flushing, logTasks, deadTasks, logger, spool, ingest, hot,
             cold, roller, excused, appended, twice, logFaults>>
bufferVars == <<sink, recorded, ring, flushing>>
queueVars == <<logTasks, deadTasks, logger>>
spoolVars == <<spool, ingest, appended>>
tierVars == <<hot, cold, roller, twice>>

Events == 1 .. MaxEvents
NoIngest == [at |-> "idle", events |-> {}]
NoClaim == [at |-> "idle", events |-> {}, tries |-> 0]
NoRoll == [at |-> "idle", todo |-> {}, done |-> {}]

LogInit == /\ sink \in {"state", "queue", "spool"}
           /\ recorded = {} /\ ring = <<>> /\ flushing = {}
           /\ logTasks = {} /\ deadTasks = {} /\ logger = NoClaim
           /\ spool = {} /\ ingest = NoIngest
           /\ hot = {} /\ cold = [e \in Events |-> 0]
           /\ roller = [r \in Rollers |-> NoRoll]
           /\ excused = {} /\ appended = {} /\ twice = {} /\ logFaults = 0

LogFault == logFaults < MaxLogFaults /\ logFaults' = logFaults + 1

(***************************************************************************)
(* The ring and the flusher.                                               *)
(***************************************************************************)
\* Mutant: a ring without a capacity.
RecordUnbounded(e) == /\ recorded = 1 .. e - 1
                      /\ recorded' = recorded \cup {e}
                      /\ ring' = Append(ring, e)
                      /\ UNCHANGED <<sink, flushing, queueVars, spoolVars, tierVars, excused,
                                     logFaults>>

\* A full ring drops its oldest event.
Record(e) == /\ recorded = 1 .. e - 1
             /\ recorded' = recorded \cup {e}
             /\ LET full == Len(ring) >= RingCapacity
                IN  /\ ring' = Append(IF full THEN Tail(ring) ELSE ring, e)
                    /\ excused' = IF full THEN excused \cup {Head(ring)} ELSE excused
             /\ UNCHANGED <<sink, flushing, queueVars, spoolVars, tierVars, logFaults>>

TakeBatch == /\ flushing = {} /\ ring # <<>>
             /\ flushing' = ToSet(SubSeq(ring, 1, Min({BatchSize, Len(ring)})))
             /\ ring' = SubSeq(ring, Min({BatchSize, Len(ring)}) + 1, Len(ring))
             /\ UNCHANGED <<sink, recorded, queueVars, spoolVars, tierVars, excused, logFaults>>

\* ON CONFLICT DO NOTHING.  A row that has been rolled away does not conflict.
WriteEvents(E) == /\ hot' = hot \cup E
                  /\ twice' = twice \cup {e \in E \ hot : cold[e] > 0}

FlushToState == /\ sink = "state" /\ flushing # {}
                /\ WriteEvents(flushing)
                /\ flushing' = {}
                /\ UNCHANGED <<sink, recorded, ring, queueVars, spoolVars, cold, roller, excused,
                               logFaults>>

OverDepth == Cardinality(logTasks) + (IF logger = NoClaim THEN 0 ELSE 1) >= MaxDepth

FlushToQueue == /\ sink = "queue" /\ flushing # {}
                /\ IF OverDepth
                   THEN excused' = excused \cup flushing /\ UNCHANGED logTasks
                   ELSE /\ logTasks' = logTasks \cup {[events |-> flushing, tries |-> 0]}
                        /\ UNCHANGED excused
                /\ flushing' = {}
                /\ UNCHANGED <<sink, recorded, ring, deadTasks, logger, spoolVars, tierVars,
                               logFaults>>

FlushToSpool == /\ sink = "spool" /\ flushing # {}
                /\ spool' = spool \cup flushing
                /\ appended' = IF ingest = NoIngest THEN appended ELSE appended \cup flushing
                /\ flushing' = {}
                /\ UNCHANGED <<sink, recorded, ring, queueVars, ingest, tierVars, excused,
                               logFaults>>

\* The sink raises: the batch is counted as dropped.
FlushFails == /\ flushing # {} /\ LogFault
              /\ excused' = excused \cup flushing
              /\ flushing' = {}
              /\ UNCHANGED <<sink, recorded, ring, queueVars, spoolVars, tierVars>>

\* The process dies with what it has buffered.
ProducerDies == /\ (flushing # {} \/ ring # <<>>) /\ LogFault
                /\ excused' = excused \cup flushing \cup ToSet(ring)
                /\ flushing' = {} /\ ring' = <<>>
                /\ UNCHANGED <<sink, recorded, queueVars, spoolVars, tierVars>>

(***************************************************************************)
(* The logger: claim, write, acknowledge.                                  *)
(***************************************************************************)
\* Mutant: only a batch that was never delivered is claimed.
ClaimFresh(t) == /\ logger = NoClaim /\ t.tries = 0
                 /\ logTasks' = logTasks \ {t}
                 /\ logger' = [at |-> "claimed", events |-> t.events, tries |-> t.tries + 1]
                 /\ UNCHANGED <<bufferVars, deadTasks, spoolVars, tierVars, excused, logFaults>>

ClaimBatch(t) == /\ logger = NoClaim
                 /\ logTasks' = logTasks \ {t}
                 /\ logger' = [at |-> "claimed", events |-> t.events, tries |-> t.tries + 1]
                 /\ UNCHANGED <<bufferVars, deadTasks, spoolVars, tierVars, excused, logFaults>>

HandleBatch == /\ logger.at = "claimed"
               /\ WriteEvents(logger.events)
               /\ logger' = [logger EXCEPT !.at = "written"]
               /\ UNCHANGED <<bufferVars, logTasks, deadTasks, spoolVars, cold, roller, excused,
                              logFaults>>

AckBatch == /\ logger.at = "written"
            /\ logger' = NoClaim
            /\ UNCHANGED <<bufferVars, logTasks, deadTasks, spoolVars, tierVars, excused,
                           logFaults>>

\* The write fails, or the logger dies and its claim expires: another delivery
\* while there are attempts left.
BatchReturns == /\ logger # NoClaim /\ LogFault
                /\ IF logger.tries < MaxTries
                   THEN /\ logTasks' = logTasks \cup {[events |-> logger.events,
                                                       tries |-> logger.tries]}
                        /\ UNCHANGED deadTasks
                   ELSE deadTasks' = deadTasks \cup logger.events /\ UNCHANGED logTasks
                /\ logger' = NoClaim
                /\ UNCHANGED <<bufferVars, spoolVars, tierVars, excused>>

(***************************************************************************)
(* ingest_spool: read the file, write its events, remove the file.         *)
(***************************************************************************)
ReadSpool == /\ ingest = NoIngest /\ spool # {}
             /\ ingest' = [at |-> "read", events |-> spool]
             /\ UNCHANGED <<bufferVars, queueVars, spool, appended, tierVars, excused, logFaults>>

IngestSpool == /\ ingest.at = "read"
               /\ WriteEvents(ingest.events)
               /\ ingest' = [ingest EXCEPT !.at = "written"]
               /\ UNCHANGED <<bufferVars, queueVars, spool, appended, cold, roller, excused,
                              logFaults>>

\* Mutant: the file goes before its rows are committed.
UnlinkSpoolEarly == /\ ingest.at \in {"read", "written"}
                    /\ spool' = {}
                    /\ ingest' = IF ingest.at = "written" THEN NoIngest ELSE ingest
                    /\ UNCHANGED <<bufferVars, queueVars, appended, tierVars, excused, logFaults>>

UnlinkSpool == /\ ingest.at = "written"
               /\ spool' = {}
               /\ ingest' = NoIngest
               /\ UNCHANGED <<bufferVars, queueVars, appended, tierVars, excused, logFaults>>

IngestFails == /\ ingest # NoIngest /\ LogFault
               /\ ingest' = NoIngest
               /\ UNCHANGED <<bufferVars, queueVars, spool, appended, tierVars, excused>>

(***************************************************************************)
(* roll: select rows past their retention, write a partition for each of   *)
(* their days, delete the rows of the days that were written.              *)
(***************************************************************************)
SelectExpired(r, n) ==
    /\ roller[r] = NoRoll
    /\ LET rows == {e \in hot : e <= n} IN
         /\ rows # {}
         /\ roller' = [roller EXCEPT ![r] = [at |-> "write", todo |-> rows, done |-> {}]]
         /\ twice' = twice \cup (rows \cap UNION {roller[q].todo \cup roller[q].done :
                                                   q \in Rollers})
    /\ UNCHANGED <<bufferVars, queueVars, spoolVars, hot, cold, excused, logFaults>>

Earliest(r) == CHOOSE e \in roller[r].todo : \A d \in roller[r].todo : e <= d

WritePartition(r) ==
    /\ roller[r].at = "write" /\ roller[r].todo # {}
    /\ LET e == Earliest(r) IN
         /\ cold' = [cold EXCEPT ![e] = @ + 1]
         /\ roller' = [roller EXCEPT ![r].todo = @ \ {e}, ![r].done = @ \cup {e}]
    /\ UNCHANGED <<bufferVars, queueVars, spoolVars, hot, twice, excused, logFaults>>

\* Mutant: a day that fails ends the pass, and nothing is deleted.
RefusePass(r) == /\ roller[r].at = "write" /\ roller[r].todo # {} /\ LogFault
                 /\ roller' = [roller EXCEPT ![r] = NoRoll]
                 /\ UNCHANGED <<bufferVars, queueVars, spoolVars, hot, cold, twice, excused>>

\* The write of a day fails: its rows stay hot, the other days go on.
DeferDay(r) == /\ roller[r].at = "write" /\ roller[r].todo # {} /\ LogFault
               /\ roller' = [roller EXCEPT ![r].todo = @ \ {Earliest(r)}]
               /\ UNCHANGED <<bufferVars, queueVars, spoolVars, hot, cold, twice, excused>>

\* There is nothing to write partitions with: the rows are dropped, and said to be.
DropDay(r) == /\ roller[r].at = "write" /\ roller[r].todo # {} /\ LogFault
              /\ LET e == Earliest(r) IN
                   /\ roller' = [roller EXCEPT ![r].todo = @ \ {e}, ![r].done = @ \cup {e}]
                   /\ excused' = excused \cup {e}
              /\ UNCHANGED <<bufferVars, queueVars, spoolVars, hot, cold, twice>>

DeleteIds(r) == /\ roller[r].at = "write" /\ roller[r].todo = {}
                /\ hot' = hot \ roller[r].done
                /\ roller' = [roller EXCEPT ![r] = NoRoll]
                /\ UNCHANGED <<bufferVars, queueVars, spoolVars, cold, twice, excused, logFaults>>

\* The roller dies, or the delete fails: what was written stays hot too.
RollFails(r) == /\ roller[r] # NoRoll /\ LogFault
                /\ twice' = twice \cup roller[r].done
                /\ roller' = [roller EXCEPT ![r] = NoRoll]
                /\ UNCHANGED <<bufferVars, queueVars, spoolVars, hot, cold, excused>>

DropExpiredPartition(e) == /\ cold[e] > 0
                           /\ cold' = [cold EXCEPT ![e] = 0]
                           /\ excused' = excused \cup {e}
                           /\ UNCHANGED <<bufferVars, queueVars, spoolVars, hot, roller, twice,
                                          logFaults>>

Flush == TakeBatch \/ FlushToState \/ FlushToQueue \/ FlushToSpool
Persist == (\E t \in logTasks : ClaimBatch(t)) \/ HandleBatch \/ AckBatch
Ingest == ReadSpool \/ IngestSpool \/ UnlinkSpool

LogNext == \/ \E e \in Events : Record(e) \/ DropExpiredPartition(e)
           \/ Flush \/ FlushFails \/ ProducerDies
           \/ Persist \/ BatchReturns
           \/ Ingest \/ IngestFails
           \/ \E r \in Rollers : \/ \E n \in Events : SelectExpired(r, n)
                                 \/ WritePartition(r) \/ DeferDay(r) \/ DropDay(r) \/ DeleteIds(r)
                                 \/ RollFails(r)

LogSpec == LogInit /\ [][LogNext]_logVars

(***************************************************************************)
(* Properties.                                                             *)
(***************************************************************************)

\* Every variable has its type.
LogTypeOK ==
    /\ sink \in {"state", "queue", "spool"}
    /\ {recorded, flushing, deadTasks, spool, hot, excused, appended, twice} \subseteq SUBSET Events
    /\ ring \in Seq(Events) /\ Len(ring) <= RingCapacity
    /\ logTasks \subseteq [events : SUBSET Events, tries : 0 .. MaxTries]
    /\ logger \in [at : {"idle", "claimed", "written"}, events : SUBSET Events,
                    tries : 0 .. MaxTries]
    /\ ingest \in [at : {"idle", "read", "written"}, events : SUBSET Events]
    /\ cold \in [Events -> Nat]
    /\ roller \in [Rollers -> [at : {"idle", "write"}, todo : SUBSET Events, done : SUBSET Events]]
    /\ logFaults \in 0 .. MaxLogFaults

Kept == ToSet(ring) \cup flushing \cup (UNION {t.events : t \in logTasks}) \cup deadTasks
        \cup (IF logger.at = "claimed" THEN logger.events ELSE {})
        \cup spool \cup hot \cup {e \in Events : cold[e] > 0}

\* No event vanishes uncounted: each is on its way, in a dead row, hot, in a
\* partition, or was dropped with a count, by a death or by retention.  The
\* exception is an event appended to a spool file between ingest_spool's read
\* and its unlink.
NoSilentLoss == recorded \subseteq Kept \cup excused \cup appended

\* Cold storage holds an event once, unless a pass died between writing its day
\* and deleting its rows, two processes rolled the same rows, or a batch was
\* delivered again after its rows had been rolled.
ColdOnce == \A e \in Events : cold[e] > 1 => e \in twice

\* Every event leaves the buffers: it gets to the hot store, or is accounted for
\* otherwise.
Arrived(e) == e \in hot \cup deadTasks \cup excused \cup appended \/ cold[e] > 0
EventsArrive == \A e \in Events : []<>(e \in recorded => Arrived(e))
=============================================================================
