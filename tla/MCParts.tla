------------------------------ MODULE MCParts ------------------------------
(***************************************************************************)
(* One TLC model for the components that share no state in memory and meet *)
(* only through storage: a behaviour picks one of them in its initial      *)
(* state and runs it alone, so that the state space is the sum of theirs.  *)
(***************************************************************************)
EXTENDS JobRegistry, Orchestration, NatsQueue, GraphRows, GraphRefresh, EngineLease,
        EvaluationRuns, LogTier, RemotePool, TuningRuns, TuningOverlay

CONSTANTS a, b, p1, p2

OneOther == <<"scheduler">>
Edges == {<<a, b>>}
Engines == {<<p1, 1>>, <<p1, 2>>, <<p2, 1>>}
\* Two attempts of one process, between which the lease is no safeguard.
Siblings == {<<p1, 1>>, <<p1, 2>>}

VARIABLE part

Parts == {"jobs", "fleet", "nats", "rows", "refresh",
          "lease", "evaluation", "log", "pool", "tuning", "overlay"}

partsVars == <<part, jobVars, fleetVars, natsVars, rowsVars, refreshVars,
               leaseVars, evalVars, logVars, poolVars, tuneVars, overlayVars>>

PartsInit == /\ part \in Parts
             /\ JobInit
             /\ FleetInit
             /\ NatsInit
             /\ RowsInit
             /\ RefreshInit
             /\ LeaseInit
             /\ EvalInit
             /\ LogInit
             /\ PoolInit
             /\ TuningInit
             /\ OverlayInit
             /\ part # "log" => sink = "queue"

JobStep == /\ part = "jobs" /\ JobNext
           /\ UNCHANGED <<part, fleetVars, natsVars, rowsVars, refreshVars, leaseVars,
                          evalVars, logVars, poolVars, tuneVars, overlayVars>>

FleetStep == /\ part = "fleet" /\ FleetNext
             /\ UNCHANGED <<part, jobVars, natsVars, rowsVars, refreshVars, leaseVars,
                            evalVars, logVars, poolVars, tuneVars, overlayVars>>

NatsStep == /\ part = "nats" /\ NatsNext
            /\ UNCHANGED <<part, jobVars, fleetVars, rowsVars, refreshVars, leaseVars,
                           evalVars, logVars, poolVars, tuneVars, overlayVars>>

RowsStep == /\ part = "rows" /\ RowsNext
            /\ UNCHANGED <<part, jobVars, fleetVars, natsVars, refreshVars, leaseVars,
                           evalVars, logVars, poolVars, tuneVars, overlayVars>>

RefreshStep == /\ part = "refresh" /\ RefreshNext
               /\ UNCHANGED <<part, jobVars, fleetVars, natsVars, rowsVars, leaseVars,
                              evalVars, logVars, poolVars, tuneVars, overlayVars>>

LeaseStep == /\ part = "lease" /\ LeaseNext
             /\ UNCHANGED <<part, jobVars, fleetVars, natsVars, rowsVars, refreshVars,
                            evalVars, logVars, poolVars, tuneVars, overlayVars>>

EvalStep == /\ part = "evaluation" /\ EvalNext
            /\ UNCHANGED <<part, jobVars, fleetVars, natsVars, rowsVars, refreshVars,
                           leaseVars, logVars, poolVars, tuneVars, overlayVars>>

LogStep == /\ part = "log" /\ LogNext
           /\ UNCHANGED <<part, jobVars, fleetVars, natsVars, rowsVars, refreshVars,
                          leaseVars, evalVars, poolVars, tuneVars, overlayVars>>

PoolStep == /\ part = "pool" /\ PoolNext
            /\ UNCHANGED <<part, jobVars, fleetVars, natsVars, rowsVars, refreshVars,
                           leaseVars, evalVars, logVars, tuneVars, overlayVars>>

TuneStep == /\ part = "tuning" /\ TuningNext
            /\ UNCHANGED <<part, jobVars, fleetVars, natsVars, rowsVars, refreshVars,
                           leaseVars, evalVars, logVars, poolVars, overlayVars>>

OverlayStep == /\ part = "overlay" /\ OverlayNext
               /\ UNCHANGED <<part, jobVars, fleetVars, natsVars, rowsVars, refreshVars,
                              leaseVars, evalVars, logVars, poolVars, tuneVars>>

PartsNext == \/ JobStep
             \/ FleetStep
             \/ NatsStep
             \/ RowsStep
             \/ RefreshStep
             \/ LeaseStep
             \/ EvalStep
             \/ LogStep
             \/ PoolStep
             \/ TuneStep
             \/ OverlayStep

(***************************************************************************)
(* Fairness: what the scheduling of threads and the passing of time give   *)
(* the components.  Faults, publications and requests need not happen.  A  *)
(* behaviour runs one part, so a thread of one and a thread of another can *)
(* share a condition, which keeps the number of conditions small: Indexers,*)
(* NatsWorkers, Callers, OverlayActors are {p1, p2}, the processes.        *)
(***************************************************************************)
running == CASE part = "jobs" -> jobVars
             [] part = "fleet" -> fleetVars
             [] part = "nats" -> natsVars
             [] part = "rows" -> rowsVars
             [] part = "refresh" -> refreshVars
             [] part = "lease" -> leaseVars
             [] part = "evaluation" -> evalVars
             [] part = "log" -> logVars
             [] part = "pool" -> poolVars
             [] part = "tuning" -> tuneVars
             [] part = "overlay" -> overlayVars

\* Time passes: a lease nobody beats, an ack_wait nobody answers and a row of a
\* dead run grow old, a breaker cools and a cached overlay expires.
Clock == /\ part' = part
         /\ \/ part = "fleet" /\ RowAges
            \/ part = "nats" /\ \E m \in NatsMessages : ~InHand(m) /\ AckWaitEnds(m)
            \/ part = "evaluation" /\ (\A e \in Batches : ~BeatsRow(e)) /\ RunAges
            \/ part = "pool" /\ \E e \in Endpoints : Cool(e)
            \/ part = "overlay" /\ \E r \in Rankers : CacheExpires(r)

\* The beats come round: the scheduler's, which reclaims runs and ingests the
\* spool, and those of the replicas, whose wait for the event ends with the
\* interval.
Beat == /\ part' = part
        /\ \/ part = "evaluation" /\ Reclaim
           \/ part = "log" /\ Ingest
           \/ part = "refresh" /\ \E r \in Replicas : ReplicaStep(r)
           \/ part = "overlay" /\ \E r \in Rankers : ResolveOverlay(r)

\* The threads behind them: a heartbeat that finds its row gone, and the
\* flusher of the log.
Background == /\ part' = part
              /\ \/ part = "fleet" /\ \E p \in Indexers : HeartbeatLost(p)
                 \/ part = "log" /\ Flush

\* What the main thread of a process is at goes on: the election, a worker's
\* claims and answers, the calls of a source that keeps syncing, whose dispatches
\* end by their timeout, an act on the overlay, the attempts of a run.
Work(p) == /\ part' = part
           /\ \/ part = "fleet" /\ ElectionStep(p)
              \/ /\ part = "nats"
                 /\ \/ NatsAck(p) \/ NatsNak(p) \/ PublishDead(p) \/ Term(p)
                    \/ \E m \in NatsMessages : NatsClaim(p, m)
              \/ part = "pool" /\ CallStep(p)
              \/ part = "overlay" /\ ActStep(p)
              \/ part = "evaluation" /\ \E e \in Batches : e[1] = p /\ Advance(e)
              \/ part = "log" /\ Persist

\* Whoever has the gate of a process goes on.
AtGate(p) == ReconcileEnds(p) \/ ClaimTask(p) \/ \E l \in Loops : LeaveGate(p, l)

PartsFairness ==
    /\ WF_running(Clock)
    /\ WF_running(Beat)
    /\ WF_running(Background)
    /\ \A p \in {p1, p2} :
          /\ WF_running(Work(p))
          /\ WF_fleetVars(part = "fleet" /\ AtGate(p))
          /\ \A l \in Loops :
                /\ WF_fleetVars(part = "fleet" /\ (Round(p, l) \/ ThreadEnds(p, l)))
                /\ WF_fleetVars(part = "fleet" /\ EnterGate(p, l))

PartsSpec == PartsInit /\ [][PartsNext]_partsVars /\ PartsFairness

(* Every component's variables keep the types their comments give them, and *)
(* what has a capacity keeps within it.                                      *)
PartsTypeOK == /\ JobTypeOK
               /\ FleetTypeOK
               /\ NatsTypeOK
               /\ RowsTypeOK
               /\ RefreshTypeOK
               /\ LeaseTypeOK
               /\ EvalTypeOK
               /\ LogTypeOK
               /\ PoolTypeOK
               /\ TuningTypeOK
               /\ OverlayTypeOK
=============================================================================
