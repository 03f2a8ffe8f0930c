SPECIFICATION PartsSpec
CONSTANTS
    a = a
    b = b
    p1 = p1
    p2 = p2
    JobHosts = {p1, p2}
    JobIds = {j1, j2}
    MaxRecords = 1
    MaxRuns = 2
    MaxHostDeaths = 1
    Indexers = {p1, p2}
    OtherLoops <- OneOther
    NoOne = NoOne
    Departed = Departed
    GiveUpAfter = 1
    StaleAfter = 1
    MaxElections = 2
    MaxFaults = 1
    MaxBacklog = 1
    NatsWorkers = {p1, p2}
    StreamLength = 2
    MaxAttempts = 2
    MaxNatsFaults = 2
    GraphNodes = {a, b}
    GraphPairs <- Edges
    SerialWriters = FALSE
    MaxEdits = 2
    MaxReloads = 1
    Replicas = {r1}
    MaxPublications = 3
    MaxRefreshFaults = 2
    LeaseEngines <- Engines
    NoLease = NoLease
    Torn = Torn
    MaxWindows = 0
    Batches <- Engines
    ReplayUnits = {u1}
    NoHolder = NoHolder
    MaxEvalFaults = 1
    MaxEvents = 2
    RingCapacity = 1
    BatchSize = 1
    MaxDepth = 1
    MaxTries = 2
    Rollers = {r1, r2}
    MaxLogFaults = 1
    Callers = {p1, p2}
    PoolSize = 2
    FailureThreshold = 1
    MaxDispatches = 2
    MaxOutages = 2
    Tuners <- Siblings
    TrialPoints = {u1}
    NoTuner = NoTuner
    MaxTuneFaults = 1
    TuningBundles = {t1, t2}
    Base = Base
    OverlayActors = {p1, p2}
    Rankers = {r1}
    MaxActs = 3
    MaxOverlayFaults = 1
INVARIANTS
    PartsTypeOK
    JobBoardIsTrue
    HoldersExclude
    NoTaskLost
    DeliveriesBounded
    NoWriteLost
    NoDanglingRow
    GenerationNamesRows
    
    OneAttempt
    NoSilentLoss
    ColdOnce
    NoLeakedProbe
    DeadWorkerIsCheap
    OneTuner
    OneOverlay
PROPERTIES
    DemotedQuiesces
    BacklogDrains
    TasksSettle
    ReplicasCatchUp
    ReportStays
    CheckpointsSurvive
    RunningEnds
    EventsArrive
    RecoveredReturns
    OverlayFollowed
CHECK_DEADLOCK FALSE
