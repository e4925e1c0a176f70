SPECIFICATION FairSpec
CONSTANTS
    Null = Null
    v1 = v1
    v2 = v2
    stray = stray
    Documents <- MCDocuments
    Clocks = {1, 2, 3, 4, 5, 6, 7, 8}
    SourceOrder <- MCSources
    Emitters <- MCEmitters
    Versions = {v1, v2, stray}
    ParamsOf <- MCParamsOf
    FirstVersion = v1
    DefaultScenario = "day1"
    Deliveries <- MCDeliveries
    BlockingFaults = {"null_key", "duplicate_event_id", "negative_quantity"}
    MaxWorkflows = 2
    MaxFailures = 2
CHECK_DEADLOCK FALSE
INVARIANTS
    TypeOK
    EmulatedWhole
    AuditsAgree
    UndisturbedAuditTraces
    GreenMeansDeployed
    MisTargetedWritesNothing
PROPERTIES
    EventuallyAudited
