SPECIFICATION MCSpec
CONSTANTS
    Nodes = {1, 2, 3, 4}
    Observation = 4
    Texts = {"a", "b"}
    Top = 3
    Gate = 2
    PromoteAfter = 1
    Similar <- MCSimilar
    Related <- MCRelated
    Batch = 4
    Capacity = 6
    Threshold = 2
    RotateAt = 3
    HeatCeiling = 1
    HeatDreamCool = 1
    MaxHeat = 3
    Commands <- MCCommands
    Minds <- MCMinds
    Jobs <- MCAllJobs
    Threads = {"chat", "worker"}
    Route <- MCRoute
    Free = {"local"}
    Estimate = 1
    Costs = {2}
    StepCap = 9
    DayCap = 3
    CallCap = 1
    LastDay = 2
    Requests = {"r1", "r2"}
    Handlers = {1, 2}
    MaxTurns = 2
    Sessions <- MCAllSessions
INVARIANTS
    NothingIsDropped
    LedgerIsBounded
    AskedOnce
PROPERTIES
    MindGoesOn
CHECK_DEADLOCK FALSE
