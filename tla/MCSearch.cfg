CONSTANTS
    Files <- MCFiles
    Contents = {"first", "second", "binary"}
    Chunks <- MCChunks
    IsText <- MCIsText
    Size <- MCSize
    Workers = {"w1", "w2"}
    LastSession = 3
    Jobs <- MCJobs
    Operators = {"op"}
    SameSplit <- MCSameSplit
SPECIFICATION Spec
INVARIANTS
    ForgottenIsNoHit
    IndexIsTrue
PROPERTIES
    RunEnds
CHECK_DEADLOCK FALSE
