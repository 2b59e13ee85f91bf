SPECIFICATION Spec
CONSTANTS
    LeaseSecs = 2
    LeaseSteps = 2
    QuietSecs = 1
    IdleResumeSecs = 2
    DreamIdleSecs = 3
    HonorQuiet = TRUE
    MaxLeaseId = 3
    NoLease = NoLease
    NoTime = NoTime
    MaxNow = 3
    Claims <- MCClaims
    b1 = b1
    b2 = b2
    Bases = {b1, b2}
    MaxEvents = 4
    MaxMembers = 2
    MaxTime = 1
    Requests <- MCRequests
    r1 = r1
    r2 = r2
    h1 = h1
    h2 = h2
    g1 = g1
    Reports = {r1, r2}
    Hypotheses = {h1, h2}
    Goals = {g1}
    NoHypothesis = NoHypothesis
    MaxLinks = 1
    MaxCited = 1
SYMMETRY EpisodeSymmetry
INVARIANTS
    AuthorityIsBounded
    EveryLogVerifies
    HistoriesJoinUp
    OnlyEffectiveMemoriesAreUsed
    VerdictsRestOnEvidence
    RegistryIsExact
PROPERTIES
    GatesHold
    SavedHistoryOnlyGrows
    VerdictsAreNotTakenBack
