CONSTANTS
    Nodes = {1, 2, 3}
    Terms = {"t"}
    RootPrime = 1
    ChildPrime = 3
    Tags = {"x", "y"}
    Dims = {3, 4}
    Records = {"new", "worn"}
    Workloads <- MCWorkloads
    RotateAt = 2
    MaxTicks = 1
SPECIFICATION Spec
INVARIANTS
    ViewsAgree
PROPERTIES
    AcknowledgedSurvives
    KeepsItsPromise
CHECK_DEADLOCK FALSE
