SPECIFICATION Spec
CONSTANTS
  LeaseSecs = 1
  LeaseSteps = 2
  QuietSecs = 1
  IdleResumeSecs = 1
  DreamIdleSecs = 1
  HonorQuiet = TRUE
  MaxLeaseId = 1
  NoLease = NoLease
  NoTime = NoTime
  NoMention = NoMention
  Mentions = {m1, m2, m3}
  SleepKinds <- MCKinds
  Workloads <- MCWorkloads
  InitialMode = "asleep"
  Spacing = 1
  Cooldown = 2
  ProposalSecs = 1
  MaxDeferred = 1
  MaxTasks = 2
SYMMETRY MentionSymmetry
INVARIANTS
  TypeOK
  MentionsAreConserved
  BurstWithinOneBudget
  ModeAndMachineAgree
PROPERTIES
  WakesAreSpaced
  SleepWorkCoolsDown
