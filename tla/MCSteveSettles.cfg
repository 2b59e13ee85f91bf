SPECIFICATION FairSpec
CONSTANTS
  LeaseSecs = 1
  LeaseSteps = 2
  QuietSecs = 1
  IdleResumeSecs = 1
  DreamIdleSecs = 1
  HonorQuiet = TRUE
  MaxLeaseId = 1
  NoLease = NoLease
  NoTime = NoTime
  NoMention = NoMention
  Mentions = {m1, m2}
  SleepKinds <- MCKinds
  Workloads <- MCSettling
  InitialMode = "asleep"
  Spacing = 1
  Cooldown = 2
  ProposalSecs = 1
  MaxDeferred = 2
  MaxTasks = 2
PROPERTIES
  MentionsSettle
