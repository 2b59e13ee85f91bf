SPECIFICATION MCSpec
CONSTANTS
  Documents <- MCDocuments
  TinyWords = 2
  MaxTokens = 3
  SampleCount = 2
  Iterations = 2
  Questions <- MCQuestions
  Plans <- MCPlans
  Wishes <- MCWishes
  Replies <- MCReplies
  Hits <- MCHits
  Width = 2
  FeedLow = 2
  FeedHigh = 3
  MaxRounds = 3
  Tasks = {"none", "agent", "summary"}
  Calls <- MCCalls
  MaxTurns = 3
  CachedFiles <- MCFiles
  Sections <- MCSections
  Targets = {"a", "zz"}
  QueryPlans <- MCQueryPlans
  Prints <- MCPrints
  Clients = {c1, c2, c3}
  MaxConnections = 2
  Addresses <- MCAddresses
  Services <- MCServices
  MaxCrawls = 2
  Observations <- MCObservations
  Asks <- MCAsks
  MaxHits = 3
  Kinds <- MCKinds
  Policies <- MCPolicies
  Day = 4
  MinSpacing = 1
  MinCooldown = 1
  MaxCalls = 2
  MaxUsd = 2
  PlannerTokens = 3
  MaxExcerpt = 3
  MaxPlanned = 16
  LastTime = 3
  Setbacks = 2
  Mishaps = 2
  ChunkSize = 4
  ArrayLimit = 2
  Bits = 4
  SignatureLimit = 30
  Stopwords <- Content
  KeepLength = 2
INVARIANTS
    NothingIsLostOnTheWay
    TextsAreRead
PROPERTIES
    AgentsGoOn
CHECK_DEADLOCK FALSE
