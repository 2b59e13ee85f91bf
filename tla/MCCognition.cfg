SPECIFICATION MCSpec
CONSTANTS
  Ids = {1, 2, 3, 4}
  Similar <- MCSimilar
  Near = {{2, 4}}
  Often = {1}
  MinCluster = 3
  MaxEdges = 1
  Orders <- MCOrders
  Nights <- MCAllNights
  DMax = 1
  Consecutive = 2
  Window = 3
  RhoMax = 1
  Base = 2
  Recalls <- MCAllRecalls
  Moods <- MCMoods
  Terms <- MCTerms
  Unit = 12
  Cap = 3
  Stale = 2
  Dreams <- MCDreams
  Shapes <- MCShapes
  Requests <- MCRequests
  KMax = 2
INVARIANTS
    NightIsLogged
    MeasuresAreTrue
    BriefingIsEligible
PROPERTIES
    CognitionGoesOn
CHECK_DEADLOCK FALSE
