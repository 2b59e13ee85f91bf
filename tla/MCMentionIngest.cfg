CONSTANTS
    ada = ada
    bob = bob
    steve = steve
    Actors = {ada, bob}
    Handle = steve
    Ledgers <- MCLedgers
    Responses <- MCResponses
    Batches <- MCBatches
    Instance = "news"
    PageLimit = 2
    MaxResponse = 1
    Height = 3
    DedupeCapacity = 1
    ConsiderationCapacity = 2
    MaxPendingPerActor = 1
    MaxApplyPerBatch = 2
    MaxCrashes = 1
    MaxForced = 1
SPECIFICATION FairSpec
INVARIANTS
    NothingPassedOver
    MentionsAreKeptOnce
    PagesAreTaken
PROPERTIES
    IngestGoesOn
