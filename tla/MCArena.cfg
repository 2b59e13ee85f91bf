CONSTANTS
    Slots = {1, 2}
    Choices = {"claude", "gemma"}
    Pollers = {1, 2}
    MailFetched = 2
    MailBatch = 1
    DreamEvery = 2
    Days <- MCDays
    Callers = {1, 2}
    CloudModels <- MCCloud
    Overheat = 1
    ImagePrice = 1
    MaxFailures = 1
    MaxSpent = 1
    Hours <- MCHours
    Clients = {1, 2}
    Nonces = {"n1", "n2"}
    NonceMax = 1
    ChatLogMax = 5
    Keep = 1
    Pages = {1, 2}
    QueueMax = 2
    Evenings <- MCEvenings
SPECIFICATION Spec
INVARIANTS
    FlagsAndSpendAreTrue
    ChatIsOrderly
PROPERTIES
    ArenaGoesOn
CHECK_DEADLOCK FALSE
