\* Two workers that overlap; one crash or overrun lease, two replays.
SPECIFICATION FairSpec
CONSTANTS
    Rows = {1, 2}
    Kinds <- MCKinds
    Workers = {"a", "b"}
    NoWorker = "nobody"
    NoRow = 0
    MaxAttempts = 2
    MaxEventAttempts = 2
    MaxFaults = 1
    MaxReplays = 1
CHECK_DEADLOCK FALSE
INVARIANTS
    SentIsReal
    ResentOnDecision
    ConsentRespected
PROPERTIES
    DeliveriesEnd
