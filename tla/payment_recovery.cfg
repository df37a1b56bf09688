\* Notifications may all be lost: only the reconciliation job is fair.
SPECIFICATION FairSpec
CONSTANTS
    MaxAttempts = 3
    Clients = {c1}
    MaxHooks = 1
    TwoStage = TRUE
    Refusals = TRUE
CHECK_DEADLOCK FALSE
PROPERTY LatestMoneyIsNoticed
