\* Webhooks may all be lost: only the reconciliation job is fair.
SPECIFICATION FairSpec
CONSTANTS
    MaxReturns = 2
    Total = 2
    Quantity = 2
    Approvers = {a1}
    MaxHooks = 1
CHECK_DEADLOCK FALSE
PROPERTY BoundRefundEnds
