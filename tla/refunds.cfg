SPECIFICATION Spec
CONSTANTS
    MaxReturns = 2
    Total = 2
    Quantity = 4
    Approvers = {a1, a2}
    MaxHooks = 1
SYMMETRY ApprovalSymmetry
CHECK_DEADLOCK FALSE
INVARIANTS UnitsPaidExactly MoneyWithinTotal OutcomeIsReal OrderMatchesRefunds UnfinishedCanBeRetried
PROPERTY ImplementsLedger
