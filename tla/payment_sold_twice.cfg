\* The order's own cancellation and settlement meet, three attempts deep.
SPECIFICATION Spec
CONSTANTS
    MaxAttempts = 3
    Clients = {c1, c2}
    MaxHooks = 1
    TwoStage = FALSE
    Refusals = FALSE
SYMMETRY RequestSymmetry
CHECK_DEADLOCK FALSE
INVARIANT NeverReleasedAndSold
