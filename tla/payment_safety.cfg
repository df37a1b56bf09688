\* Three attempts are the fewest with which a late row can displace the
\* newest payment; two requests and one handler race with the job.
SPECIFICATION Spec
CONSTANTS
    MaxAttempts = 3
    Clients = {c1, c2}
    MaxHooks = 1
    TwoStage = FALSE
    Refusals = TRUE
SYMMETRY RequestSymmetry
CHECK_DEADLOCK FALSE
INVARIANTS
    PaidIsBacked
    SoldIsPaidOrReviewed
    ReservationMatchesStatus
    NoDoubleCharge
PROPERTY SettledUnlessOverwritten
