\* Two lines, two workers that overlap; one fault, one review turned down.
SPECIFICATION Spec
CONSTANTS
    Lines = {1, 2}
    Setups <- MCSetups
    Workers <- MCWorkers
    NoWorker = "nobody"
    MaxAttempts = 2
    MaxFaults = 1
    MaxReviews = 1
CHECK_DEADLOCK FALSE
INVARIANTS
    ShipmentIsPrepared
    ShippedIsBooked
    BookingsAnsweredFor
    
