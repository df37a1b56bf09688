\* An upload and its retry, two workers that overlap; two faults, one replay.
SPECIFICATION FairSpec
CONSTANTS
    Requests = {"first", "retry"}
    Keys = {"k"}
    KeyOf <- MCKeyOf
    Workers = {"a", "b"}
    NoWorker = "nobody"
    NoObject = "nothing"
    MaxAttempts = 2
    MaxFaults = 2
    MaxReplays = 1
CHECK_DEADLOCK FALSE
INVARIANTS
    AssetsAreStored
    OrphansAreKnown
PROPERTIES
    CleanupEnds
