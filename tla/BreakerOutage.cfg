SPECIFICATION FairSpec
CONSTANTS
    Controllers = {"breaker", "instance"}
    NoCopy = NoCopy
    Absent = Absent
    MaxReplicas = 2
    MaxFaults = 1
    Components <- Two
    Restoring = {"clickhouse", "redis"}
    Threshold = 2
    Specs <- OnAndOff
    MaxEdits = 1
    MaxFlips = 2
INVARIANT
    TypeOK
PROPERTIES
    FlagNeedsOutage
    OutageHoldsWorkerAtZero
    ClosedBreakerFollowsSpec
CHECK_DEADLOCK FALSE
