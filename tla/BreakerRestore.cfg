SPECIFICATION FairSpec
CONSTANTS
    Controllers = {"breaker", "instance"}
    NoCopy = NoCopy
    Absent = Absent
    MaxReplicas = 2
    MaxFaults = 1
    Components <- One
    Restoring = {"clickhouse", "redis"}
    Threshold = 2
    Specs <- OnlyOn
    MaxEdits = 0
    MaxFlips = 2
PROPERTY WorkerIsRestored
CHECK_DEADLOCK FALSE
