SPECIFICATION FairSpec
CONSTANTS
    Controllers = {"migration", "instance"}
    NoCopy = NoCopy
    MaxFaults = 1
    Specs <- LegacySpecs
    FirstObjects <- OldObjects
    BackoffLimit = 1
    MayDelete = FALSE
    MaxEdits = 1
    MaxPodFailures = 0
INVARIANT
    RecordedWasMigrated
PROPERTIES
    TargetIsPinned
    BaselineIsRecorded
    MigrationConverges
    WorkloadConverges
CHECK_DEADLOCK FALSE
