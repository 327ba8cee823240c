SPECIFICATION FairSpec
CONSTANTS
    Controllers = {"migration", "instance"}
    NoCopy = NoCopy
    MaxFaults = 0
    Specs <- TwoVersions
    FirstObjects <- SettledObjects
    BackoffLimit = 1
    MayDelete = FALSE
    MaxEdits = 2
    MaxPodFailures = 0
PROPERTY
    MigratingMeansJobRuns
CHECK_DEADLOCK FALSE
