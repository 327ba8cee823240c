SPECIFICATION FairSpec
CONSTANTS
    Controllers = {"migration", "instance"}
    NoCopy = NoCopy
    MaxFaults = 0
    Specs <- Edits
    FirstObjects <- SettledObjects
    BackoffLimit = 1
    MayDelete = TRUE
    MaxEdits = 2
    MaxPodFailures = 0
INVARIANTS
    OneMigrationPod
    WorkloadStaysOnTarget
PROPERTIES
    MigrationConverges
    WorkloadConverges
    DeletionIsFinal
CHECK_DEADLOCK FALSE
