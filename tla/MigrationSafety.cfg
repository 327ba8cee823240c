SPECIFICATION Spec
CONSTANTS
    Controllers = {"migration", "instance"}
    NoCopy = NoCopy
    MaxFaults = 1
    Specs <- Edits
    FirstObjects <- NewObjects
    BackoffLimit = 1
    MayDelete = FALSE
    MaxEdits = 1
    MaxPodFailures = 1
INVARIANTS
    TypeOK
    RecordedWasMigrated
    OneMigrationPod
    WorkloadStaysOnTarget
PROPERTIES
    ImplementsLedger
    VersionIsRolledOut
CHECK_DEADLOCK FALSE
