SPECIFICATION FairSpec
CONSTANTS
    Controllers = {"instance", "health", "migration"}
    NoCopy = NoCopy
    Unset = Unset
    MaxFaults = 3
    Pods <- MCPods
    Rank <- MCRank
    Dependencies = {"database"}
    MaxReportedPodIssues = 1
    Tables <- NoTables
    OtherTables = {}
    Nodes = {1}
    Disks <- OneDisk
    FirstDisk <- Empty
    Scenarios <- Upgrade
    Troubles = {"stuck", "ready"}
PROPERTY HealthyIsRunning
CHECK_DEADLOCK FALSE
