SPECIFICATION FairSpec
CONSTANTS
    Controllers = {"instance", "health", "migration", "retention", "drift"}
    NoCopy = NoCopy
    Unset = Unset
    MaxFaults = 2
    Pods <- MCPods
    Rank <- MCRank
    Dependencies = {"redis", "clickhouse"}
    MaxReportedPodIssues = 1
    Tables <- MCTables
    OtherTables = {"schema_migrations"}
    Nodes = {1, 2}
    Disks <- MCDisks
    FirstDisk <- Empty
    Scenarios <- MCScenarios
    Troubles = {"crashing"}
INVARIANT TypeOK
PROPERTIES
    PhaseSettles
    WritesCease
    ClaimsOnlyWhatIsInPlace
    ClickHouseIsReported
CHECK_DEADLOCK FALSE
