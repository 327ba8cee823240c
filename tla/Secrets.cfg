SPECIFICATION FairSpec
CONSTANTS
    Controllers = {"secret"}
    NoCopy = NoCopy
    Absent = Absent
    Deployments = {"web"}
    Keys <- MCKeys
    Later <- MCLater
    MaxFaults = 2
INVARIANT TypeOK
PROPERTIES
    GeneratedValuesAreKept
    GeneratedSecretCompletes
    RotationReachesPods
    RestartsCease
