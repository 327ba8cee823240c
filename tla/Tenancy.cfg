SPECIFICATION FairSpec
CONSTANTS
    Names = {"a", "b"}
    Emails = {"ann", "bob"}
    Roles = {"admin", "viewer"}
    MaxOrgs = 2
    MaxProjects = 2
    MaxKeys = 4
    None = None
    Unused = Unused
    Gone = Gone
    Desired <- OneMember
    Exclusive = TRUE
    MaxFaults = 1
INVARIANTS
    TypeOK
    CleanUpRevokesKeys
PROPERTIES
    CreatesNoTwin
    KeepsItsOrganization
    OrganizationSettles
    ProjectSettles
    DeletionCompletes
    OrphanedProjectIsReported
CHECK_DEADLOCK FALSE
