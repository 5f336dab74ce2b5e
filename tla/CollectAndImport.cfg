SPECIFICATION Spec
CONSTANTS
    u0 = u0
    u1 = u1
    u2 = u2
    g1 = g1
    g2 = g2
    g3 = g3
    c1 = c1
    r1 = r1
    k1 = k1
    None = None
    Id <- MCId
    Place <- MCPlace
    ParentGroup <- MCParentGroup
    TopGroup <- MCTopGroup
    RoleClient <- MCRoleClient
    ServiceUser <- MCServiceUser
    Authorization <- MCAuthorization
    Worlds <- MCWorlds
    Requests <- MCRequests
    Changes <- MCChanges
    PageSize = 2
    MaxRetries = 1
    MaxPages = 4
    MaxEvents = 2
INVARIANTS CompletedIsWhole ImportIsFaithful
PROPERTIES CollectionEnds
CHECK_DEADLOCK FALSE
