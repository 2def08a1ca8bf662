\* Resolution against every small population, nothing else changing.
SPECIFICATION FairSpec
CONSTANTS
    Projects <- MCThreeProjects
    Names <- MCNames
    RawUUIDs <- MCRawUUIDs
    Canonical <- MCCanonical
    Locations <- MCLocations
    CloudInitIDs <- MCCloudInitIDs
    Profiles <- MCSelectorProfiles
    UserKeys <- MCSelectorKeys
    Values <- MCSelectorValues
    FromProfiles <- MCRoleFromBase
    Keys = {k1}
    Nonces = {n1}
    Absent = Absent
    AllowList <- MCAllowList
    UserSelectors <- MCSelectorKeys
    StandaloneLocation = "m1"
    MaxSelectors = 7
    MaxSelectorBytes = 9
    SelectorLen <- MCValueLen
    Rank <- MCRank
    Attempts = {a1}
    InitialInstances <- MCPopulations
    Disturbances = {"cancel"}
    MaxStrays = 1
    Payloads <- MCAllPayloads
INVARIANTS
    ResolutionCorrect
    SelectorsAsModelled
PROPERTY EveryAttemptReturns
CHECK_DEADLOCK FALSE
