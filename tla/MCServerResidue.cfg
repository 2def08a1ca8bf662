\* A set request of unknown outcome against the cleanup.
SPECIFICATION Spec
CONSTANTS
    Projects <- MCProjects
    Names <- MCNames
    RawUUIDs <- MCRawUUIDs
    Canonical <- MCCanonical
    Locations <- MCLocations
    CloudInitIDs <- MCCloudInitIDs
    Profiles <- MCProfiles
    UserKeys <- MCUserKeys
    Values <- MCValues
    FromProfiles <- MCFromProfiles
    Keys = {k1}
    Nonces = {n1}
    Absent = Absent
    AllowList <- MCAllowList
    UserSelectors <- MCUserSelectors
    StandaloneLocation = ""
    MaxSelectors = 6
    MaxSelectorBytes = 6
    SelectorLen <- MCSelectorLen
    Attempts = {a1}
    InitialInstances <- MCOneVM
    Disturbances = {}
    MaxStrays = 0
    Payloads <- MCPayloads
INVARIANT CleanupLeavesNoKey
CHECK_DEADLOCK FALSE
