\* Two attempts on one or two VMs, with dropped keys.
SPECIFICATION Spec
CONSTANTS
    Projects <- MCProjects
    Names <- MCNames
    RawUUIDs <- MCRawUUIDs
    Canonical <- MCCanonical
    Locations <- MCLocations
    CloudInitIDs <- MCCloudInitIDs
    Profiles <- MCProfiles
    UserKeys <- MCUserKeys
    Values <- MCValues
    FromProfiles <- MCFromProfiles
    Keys = {k1, k2}
    Nonces = {n1, n2}
    Absent = Absent
    AllowList <- MCAllowList
    UserSelectors <- MCUserSelectors
    StandaloneLocation = ""
    MaxSelectors = 6
    MaxSelectorBytes = 6
    SelectorLen <- MCSelectorLen
    Attempts = {a1, a2}
    InitialInstances <- MCTwoVMs
    Disturbances = {"drop"}
    MaxStrays = 0
    Payloads <- MCBothPayloads
SYMMETRY MCSymmetry
INVARIANTS
    Residency
PROPERTIES
    KeyOnlyUpdates
CHECK_DEADLOCK FALSE
