\* One attempt while everybody else changes instances.
SPECIFICATION Spec
CONSTANTS
    Projects <- MCProjects
    Names <- MCNames
    RawUUIDs <- MCRawUUIDs
    Canonical <- MCCanonical
    Locations <- MCLocations
    CloudInitIDs <- MCCloudInitIDs
    Profiles <- MCProfiles
    UserKeys <- MCUserKeys
    Values <- MCValues
    FromProfiles <- MCFromProfiles
    Keys = {k1}
    Nonces = {n1}
    Absent = Absent
    AllowList <- MCAllowList
    UserSelectors <- MCUserSelectors
    StandaloneLocation = ""
    MaxSelectors = 6
    MaxSelectorBytes = 6
    SelectorLen <- MCSelectorLen
    Attempts = {a1}
    InitialInstances <- MCTwoVMs
    Disturbances = {"edit", "drop", "delete", "create", "relocate", "cancel", "crash"}
    MaxStrays = 1
    Payloads <- MCPayloads
INVARIANTS
    TypeOK
    NonceReachesOnlyTarget
    ResidueExplained
    CleanupBeforeReturn
PROPERTIES
    KeyOnlyUpdates
    FirstErrorKept
    ImplementsContract
CHECK_DEADLOCK FALSE
