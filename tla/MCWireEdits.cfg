\* Every message of the plugins and everything one or two edits away from it.
SPECIFICATION Spec
CONSTANTS
    Projects <- MCProjects
    Names <- MCNames
    RawUUIDs <- MCRawUUIDs
    Canonical <- MCCanonical
    Locations <- MCOne
    CloudInitIDs <- MCCloudInitIDs
    Profiles = {"base"}
    UserKeys <- MCUserKeys
    Values = {"db"}
    FromProfiles <- MCFromProfiles
    Keys <- MCKeys
    Nonces <- MCNonces
    Absent = Absent
    AllowList <- MCAllowList
    UserSelectors = {"user.role"}
    StandaloneLocation = ""
    MaxSelectors = 5
    MaxSelectorBytes = 6
    SelectorLen <- MCSelectorLen
    NonceSpellings <- MCNonceSpellings
    Spelled <- MCSpelled
    GuestClaims <- MCGuestClaims
    ForeignStrings <- MCForeignStrings
    MaxEdits = 2
INVARIANTS
    AcceptedIsAnEncoding
    DecodesToWhatWasMeant
    KindsNeverConfused
    PayloadAsModelled
CHECK_DEADLOCK FALSE
