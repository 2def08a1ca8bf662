\* One agent against any host and any server: waits of 1, 2, 3, 3 units.
SPECIFICATION FairSpec
CONSTANTS
    Projects = {"p1"}
    Names = {"vm"}
    RawUUIDs <- MCRawUUIDs
    Canonical <- MCCanonical
    Locations = {"m1", "m2"}
    CloudInitIDs = {"c1"}
    Profiles = {"base"}
    UserKeys <- MCUserKeys
    Values = {"db"}
    FromProfiles <- MCFromProfiles
    Keys = {"k1"}
    Nonces = {"n1"}
    Absent = Absent
    AllowList <- MCAllowList
    UserSelectors = {}
    StandaloneLocation = "m1"
    MaxSelectors = 8
    MaxSelectorBytes = 8
    SelectorLen <- MCSelectorLen
    Attempts = {"a1"}
    ProjectHint = "p1"
    InitialPollDelay = 1
    MaxPollDelay = 3
    PollTimeout = 12
    Guests <- MCGuests
INVARIANTS
    AgentTypeOK
    DisclosesOnlyNonces
    TimeoutMeansLate
PROPERTY PollingEnds
