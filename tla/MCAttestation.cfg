\* One agent and its handler while operators drop keys, migrate, rename, move
\* and delete VMs and either stream is cancelled.
SPECIFICATION AttestationSpec
CONSTANTS
    Projects = {"p1", "p2"}
    Names = {"vm"}
    RawUUIDs <- MCRawUUIDs
    Canonical <- MCCanonical
    Locations = {"m1", "m2"}
    CloudInitIDs = {"c1"}
    Profiles = {"base"}
    UserKeys <- MCUserKeys
    Values = {"db"}
    FromProfiles <- MCFromProfiles
    Keys = {k1}
    Nonces = {n1}
    Absent = Absent
    AllowList <- MCAllowList
    UserSelectors <- MCUserKeys
    StandaloneLocation = "m1"
    MaxSelectors = 8
    MaxSelectorBytes = 8
    SelectorLen <- MCSelectorLen
    Attempts = {a1}
    InitialInstances <- MCPopulations
    Disturbances = {"drop", "cancel", "migrate", "delete", "relocate"}
    MaxStrays = 0
    Payloads <- MCPayloads
    Home <- MCHome
    ProjectHint = ""
    InitialPollDelay = 1
    MaxPollDelay = 1
    PollTimeout = 1
INVARIANTS
    HonestNeverDenied
    GrantedToHome
PROPERTY AgentsFitServer
CHECK_DEADLOCK FALSE
