\* Two attributes of a working configuration changed; valid lists at each limit
\* and of one entry more; three Configure calls of the agent beside two attestations.
SPECIFICATION Spec
CONSTANTS
    Absent = Absent
    Garbled = Garbled
    Strings <- MCStrings
    UserPrefixed <- MCUserPrefixed
    BareUser = "user."
    ReservedKey = "user.spire.attestor.nonce"
    ReservedPrefixed <- MCReservedPrefixed
    MaxProjects = 3
    MaxUserSelectors = 3
    StringEdits <- MCStringEdits
    DurationEdits <- MCDurationEdits
    ProjectEdits <- MCProjectEdits
    SelectorEdits <- MCSelectorEdits
    MaxEdits = 2
    Configures = {c1, c2, c3}
    Handlers = {h1, h2}
    None = None
SYMMETRY MCSymmetry
INVARIANTS
    ValidMeansDocumented
    AgentRuntimesServiceable
PROPERTY AgentImplementsRegister
CHECK_DEADLOCK FALSE
