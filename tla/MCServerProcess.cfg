\* One stream, whose peer sends up to three messages, half-closes or goes
\* away, beside two calls of the shared client, in two projects.
SPECIFICATION ProcessSpec
CONSTANTS
    MaxMessages = 3
    None = None
    Calls = {"set", "unset"}
    Projects = {"default", "p1"}
    Default = "default"
INVARIANTS
    ExchangeTypeOK
    VerdictExplained
    ScopeTypeOK
    RequestsKeepTheirScope
PROPERTIES
    VerdictStands
    ReceiveReturns
    WorkerReleased
CHECK_DEADLOCK FALSE
