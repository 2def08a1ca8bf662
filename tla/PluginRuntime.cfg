\* Two Configure calls and two attempts; each TLS file is replaced at most once.
SPECIFICATION FairSpec
CONSTANTS
    Configures = {c1, c2}
    Handlers = {h1, h2}
    MaxVersion = 1
    None = None
INVARIANTS
    RuntimeTypeOK
    PublishedIsComplete
    CredentialsNeverRegress
    NoForgottenClient
PROPERTIES
    InFlightSurvives
    ServerImplementsRegister
    ConfigureReturns
CHECK_DEADLOCK FALSE
