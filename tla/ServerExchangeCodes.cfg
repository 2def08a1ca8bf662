\* One stream of at most two messages, enough for payload and response.
SPECIFICATION Spec
CONSTANTS
    MaxMessages = 2
    None = None
INVARIANT CancellationKeepsItsCode
CHECK_DEADLOCK FALSE
