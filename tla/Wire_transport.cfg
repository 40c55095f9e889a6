SPECIFICATION FairSpec
CONSTANTS
    n0 = n0
    n1 = n1
    n2 = n2
    Nodes = {n0, n1, n2}
    Listeners = {n0}
    Messages <- Letters
    Initial = 16
    Backlog = 1
    MaxFds <- Limits
    Mortal = {n2}
    MaxSends = 1
    Pieces = {20}
    None = None
INVARIANTS TypeOK BufferHolds NobodyDiesUncaused
PROPERTIES ImplementsMailbox SentIsReceived
CHECK_DEADLOCK FALSE
