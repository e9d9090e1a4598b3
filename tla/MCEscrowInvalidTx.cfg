\* Violation: a refund that fails IsValid rolls G's inputs back, and the
\* swap goes on to lock them.
CONSTANTS
    g = g
    b = b
    G <- g
    B <- b
    Initiator <- MCInitiator
    MaxChainHeight = 5
    LockResponse = 2
    LockTime = 3
    MaxReorgs = 0
    IdleBlocks = TRUE
    SendFailures = FALSE
    LossyNet = FALSE
    ReorderNet = FALSE
    NodeRejects = FALSE
    PeerFaults = TRUE
    ForeignFaults = FALSE
    ForeignExpiry = FALSE
    UserCancels = FALSE
SPECIFICATION Spec
INVARIANT
    EscrowTracked
