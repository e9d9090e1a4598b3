\* Violation: CheckExpired gives up on a lock whose register_tx is still
\* unanswered; after a reorg the lock is mined.
CONSTANTS
    g = g
    b = b
    G <- g
    B <- b
    Initiator <- MCInitiator
    MaxChainHeight = 5
    LockResponse = 2
    LockTime = 3
    MaxReorgs = 1
    IdleBlocks = TRUE
    SendFailures = FALSE
    LossyNet = FALSE
    ReorderNet = FALSE
    NodeRejects = FALSE
    PeerFaults = FALSE
    ForeignFaults = FALSE
    ForeignExpiry = FALSE
    UserCancels = FALSE
SPECIFICATION Spec
INVARIANT
    GrimmFundsRecoverable
