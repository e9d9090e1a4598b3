\* Which guarantees survive a chain reorganisation: one reorg to any lower
\* height, with rejections and the foreign lock time passing.
CONSTANTS
    g = g
    b = b
    G <- g
    B <- b
    Initiator <- MCInitiator
    MaxChainHeight = 5
    LockResponse = 2
    LockTime = 3
    MaxReorgs = 1
    IdleBlocks = TRUE
    SendFailures = FALSE
    LossyNet = FALSE
    ReorderNet = FALSE
    NodeRejects = TRUE
    PeerFaults = FALSE
    ForeignFaults = FALSE
    ForeignExpiry = TRUE
    UserCancels = FALSE
SPECIFICATION Spec
INVARIANTS
    AssertionsHold
    GrimmSideSafe
