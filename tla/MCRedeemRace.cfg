\* Violation: B redeems just before the Grimm lock time passes and G takes
\* the refund path, never redeeming the foreign coins.
CONSTANTS
    g = g
    b = b
    G <- g
    B <- b
    Initiator <- MCInitiator
    MaxChainHeight = 5
    LockResponse = 2
    LockTime = 3
    MaxReorgs = 0
    IdleBlocks = TRUE
    SendFailures = FALSE
    LossyNet = FALSE
    ReorderNet = FALSE
    NodeRejects = FALSE
    PeerFaults = FALSE
    ForeignFaults = FALSE
    ForeignExpiry = FALSE
    UserCancels = FALSE
SPECIFICATION Spec
PROPERTY
    RedeemRevealsSecret
