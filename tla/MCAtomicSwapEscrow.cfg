\* G's coin bookkeeping, and B's completion once its redeem is mined, with
\* the invited Grimm side: every fault but an invalid transaction (see
\* MCEscrowInvalidTx), lost and reordered messages, and no reorg
\* (MaxReorgs = 0): a reorg breaks EscrowTracked, see MCExpiryInFlight.
CONSTANTS
    g = g
    b = b
    G <- g
    B <- b
    Initiator <- MCInitiatorB
    MaxChainHeight = 5
    LockResponse = 2
    LockTime = 3
    MaxReorgs = 0
    IdleBlocks = TRUE
    SendFailures = TRUE
    LossyNet = TRUE
    ReorderNet = TRUE
    NodeRejects = TRUE
    PeerFaults = FALSE
    ForeignFaults = TRUE
    ForeignExpiry = TRUE
    UserCancels = TRUE
SPECIFICATION Spec
INVARIANTS
    EscrowTracked
PROPERTIES
    WithdrawCompletesSwap
