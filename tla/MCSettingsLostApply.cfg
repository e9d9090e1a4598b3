\* An Apply deferred for the address check must eventually be settled;
\* onAddressChecked settles it only when the check flips the validity flag.
CONSTANTS
    a1 = a1
    a2 = a2
    a3 = a3
    NoAddr = NoAddr
    Addrs <- MCAddrs
    Valid <- MCValid
    MaxTimers = 4
    MaxChecks = 2
    q1 = q1
    Peers <- MCPeers
    MaxPeers = 1
    CoinValues = {1, 13}
    LongBits = 8
    Sats = 10
SPECIFICATION Spec
PROPERTIES
    DeferredApplySettled
