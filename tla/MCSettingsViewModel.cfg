\* The settings page's address check: edits, Apply, Undo, timers and replies.
CONSTANTS
    a1 = a1
    a2 = a2
    a3 = a3
    NoAddr = NoAddr
    Addrs <- MCAddrs
    Valid <- MCValid
    MaxTimers = 4
    MaxChecks = 2
    q1 = q1
    Peers <- MCPeers
    MaxPeers = 1
    CoinValues = {1, 13}
    LongBits = 8
    Sats = 10
SPECIFICATION Spec
INVARIANTS
    ValidityTracksAddress
    TimersBounded
PROPERTIES
    AddressEventuallyChecked
