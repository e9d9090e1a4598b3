\* A list of asset amounts whose sum passes the width of Amount.
CONSTANTS
    AmountBits = 2
    Q = 11
    AssetIds = {0, 1, 2}
    Fees = {1, 4}
    AmountLists <- MCOverflowLists
    WalletCoins <- MCWalletCoins
    AssetKid = 9
SPECIFICATION Spec
INVARIANTS
    AssetConserved
