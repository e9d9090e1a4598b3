\* Every command, asset id and amount list over a small wallet, with Amount
\* wide enough that no sum wraps.
CONSTANTS
    AmountBits = 4
    Q = 11
    AssetIds = {0, 1, 2}
    Fees = {1, 4}
    AmountLists <- MCAmountLists
    WalletCoins <- MCWalletCoins
    AssetKid = 9
SPECIFICATION Spec
INVARIANTS
    TypeOK
    SignatureVerifies
    AssetConserved
