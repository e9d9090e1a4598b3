--------------------------- MODULE AssetTxBuilder ---------------------------
(***************************************************************************)
(* AssetTxBuilder of src/wallet/asset_transaction.cpp: one party building *)
(* an asset Issue, Transfer or Burn transaction, step by step, in the     *)
(* order its transaction drives it: SelectInputs, AddChange,              *)
(* GenerateNewCoinList, GenerateOffset, CreateKernel, SignPartial,        *)
(* CreateTransaction.                                                     *)
(*                                                                         *)
(* The group is abstracted to its coordinates: a point is the function    *)
(* giving its multiple of each independent generator, G (blinding), the  *)
(* native value generator H (asset 0) and one value generator per asset   *)
(* id, with coefficients in the scalar field Z_Q. Amount is a uint64_t    *)
(* scaled down to AmountBits bits: every Amount sum of the code wraps.    *)
(***************************************************************************)
EXTENDS Integers, Sequences, SequencesExt, FiniteSets, FiniteSetsExt

CONSTANTS
    AmountBits,   \* the width of Amount
    Q,            \* the order of the scalar field (a small prime)
    AssetIds,     \* the asset ids a caller may pass; 0 is the native coin
    Fees,         \* the fees a caller may pass, paid in native coins
    AmountLists,  \* the AssetAmountList values a caller may pass
    WalletCoins,  \* the wallet's coins at the start: [idx, asset, value]
    AssetKid      \* TxParameterID::AssetKIDId: key index of the asset secret

ASSUME AmountBits \in Nat \ {0} /\ Q \in Nat \ {0, 1} /\ 0 \in AssetIds

\* AssetCommand, and the value of an AssetCommand parameter that is not set.
Commands == {"Zero", "Issue", "Transfer", "Burn"}
NoCommand == "NoCommand"
Emitting == {"Issue", "Burn"}       \* the commands with an emission kernel

AmountLimit == 2^AmountBits
Amount == 0..(AmountLimit - 1)
Scalars == 0..(Q - 1)

\* Exact sums, and the wrapping uint64_t sums of the code.
ValueSum(S) == MapThenSumSet(LAMBDA c : c.value, S)
WrapSum(S) == ValueSum(S) % AmountLimit
ListSum(l) == FoldLeft(LAMBDA a, v : a + v, 0, l)

\* GetAssetAmount: std::accumulate over the list with a 0ULL start.
GetAssetAmount(l) == ListSum(l) % AmountLimit

-----------------------------------------------------------------------------
(* Points and commitments.                                                 *)

GenG == -1                                  \* the blinding generator G
Gens == {GenG} \cup AssetIds
PointOf(g, k) == [x \in Gens |-> IF x = g THEN k % Q ELSE 0]
NoPoint == [x \in Gens |-> 0]
PAdd(p, r) == [x \in Gens |-> (p[x] + r[x]) % Q]
PNeg(p) == [x \in Gens |-> (Q - p[x]) % Q]
PSum(S, f(_)) == FoldSet(LAMBDA c, acc : PAdd(f(c), acc), NoPoint, S)

\* DeriveKey of the master KDF: the blinding factor of a key index.
Kdf(idx) == (3 * idx + 1) % Q
\* GetSK: the asset secret, derived from the AssetKIDId key.
AssetSk == Kdf(AssetKid)
\* The commitment of a coin: blind * G + value * H_asset (SwitchCommitment).
Commit(c) == PAdd(PointOf(GenG, Kdf(c.idx)), PointOf(c.asset, c.value))
BlindSum(S) == MapThenSumSet(LAMBDA c : Kdf(c.idx), S)

-----------------------------------------------------------------------------
VARIABLES
    phase,       \* the last builder step done, or "Failed"
    failure,     \* the TxFailureReason thrown, "None" while none was
    fee,         \* m_Fee
    cmd,         \* m_AssetCommand
    assetId,     \* m_AssetID (the AssetID parameter)
    amounts,     \* m_AssetAmountList
    db,          \* the wallet database's coins: [idx, asset, value, spent]
    nextIdx,     \* the next key index the database hands out
    inputs,      \* m_InputCoins: [idx, asset, value]
    outputs,     \* m_OutputCoins: [idx, asset, value, public]
    change,      \* m_Change, the native change
    assetChange, \* m_AssetChange
    offset,      \* m_Offset
    kernel,      \* m_Kernel's commitment, NoPoint before SignPartial
    emission,    \* m_EmissionKernel's m_AssetEmission, 0 when there is none
    hasEmission, \* m_EmissionKernel is set
    sigKey,      \* the key SignSync signed with
    tx           \* the assembled transaction

vars == <<phase, failure, fee, cmd, assetId, amounts, db, nextIdx, inputs, outputs,
          change, assetChange, offset, kernel, emission, hasEmission, sigKey, tx>>

\* A coin as the wallet database stores it, unspent.
DbCoin(c) == [idx |-> c.idx, asset |-> c.asset, value |-> c.value, spent |-> FALSE]

NoTx == [kernels |-> 0, offset |-> 0, inputs |-> {}, outputs |-> {}]

\* Mutant: the constructor keeps a missing AssetCommand instead of
\* defaulting to Transfer.
InitNoDefault ==
    /\ \E param \in Commands \cup {NoCommand} :
          cmd = param
    /\ fee \in Fees
    /\ assetId \in AssetIds
    /\ amounts \in AmountLists
    /\ db = {DbCoin(c) : c \in WalletCoins}
    /\ nextIdx = 1 + Max({c.idx : c \in WalletCoins} \cup {AssetKid})
    /\ phase = "Init" /\ failure = "None"
    /\ inputs = {} /\ outputs = {}
    /\ change = 0 /\ assetChange = 0 /\ offset = 0
    /\ kernel = NoPoint /\ emission = 0 /\ hasEmission = FALSE
    /\ sigKey = 0 /\ tx = NoTx

\* The constructor: the amount list and the command come from the
\* parameters; a missing AssetCommand defaults to Transfer.
Init ==
    /\ \E param \in Commands \cup {NoCommand} :
          cmd = IF param = NoCommand THEN "Transfer" ELSE param
    /\ fee \in Fees
    /\ assetId \in AssetIds
    /\ amounts \in AmountLists
    /\ db = {DbCoin(c) : c \in WalletCoins}
    /\ nextIdx = 1 + Max({c.idx : c \in WalletCoins} \cup {AssetKid})
    /\ phase = "Init" /\ failure = "None"
    /\ inputs = {} /\ outputs = {}
    /\ change = 0 /\ assetChange = 0 /\ offset = 0
    /\ kernel = NoPoint /\ emission = 0 /\ hasEmission = FALSE
    /\ sigKey = 0 /\ tx = NoTx
-----------------------------------------------------------------------------
(***************************************************************************)
(* selectCoins(amount, asset) of the wallet database: a set of unspent    *)
(* coins of the asset worth at least amount, none of them superfluous, or *)
(* nothing when the unspent coins are not worth enough.                   *)
(***************************************************************************)
Unspent(asset) == {c \in db : c.asset = asset /\ ~c.spent}
SelectCoins(amount, asset) ==
    LET fits == {S \in SUBSET Unspent(asset) :
                   /\ ValueSum(S) >= amount
                   /\ \A c \in S : ValueSum(S \ {c}) < amount}
    IN IF fits = {} THEN {{}} ELSE fits

InputOf(c) == [idx |-> c.idx, asset |-> c.asset, value |-> c.value]
\* db.save(coins) with m_spentTxId set.
MarkSpent(S) == {[c EXCEPT !.spent = c.spent \/ InputOf(c) \in S] : c \in db}

\* A builder step throws TransactionFailedException(reason).
Throw(reason) ==
    /\ phase' = "Failed" /\ failure' = reason

(***************************************************************************)
(* SelectInputs: BaseTxBuilder::SelectInputs selects and marks the native *)
(* coins for the fee; then the asset id is checked, and for Transfer and  *)
(* Burn SelectAssetInputs selects and marks the asset coins and adds the  *)
(* asset change. Issue selects nothing more; Zero is rejected.            *)
(***************************************************************************)
Selected(S) == {InputOf(c) : c \in S}

SelectInputs ==
    /\ phase = "Init"
    /\ \E nat \in SelectCoins(fee, 0) :
       LET natIn == Selected(nat)
       IN \/ /\ nat = {}
             /\ Throw("NoInputs")
             /\ UNCHANGED <<db, inputs, change, assetChange>>
          \/ /\ nat # {}
             /\ change' = (WrapSum(natIn) - fee) % AmountLimit
             /\ \/ /\ assetId = 0 \/ cmd = "Zero"
                   /\ Throw("InvalidTransaction")
                   /\ db' = MarkSpent(natIn) /\ inputs' = natIn
                   /\ UNCHANGED assetChange
                \/ /\ assetId # 0 /\ cmd = "Issue"
                   /\ phase' = "Selected" /\ UNCHANGED failure
                   /\ db' = MarkSpent(natIn) /\ inputs' = natIn
                   /\ UNCHANGED assetChange
                \/ /\ assetId # 0 /\ cmd \in {"Transfer", "Burn"}
                   /\ \E sel \in SelectCoins(GetAssetAmount(amounts), assetId) :
                      LET asIn == Selected(sel)
                      IN \/ /\ sel = {}
                            /\ Throw("NoInputs")
                            /\ db' = MarkSpent(natIn) /\ inputs' = natIn
                            /\ UNCHANGED assetChange
                         \/ /\ sel # {}
                            /\ phase' = "Selected" /\ UNCHANGED failure
                            /\ db' = MarkSpent(natIn \cup asIn)
                            /\ inputs' = natIn \cup asIn
                            /\ assetChange' = (assetChange + WrapSum(asIn)
                                               - GetAssetAmount(amounts))
                                              % AmountLimit
    /\ UNCHANGED <<fee, cmd, assetId, amounts, nextIdx, outputs, offset, kernel,
                   emission, hasEmission, sigKey, tx>>

\* GenerateNewCoin(amount, bChange) for each [asset, value, public] of
\* specs, in order: each coin takes the next key index, is stored in the
\* database and is added to m_OutputCoins.
CoinSpec(asset, value, pub) == [asset |-> asset, value |-> value, public |-> pub]
NewCoins(specs) ==
    {[idx |-> nextIdx + i - 1, asset |-> specs[i].asset,
      value |-> specs[i].value, public |-> specs[i].public] : i \in DOMAIN specs}
GenerateNewCoins(specs) ==
    /\ outputs' = outputs \cup NewCoins(specs)
    /\ db' = db \cup {DbCoin(c) : c \in NewCoins(specs)}
    /\ nextIdx' = nextIdx + Len(specs)

\* A coin of the asset is public unless the command is Transfer.
IsPublic == cmd # "Transfer"

\* AddChange: BaseTxBuilder::AddChange adds a native change coin when
\* m_Change is nonzero, then a change coin of the asset when m_AssetChange
\* is nonzero.
AddChange ==
    /\ phase = "Selected"
    /\ GenerateNewCoins(
         (IF change = 0 THEN <<>> ELSE <<CoinSpec(0, change, FALSE)>>)
         \o (IF assetChange = 0 THEN <<>>
             ELSE <<CoinSpec(assetId, assetChange, IsPublic)>>))
    /\ phase' = "Changed"
    /\ UNCHANGED <<failure, fee, cmd, assetId, amounts, inputs, change, assetChange,
                   offset, kernel, emission, hasEmission, sigKey, tx>>

\* Mutant: GenerateNewCoinList without the early return for Burn.
GenerateNewCoinListBurnOutputs ==
    /\ phase = "Changed"
    /\ GenerateNewCoins(
         [i \in DOMAIN amounts |-> CoinSpec(assetId, amounts[i], IsPublic)])
    /\ phase' = "Outputs"
    /\ UNCHANGED <<failure, fee, cmd, assetId, amounts, inputs, change, assetChange,
                   offset, kernel, emission, hasEmission, sigKey, tx>>

\* GenerateNewCoinList(false): the base list is empty; a Burn stops there,
\* the other commands make one coin of the asset per listed amount.
GenerateNewCoinList ==
    /\ phase = "Changed"
    /\ GenerateNewCoins(
         IF cmd = "Burn" THEN <<>>
         ELSE [i \in DOMAIN amounts |-> CoinSpec(assetId, amounts[i], IsPublic)])
    /\ phase' = "Outputs"
    /\ UNCHANGED <<failure, fee, cmd, assetId, amounts, inputs, change, assetChange,
                   offset, kernel, emission, hasEmission, sigKey, tx>>

\* GenerateOffset: BaseTxBuilder draws a random offset.
GenerateOffset ==
    /\ phase = "Outputs"
    /\ offset' \in Scalars
    /\ phase' = "Offset"
    /\ UNCHANGED <<failure, fee, cmd, assetId, amounts, db, nextIdx, inputs, outputs,
                   change, assetChange, kernel, emission, hasEmission, sigKey, tx>>

\* CreateKernel: the base kernel, and for Issue and Burn of a nonzero
\* amount the emission kernel, signed with the asset secret.
CreateKernel ==
    /\ phase = "Offset"
    /\ LET amt == GetAssetAmount(amounts)
       IN /\ hasEmission' = (cmd \in Emitting /\ amt > 0)
          /\ emission' = IF ~hasEmission' THEN 0
                         ELSE IF cmd = "Issue" THEN amt ELSE -amt
    /\ phase' = "Kernel"
    /\ UNCHANGED <<failure, fee, cmd, assetId, amounts, db, nextIdx, inputs, outputs,
                   change, assetChange, offset, kernel, sigKey, tx>>

(***************************************************************************)
(* GetPublicExcess: the input commitments less the output commitments and *)
(* offset * G, plus the net native amount on H and the net asset amount  *)
(* on the asset's generator (each a wrapping Amount sum), less the asset  *)
(* secret's image for Issue and Burn.                                     *)
(***************************************************************************)
NetOn(gen, total(_)) ==
    PAdd(PointOf(gen, total(outputs)), PNeg(PointOf(gen, total(inputs))))
OfAsset(a, S) == {c \in S : c.asset = a}
GetPublicExcess ==
    LET commits == PAdd(PSum(inputs, Commit),
                        PNeg(PAdd(PointOf(GenG, offset), PSum(outputs, Commit))))
        native  == NetOn(0, LAMBDA S : WrapSum(OfAsset(0, S)))
        asset   == NetOn(assetId, LAMBDA S : WrapSum(OfAsset(assetId, S)))
        secret  == IF cmd \in Emitting THEN PNeg(PointOf(GenG, AssetSk)) ELSE NoPoint
    IN PAdd(PAdd(commits, native), PAdd(asset, secret))

\* Mutant: SignPartial without the asset secret folded into the offset.
SignPartialNoSecret ==
    /\ phase = "Kernel"
    /\ kernel' = GetPublicExcess
    /\ sigKey' = (BlindSum(inputs) - BlindSum(outputs) - offset) % Q
    /\ phase' = "Signed"
    /\ UNCHANGED <<failure, fee, cmd, assetId, amounts, db, nextIdx, inputs, outputs,
                   change, assetChange, offset, emission, hasEmission, tx>>

\* SignPartial: the kernel commitment is the public excess (the peer adds
\* nothing to a one-party asset transaction); SignSync signs with the
\* inputs' blinds less the outputs' blinds less the offset, the asset
\* secret folded into the offset for Issue and Burn.
SignPartial ==
    /\ phase = "Kernel"
    /\ kernel' = GetPublicExcess
    /\ LET off == IF cmd \in Emitting THEN offset + AssetSk ELSE offset
       IN sigKey' = (BlindSum(inputs) - BlindSum(outputs) - off) % Q
    /\ phase' = "Signed"
    /\ UNCHANGED <<failure, fee, cmd, assetId, amounts, db, nextIdx, inputs, outputs,
                   change, assetChange, offset, emission, hasEmission, tx>>

\* CreateTransaction: the emission kernel (if any) and the kernel, the
\* offset plus the peer's (none), the inputs and the outputs.
CreateTransaction ==
    /\ phase = "Signed"
    /\ tx' = [kernels |-> IF hasEmission THEN 2 ELSE 1, offset |-> offset,
              inputs |-> inputs, outputs |-> outputs]
    /\ phase' = "Created"
    /\ UNCHANGED <<failure, fee, cmd, assetId, amounts, db, nextIdx, inputs, outputs,
                   change, assetChange, offset, kernel, emission, hasEmission,
                   sigKey>>

\* The transaction is built, or the builder threw.
Finished ==
    /\ phase \in {"Created", "Failed"}
    /\ UNCHANGED vars

Next ==
    \/ SelectInputs \/ AddChange \/ GenerateNewCoinList \/ GenerateOffset
    \/ CreateKernel \/ SignPartial \/ CreateTransaction \/ Finished

Spec == Init /\ [][Next]_vars

-----------------------------------------------------------------------------
(* Properties.                                                             *)

TypeOK ==
    /\ phase \in {"Init", "Selected", "Changed", "Outputs", "Offset", "Kernel",
                  "Signed", "Created", "Failed"}
    /\ failure \in {"None", "NoInputs", "InvalidTransaction"}
    /\ fee \in Fees /\ cmd \in Commands /\ assetId \in AssetIds /\ amounts \in AmountLists
    /\ \A c \in inputs \cup outputs : c.asset \in AssetIds /\ c.value \in Amount
    /\ change \in Amount /\ assetChange \in Amount
    /\ offset \in Scalars /\ sigKey \in Scalars
    /\ kernel \in [Gens -> Scalars]
    /\ hasEmission \in BOOLEAN

\* The partial signature SignPartial makes verifies against the kernel
\* commitment it sets: the key SignSync signs with, times G, is the
\* public excess GetPublicExcess computes from the coins, the offset and
\* the asset secret.
SignatureVerifies ==
    phase \in {"Signed", "Created"} => PointOf(GenG, sigKey) = kernel

\* The built transaction creates or destroys asset value only through its
\* emission kernel: the asset's inputs plus the emission equal its outputs
\* (exact sums). Burn makes no asset coin for the list; Issue selects none.
AssetConserved ==
    phase = "Created" =>
        ValueSum(OfAsset(assetId, inputs)) + emission
            = ValueSum(OfAsset(assetId, outputs))
====
