----------------------------- MODULE AtomicSwap -----------------------------
(***************************************************************************)
(* The atomic swap of src/wallet/swaps/swap_transaction.cpp, run by both   *)
(* of its parties at once.                                                 *)
(*                                                                         *)
(*   G  the party with IsGrimmSide() = true: it locks its Grimm coins in a *)
(*      2-of-2 shared output and later redeems the foreign coins;          *)
(*   B  the party with IsGrimmSide() = false: it locks its foreign coins   *)
(*      (SendLockTx) and redeems the shared Grimm output.                  *)
(*                                                                         *)
(* Each party is an AtomicSwapTransaction. One Update(p) step is one call  *)
(* of BaseTransaction::Update: CheckExternalFailures, UpdateImpl, then     *)
(* CheckExpired, run to completion. The two parties talk through the      *)
(* parameter messages the Send* helpers build (a message is the kind of    *)
(* the SetTxParameter, its payload abstracted away); the Grimm chain is a  *)
(* height, the kernels included at each height, a mempool fed by          *)
(* register_tx, and reorganisations that call Rollback; the foreign chain  *)
(* is the state of B's HTLC and whether its lock time has passed.          *)
(*                                                                         *)
(* Cryptography is abstracted away: every signature between honest parties *)
(* verifies unless PeerFaults lets a validity check fail.                  *)
(***************************************************************************)
EXTENDS Integers, FiniteSets

CONSTANTS
    G, B,           \* the Grimm-side and the foreign-side party
    Initiator,      \* the party that created the swap (IsInitiator())
    MaxChainHeight, \* bound on the Grimm chain height
    LockResponse,   \* the lock kernel's max height is MinHeight + LockResponse
    LockTime,       \* kGrimmLockTimeInBlocks
    MaxReorgs,      \* bound on chain reorganisations
    IdleBlocks,     \* blocks may be mined with nothing from this swap in them
    SendFailures,   \* SendTxParameters may return false
    LossyNet,       \* a sent parameter message may never arrive
    ReorderNet,     \* a message may overtake the invitation sent before it
    NodeRejects,    \* the node may reject a transaction register_tx sends
    PeerFaults,     \* the builders' validity checks may fail
    ForeignFaults,  \* the foreign-chain adapter may fail
    ForeignExpiry,  \* the foreign lock time may pass
    UserCancels     \* the user may call Cancel()

Party == {G, B}
ASSUME Initiator \in Party /\ G # B
ASSUME {MaxChainHeight, LockResponse, LockTime, MaxReorgs} \subseteq Nat
ASSUME {IdleBlocks, SendFailures, LossyNet, ReorderNet, NodeRejects, PeerFaults,
        ForeignFaults, ForeignExpiry, UserCancels} \subseteq BOOLEAN

Peer(p) == IF p = G THEN B ELSE G

\* AtomicSwapTransaction::State, plus "Absent" for a party whose transaction
\* object does not exist yet (the invited party before the invitation).
States == {"Initial", "Invitation", "BuildingGrimmLockTX",
           "BuildingGrimmRefundTX", "BuildingGrimmRedeemTX",
           "HandlingContractTX", "SendingRefundTX", "SendingRedeemTX",
           "SendingGrimmLockTX", "SendingGrimmRedeemTX",
           "SendingGrimmRefundTX", "CompleteSwap", "Cancelled", "Failed",
           "Refunded"}
Terminal == {"CompleteSwap", "Cancelled", "Failed", "Refunded"}
Building == {"BuildingGrimmLockTX", "BuildingGrimmRefundTX",
             "BuildingGrimmRedeemTX"}

\* AtomicSwapTransaction::SubTxState and the Grimm sub-transactions.
SubTxStates == {"Initial", "Invitation", "SharedUTXOProofPart2", "Constructed"}
SubTxs == {"Lock", "Refund", "Redeem"}      \* GRIMM_LOCK_TX, _REFUND_TX, _REDEEM_TX
\* InternalFailureReason is also kept for LOCK_TX, the foreign lock.
FailureSubTxs == SubTxs \cup {"ForeignLock"}
Reasons == {"None", "InvalidTransaction", "MaxHeightIsUnacceptable",
            "InvalidPeerSignature", "FailedToRegister", "ForeignLockFailed"}

\* The kinds of SetTxParameter message, named after the helper that sends
\* them, or after the sub-transaction step they carry.
Kinds == {"Invite",                                  \* SendInvitation
          "LockInv",                                 \* SendLockTxInvitation
          "LockPart2B", "LockPart2G",                \* SendMultiSigProofPart2
          "LockPart3B",                              \* SendMultiSigProofPart3
          "RefundInv", "RedeemInv",                  \* SendSharedTxInvitation
          "RefundConf", "RedeemConf",                \* ConfirmSharedTxInvitation
          "RedeemSig",                               \* B's partial signature with the secret
          "ExtDetails",                              \* SendExternalTxDetails
          "Failure"}                                 \* NotifyFailure
Msg(to, k) == [to |-> to, kind |-> k]

NoHeight == -1
Heights == 0..MaxChainHeight

VARIABLES
    st,         \* st[p]: GetState(kDefaultSubTxID)
    sub,        \* sub[p][s]: GetSubTxState(s)
    store,      \* store[p]: the kinds of peer message applied to p's parameters
    net,        \* messages sent and not yet delivered
    internal,   \* internal[p][s]: InternalFailureReason of sub-transaction s
    gCoins,     \* G's input coins: "Avail", "Selected" (spent by this tx), "Spent"
    lockTx,     \* G's m_LockTx is set (a lock tx that passed IsValid)
    withdrawTx, \* withdrawTx[p]: m_WithdrawTx is set
    secret,     \* G holds AtomicSwapSecretPrivateKey of GRIMM_REDEEM_TX
    completed,  \* completed[p]: on_tx_completed was called
    impossible, \* OnFailed reached one of its "Impossible case!" assertions
    h,          \* the Grimm chain tip height
    minHeight,  \* TxParameterID::MinHeight of the swap
    chainH,     \* chainH[s]: height of the block holding s's kernel, 0 if none
    reg,        \* reg[s]: "None", "Req" (register_tx in flight), "Ok", "Fail"
    proof,      \* proof[p][s]: KernelProofHeight of s at p, 0 if none
    proofReq,   \* proofReq[p]: sub-txs with a confirm_kernel/get_kernel in flight
    reorgs,     \* reorganisations so far
    btc,        \* B's foreign HTLC: "None", "Locked", "Redeemed", "Refunded"
    btcExpired  \* the foreign lock time has passed

local == <<st, sub, store, internal, gCoins, lockTx, withdrawTx, secret,
           completed, impossible>>
chain == <<h, minHeight, chainH, reg, proof, proofReq, reorgs>>
vars == <<local, net, chain, btc, btcExpired>>

-----------------------------------------------------------------------------
(* Lock times.                                                             *)

\* The lock kernel's max height (MaxHeight of GRIMM_LOCK_TX).
LockMaxHeight == minHeight + LockResponse
\* IsGrimmLockTimeExpired: MinHeight defaults to MaxHeight when unset.
IsGrimmLockTimeExpired == minHeight # NoHeight /\ h > minHeight + LockTime

\* G knows the lock's MaxHeight: from creation when it initiated, else once
\* BuildGrimmLockTx saved it when sending the lock invitation.
LockMaxHeightKnown(lockSub) ==
    IF Initiator = G THEN minHeight # NoHeight ELSE lockSub # "Initial"

Registered(s) == reg[s] \in {"Ok", "Fail"}   \* TransactionRegistered is set

-----------------------------------------------------------------------------
(* OnFailed(reason, notify): the state it moves to, whether it calls       *)
(* RollbackTx, and whether it hits an assert(false).                       *)

OnFailedState(p, s) ==
    CASE s \in {"Initial", "Invitation"} \cup Building
                \cup {"HandlingContractTX"}        -> "Failed"
      [] s = "SendingGrimmLockTX" /\ p = G          -> "Failed"
      [] s = "SendingGrimmRedeemTX" /\ p = B        -> "SendingRefundTX"
      [] OTHER                                      -> s

OnFailedRollsBack(p, s) ==
    \/ s \in Building \cup {"HandlingContractTX"}
    \/ s = "SendingGrimmLockTX" /\ p = G

OnFailedAsserts(p, s) ==
    \/ s = "SendingGrimmLockTX" /\ p = B
    \/ s = "SendingGrimmRedeemTX" /\ p = G
    \/ s = "SendingRedeemTX" /\ p = B

\* RollbackTx: rollbackTx(txID) returns the coins this tx selected.
RollbackCoins(p, c) == IF p = G /\ c = "Selected" THEN "Avail" ELSE c

-----------------------------------------------------------------------------
(* The result of a builder step: the sub-tx state it returns, the kinds it *)
(* sent, whether it called OnFailed (and with notify), p's new failure     *)
(* reasons, whether G selected its inputs, and whether it built the tx.    *)

Out(ls, sent, failed, notify, intl, sel, built) ==
    [ls |-> ls, sent |-> sent, failed |-> failed, notify |-> notify,
     internal |-> intl, select |-> sel, built |-> built]

\* OnSubTxFailed(reason, s, notify): ignored when s already failed so.
SubTxFailedOut(p, ls, s, reason, notify, sel) ==
    LET dup == internal[p][s] = reason
    IN  Out(ls, {}, ~dup, notify /\ ~dup,
            [internal[p] EXCEPT ![s] = reason], sel, FALSE)

Quiet(p, ls, sent, sel) == Out(ls, sent, FALSE, FALSE, internal[p], sel, FALSE)

\* The outcomes the environment may choose for one step.
SendOutcomes == IF SendFailures THEN BOOLEAN ELSE {TRUE}
\* The validity check of sub-tx s that fails, if any. A check is
\* deterministic: once it failed, rerunning it on the same data fails again.
FaultsOf(p, s) ==
    CASE internal[p][s] = "InvalidTransaction"   -> {"Transaction"}
      [] internal[p][s] = "InvalidPeerSignature" -> {"PeerSignature"}
      [] PeerFaults -> {"None", "MaxHeight", "PeerSignature", "Transaction"}
      [] OTHER      -> {"None"}

(***************************************************************************)
(* BuildGrimmLockTx: the three-round construction of the shared output.   *)
(* G owns the multi-signature bulletproof; ok is what SendTxParameters    *)
(* returns and bad the validity check that fails, if any.                  *)
(***************************************************************************)
BuildGrimmLockTx(p, ok, bad) ==
    LET own     == p = G
        ls      == sub[p]["Lock"]
        sel     == own /\ ls = "Initial" /\ gCoins = "Avail"
        excess  == IF own THEN "LockPart2B" \in store[p] ELSE "LockInv" \in store[p]
        peerSig == IF own THEN "LockPart2B" \in store[p] ELSE "LockPart2G" \in store[p]
        part3   == IF own THEN "LockPart3B" \in store[p] ELSE "LockPart2G" \in store[p]
        part2Kind == IF own THEN "LockPart2G" ELSE "LockPart2B"
        sent(k) == IF ok THEN {k} ELSE {}
    IN CASE bad = "MaxHeight" /\ excess ->
              SubTxFailedOut(p, ls, "Lock", "MaxHeightIsUnacceptable", TRUE, sel)
         [] ~excess ->
              IF ls = "Initial" /\ own
              THEN Out("Invitation", sent("LockInv"), ~ok, FALSE,
                       internal[p], sel, FALSE)
              ELSE Quiet(p, ls, {}, sel)
         [] ls \in {"Initial", "Invitation"} ->
              \* SharedUTXOProofPart2: the owner needs B's part 2
              IF own /\ "LockPart2B" \notin store[p]
              THEN Quiet(p, ls, {}, sel)
              ELSE Out("SharedUTXOProofPart2", sent(part2Kind), ~ok, FALSE,
                       internal[p], sel, FALSE)
         [] ~peerSig -> Quiet(p, ls, {}, sel)
         [] bad = "PeerSignature" ->
              SubTxFailedOut(p, ls, "Lock", "InvalidPeerSignature", TRUE, sel)
         [] ls = "SharedUTXOProofPart2" /\ ~part3 -> Quiet(p, ls, {}, sel)
         [] own /\ bad = "Transaction" ->
              SubTxFailedOut(p, "Constructed", "Lock", "InvalidTransaction", TRUE, sel)
         [] own -> Out("Constructed", {}, FALSE, FALSE, internal[p], sel, TRUE)
         [] ls = "SharedUTXOProofPart2" ->
              Out("Constructed", sent("LockPart3B"), ~ok, FALSE,
                  internal[p], sel, FALSE)
         [] OTHER -> Quiet(p, ls, {}, sel)

(***************************************************************************)
(* BuildGrimmWithdrawTx(s): the refund (owned by G) and the redeem (owned *)
(* by B) spending the shared output. B's partial signature on the redeem   *)
(* carries the secret, and G derives the secret's public key from it.     *)
(***************************************************************************)
IsTxOwner(p, s) == (p = G /\ s = "Refund") \/ (p = B /\ s = "Redeem")
InvKind(s)  == IF s = "Refund" THEN "RefundInv" ELSE "RedeemInv"
ConfKind(s) == IF s = "Refund" THEN "RefundConf" ELSE "RedeemConf"

\* Mutant: the non-owner's refund is not marked Constructed after it confirms.
BuildGrimmWithdrawTxNoConfirmedRefund(p, s, ok, bad) ==
    LET ss      == sub[p][s]
        owner   == IsTxOwner(p, s)
        excess  == IF owner THEN ConfKind(s) \in store[p] ELSE InvKind(s) \in store[p]
        peerSig == IF owner THEN ConfKind(s) \in store[p]
                   ELSE s = "Redeem" /\ "RedeemSig" \in store[p]
        sent(k) == IF ok THEN {k} ELSE {}
        sigSent == IF s = "Redeem" /\ p = B THEN sent("RedeemSig") ELSE {}
    IN CASE ~excess ->
              IF ss = "Initial" /\ owner
              THEN Out("Invitation", sent(InvKind(s)), ~ok, FALSE,
                       internal[p], FALSE, FALSE)
              ELSE Quiet(p, ss, {}, FALSE)
         [] ~peerSig ->
              IF ss = "Initial" /\ ~owner
              THEN Out(ss,
                       sent(ConfKind(s)), ~ok, FALSE, internal[p], FALSE, FALSE)
              ELSE Quiet(p, ss, {}, FALSE)
         [] s = "Redeem" /\ p = G -> Quiet(p, "Constructed", {}, FALSE)
         [] s = "Redeem" /\ p = B /\ ~ok ->
              Out(ss, {}, TRUE, FALSE, internal[p], FALSE, FALSE)
         [] bad = "PeerSignature" ->
              [SubTxFailedOut(p, ss, s, "InvalidPeerSignature", TRUE, FALSE)
                  EXCEPT !.sent = sigSent]
         [] owner /\ bad = "Transaction" ->
              [SubTxFailedOut(p, "Constructed", s, "InvalidTransaction", TRUE, FALSE)
                  EXCEPT !.sent = sigSent]
         [] OTHER -> Out("Constructed", sigSent, FALSE, FALSE, internal[p],
                         FALSE, owner)

BuildGrimmWithdrawTx(p, s, ok, bad) ==
    LET ss      == sub[p][s]
        owner   == IsTxOwner(p, s)
        excess  == IF owner THEN ConfKind(s) \in store[p] ELSE InvKind(s) \in store[p]
        peerSig == IF owner THEN ConfKind(s) \in store[p]
                   ELSE s = "Redeem" /\ "RedeemSig" \in store[p]
        sent(k) == IF ok THEN {k} ELSE {}
        \* B sends its partial signature plus the secret before checking G's
        sigSent == IF s = "Redeem" /\ p = B THEN sent("RedeemSig") ELSE {}
    IN CASE ~excess ->
              IF ss = "Initial" /\ owner
              THEN Out("Invitation", sent(InvKind(s)), ~ok, FALSE,
                       internal[p], FALSE, FALSE)
              ELSE Quiet(p, ss, {}, FALSE)
         [] ~peerSig ->
              IF ss = "Initial" /\ ~owner
              THEN Out(IF s = "Refund" THEN "Constructed" ELSE ss,
                       sent(ConfKind(s)), ~ok, FALSE, internal[p], FALSE, FALSE)
              ELSE Quiet(p, ss, {}, FALSE)
         [] s = "Redeem" /\ p = G -> Quiet(p, "Constructed", {}, FALSE)
         [] s = "Redeem" /\ p = B /\ ~ok ->
              Out(ss, {}, TRUE, FALSE, internal[p], FALSE, FALSE)
         [] bad = "PeerSignature" ->
              [SubTxFailedOut(p, ss, s, "InvalidPeerSignature", TRUE, FALSE)
                  EXCEPT !.sent = sigSent]
         [] owner /\ bad = "Transaction" ->
              [SubTxFailedOut(p, "Constructed", s, "InvalidTransaction", TRUE, FALSE)
                  EXCEPT !.sent = sigSent]
         [] OTHER -> Out("Constructed", sigSent, FALSE, FALSE, internal[p],
                         FALSE, owner)

(***************************************************************************)
(* SendSubTx(tx, s): register once, then read TransactionRegistered.       *)
(***************************************************************************)
\* Mutant: a registration still awaiting the node's answer is read as failed.
SendSubTxOutEager(p, s) ==
    CASE reg[s] = "None" ->
            [ok |-> FALSE, reg |-> "Req", failed |-> FALSE, notify |-> FALSE,
             internal |-> internal[p]]
      [] reg[s] = "Ok" ->
            [ok |-> TRUE, reg |-> "Ok", failed |-> FALSE, notify |-> FALSE,
             internal |-> internal[p]]
      [] OTHER ->
            LET dup == internal[p][s] = "FailedToRegister"
            IN [ok |-> FALSE, reg |-> reg[s], failed |-> ~dup,
                notify |-> ~dup /\ s = "Lock",
                internal |-> [internal[p] EXCEPT ![s] = "FailedToRegister"]]

SendSubTxOut(p, s) ==
    CASE reg[s] \in {"None", "Req"} ->
            [ok |-> FALSE, reg |-> "Req", failed |-> FALSE, notify |-> FALSE,
             internal |-> internal[p]]
      [] reg[s] = "Ok" ->
            [ok |-> TRUE, reg |-> "Ok", failed |-> FALSE, notify |-> FALSE,
             internal |-> internal[p]]
      [] OTHER ->
            LET dup == internal[p][s] = "FailedToRegister"
            IN [ok |-> FALSE, reg |-> "Fail", failed |-> ~dup,
                notify |-> ~dup /\ s = "Lock",
                internal |-> [internal[p] EXCEPT ![s] = "FailedToRegister"]]

-----------------------------------------------------------------------------
Init ==
    /\ st = [p \in Party |-> IF p = Initiator THEN "Initial" ELSE "Absent"]
    /\ sub = [p \in Party |-> [s \in SubTxs |-> "Initial"]]
    /\ store = [p \in Party |-> {}]
    /\ net = {}
    /\ internal = [p \in Party |-> [s \in FailureSubTxs |-> "None"]]
    /\ gCoins = "Avail"
    /\ lockTx = FALSE
    /\ withdrawTx = [p \in Party |-> FALSE]
    /\ secret = FALSE
    /\ completed = [p \in Party |-> FALSE]
    /\ impossible = FALSE
    /\ h = 0
    /\ minHeight = NoHeight
    /\ chainH = [s \in SubTxs |-> 0]
    /\ reg = [s \in SubTxs |-> "None"]
    /\ proof = [p \in Party |-> [s \in SubTxs |-> 0]]
    /\ proofReq = [p \in Party |-> {}]
    /\ reorgs = 0
    /\ btc = "None"
    /\ btcExpired = FALSE

-----------------------------------------------------------------------------
(***************************************************************************)
(* The end of every tick. UpdateImpl has left state nst, coins c and, if  *)
(* it called OnFailed on the way, hit an assertion or not. Then           *)
(* CheckExpired: while the lock is not registered and the tip is past its *)
(* max height, G calls OnFailed(TransactionExpired, false) in nst.         *)
(***************************************************************************)
\* Mutant: CheckExpired without the IsGrimmSide() test.
FinishTickBothSides(p, nst, c, hit) ==
    LET expired == /\ ~Registered("Lock")
                   /\ LockMaxHeightKnown(sub'[G]["Lock"])
                   /\ h > LockMaxHeight
    IN /\ st' = [st EXCEPT ![p] = IF expired THEN OnFailedState(p, nst) ELSE nst]
       /\ gCoins' = IF expired /\ OnFailedRollsBack(p, nst)
                    THEN RollbackCoins(p, c) ELSE c
       /\ impossible' = (impossible \/ hit \/ (expired /\ OnFailedAsserts(p, nst)))

\* Mutant: CheckExpired without the TransactionRegistered test.
FinishTickRegistered(p, nst, c, hit) ==
    LET expired == /\ p = G
                   /\ LockMaxHeightKnown(sub'[G]["Lock"])
                   /\ h > LockMaxHeight
    IN /\ st' = [st EXCEPT ![p] = IF expired THEN OnFailedState(p, nst) ELSE nst]
       /\ gCoins' = IF expired /\ OnFailedRollsBack(p, nst)
                    THEN RollbackCoins(p, c) ELSE c
       /\ impossible' = (impossible \/ hit \/ (expired /\ OnFailedAsserts(p, nst)))

FinishTick(p, nst, c, hit) ==
    LET expired == /\ p = G
                   /\ ~Registered("Lock")
                   /\ LockMaxHeightKnown(sub'[G]["Lock"])
                   /\ h > LockMaxHeight
    IN /\ st' = [st EXCEPT ![p] = IF expired THEN OnFailedState(p, nst) ELSE nst]
       /\ gCoins' = IF expired /\ OnFailedRollsBack(p, nst)
                    THEN RollbackCoins(p, c) ELSE c
       /\ impossible' = (impossible \/ hit \/ (expired /\ OnFailedAsserts(p, nst)))

Notify(p, n) == IF n THEN {Msg(Peer(p), "Failure")} ELSE {}
SendAll(p, ks) == {Msg(Peer(p), k) : k \in ks}

(***************************************************************************)
(* The cases of UpdateImpl's switch, one action each.                     *)
(***************************************************************************)

\* Initial: the initiator fixes MinHeight, the second side is initialised.
\* Mutant: MinHeight and PeerResponseHeight swapped when the heights are set.
UpdateInitialSwapped(p) ==
    /\ st[p] = "Initial"
    /\ minHeight' = IF p = Initiator /\ minHeight = NoHeight THEN h + LockResponse
                    ELSE minHeight
    /\ UNCHANGED <<sub, store, net, internal, lockTx, withdrawTx, secret, completed,
                   h, chainH, reg, proof, proofReq, reorgs, btc, btcExpired>>
    /\ FinishTick(p, "Invitation", gCoins, FALSE)

UpdateInitial(p) ==
    /\ st[p] = "Initial"
    /\ minHeight' = IF p = Initiator /\ minHeight = NoHeight THEN h ELSE minHeight
    /\ UNCHANGED <<sub, store, net, internal, lockTx, withdrawTx, secret, completed,
                   h, chainH, reg, proof, proofReq, reorgs, btc, btcExpired>>
    /\ FinishTick(p, "Invitation", gCoins, FALSE)

\* Invitation: the initiator sends the invitation; a failed send calls
\* OnFailed, whose Failed is then overwritten by SetNextState. The invited
\* party validates the foreign lock time.
UpdateInvitation(p) ==
    /\ st[p] = "Invitation"
    /\ UNCHANGED <<sub, store, lockTx, withdrawTx, secret, completed, chain, btc, btcExpired>>
    /\ \/ /\ p = Initiator
          /\ \E ok \in SendOutcomes :
                /\ net' = net \cup (IF ok THEN {Msg(Peer(p), "Invite")} ELSE {})
                /\ UNCHANGED internal
                /\ FinishTick(p, "BuildingGrimmLockTX", gCoins, FALSE)
       \/ /\ p # Initiator
          /\ UNCHANGED <<net, internal>>
          /\ FinishTick(p, "BuildingGrimmLockTX", gCoins, FALSE)
       \/ /\ p # Initiator /\ ForeignFaults
          \* ValidateLockTime fails: OnSubTxFailed(InvalidTransaction, LOCK_TX, true)
          /\ LET dup == internal[p]["ForeignLock"] = "InvalidTransaction"
             IN /\ internal' = [internal EXCEPT ![p]["ForeignLock"] = "InvalidTransaction"]
                /\ net' = net \cup Notify(p, ~dup)
                /\ FinishTick(p, IF dup THEN "Invitation" ELSE "Failed", gCoins, FALSE)

\* BuildingGrimmLockTX: one round of BuildGrimmLockTx.
UpdateBuildingLock(p) ==
    /\ st[p] = "BuildingGrimmLockTX"
    /\ \E ok \in SendOutcomes, bad \in FaultsOf(p, "Lock") :
         LET r   == BuildGrimmLockTx(p, ok, bad)
             c0  == IF r.select THEN "Selected" ELSE gCoins
             st1 == IF r.failed THEN OnFailedState(p, st[p]) ELSE st[p]
             c1  == IF r.failed THEN RollbackCoins(p, c0) ELSE c0
         IN /\ sub' = [sub EXCEPT ![p]["Lock"] = r.ls]
            /\ internal' = [internal EXCEPT ![p] = r.internal]
            /\ lockTx' = (lockTx \/ r.built)
            /\ net' = net \cup SendAll(p, r.sent) \cup Notify(p, r.notify)
            /\ FinishTick(p, IF r.ls = "Constructed" THEN "BuildingGrimmRefundTX"
                             ELSE st1, c1, FALSE)
    /\ UNCHANGED <<store, withdrawTx, secret, completed, chain, btc, btcExpired>>

\* BuildingGrimmRefundTX and BuildingGrimmRedeemTX: one round of
\* BuildGrimmWithdrawTx; m_WithdrawTx is reset once the tx is constructed.
UpdateBuildingWithdraw(p, s) ==
    /\ st[p] = IF s = "Refund" THEN "BuildingGrimmRefundTX" ELSE "BuildingGrimmRedeemTX"
    /\ \E ok \in SendOutcomes, bad \in FaultsOf(p, s) :
         LET r   == BuildGrimmWithdrawTx(p, s, ok, bad)
             st1 == IF r.failed THEN OnFailedState(p, st[p]) ELSE st[p]
             nxt == IF s = "Refund" THEN "BuildingGrimmRedeemTX" ELSE "HandlingContractTX"
         IN /\ sub' = [sub EXCEPT ![p][s] = r.ls]
            /\ internal' = [internal EXCEPT ![p] = r.internal]
            /\ net' = net \cup SendAll(p, r.sent) \cup Notify(p, r.notify)
            /\ FinishTick(p, IF r.ls = "Constructed" THEN nxt ELSE st1,
                          IF r.failed THEN RollbackCoins(p, gCoins) ELSE gCoins,
                          FALSE)
    /\ UNCHANGED <<store, lockTx, withdrawTx, secret, completed, chain, btc, btcExpired>>

\* HandlingContractTX: B locks the foreign coins and sends their details;
\* G waits for the foreign lock to be confirmed.
\* Mutant: B stops in Failed when sending the external details fails.
UpdateHandlingContractFailStays(p) ==
    /\ st[p] = "HandlingContractTX"
    /\ UNCHANGED <<sub, store, lockTx, withdrawTx, secret, completed, chain, btcExpired>>
    /\ \/ /\ p = B
          /\ btc' = IF btc = "None" THEN "Locked" ELSE btc
          /\ \E ok \in SendOutcomes :
               /\ net' = net \cup (IF ok THEN {Msg(G, "ExtDetails")} ELSE {})
               /\ FinishTick(p, IF ok THEN "SendingGrimmLockTX" ELSE "Failed",
                             gCoins, FALSE)
          /\ UNCHANGED internal
       \/ /\ p = B /\ ForeignFaults /\ btc = "None"
          /\ internal' = [internal EXCEPT ![p]["ForeignLock"] = "ForeignLockFailed"]
          /\ UNCHANGED <<net, btc>>
          /\ FinishTick(p, st[p], gCoins, FALSE)
       \/ /\ p = G
          /\ IF btc # "None" /\ "ExtDetails" \in store[G]
             THEN FinishTick(p, "SendingGrimmLockTX", gCoins, FALSE)
             ELSE FinishTick(p, st[p], gCoins, FALSE)
          /\ UNCHANGED <<net, internal, btc>>

UpdateHandlingContract(p) ==
    /\ st[p] = "HandlingContractTX"
    /\ UNCHANGED <<sub, store, lockTx, withdrawTx, secret, completed, chain, btcExpired>>
    /\ \/ /\ p = B
          /\ btc' = IF btc = "None" THEN "Locked" ELSE btc
          /\ \E ok \in SendOutcomes :
               /\ net' = net \cup (IF ok THEN {Msg(G, "ExtDetails")} ELSE {})
               \* a failed send: OnFailed rolls back and fails, then
               \* SetNextState(SendingGrimmLockTX) overwrites it
               /\ FinishTick(p, "SendingGrimmLockTX", gCoins, FALSE)
          /\ UNCHANGED internal
       \/ /\ p = B /\ ForeignFaults /\ btc = "None"
          \* the adapter fails the foreign lock and records it on LOCK_TX
          /\ internal' = [internal EXCEPT ![p]["ForeignLock"] = "ForeignLockFailed"]
          /\ UNCHANGED <<net, btc>>
          /\ FinishTick(p, st[p], gCoins, FALSE)
       \/ /\ p = G
          /\ IF btc # "None" /\ "ExtDetails" \in store[G]   \* ConfirmLockTx
             THEN FinishTick(p, "SendingGrimmLockTX", gCoins, FALSE)
             ELSE FinishTick(p, st[p], gCoins, FALSE)
          /\ UNCHANGED <<net, internal, btc>>

\* CompleteSubTx(s): ask for the kernel proof until it is known.
RequestProof(p, s) ==
    proofReq' = [proofReq EXCEPT ![p] = @ \cup {s}]

\* SendingGrimmLockTX: G registers the lock; B gives up when the foreign
\* lock time has passed; both wait for the lock kernel's proof.
UpdateSendingLock(p) ==
    /\ st[p] = "SendingGrimmLockTX"
    /\ UNCHANGED <<sub, store, lockTx, withdrawTx, secret, completed, h, minHeight,
                   chainH, proof, reorgs, btc, btcExpired>>
    /\ \/ /\ p = G /\ ~lockTx
          \* the rebuild fails IsValid again (a repeated reason is ignored),
          \* nothing is registered, and CompleteSubTx asks for the proof
          /\ UNCHANGED <<reg, internal, net>>
          /\ RequestProof(G, "Lock")
          /\ FinishTick(G, st[G], gCoins, FALSE)
       \/ /\ p = G /\ lockTx
          /\ LET r == SendSubTxOut(G, "Lock")
                 st1 == IF r.failed THEN OnFailedState(G, st[G]) ELSE st[G]
             IN /\ reg' = [reg EXCEPT !["Lock"] = r.reg]
                /\ internal' = [internal EXCEPT ![G] = r.internal]
                /\ net' = net \cup Notify(G, r.notify)
                /\ IF ~r.ok
                   THEN /\ UNCHANGED proofReq
                        /\ FinishTick(G, st1,
                              IF r.failed THEN RollbackCoins(G, gCoins) ELSE gCoins,
                              FALSE)
                   ELSE IF proof[G]["Lock"] = 0
                   THEN /\ RequestProof(G, "Lock")
                        /\ FinishTick(G, st1, gCoins, FALSE)
                   ELSE /\ UNCHANGED proofReq
                        /\ FinishTick(G, "SendingGrimmRedeemTX",
                                      IF gCoins = "Selected" THEN "Spent" ELSE gCoins,
                                      FALSE)
       \/ /\ p = B
          /\ UNCHANGED <<reg, internal, net>>
          /\ IF btcExpired
             THEN /\ UNCHANGED proofReq
                  /\ FinishTick(B, "SendingRefundTX", gCoins, FALSE)
             ELSE IF proof[B]["Lock"] = 0
             THEN /\ RequestProof(B, "Lock")
                  /\ FinishTick(B, st[B], gCoins, FALSE)
             ELSE /\ UNCHANGED proofReq
                  /\ FinishTick(B, "SendingGrimmRedeemTX", gCoins, FALSE)

\* SendingGrimmRedeemTX at G: refund if the Grimm lock time has passed and
\* no secret is known, else fetch the redeem kernel and extract the secret.
\* Mutant: GetKernelFromChain tests the proof height of GRIMM_LOCK_TX.
UpdateWaitRedeemLockProof(p) ==
    /\ st[p] = "SendingGrimmRedeemTX" /\ p = G
    /\ UNCHANGED <<sub, store, net, internal, lockTx, withdrawTx, completed, h,
                   minHeight, chainH, reg, proof, reorgs, btc, btcExpired>>
    /\ CASE IsGrimmLockTimeExpired /\ ~secret ->
              /\ UNCHANGED <<proofReq, secret>>
              /\ FinishTick(G, "SendingGrimmRefundTX", gCoins, FALSE)
         [] proof[G]["Lock"] = 0 ->
              /\ RequestProof(G, "Redeem")
              /\ UNCHANGED secret
              /\ FinishTick(G, st[G], gCoins, FALSE)
         [] OTHER ->
              /\ secret' = TRUE
              /\ UNCHANGED proofReq
              /\ FinishTick(G, "SendingRedeemTX", gCoins, FALSE)

UpdateWaitRedeem(p) ==
    /\ st[p] = "SendingGrimmRedeemTX" /\ p = G
    /\ UNCHANGED <<sub, store, net, internal, lockTx, withdrawTx, completed, h,
                   minHeight, chainH, reg, proof, reorgs, btc, btcExpired>>
    /\ CASE IsGrimmLockTimeExpired /\ ~secret ->
              /\ UNCHANGED <<proofReq, secret>>
              /\ FinishTick(G, "SendingGrimmRefundTX", gCoins, FALSE)
         [] proof[G]["Redeem"] = 0 ->
              /\ RequestProof(G, "Redeem")
              /\ UNCHANGED secret
              /\ FinishTick(G, st[G], gCoins, FALSE)
         [] OTHER ->
              /\ secret' = TRUE            \* ExtractSecretPrivateKey
              /\ UNCHANGED proofReq
              /\ FinishTick(G, "SendingRedeemTX", gCoins, FALSE)

(***************************************************************************)
(* CompleteGrimmWithdrawTx(s): B's redeem in SendingGrimmRedeemTX, G's    *)
(* refund in SendingGrimmRefundTX once the Grimm lock time has passed.    *)
(***************************************************************************)
UpdateCompleteWithdraw(p, s) ==
    /\ \/ s = "Redeem" /\ p = B /\ st[p] = "SendingGrimmRedeemTX"
       \/ s = "Refund" /\ p = G /\ st[p] = "SendingGrimmRefundTX"
                       /\ IsGrimmLockTimeExpired
    /\ \E ok \in SendOutcomes, bad \in FaultsOf(p, s) :
         LET b     == BuildGrimmWithdrawTx(p, s, ok, bad)
             build == ~withdrawTx[p]
             built == withdrawTx[p] \/ b.built
             st1   == IF build /\ b.failed THEN OnFailedState(p, st[p]) ELSE st[p]
             hit1  == build /\ b.failed /\ OnFailedAsserts(p, st[p])
             r     == SendSubTxOut(p, s)
             st2   == IF built /\ r.failed THEN OnFailedState(p, st1) ELSE st1
             hit2  == built /\ r.failed /\ OnFailedAsserts(p, st1)
             intl  == IF built THEN r.internal
                      ELSE IF build THEN b.internal ELSE internal[p]
             sent  == (IF build THEN SendAll(p, b.sent) \cup Notify(p, b.notify)
                       ELSE {})
                      \cup (IF built THEN Notify(p, r.notify) ELSE {})
             done  == (~built \/ r.ok) /\ proof[p][s] # 0
             final == IF s = "Redeem" THEN "CompleteSwap" ELSE "Refunded"
         IN /\ withdrawTx' = [withdrawTx EXCEPT ![p] = built]
            /\ sub' = IF build THEN [sub EXCEPT ![p][s] = b.ls] ELSE sub
            /\ internal' = [internal EXCEPT ![p] = intl]
            /\ net' = net \cup sent
            /\ reg' = IF built THEN [reg EXCEPT ![s] = r.reg] ELSE reg
            /\ proofReq' = IF (~built \/ r.ok) /\ proof[p][s] = 0
                           THEN [proofReq EXCEPT ![p] = @ \cup {s}]
                           ELSE proofReq
            /\ FinishTick(p, IF done THEN final ELSE st2, gCoins, hit1 \/ hit2)
    /\ UNCHANGED <<store, lockTx, secret, completed, h, minHeight, chainH, proof,
                   reorgs, btc, btcExpired>>

\* SendingRefundTX (B): refund the foreign coins once their lock time passed.
UpdateSendingRefund(p) ==
    /\ st[p] = "SendingRefundTX"
    /\ btcExpired
    /\ btc \in {"Locked", "Refunded"}                 \* SendRefund succeeds
    /\ btc' = "Refunded"
    /\ UNCHANGED <<sub, store, net, internal, lockTx, withdrawTx, secret, completed,
                   chain, btcExpired>>
    /\ FinishTick(p, "Refunded", gCoins, FALSE)

\* SendingRedeemTX (G): redeem the foreign coins with the secret.
UpdateSendingRedeem(p) ==
    /\ st[p] = "SendingRedeemTX"
    /\ btc \in {"Locked", "Redeemed"}                 \* SendRedeem succeeds
    /\ btc' = "Redeemed"
    /\ UNCHANGED <<sub, store, net, internal, lockTx, withdrawTx, secret, completed,
                   chain, btcExpired>>
    /\ FinishTick(p, "CompleteSwap", gCoins, FALSE)

\* The early returns of SendingRefundTX (foreign lock time not passed, or
\* SendRefund failing), SendingRedeemTX (SendRedeem failing) and
\* SendingGrimmRefundTX (Grimm lock time not passed): the tick changes nothing.
UpdateWaiting(p) ==
    /\ \/ st[p] = "SendingRefundTX" /\ (~btcExpired \/ btc = "Redeemed")
       \/ st[p] = "SendingRedeemTX" /\ btc = "Refunded"
       \/ st[p] = "SendingGrimmRefundTX" /\ ~IsGrimmLockTimeExpired
    /\ UNCHANGED <<sub, store, net, internal, lockTx, withdrawTx, secret,
                   completed, chain, btc, btcExpired>>
    /\ FinishTick(p, st[p], gCoins, FALSE)

\* The terminal cases: report completion; Cancelled also rolls back.
UpdateTerminal(p) ==
    /\ st[p] \in Terminal
    /\ completed' = [completed EXCEPT ![p] = TRUE]
    /\ UNCHANGED <<sub, store, net, internal, lockTx, withdrawTx, secret, chain, btc,
                   btcExpired>>
    /\ FinishTick(p, st[p],
                  IF st[p] = "Cancelled" THEN RollbackCoins(p, gCoins) ELSE gCoins,
                  FALSE)


(***************************************************************************)
(* CheckExternalFailures, then UpdateImpl's CheckSubTxFailures: a failure *)
(* reason from the peer, or one recorded on LOCK_TX, fails the swap in the *)
(* states that listen for it. UpdateImpl then reads Failed and completes.  *)
(***************************************************************************)
ExternalFailure(p) ==
    /\ "Failure" \in store[p]
    /\ \/ st[p] \in {"Initial", "Invitation"} \cup Building
       \/ st[p] = "HandlingContractTX" /\ p = G
SubTxFailure(p) ==
    /\ st[p] \in {"Initial", "Invitation", "HandlingContractTX"}
    /\ internal[p]["ForeignLock"] # "None"
Aborting(p) == ExternalFailure(p) \/ SubTxFailure(p)

UpdateAborted(p) ==
    /\ Aborting(p)
    /\ completed' = [completed EXCEPT ![p] = TRUE]
    /\ UNCHANGED <<sub, store, net, internal, lockTx, withdrawTx, secret,
                   chain, btc, btcExpired>>
    /\ FinishTick(p, "Failed",
                  IF st[p] \in Building \cup {"HandlingContractTX"}
                  THEN RollbackCoins(p, gCoins) ELSE gCoins,
                  FALSE)

\* BaseTransaction::Update of an active transaction.
Update(p) ==
    /\ st[p] # "Absent" /\ ~completed[p]
    /\ \/ UpdateAborted(p)
       \/ /\ ~Aborting(p)
          /\ \/ UpdateInitial(p)
             \/ UpdateInvitation(p)
             \/ UpdateBuildingLock(p)
             \/ \E s \in {"Refund", "Redeem"} : UpdateBuildingWithdraw(p, s)
             \/ UpdateHandlingContract(p)
             \/ UpdateSendingLock(p)
             \/ UpdateWaitRedeem(p)
             \/ \E s \in {"Refund", "Redeem"} : UpdateCompleteWithdraw(p, s)
             \/ UpdateSendingRefund(p)
             \/ UpdateSendingRedeem(p)
             \/ UpdateWaiting(p)
             \/ UpdateTerminal(p)

\* Cancel(): only before the lock is in flight; in HandlingContractTX only
\* on the Grimm side. Elsewhere it is rejected and nothing changes.
\* Mutant: Cancel() also accepted in SendingGrimmLockTX.
CancelWhileLocking(p) ==
    /\ UserCancels /\ st[p] # "Absent" /\ ~completed[p]
    /\ \/ st[p] \in {"Initial", "Invitation", "SendingGrimmLockTX"} \cup Building
       \/ st[p] = "HandlingContractTX" /\ p = G
    /\ st' = [st EXCEPT ![p] = "Cancelled"]
    /\ UNCHANGED <<sub, store, net, internal, gCoins, lockTx, withdrawTx,
                   secret, completed, impossible, chain, btc, btcExpired>>

Cancel(p) ==
    /\ UserCancels /\ st[p] # "Absent" /\ ~completed[p]
    /\ \/ st[p] \in {"Initial", "Invitation"} \cup Building
       \/ st[p] = "HandlingContractTX" /\ p = G
    /\ st' = [st EXCEPT ![p] = "Cancelled"]
    /\ UNCHANGED <<sub, store, net, internal, gCoins, lockTx, withdrawTx,
                   secret, completed, impossible, chain, btc, btcExpired>>

-----------------------------------------------------------------------------
(* The environment: the message channel, the Grimm node and chain, and the *)
(* foreign chain.                                                          *)

\* A parameter message reaches its party and is applied to its parameters;
\* the invitation creates the invited party's transaction. A message that
\* overtook the invitation finds no transaction and is dropped; without
\* reordering it arrives after the invitation.
Deliver(m) ==
    /\ m \in net
    /\ ReorderNet \/ st[m.to] # "Absent" \/ m.kind = "Invite"
    /\ net' = net \ {m}
    /\ IF st[m.to] = "Absent"
       THEN /\ st' = [st EXCEPT ![m.to] = IF m.kind = "Invite" THEN "Initial"
                                                              ELSE "Absent"]
            /\ store' = [store EXCEPT ![m.to] = IF m.kind = "Invite"
                                                THEN @ \cup {m.kind} ELSE @]
       ELSE /\ store' = [store EXCEPT ![m.to] = @ \cup {m.kind}]
            /\ UNCHANGED st
    /\ UNCHANGED <<sub, internal, gCoins, lockTx, withdrawTx, secret,
                   completed, impossible, chain, btc, btcExpired>>

Lose(m) ==
    /\ LossyNet /\ m \in net
    /\ net' = net \ {m}
    /\ UNCHANGED <<local, chain, btc, btcExpired>>

\* Whether the kernel of s may be in the block at height ht: the lock
\* within its max height, a spend of the shared output once the lock is
\* on chain and the output unspent, the refund only after the lock time.
KernelValid(s, ht) ==
    CASE s = "Lock"   -> ht <= LockMaxHeight /\ chainH["Lock"] = 0
      [] s = "Refund" -> /\ chainH["Lock"] > 0
                         /\ chainH["Refund"] = 0 /\ chainH["Redeem"] = 0
                         /\ ht > minHeight + LockTime
      [] s = "Redeem" -> /\ chainH["Lock"] > 0
                         /\ chainH["Refund"] = 0 /\ chainH["Redeem"] = 0

\* The node answers register_tx.
NodeRegister(s) ==
    /\ reg[s] = "Req"
    /\ reg' = [reg EXCEPT ![s] = IF KernelValid(s, h + 1) THEN "Ok" ELSE "Fail"]
    /\ UNCHANGED <<local, net, h, minHeight, chainH, proof, proofReq, reorgs,
                   btc, btcExpired>>

\* ... or rejects a valid transaction (a full mempool, a lost connection).
NodeRejectsTx(s) ==
    /\ NodeRejects /\ reg[s] = "Req"
    /\ reg' = [reg EXCEPT ![s] = "Fail"]
    /\ UNCHANGED <<local, net, h, minHeight, chainH, proof, proofReq, reorgs,
                   btc, btcExpired>>

\* A new block with a conflict-free set of registered kernels valid in it.
Mempool == {s \in SubTxs : reg[s] = "Ok" /\ chainH[s] = 0}
Block ==
    /\ h < MaxChainHeight
    /\ \E inc \in SUBSET Mempool :
         /\ \A s \in inc : KernelValid(s, h + 1)
         /\ ~({"Refund", "Redeem"} \subseteq inc)
         /\ IdleBlocks \/ inc # {}
         /\ chainH' = [s \in SubTxs |-> IF s \in inc THEN h + 1 ELSE chainH[s]]
    /\ h' = h + 1
    /\ UNCHANGED <<local, net, minHeight, reg, proof, proofReq, reorgs, btc,
                   btcExpired>>

\* AtomicSwapTransaction::Rollback(height) of p's transaction.
RollbackProofs(p, r) ==
    LET rolled(s) == proof[p][s] > r
        mine == IF p = G THEN {"Refund", "Lock"} ELSE {"Redeem"}
    IN [s \in SubTxs |-> IF s \in mine /\ rolled(s) THEN 0 ELSE proof[p][s]]
\* Mutant: B's Rollback also returns to SendingGrimmLockTX, as G's does.
RollbackStateMirrored(p, r) ==
    CASE p = G /\ proof[G]["Lock"] > r   -> "SendingGrimmLockTX"
      [] p = G /\ proof[G]["Refund"] > r -> "SendingGrimmRefundTX"
      [] p = B /\ proof[B]["Lock"] > r   -> "SendingGrimmLockTX"
      [] p = B /\ proof[B]["Redeem"] > r -> "SendingGrimmRedeemTX"
      [] OTHER                           -> st[p]

RollbackState(p, r) ==
    CASE p = G /\ proof[G]["Lock"] > r   -> "SendingGrimmLockTX"
      [] p = G /\ proof[G]["Refund"] > r -> "SendingGrimmRefundTX"
      [] p = B /\ proof[B]["Redeem"] > r -> "SendingGrimmRedeemTX"
      [] OTHER                           -> st[p]

\* A reorganisation back to height r: the kernels above r leave the chain
\* (their transactions stay in the mempool) and every active swap rolls back.
Reorg(r) ==
    /\ reorgs < MaxReorgs /\ r < h
    /\ h' = r
    /\ chainH' = [s \in SubTxs |-> IF chainH[s] > r THEN 0 ELSE chainH[s]]
    /\ reorgs' = reorgs + 1
    /\ LET active(p) == st[p] # "Absent" /\ ~completed[p]
       IN /\ st' = [p \in Party |-> IF active(p) THEN RollbackState(p, r) ELSE st[p]]
          /\ proof' = [p \in Party |-> IF active(p) THEN RollbackProofs(p, r)
                                                    ELSE proof[p]]
    /\ UNCHANGED <<sub, store, net, internal, gCoins, lockTx, withdrawTx,
                   secret, completed, impossible, minHeight, reg, proofReq,
                   btc, btcExpired>>

\* The node answers confirm_kernel / get_kernel with the kernel's height,
\* or with nothing when the kernel is not on chain.
ProofReply(p, s) ==
    /\ s \in proofReq[p]
    /\ proof' = [proof EXCEPT ![p][s] = chainH[s]]
    /\ proofReq' = [proofReq EXCEPT ![p] = @ \ {s}]
    /\ UNCHANGED <<local, net, h, minHeight, chainH, reg, reorgs, btc,
                   btcExpired>>

\* The foreign lock time of B's HTLC passes.
ForeignExpire ==
    /\ ForeignExpiry /\ btc # "None" /\ ~btcExpired
    /\ btcExpired' = TRUE
    /\ UNCHANGED <<local, net, chain, btc>>

\* Every transaction that exists has reported completion: the wallet has
\* nothing left to do for this swap.
Done ==
    /\ \A p \in Party : st[p] = "Absent" \/ completed[p]
    /\ UNCHANGED vars

-----------------------------------------------------------------------------
Next ==
    \/ \E p \in Party : Update(p) \/ Cancel(p)
    \/ \E m \in net : Deliver(m) \/ Lose(m)
    \/ \E s \in SubTxs : NodeRegister(s) \/ NodeRejectsTx(s)
    \/ Block
    \/ \E r \in 0..MaxChainHeight : Reorg(r)
    \/ \E p \in Party, s \in SubTxs : ProofReply(p, s)
    \/ ForeignExpire
    \/ Done

\* The wallet updates every active transaction on each new tip, message or
\* node reply; messages, node replies and blocks keep coming.
Fairness ==
    /\ \A p \in Party : WF_vars(Update(p))
    /\ \A m \in [to : Party, kind : Kinds] : WF_vars(Deliver(m))
    /\ \A s \in SubTxs : WF_vars(NodeRegister(s))
    /\ \A p \in Party, s \in SubTxs : WF_vars(ProofReply(p, s))
    /\ WF_vars(Block)

Spec == Init /\ [][Next]_vars /\ Fairness

-----------------------------------------------------------------------------
(* Properties.                                                             *)

TypeOK ==
    /\ st \in [Party -> States \cup {"Absent"}]
    /\ sub \in [Party -> [SubTxs -> SubTxStates]]
    /\ store \in [Party -> SUBSET Kinds]
    /\ net \subseteq [to : Party, kind : Kinds]
    /\ internal \in [Party -> [FailureSubTxs -> Reasons]]
    /\ gCoins \in {"Avail", "Selected", "Spent"}
    /\ lockTx \in BOOLEAN /\ secret \in BOOLEAN /\ impossible \in BOOLEAN
    /\ withdrawTx \in [Party -> BOOLEAN] /\ completed \in [Party -> BOOLEAN]
    /\ h \in Heights /\ minHeight \in Heights \cup {NoHeight}
    /\ chainH \in [SubTxs -> Heights]
    /\ reg \in [SubTxs -> {"None", "Req", "Ok", "Fail"}]
    /\ proof \in [Party -> [SubTxs -> Heights]]
    /\ proofReq \in [Party -> SUBSET SubTxs]
    /\ reorgs \in 0..MaxReorgs
    /\ btc \in {"None", "Locked", "Redeemed", "Refunded"}
    /\ btcExpired \in BOOLEAN

\* OnFailed never reaches one of its assert(false) "Impossible case!"
\* branches (B failing in SendingGrimmLockTX or SendingRedeemTX, G failing
\* in SendingGrimmRedeemTX), whatever fails when.
AssertionsHold == ~impossible

\* G is not robbed: B never both redeems the shared Grimm output and
\* refunds its foreign coins. B only takes the refund path before it
\* registers its redeem, or when registering it failed.
GrimmSideSafe == ~(chainH["Redeem"] > 0 /\ btc = "Refunded")

\* B is not robbed: G never both refunds the shared Grimm output and
\* redeems the foreign coins. G redeems only with the secret taken from the
\* redeem kernel, and refunds only while it holds no secret.
ForeignSideSafe == ~(chainH["Refund"] > 0 /\ btc = "Redeemed")

\* G never ends the swap as Failed or Cancelled with its coins in the
\* shared output: CheckExpired and OnFailed give up on the lock only while
\* it is not registered, and a failed registration is never mined.
GrimmFundsRecoverable ==
    st[G] \in {"Failed", "Cancelled"} => chainH["Lock"] = 0

\* B never ends the swap as Failed or Cancelled with its foreign coins
\* locked: once SendLockTx has run, neither a failed send of the external
\* details nor a peer's failure notice nor Cancel can end B's swap.
ForeignFundsRecoverable ==
    st[B] \in {"Failed", "Cancelled"} => btc # "Locked"

\* G takes the foreign coins only against B's redeem kernel on the Grimm
\* chain: G extracts the secret from the kernel GetKernelFromChain fetched
\* for GRIMM_REDEEM_TX, and redeems only with the secret.
ForeignRedeemBacked == btc = "Redeemed" => chainH["Redeem"] > 0

\* The wallet never marks G's lock inputs available again while the lock
\* kernel spending them is on chain (RollbackTx after the lock was sent).
\* Checked without reorgs: after a reorg the lock can be mined again with G
\* already failed and its inputs released.
EscrowTracked == chainH["Lock"] > 0 => gCoins # "Avail"

\* With no faults, no expiry and no cancel, both parties complete the swap.
SwapCompletes == <>(\A p \in Party : completed[p] /\ st[p] = "CompleteSwap")

\* The spec (section 4.4) permits Cancel in HandlingContractTX for the party
\* that is not the native-chain owner (IsGrimmSide() false); Cancel() there
\* breaks out unless IsGrimmSide().
CancelAllowedPerSpec ==
    (UserCancels /\ st[B] = "HandlingContractTX" /\ ~completed[B])
        => ENABLED Cancel(B)

\* A swap cancelled on one side ends on the other side too. The Cancelled
\* case of UpdateImpl rolls back and completes without notifying the peer.
CancelReachesPeer ==
    \A p \in Party : st[p] = "Cancelled" ~> st[Peer(p)] \in Terminal

\* Once B's redeem kernel is on the Grimm chain, revealing the secret, G
\* eventually redeems the foreign coins. In SendingGrimmRedeemTX G tests
\* IsGrimmLockTimeExpired before it fetches the redeem kernel.
RedeemRevealsSecret == chainH["Redeem"] > 0 ~> btc = "Redeemed"

\* A withdrawal on the Grimm chain completes its owner's swap: once B's
\* redeem kernel is mined B ends in CompleteSwap, once G's refund kernel is
\* mined G ends Refunded. The owner leaves its sending state only on a
\* failure OnFailed reports; SendSubTx must not report one while
\* register_tx is still unanswered, or the owner abandons a withdrawal that
\* is then mined. Checked without reorgs, which can un-mine the kernel.
WithdrawCompletesSwap ==
    /\ chainH["Redeem"] > 0 ~> st[B] = "CompleteSwap"
    /\ chainH["Refund"] > 0 ~> st[G] = "Refunded"

-----------------------------------------------------------------------------
(* Refinement of AbstractSwap.  G's Grimm coins are in escrow once the lock *)
(* kernel is on chain and released by the redeem (to B) or the refund (back *)
(* to G) kernel; B's foreign coins follow the HTLC.                        *)

GrimmCoins ==
    CASE chainH["Redeem"] > 0 -> "ToB"
      [] chainH["Refund"] > 0 -> "BackToG"
      [] chainH["Lock"] > 0   -> "Escrow"
      [] OTHER                -> "Free"

ForeignCoins ==
    CASE btc = "Locked"   -> "Escrow"
      [] btc = "Redeemed" -> "ToG"
      [] btc = "Refunded" -> "BackToB"
      [] OTHER            -> "Free"

Swap == INSTANCE AbstractSwap WITH grimm <- GrimmCoins, foreign <- ForeignCoins

\* Every step of both wallets, the node, the chain and the foreign chain is a
\* step of the abstract swap or leaves the holdings alone: escrows are
\* released once and never re-locked, G claims the foreign coins only after
\* B's redeem kernel is on chain, and B never both redeems and refunds. It
\* is about the order in which SendingGrimmRedeemTX, SendingRefundTX and
\* SendingRedeemTX act on the node's and the foreign chain's answers.
RefinesAbstractSwap == Swap!SafetySpec

=============================================================================
