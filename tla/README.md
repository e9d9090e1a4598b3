# TLA+ models of the defis wallet

This directory holds the TLC-checkable models of the repository's code. There are three:

- the Beam/Mimblewimble-style **atomic swap** of `src/wallet/swaps/swap_transaction.cpp`;
- the **asset transaction builder** of `src/wallet/asset_transaction.cpp`;
- the desktop **settings page**: its node-address check, and the fields it copies to and from
  `WalletSettings` on Apply and Undo (`src/defis-wallet/viewmodel/settings_view.cpp`,
  `src/defis-wallet/model/settings.cpp`).

Every run listed in `PROJECT.json` is an MC module plus a `.cfg`, checked with
`tlc -workers 2 -config <cfg> <MC module>`.

## The system and its parts

| Part | Source | Modelled |
|---|---|---|
| Atomic swap transaction (both parties) | `src/wallet/swaps/swap_transaction.cpp` | `AtomicSwap.tla` (partly: data abstracted) |
| Asset issue/transfer/burn builder | `src/wallet/asset_transaction.{h,cpp}` | `AssetTxBuilder.tla` (partly: the base builder and driver are outside `src/`) |
| Desktop wallet models | `src/defis-wallet/model/{wallet,node}_model.*` | no: Qt signal forwarding, node thread start/stop |
| Settings page and `WalletSettings` | `src/defis-wallet/viewmodel/settings_view.cpp`, `src/defis-wallet/model/settings.cpp` | `SettingsViewModel.tla` (partly: fields written through at once, GPU and I/O left out) |
| UI entry, UI helpers | `src/defis-wallet/ui.cpp`, `viewmodel/ui_helpers.h` | no: start-up and presentation |
| CLI options, default peers | `src/utility/cli/options.cpp`, `src/wallet/default_peers.cpp` | no: configuration |
| Node client header, tx generator test tool | `src/node/...` | no: declarations and a test tool |

The swap involves two wallets. Each runs an `AtomicSwapTransaction`, and they exchange
`SetTxParameter` messages. The side with `IsGrimmSide()` (called **G**) locks Grimm coins in a
2-of-2 shared output (`GRIMM_LOCK_TX`). G owns the refund (`GRIMM_REFUND_TX`) and later redeems
the foreign coins with the secret. The other side (**B**) locks foreign coins in an HTLC
(`SendLockTx`) and owns the redeem of the shared output (`GRIMM_REDEEM_TX`). B's partial
signature on that redeem reveals the secret to G. Both wallets talk to a Grimm node:

- `register_tx` puts a transaction into the mempool;
- `confirm_kernel` and `get_kernel` return the height of a kernel;
- a new tip triggers another update;
- a reorganisation calls `Rollback(height)`.

## AtomicSwap.tla

**State.** These are the variables of the model and the code they stand for:

| Variable | Code |
|---|---|
| `st[p]` | `GetState()` |
| `sub[p][s]` | `GetSubTxState(s)` |
| `store[p]` | the parameters a party has received, by message kind |
| `internal[p][s]` | `InternalFailureReason` |
| `gCoins` | G's inputs: available, selected by this tx, spent |
| `lockTx` | `m_LockTx` |
| `withdrawTx[p]` | `m_WithdrawTx` |
| `secret` | G holds the secret private key |
| `completed[p]` | `on_tx_completed` |
| `impossible` | an `assert(false)` in `OnFailed` |

The chain variables are:

- the tip `h`;
- `MinHeight`;
- the kernel height of each sub-tx (`chainH`);
- the registration status `reg`;
- each party's known proof height `proof` and pending proof requests `proofReq`.

The foreign chain is `btc`, the HTLC state, and `btcExpired`.

**Actions.** One `Update(p)` step is one call of `BaseTransaction::Update`, run to completion.
That call does three things, in order:

1. `CheckExternalFailures` (`ExternalFailure`) and `CheckSubTxFailures` (`SubTxFailure`): an
   aborting swap goes to `UpdateAborted`;
2. otherwise, one case of `UpdateImpl`'s switch. There is one action per case:
   - `UpdateInitial`;
   - `UpdateInvitation`;
   - `UpdateBuildingLock`;
   - `UpdateBuildingWithdraw`;
   - `UpdateHandlingContract`;
   - `UpdateSendingLock`;
   - `UpdateWaitRedeem`;
   - `UpdateCompleteWithdraw`;
   - `UpdateSendingRefund`;
   - `UpdateSendingRedeem`;
   - `UpdateWaiting`, for the early returns;
   - `UpdateTerminal`;
3. `CheckExpired`, in `FinishTick`, which every action ends with.

The builders are operators that return the sub-tx state, the messages sent and whether
`OnSubTxFailed` fired. They are `BuildGrimmLockTx`, `BuildGrimmWithdrawTx` and `SendSubTxOut`
(which models `SendSubTx`). `OnFailed` is split into three operators: `OnFailedState`,
`OnFailedRollsBack` and `OnFailedAsserts`. This keeps the code's order visible. In particular, a
caller's later `SetNextState` overwrites the `Failed` that `OnFailed` set.

`Cancel(p)` is `AtomicSwapTransaction::Cancel`. `Reorg(r)` is the node's reorganisation followed by
`Rollback` (`RollbackState` and `RollbackProofs`) of each active transaction.

The environment actions are:

- `Deliver` and `Lose` for messages. Without `ReorderNet`, delivery is in order relative to the
  invitation;
- `NodeRegister` and `NodeRejectsTx` for the node's answer to `register_tx`;
- `Block`, which mines a conflict-free subset of the mempool whose kernels are valid at the new
  height;
- `ProofReply`;
- `ForeignExpire`;
- `Done`, the idle wallet after every transaction completed.

**Abstractions.** Amounts, fees, keys and signatures are left out. A validity check fails only
when `PeerFaults` allows it, and then deterministically, through `FaultsOf`: a check that failed
once fails again on the same data. The foreign-chain adapter is reduced to the HTLC's state.
`ExtractSecretPrivateKey` is the single flag `secret`.

## AbstractSwap.tla and the refinement

`AbstractSwap` says what a swap promises, with no messages, nodes or signatures. It has two
holdings:

- `grimm` is G's Grimm coins: `Free`, `Escrow` (the shared lock output), `ToB` or `BackToG`.
- `foreign` is B's foreign coins: `Free`, `Escrow` (the HTLC), `ToG` or `BackToB`.

Each holding is locked once and then released once. The two releases are tied. G claims the
foreign coins only after B has claimed the Grimm coins, because B's claim reveals the secret G
needs. B never both claims the Grimm coins and refunds its foreign coins. `SafetySpec` is the
state machine alone. `Spec` adds that every escrow is eventually released.

`AtomicSwap` maps onto it through `GrimmCoins` and `ForeignCoins`:

- `GrimmCoins` is read off the Grimm chain: a mined redeem, refund or lock.
- `ForeignCoins` is read off the HTLC's state.

`Swap == INSTANCE AbstractSwap WITH ...` yields one property:

- `RefinesAbstractSwap` (`Swap!SafetySpec`) is checked with every fault on but no reorg. A reorg
  un-mines transactions, and the abstract swap has no step that undoes a release.

## AssetTxBuilder.tla

`AssetTxBuilder` builds a one-party transaction that issues, transfers or burns an asset. The
model follows one builder through its steps in the order the transaction driver calls them:
`SelectInputs`, `AddChange`, `GenerateNewCoinList`, `GenerateOffset`, `CreateKernel`,
`SignPartial`, `CreateTransaction`. `Throw` is a `TransactionFailedException`, and `Finished` is
the driver no longer calling the builder. `Init` is the constructor. It picks a command, an
asset id, an amount list and a fee from the constants; with no command parameter it falls back
to `Transfer`.

**Data.** The arithmetic is kept, over a toy group, because the signature and the conservation
of value are the point of this code:

- a point is a vector of coefficients over `G` and one generator per asset id, modulo the small
  prime `Q`;
- a coin's commitment is `Kdf(idx)·G + value·H_asset`;
- amounts are `AmountBits` wide, and the code's `Amount` sums wrap (`% 2^AmountBits`);
- `SelectCoins` is the wallet database's `selectCoins`: every minimal set of unspent coins of
  the asset worth the amount, or nothing.

`SignPartial` computes the kernel commitment with `GetPublicExcess`. It also computes the
signing key the key keeper uses: input blinds, less output blinds, less the offset, with the
asset secret folded into the offset for `Issue` and `Burn`.

## SettingsViewModel.tla

The settings page checks the node address the user types, one second after the last edit. Three
sources of events interleave on the Qt UI thread:

- the user calls the setters, Apply and Undo;
- Qt timers call `timerEvent`;
- the wallet thread answers `checkAddress` with the queued signal `addressChecked`.

The view model's fields are the record `vm`. The running Qt timers are `vm.timers`, and
`m_timerId` is `vm.timerId`. `settings` is what `WalletSettings` stores: the address, the
local-node flag, the peer list and the premine in satoshis.

Two more fields are copied on Apply and Undo, each standing for a group of the code's fields:

- `peers` (`m_localNodePeers`) is edited by `addLocalNodePeer` and `deleteLocalNodePeer`. It
  stands for every field stored exactly as shown: port, mining threads, drops, maturities,
  block time, difficulty and symbol.
- `premine` (`m_cac_premine`, an `unsigned long long`) is stored by
  `WalletSettings::setcac_premine` as `pre * 100000000` in a `long long`, and read back divided by
  10^8. `StorePremine` and `getcac_premine` model this with `long long` `LongBits` wide and 10^8
  scaled to `Sats`. The signed product can overflow. That is undefined behaviour, and the
  modelled outcome is the wrap that the emitted multiply produces. It stands for
  `cac_blockreward` too, which is converted the same way.

`isChanged` compares the page with the `WalletSettings` getters.
`checks` holds the check requests not yet answered, in order. `requested` is a ghost variable:
the view's values when the user last pressed Apply.

The methods are operators from view state to view state (`setNodeAddress`, `setLocalNodeRun`,
`undoChanges`, `applyChangesView`/`applyChangesSettings`, `onAddressCheckedView`/`Settings`).
A handler that calls several of them is their composition. The constructor (`Init`) runs
`undoChanges` on a view whose `m_localNodeRun` is not initialised. The first comparison reads
an indeterminate bool, so both values are explored. The constructor then starts one more timer.
The actions are the user's edits (`SetNodeAddress`, `SetLocalNodeRun`, `SetPremine`,
`AddLocalNodePeer`, `DeleteLocalNodePeer`), `ApplyChanges`, `UndoChanges`, `timerEvent(t)` for a
running timer `t`, and `AddressChecked`.

## Runs

The passing runs:

| Run | What it shows |
|---|---|
| `swap_faults` (`MCAtomicSwap.cfg`, chain height 4, about 1.1M states) | Every fault on, no reorg: `GrimmFundsRecoverable`, `ForeignFundsRecoverable` and `AssertionsHold` hold. Every behaviour refines `AbstractSwap`'s safety part (`RefinesAbstractSwap`); this subsumes the earlier `ForeignRedeemBacked` |
| `swap_reorg` (`MCAtomicSwapReorg.cfg`, height 5) | One reorg to any lower height, with node rejections and foreign expiry: B is never robbed, and no `OnFailed` assertion is reached |
| `swap_escrow` (`MCAtomicSwapEscrow.cfg`, height 5) | B initiates, honest signatures, every fault but reorgs (`MaxReorgs = 0`): G's lock inputs are never marked available while the lock is on chain (`EscrowTracked`), and a mined redeem or refund kernel always completes its owner's swap (`WithdrawCompletesSwap`). With a reorg `EscrowTracked` fails, as `expiry_in_flight` shows |
| `swap_happy` (height 3) | No faults: both parties reach `CompleteSwap` (`SwapCompletes`) |
| `asset_builder` | For every command, amount list, fee and asset id in range, a built transaction's signature verifies against its kernel, and asset outputs equal asset inputs plus the emission |
| `settings_view` | Under any interleaving of edits, local-node toggles, Apply, Undo, timer events and replies: the validity flag settles on the verdict for the address shown, at most two timers run, and every edit is eventually checked. |

The violation runs, each with the finding it demonstrates:

| Run | Finding |
|---|---|
| `escrow_invalid_tx` | An invalid refund rolls back G's inputs, then `SetNextState` (line 226) carries on, and the lock spending them is mined |
| `expiry_in_flight` | `CheckExpired` gives up while `register_tx` is unanswered; after a reorg the lock is mined with G in `Failed` |
| `reorg_double_claim` | G has registered its refund when a reorg below the lock runs `Rollback`; its `GRIMM_LOCK_TX` case (lines 102-108) moves G back to `SendingGrimmLockTX` and resets the lock's and refund's proofs but not the redeem proof G already fetched. Once the lock is mined again G finds that proof, takes the secret and redeems the foreign coins, and its refund, still in the mempool, is mined as well |
| `redeem_race` | In `SendingGrimmRedeemTX`, G tests its lock time before looking for B's redeem; a redeem mined just in time is never used |
| `asset_overflow` | `GetAssetAmount` wraps (line 47): a `Transfer` of `<<3, 2>>` with 2-bit amounts selects coins for 1 and emits outputs worth 5 |
| `settings_lost_apply` | An Apply deferred during the address check is settled only by a reply that flips the validity flag (line 103). Otherwise it is lost: the trace ends with the Apply neither carried out nor dropped. The flag stays set, so a later reply that flips validity would then apply it; the trace does not show that step |

Three more configurations are kept beside these, but not in the run list:

- `MCAtomicSwapHappyB.cfg` is `SwapCompletes` with B initiating; it passes.
- `MCCancelSpec.cfg` violates `CancelAllowedPerSpec`. The spec lets B cancel in
  `HandlingContractTX`, but the code refuses, which is the safer choice.
- `MCCancelNotify.cfg` violates `CancelReachesPeer`. A cancel is never reported to the
  counterparty; this is the TODO at line 377.

Each property of a passing run has a mutant in `PROJECT.json`: a plausible bug in the mapped code
that TLC catches under the run's own configuration.

## Bounds

- **Swap.** A chain of 5 blocks with lock response 2 and lock time 3 is the smallest in which
  all of these happen: the lock expires, a refund becomes valid, and a reorg can cross either
  boundary. One reorg is enough to undo any single step. The all-faults run uses height 4: the
  lock still expires and a refund is still valid at height 4, and every fault interleaves with
  both.
- **Asset builder.** The wallet has two native coins and two coins of asset 1. Four-bit amounts,
  fees 1 and 4, asset ids 0, 1 and 2, and amount lists from empty to `<<3, 3>>` reach all of
  these:
  - both `NoInputs` throws and the zero-id throw;
  - a change coin in each asset;
  - an emission of each sign.

  `Q = 11` is prime, so the toy scalars form a field. The mutant that leaves the asset secret out
  of the signing key is caught.
- **Settings.** The wallet accepts two addresses and rejects one, and the address may also be
  empty. Four timer starts and two checks in flight are enough for the following: an edit while
  a check is in flight, a second edit before the first reply, and a toggle to the local node
  and back. One peer and a one-element list reach both an empty and a full list. `long long`
  is 8 bits wide with 10 satoshis per coin. The user can type 1 coin, which round-trips, or
  13 coins, whose product 130 overflows to -126 and reads back as 244. The run has about one
  million states.

## Fairness

- **Swap.** The wallet calls `Update` on every tip and every message, so `Update(p)` is weakly
  fair. Delivery, the node's answers and block production are weakly fair too. The liveness
  runs switch off the fault constants. The code does not retry a failed send or registration,
  so no fairness would make a faulty run live. The one liveness property checked under faults,
  `WithdrawCompletesSwap` in `swap_escrow` (every fault but reorgs), starts from a kernel already on chain, so neither a
  lost registration nor the height bound can block it. A property that needs the chain to keep
  growing, such as "G's escrow is eventually released", fails under the height bound only
  because the bound stops the chain. It is therefore not checked under faults.
- **Settings.** A running Qt timer fires again and again until it is killed, and a queued
  signal is delivered when the event loop is idle. So `timerEvent(t)` and `AddressChecked` are
  weakly fair. The user is not obliged to do anything.
- **Asset builder.** It has only safety properties.

## Not modelled, and the plan

The following are not modelled:

- **Scalar arithmetic of the swap:** `ExtractSecretPrivateKey` (lines 1150–1176) is the flag
  `secret`. It is planned as a `SwapSecret` operator over a small prime field, in the style of
  `AssetTxBuilder`'s group.
- **Stale proof replies:** a `ProofReply` is computed when it is delivered, so replies that cross
  a reorg are not modelled. This is listed as a hazard.
- **Retries of G's refund registration:** there is no liveness property for them. This is listed
  as a hazard.
- **The asset transaction's driver:** `BaseTxBuilder`, the registration and the rollback on
  failure are not under `src/`. The builder's steps are modelled; what happens around them is
  not.
- **The GPU fields of the settings page** (built only with `XGM_USE_GPU`): `undoChanges` restores
  `m_useGpu` (line 662) but not the device selection that `isChanged` compares (line 571), so
  Undo of a device change leaves an unsaved change. This is listed as a hazard.
- **The leaked constructor timer:** the constructor's `startTimer` (line 88) overwrites a timer
  `undoChanges` may have started, and that timer is never killed. `TimersBounded` allows it: it
  checks that timers stay at two, not that none leaks.
- **Refinement under reorgs:** a reorg can undo a release, and `AbstractSwap` has no step for
  that. The reorg runs therefore check safety invariants, not the refinement.
- **Plumbing:** these hold no protocol state of their own.
  - `NodeModel` forwards `startNode`, `stopNode` and `start` to `NodeClient`, whose thread
    protocol is in `node_client.cpp`. That file is not in the repository.
  - `WalletModel` re-emits the wallet thread's callbacks as Qt signals.
  - `options.cpp` declares the command-line and config options and reads them.
  - `ui.cpp` starts the application and registers QML types.
  - The difficulty option is shifted in `uint32`, at `options.cpp:433`. It is listed as a
    hazard without a property: one conversion with no state.
- **The premine overflow as a run:** `SettingsViewModel.tla` states `ApplyPersistsView`: after
  Apply, `isChanged` reports nothing unsaved. TLC finds it violated with the premine
  overflow: Apply of 13 coins stores -126, and the page then reads 244. It is not among the
  runs, which keep the findings of the swap, the asset builder and the deferred Apply. The
  hazard at `settings.cpp:233` records it.
- **Settings written through at once:** `setLockTimeout`, `setPasswordReqiredToSpendMoney`,
  `allowgrimmLinks` and the language index write `WalletSettings` at once. Nothing defers
  them, and `isChanged` ignores them. The GPU fields exist only with `XGM_USE_GPU`.
  `cac_id1` and `cac_id2` are used in `settings_view.cpp` but not declared in its header.
  `reportProblem`, `openFolder` and the wallet password are I/O.
