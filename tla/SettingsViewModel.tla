------------------------- MODULE SettingsViewModel -------------------------
(***************************************************************************)
(* The node-address check of the desktop wallet's settings page           *)
(* (src/defis-wallet/viewmodel/settings_view.cpp).  All of it runs on the  *)
(* Qt UI thread, but three sources of events interleave there:             *)
(*   - the user: edits of the address and of "run local node", Apply and   *)
(*     Undo (the QML page calls the setters and slots);                   *)
(*   - Qt timers started with startTimer(CHECK_INTERVAL), each firing      *)
(*     timerEvent until it is killed;                                      *)
(*   - the wallet thread, which answers checkAddress(addr) with the queued *)
(*     signal addressChecked(addr, isValid).                               *)
(* The view model's own fields are the record vm; WalletSettings is the    *)
(* record settings.  Besides the address and the local-node flag, the page *)
(* copies these between view and settings in applyChanges and undoChanges:*)
(*   - peers, the local node's peer list (addLocalNodePeer and             *)
(*     deleteLocalNodePeer edit it).  It stands for every field stored as  *)
(*     it is shown, whose round trip is exact: port, mining threads,       *)
(*     drop0/1, maturities, block time, difficulty and symbol;             *)
(*   - premine, a coin amount that WalletSettings stores in satoshis: the  *)
(*     setter multiplies by 10^8 in a long long and the getter divides.    *)
(*     It stands for cac_blockreward too, which is converted the same way. *)
(* long long is LongBits wide and 10^8 is scaled down to Sats.             *)
(***************************************************************************)
EXTENDS Integers, Sequences, SequencesExt, FiniteSets

CONSTANTS
    Addrs,       \* node addresses the user can type (model values)
    NoAddr,      \* the empty QString
    Valid,       \* the addresses the wallet's checkAddress accepts
    MaxTimers,   \* bound on the number of startTimer calls
    MaxChecks,   \* bound on the checkAddress requests in flight
    Peers,       \* peer addresses the user can add (model values)
    MaxPeers,    \* bound on the length of the peer list
    CoinValues,  \* premine amounts, in coins, the user can type
    LongBits,    \* the width of long long
    Sats         \* satoshis per coin (10^8, scaled down)

ASSUME Valid \subseteq Addrs /\ NoAddr \notin Addrs
ASSUME MaxTimers \in Nat /\ MaxChecks \in Nat \ {0} /\ MaxPeers \in Nat
ASSUME LongBits \in Nat \ {0, 1} /\ Sats \in Nat \ {0}

-----------------------------------------------------------------------------
(* Fixed-width integers.  unsigned long long is ULong, long long is Long.   *)

ULong == 0..(2^LongBits - 1)
Long == (-(2^(LongBits - 1)))..(2^(LongBits - 1) - 1)
ASSUME CoinValues \subseteq ULong

\* A conversion to long long keeps the bits (two's complement).
ToLong(x) == ((x + 2^(LongBits - 1)) % 2^LongBits) - 2^(LongBits - 1)
\* A conversion to unsigned long long keeps the bits.
ToULong(x) == x % 2^LongBits
\* Integer division in C++ truncates toward zero.
TruncDiv(a, b) == IF a >= 0 THEN a \div b ELSE -((-a) \div b)

\* WalletSettings::setcac_premine(long long pre): the value stored is
\* pre * 100000000, a signed product that overflows for large pre.  The
\* overflow is undefined behaviour; the multiply the compiler emits wraps,
\* and that is the outcome modelled.  The view passes its unsigned value.
StorePremine(pre) == ToLong(ToLong(pre) * Sats)
\* WalletSettings::getcac_premine: the stored long long divided by
\* 100000000, returned as unsigned long long.
getcac_premine(raw) == ToULong(TruncDiv(raw, Sats))

AddrValues == Addrs \cup {NoAddr}

\* The ghost value of "requested" before the user has pressed Apply.
NoRequest == [addr |-> NoAddr, run |-> FALSE, none |-> TRUE]

VARIABLES
    vm,          \* SettingsViewModel's fields and its Qt timers
    settings,    \* WalletSettings: the persisted values (premine in satoshis)
    checks,      \* addresses of checkAddress calls not yet answered, in order
    requested    \* ghost: the view's address and flag at the user's last Apply

vars == <<vm, settings, checks, requested>>

\* The peer lists the page can hold.
PeerLists == BoundedSeq(Peers, MaxPeers)

\* A state of the view model.  timers is the set of Qt timer ids that are
\* running; nextTimer is the id the next startTimer returns.
ViewState == [nodeAddress: AddrValues, localNodeRun: BOOLEAN,
              isValidNodeAddress: BOOLEAN, isNeedToCheckAddress: BOOLEAN,
              isNeedToApplyChanges: BOOLEAN, timerId: Nat,
              timers: SUBSET Nat, nextTimer: Nat,
              peers: PeerLists, premine: ULong]

Settings == [addr: AddrValues, run: BOOLEAN, peers: PeerLists, premine: Long]

\* The settings the wallet can start with: premine is absent (read as 0) or
\* was written by setcac_premine.
SavedSettings == [addr: AddrValues, run: BOOLEAN, peers: PeerLists,
                  premine: {0} \cup {StorePremine(v) : v \in CoinValues}]

-----------------------------------------------------------------------------
(* The view model's methods, as functions from a view state to the next, so *)
(* that a handler calling several of them is their composition.            *)

\* QObject::startTimer: a fresh timer runs and m_timerId names it.
startTimer(s) ==
    [s EXCEPT !.timers = @ \cup {s.nextTimer}, !.timerId = s.nextTimer,
              !.nextTimer = @ + 1]

\* A setter starts a timer only when no check is pending yet.
StartsTimer(s) == ~s.isNeedToCheckAddress

\* Mutant: the timer is started but the pending-check flag is not raised.
setNodeAddressNoFlag(s, value) ==
    IF value = s.nodeAddress THEN s
    ELSE LET s1 == [s EXCEPT !.nodeAddress = value]
         IN  IF StartsTimer(s1) THEN startTimer(s1) ELSE s1

setNodeAddress(s, value) ==
    IF value = s.nodeAddress THEN s
    ELSE LET s1 == [s EXCEPT !.nodeAddress = value]
         IN  IF StartsTimer(s1)
             THEN startTimer([s1 EXCEPT !.isNeedToCheckAddress = TRUE])
             ELSE s1

\* Mutant: switching to the remote node raises the flag but starts no timer.
setLocalNodeRunNoTimer(s, value) ==
    IF value = s.localNodeRun THEN s
    ELSE LET s1 == [s EXCEPT !.localNodeRun = value]
         IN  IF ~value /\ StartsTimer(s1)
             THEN [s1 EXCEPT !.isNeedToCheckAddress = TRUE]
             ELSE s1

setLocalNodeRun(s, value) ==
    IF value = s.localNodeRun THEN s
    ELSE LET s1 == [s EXCEPT !.localNodeRun = value]
         IN  IF ~value /\ StartsTimer(s1)
             THEN startTimer([s1 EXCEPT !.isNeedToCheckAddress = TRUE])
             ELSE s1

\* setcac_premine and setLocalNodePeers of the view model.  The first
\* assigns only a different value; the second always assigns.
setcac_premine(s, value) ==
    IF value = s.premine THEN s ELSE [s EXCEPT !.premine = value]

setLocalNodePeers(s, value) == [s EXCEPT !.peers = value]

\* undoChanges: the setters, fed from the getters of the persisted settings,
\* in the order the code calls them.
undoChanges(s, saved) ==
    LET s1 == setLocalNodeRun(setNodeAddress(s, saved.addr), saved.run)
    IN  setLocalNodePeers(setcac_premine(s1, getcac_premine(saved.premine)),
                          saved.peers)

\* applyChanges defers while an address check is pending and the remote
\* node is used; otherwise it writes the view's values to WalletSettings.
Defers(s) == ~s.localNodeRun /\ s.isNeedToCheckAddress

applyChangesView(s) ==
    IF Defers(s) THEN [s EXCEPT !.isNeedToApplyChanges = TRUE] ELSE s

applyChangesSettings(s, saved) ==
    IF Defers(s) THEN saved
    ELSE [addr |-> s.nodeAddress, run |-> s.localNodeRun, peers |-> s.peers,
          premine |-> StorePremine(s.premine)]

\* isChanged: the page differs from what the getters of WalletSettings read.
isChanged(s, saved) ==
    \/ s.nodeAddress # saved.addr
    \/ s.localNodeRun # saved.run
    \/ s.premine # getcac_premine(saved.premine)
    \/ s.peers # saved.peers

\* onAddressChecked: a reply for the address shown that changes its
\* validity updates the flag and settles a deferred Apply.
Relevant(s, addr, isValid) ==
    s.nodeAddress = addr /\ s.isValidNodeAddress # isValid

onAddressCheckedView(s, addr, isValid) ==
    IF ~Relevant(s, addr, isValid) THEN s
    ELSE LET s1 == [s EXCEPT !.isValidNodeAddress = isValid]
             s2 == IF s1.isNeedToApplyChanges /\ isValid
                   THEN applyChangesView(s1) ELSE s1
         IN  IF s1.isNeedToApplyChanges
             THEN [s2 EXCEPT !.isNeedToApplyChanges = FALSE] ELSE s2

onAddressCheckedSettings(s, addr, isValid, saved) ==
    IF Relevant(s, addr, isValid) /\ s.isNeedToApplyChanges /\ isValid
    THEN applyChangesSettings([s EXCEPT !.isValidNodeAddress = isValid], saved)
    ELSE saved

-----------------------------------------------------------------------------
(* The constructor.  m_nodeAddress starts empty, m_localNodeRun is not     *)
(* initialised (its first comparison in setLocalNodeRun reads an           *)
(* indeterminate bool: either value; m_cac_premine likewise holds any    *)
(* value), m_localNodePeers starts empty, then undoChanges runs and one    *)
(* more timer is started.                                                  *)

Init ==
    \E saved \in SavedSettings, junk \in BOOLEAN, junkCoins \in ULong :
        LET s0 == [nodeAddress |-> NoAddr, localNodeRun |-> junk,
                   isValidNodeAddress |-> TRUE, isNeedToCheckAddress |-> FALSE,
                   isNeedToApplyChanges |-> FALSE, timerId |-> 0,
                   timers |-> {}, nextTimer |-> 1,
                   peers |-> <<>>, premine |-> junkCoins]
        IN  /\ vm = startTimer(undoChanges(s0, saved))
            /\ settings = saved
            /\ checks = <<>>
            /\ requested = NoRequest

\* Bound: a step may start a timer only while fewer than MaxTimers were.
TimerBudget(s) == s.nextTimer <= MaxTimers + 1

\* The user types an address.
SetNodeAddress ==
    \E a \in AddrValues :
        /\ a # vm.nodeAddress
        /\ TimerBudget(setNodeAddress(vm, a))
        /\ vm' = setNodeAddress(vm, a)
        /\ UNCHANGED <<settings, checks, requested>>

\* The user toggles "run local node".
SetLocalNodeRun ==
    /\ TimerBudget(setLocalNodeRun(vm, ~vm.localNodeRun))
    /\ vm' = setLocalNodeRun(vm, ~vm.localNodeRun)
    /\ UNCHANGED <<settings, checks, requested>>

\* The user types a premine amount.
SetPremine ==
    \E v \in CoinValues :
        /\ v # vm.premine
        /\ vm' = setcac_premine(vm, v)
        /\ UNCHANGED <<settings, checks, requested>>

\* The user adds a peer (addLocalNodePeer appends without a check; the
\* list is bounded by MaxPeers here).
AddLocalNodePeer ==
    \E p \in Peers :
        /\ Len(vm.peers) < MaxPeers
        /\ vm' = [vm EXCEPT !.peers = Append(@, p)]
        /\ UNCHANGED <<settings, checks, requested>>

\* The user deletes the peer at a row of the list (QList::removeAt).
DeleteLocalNodePeer ==
    \E i \in 1..Len(vm.peers) :
        /\ vm' = [vm EXCEPT !.peers = RemoveAt(@, i)]
        /\ UNCHANGED <<settings, checks, requested>>

\* The user presses Apply.
ApplyChanges ==
    /\ vm' = applyChangesView(vm)
    /\ settings' = applyChangesSettings(vm, settings)
    /\ requested' = [addr |-> vm.nodeAddress, run |-> vm.localNodeRun, none |-> FALSE]
    /\ UNCHANGED checks

\* The user presses Undo.
UndoChanges ==
    /\ TimerBudget(undoChanges(vm, settings))
    /\ vm' = undoChanges(vm, settings)
    /\ UNCHANGED <<settings, checks, requested>>

\* A running timer t fires.  timerEvent does not look at which timer fired;
\* it sends the check and kills m_timerId.  When no check is due (or the
\* local node runs) it does nothing, a stuttering step left out here.
\* Mutant: timerEvent sends the check but never calls killTimer.
timerEventNoKill(t) ==
    /\ t \in vm.timers
    /\ vm.isNeedToCheckAddress /\ ~vm.localNodeRun
    /\ Len(checks) < MaxChecks
    /\ vm' = [vm EXCEPT !.isNeedToCheckAddress = FALSE]
    /\ checks' = Append(checks, vm.nodeAddress)
    /\ UNCHANGED <<settings, requested>>

timerEvent(t) ==
    /\ t \in vm.timers
    /\ vm.isNeedToCheckAddress /\ ~vm.localNodeRun
    /\ Len(checks) < MaxChecks
    /\ vm' = [vm EXCEPT !.isNeedToCheckAddress = FALSE,
                        !.timers = @ \ {vm.timerId}]
    /\ checks' = Append(checks, vm.nodeAddress)
    /\ UNCHANGED <<settings, requested>>

\* The wallet thread answers the oldest check; the queued signal runs
\* onAddressChecked on the UI thread.
AddressChecked ==
    /\ checks # <<>>
    /\ LET addr == Head(checks)
           isValid == addr \in Valid
       IN  /\ vm' = onAddressCheckedView(vm, addr, isValid)
           /\ settings' = onAddressCheckedSettings(vm, addr, isValid, settings)
    /\ checks' = Tail(checks)
    /\ UNCHANGED requested

Next ==
    \/ SetNodeAddress
    \/ SetLocalNodeRun
    \/ SetPremine
    \/ AddLocalNodePeer
    \/ DeleteLocalNodePeer
    \/ ApplyChanges
    \/ UndoChanges
    \/ \E t \in vm.timers : timerEvent(t)
    \/ AddressChecked

\* Qt delivers the timer events of a running timer and the queued replies
\* of the wallet thread whenever the event loop is idle; the user is not
\* obliged to do anything.
Fairness ==
    /\ \A t \in 1..MaxTimers : WF_vars(timerEvent(t))
    /\ WF_vars(AddressChecked)

Spec == Init /\ [][Next]_vars /\ Fairness

-----------------------------------------------------------------------------
TypeOK ==
    /\ vm \in ViewState
    /\ settings \in Settings
    /\ vm.premine \in ULong
    /\ checks \in Seq(AddrValues)
    /\ requested \in [addr: AddrValues, run: BOOLEAN, none: BOOLEAN]

\* Once no check is due or in flight and the remote node is used, the
\* validity flag the page shows is the wallet's verdict on the address shown.
\* Edits, timers that send m_nodeAddress as it is when they fire, and replies
\* that onAddressChecked filters by address all bear on it.
ValidityTracksAddress ==
    ( /\ ~vm.isNeedToCheckAddress /\ checks = <<>>
      /\ ~vm.localNodeRun /\ vm.nodeAddress # NoAddr )
    => vm.isValidNodeAddress = (vm.nodeAddress \in Valid)

\* The view model's Qt timers do not pile up: at most two run at once, however
\* edits, Undo and timer events interleave.  (Each setter starts a timer only
\* when no check is due; timerEvent kills only m_timerId.)
TimersBounded == Cardinality(vm.timers) <= 2

\* An address edit with the remote node in use is eventually sent to
\* checkAddress: some running timer always remains to fire timerEvent.
AddressEventuallyChecked ==
    (vm.isNeedToCheckAddress /\ ~vm.localNodeRun)
        ~> (~vm.isNeedToCheckAddress \/ vm.localNodeRun)

\* WalletSettings changes only to what the user last applied: an Apply that
\* applyChanges deferred, and onAddressChecked later carries out, writes
\* the address and flag the user pressed Apply on.
AppliedAsRequested ==
    [][settings' # settings =>
         /\ settings'.addr = requested'.addr
         /\ settings'.run = requested'.run]_vars

\* An Apply deferred while the address is checked is eventually settled:
\* carried out, or dropped because the address proved invalid.
DeferredApplySettled ==
    vm.isNeedToApplyChanges ~> ~vm.isNeedToApplyChanges

\* Apply saves the page: once applyChanges has written the fields, isChanged
\* reports nothing unsaved.  setcac_premine's product overflows long long
\* for a large amount, and the getter then reads back another value.
ApplyPersistsView ==
    [][(settings' # settings) => ~isChanged(vm', settings')]_vars

=============================================================================
