---------------------------- MODULE AbstractSwap ----------------------------
(***************************************************************************)
(* What an atomic swap promises, without messages, nodes or signatures.    *)
(* Two holdings change hands: G's Grimm coins and B's foreign coins. Each  *)
(* is free, then held in escrow (the shared 2-of-2 output on the Grimm    *)
(* chain, the HTLC on the foreign chain), then released once, either to   *)
(* the counterparty or back to its owner.  The releases are tied:         *)
(*   - G takes the foreign coins only after B has taken the Grimm coins   *)
(*     (the secret G needs is revealed by B's claim);                     *)
(*   - B never both takes the Grimm coins and refunds its foreign coins.   *)
(* Every escrow is eventually released.                                   *)
(***************************************************************************)

VARIABLES
    grimm,     \* G's Grimm coins: "Free", "Escrow", "ToB", "BackToG"
    foreign    \* B's foreign coins: "Free", "Escrow", "ToG", "BackToB"

vars == <<grimm, foreign>>

TypeOK ==
    /\ grimm \in {"Free", "Escrow", "ToB", "BackToG"}
    /\ foreign \in {"Free", "Escrow", "ToG", "BackToB"}

Init == grimm = "Free" /\ foreign = "Free"

LockGrimm    == grimm = "Free"   /\ grimm' = "Escrow" /\ UNCHANGED foreign
LockForeign  == foreign = "Free" /\ foreign' = "Escrow" /\ UNCHANGED grimm

\* B claims the shared output; its claim reveals the secret to G.
ClaimGrimm ==
    /\ grimm = "Escrow" /\ foreign # "BackToB"
    /\ grimm' = "ToB" /\ UNCHANGED foreign

\* G takes its Grimm coins back after the lock time.
RefundGrimm ==
    /\ grimm = "Escrow"
    /\ grimm' = "BackToG" /\ UNCHANGED foreign

\* G claims the foreign coins with the secret B's claim revealed.
ClaimForeign ==
    /\ foreign = "Escrow" /\ grimm = "ToB"
    /\ foreign' = "ToG" /\ UNCHANGED grimm

\* B takes its foreign coins back, unless it has claimed the Grimm coins.
RefundForeign ==
    /\ foreign = "Escrow" /\ grimm # "ToB"
    /\ foreign' = "BackToB" /\ UNCHANGED grimm

Next ==
    \/ LockGrimm \/ LockForeign
    \/ ClaimGrimm \/ RefundGrimm
    \/ ClaimForeign \/ RefundForeign

\* The swap's safety: only these steps, in these orders.
SafetySpec == Init /\ [][Next]_vars

\* The swap's promise in full: no escrow lasts forever.
Spec ==
    /\ SafetySpec
    /\ WF_vars(ClaimGrimm \/ RefundGrimm)
    /\ WF_vars(ClaimForeign \/ RefundForeign)

=============================================================================
