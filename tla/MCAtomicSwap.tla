---------------------------- MODULE MCAtomicSwap ----------------------------
(* The two parties as model values; either may initiate the swap.        *)
EXTENDS AtomicSwap

CONSTANTS g, b

MCInitiator == g
MCInitiatorB == b
=============================================================================
