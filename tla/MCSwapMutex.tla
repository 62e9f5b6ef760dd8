---------------------------- MODULE MCSwapMutex ----------------------------
(* Values of the constants of SwapMutex for TLC. *)
EXTENDS SwapMutex, TLC

CONSTANTS c1, c2, c3

=============================================================================
