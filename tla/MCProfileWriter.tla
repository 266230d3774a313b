-------------------------- MODULE MCProfileWriter ---------------------------
(* An instance of ProfileWriter for TLC: a block below the batch, one that *)
(* fills it alone, and one with metrics only.                              *)
EXTENDS ProfileWriter, TLC

CONSTANTS b1, b2, b3

MCNStacks == (b1 :> 1) @@ (b2 :> 2) @@ (b3 :> 0)
MCHasMetrics == (b1 :> TRUE) @@ (b2 :> FALSE) @@ (b3 :> TRUE)
=============================================================================
