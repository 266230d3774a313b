------------------------------ MODULE MCIngest ------------------------------
(* Instances of Ingest for TLC: three uploads worth a different block for  *)
(* the safety of the path, and a smaller one for its progress.             *)
EXTENDS Ingest, TLC

CONSTANTS r1, r2, r3

MCKind == (r1 :> "good") @@ (r2 :> "good") @@ (r3 :> "empty")
MCNStacks == (r1 :> 2) @@ (r2 :> 1) @@ (r3 :> 0)
MCHasMetrics == (r1 :> FALSE) @@ (r2 :> TRUE) @@ (r3 :> TRUE)

MCKindLive == (r1 :> "good") @@ (r2 :> "good") @@ (r3 :> "invalid")
MCNStacksLive == (r1 :> 1) @@ (r2 :> 1) @@ (r3 :> 0)
=============================================================================
