-------------------------- MODULE MCCollapsedStream --------------------------
(* Instance of CollapsedStream for TLC: a root with two children, one of   *)
(* which has a child; a graph may lack any of them.                        *)
EXTENDS CollapsedStream, TLC

MCParent == ("main" :> "") @@ ("read" :> "main") @@ ("write" :> "main")
            @@ ("flush" :> "write")
=============================================================================
