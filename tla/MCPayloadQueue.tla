--------------------------- MODULE MCPayloadQueue ---------------------------
(* Instances of PayloadQueue for TLC. *)
EXTENDS PayloadQueue, TLC

CONSTANTS r1, r2, r3, n1, n2

(* Two requests have drawn the same name from the eight random bytes of    *)
(* getProfileFileName, the third has one of its own.                       *)
MCFileOf == (r1 :> n1) @@ (r2 :> n1) @@ (r3 :> n2)
=============================================================================
