--------------------------- MODULE MCResourceLock ---------------------------
(* A small instance of ResourceLock for TLC. *)
EXTENDS ResourceLock, TLC

CONSTANTS r1, r2, n1, t1, t2, t3

MCTypes == {"challenge", "pickup"}
MCTypeOf == (r1 :> "challenge") @@ (r2 :> "pickup")
MCTtl == ("challenge" :> 2) @@ ("pickup" :> 3)
MCKeyRank == (r1 :> 1) @@ (r2 :> 2) @@ (n1 :> 3)

TokenSymmetry == Permutations(Tokens)
=============================================================================
