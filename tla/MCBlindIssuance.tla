--------------------------- MODULE MCBlindIssuance ---------------------------
(* A small instance of BlindIssuance for TLC. *)
EXTENDS BlindIssuance, TLC

CONSTANTS c1, c2, p1, p2, r1, r2, k1, k2, k3, k4

(* k2 expires, k3 has a retired verifying record, k4 was never loaded. *)
KeyTable ==
    k1 :> [stored |-> TRUE, active |-> TRUE, from |-> 0, until |-> 0, signing |-> "active"]
    @@ k2 :> [stored |-> TRUE, active |-> TRUE, from |-> 2, until |-> 3, signing |-> "active"]
    @@ k3 :> [stored |-> TRUE, active |-> FALSE, from |-> 0, until |-> 0, signing |-> "inactive"]
    @@ k4 :> [stored |-> TRUE, active |-> TRUE, from |-> 0, until |-> 0, signing |-> "none"]

MCSymmetry ==
    Permutations(Creators) \cup Permutations(Presenters) \cup Permutations(Rotators)
=============================================================================
