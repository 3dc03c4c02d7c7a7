--------------------------- MODULE MCSecretSlots ---------------------------
(* SecretSlots for TLC: requests are interchangeable. *)
EXTENDS SecretSlots, TLC

Symmetry == Permutations(Requests)
=============================================================================
