----------------------------- MODULE MCChallenge -----------------------------
(* Small instances of Challenge for TLC. *)
EXTENDS Challenge, TLC

CONSTANTS c1, c2, h1, h2, h3
MCSymmetry == Permutations(Challenges) \cup Permutations(Handlers)
=============================================================================
