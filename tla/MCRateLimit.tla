----------------------------- MODULE MCRateLimit -----------------------------
(* Small instances of RateLimit for TLC. *)
EXTENDS RateLimit, TLC

CONSTANTS q1, q2, q3, q4, i1, i2

(* Requests are interchangeable, and so are isolates. *)
MCSymmetry == Permutations(Calls) \cup Permutations(Isolates)
=============================================================================
