------------------------------ MODULE MCLockout ------------------------------
(* Small instances of Lockout for TLC. *)
EXTENDS Lockout, TLC

CONSTANTS a1, a2, a3, a4
AttemptSymmetry == Permutations(Attempts)
Counters == {0, Corrupt, 1}
=============================================================================
