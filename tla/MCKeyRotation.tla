---------------------------- MODULE MCKeyRotation ----------------------------
(* Small instances of KeyRotation for TLC. *)
EXTENDS KeyRotation, TLC

CONSTANTS r1, r2, s1

Onboarded == [status |-> Active, key |-> 1, shape |-> "onboarded", expired |-> FALSE]
Stripped == [status |-> Deprecated, key |-> 1, shape |-> "stripped", expired |-> FALSE]
Rotated(key, expired) ==
    [status |-> Active, key |-> key, shape |-> "rotated", expired |-> expired]

(* No key at all; the onboarded key; and what rotations that did not see each
   other's writes leave: two active keys, of which one has expired since. *)
OneKey == {[Nothing EXCEPT ![1] = Onboarded]}
Kvs == {Nothing} \cup OneKey
       \cup {[Nothing EXCEPT ![1] = Stripped, ![2] = Rotated(2, TRUE),
                             ![3] = Rotated(3, FALSE)]}

RequestSymmetry == Permutations(Rotators)
=============================================================================
