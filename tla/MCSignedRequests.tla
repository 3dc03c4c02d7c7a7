-------------------------- MODULE MCSignedRequests --------------------------
(* A small instance of SignedRequests for TLC: one signed request stamped
   ahead of the clock, and other traffic on three nonces.  The nonce whose
   storage may fail is listed last, so the shard can overflow while the sound
   ones stay within its listing. *)
EXTENDS SignedRequests, TLC

CONSTANTS a, b, c, q1, d1, d2
MCKeyRank == (a :> 1) @@ (b :> 2) @@ (c :> 3)
MCNonceOf == q1 :> a
MCTimestampOf == q1 :> 2
=============================================================================
