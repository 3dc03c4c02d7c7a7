------------------------------- MODULE NonceDO -------------------------------
(***************************************************************************)
(* One shard of NonceDO, the Durable Object that makes every nonce of an   *)
(* authenticated request or an attestation single use.  The object runs    *)
(* one request at a time, so each handler is one atomic action.            *)
(***************************************************************************)
EXTENDS Integers, FiniteSets

CONSTANTS
    Nonces,            \* nonce values (attestation nonces carry a prefix)
    MaxNonceTtl,       \* MAX_NONCE_TTL_SECONDS
    MaxRequestTtl,     \* bound: largest ttl_seconds a caller asks for
    MaxNonceCapacity,  \* MAX_NONCE_CAPACITY
    KeyRank,           \* position of a nonce in the order storage lists keys
    FaultyNonces,      \* nonces whose storage operations may fail
    LastRequest,       \* bound: last second at which requests arrive
    MaxTime            \* bound: last second considered

ASSUME NonceAssumption ==
    /\ MaxNonceTtl \in Nat
    /\ MaxRequestTtl \in Nat
    /\ MaxNonceCapacity \in Nat
    /\ KeyRank \in [Nonces -> Nat]
    /\ LastRequest \in Nat
    /\ MaxTime \in Nat

VARIABLES
    now,       \* Date::now() in seconds
    expires,   \* storage "nonce:*": the record's expires_at, or Absent
    alarm,     \* the object's single alarm: due time, or Absent
    promise,   \* history: expires_at of the last record answered "stored"
    replayed   \* history: nonces answered "stored" while a promise was open

nonceVars == <<now, expires, alarm, promise, replayed>>

Absent == -1

NonceInit ==
    /\ now = 0
    /\ expires = [n \in Nonces |-> Absent]
    /\ alarm = Absent
    /\ promise = [n \in Nonces |-> Absent]
    /\ replayed = {}

-----------------------------------------------------------------------------

(* Mutant: a record that expires this very second no longer counts. *)
is_valid_at_Exclusive(e) == e > now

(* A record is valid up to and including the second it expires. *)
is_valid_at(e) == e >= now

StoredIn(records) == {n \in Nonces : records[n] # Absent}

(* The keys a scan visits: the first MAX_NONCE_CAPACITY of the listing. *)
ScannedIn(records) ==
    {n \in StoredIn(records) :
       Cardinality({m \in StoredIn(records) : KeyRank[m] <= KeyRank[n]})
         <= MaxNonceCapacity}

(* A scanned record that has expired is deleted, unless reading or deleting
   it fails. *)
Expired(records, failed) ==
    {n \in ScannedIn(records) \ failed : ~ is_valid_at(records[n])}

Without(records, gone) == [n \in Nonces |-> IF n \in gone THEN Absent ELSE records[n]]

(* The capacity check: a full shard drops expired nonces, and only those. *)
purge_expired_nonces(records, failed) == Without(records, Expired(records, failed))

Purged(records, failed) ==
    IF Cardinality(StoredIn(records)) >= MaxNonceCapacity
      THEN purge_expired_nonces(records, failed) ELSE records

(* How storing n can end: "stored"; "unalarmed" (put done, set_alarm failed);
   "lost" (put failed). *)
Outcomes(n) == IF n \in FaultyNonces THEN {"stored", "unalarmed", "lost"}
                                     ELSE {"stored"}

(* Whether a request for n with this TTL gets past the checks. *)
Admissible(n, ttl_seconds) ==
    /\ ttl_seconds # 0
    /\ ttl_seconds <= MaxNonceTtl
    /\ expires[n] = Absent \/ ~ is_valid_at(expires[n])

(* POST /check-and-set.  A failed read is an error, so a nonce is never
   accepted unread; a stale record is dropped, a full shard purged, and the
   nonce stored.  Unless the outcome is "stored" the caller gets an error. *)
check_and_set_internal(n, ttl_seconds, outcome) ==
    /\ Admissible(n, ttl_seconds)
    /\ outcome \in Outcomes(n)
    /\ \E failed \in SUBSET (FaultyNonces \cap StoredIn(expires)) :
         LET purged == Purged(Without(expires, {n}), failed) IN
         expires' = IF outcome = "lost" THEN purged
                    ELSE [purged EXCEPT ![n] = now + ttl_seconds]
    /\ IF outcome = "stored"
         THEN /\ alarm' = now + ttl_seconds
              /\ promise' = [promise EXCEPT ![n] = now + ttl_seconds]
              /\ replayed' = IF promise[n] # Absent /\ now <= promise[n]
                               THEN replayed \cup {n} ELSE replayed
         ELSE UNCHANGED <<alarm, promise, replayed>>
    /\ UNCHANGED now

(* Mutant: the next alarm is set only for records beyond this second. *)
alarm_handler_SkipBoundary ==
    /\ alarm # Absent
    /\ now >= alarm
    /\ LET kept == {n \in ScannedIn(expires) : expires[n] > now} IN
         /\ expires' = Without(expires, Expired(expires, {}))
         /\ \/ kept = {} /\ alarm' = Absent
            \/ \E n \in kept : /\ \A m \in kept : expires[n] <= expires[m]
                               /\ alarm' = expires[n]
    /\ UNCHANGED <<now, promise, replayed>>

(* The alarm deletes what has expired and reschedules itself for the earliest
   record that has not, at least a second ahead. *)
alarm_handler ==
    /\ alarm # Absent
    /\ now >= alarm
    /\ \E failed \in SUBSET (ScannedIn(expires) \cap FaultyNonces) :
         LET kept == (ScannedIn(expires) \ failed) \ Expired(expires, failed) IN
         /\ expires' = Without(expires, Expired(expires, failed))
         /\ \/ kept = {} /\ alarm' = Absent
            \/ \E n \in kept :
                 /\ \A m \in kept : expires[n] <= expires[m]
                 /\ alarm' = IF expires[n] = now THEN now + 1 ELSE expires[n]
    /\ UNCHANGED <<now, promise, replayed>>

(* A second passes. *)
Tick ==
    /\ now < MaxTime
    /\ now' = now + 1
    /\ UNCHANGED <<expires, alarm, promise, replayed>>

Request ==
    /\ now <= LastRequest
    /\ \E n \in Nonces, ttl_seconds \in 0..MaxRequestTtl :
         \E outcome \in Outcomes(n) : check_and_set_internal(n, ttl_seconds, outcome)

NonceNext == Request \/ alarm_handler \/ Tick

NonceSpec == NonceInit /\ [][NonceNext]_nonceVars

-----------------------------------------------------------------------------
(* Properties. *)

(* Every variable has its type. *)
NonceTypeOK ==
    /\ now \in Nat
    /\ expires \in [Nonces -> Nat \cup {Absent}]
    /\ alarm \in Nat \cup {Absent}
    /\ promise \in [Nonces -> Nat \cup {Absent}]
    /\ replayed \subseteq Nonces

(* A nonce answered "stored" is not stored again up to and including the
   second its TTL ends, whatever the alarm, the capacity purge and the other
   nonces of the shard do, and even when storage operations fail. *)
NoReplay == replayed = {}

(* No nonce with sound storage is stored without an alarm that will come and
   delete it (as long as the listing is not cut short), also when storage
   operations on other nonces of the shard fail. *)
NonceAlarmPending == StoredIn(expires) \ FaultyNonces # {} => alarm # Absent

(* Once requests stop, every nonce with sound storage is eventually deleted:
   the alarm keeps rescheduling itself, also across the second in which a
   record is on its boundary. *)
EventuallyForgotten == <>[](StoredIn(expires) \subseteq FaultyNonces)
=============================================================================
