---------------------------- MODULE ResourceLock ----------------------------
(***************************************************************************)
(* One shard of ResourceLockDO, the Durable Object behind every one-time   *)
(* resource (challenges, ...) and every mutex-style lease of the issuer.   *)
(*                                                                         *)
(* A Durable Object runs one request at a time, so each handler is one     *)
(* atomic action.  Several resources share a shard: one storage map, one   *)
(* alarm.  Time is in seconds, as in the code (now_epoch_secs).            *)
(***************************************************************************)
EXTENDS Integers, FiniteSets

CONSTANTS
    Resources,      \* "type:id" keys a caller may consume
    LockNames,      \* resource keys a caller may lock
    Tokens,         \* lock tokens (random, so never issued twice)
    Types,          \* resource types
    TypeOf,         \* the type of each resource
    Ttl,            \* seconds a consumption record of a type is kept
    MaxLockTtl,     \* MAX_LOCK_TTL_SECONDS
    MaxRequestTtl,  \* bound: largest ttl_seconds a caller asks for
    MaxListEntries, \* MAX_LIST_ENTRIES
    KeyRank,        \* position of a key in the order storage lists them
    FaultyKeys,     \* keys whose storage operations may fail
    Environments,   \* values of the ENVIRONMENT variable to consider
    MaxTime         \* bound: last second considered

Keys == Resources \cup LockNames

ASSUME ConstantsAssumption ==
    /\ TypeOf \in [Resources -> Types]
    /\ Ttl \in [Types -> Nat \ {0}]
    /\ MaxLockTtl \in Nat \ {0}
    /\ MaxRequestTtl \in Nat
    /\ MaxListEntries \in Nat
    /\ KeyRank \in [Keys -> Nat]
    /\ Resources \cap LockNames = {}
    /\ MaxTime \in Nat

VARIABLES
    now,          \* Date::now() in seconds
    environment,  \* the ENVIRONMENT variable of the deployment
    consumed,     \* storage "consumed:*": consumed_at, or Absent
    lock,         \* storage "lock:*": a LockRecord, or NoLock
    alarm,        \* the object's single alarm: due time, or Absent
    issued,       \* tokens handed to acquirers so far
    lastGrant,    \* history: last time /consume answered allowed
    regranted,    \* history: resources allowed twice within one window
    leases        \* history: leases granted and not released

vars == <<now, environment, consumed, lock, alarm, issued, lastGrant,
          regranted, leases>>

Absent == -1
NoToken == "no token"
LockRecord == [token : Tokens, expires_at : Nat]
NoLock == [token |-> NoToken, expires_at |-> 0]
Lease == [name : LockNames, token : Tokens, until : Nat]

(* Environments in which /reset is permitted. *)
ResetEnvs == {"sandbox", "development", "test", "staging"}

resource_ttl_seconds(r) == Ttl[TypeOf[r]]

(* Mutant: the alarm takes the shortest TTL for every resource type. *)
ExpiresAt_ShortestTtl(k) ==
    IF k \in Resources
      THEN consumed[k] + (CHOOSE d \in {Ttl[ty] : ty \in Types} :
                            \A ty \in Types : d <= Ttl[ty])
      ELSE lock[k].expires_at

(* When the record under key k expires (k must be stored). *)
ExpiresAt(k) == IF k \in Resources THEN consumed[k] + resource_ttl_seconds(k)
                                   ELSE lock[k].expires_at

Stored == {r \in Resources : consumed[r] # Absent}
            \cup {n \in LockNames : lock[n] # NoLock}

(* The keys the alarm visits: the first MAX_LIST_ENTRIES of the listing. *)
Listed == {k \in Stored :
             Cardinality({j \in Stored : KeyRank[j] <= KeyRank[k]})
               <= MaxListEntries}

(* Whether a storage operation on key k may succeed or fail. *)
Outcomes(k) == IF k \in FaultyKeys THEN BOOLEAN ELSE {TRUE}

Earlier(a, b) == IF a <= b THEN a ELSE b

Init ==
    /\ now = 0
    /\ environment \in Environments
    /\ consumed = [r \in Resources |-> Absent]
    /\ lock = [n \in LockNames |-> NoLock]
    /\ alarm = Absent
    /\ issued = {}
    /\ lastGrant = [r \in Resources |-> Absent]
    /\ regranted = {}
    /\ leases = {}

-----------------------------------------------------------------------------
(* The consume half. *)

(* A record is dropped by a reader only once its window is strictly over. *)
WindowOver(r, consumed_at) == now > consumed_at + resource_ttl_seconds(r)

(* POST /consume.  A failed read is taken for "no record" (.ok().flatten());
   if set_alarm fails the caller gets an error although the record is kept.
   When the put fails the only effect is that an expired record is dropped,
   as in check_consumed. *)
consume_resource(r) ==
    \E readOk \in Outcomes(r), alarmOk \in Outcomes(r) :
      LET existing == IF readOk THEN consumed[r] ELSE Absent IN
      /\ existing = Absent \/ WindowOver(r, existing)
      /\ consumed' = [consumed EXCEPT ![r] = now]
      /\ IF alarmOk
           THEN /\ alarm' = now + resource_ttl_seconds(r)
                /\ lastGrant' = [lastGrant EXCEPT ![r] = now]
                /\ regranted' =
                     IF /\ lastGrant[r] # Absent
                        /\ now < lastGrant[r] + resource_ttl_seconds(r)
                     THEN regranted \cup {r} ELSE regranted
           ELSE UNCHANGED <<alarm, lastGrant, regranted>>
      /\ UNCHANGED <<now, environment, lock, issued, leases>>

(* POST /check answers from the record, dropping it when its window is over. *)
check_consumed(r) ==
    /\ consumed[r] # Absent
    /\ WindowOver(r, consumed[r])
    /\ consumed' = [consumed EXCEPT ![r] = Absent]
    /\ UNCHANGED <<now, environment, lock, alarm, issued, lastGrant,
                   regranted, leases>>

(* POST /reset, refused outside the listed environments. *)
reset_resource(r) ==
    /\ environment \in ResetEnvs
    /\ consumed' = [consumed EXCEPT ![r] = Absent]
    /\ UNCHANGED <<now, environment, lock, alarm, issued, lastGrant,
                   regranted, leases>>

-----------------------------------------------------------------------------
(* The lease half. *)

(* POST /acquire with a fresh token: refused while an unexpired lock is
   stored; otherwise the lock is (over)written and the alarm moved.  If
   set_alarm fails the caller gets an error and no lease, yet the record
   stays and keeps others out until it expires. *)
handle_acquire_lock(n, t, ttl_seconds) ==
    \E readOk \in Outcomes(n), alarmOk \in Outcomes(n) :
      LET existing == IF readOk THEN lock[n] ELSE NoLock
          until == now + Earlier(ttl_seconds, MaxLockTtl)
      IN
      /\ t \notin issued
      /\ ttl_seconds # 0
      /\ existing = NoLock \/ now >= existing.expires_at
      /\ lock' = [lock EXCEPT ![n] = [token |-> t, expires_at |-> until]]
      /\ issued' = issued \cup {t}
      /\ IF alarmOk
           THEN /\ alarm' = until + 1
                /\ leases' = leases \cup {[name |-> n, token |-> t, until |-> until]}
           ELSE UNCHANGED <<alarm, leases>>
      /\ UNCHANGED <<now, environment, consumed, lastGrant, regranted>>

(* Mutant: a release frees the lock without comparing tokens. *)
handle_release_lock_AnyToken(n, t) ==
    /\ t \in issued
    /\ lock' = [lock EXCEPT ![n] = NoLock]
    /\ leases' = {l \in leases : l.name # n \/ l.token # t}
    /\ UNCHANGED <<now, environment, consumed, alarm, issued, lastGrant, regranted>>

(* POST /release by the holder of token t: deletes the record only if it
   carries that token; an absent record is reported as released. *)
handle_release_lock(n, t) ==
    \E readOk \in Outcomes(n) :
      /\ t \in issued
      /\ lock' = IF readOk /\ lock[n].token = t
                   THEN [lock EXCEPT ![n] = NoLock] ELSE lock
      /\ leases' = {l \in leases : l.name # n \/ l.token # t}
      /\ UNCHANGED <<now, environment, consumed, alarm, issued, lastGrant,
                     regranted>>

-----------------------------------------------------------------------------
(* The alarm and the clock. *)

(* Mutant: the alarm cleans up and does not reschedule itself. *)
alarm_handler_NoReschedule ==
    /\ alarm # Absent
    /\ now >= alarm
    /\ consumed' = [r \in Resources |->
                      IF r \in Stored /\ now >= ExpiresAt(r) THEN Absent ELSE consumed[r]]
    /\ lock' = [n \in LockNames |->
                  IF n \in Stored /\ now >= ExpiresAt(n) THEN NoLock ELSE lock[n]]
    /\ alarm' = Absent
    /\ UNCHANGED <<now, environment, issued, lastGrant, regranted, leases>>

(* The alarm handler: deletes every visited record that has expired and
   reschedules for the earliest visited record that has not.  A visited
   record whose read or delete fails is neither deleted nor counted. *)
alarm_handler ==
    /\ alarm # Absent
    /\ now >= alarm
    /\ \E failed \in SUBSET (Listed \cap FaultyKeys) :
         LET visited == Listed \ failed
             expired == {k \in visited : now >= ExpiresAt(k)}
             kept == visited \ expired
         IN
         /\ consumed' = [r \in Resources |->
                           IF r \in expired THEN Absent ELSE consumed[r]]
         /\ lock' = [n \in LockNames |->
                       IF n \in expired THEN NoLock ELSE lock[n]]
         /\ \/ /\ kept = {}
               /\ alarm' = Absent
            \/ \E next \in kept :
                 /\ \A k \in kept : ExpiresAt(next) <= ExpiresAt(k)
                 /\ alarm' = ExpiresAt(next)
    /\ UNCHANGED <<now, environment, issued, lastGrant, regranted, leases>>

(* A second passes. *)
Tick ==
    /\ now < MaxTime
    /\ now' = now + 1
    /\ UNCHANGED <<environment, consumed, lock, alarm, issued, lastGrant,
                   regranted, leases>>

Next ==
    \/ \E r \in Resources :
         consume_resource(r) \/ check_consumed(r) \/ reset_resource(r)
    \/ \E n \in LockNames, t \in Tokens :
         \/ \E ttl_seconds \in 0..MaxRequestTtl :
              handle_acquire_lock(n, t, ttl_seconds)
         \/ handle_release_lock(n, t)
    \/ alarm_handler
    \/ Tick

Spec == Init /\ [][Next]_vars

-----------------------------------------------------------------------------
(* Properties. *)

(* Every variable has its type. *)
TypeOK ==
    /\ now \in Nat
    /\ environment \in Environments
    /\ consumed \in [Resources -> Nat \cup {Absent}]
    /\ lock \in [LockNames -> LockRecord \cup {NoLock}]
    /\ alarm \in Nat \cup {Absent}
    /\ issued \subseteq Tokens
    /\ lastGrant \in [Resources -> Nat \cup {Absent}]
    /\ regranted \subseteq Resources
    /\ leases \subseteq Lease

(* One-time use: outside the environments where /reset is permitted, /consume
   never answers "allowed" twice for one resource within its TTL window,
   whatever the alarm, /check and the other keys of the shard do. *)
SingleUse == environment \notin ResetEnvs => regranted \subseteq FaultyKeys

(* Mutual exclusion: two unexpired, unreleased leases on one name are the
   same lease; in particular a release sent after the caller's own lease ran
   out never frees the lease of whoever took the lock next. *)
LeaseExclusive ==
    \A l1, l2 \in leases :
      (/\ l1.name = l2.name
       /\ l1.name \notin FaultyKeys
       /\ now < l1.until
       /\ now < l2.until) => l1 = l2

(* The shard implements LockService: every answer "allowed" and every lease
   is one the abstract service could have given. *)
Abs == INSTANCE LockService WITH
         Window <- [r \in Resources |-> resource_ttl_seconds(r)],
         MaxLeaseTtl <- MaxLockTtl,
         Sound <- Keys \ FaultyKeys,
         resettable <- (environment \in ResetEnvs)

(* One-time use and mutual exclusion together, as a refinement: a handler's
   step is a Grant, Lend, Return or passing of time of LockService, or does
   not concern it. *)
ImplementsLockService == Abs!Spec

(* As long as the alarm can list every key, a stored record with sound storage
   always has an alarm pending, so it cannot be left behind for ever, whatever
   fails for the other keys of the shard. *)
AlarmPending == Stored \ FaultyKeys # {} => alarm # Absent
=============================================================================
