------------------------- MODULE ResourceLockProofs -------------------------
(***************************************************************************)
(* Proofs about one ResourceLockDO shard, for every set of resources, lock *)
(* names and tokens, every TTL and every clock bound.                      *)
(***************************************************************************)
EXTENDS ResourceLock, TLAPS, FiniteSetTheorems

(* What storage must remember for one-time use: while the window of the last
   grant of a key is open, its consumption record is still stored and is no
   older than that grant. *)
GrantRemembered ==
    environment \notin ResetEnvs =>
      \A r \in Resources \ FaultyKeys :
        (lastGrant[r] # Absent /\ now < lastGrant[r] + resource_ttl_seconds(r))
          => consumed[r] # Absent /\ consumed[r] >= lastGrant[r]

(* What storage must remember for exclusion: a live lease is the lock record
   stored under its name. *)
LeaseRemembered ==
    \A l \in leases :
      (l.name \notin FaultyKeys /\ now < l.until)
        => lock[l.name] = [token |-> l.token, expires_at |-> l.until]

(* Tokens of leases have been issued, so a fresh token names no lease. *)
LeaseTokensIssued == \A l \in leases : l.token \in issued

(* The inductive invariants. *)
UseInv == TypeOK /\ GrantRemembered /\ SingleUse
LeaseInv == TypeOK /\ LeaseRemembered /\ LeaseTokensIssued

-----------------------------------------------------------------------------

(* Every resource has a positive TTL. *)
LEMMA TtlPositive ==
    ASSUME NEW r \in Resources
    PROVE  resource_ttl_seconds(r) \in Nat /\ resource_ttl_seconds(r) > 0
  BY ConstantsAssumption DEF resource_ttl_seconds

(* A stored record expires at a natural-number time. *)
LEMMA ExpiryType ==
    ASSUME TypeOK, NEW k \in Stored
    PROVE  ExpiresAt(k) \in Nat
  <1>1. CASE k \in Resources
    BY <1>1, TtlPositive, ConstantsAssumption DEF TypeOK, Stored, ExpiresAt, Absent
  <1>2. CASE k \notin Resources
    <2>1. k \in LockNames /\ lock[k] # NoLock
      BY <1>2 DEF Stored
    <2>2. lock[k] \in LockRecord
      BY <2>1 DEF TypeOK
    <2>3. QED
      BY <1>2, <2>2 DEF ExpiresAt, LockRecord
  <1>3. QED
    BY <1>1, <1>2

(* What the alarm visits is stored. *)
LEMMA ListedStored == Listed \subseteq Stored
  BY DEF Listed

(* Every reachable state of the shard is well typed. *)
THEOREM TypeCorrect == Spec => []TypeOK
  <1>1. Init => TypeOK
    BY DEF Init, TypeOK
  <1>2. TypeOK /\ [Next]_vars => TypeOK'
    <2> SUFFICES ASSUME TypeOK, [Next]_vars PROVE TypeOK'
      OBVIOUS
    <2>1. ASSUME NEW r \in Resources, consume_resource(r) PROVE TypeOK'
      BY <2>1, TtlPositive DEF TypeOK, consume_resource, Absent
    <2>2. ASSUME NEW r \in Resources, check_consumed(r) PROVE TypeOK'
      BY <2>2 DEF TypeOK, check_consumed
    <2>3. ASSUME NEW r \in Resources, reset_resource(r) PROVE TypeOK'
      BY <2>3 DEF TypeOK, reset_resource
    <2>4. ASSUME NEW n \in LockNames, NEW t \in Tokens,
                 NEW d \in 0..MaxRequestTtl, handle_acquire_lock(n, t, d)
          PROVE TypeOK'
      <3> DEFINE until == now + Earlier(d, MaxLockTtl)
      <3>1. until \in Nat
        BY ConstantsAssumption DEF Earlier, TypeOK
      <3>2. /\ lock' = [lock EXCEPT ![n] = [token |-> t, expires_at |-> until]]
            /\ issued' = issued \cup {t}
            /\ \/ /\ alarm' = until + 1
                  /\ leases' = leases \cup {[name |-> n, token |-> t, until |-> until]}
               \/ UNCHANGED <<alarm, leases>>
            /\ UNCHANGED <<now, environment, consumed, lastGrant, regranted>>
        BY <2>4 DEF handle_acquire_lock
      <3> HIDE DEF until
      <3>3. QED
        BY <3>1, <3>2 DEF TypeOK, LockRecord, Lease
    <2>5. ASSUME NEW n \in LockNames, NEW t \in Tokens, handle_release_lock(n, t)
          PROVE TypeOK'
      BY <2>5 DEF TypeOK, handle_release_lock
    <2>6. CASE alarm_handler
      <3>1. PICK failed \in SUBSET (Listed \cap FaultyKeys) :
              LET visited == Listed \ failed
                  expired == {k \in visited : now >= ExpiresAt(k)}
                  kept == visited \ expired
              IN
              /\ consumed' = [r \in Resources |->
                                IF r \in expired THEN Absent ELSE consumed[r]]
              /\ lock' = [n \in LockNames |->
                            IF n \in expired THEN NoLock ELSE lock[n]]
              /\ \/ /\ kept = {}
                    /\ alarm' = Absent
                 \/ \E next \in kept :
                      /\ \A k \in kept : ExpiresAt(next) <= ExpiresAt(k)
                      /\ alarm' = ExpiresAt(next)
        BY <2>6 DEF alarm_handler
      <3>2. alarm' \in Nat \cup {Absent}
        BY <3>1, ExpiryType, ListedStored
      <3>3. /\ consumed' \in [Resources -> Nat \cup {Absent}]
            /\ lock' \in [LockNames -> LockRecord \cup {NoLock}]
        BY <3>1 DEF TypeOK
      <3>4. QED
        BY <2>6, <3>2, <3>3 DEF alarm_handler, TypeOK
    <2>7. CASE Tick
      BY <2>7 DEF TypeOK, Tick
    <2>8. CASE UNCHANGED vars
      BY <2>8 DEF TypeOK, vars
    <2>9. QED
      BY <2>1, <2>2, <2>3, <2>4, <2>5, <2>6, <2>7, <2>8 DEF Next
  <1>3. QED
    BY <1>1, <1>2, PTL DEF Spec

-----------------------------------------------------------------------------
(* One-time use.  The window test of /consume reads the stored record, so the
   invariant has to say that nothing (the alarm, /check, a shard neighbour)
   removes or ages that record while the window of its grant is open. *)

(* A step of the alarm removes only records that have expired. *)
LEMMA AlarmRemovesExpired ==
    ASSUME alarm_handler
    PROVE  /\ \A r \in Resources :
                \/ consumed'[r] = consumed[r]
                \/ r \in Stored /\ now >= ExpiresAt(r)
           /\ \A n \in LockNames :
                \/ lock'[n] = lock[n]
                \/ n \in Stored /\ now >= ExpiresAt(n)
           /\ UNCHANGED <<now, environment, issued, lastGrant, regranted, leases>>
  BY ListedStored DEF alarm_handler

(* Storage remembers every grant whose window is open, and no resource whose
   storage is sound has been granted twice within a window. *)
THEOREM UseInvHolds == Spec => []UseInv
  <1>1. Init => UseInv
    BY DEF Init, UseInv, TypeOK, GrantRemembered, SingleUse, Absent
  <1>2. UseInv /\ TypeOK' /\ [Next]_vars => UseInv'
    <2> SUFFICES ASSUME UseInv, TypeOK', [Next]_vars
                 PROVE GrantRemembered' /\ SingleUse'
      BY DEF UseInv
    <2> USE DEF UseInv
    <2>1. ASSUME NEW r \in Resources, consume_resource(r)
          PROVE  GrantRemembered' /\ SingleUse'
      <3>1. PICK readOk \in Outcomes(r), alarmOk \in Outcomes(r) :
              LET existing == IF readOk THEN consumed[r] ELSE Absent IN
              /\ existing = Absent \/ WindowOver(r, existing)
              /\ consumed' = [consumed EXCEPT ![r] = now]
              /\ IF alarmOk
                   THEN /\ lastGrant' = [lastGrant EXCEPT ![r] = now]
                        /\ regranted' =
                             IF /\ lastGrant[r] # Absent
                                /\ now < lastGrant[r] + resource_ttl_seconds(r)
                             THEN regranted \cup {r} ELSE regranted
                   ELSE UNCHANGED <<lastGrant, regranted>>
              /\ UNCHANGED <<now, environment>>
        BY <2>1 DEF consume_resource
      <3>2. ASSUME r \notin FaultyKeys, environment \notin ResetEnvs
            PROVE  ~ (lastGrant[r] # Absent
                       /\ now < lastGrant[r] + resource_ttl_seconds(r))
        <4>1. readOk = TRUE
          BY <3>1, <3>2 DEF Outcomes
        <4>2. consumed[r] = Absent \/ WindowOver(r, consumed[r])
          BY <3>1, <4>1
        <4>3. resource_ttl_seconds(r) \in Nat
          BY TtlPositive
        <4>4. QED
          BY <3>2, <4>2, <4>3 DEF WindowOver, GrantRemembered, TypeOK, Absent
      <3>3. SingleUse'
        BY <3>1, <3>2 DEF SingleUse
      <3>4. GrantRemembered'
        <4> SUFFICES ASSUME environment' \notin ResetEnvs,
                            NEW q \in Resources \ FaultyKeys,
                            lastGrant'[q] # Absent,
                            now' < lastGrant'[q] + resource_ttl_seconds(q)
                     PROVE  consumed'[q] # Absent /\ consumed'[q] >= lastGrant'[q]
          BY DEF GrantRemembered, resource_ttl_seconds
        <4>1. CASE q = r
          <5>1. alarmOk = TRUE
            BY <4>1, <3>1 DEF Outcomes
          <5>2. QED
            BY <4>1, <5>1, <3>1 DEF TypeOK, Absent
        <4>2. CASE q # r
          BY <4>2, <3>1 DEF TypeOK, GrantRemembered
        <4>3. QED
          BY <4>1, <4>2
      <3>5. QED
        BY <3>3, <3>4
    <2>2. ASSUME NEW r \in Resources, check_consumed(r)
          PROVE  GrantRemembered' /\ SingleUse'
      <3>1. resource_ttl_seconds(r) \in Nat
        BY TtlPositive
      <3>2. SingleUse'
        BY <2>2 DEF check_consumed, SingleUse
      <3>3. GrantRemembered'
        <4> SUFFICES ASSUME environment' \notin ResetEnvs,
                            NEW q \in Resources \ FaultyKeys,
                            lastGrant'[q] # Absent,
                            now' < lastGrant'[q] + resource_ttl_seconds(q)
                     PROVE  consumed'[q] # Absent /\ consumed'[q] >= lastGrant'[q]
          BY DEF GrantRemembered, resource_ttl_seconds
        <4>1. consumed[q] # Absent /\ consumed[q] >= lastGrant[q]
          BY <2>2 DEF check_consumed, GrantRemembered
        <4>2. q # r
          BY <2>2, <3>1, <4>1 DEF check_consumed, WindowOver, TypeOK, Absent
        <4>3. QED
          BY <2>2, <4>1, <4>2 DEF check_consumed, TypeOK
      <3>4. QED
        BY <3>2, <3>3
    <2>3. ASSUME NEW r \in Resources, reset_resource(r)
          PROVE  GrantRemembered' /\ SingleUse'
      BY <2>3 DEF reset_resource, GrantRemembered, SingleUse
    <2>4. ASSUME NEW n \in LockNames, NEW t \in Tokens,
                 NEW d \in 0..MaxRequestTtl, handle_acquire_lock(n, t, d)
          PROVE  GrantRemembered' /\ SingleUse'
      BY <2>4 DEF handle_acquire_lock, GrantRemembered, SingleUse,
                  resource_ttl_seconds
    <2>5. ASSUME NEW n \in LockNames, NEW t \in Tokens, handle_release_lock(n, t)
          PROVE  GrantRemembered' /\ SingleUse'
      BY <2>5 DEF handle_release_lock, GrantRemembered, SingleUse,
                  resource_ttl_seconds
    <2>6. CASE alarm_handler
      <3>1. SingleUse'
        BY <2>6, AlarmRemovesExpired DEF SingleUse
      <3>2. GrantRemembered'
        <4> SUFFICES ASSUME environment' \notin ResetEnvs,
                            NEW q \in Resources \ FaultyKeys,
                            lastGrant'[q] # Absent,
                            now' < lastGrant'[q] + resource_ttl_seconds(q)
                     PROVE  consumed'[q] # Absent /\ consumed'[q] >= lastGrant'[q]
          BY DEF GrantRemembered, resource_ttl_seconds
        <4>1. consumed[q] # Absent /\ consumed[q] >= lastGrant[q]
          BY <2>6, AlarmRemovesExpired DEF GrantRemembered
        <4>2. resource_ttl_seconds(q) \in Nat
          BY TtlPositive
        <4>3. ~ (now >= ExpiresAt(q))
          BY <2>6, <4>1, <4>2, AlarmRemovesExpired DEF ExpiresAt, TypeOK, Absent
        <4>4. consumed'[q] = consumed[q]
          BY <2>6, <4>3, AlarmRemovesExpired
        <4>5. QED
          BY <2>6, <4>1, <4>4, AlarmRemovesExpired
      <3>3. QED
        BY <3>1, <3>2
    <2>7. CASE Tick
      <3>1. SingleUse'
        BY <2>7 DEF Tick, SingleUse
      <3>2. GrantRemembered'
        <4> SUFFICES ASSUME environment' \notin ResetEnvs,
                            NEW q \in Resources \ FaultyKeys,
                            lastGrant'[q] # Absent,
                            now' < lastGrant'[q] + resource_ttl_seconds(q)
                     PROVE  consumed'[q] # Absent /\ consumed'[q] >= lastGrant'[q]
          BY DEF GrantRemembered, resource_ttl_seconds
        <4>1. resource_ttl_seconds(q) \in Nat
          BY TtlPositive
        <4>2. now < lastGrant[q] + resource_ttl_seconds(q)
          BY <2>7, <4>1 DEF Tick, TypeOK, Absent
        <4>3. QED
          BY <2>7, <4>2 DEF Tick, GrantRemembered
      <3>3. QED
        BY <3>1, <3>2
    <2>8. CASE UNCHANGED vars
      BY <2>8 DEF vars, GrantRemembered, SingleUse, resource_ttl_seconds
    <2>9. QED
      BY <2>1, <2>2, <2>3, <2>4, <2>5, <2>6, <2>7, <2>8 DEF Next
  <1>3. QED
    BY <1>1, <1>2, TypeCorrect, PTL DEF Spec, UseInv

(* Outside the reset environments no resource is granted twice within its
   window, for every resource whose storage operations do not fail. *)
THEOREM SingleUseHolds == Spec => []SingleUse
  BY UseInvHolds, PTL DEF UseInv

-----------------------------------------------------------------------------
(* Mutual exclusion.  A live lease is the stored lock record of its name, so
   two live leases on one name carry the same token and the same expiry. *)

(* What one grant of a lock changes; a lease is new only when no unexpired
   record was read, and its token was never issued before. *)
LEMMA AcquireStep ==
    ASSUME TypeOK, NEW n \in LockNames, NEW t \in Tokens,
           NEW d \in 0..MaxRequestTtl, handle_acquire_lock(n, t, d)
    PROVE  \E until \in Nat :
             /\ now < until /\ until <= now + MaxLockTtl
             /\ t \notin issued
             /\ issued' = issued \cup {t}
             /\ lock' = [lock EXCEPT ![n] = [token |-> t, expires_at |-> until]]
             /\ n \notin FaultyKeys => lock[n] = NoLock \/ now >= lock[n].expires_at
             /\ \/ leases' = leases \cup {[name |-> n, token |-> t, until |-> until]}
                \/ n \in FaultyKeys /\ leases' = leases
             /\ UNCHANGED <<now, environment, consumed, lastGrant, regranted>>
  <1> DEFINE until == now + Earlier(d, MaxLockTtl)
  <1>1. PICK readOk \in Outcomes(n), alarmOk \in Outcomes(n) :
          LET existing == IF readOk THEN lock[n] ELSE NoLock IN
          /\ t \notin issued
          /\ d # 0
          /\ existing = NoLock \/ now >= existing.expires_at
          /\ lock' = [lock EXCEPT ![n] = [token |-> t, expires_at |-> until]]
          /\ issued' = issued \cup {t}
          /\ IF alarmOk
               THEN /\ alarm' = until + 1
                    /\ leases' = leases \cup {[name |-> n, token |-> t, until |-> until]}
               ELSE UNCHANGED <<alarm, leases>>
          /\ UNCHANGED <<now, environment, consumed, lastGrant, regranted>>
    BY DEF handle_acquire_lock
  <1>2. until \in Nat /\ now < until /\ until <= now + MaxLockTtl
    BY <1>1, ConstantsAssumption DEF Earlier, TypeOK
  <1>3. n \notin FaultyKeys => readOk = TRUE /\ alarmOk = TRUE
    BY DEF Outcomes
  <1> HIDE DEF until
  <1>4. n \notin FaultyKeys => lock[n] = NoLock \/ now >= lock[n].expires_at
    BY <1>1, <1>3
  <1>5. \/ leases' = leases \cup {[name |-> n, token |-> t, until |-> until]}
        \/ n \in FaultyKeys /\ leases' = leases
    BY <1>1, <1>3
  <1>6. QED
    BY <1>1, <1>2, <1>4, <1>5

(* Live leases stay recorded, and no lease has an unissued token. *)
THEOREM LeaseInvHolds == Spec => []LeaseInv
  <1>1. Init => LeaseInv
    BY DEF Init, LeaseInv, TypeOK, LeaseRemembered, LeaseTokensIssued, Absent
  <1>2. LeaseInv /\ TypeOK' /\ [Next]_vars => LeaseInv'
    <2> SUFFICES ASSUME LeaseInv, TypeOK', [Next]_vars
                 PROVE LeaseRemembered' /\ LeaseTokensIssued'
      BY DEF LeaseInv
    <2> USE DEF LeaseInv
    <2>1. ASSUME UNCHANGED <<now, lock, leases, issued>>
          PROVE  LeaseRemembered' /\ LeaseTokensIssued'
      BY <2>1 DEF LeaseRemembered, LeaseTokensIssued
    <2>2. ASSUME NEW r \in Resources,
                 consume_resource(r) \/ check_consumed(r) \/ reset_resource(r)
          PROVE  LeaseRemembered' /\ LeaseTokensIssued'
      BY <2>1, <2>2 DEF consume_resource, check_consumed, reset_resource
    <2>3. ASSUME NEW n \in LockNames, NEW t \in Tokens,
                 NEW d \in 0..MaxRequestTtl, handle_acquire_lock(n, t, d)
          PROVE  LeaseRemembered' /\ LeaseTokensIssued'
      <3>1. PICK until \in Nat :
             /\ issued' = issued \cup {t}
             /\ lock' = [lock EXCEPT ![n] = [token |-> t, expires_at |-> until]]
             /\ n \notin FaultyKeys => lock[n] = NoLock \/ now >= lock[n].expires_at
             /\ \/ leases' = leases \cup {[name |-> n, token |-> t, until |-> until]}
                \/ leases' = leases
             /\ now' = now
        BY <2>3, AcquireStep
      <3>2. ASSUME NEW l \in leases, l.name \notin FaultyKeys, now < l.until
            PROVE  l.name # n
        <4>1. lock[l.name] = [token |-> l.token, expires_at |-> l.until]
          BY <3>2 DEF LeaseRemembered
        <4>2. l.until \in Nat /\ l.token \in Tokens
          BY DEF TypeOK, Lease
        <4>3. lock[l.name].expires_at = l.until
          BY <4>1
        <4>4. lock[l.name] # NoLock
          BY <3>2, <4>2, <4>3 DEF NoLock, TypeOK
        <4>5. QED
          BY <3>1, <3>2, <4>2, <4>3, <4>4 DEF TypeOK
      <3>3. LeaseTokensIssued'
        BY <3>1 DEF LeaseTokensIssued
      <3>4. LeaseRemembered'
        <4> SUFFICES ASSUME NEW l \in leases', l.name \notin FaultyKeys, now < l.until
                     PROVE  lock'[l.name] = [token |-> l.token, expires_at |-> l.until]
          BY <3>1 DEF LeaseRemembered
        <4>1. CASE l \in leases
          <5>1. l.name \in LockNames
            BY <4>1 DEF TypeOK, Lease
          <5>2. QED
            BY <4>1, <5>1, <3>1, <3>2 DEF LeaseRemembered, TypeOK
        <4>2. CASE l = [name |-> n, token |-> t, until |-> until]
          BY <4>2, <3>1 DEF TypeOK
        <4>3. QED
          BY <3>1, <4>1, <4>2
      <3>5. QED
        BY <3>3, <3>4
    <2>4. ASSUME NEW n \in LockNames, NEW t \in Tokens, handle_release_lock(n, t)
          PROVE  LeaseRemembered' /\ LeaseTokensIssued'
      <3>1. /\ leases' = {l \in leases : l.name # n \/ l.token # t}
            /\ lock' = lock \/ (lock[n].token = t /\ lock' = [lock EXCEPT ![n] = NoLock])
            /\ now' = now /\ issued' = issued
        BY <2>4 DEF handle_release_lock
      <3>2. LeaseTokensIssued'
        BY <3>1 DEF LeaseTokensIssued
      <3>3. LeaseRemembered'
        <4> SUFFICES ASSUME NEW l \in leases', l.name \notin FaultyKeys, now < l.until
                     PROVE  lock'[l.name] = [token |-> l.token, expires_at |-> l.until]
          BY <3>1 DEF LeaseRemembered
        <4>1. lock[l.name] = [token |-> l.token, expires_at |-> l.until]
          BY <3>1 DEF LeaseRemembered
        <4>2. l.name \in LockNames
          BY <3>1 DEF TypeOK, Lease
        <4>3. l.name = n => lock[n].token # t
          BY <3>1, <4>1
        <4>4. QED
          BY <3>1, <4>1, <4>2, <4>3 DEF TypeOK
      <3>4. QED
        BY <3>2, <3>3
    <2>5. CASE alarm_handler
      <3>1. LeaseTokensIssued'
        BY <2>5, AlarmRemovesExpired DEF LeaseTokensIssued
      <3>2. LeaseRemembered'
        <4> SUFFICES ASSUME NEW l \in leases, l.name \notin FaultyKeys, now < l.until
                     PROVE  lock'[l.name] = [token |-> l.token, expires_at |-> l.until]
          BY <2>5, AlarmRemovesExpired DEF LeaseRemembered
        <4>1. lock[l.name] = [token |-> l.token, expires_at |-> l.until]
          BY DEF LeaseRemembered
        <4>2. l.name \in LockNames /\ l.until \in Nat
          BY DEF TypeOK, Lease
        <4>3. ~ (now >= ExpiresAt(l.name))
          BY <4>1, <4>2, ConstantsAssumption DEF ExpiresAt, TypeOK
        <4>4. QED
          BY <2>5, <4>1, <4>2, <4>3, AlarmRemovesExpired
      <3>3. QED
        BY <3>1, <3>2
    <2>6. CASE Tick
      BY <2>6 DEF Tick, LeaseRemembered, LeaseTokensIssued, TypeOK, Lease
    <2>7. CASE UNCHANGED vars
      BY <2>1, <2>7 DEF vars
    <2>8. QED
      BY <2>2, <2>3, <2>4, <2>5, <2>6, <2>7 DEF Next
  <1>3. QED
    BY <1>1, <1>2, TypeCorrect, PTL DEF Spec

(* At no time do two callers hold live leases on one name. *)
THEOREM LeaseExclusiveHolds == Spec => []LeaseExclusive
  <1>1. LeaseInv => LeaseExclusive
    <2> SUFFICES ASSUME LeaseInv, NEW l1 \in leases, NEW l2 \in leases,
                        l1.name = l2.name, l1.name \notin FaultyKeys,
                        now < l1.until, now < l2.until
                 PROVE  l1 = l2
      BY DEF LeaseExclusive
    <2>1. [token |-> l1.token, expires_at |-> l1.until]
            = [token |-> l2.token, expires_at |-> l2.until]
      BY DEF LeaseInv, LeaseRemembered
    <2>2. l1.token = l2.token /\ l1.until = l2.until
      BY <2>1
    <2>3. l1 \in Lease /\ l2 \in Lease
      BY DEF LeaseInv, TypeOK
    <2>4. QED
      BY <2>2, <2>3 DEF Lease
  <1>2. QED
    BY <1>1, LeaseInvHolds, PTL

-----------------------------------------------------------------------------
(* The refinement: storage, the alarm and clean-up are invisible to callers. *)

(* Every behaviour of the shard is a behaviour of LockService: the two
   invariants supply exactly the guards of Grant and Lend. *)
THEOREM Refinement == Spec => ImplementsLockService
  <1>1. Init => Abs!Init
    BY DEF Init, Abs!Init, Abs!Never, Absent
  <1>2. UseInv /\ LeaseInv /\ [Next]_vars => [Abs!Next]_(Abs!vars)
    <2> SUFFICES ASSUME UseInv, LeaseInv, [Next]_vars
                 PROVE  Abs!Next \/ UNCHANGED Abs!vars
      OBVIOUS
    <2>0. TypeOK
      BY DEF UseInv
    <2>1. ASSUME UNCHANGED <<now, environment, lastGrant, leases>>
          PROVE  UNCHANGED Abs!vars
      BY <2>1 DEF Abs!vars
    <2>2. ASSUME NEW r \in Resources, consume_resource(r)
          PROVE  Abs!Next \/ UNCHANGED Abs!vars
      <3>1. PICK readOk \in Outcomes(r), alarmOk \in Outcomes(r) :
              LET existing == IF readOk THEN consumed[r] ELSE Absent IN
              /\ existing = Absent \/ WindowOver(r, existing)
              /\ IF alarmOk
                   THEN lastGrant' = [lastGrant EXCEPT ![r] = now]
                   ELSE UNCHANGED lastGrant
              /\ UNCHANGED <<now, environment, leases>>
        BY <2>2 DEF consume_resource
      <3>2. CASE ~alarmOk
        BY <2>1, <3>1, <3>2
      <3>3. CASE alarmOk
        <4>1. ASSUME r \notin FaultyKeys, environment \notin ResetEnvs,
                     lastGrant[r] # Absent
              PROVE  now >= lastGrant[r] + resource_ttl_seconds(r)
          <5>1. readOk = TRUE
            BY <3>1, <4>1 DEF Outcomes
          <5>2. consumed[r] = Absent \/ WindowOver(r, consumed[r])
            BY <3>1, <5>1
          <5>3. resource_ttl_seconds(r) \in Nat
            BY TtlPositive
          <5>4. QED
            BY <2>0, <4>1, <5>2, <5>3
               DEF UseInv, GrantRemembered, WindowOver, TypeOK, Absent
        <4>2. Abs!Grant(r)
          BY <3>1, <3>3, <4>1 DEF Abs!Grant, Abs!MayGrant, Abs!Never, Absent, Keys
        <4>3. QED
          BY <4>2 DEF Abs!Next
      <3>4. QED
        BY <3>2, <3>3
    <2>3. ASSUME NEW r \in Resources, check_consumed(r) \/ reset_resource(r)
          PROVE  UNCHANGED Abs!vars
      BY <2>1, <2>3 DEF check_consumed, reset_resource
    <2>4. ASSUME NEW n \in LockNames, NEW t \in Tokens,
                 NEW d \in 0..MaxRequestTtl, handle_acquire_lock(n, t, d)
          PROVE  Abs!Next \/ UNCHANGED Abs!vars
      <3>1. PICK until \in Nat :
             /\ now < until /\ until <= now + MaxLockTtl
             /\ t \notin issued
             /\ n \notin FaultyKeys => lock[n] = NoLock \/ now >= lock[n].expires_at
             /\ \/ leases' = leases \cup {[name |-> n, token |-> t, until |-> until]}
                \/ n \in FaultyKeys /\ leases' = leases
             /\ UNCHANGED <<now, environment, lastGrant>>
        BY <2>0, <2>4, AcquireStep
      <3>2. CASE leases' = leases
        BY <2>1, <3>1, <3>2
      <3>3. CASE leases' = leases \cup {[name |-> n, token |-> t, until |-> until]}
        <4>1. ASSUME n \notin FaultyKeys, NEW l \in leases, l.name = n, ~ (now >= l.until)
              PROVE  FALSE
          <5>1. l.until \in Nat /\ now \in Nat
            BY <2>0 DEF TypeOK, Lease
          <5>2. lock[n] = [token |-> l.token, expires_at |-> l.until]
            BY <4>1, <5>1 DEF LeaseInv, LeaseRemembered
          <5>3. lock[n].expires_at = l.until
            BY <5>2
          <5>4. QED
            BY <3>1, <4>1, <5>1, <5>3 DEF NoLock
        <4>2. \A l \in leases : l.token # t
          BY <3>1 DEF LeaseInv, LeaseTokensIssued
        <4>3. Abs!Lend(n, t, until)
          BY <3>1, <3>3, <4>1, <4>2 DEF Abs!Lend, Abs!MayLend, Abs!WithLease, Keys
        <4>4. until \in now + 1 .. now + MaxLockTtl
          BY <2>0, <3>1, ConstantsAssumption DEF TypeOK
        <4>5. QED
          BY <4>3, <4>4 DEF Abs!Next
      <3>4. QED
        BY <3>1, <3>2, <3>3
    <2>5. ASSUME NEW n \in LockNames, NEW t \in Tokens, handle_release_lock(n, t)
          PROVE  Abs!Next
      <3>1. Abs!Return(n, t)
        BY <2>5 DEF handle_release_lock, Abs!Return, Abs!WithoutLease
      <3>2. QED
        BY <3>1 DEF Abs!Next
    <2>6. CASE alarm_handler
      BY <2>1, <2>6, AlarmRemovesExpired
    <2>7. CASE Tick
      <3>1. Abs!Pass
        BY <2>7 DEF Tick, Abs!Pass
      <3>2. QED
        BY <3>1 DEF Abs!Next
    <2>8. CASE UNCHANGED vars
      BY <2>1, <2>8 DEF vars
    <2>9. QED
      BY <2>2, <2>3, <2>4, <2>5, <2>6, <2>7, <2>8 DEF Next
  <1>3. QED
    BY <1>1, <1>2, UseInvHolds, LeaseInvHolds, PTL
       DEF Spec, ImplementsLockService, Abs!Spec

-----------------------------------------------------------------------------
(* Clean-up: an alarm is pending whenever something is stored. *)

(* When storage operations do not fail and the listing is not cut short, the
   alarm visits every stored key. *)
LEMMA ListsAll ==
    ASSUME IsFiniteSet(Keys), Cardinality(Keys) <= MaxListEntries
    PROVE  Listed = Stored
  <1> SUFFICES ASSUME NEW k \in Stored
               PROVE  Cardinality({j \in Stored : KeyRank[j] <= KeyRank[k]})
                        <= MaxListEntries
    BY DEF Listed
  <1> DEFINE S == {j \in Stored : KeyRank[j] <= KeyRank[k]}
  <1>1. S \subseteq Keys
    BY DEF Stored, Keys
  <1>2. Cardinality(S) <= Cardinality(Keys)
    BY <1>1, FS_Subset
  <1>3. IsFiniteSet(S)
    BY <1>1, FS_Subset
  <1>4. Cardinality(S) \in Nat /\ Cardinality(Keys) \in Nat
    BY <1>3, FS_CardinalityType
  <1> HIDE DEF S
  <1>5. Cardinality(S) <= MaxListEntries
    BY <1>2, <1>4, ConstantsAssumption
  <1>6. QED
    BY <1>5 DEF S

(* With fewer keys than the listing cap, no record with sound storage is ever
   stored without an alarm that will come to clean it up. *)
THEOREM AlarmPendingHolds ==
    ASSUME IsFiniteSet(Keys), Cardinality(Keys) <= MaxListEntries
    PROVE  Spec => []AlarmPending
  <1>1. Init => AlarmPending
    BY DEF Init, AlarmPending, Stored
  <1>2. TypeOK /\ TypeOK' /\ AlarmPending /\ [Next]_vars => AlarmPending'
    <2> SUFFICES ASSUME TypeOK, TypeOK', AlarmPending, [Next]_vars
                 PROVE  AlarmPending'
      OBVIOUS
    <2>1. ASSUME NEW r \in Resources, consume_resource(r)
          PROVE  AlarmPending'
      <3>1. CASE alarm' = now + resource_ttl_seconds(r)
        BY <3>1, TtlPositive DEF TypeOK, AlarmPending, Absent
      <3>2. CASE r \in FaultyKeys /\ alarm' = alarm
        <4>1. Stored' \ FaultyKeys \subseteq Stored \ FaultyKeys
          BY <2>1, <3>2, ConstantsAssumption DEF consume_resource, Stored, TypeOK
        <4>2. QED
          BY <3>2, <4>1 DEF AlarmPending
      <3>3. QED
        BY <2>1, <3>1, <3>2 DEF consume_resource, Outcomes
    <2>2. ASSUME NEW r \in Resources, check_consumed(r) \/ reset_resource(r)
          PROVE  AlarmPending'
      BY <2>2 DEF check_consumed, reset_resource, AlarmPending, Stored, TypeOK
    <2>3. ASSUME NEW n \in LockNames, NEW t \in Tokens,
                 NEW d \in 0..MaxRequestTtl, handle_acquire_lock(n, t, d)
          PROVE  AlarmPending'
      <3>1. CASE alarm' = now + Earlier(d, MaxLockTtl) + 1
        BY <3>1, ConstantsAssumption DEF TypeOK, Earlier, AlarmPending, Absent
      <3>2. CASE n \in FaultyKeys /\ alarm' = alarm
        <4>1. Stored' \ FaultyKeys \subseteq Stored \ FaultyKeys
          BY <2>3, <3>2, ConstantsAssumption DEF handle_acquire_lock, Stored, TypeOK
        <4>2. QED
          BY <3>2, <4>1 DEF AlarmPending
      <3>3. QED
        BY <2>3, <3>1, <3>2 DEF handle_acquire_lock, Outcomes
    <2>4. ASSUME NEW n \in LockNames, NEW t \in Tokens, handle_release_lock(n, t)
          PROVE  AlarmPending'
      BY <2>4 DEF handle_release_lock, AlarmPending, Stored, TypeOK
    <2>5. CASE alarm_handler
      <3>1. PICK failed \in SUBSET (Listed \cap FaultyKeys) :
              LET visited == Listed \ failed
                  expired == {k \in visited : now >= ExpiresAt(k)}
                  kept == visited \ expired
              IN  /\ consumed' = [r \in Resources |->
                                    IF r \in expired THEN Absent ELSE consumed[r]]
                  /\ lock' = [n \in LockNames |->
                                IF n \in expired THEN NoLock ELSE lock[n]]
                  /\ \/ kept = {}
                     \/ \E next \in kept : alarm' = ExpiresAt(next)
        BY <2>5 DEF alarm_handler
      <3>2. ASSUME NEW k \in Stored' \ FaultyKeys
            PROVE  k \in Listed \ failed /\ ~ (now >= ExpiresAt(k))
        BY <3>1, <3>2, ListsAll, ConstantsAssumption DEF Stored
      <3>3. \A k \in Listed : k \in Stored
        BY DEF Listed
      <3>4. QED
        BY <3>1, <3>2, <3>3, ExpiryType DEF AlarmPending, Absent
    <2>6. CASE Tick
      BY <2>6 DEF Tick, AlarmPending, Stored
    <2>7. CASE UNCHANGED vars
      BY <2>7 DEF vars, AlarmPending, Stored
    <2>8. QED
      BY <2>1, <2>2, <2>3, <2>4, <2>5, <2>6, <2>7 DEF Next
  <1>3. QED
    BY <1>1, <1>2, TypeCorrect, PTL DEF Spec
=============================================================================
