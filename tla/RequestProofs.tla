---------------------------- MODULE RequestProofs ----------------------------
(***************************************************************************)
(* What is checked of a request besides its credentials, for every value   *)
(* of the constants: its nonce (NonceDO, SignedRequests) and the caps it   *)
(* counts against (RateLimit).                                             *)
(***************************************************************************)
EXTENDS SignedRequests, RateLimit, FiniteSetTheorems, TLAPS

(* What storage must remember: as long as the window promised to the last
   successful caller is open, a record lasting at least as long is stored. *)
PromiseKept ==
    \A n \in Nonces :
      (promise[n] # Absent /\ now <= promise[n])
        => expires[n] # Absent /\ expires[n] >= promise[n]

(* The inductive invariant of the shard. *)
NonceInv == NonceTypeOK /\ PromiseKept /\ NoReplay

(* The nonce of an accepted request is promised for as long as a copy of the
   request may still reach the nonce check. *)
AcceptedHeld ==
    \A q \in Requests :
      accepted[q] > 0 =>
        /\ promise[NonceOf[q]] # Absent
        /\ TimestampOf[q] + Window + Processing <= promise[NonceOf[q]]

(* A delivery under way passed the timestamp check when it says it did. *)
HandlingChecked ==
    \A d \in Deliveries :
      handling[d] # Idle =>
        /\ handling[d].at <= now
        /\ handling[d].at <= TimestampOf[handling[d].request] + Window
        /\ TimestampOf[handling[d].request] <= handling[d].at + Window

(* The inductive invariant of signed requests. *)
ReqInv == NonceInv /\ ReqTypeOK /\ AcceptedHeld /\ HandlingChecked /\ AcceptedOnce

-----------------------------------------------------------------------------

(* Dropping records keeps the map well typed and adds no record. *)
LEMMA WithoutType ==
    ASSUME NEW records \in [Nonces -> Nat \cup {Absent}], NEW gone
    PROVE  /\ Without(records, gone) \in [Nonces -> Nat \cup {Absent}]
           /\ \A n \in Nonces : Without(records, gone)[n]
                                  = IF n \in gone THEN Absent ELSE records[n]
  BY DEF Without, Absent

(* A purge drops expired records only. *)
LEMMA PurgedKeeps ==
    ASSUME NEW records \in [Nonces -> Nat \cup {Absent}], NEW failed
    PROVE  /\ Purged(records, failed) \in [Nonces -> Nat \cup {Absent}]
           /\ \A n \in Nonces :
                (records[n] # Absent /\ is_valid_at(records[n]))
                  => Purged(records, failed)[n] = records[n]
  BY WithoutType DEF Purged, purge_expired_nonces, Expired

(* A step of the nonce check stores n and disturbs no valid record. *)
LEMMA CheckAndSetStep ==
    ASSUME NonceTypeOK, NEW n \in Nonces, NEW t \in Nat, NEW outcome,
           check_and_set_internal(n, t, outcome)
    PROVE  /\ expires' \in [Nonces -> Nat \cup {Absent}]
           /\ \A m \in Nonces \ {n} :
                (expires[m] # Absent /\ is_valid_at(expires[m]))
                  => expires'[m] = expires[m]
           /\ outcome = "stored" => expires'[n] = now + t
           /\ expires[n] = Absent \/ ~ is_valid_at(expires[n])
           /\ IF outcome = "stored"
                THEN /\ alarm' = now + t
                     /\ promise' = [promise EXCEPT ![n] = now + t]
                     /\ replayed' = IF promise[n] # Absent /\ now <= promise[n]
                                      THEN replayed \cup {n} ELSE replayed
                ELSE UNCHANGED <<alarm, promise, replayed>>
           /\ now' = now
  <1>1. PICK failed \in SUBSET (FaultyNonces \cap StoredIn(expires)) :
          expires' = IF outcome = "lost" THEN Purged(Without(expires, {n}), failed)
                     ELSE [Purged(Without(expires, {n}), failed) EXCEPT ![n] = now + t]
    BY DEF check_and_set_internal
  <1> DEFINE rest == Without(expires, {n})
             purged == Purged(rest, failed)
  <1>2. /\ rest \in [Nonces -> Nat \cup {Absent}]
        /\ \A m \in Nonces \ {n} : rest[m] = expires[m]
    BY WithoutType DEF NonceTypeOK
  <1> HIDE DEF rest
  <1>3. /\ purged \in [Nonces -> Nat \cup {Absent}]
        /\ \A m \in Nonces \ {n} :
             (expires[m] # Absent /\ is_valid_at(expires[m]))
               => purged[m] = expires[m]
    BY <1>2, PurgedKeeps
  <1>4. expires' = IF outcome = "lost" THEN purged
                   ELSE [purged EXCEPT ![n] = now + t]
    BY <1>1 DEF rest
  <1> HIDE DEF purged
  <1>5. now + t \in Nat
    BY DEF NonceTypeOK
  <1>6. /\ expires' \in [Nonces -> Nat \cup {Absent}]
        /\ \A m \in Nonces \ {n} :
             (expires[m] # Absent /\ is_valid_at(expires[m]))
               => expires'[m] = expires[m]
        /\ outcome = "stored" => expires'[n] = now + t
    BY <1>3, <1>4, <1>5
  <1>7. QED
    BY <1>6 DEF check_and_set_internal, Admissible

(* The nonce check preserves the shard's invariant, and when it stores n no
   promise on n was open. *)
LEMMA CheckAndSetPreserves ==
    ASSUME NonceInv, NEW n \in Nonces, NEW t \in Nat, NEW outcome,
           check_and_set_internal(n, t, outcome)
    PROVE  NonceInv' /\ ~ (promise[n] # Absent /\ now <= promise[n])
  <1> USE DEF NonceInv
  <1>1. ~ (promise[n] # Absent /\ now <= promise[n])
    BY CheckAndSetStep DEF PromiseKept, is_valid_at, NonceTypeOK, Absent
  <1>2. NoReplay'
    BY <1>1, CheckAndSetStep DEF NoReplay
  <1>3. NonceTypeOK'
    BY <1>1, CheckAndSetStep DEF NonceTypeOK
  <1>4. PromiseKept'
    <2> SUFFICES ASSUME NEW m \in Nonces, promise'[m] # Absent, now <= promise'[m]
                 PROVE  expires'[m] # Absent /\ expires'[m] >= promise'[m]
      BY CheckAndSetStep DEF PromiseKept
    <2>1. CASE m = n
      <3>1. outcome = "stored"
        BY <1>1, <2>1, CheckAndSetStep
      <3>2. QED
        BY <2>1, <3>1, CheckAndSetStep DEF NonceTypeOK, Absent
    <2>2. CASE m # n
      <3>1. promise'[m] = promise[m]
        BY <2>2, CheckAndSetStep DEF NonceTypeOK
      <3>2. expires[m] # Absent /\ expires[m] >= promise[m]
        BY <3>1 DEF PromiseKept
      <3>3. is_valid_at(expires[m])
        BY <3>1, <3>2 DEF is_valid_at, NonceTypeOK, Absent
      <3>4. QED
        BY <2>2, <3>1, <3>2, <3>3, CheckAndSetStep
    <2>3. QED
      BY <2>1, <2>2
  <1>5. QED
    BY <1>1, <1>2, <1>3, <1>4

(* Every step of the shard preserves its invariant and never lowers a promise. *)
LEMMA NonceStep ==
    ASSUME NonceInv, [NonceNext]_nonceVars
    PROVE  /\ NonceInv'
           /\ \A n \in Nonces : promise[n] # Absent =>
                promise'[n] # Absent /\ promise[n] <= promise'[n]
           /\ now' >= now
  <1> USE DEF NonceInv
  <1>1. CASE Request
    <2>1. PICK n \in Nonces, t \in 0..MaxRequestTtl :
            \E outcome \in Outcomes(n) : check_and_set_internal(n, t, outcome)
      BY <1>1 DEF Request
    <2>2. t \in Nat
      BY NonceAssumption
    <2>3. NonceInv' /\ ~ (promise[n] # Absent /\ now <= promise[n])
      BY <2>1, <2>2, CheckAndSetPreserves
    <2>4. QED
      BY <2>1, <2>2, <2>3, CheckAndSetStep DEF NonceTypeOK, Absent
  <1>2. CASE alarm_handler
    <2>1. PICK failed \in SUBSET (ScannedIn(expires) \cap FaultyNonces) :
            LET kept == (ScannedIn(expires) \ failed) \ Expired(expires, failed) IN
            /\ expires' = Without(expires, Expired(expires, failed))
            /\ \/ kept = {} /\ alarm' = Absent
               \/ \E n \in kept :
                    /\ \A m \in kept : expires[n] <= expires[m]
                    /\ alarm' = IF expires[n] = now THEN now + 1 ELSE expires[n]
      BY <1>2 DEF alarm_handler
    <2>2. UNCHANGED <<now, promise, replayed>>
      BY <1>2 DEF alarm_handler
    <2>3. /\ expires' \in [Nonces -> Nat \cup {Absent}]
          /\ \A n \in Nonces : (expires[n] # Absent /\ is_valid_at(expires[n]))
                                 => expires'[n] = expires[n]
      BY <2>1, WithoutType DEF NonceTypeOK, Expired
    <2>4. alarm' \in Nat \cup {Absent}
      <3>1. \A n \in ScannedIn(expires) : expires[n] \in Nat
        BY DEF NonceTypeOK, ScannedIn, StoredIn
      <3>2. now + 1 \in Nat
        BY DEF NonceTypeOK
      <3>3. QED
        BY <2>1, <3>1, <3>2
    <2>5. PromiseKept'
      BY <2>2, <2>3 DEF PromiseKept, is_valid_at, NonceTypeOK, Absent
    <2>6. QED
      BY <2>2, <2>3, <2>4, <2>5 DEF NonceTypeOK, NoReplay, Absent
  <1>3. CASE Tick
    BY <1>3 DEF Tick, NonceTypeOK, PromiseKept, NoReplay, Absent
  <1>4. CASE UNCHANGED nonceVars
    BY <1>4 DEF nonceVars, NonceTypeOK, PromiseKept, NoReplay, Absent
  <1>5. QED
    BY <1>1, <1>2, <1>3, <1>4 DEF NonceNext

(* A nonce is never stored twice within the window promised for it. *)
THEOREM NoReplayHolds == NonceSpec => []NoReplay
  <1>1. NonceInit => NonceInv
    BY DEF NonceInit, NonceInv, NonceTypeOK, PromiseKept, NoReplay, Absent
  <1>2. NonceInv /\ [NonceNext]_nonceVars => NonceInv'
    BY NonceStep
  <1>3. NonceInv => NoReplay
    BY DEF NonceInv
  <1>4. QED
    BY <1>1, <1>2, <1>3, PTL DEF NonceSpec

-----------------------------------------------------------------------------
(* The alarm.  A shard that holds no more nonces than MAX_NONCE_CAPACITY is
   scanned whole, so an alarm either finds no sound record that is left or
   sets the next one. *)

WithinCapacity == IsFiniteSet(Nonces) /\ Cardinality(Nonces) <= MaxNonceCapacity

LEMMA ScansAll ==
    ASSUME WithinCapacity
    PROVE  ScannedIn(expires) = StoredIn(expires)
  <1> SUFFICES ASSUME NEW n \in StoredIn(expires)
               PROVE  Cardinality({m \in StoredIn(expires) : KeyRank[m] <= KeyRank[n]})
                        <= MaxNonceCapacity
    BY DEF ScannedIn
  <1> DEFINE S == {m \in StoredIn(expires) : KeyRank[m] <= KeyRank[n]}
  <1>1. S \subseteq Nonces
    BY DEF StoredIn
  <1>2. IsFiniteSet(S) /\ Cardinality(S) <= Cardinality(Nonces)
    BY <1>1, FS_Subset DEF WithinCapacity
  <1>3. Cardinality(S) \in Nat /\ Cardinality(Nonces) \in Nat
    BY <1>2, FS_CardinalityType DEF WithinCapacity
  <1> HIDE DEF S
  <1>4. Cardinality(S) <= MaxNonceCapacity
    BY <1>2, <1>3, NonceAssumption DEF WithinCapacity
  <1>5. QED
    BY <1>4 DEF S

(* A purge adds no record. *)
LEMMA PurgedAddsNone ==
    ASSUME NEW records \in [Nonces -> Nat \cup {Absent}], NEW failed, NEW m \in Nonces,
           Purged(records, failed)[m] # Absent
    PROVE  records[m] # Absent
  BY WithoutType DEF Purged, purge_expired_nonces

(* Storing a nonce with sound storage sets the alarm; one with faulty storage
   adds no sound record, and an alarm that is set stays set. *)
LEMMA CheckAndSetAlarm ==
    ASSUME NonceInv, NonceAlarmPending, NEW n \in Nonces, NEW t \in Nat,
           NEW outcome, check_and_set_internal(n, t, outcome)
    PROVE  NonceAlarmPending'
  <1>1. CASE outcome = "stored"
    BY <1>1 DEF check_and_set_internal, NonceAlarmPending, NonceInv, NonceTypeOK, Absent
  <1>2. CASE outcome # "stored"
    <2>1. n \in FaultyNonces /\ alarm' = alarm
      BY <1>2 DEF check_and_set_internal, Outcomes
    <2> SUFFICES ASSUME NEW m \in Nonces \ FaultyNonces, expires'[m] # Absent
                 PROVE  expires[m] # Absent
      BY <2>1 DEF NonceAlarmPending, StoredIn
    <2>2. PICK failed : expires' = IF outcome = "lost" THEN Purged(Without(expires, {n}), failed)
                                   ELSE [Purged(Without(expires, {n}), failed) EXCEPT ![n] = now + t]
      BY DEF check_and_set_internal
    <2>3. /\ Without(expires, {n}) \in [Nonces -> Nat \cup {Absent}]
          /\ Without(expires, {n})[m] = expires[m]
      BY <2>1, WithoutType DEF NonceInv, NonceTypeOK
    <2>4. Purged(Without(expires, {n}), failed) \in [Nonces -> Nat \cup {Absent}]
      BY <2>3, PurgedKeeps
    <2>5. Purged(Without(expires, {n}), failed)[m] # Absent
      BY <2>1, <2>2, <2>4
    <2>6. QED
      BY <2>3, <2>5, PurgedAddsNone
  <1>3. QED
    BY <1>1, <1>2

(* In a shard that stays within its capacity, no nonce with sound storage is
   left without an alarm that will come and delete it, whatever storage
   operations on the other nonces fail. *)
THEOREM NonceAlarmPendingHolds ==
    ASSUME WithinCapacity
    PROVE  NonceSpec => []NonceAlarmPending
  <1>1. NonceInit => NonceInv /\ NonceAlarmPending
    BY DEF NonceInit, NonceInv, NonceTypeOK, PromiseKept, NoReplay, NonceAlarmPending,
           StoredIn, Absent
  <1>2. NonceInv /\ NonceAlarmPending /\ [NonceNext]_nonceVars => NonceInv' /\ NonceAlarmPending'
    <2> SUFFICES ASSUME NonceInv, NonceAlarmPending, [NonceNext]_nonceVars
                 PROVE  NonceAlarmPending'
      BY NonceStep
    <2>1. CASE Request
      <3>1. PICK n \in Nonces, t \in 0..MaxRequestTtl :
              \E outcome \in Outcomes(n) : check_and_set_internal(n, t, outcome)
        BY <2>1 DEF Request
      <3>2. t \in Nat
        BY NonceAssumption
      <3>3. QED
        BY <3>1, <3>2, CheckAndSetAlarm
    <2>2. CASE alarm_handler
      <3>1. PICK failed \in SUBSET (ScannedIn(expires) \cap FaultyNonces) :
              LET kept == (ScannedIn(expires) \ failed) \ Expired(expires, failed) IN
              /\ expires' = Without(expires, Expired(expires, failed))
              /\ \/ kept = {} /\ alarm' = Absent
                 \/ \E n \in kept :
                      /\ \A m \in kept : expires[n] <= expires[m]
                      /\ alarm' = IF expires[n] = now THEN now + 1 ELSE expires[n]
        BY <2>2 DEF alarm_handler
      <3> DEFINE kept == (ScannedIn(expires) \ failed) \ Expired(expires, failed)
      <3>2. ASSUME NEW m \in Nonces \ FaultyNonces, expires'[m] # Absent
            PROVE  m \in kept
        <4>1. m \notin Expired(expires, failed) /\ expires[m] # Absent
          BY <3>1, <3>2, WithoutType DEF NonceInv, NonceTypeOK
        <4>2. m \in StoredIn(expires) /\ m \notin failed
          BY <3>1, <3>2, <4>1 DEF StoredIn
        <4>3. QED
          BY <4>1, <4>2, ScansAll
      <3>3. ASSUME NEW n \in kept PROVE expires[n] # Absent /\ now + 1 # Absent
        BY DEF ScannedIn, StoredIn, NonceInv, NonceTypeOK, Absent
      <3>4. kept # {} => alarm' # Absent
        BY <3>1, <3>3
      <3>5. QED
        BY <3>2, <3>4 DEF NonceAlarmPending, StoredIn
    <2>3. CASE Tick
      BY <2>3 DEF Tick, NonceAlarmPending, StoredIn
    <2>4. CASE UNCHANGED nonceVars
      BY <2>4 DEF nonceVars, NonceAlarmPending, StoredIn
    <2>5. QED
      BY <2>1, <2>2, <2>3, <2>4 DEF NonceNext
  <1>3. QED
    BY <1>1, <1>2, PTL DEF NonceSpec

-----------------------------------------------------------------------------
(* Signed requests.  A copy that reaches the nonce check does so no later than
   timestamp + Window + Processing, and the first acceptance, no earlier than
   timestamp - Window, promised the nonce beyond that. *)

(* A signed request is accepted at most once. *)
THEOREM AcceptedOnceHolds == ReqSpec => []AcceptedOnce
  <1>1. ReqInit => ReqInv
    BY DEF ReqInit, NonceInit, ReqInv, NonceInv, NonceTypeOK, PromiseKept, NoReplay,
           ReqTypeOK, AcceptedHeld, HandlingChecked, AcceptedOnce, Absent
  <1>2. ReqInv /\ [ReqNext]_reqVars => ReqInv'
    <2> SUFFICES ASSUME ReqInv, [ReqNext]_reqVars PROVE ReqInv'
      OBVIOUS
    <2> USE DEF ReqInv
    <2>1. ASSUME UNCHANGED <<now, expires, alarm, promise, replayed>> PROVE NonceInv'
      <3>1. UNCHANGED nonceVars
        BY <2>1 DEF nonceVars
      <3>2. QED
        BY <3>1, NonceStep
    <2>2. ASSUME NEW d \in Deliveries, NEW q \in Requests, Receive(d, q)
          PROVE  ReqInv'
      <3>1. NonceInv'
        BY <2>1, <2>2 DEF Receive
      <3>2. ReqTypeOK' /\ AcceptedHeld' /\ AcceptedOnce'
        BY <2>2, <3>1 DEF Receive, ReqTypeOK, NonceInv, NonceTypeOK, Handling,
                          AcceptedHeld, AcceptedOnce
      <3>3. HandlingChecked'
        <4> SUFFICES ASSUME NEW e \in Deliveries, handling'[e] # Idle
                     PROVE  /\ handling'[e].at <= now
                            /\ handling'[e].at <= TimestampOf[handling'[e].request] + Window
                            /\ TimestampOf[handling'[e].request] <= handling'[e].at + Window
          BY <2>2 DEF HandlingChecked, Receive
        <4>1. CASE e = d
          <5>1. handling'[e] = [at |-> now, request |-> q]
            BY <2>2, <4>1 DEF Receive, ReqTypeOK
          <5>2. QED
            BY <2>2, <5>1 DEF Receive, validate_timestamp, NonceInv, NonceTypeOK
        <4>2. CASE e # d
          BY <2>2, <4>2 DEF Receive, HandlingChecked, ReqTypeOK
        <4>3. QED
          BY <4>1, <4>2
      <3>4. QED
        BY <3>1, <3>2, <3>3
    <2>3. ASSUME NEW d \in Deliveries, validate_and_consume_nonce(d)
          PROVE  ReqInv'
      <3> DEFINE q == handling[d].request
                 n == NonceOf[q]
      <3>1. handling[d] \in Handling
        BY <2>3 DEF validate_and_consume_nonce, InTime, ReqTypeOK
      <3>2. /\ q \in Requests /\ n \in Nonces
            /\ handling[d].at \in Nat
            /\ TimestampOf[q] \in Nat
        BY <3>1, ReplayAssumption DEF Handling
      <3>3. /\ handling[d].at <= now
            /\ handling[d].at <= TimestampOf[q] + Window
            /\ TimestampOf[q] <= handling[d].at + Window
            /\ now <= handling[d].at + Processing
        BY <2>3 DEF validate_and_consume_nonce, InTime, HandlingChecked
      <3>4. /\ handling' = [handling EXCEPT ![d] = Idle]
            /\ \E o \in Outcomes(n) :
                 /\ check_and_set_internal(n, NonceTtl, o)
                 /\ accepted' = IF o = "stored"
                                  THEN [accepted EXCEPT ![q] = @ + 1] ELSE accepted
        BY <2>3 DEF validate_and_consume_nonce
      <3> HIDE DEF q, n
      <3>5. PICK outcome \in Outcomes(n) :
              /\ check_and_set_internal(n, NonceTtl, outcome)
              /\ accepted' = IF outcome = "stored"
                               THEN [accepted EXCEPT ![q] = @ + 1] ELSE accepted
        BY <3>4
      <3>6. /\ NonceInv'
            /\ ~ (promise[n] # Absent /\ now <= promise[n])
            /\ now' = now
            /\ promise' = IF outcome = "stored" THEN [promise EXCEPT ![n] = now + NonceTtl]
                                               ELSE promise
        BY <3>2, <3>5, CheckAndSetPreserves, CheckAndSetStep, ReplayAssumption DEF NonceInv
      <3>7. now \in Nat /\ promise \in [Nonces -> Nat \cup {Absent}]
        BY DEF NonceInv, NonceTypeOK
      <3>8. accepted[q] = 0
        <4>1. now <= TimestampOf[q] + Window + Processing
          BY <3>2, <3>3, <3>7, ReplayAssumption
        <4>2. ~ (accepted[q] > 0)
          BY <3>2, <3>6, <3>7, <4>1, ReplayAssumption DEF AcceptedHeld, n, Absent
        <4>3. QED
          BY <3>2, <4>2 DEF ReqTypeOK
      <3>9. ReqTypeOK' /\ AcceptedOnce'
        BY <3>2, <3>4, <3>5, <3>6, <3>8 DEF ReqTypeOK, NonceInv, AcceptedOnce
      <3>10. HandlingChecked'
        BY <3>4, <3>6 DEF HandlingChecked, ReqTypeOK
      <3>11. AcceptedHeld'
        <4> SUFFICES ASSUME NEW p \in Requests, accepted'[p] > 0
                     PROVE  /\ promise'[NonceOf[p]] # Absent
                            /\ TimestampOf[p] + Window + Processing <= promise'[NonceOf[p]]
          BY DEF AcceptedHeld
        <4>1. NonceOf[p] \in Nonces /\ TimestampOf[p] \in Nat
          BY ReplayAssumption
        <4>2. CASE outcome = "stored" /\ p = q
          <5>1. promise'[NonceOf[p]] = now + NonceTtl
            BY <3>2, <3>6, <3>7, <4>2 DEF n
          <5>2. QED
            BY <3>2, <3>3, <3>7, <4>1, <4>2, <5>1, ReplayAssumption DEF Absent
        <4>3. CASE outcome = "stored" /\ p # q
          <5>1. accepted[p] > 0
            BY <3>5, <4>3 DEF ReqTypeOK
          <5>2. /\ promise[NonceOf[p]] # Absent
                /\ TimestampOf[p] + Window + Processing <= promise[NonceOf[p]]
            BY <5>1 DEF AcceptedHeld
          <5>3. CASE NonceOf[p] = n
            <6>1. promise'[n] = now + NonceTtl /\ promise[n] < now
              BY <3>2, <3>6, <3>7, <4>3, <5>2, <5>3 DEF Absent
            <6>2. QED
              BY <3>7, <4>1, <5>2, <5>3, <6>1, ReplayAssumption DEF Absent
          <5>4. CASE NonceOf[p] # n
            BY <3>6, <3>7, <4>1, <4>3, <5>2, <5>4
          <5>5. QED
            BY <5>3, <5>4
        <4>4. CASE outcome # "stored"
          BY <3>5, <3>6, <4>4 DEF AcceptedHeld
        <4>5. QED
          BY <4>2, <4>3, <4>4
      <3>12. QED
        BY <3>6, <3>9, <3>10, <3>11
    <2>4. ASSUME NEW d \in Deliveries, Refuse(d) PROVE ReqInv'
      <3>1. NonceInv'
        BY <2>1, <2>4 DEF Refuse
      <3>2. QED
        BY <2>4, <3>1 DEF Refuse, ReqTypeOK, NonceInv, AcceptedHeld, HandlingChecked,
                          AcceptedOnce
    <2>5. CASE Shard
      <3>1. /\ NonceInv' /\ now' >= now
            /\ \A m \in Nonces : promise[m] # Absent =>
                 promise'[m] # Absent /\ promise[m] <= promise'[m]
            /\ UNCHANGED <<handling, accepted>>
        BY <2>5, NonceStep DEF Shard
      <3>2. ReqTypeOK' /\ AcceptedOnce'
        BY <3>1 DEF ReqTypeOK, NonceInv, AcceptedOnce
      <3>3. HandlingChecked'
        BY <3>1 DEF HandlingChecked, NonceInv, NonceTypeOK, ReqTypeOK, Handling
      <3>4. AcceptedHeld'
        BY <3>1, ReplayAssumption DEF AcceptedHeld, NonceInv, NonceTypeOK, Absent
      <3>5. QED
        BY <3>1, <3>2, <3>3, <3>4
    <2>6. CASE UNCHANGED reqVars
      <3>1. NonceInv'
        BY <2>1, <2>6 DEF reqVars
      <3>2. QED
        BY <2>6, <3>1 DEF reqVars, ReqTypeOK, NonceInv, AcceptedHeld, HandlingChecked,
                          AcceptedOnce
    <2>7. QED
      BY <2>2, <2>3, <2>4, <2>5, <2>6 DEF ReqNext
  <1>3. ReqInv => AcceptedOnce
    BY DEF ReqInv
  <1>4. QED
    BY <1>1, <1>2, <1>3, PTL DEF ReqSpec

-----------------------------------------------------------------------------
(* RateLimit, for every number of requests, shards, isolates, hours and tiers. *)

(* The stages a request of each kind goes through, and what it has in hand. *)
StageInv ==
    /\ \A q \in Calls :
         /\ pc[q] \in {"tier", "limits"} => kind = "quota" /\ in[q] \in Isolates
         /\ pc[q] = "limits" => at[q] \in Tiers
         /\ pc[q] = "sum" => kind = "sharded"
         /\ pc[q] = "idle" => at[q] = 0 /\ sum[q] = 0
         /\ pc[q] \in {"idle", "sum"} => at[q] \in Shards
         /\ warned[q] => kind = "tripwire" /\ q \in Admitted
         /\ kind \in {"plain", "tripwire"} => target[q] = 0
         /\ kind # "quota" => cap[q] = Limit

RateTypeInv == RateTypeOK /\ StageInv

(* The requests that were counted: on a key, and on the shards below one. *)
Counted == {q \in Calls : pc[q] = "counted"}
CountedOn(k) == {q \in Counted : target[q] = k}
CountedBelow(k) == {q \in Counted : target[q] < k}

(* No count exceeds the requests counted, wherever it was read. *)
NeverAbove ==
    /\ \A k \in Keys : kv[k] <= Cardinality(CountedOn(k))
    /\ \A q \in Calls :
         /\ pc[q] = "put" => seen[q] <= Cardinality(CountedOn(target[q]))
         /\ pc[q] = "sum" => sum[q] <= Cardinality(CountedBelow(at[q]))

(* A count is below the requests counted by no more than those wiped out,
   missed since it was read, or met while the shards are read. *)
NeverFarBelow ==
    /\ \A k \in Keys : Cardinality(CountedOn(k) \ overwritten) <= kv[k]
    /\ \A q \in Calls :
         /\ pc[q] = "put" =>
              Cardinality(CountedOn(target[q]) \ (overwritten \cup missed[q])) <= seen[q]
         /\ pc[q] = "sum" =>
              /\ Cardinality(CountedBelow(at[q]) \ (overwritten \cup met[q])) <= sum[q]
              /\ InFlight \ {q} \subseteq met[q]

(* The shard a request is counted on is one of the shards. *)
LEMMA ShardInRange ==
  ASSUME RateTypeInv, NEW i \in Isolates
  PROVE  next_blind_shard(i) \in Shards
<1>1. cursor[i] \in Nat
  BY DEF RateTypeInv, RateTypeOK
<1>2. ShardCount \in Nat /\ ShardCount > 0
  BY RateLimitAssumption
<1>3. cursor[i] % ShardCount \in 0 .. ShardCount - 1
  BY <1>1, <1>2
<1>4. QED
  BY <1>3 DEF next_blind_shard, Shards

(* One step of a rate limiter keeps the types. *)
LEMMA RateTypeStep == RateTypeInv /\ [RateNext]_rateVars => RateTypeInv'
<1> SUFFICES ASSUME RateTypeInv, [RateNext]_rateVars PROVE RateTypeInv'
  OBVIOUS
<1> USE RateLimitAssumption DEF RateTypeInv
<1>0. 0 \in Shards /\ 0 \in Hours
  BY DEF Shards, Hours
<1>1. CASE UNCHANGED rateVars
  BY <1>1 DEF rateVars, tierVars, RateTypeOK, StageInv, Admitted
<1>2. ASSUME NEW q \in Calls, get_customer_limit(q) PROVE RateTypeInv'
  <2> USE <1>2 DEF get_customer_limit, Goto
  <2>1. PICK i \in Isolates :
           \/ /\ tierCache[i] # NotCached
              /\ cap' = [cap EXCEPT ![q] = tierCache[i].limit]
              /\ pc' = [pc EXCEPT ![q] = "count"]
              /\ UNCHANGED in
           \/ /\ in' = [in EXCEPT ![q] = i]
              /\ pc' = [pc EXCEPT ![q] = "tier"]
              /\ UNCHANGED cap
    OBVIOUS
  <2>2. tierCache[i] # NotCached => tierCache[i].limit \in Tiers \cup {Limit}
    BY DEF RateTypeOK
  <2>3. RateTypeOK'
    BY <2>1, <2>2 DEF RateTypeOK, Stages
  <2>4. StageInv'
    BY <2>1 DEF RateTypeOK, StageInv, Admitted
  <2>5. QED
    BY <2>3, <2>4
<1>3. ASSUME NEW q \in Calls, read_client(q) PROVE RateTypeInv'
  <2> USE <1>3 DEF read_client, Goto, tierVars
  <2>1. RateTypeOK'
    BY DEF RateTypeOK, Stages, NoTier
  <2>2. StageInv'
    BY DEF RateTypeOK, StageInv, Admitted, NoTier
  <2>3. QED
    BY <2>1, <2>2
<1>4. ASSUME NEW q \in Calls, read_tier(q) PROVE RateTypeInv'
  <2> USE <1>4 DEF read_tier, Goto
  <2>1. PICK limit \in {at[q]} \cup {Limit} :
           /\ cap' = [cap EXCEPT ![q] = limit]
           /\ tierCache' = [tierCache EXCEPT ![in[q]] = [limit |-> limit, hour |-> target[q]]]
    OBVIOUS
  <2>2. limit \in Tiers \cup {Limit} /\ in[q] \in Isolates /\ target[q] \in Hours /\ kind = "quota"
    BY <2>1 DEF RateTypeOK, StageInv
  <2>3. RateTypeOK'
    BY <2>1, <2>2 DEF RateTypeOK, Stages
  <2>4. StageInv'
    BY <2>1, <2>2 DEF RateTypeOK, StageInv, Admitted
  <2>5. QED
    BY <2>3, <2>4
<1>5. ASSUME NEW q \in Calls, check_blind_issuance_sharded(q) PROVE RateTypeInv'
  <2> USE <1>5, <1>0
  <2>1. /\ kind = "sharded" /\ pc[q] \in {"idle", "sum"}
        /\ UNCHANGED <<kind, tierVars, kv, seen, warned, missed, overwritten>>
        /\ met' \in [Calls -> SUBSET Calls]
    BY DEF check_blind_issuance_sharded, Meet, InFlight, RateTypeOK
  <2>2. at[q] \in Shards /\ kv[at[q]] \in Nat /\ sum[q] \in Nat /\ at[q] \in Nat
    BY <2>1 DEF RateTypeOK, StageInv, Keys, Shards
  <2>3. CASE pc' = [pc EXCEPT ![q] = "failed"] /\ UNCHANGED <<cursor, at, sum, target>>
    <3>1. RateTypeOK'
      BY <2>1, <2>3 DEF RateTypeOK, Stages, tierVars
    <3>2. StageInv'
      BY <2>1, <2>3 DEF RateTypeOK, StageInv, Admitted, tierVars
    <3>3. QED
      BY <3>1, <3>2
  <2>4. CASE /\ sum' = [sum EXCEPT ![q] = sum[q] + kv[at[q]]]
             /\ at' = [at EXCEPT ![q] = at[q] + 1]
             /\ \/ at[q] + 1 < ShardCount /\ pc' = [pc EXCEPT ![q] = "sum"]
                \/ pc' = [pc EXCEPT ![q] = "refused"]
             /\ UNCHANGED <<cursor, target>>
    <3>1. RateTypeOK'
      BY <2>1, <2>2, <2>4 DEF RateTypeOK, Stages, tierVars
    <3>2. pc'[q] = "sum" => at'[q] \in Shards
      BY <2>2, <2>4 DEF Shards, RateTypeOK
    <3>3. StageInv'
      BY <2>1, <2>2, <2>4, <3>2 DEF RateTypeOK, StageInv, Admitted, tierVars
    <3>4. QED
      BY <3>1, <3>3
  <2>5. CASE /\ sum' = [sum EXCEPT ![q] = sum[q] + kv[at[q]]]
             /\ at' = [at EXCEPT ![q] = at[q] + 1]
             /\ pc' = [pc EXCEPT ![q] = "count"]
             /\ \E i \in Isolates :
                  /\ target' = [target EXCEPT ![q] = next_blind_shard(i)]
                  /\ cursor' = [cursor EXCEPT ![i] = @ + 1]
    <3>1. PICK i \in Isolates :
                  /\ target' = [target EXCEPT ![q] = next_blind_shard(i)]
                  /\ cursor' = [cursor EXCEPT ![i] = cursor[i] + 1]
      BY <2>5
    <3>2. next_blind_shard(i) \in Shards
      BY ShardInRange
    <3>3. RateTypeOK'
      BY <2>1, <2>2, <2>5, <3>1, <3>2 DEF RateTypeOK, Stages, tierVars
    <3>4. StageInv'
      BY <2>1, <2>2, <2>5, <3>1, <3>2 DEF RateTypeOK, StageInv, Admitted, tierVars
    <3>5. QED
      BY <3>3, <3>4
  <2>6. QED
    BY <2>3, <2>4, <2>5 DEF check_blind_issuance_sharded, Goto
<1>6. ASSUME NEW q \in Calls, check_kv_counter(q) PROVE RateTypeInv'
  <2> USE <1>6
  <2>1. /\ pc[q] \in {"idle", "count"}
        /\ \/ pc' = [pc EXCEPT ![q] = IF kind = "sharded" THEN "uncounted" ELSE "failed"] /\ UNCHANGED seen
           \/ kind # "sharded" /\ pc' = [pc EXCEPT ![q] = "refused"] /\ UNCHANGED seen
           \/ seen' = [seen EXCEPT ![q] = kv[target[q]]] /\ pc' = [pc EXCEPT ![q] = "put"]
        /\ UNCHANGED <<kind, tierVars, kv, cursor, at, sum, target, warned, missed, overwritten>>
        /\ kind # "tripwire"
    BY DEF check_kv_counter, Goto
  <2>2. met' \in [Calls -> SUBSET Calls]
    BY DEF check_kv_counter, Meet, InFlight, RateTypeOK
  <2>3. kv[target[q]] \in Nat
    BY DEF RateTypeOK, Keys
  <2>4. RateTypeOK'
    BY <2>1, <2>2, <2>3 DEF RateTypeOK, Stages, tierVars
  <2>5. StageInv'
    BY <2>1 DEF RateTypeOK, StageInv, Admitted, tierVars
  <2>6. QED
    BY <2>4, <2>5
<1>7. ASSUME NEW q \in Calls, check_attestation_nonce_rate(q) PROVE RateTypeInv'
  <2> USE <1>7 DEF check_attestation_nonce_rate, Goto, tierVars
  <2>1. kv[target[q]] \in Nat
    BY DEF RateTypeOK, Keys
  <2>2. nonce_over_limit(kv[target[q]] + 1) \in BOOLEAN
    BY DEF nonce_over_limit
  <2>3. RateTypeOK'
    BY <2>1, <2>2 DEF RateTypeOK, Stages
  <2>4. StageInv'
    BY DEF RateTypeOK, StageInv, Admitted
  <2>5. QED
    BY <2>3, <2>4
<1>8. ASSUME NEW q \in Calls, put_counter(q) PROVE RateTypeInv'
  <2> USE <1>8 DEF put_counter, Goto, tierVars
  <2>1. seen[q] + 1 \in Nat /\ target[q] \in Keys
    BY DEF RateTypeOK, Keys
  <2>2. RateTypeOK'
    BY <2>1 DEF RateTypeOK, Stages
  <2>3. StageInv'
    BY DEF RateTypeOK, StageInv, Admitted
  <2>4. QED
    BY <2>2, <2>3
<1>9. ASSUME NEW t \in Tiers \cup {NoTier}, set_tier(t) PROVE RateTypeInv'
  <2> USE <1>9 DEF set_tier
  <2>1. RateTypeOK'
    BY DEF RateTypeOK
  <2>2. StageInv'
    BY DEF StageInv, Admitted
  <2>3. QED
    BY <2>1, <2>2
<1>10. ASSUME next_hour PROVE RateTypeInv'
  <2> USE <1>10 DEF next_hour
  <2>1. hour + 1 \in Hours
    BY DEF RateTypeOK, Hours
  <2>2. RateTypeOK'
    BY <2>1 DEF RateTypeOK
  <2>3. StageInv'
    BY DEF StageInv, Admitted
  <2>4. QED
    BY <2>2, <2>3
<1>11. QED
  BY <1>1, <1>2, <1>3, <1>4, <1>5, <1>6, <1>7, <1>8, <1>9, <1>10 DEF RateNext

(* The types hold at the start. *)
LEMMA RateTypeInit == RateInit => RateTypeInv
<1> SUFFICES ASSUME RateInit PROVE RateTypeInv
  OBVIOUS
<1> USE RateLimitAssumption DEF RateInit
<1>1. 0 \in Shards /\ 0 \in Hours
  BY DEF Shards, Hours
<1>2. RateTypeOK
  BY <1>1 DEF RateTypeOK, Stages, NoTier
<1>3. StageInv
  BY <1>1 DEF StageInv, Admitted
<1>4. QED
  BY <1>2, <1>3 DEF RateTypeInv

(* Type correctness of the rate limiter. *)
THEOREM RateLimitTypeCorrect == RateSpec => []RateTypeOK
<1>1. RateTypeInv => RateTypeOK
  BY DEF RateTypeInv
<1>2. QED
  BY <1>1, RateTypeInit, RateTypeStep, PTL DEF RateSpec

-----------------------------------------------------------------------------
(* Sets of requests are finite: how their sizes compare. *)

(* Each is finite. *)
LEMMA CallsFinite ==
  ASSUME NEW S \in SUBSET Calls
  PROVE  IsFiniteSet(S) /\ Cardinality(S) \in Nat
BY FS_Subset, FS_CardinalityType, RateLimitAssumption

(* A part is no larger than the whole. *)
LEMMA CallsSubset ==
  ASSUME NEW T \in SUBSET Calls, NEW S \in SUBSET T
  PROVE  Cardinality(S) <= Cardinality(T)
BY CallsFinite, FS_Subset

(* One more request makes one more. *)
LEMMA CallsAdd ==
  ASSUME NEW S \in SUBSET Calls, NEW q \in Calls, q \notin S
  PROVE  Cardinality(S \cup {q}) = Cardinality(S) + 1
BY CallsFinite, FS_AddElement

(* A union is no larger than its parts together, and as large if they are disjoint. *)
LEMMA CallsUnion ==
  ASSUME NEW S \in SUBSET Calls, NEW T \in SUBSET Calls
  PROVE  /\ Cardinality(S \cup T) <= Cardinality(S) + Cardinality(T)
         /\ S \cap T = {} => Cardinality(S \cup T) = Cardinality(S) + Cardinality(T)
<1>1. IsFiniteSet(S) /\ IsFiniteSet(T) /\ Cardinality(S \cap T) \in Nat
  BY CallsFinite
<1>2. Cardinality(S \cup T) = Cardinality(S) + Cardinality(T) - Cardinality(S \cap T)
  BY <1>1, FS_Union
<1>3. Cardinality(S) \in Nat /\ Cardinality(T) \in Nat
  BY CallsFinite
<1>4. S \cap T = {} => Cardinality(S \cap T) = 0
  BY FS_EmptySet
<1>5. QED
  BY <1>1, <1>2, <1>3, <1>4

-----------------------------------------------------------------------------
(* What a step does to the counters. *)

(* The increment of q lands. *)
Lands(q) ==
    /\ pc[q] = "put"
    /\ Counted' = Counted \cup {q} /\ q \notin Counted
    /\ kv' = [kv EXCEPT ![target[q]] = seen[q] + 1]
    /\ overwritten' = overwritten \cup missed[q]
    /\ \A r \in Calls : r # q /\ pc[r] = "put" /\ target[r] = target[q] => missed'[r] = missed[r] \cup {q}
    /\ \A r \in Calls : missed[r] \subseteq missed'[r]
    /\ UNCHANGED <<kind, target, met, cap>>

(* No counter changes. *)
Quiet ==
    /\ UNCHANGED <<kv, overwritten, missed, kind>>
    /\ Counted' = Counted
    /\ \A r \in Calls : r \in Counted => target'[r] = target[r]

(* A request that is about to write read its key before, or in this step. *)
ReadsKey(r) ==
    /\ target'[r] = target[r]
    /\ \/ pc[r] = "put" /\ seen'[r] = seen[r]
       \/ Quiet /\ seen'[r] = kv[target[r]]

(* A request that sums the shards waits, or reads the next one. *)
ReadsShard(r) ==
    \/ pc[r] = "sum" /\ at'[r] = at[r] /\ sum'[r] = sum[r] /\ met[r] \subseteq met'[r]
    \/ /\ Quiet /\ kind = "sharded" /\ pc[r] \in {"idle", "sum"} /\ met[r] \subseteq met'[r]
       /\ sum'[r] = sum[r] + kv[at[r]] /\ at'[r] = at[r] + 1

(* Every step leaves the counters alone or lands one increment, and whoever
   goes on to write or to sum has read a key. *)
LEMMA CounterStep ==
  ASSUME RateTypeInv, [RateNext]_rateVars
  PROVE  /\ Quiet \/ \E q \in Calls : Lands(q)
         /\ \A r \in Calls : pc'[r] = "put" => ReadsKey(r)
         /\ \A r \in Calls : pc'[r] = "sum" => ReadsShard(r)
<1> DEFINE Goal == /\ Quiet \/ \E q \in Calls : Lands(q)
                   /\ \A r \in Calls : pc'[r] = "put" => ReadsKey(r)
                   /\ \A r \in Calls : pc'[r] = "sum" => ReadsShard(r)
<1> USE DEF RateTypeInv, Counted, ReadsKey, ReadsShard
<1>0. pc \in [Calls -> Stages]
  BY DEF RateTypeOK
<1>1. CASE UNCHANGED rateVars
  <2>1. Quiet
    BY <1>1 DEF rateVars, tierVars, Quiet
  <2>2. QED
    BY <1>1, <2>1 DEF rateVars, tierVars
<1>2. ASSUME NEW q \in Calls, get_customer_limit(q) PROVE Goal
  <2> USE <1>2 DEF get_customer_limit, Goto
  <2>1. Quiet
    BY <1>0 DEF Quiet, RateTypeOK
  <2>2. QED
    BY <1>0, <2>1 DEF RateTypeOK
<1>3. ASSUME NEW q \in Calls, read_client(q) \/ read_tier(q) PROVE Goal
  <2> USE <1>3 DEF read_client, read_tier, Goto, tierVars
  <2>1. Quiet
    BY <1>0 DEF Quiet
  <2>2. QED
    BY <1>0, <2>1 DEF RateTypeOK
<1>4. ASSUME NEW q \in Calls, check_blind_issuance_sharded(q) PROVE Goal
  <2> USE <1>4
  <2>1. /\ kind = "sharded" /\ pc[q] \in {"idle", "sum"}
        /\ UNCHANGED <<kind, tierVars, kv, seen, missed, overwritten>>
        /\ pc'[q] \in {"failed", "sum", "refused", "count"}
        /\ \A r \in Calls \ {q} : pc'[r] = pc[r] /\ target'[r] = target[r] /\ at'[r] = at[r] /\ sum'[r] = sum[r]
        /\ pc'[q] = "sum" => sum'[q] = sum[q] + kv[at[q]] /\ at'[q] = at[q] + 1
    BY <1>0 DEF check_blind_issuance_sharded, Goto, RateTypeOK
  <2>2. \A r \in Calls : met[r] \subseteq met'[r]
    BY DEF check_blind_issuance_sharded, Meet
  <2>3. Quiet
    BY <2>1 DEF Quiet
  <2>4. QED
    BY <2>1, <2>2, <2>3
<1>5. ASSUME NEW q \in Calls, check_kv_counter(q) PROVE Goal
  <2> USE <1>5
  <2>1. /\ UNCHANGED <<kind, kv, at, sum, target, missed, overwritten>>
        /\ pc[q] \in {"idle", "count"} /\ pc'[q] \in {"uncounted", "failed", "refused", "put"}
        /\ pc'[q] = "put" => seen'[q] = kv[target[q]]
        /\ \A r \in Calls \ {q} : pc'[r] = pc[r] /\ seen'[r] = seen[r]
    BY <1>0 DEF check_kv_counter, Goto, RateTypeOK
  <2>2. \A r \in Calls : met[r] \subseteq met'[r]
    BY DEF check_kv_counter, Meet
  <2>3. Quiet
    BY <2>1 DEF Quiet
  <2>4. QED
    BY <2>1, <2>2, <2>3
<1>6. ASSUME NEW q \in Calls, check_attestation_nonce_rate(q) PROVE Goal
  <2> USE <1>6
  <2>1. /\ UNCHANGED <<kind, kv, at, sum, target, missed, overwritten, met>>
        /\ pc[q] = "idle" /\ pc'[q] \in {"uncounted", "put"}
        /\ pc'[q] = "put" => seen'[q] = kv[target[q]]
        /\ \A r \in Calls \ {q} : pc'[r] = pc[r] /\ seen'[r] = seen[r]
    BY <1>0 DEF check_attestation_nonce_rate, Goto, RateTypeOK
  <2>2. Quiet
    BY <2>1 DEF Quiet
  <2>3. QED
    BY <2>1, <2>2
<1>7. ASSUME NEW q \in Calls, put_counter(q) PROVE Goal
  <2> USE <1>7
  <2>1. /\ UNCHANGED <<kind, tierVars, at, sum, target, seen, met>>
        /\ pc[q] = "put" /\ pc'[q] \in {"counted", "uncounted"}
        /\ \A r \in Calls \ {q} : pc'[r] = pc[r]
    BY <1>0 DEF put_counter, Goto
  <2>2. CASE pc'[q] = "uncounted" /\ UNCHANGED <<kv, overwritten, missed>>
    BY <2>1, <2>2 DEF Quiet
  <2>3. CASE /\ pc'[q] = "counted"
             /\ kv' = [kv EXCEPT ![target[q]] = seen[q] + 1]
             /\ overwritten' = overwritten \cup missed[q]
             /\ missed' = [r \in Calls |->
                             IF r # q /\ pc[r] = "put" /\ target[r] = target[q]
                               THEN missed[r] \cup {q} ELSE missed[r]]
    <3>1. Counted' = Counted \cup {q} /\ q \notin Counted
      BY <2>1, <2>3
    <3>2. Lands(q)
      BY <2>1, <2>3, <3>1 DEF Lands, tierVars
    <3>3. QED
      BY <2>1, <3>2
  <2>4. QED
    BY <1>0, <2>2, <2>3 DEF put_counter, Goto
<1>8. ASSUME NEW t \in Tiers \cup {NoTier}, set_tier(t) PROVE Goal
  BY <1>8 DEF set_tier, Quiet
<1>9. ASSUME next_hour PROVE Goal
  BY <1>9 DEF next_hour, Quiet
<1>10. QED
  BY <1>1, <1>2, <1>3, <1>4, <1>5, <1>6, <1>7, <1>8, <1>9 DEF RateNext

(* The requests counted on a key and below it, after a step. *)
LEMMA CountedSets ==
  ASSUME RateTypeInv, NEW k
  PROVE  /\ CountedOn(k) \in SUBSET Calls /\ CountedBelow(k) \in SUBSET Calls
         /\ Quiet => CountedOn(k)' = CountedOn(k) /\ CountedBelow(k)' = CountedBelow(k)
         /\ \A q \in Calls : Lands(q) =>
              /\ CountedOn(k)' = CountedOn(k) \cup (IF k = target[q] THEN {q} ELSE {})
              /\ CountedBelow(k)' = CountedBelow(k) \cup (IF target[q] < k THEN {q} ELSE {})
              /\ q \notin CountedOn(k) /\ q \notin CountedBelow(k)
<1>1. CountedOn(k) \in SUBSET Calls /\ CountedBelow(k) \in SUBSET Calls
  BY DEF CountedOn, CountedBelow, Counted
<1>2. ASSUME Quiet PROVE CountedOn(k)' = CountedOn(k) /\ CountedBelow(k)' = CountedBelow(k)
  BY <1>2 DEF Quiet, CountedOn, CountedBelow, Counted
<1>3. ASSUME NEW q \in Calls, Lands(q)
      PROVE  /\ CountedOn(k)' = CountedOn(k) \cup (IF k = target[q] THEN {q} ELSE {})
             /\ CountedBelow(k)' = CountedBelow(k) \cup (IF target[q] < k THEN {q} ELSE {})
             /\ q \notin CountedOn(k) /\ q \notin CountedBelow(k)
  <2>1. Counted' = Counted \cup {q} /\ q \notin Counted /\ target' = target
    BY <1>3 DEF Lands
  <2>2. CountedOn(k)' = {r \in Counted \cup {q} : target[r] = k}
    BY <2>1 DEF CountedOn
  <2>3. CountedBelow(k)' = {r \in Counted \cup {q} : target[r] < k}
    BY <2>1 DEF CountedBelow
  <2>4. QED
    BY <2>1, <2>2, <2>3 DEF CountedOn, CountedBelow
<1>4. QED
  BY <1>1, <1>2, <1>3

-----------------------------------------------------------------------------
(* Nobody is refused early.  A count is never above the requests counted: a
   lost update only lowers it, and counted requests are never uncounted, so
   what was read earlier, even shard by shard, is not above them either. *)

(* Below the next shard are those below this one and those on it. *)
LEMMA NextShard ==
  ASSUME RateTypeInv, NEW k \in Nat
  PROVE  /\ CountedBelow(k + 1) = CountedBelow(k) \cup CountedOn(k)
         /\ Cardinality(CountedBelow(k + 1)) = Cardinality(CountedBelow(k)) + Cardinality(CountedOn(k))
<1>1. \A q \in Calls : target[q] \in Nat
  BY DEF RateTypeInv, RateTypeOK, Shards, Hours
<1>2. /\ CountedBelow(k + 1) = CountedBelow(k) \cup CountedOn(k)
      /\ CountedBelow(k) \cap CountedOn(k) = {}
      /\ CountedBelow(k) \in SUBSET Calls /\ CountedOn(k) \in SUBSET Calls
  BY <1>1 DEF CountedBelow, CountedOn, Counted
<1>3. QED
  BY <1>2, CallsUnion

(* One step keeps every count at or below the requests counted. *)
LEMMA NeverAboveStep ==
  ASSUME RateTypeInv, NeverAbove, [RateNext]_rateVars
  PROVE  NeverAbove'
<1>1. /\ kv \in [Keys -> Nat] /\ \A q \in Calls : target[q] \in Keys /\ seen[q] \in Nat /\ sum[q] \in Nat
      /\ \A q \in Calls : target[q] \in Nat
      /\ \A q \in Calls : at[q] \in Nat
      /\ \A q \in Calls : pc[q] \in {"idle", "sum"} => at[q] \in Keys
      /\ \A q \in Calls : pc[q] = "idle" => at[q] = 0 /\ sum[q] = 0
  BY DEF RateTypeInv, RateTypeOK, StageInv, Keys, Shards, Hours
<1>2. /\ Quiet \/ \E q \in Calls : Lands(q)
      /\ \A r \in Calls : pc'[r] = "put" => ReadsKey(r)
      /\ \A r \in Calls : pc'[r] = "sum" => ReadsShard(r)
  BY CounterStep
<1>3. ASSUME NEW k
      PROVE  /\ Cardinality(CountedOn(k)) \in Nat /\ Cardinality(CountedBelow(k)) \in Nat
             /\ Cardinality(CountedOn(k)') \in Nat /\ Cardinality(CountedBelow(k)') \in Nat
             /\ Cardinality(CountedOn(k)) <= Cardinality(CountedOn(k)')
             /\ Cardinality(CountedBelow(k)) <= Cardinality(CountedBelow(k)')
             /\ \A q \in Calls : Lands(q) /\ k = target[q] =>
                  Cardinality(CountedOn(k)') = Cardinality(CountedOn(k)) + 1
  <2>1. /\ CountedOn(k) \in SUBSET Calls /\ CountedBelow(k) \in SUBSET Calls
        /\ CountedOn(k)' \in SUBSET Calls /\ CountedBelow(k)' \in SUBSET Calls
        /\ CountedOn(k) \subseteq CountedOn(k)' /\ CountedBelow(k) \subseteq CountedBelow(k)'
    BY <1>2, CountedSets
  <2>2. ASSUME NEW q \in Calls, Lands(q), k = target[q]
        PROVE  Cardinality(CountedOn(k)') = Cardinality(CountedOn(k)) + 1
    <3>1. CountedOn(k)' = CountedOn(k) \cup {q} /\ q \notin CountedOn(k)
      BY <2>2, CountedSets
    <3>2. QED
      BY <2>1, <3>1, CallsAdd
  <2>3. QED
    BY <2>1, <2>2, CallsFinite, CallsSubset
<1>4. ASSUME NEW k \in Keys PROVE kv'[k] <= Cardinality(CountedOn(k)')
  <2>1. kv[k] <= Cardinality(CountedOn(k)) /\ kv[k] \in Nat
    BY <1>1 DEF NeverAbove
  <2>2. CASE kv' = kv
    BY <1>3, <2>1, <2>2
  <2>3. ASSUME NEW q \in Calls, Lands(q) PROVE kv'[k] <= Cardinality(CountedOn(k)')
    <3>1. kv' = [kv EXCEPT ![target[q]] = seen[q] + 1] /\ pc[q] = "put"
      BY <2>3 DEF Lands
    <3>2. CASE k # target[q]
      BY <1>1, <1>3, <2>1, <3>1, <3>2
    <3>3. CASE k = target[q]
      <4>1. seen[q] <= Cardinality(CountedOn(k))
        BY <3>1, <3>3 DEF NeverAbove
      <4>2. Cardinality(CountedOn(k)') = Cardinality(CountedOn(k)) + 1
        BY <1>3, <2>3, <3>3
      <4>3. kv'[k] = seen[q] + 1 /\ Cardinality(CountedOn(k)) \in Nat /\ seen[q] \in Nat
        BY <1>1, <1>3, <3>1, <3>3
      <4>4. QED
        BY <4>1, <4>2, <4>3
    <3>4. QED
      BY <3>2, <3>3
  <2>4. QED
    BY <1>2, <2>2, <2>3 DEF Quiet
<1>5. ASSUME NEW r \in Calls, pc'[r] = "put"
      PROVE  (seen[r] <= Cardinality(CountedOn(target[r])))'
  <2>1. PICK k \in Keys : k = target[r]
    BY <1>1
  <2>2. CountedOn(target[r])' = CountedOn(k)'
    BY <1>2, <1>5, <2>1 DEF ReadsKey, CountedOn
  <2>3. CASE pc[r] = "put" /\ seen'[r] = seen[r]
    <3>1. seen[r] <= Cardinality(CountedOn(k)) /\ seen[r] \in Nat
      BY <1>1, <2>1, <2>3 DEF NeverAbove
    <3>2. QED
      BY <1>3, <2>2, <2>3, <3>1
  <2>4. CASE seen'[r] = kv[target[r]]
    <3>1. kv[k] <= Cardinality(CountedOn(k)) /\ kv[k] \in Nat
      BY <1>1 DEF NeverAbove
    <3>2. QED
      BY <1>3, <2>1, <2>2, <2>4, <3>1
  <2>5. QED
    BY <1>2, <1>5, <2>3, <2>4 DEF ReadsKey
<1>6. ASSUME NEW r \in Calls, pc'[r] = "sum"
      PROVE  (sum[r] <= Cardinality(CountedBelow(at[r])))'
  <2>1. PICK k \in Nat : k = at[r]
    BY <1>1
  <2>2. CASE pc[r] = "sum" /\ at'[r] = at[r] /\ sum'[r] = sum[r]
    <3>1. sum[r] <= Cardinality(CountedBelow(k)) /\ sum[r] \in Nat
      BY <1>1, <2>1, <2>2 DEF NeverAbove
    <3>2. CountedBelow(at[r])' = CountedBelow(k)'
      BY <2>1, <2>2 DEF CountedBelow
    <3>3. QED
      BY <1>3, <2>2, <3>1, <3>2
  <2>3. CASE /\ Quiet /\ pc[r] \in {"idle", "sum"}
             /\ sum'[r] = sum[r] + kv[at[r]] /\ at'[r] = at[r] + 1
    <3>1. sum[r] <= Cardinality(CountedBelow(k))
      BY <1>1, <1>3, <2>1, <2>3 DEF NeverAbove
    <3>2. kv[k] <= Cardinality(CountedOn(k)) /\ kv[k] \in Nat /\ sum[r] \in Nat
      BY <1>1, <2>1, <2>3 DEF NeverAbove
    <3>3. CountedBelow(at[r])' = CountedBelow(k + 1)'
      BY <2>1, <2>3 DEF CountedBelow
    <3>4. CountedBelow(k + 1)' = CountedBelow(k + 1)
      BY <2>3, CountedSets
    <3>5. Cardinality(CountedBelow(k + 1)) = Cardinality(CountedBelow(k)) + Cardinality(CountedOn(k))
      BY NextShard
    <3>6. QED
      BY <1>3, <2>1, <2>3, <3>1, <3>2, <3>3, <3>4, <3>5
  <2>4. QED
    BY <1>2, <1>6, <2>2, <2>3 DEF ReadsShard
<1>7. QED
  BY <1>4, <1>5, <1>6 DEF NeverAbove

(* A request let through stays so, and stays a peer of those decided. *)
LEMMA AdmittedGrows ==
  ASSUME RateTypeInv, [RateNext]_rateVars
  PROVE  /\ Admitted \subseteq Admitted'
         /\ \A q \in Calls : pc[q] # "idle" =>
              Admitted \cap Peers(q) \subseteq (Admitted \cap Peers(q))'
         /\ \A q \in Calls : pc[q] \notin {"idle", "limits"} => cap'[q] = cap[q]
<1> USE DEF RateTypeInv
<1>0. pc \in [Calls -> Stages] /\ target \in [Calls -> Keys]
  BY DEF RateTypeOK, Keys
<1> DEFINE Stays ==
         /\ kind' = kind
         /\ \A q \in Calls : q \in Admitted => q \in Admitted'
         /\ \A q \in Calls : q \in Admitted => target'[q] = target[q]
         /\ \A q \in Calls : kind = "quota" /\ pc[q] # "idle" => target'[q] = target[q]
         /\ \A q \in Calls : pc[q] \notin {"idle", "limits"} => cap'[q] = cap[q]
<1>1. Stays
  <2>1. CASE UNCHANGED rateVars
    BY <2>1 DEF rateVars, tierVars, Admitted
  <2>2. ASSUME NEW q \in Calls, get_customer_limit(q) PROVE Stays
    <3>1. /\ kind = "quota" /\ kind' = kind /\ pc[q] = "idle"
          /\ \A r \in Calls \ {q} : pc'[r] = pc[r] /\ target'[r] = target[r] /\ cap'[r] = cap[r]
      BY <2>2, <1>0 DEF get_customer_limit, Goto, RateTypeOK
    <3>2. QED
      BY <3>1 DEF Admitted
  <2>3. ASSUME NEW q \in Calls, read_client(q) PROVE Stays
    <3>1. kind = "quota"
      BY <2>3 DEF read_client, StageInv
    <3>2. QED
      BY <2>3, <3>1, <1>0 DEF read_client, Goto, Admitted, tierVars
  <2>4. ASSUME NEW q \in Calls, read_tier(q) PROVE Stays
    <3>1. kind = "quota"
      BY <2>4 DEF read_tier, StageInv
    <3>2. QED
      BY <2>4, <3>1, <1>0 DEF read_tier, Goto, Admitted, RateTypeOK
  <2>5. ASSUME NEW q \in Calls, check_blind_issuance_sharded(q) PROVE Stays
    BY <2>5, <1>0 DEF check_blind_issuance_sharded, Goto, Admitted, tierVars
  <2>6. ASSUME NEW q \in Calls, check_kv_counter(q) PROVE Stays
    BY <2>6, <1>0 DEF check_kv_counter, Goto, Admitted, tierVars
  <2>7. ASSUME NEW q \in Calls, check_attestation_nonce_rate(q) PROVE Stays
    BY <2>7, <1>0 DEF check_attestation_nonce_rate, Goto, Admitted, tierVars
  <2>8. ASSUME NEW q \in Calls, put_counter(q) PROVE Stays
    BY <2>8, <1>0 DEF put_counter, Goto, Admitted, tierVars
  <2>9. ASSUME NEW t \in Tiers \cup {NoTier}, set_tier(t) PROVE Stays
    BY <2>9 DEF set_tier, Admitted
  <2>10. ASSUME next_hour PROVE Stays
    BY <2>10 DEF next_hour, Admitted
  <2>11. QED
    BY <2>1, <2>2, <2>3, <2>4, <2>5, <2>6, <2>7, <2>8, <2>9, <2>10 DEF RateNext
<1>2. Admitted \subseteq Calls
  BY DEF Admitted
<1>3. QED
  BY <1>1, <1>2 DEF Peers

(* When the cap is found reached: by one count, or by the sum of the shards. *)
LEMMA RefusalStep ==
  ASSUME RateTypeInv, [RateNext]_rateVars, NEW q \in Calls,
         pc'[q] = "refused", pc[q] # "refused"
  PROVE  /\ Quiet /\ cap'[q] = cap[q]
         /\ \/ kind # "sharded" /\ target'[q] = target[q] /\ kv[target[q]] >= cap[q]
            \/ /\ kind = "sharded" /\ pc[q] \in {"idle", "sum"}
               /\ sum[q] + kv[at[q]] >= cap[q]
<1> USE DEF RateTypeInv
<1>0. pc \in [Calls -> Stages]
  BY DEF RateTypeOK
<1>1. CASE check_blind_issuance_sharded(q) \/ check_kv_counter(q)
  <2>1. Quiet
    <3>1. Quiet \/ \E r \in Calls : Lands(r)
      BY CounterStep
    <3>2. ASSUME NEW r \in Calls, Lands(r) PROVE FALSE
      <4>1. pc'[r] = "counted" /\ pc[r] = "put"
        BY <3>2 DEF Lands, Counted
      <4>2. r = q
        BY <1>0, <1>1, <4>1 DEF check_blind_issuance_sharded, check_kv_counter, Goto
      <4>3. QED
        BY <4>1, <4>2
    <3>3. QED
      BY <3>1, <3>2
  <2>2. cap' = cap
    BY <1>1 DEF check_blind_issuance_sharded, check_kv_counter, tierVars
  <2>3. CASE check_blind_issuance_sharded(q)
    BY <1>0, <2>1, <2>2, <2>3 DEF check_blind_issuance_sharded, Goto, AtLimit
  <2>4. CASE check_kv_counter(q)
    BY <1>0, <2>1, <2>2, <2>4 DEF check_kv_counter, Goto, AtLimit
  <2>5. QED
    BY <1>1, <2>3, <2>4
<1>2. check_blind_issuance_sharded(q) \/ check_kv_counter(q)
  <2>1. ASSUME UNCHANGED rateVars PROVE FALSE
    BY <2>1 DEF rateVars
  <2>2. ASSUME NEW r \in Calls,
               \/ get_customer_limit(r) \/ read_client(r) \/ read_tier(r)
               \/ check_attestation_nonce_rate(r) \/ put_counter(r)
        PROVE  FALSE
    BY <1>0, <2>2 DEF get_customer_limit, read_client, read_tier, check_attestation_nonce_rate, put_counter, Goto
  <2>3. ASSUME NEW r \in Calls, r # q, check_blind_issuance_sharded(r) \/ check_kv_counter(r)
        PROVE  FALSE
    BY <1>0, <2>3 DEF check_blind_issuance_sharded, check_kv_counter, Goto
  <2>4. ASSUME next_hour \/ \E t \in Tiers \cup {NoTier} : set_tier(t) PROVE FALSE
    BY <2>4 DEF next_hour, set_tier
  <2>5. QED
    BY <2>1, <2>2, <2>3, <2>4 DEF RateNext
<1>3. QED
  BY <1>1, <1>2

(* When the tripwire reports a request. *)
LEMMA WarnedStep ==
  ASSUME RateTypeInv, [RateNext]_rateVars, NEW q \in Calls, warned'[q], ~ warned[q]
  PROVE  /\ kind = "tripwire" /\ kind' = kind /\ q \notin Counted /\ pc'[q] = "put"
         /\ kv[target[q]] + 1 >= Limit /\ cap'[q] = cap[q] /\ Quiet
<1> USE DEF RateTypeInv
<1>0. pc \in [Calls -> Stages] /\ warned \in [Calls -> BOOLEAN]
  BY DEF RateTypeOK
<1>1. check_attestation_nonce_rate(q)
  <2>1. ASSUME UNCHANGED warned PROVE FALSE
    BY <2>1
  <2>2. ASSUME NEW r \in Calls, r # q, check_attestation_nonce_rate(r) PROVE FALSE
    BY <1>0, <2>2 DEF check_attestation_nonce_rate
  <2>3. QED
    BY <2>1, <2>2 DEF RateNext, rateVars, get_customer_limit, read_client, read_tier,
       check_blind_issuance_sharded, check_kv_counter, put_counter, set_tier, next_hour
<1>2. /\ kind = "tripwire" /\ kind' = kind /\ pc[q] = "idle" /\ cap' = cap /\ target' = target
      /\ warned' = [warned EXCEPT ![q] = nonce_over_limit(kv[target[q]] + 1)]
      /\ pc' = [pc EXCEPT ![q] = "put"]
      /\ UNCHANGED <<kv, overwritten, missed>>
  BY <1>0, <1>1 DEF check_attestation_nonce_rate, Goto, tierVars
<1>3. Quiet
  BY <1>0, <1>2 DEF Quiet, Counted
<1>4. QED
  BY <1>0, <1>2, <1>3 DEF nonce_over_limit, Counted

(* One step keeps refusals earned. *)
LEMMA RefusalEarnedStep ==
  ASSUME RateTypeInv, RateTypeInv', NeverAbove, RefusalEarned, [RateNext]_rateVars
  PROVE  RefusalEarned'
<1> SUFFICES ASSUME NEW q \in Calls, (pc[q] = "refused" \/ warned[q])'
             PROVE  (Cardinality(Admitted \cap Peers(q)) >= cap[q])'
  BY DEF RefusalEarned, rate_limit_or_unavailable_response
<1> DEFINE A == Admitted \cap Peers(q)
<1>0. /\ A \in SUBSET Calls /\ A' \in SUBSET Calls /\ Cardinality(A) \in Nat /\ Cardinality(A') \in Nat
      /\ cap[q] \in Nat /\ kv \in [Keys -> Nat] /\ \A r \in Calls : sum[r] \in Nat
      /\ target[q] \in Keys
  <2>1. A \in SUBSET Calls /\ A' \in SUBSET Calls
    BY DEF Admitted
  <2>2. QED
    BY <2>1, CallsFinite, RateLimitAssumption DEF RateTypeInv, RateTypeOK, Keys
<1>1. CASE pc[q] = "refused" \/ warned[q]
  <2>1. pc[q] \notin {"idle", "limits"}
    BY <1>1 DEF RateTypeInv, StageInv, Admitted
  <2>2. A \subseteq A' /\ cap'[q] = cap[q]
    BY <2>1, AdmittedGrows
  <2>3. Cardinality(A) >= cap[q]
    BY <1>1 DEF RefusalEarned, rate_limit_or_unavailable_response
  <2>4. Cardinality(A) <= Cardinality(A')
    BY <1>0, <2>2, CallsSubset
  <2>5. QED
    BY <1>0, <2>2, <2>3, <2>4
<1>2. CASE pc[q] # "refused" /\ pc'[q] = "refused"
  <2>1. /\ Quiet /\ cap'[q] = cap[q]
        /\ \/ kind # "sharded" /\ target'[q] = target[q] /\ kv[target[q]] >= cap[q]
           \/ kind = "sharded" /\ pc[q] \in {"idle", "sum"} /\ sum[q] + kv[at[q]] >= cap[q]
    BY <1>2, RefusalStep
  <2>2. /\ Counted \subseteq Admitted' /\ kind' = kind /\ Counted \subseteq Calls
        /\ \A r \in Counted : target'[r] = target[r]
    BY <2>1 DEF Quiet, Counted, Admitted
  <2>3. CASE kind # "sharded" /\ target'[q] = target[q] /\ kv[target[q]] >= cap[q]
    <3>1. CountedOn(target[q]) \subseteq A'
      BY <2>2, <2>3 DEF CountedOn, Peers
    <3>2. kv[target[q]] <= Cardinality(CountedOn(target[q]))
      BY <1>0 DEF NeverAbove
    <3>3. Cardinality(CountedOn(target[q])) <= Cardinality(A')
      BY <1>0, <3>1, CallsSubset
    <3>4. CountedOn(target[q]) \in SUBSET Calls
      BY <2>2 DEF CountedOn
    <3>5. Cardinality(CountedOn(target[q])) \in Nat
      BY <3>4, CallsFinite
    <3>6. kv[target[q]] \in Nat
      BY <1>0
    <3>7. QED
      BY <1>0, <2>1, <2>3, <3>2, <3>3, <3>5, <3>6
  <2>4. CASE kind = "sharded" /\ pc[q] \in {"idle", "sum"} /\ sum[q] + kv[at[q]] >= cap[q]
    <3>1. PICK k \in Nat : k = at[q] /\ k \in Keys
      BY <2>4 DEF RateTypeInv, RateTypeOK, StageInv, Keys, Shards
    <3>2. sum[q] <= Cardinality(CountedBelow(k)) /\ kv[k] <= Cardinality(CountedOn(k))
      <4>1. CountedBelow(k) \in SUBSET Calls
        BY CountedSets
      <4>2. Cardinality(CountedBelow(k)) \in Nat
        BY <4>1, CallsFinite
      <4>3. QED
        BY <2>4, <3>1, <4>2 DEF NeverAbove, RateTypeInv, StageInv
    <3>3. Cardinality(CountedBelow(k + 1)) = Cardinality(CountedBelow(k)) + Cardinality(CountedOn(k))
      BY NextShard
    <3>4. CountedBelow(k + 1) \subseteq A'
      BY <2>2, <2>4 DEF CountedBelow, Peers
    <3>5. Cardinality(CountedBelow(k + 1)) <= Cardinality(A')
      BY <1>0, <3>4, CallsSubset
    <3>6. /\ Cardinality(CountedBelow(k)) \in Nat /\ Cardinality(CountedOn(k)) \in Nat
      BY CountedSets, CallsFinite
    <3>7. kv[k] \in Nat /\ sum[q] \in Nat
      BY <1>0, <3>1
    <3>8. QED
      BY <1>0, <2>1, <2>4, <3>1, <3>2, <3>3, <3>5, <3>6, <3>7
  <2>5. QED
    BY <2>1, <2>3, <2>4
<1>3. CASE ~ warned[q] /\ warned'[q]
  <2>1. /\ kind = "tripwire" /\ kind' = kind /\ q \notin Counted /\ pc'[q] = "put"
        /\ kv[target[q]] + 1 >= Limit /\ cap'[q] = cap[q] /\ Quiet
    BY <1>3, WarnedStep
  <2>2. cap[q] = Limit
    BY <2>1 DEF RateTypeInv, StageInv
  <2>3. CountedOn(target[q]) \cup {q} \subseteq A' /\ q \notin CountedOn(target[q])
        /\ CountedOn(target[q]) \in SUBSET Calls
    BY <2>1 DEF CountedOn, Counted, Peers, Admitted, Quiet
  <2>4. Cardinality(CountedOn(target[q]) \cup {q}) = Cardinality(CountedOn(target[q])) + 1
    BY <2>3, CallsAdd
  <2>5. Cardinality(CountedOn(target[q]) \cup {q}) <= Cardinality(A')
    BY <1>0, <2>3, CallsSubset
  <2>6. kv[target[q]] <= Cardinality(CountedOn(target[q])) /\ kv[target[q]] \in Nat
    BY <1>0 DEF NeverAbove
  <2>7. Cardinality(CountedOn(target[q])) \in Nat
    BY <2>3, CallsFinite
  <2>8. QED
    BY <1>0, <2>1, <2>2, <2>4, <2>5, <2>6, <2>7, RateLimitAssumption
<1>4. QED
  BY <1>1, <1>2, <1>3

(* A refusal is earned: for any number of requests, shards, isolates and
   hours, whatever KV loses, nobody is told that the cap is reached, and no
   issuer is reported, before as many requests as the limit were let
   through. *)
THEOREM RefusalEarnedHolds == RateSpec => []RefusalEarned
<1> DEFINE Inv == RateTypeInv /\ NeverAbove /\ RefusalEarned
<1>1. RateInit => Inv
  <2> SUFFICES ASSUME RateInit PROVE Inv
    OBVIOUS
  <2>1. RateTypeInv
    BY RateTypeInit
  <2>2. ASSUME NEW k \in Keys PROVE kv[k] <= Cardinality(CountedOn(k))
    <3>1. CountedOn(k) = {} /\ kv[k] = 0
      BY DEF RateInit, CountedOn, Counted
    <3>2. QED
      BY <3>1, FS_EmptySet
  <2>3. NeverAbove
    BY <2>2 DEF RateInit, NeverAbove
  <2>4. RefusalEarned
    BY DEF RateInit, RefusalEarned, rate_limit_or_unavailable_response
  <2>5. QED
    BY <2>1, <2>3, <2>4
<1>2. Inv /\ [RateNext]_rateVars => Inv'
  BY RateTypeStep, NeverAboveStep, RefusalEarnedStep
<1>3. Inv => RefusalEarned
  OBVIOUS
<1> HIDE DEF Inv
<1>4. QED
  BY <1>1, <1>2, <1>3, PTL DEF RateSpec

(* Reading one more shard covers what was counted on it. *)
LEMMA SummedSoFar ==
  ASSUME RateTypeInv, NEW k \in Nat, NEW M, NEW N, M \subseteq N, NEW s \in Nat, NEW c \in Nat,
         Cardinality(CountedBelow(k) \ (overwritten \cup M)) <= s,
         Cardinality(CountedOn(k) \ overwritten) <= c
  PROVE  Cardinality(CountedBelow(k + 1) \ (overwritten \cup N)) <= s + c
<1> DEFINE B == CountedBelow(k) \ (overwritten \cup M)
           O == CountedOn(k) \ overwritten
           U == CountedBelow(k + 1) \ (overwritten \cup N)
<1>1. B \in SUBSET Calls /\ O \in SUBSET Calls
  BY CountedSets
<1>2. U \subseteq B \cup O
  BY NextShard
<1>3. B \cup O \in SUBSET Calls /\ U \in SUBSET (B \cup O)
  BY <1>1, <1>2
<1>4. Cardinality(U) <= Cardinality(B \cup O)
  BY <1>3, CallsSubset
<1>5. Cardinality(B \cup O) <= Cardinality(B) + Cardinality(O)
  BY <1>1, CallsUnion
<1>6. U \in SUBSET Calls
  BY <1>3
<1>7. /\ Cardinality(U) \in Nat /\ Cardinality(B) \in Nat /\ Cardinality(O) \in Nat
      /\ Cardinality(B \cup O) \in Nat
  BY <1>1, <1>3, <1>6, CallsFinite
<1>8. Cardinality(B) <= s /\ Cardinality(O) <= c
  OBVIOUS
<1> HIDE DEF B, O, U
<1>9. Cardinality(U) <= s + c
  BY <1>4, <1>5, <1>7, <1>8
<1>10. QED
  BY <1>9 DEF U

-----------------------------------------------------------------------------
(* How far a cap leaks.  A request that sums the shards has met every request
   in flight, so what it read of a shard misses only requests it has met;
   what a write wipes out are the requests its reader missed. *)

(* Whoever still sums the shards has met everybody in flight. *)
LEMMA MeetStep ==
  ASSUME RateTypeInv, NeverFarBelow, [RateNext]_rateVars, NEW r \in Calls, pc'[r] = "sum"
  PROVE  InFlight' \ {r} \subseteq met'[r]
<1> USE DEF RateTypeInv
<1>0. pc \in [Calls -> Stages]
  BY DEF RateTypeOK
<1>1. CASE UNCHANGED rateVars
  BY <1>1 DEF rateVars, NeverFarBelow, InFlight
<1>2. ASSUME NEW q \in Calls, check_blind_issuance_sharded(q) PROVE InFlight' \ {r} \subseteq met'[r]
  <2>1. /\ kind = "sharded" /\ kind' = kind /\ Meet(q)
        /\ \A s \in Calls \ {q} : pc'[s] = pc[s]
    BY <1>0, <1>2 DEF check_blind_issuance_sharded, Goto
  <2>2. InFlight' \ {q} \subseteq InFlight \ {q}
    BY <2>1 DEF InFlight
  <2>3. CASE q = r
    BY <2>1, <2>2, <2>3 DEF Meet
  <2>4. CASE q # r
    <3>1. pc[r] = "sum" /\ met'[r] = met[r] \cup {q}
      BY <2>1, <2>4 DEF Meet
    <3>2. InFlight \ {r} \subseteq met[r]
      BY <3>1 DEF NeverFarBelow
    <3>3. QED
      BY <2>2, <3>1, <3>2
  <2>5. QED
    BY <2>3, <2>4
<1>3. ASSUME NEW q \in Calls, check_kv_counter(q) \/ put_counter(q) PROVE InFlight' \ {r} \subseteq met'[r]
  <2>1. /\ \A s \in Calls \ {q} : pc'[s] = pc[s]
        /\ pc'[q] # "sum" /\ kind' = kind
    BY <1>0, <1>3 DEF check_kv_counter, put_counter, Goto
  <2>2. pc[r] = "sum" /\ kind = "sharded" /\ r # q
    BY <2>1 DEF StageInv
  <2>3. InFlight' \subseteq InFlight /\ met' = met
    BY <1>0, <1>3, <2>1, <2>2 DEF check_kv_counter, put_counter, InFlight, Goto
  <2>4. QED
    BY <2>2, <2>3 DEF NeverFarBelow
<1>4. ASSUME NEW q \in Calls, \/ get_customer_limit(q) \/ read_client(q) \/ read_tier(q)
                              \/ check_attestation_nonce_rate(q)
      PROVE  FALSE
  <2>1. kind # "sharded"
    BY <1>4 DEF get_customer_limit, read_client, read_tier, check_attestation_nonce_rate, StageInv
  <2>2. pc[r] = "sum"
    BY <1>0, <1>4 DEF get_customer_limit, read_client, read_tier, check_attestation_nonce_rate, Goto
  <2>3. QED
    BY <2>1, <2>2 DEF StageInv
<1>5. ASSUME next_hour \/ \E t \in Tiers \cup {NoTier} : set_tier(t) PROVE FALSE
  BY <1>5 DEF next_hour, set_tier, StageInv
<1>6. QED
  BY <1>1, <1>2, <1>3, <1>4, <1>5 DEF RateNext

(* One step keeps every count within what was wiped out, missed or met. *)
LEMMA NeverFarBelowStep ==
  ASSUME RateTypeInv, NeverFarBelow, [RateNext]_rateVars
  PROVE  NeverFarBelow'
<1>1. /\ kv \in [Keys -> Nat] /\ \A q \in Calls : target[q] \in Keys /\ seen[q] \in Nat /\ sum[q] \in Nat
      /\ \A q \in Calls : target[q] \in Nat
      /\ \A q \in Calls : at[q] \in Nat
      /\ \A q \in Calls : pc[q] \in {"idle", "sum"} => at[q] \in Keys
      /\ \A q \in Calls : pc[q] = "idle" => at[q] = 0 /\ sum[q] = 0
  BY DEF RateTypeInv, RateTypeOK, StageInv, Keys, Shards, Hours
<1>2. /\ Quiet \/ \E q \in Calls : Lands(q)
      /\ \A r \in Calls : pc'[r] = "put" => ReadsKey(r)
      /\ \A r \in Calls : pc'[r] = "sum" => ReadsShard(r)
  BY CounterStep
<1>3. \A k : CountedOn(k) \in SUBSET Calls /\ CountedBelow(k) \in SUBSET Calls
  BY CountedSets
<1>4. overwritten \subseteq overwritten' /\ \A r \in Calls : missed[r] \subseteq missed'[r]
  BY <1>2 DEF Quiet, Lands
<1>5. ASSUME NEW k \in Keys PROVE Cardinality((CountedOn(k) \ overwritten)') <= kv'[k]
  <2>1. Cardinality(CountedOn(k) \ overwritten) <= kv[k] /\ kv[k] \in Nat
    BY <1>1 DEF NeverFarBelow
  <2>2. CASE Quiet
    BY <2>1, <2>2, CountedSets DEF Quiet
  <2>3. ASSUME NEW q \in Calls, Lands(q) PROVE Cardinality((CountedOn(k) \ overwritten)') <= kv'[k]
    <3>1. CASE k # target[q]
      <4>1. kv'[k] = kv[k]
        BY <1>1, <2>3, <3>1 DEF Lands
      <4>2. (CountedOn(k) \ overwritten)' \subseteq CountedOn(k) \ overwritten
        BY <1>4, <2>3, <3>1, CountedSets
      <4>3. Cardinality((CountedOn(k) \ overwritten)') <= Cardinality(CountedOn(k) \ overwritten)
        BY <1>3, <4>2, CallsSubset
      <4>4. (CountedOn(k) \ overwritten)' \in SUBSET Calls
        BY <1>3, <4>2
      <4>5. QED
        BY <1>3, <2>1, <4>1, <4>3, <4>4, CallsFinite
    <3>2. CASE k = target[q]
      <4> DEFINE U == CountedOn(k) \ (overwritten \cup missed[q])
      <4>1. kv'[k] = seen[q] + 1 /\ seen[q] \in Nat /\ pc[q] = "put"
        BY <1>1, <2>3, <3>2 DEF Lands
      <4>2. (CountedOn(k) \ overwritten)' \subseteq U \cup {q} /\ q \notin U
        <5>1. CountedOn(k)' = CountedOn(k) \cup {q} /\ q \notin CountedOn(k)
          BY <2>3, <3>2, CountedSets
        <5>2. overwritten' = overwritten \cup missed[q]
          BY <2>3 DEF Lands
        <5>3. QED
          BY <5>1, <5>2
      <4>3. U \in SUBSET Calls
        BY <1>3
      <4>4. Cardinality(U) <= seen[q]
        BY <3>2, <4>1 DEF NeverFarBelow
      <4>5. Cardinality(U \cup {q}) = Cardinality(U) + 1
        BY <4>2, <4>3, CallsAdd
      <4>6. U \cup {q} \in SUBSET Calls /\ (CountedOn(k) \ overwritten)' \in SUBSET (U \cup {q})
        BY <4>2, <4>3
      <4>7. Cardinality((CountedOn(k) \ overwritten)') <= Cardinality(U \cup {q})
        BY <4>6, CallsSubset
      <4>8. Cardinality(U) \in Nat /\ Cardinality((CountedOn(k) \ overwritten)') \in Nat
        BY <4>3, <4>6, CallsFinite
      <4>9. QED
        BY <4>1, <4>4, <4>5, <4>7, <4>8
    <3>3. QED
      BY <3>1, <3>2
  <2>4. QED
    BY <1>2, <2>2, <2>3
<1>6. ASSUME NEW r \in Calls, pc'[r] = "put"
      PROVE  (Cardinality(CountedOn(target[r]) \ (overwritten \cup missed[r])) <= seen[r])'
  <2>1. PICK k \in Keys : k = target[r]
    BY <1>1
  <2> DEFINE U == CountedOn(k) \ (overwritten \cup missed[r])
  <2>2. CountedOn(target[r])' = CountedOn(k)'
    BY <1>2, <1>6, <2>1 DEF ReadsKey, CountedOn
  <2>3. CASE pc[r] = "put" /\ seen'[r] = seen[r]
    <3>1. U' \subseteq U
      <4>1. CASE Quiet
        BY <4>1, CountedSets DEF Quiet
      <4>2. ASSUME NEW q \in Calls, Lands(q) PROVE U' \subseteq U
        <5>1. r # q /\ (target[q] = k => q \in missed'[r])
          BY <1>6, <2>1, <2>3, <4>2 DEF Lands, Counted
        <5>2. CountedOn(k)' = CountedOn(k) \cup (IF k = target[q] THEN {q} ELSE {})
          BY <4>2, CountedSets
        <5>3. QED
          BY <1>4, <5>1, <5>2
      <4>3. QED
        BY <1>2, <4>1, <4>2
    <3>2. Cardinality(U) <= seen[r] /\ seen[r] \in Nat
      BY <1>1, <2>1, <2>3 DEF NeverFarBelow
    <3>3. U \in SUBSET Calls /\ U' \in SUBSET Calls
      BY <1>3, <3>1
    <3>4. Cardinality(U') <= Cardinality(U) /\ Cardinality(U') \in Nat /\ Cardinality(U) \in Nat
      BY <3>1, <3>3, CallsSubset, CallsFinite
    <3>5. Cardinality(U') <= seen'[r]
      BY <2>3, <3>2, <3>4
    <3>6. QED
      BY <2>2, <3>5
  <2>4. CASE Quiet /\ seen'[r] = kv[target[r]]
    <3> DEFINE W == CountedOn(k) \ overwritten
    <3>1. U' \subseteq W
      BY <2>4, CountedSets DEF Quiet
    <3>2. Cardinality(W) <= kv[k] /\ kv[k] \in Nat
      BY <1>1 DEF NeverFarBelow
    <3>3. W \in SUBSET Calls /\ U' \in SUBSET Calls
      BY <1>3, <3>1
    <3>4. Cardinality(U') <= Cardinality(W) /\ Cardinality(U') \in Nat /\ Cardinality(W) \in Nat
      BY <3>1, <3>3, CallsSubset, CallsFinite
    <3>5. Cardinality(U') <= seen'[r]
      BY <2>1, <2>4, <3>2, <3>4
    <3>6. QED
      BY <2>2, <3>5
  <2>5. QED
    BY <1>2, <1>6, <2>3, <2>4 DEF ReadsKey
<1>7. ASSUME NEW r \in Calls, pc'[r] = "sum"
      PROVE  (Cardinality(CountedBelow(at[r]) \ (overwritten \cup met[r])) <= sum[r])'
  <2>1. PICK k \in Nat : k = at[r]
    BY <1>1
  <2> DEFINE U(j) == CountedBelow(j) \ (overwritten \cup met[r])
  <2>2. pc[r] \in {"idle", "sum"} => Cardinality(U(k)) <= sum[r] /\ sum[r] \in Nat
    <3>1. ASSUME pc[r] = "idle" PROVE Cardinality(U(k)) <= sum[r] /\ sum[r] \in Nat
      <4>1. U(k) = {} /\ sum[r] = 0
        BY <1>1, <2>1, <3>1 DEF CountedBelow, Counted
      <4>2. QED
        BY <4>1, FS_EmptySet
    <3>2. QED
      BY <1>1, <2>1, <3>1 DEF NeverFarBelow
  <2>3. CASE pc[r] = "sum" /\ at'[r] = at[r] /\ sum'[r] = sum[r] /\ met[r] \subseteq met'[r]
    <3>1. U(k)' \subseteq U(k)
      <4>1. CASE Quiet
        BY <1>4, <2>3, <4>1, CountedSets
      <4>2. ASSUME NEW q \in Calls, Lands(q) PROVE U(k)' \subseteq U(k)
        <5>1. q \in InFlight /\ q # r
          BY <2>3, <4>2 DEF Lands, InFlight
        <5>2. q \in met[r]
          BY <2>3, <5>1 DEF NeverFarBelow
        <5>3. CountedBelow(k)' \subseteq CountedBelow(k) \cup {q}
          BY <4>2, CountedSets
        <5>4. QED
          BY <1>4, <2>3, <5>2, <5>3
      <4>3. QED
        BY <1>2, <4>1, <4>2
    <3>2. U(k) \in SUBSET Calls /\ U(k)' \in SUBSET Calls
      BY <1>3, <3>1
    <3>3. Cardinality(U(k)') <= Cardinality(U(k)) /\ Cardinality(U(k)') \in Nat /\ Cardinality(U(k)) \in Nat
      BY <3>1, <3>2, CallsSubset, CallsFinite
    <3>4. Cardinality(U(k)') <= sum'[r]
      BY <2>2, <2>3, <3>3
    <3>5. CountedBelow(at[r])' = CountedBelow(k)'
      BY <2>1, <2>3 DEF CountedBelow
    <3>6. QED
      BY <3>4, <3>5
  <2>4. CASE /\ Quiet /\ pc[r] \in {"idle", "sum"} /\ met[r] \subseteq met'[r]
             /\ sum'[r] = sum[r] + kv[at[r]] /\ at'[r] = at[r] + 1
    <3>1. Cardinality(CountedBelow(k + 1) \ (overwritten \cup met'[r])) <= sum[r] + kv[k]
      BY <1>1, <1>3, <2>1, <2>2, <2>4, SummedSoFar DEF NeverFarBelow
    <3>2. CountedBelow(at[r])' = CountedBelow(k + 1)'
      BY <2>1, <2>4 DEF CountedBelow
    <3>3. CountedBelow(k + 1)' = CountedBelow(k + 1) /\ overwritten' = overwritten
      BY <2>4, CountedSets DEF Quiet
    <3>4. QED
      BY <2>1, <2>4, <3>1, <3>2, <3>3
  <2>5. QED
    BY <1>2, <1>7, <2>3, <2>4 DEF ReadsShard
<1>8. \A r \in Calls : pc'[r] = "sum" => InFlight' \ {r} \subseteq met'[r]
  BY MeetStep
<1>9. QED
  BY <1>5, <1>6, <1>7, <1>8 DEF NeverFarBelow

(* The step that lets a request through, by the counters it has read. *)
LEMMA AdmitStep ==
  ASSUME RateTypeInv, [RateNext]_rateVars, NEW q \in Calls,
         kind # "tripwire", q \notin Admitted, q \in Admitted'
  PROVE  /\ kind' = kind /\ InFlight \ {q} \subseteq met'[q] /\ met[q] \subseteq met'[q]
         /\ \A r \in Calls \ {q} : pc'[r] = pc[r] /\ target'[r] = target[r]
         /\ \/ kind # "sharded" /\ target'[q] = target[q] /\ kv[target[q]] < cap[q]
            \/ /\ kind = "sharded" /\ pc[q] \in {"idle", "sum"} /\ at[q] + 1 = ShardCount
               /\ sum[q] + kv[at[q]] < cap[q]
<1> USE DEF RateTypeInv
<1>0. /\ pc \in [Calls -> Stages] /\ kv[target[q]] \in Nat /\ cap[q] \in Nat
      /\ pc[q] \in {"idle", "sum"} => sum[q] + kv[at[q]] \in Nat
      /\ target \in [Calls -> Keys]
  <2>1. target \in [Calls -> Keys] /\ cap[q] \in Nat /\ pc \in [Calls -> Stages]
    BY RateLimitAssumption DEF RateTypeOK, Keys
  <2>2. pc[q] \in {"idle", "sum"} => sum[q] + kv[at[q]] \in Nat
    BY DEF RateTypeOK, StageInv, Keys
  <2>3. QED
    BY <2>1, <2>2 DEF RateTypeOK
<1>1. pc'[q] # pc[q]
  <2>1. kind' = kind
    BY DEF RateNext, rateVars, get_customer_limit, read_client, read_tier, check_blind_issuance_sharded,
           check_kv_counter, check_attestation_nonce_rate, put_counter, set_tier, next_hour
  <2>2. QED
    BY <2>1 DEF Admitted
<1>2. CASE check_blind_issuance_sharded(q)
  <2>1. /\ kind = "sharded" /\ kind' = kind /\ Meet(q) /\ pc[q] \in {"idle", "sum"}
        /\ \A r \in Calls \ {q} : pc'[r] = pc[r] /\ target'[r] = target[r]
    BY <1>0, <1>2 DEF check_blind_issuance_sharded, Goto
  <2>2. at[q] + 1 = ShardCount /\ ~ AtLimit(q, sum[q] + kv[at[q]])
    BY <1>0, <1>2, <2>1 DEF check_blind_issuance_sharded, Goto, Admitted
  <2>3. sum[q] + kv[at[q]] < cap[q]
    BY <1>0, <2>1, <2>2 DEF AtLimit
  <2>4. QED
    BY <2>1, <2>2, <2>3 DEF Meet
<1>3. CASE check_kv_counter(q)
  <2>1. kind # "sharded"
    BY <1>3 DEF check_kv_counter, Admitted
  <2>2. Meet(q) /\ kind' = kind /\ target' = target /\ \A r \in Calls \ {q} : pc'[r] = pc[r]
    BY <1>0, <1>3, <2>1 DEF check_kv_counter, Goto
  <2>3. ~ AtLimit(q, kv[target[q]])
    BY <1>0, <1>3, <2>1 DEF check_kv_counter, Goto, Admitted
  <2>4. kv[target[q]] < cap[q]
    BY <1>0, <2>3 DEF AtLimit
  <2>5. QED
    BY <2>1, <2>2, <2>4 DEF Meet
<1>4. check_blind_issuance_sharded(q) \/ check_kv_counter(q)
  <2>1. ASSUME UNCHANGED rateVars PROVE FALSE
    BY <1>1, <2>1 DEF rateVars
  <2>2. ASSUME NEW r \in Calls, r # q,
               \/ get_customer_limit(r) \/ read_client(r) \/ read_tier(r)
               \/ check_blind_issuance_sharded(r) \/ check_kv_counter(r)
               \/ check_attestation_nonce_rate(r) \/ put_counter(r)
        PROVE  FALSE
    BY <1>0, <1>1, <2>2 DEF get_customer_limit, read_client, read_tier, check_attestation_nonce_rate,
       check_blind_issuance_sharded, check_kv_counter, put_counter, Goto
  <2>3. ASSUME \/ get_customer_limit(q) \/ read_client(q) \/ read_tier(q)
               \/ check_attestation_nonce_rate(q) \/ put_counter(q)
        PROVE  FALSE
    BY <1>0, <2>3 DEF get_customer_limit, read_client, read_tier, check_attestation_nonce_rate,
       put_counter, Goto, Admitted, StageInv
  <2>4. ASSUME next_hour \/ \E t \in Tiers \cup {NoTier} : set_tier(t) PROVE FALSE
    BY <1>1, <2>4 DEF next_hour, set_tier
  <2>5. QED
    BY <2>1, <2>2, <2>3, <2>4 DEF RateNext
<1>5. QED
  BY <1>2, <1>3, <1>4

(* The bound of AdmitBound, for one request and one step. *)
LEMMA AdmitBoundStep ==
  ASSUME RateTypeInv, RateTypeInv', NeverFarBelow, [RateNext]_rateVars, NEW q \in Calls,
         kind # "tripwire", q \notin Admitted, q \in Admitted'
  PROVE  Cardinality((Admitted \cap Peers(q))')
           <= cap[q] + Cardinality(met'[q]) + Cardinality(Uncounted) + Cardinality(overwritten)
<1>1. /\ kind' = kind /\ InFlight \ {q} \subseteq met'[q] /\ met[q] \subseteq met'[q]
      /\ \A r \in Calls \ {q} : pc'[r] = pc[r] /\ target'[r] = target[r]
      /\ \/ kind # "sharded" /\ target'[q] = target[q] /\ kv[target[q]] < cap[q]
         \/ /\ kind = "sharded" /\ pc[q] \in {"idle", "sum"} /\ at[q] + 1 = ShardCount
            /\ sum[q] + kv[at[q]] < cap[q]
  BY AdmitStep
<1>2. /\ met'[q] \in SUBSET Calls /\ Uncounted \in SUBSET Calls /\ overwritten \in SUBSET Calls
      /\ cap[q] \in Nat /\ kv \in [Keys -> Nat] /\ target[q] \in Keys
  BY RateLimitAssumption DEF RateTypeInv, RateTypeOK, Keys, Uncounted
(* The others let through: counted and in nobody's way, or in one of the three sets. *)
<1>3. ASSUME NEW G \in SUBSET Calls, q \notin G, Cardinality(G) + 1 <= cap[q],
             (Admitted \cap Peers(q))' \subseteq (((G \cup {q}) \cup met'[q]) \cup Uncounted) \cup overwritten
      PROVE  Cardinality((Admitted \cap Peers(q))')
               <= cap[q] + Cardinality(met'[q]) + Cardinality(Uncounted) + Cardinality(overwritten)
  <2> DEFINE H == G \cup {q}
             I == H \cup met'[q]
             J == I \cup Uncounted
             K == J \cup overwritten
             A == (Admitted \cap Peers(q))'
  <2>1. H \in SUBSET Calls /\ I \in SUBSET Calls /\ J \in SUBSET Calls /\ K \in SUBSET Calls
        /\ A \in SUBSET K
    BY <1>2, <1>3
  <2>2. Cardinality(H) = Cardinality(G) + 1
    BY <1>3, CallsAdd
  <2>3. Cardinality(I) <= Cardinality(H) + Cardinality(met'[q])
    BY <1>2, <2>1, CallsUnion
  <2>4. Cardinality(J) <= Cardinality(I) + Cardinality(Uncounted)
    BY <1>2, <2>1, CallsUnion
  <2>5. Cardinality(K) <= Cardinality(J) + Cardinality(overwritten)
    BY <1>2, <2>1, CallsUnion
  <2>6. Cardinality(A) <= Cardinality(K)
    BY <2>1, CallsSubset
  <2>7. /\ Cardinality(G) \in Nat /\ Cardinality(H) \in Nat /\ Cardinality(I) \in Nat
        /\ Cardinality(J) \in Nat /\ Cardinality(K) \in Nat /\ Cardinality(met'[q]) \in Nat
        /\ Cardinality(Uncounted) \in Nat /\ Cardinality(overwritten) \in Nat
    BY <1>2, <2>1, CallsFinite
  <2>8. A \in SUBSET Calls
    BY <2>1
  <2>9. Cardinality(A) \in Nat
    BY <2>8, CallsFinite
  <2>10. Cardinality(G) + 1 <= cap[q]
    BY <1>3
  <2> HIDE DEF A, H, I, J, K
  <2>11. Cardinality(A) <= cap[q] + Cardinality(met'[q]) + Cardinality(Uncounted) + Cardinality(overwritten)
    BY <1>2, <2>2, <2>3, <2>4, <2>5, <2>6, <2>7, <2>9, <2>10
  <2>12. QED
    BY <2>11 DEF A
<1>4. CASE kind # "sharded" /\ target'[q] = target[q] /\ kv[target[q]] < cap[q]
  <2> DEFINE G == CountedOn(target[q]) \ overwritten
  <2>1. G \in SUBSET Calls /\ q \notin G
    BY DEF CountedOn, Counted, Admitted
  <2>2. Cardinality(G) <= kv[target[q]] /\ kv[target[q]] \in Nat
    BY <1>2 DEF NeverFarBelow
  <2>3. Cardinality(G) \in Nat
    BY <2>1, CallsFinite
  <2>4. Cardinality(G) + 1 <= cap[q]
    BY <1>2, <1>4, <2>2, <2>3
  <2>5. ASSUME NEW r \in (Admitted \cap Peers(q))'
        PROVE  r \in G \cup {q} \/ r \in met'[q] \/ r \in Uncounted \/ r \in overwritten
    <3>1. SUFFICES ASSUME r # q
                   PROVE  r \in G \cup {q} \/ r \in met'[q] \/ r \in Uncounted \/ r \in overwritten
      OBVIOUS
    <3>2. r \in Calls /\ pc[r] \in {"put", "counted", "uncounted"}
      BY <1>1, <1>4, <2>5, <3>1 DEF Admitted
    <3>3. target[r] = target[q]
      <4>1. CASE kind = "quota"
        BY <1>1, <1>4, <2>5, <3>1, <3>2, <4>1 DEF Peers
      <4>2. CASE kind # "quota"
        <5>1. kind \in {"plain", "tripwire"}
          BY <1>4, <4>2, RateLimitAssumption DEF RateTypeInv, RateTypeOK
        <5>2. QED
          BY <3>2, <5>1 DEF RateTypeInv, StageInv
      <4>3. QED
        BY <4>1, <4>2
    <3>4. CASE pc[r] = "put"
      BY <1>1, <3>1, <3>2, <3>4 DEF InFlight
    <3>5. CASE pc[r] = "uncounted"
      BY <3>2, <3>5 DEF Uncounted
    <3>6. CASE pc[r] = "counted"
      BY <3>2, <3>3, <3>6 DEF CountedOn, Counted
    <3>7. QED
      BY <3>2, <3>4, <3>5, <3>6
  <2>6. QED
    BY <1>3, <2>1, <2>4, <2>5
<1>5. CASE /\ kind = "sharded" /\ pc[q] \in {"idle", "sum"} /\ at[q] + 1 = ShardCount
           /\ sum[q] + kv[at[q]] < cap[q]
  <2>1. PICK k \in Nat : k = at[q] /\ k \in Keys
    BY <1>5 DEF RateTypeInv, RateTypeOK, StageInv, Keys, Shards
  <2> DEFINE G == CountedBelow(k + 1) \ (overwritten \cup met'[q])
  <2>2. G \in SUBSET Calls /\ q \notin G
    BY DEF CountedBelow, Counted, Admitted
  <2>3. kv[k] \in Nat /\ sum[q] \in Nat
    BY <1>2, <2>1 DEF RateTypeInv, RateTypeOK
  <2>4. Cardinality(CountedBelow(k) \ (overwritten \cup met[q])) <= sum[q]
    <3>1. CASE pc[q] = "idle"
      <4>1. k = 0 /\ sum[q] = 0 /\ \A r \in Calls : target[r] \in Nat
        BY <2>1, <3>1 DEF RateTypeInv, RateTypeOK, StageInv, Shards, Hours
      <4>2. CountedBelow(k) \ (overwritten \cup met[q]) = {}
        BY <4>1 DEF CountedBelow, Counted
      <4>3. Cardinality(CountedBelow(k) \ (overwritten \cup met[q])) = 0
        BY ONLY <4>2, FS_EmptySet, Zenon
      <4>4. QED
        BY ONLY <4>1, <4>3
    <3>2. CASE pc[q] = "sum"
      <4>1. Cardinality(CountedBelow(at[q]) \ (overwritten \cup met[q])) <= sum[q]
        BY <3>2 DEF NeverFarBelow
      <4>2. QED
        BY <2>1, <4>1
    <3>3. QED
      BY <1>5, <3>1, <3>2
  <2>5. Cardinality(CountedOn(k) \ overwritten) <= kv[k]
    BY <2>1 DEF NeverFarBelow
  <2>6. Cardinality(G) <= sum[q] + kv[k]
    BY <1>1, <2>3, <2>4, <2>5, SummedSoFar
  <2>7. Cardinality(G) \in Nat
    BY <2>2, CallsFinite
  <2>8. Cardinality(G) + 1 <= cap[q]
    BY <1>2, <1>5, <2>1, <2>3, <2>6, <2>7
  <2>9. ASSUME NEW r \in (Admitted \cap Peers(q))'
        PROVE  r \in G \cup {q} \/ r \in met'[q] \/ r \in Uncounted \/ r \in overwritten
    <3>1. SUFFICES ASSUME r # q
                   PROVE  r \in G \cup {q} \/ r \in met'[q] \/ r \in Uncounted \/ r \in overwritten
      OBVIOUS
    <3>2. r \in Calls /\ pc[r] \in {"count", "put", "counted", "uncounted"}
      BY <1>1, <1>5, <2>9, <3>1 DEF Admitted
    <3>3. CASE pc[r] \in {"count", "put"}
      BY <1>1, <1>5, <3>1, <3>2, <3>3 DEF InFlight
    <3>4. CASE pc[r] = "uncounted"
      BY <3>2, <3>4 DEF Uncounted
    <3>5. CASE pc[r] = "counted"
      <4>1. target[r] < k + 1
        BY <1>5, <2>1, <3>2, RateLimitAssumption DEF RateTypeInv, RateTypeOK, Shards
      <4>2. QED
        BY <3>2, <3>5, <4>1 DEF CountedBelow, Counted
    <3>6. QED
      BY <3>2, <3>3, <3>4, <3>5
  <2>10. QED
    BY <1>3, <2>2, <2>8, <2>9
<1>6. QED
  BY <1>1, <1>4, <1>5

(* How far a cap leaks: for any number of requests, shards, isolates and
   hours, and any loss and delay of KV writes, the requests let through exceed
   the limit by no more than those met during the check, left uncounted, or
   wiped out by a later write. *)
THEOREM AdmitBoundHolds == RateSpec => AdmitBound
<1> DEFINE Inv == RateTypeInv /\ NeverFarBelow
           Bounded == \A q \in Calls :
             (kind # "tripwire" /\ q \notin Admitted /\ q \in Admitted') =>
               Cardinality(Admitted' \cap Peers(q)')
                 <= cap[q] + Cardinality(met'[q]) + Cardinality(Uncounted) + Cardinality(overwritten)
<1>1. RateInit => Inv
  <2> SUFFICES ASSUME RateInit PROVE Inv
    OBVIOUS
  <2>1. ASSUME NEW k \in Keys PROVE Cardinality(CountedOn(k) \ overwritten) <= kv[k]
    <3>1. CountedOn(k) \ overwritten = {} /\ kv[k] = 0
      BY DEF RateInit, CountedOn, Counted
    <3>2. QED
      BY <3>1, FS_EmptySet
  <2>2. NeverFarBelow
    BY <2>1 DEF RateInit, NeverFarBelow
  <2>3. QED
    BY <2>2, RateTypeInit
<1>2. Inv /\ [RateNext]_rateVars => Inv'
  BY RateTypeStep, NeverFarBelowStep
<1>3. Inv /\ Inv' /\ [RateNext]_rateVars => [Bounded]_rateVars
  <2> SUFFICES ASSUME Inv, Inv', [RateNext]_rateVars PROVE Bounded
    OBVIOUS
  <2>1. QED
    BY AdmitBoundStep
<1>4. AdmitBound <=> [][Bounded]_rateVars
  BY DEF AdmitBound
<1> HIDE DEF Inv, Bounded
<1>5. QED
  BY <1>1, <1>2, <1>3, <1>4, PTL DEF RateSpec
=============================================================================
