-------------------------- MODULE KeyRotationProofs --------------------------
(***************************************************************************)
(* Signing key rotation for every number of rotations, signers and key     *)
(* versions, with stale reads, failing writes, abandoned requests and      *)
(* leases that run out at any time.  What needs every record to be         *)
(* readable by a rotation says so.                                         *)
(***************************************************************************)
EXTENDS KeyRotation, TLAPS, WellFoundedInduction

(* A set of naturals that is not empty has a least element. *)
LEMMA HasLeast ==
    ASSUME NEW S \in SUBSET Nat, S # {}
    PROVE  \E v \in S : \A w \in S : v <= w
<1> DEFINE R == OpToRel(<, Nat)
<1>1. IsWellFoundedOn(R, Nat)
  BY NatLessThanWellFounded
<1>2. PICK v \in S : \A w \in S : ~(<<w, v>> \in R)
  BY <1>1, WFMin
<1>3. \A w \in S : <<w, v>> \in R <=> w < v
  BY DEF OpToRel
<1> HIDE DEF R
<1>4. \A w \in S : ~(w < v)
  BY <1>2, <1>3, Zenon
<1>5. \A w \in S : v <= w
  BY <1>4
<1>6. QED
  BY <1>5

(* The first of a set of versions is one of them. *)
LEMMA FirstIsMember ==
    ASSUME NEW S \in SUBSET Versions, S # {}
    PROVE  First(S) \in S
<1>1. S \in SUBSET Nat
  BY KeyRotationAssumption DEF Versions
<1>2. \E v \in S : \A w \in S : v <= w
  BY <1>1, HasLeast
<1>3. QED
  BY <1>2 DEF First

(* The last of a set of versions is one of them, and none is higher. *)
LEMMA LastIsGreatest ==
    ASSUME NEW S \in SUBSET Versions, S # {}
    PROVE  Last(S) \in S /\ \A w \in S : Last(S) >= w
<1> DEFINE T == {MaxVersion - v : v \in S}
<1>1. T \subseteq Nat
  BY KeyRotationAssumption DEF Versions
<1>2. T # {}
  OBVIOUS
<1>3. PICK u \in T : \A w \in T : u <= w
  BY <1>1, <1>2, HasLeast
<1>4. PICK v \in S : u = MaxVersion - v
  OBVIOUS
<1>5. ASSUME NEW w \in S PROVE v >= w
  <2>1. MaxVersion - w \in T
    OBVIOUS
  <2> HIDE DEF T
  <2>2. MaxVersion - v <= MaxVersion - w
    BY <1>3, <1>4, <2>1
  <2>3. QED
    BY <2>2, KeyRotationAssumption DEF Versions
<1>6. QED
  BY <1>5 DEF Last

(* The versions a map holds, those active in it and those a signer may take. *)
LEMMA ActiveType ==
    ASSUME NEW m
    PROVE  /\ Present(m) \in SUBSET Versions
           /\ ActiveIn(m) \in SUBSET Versions
           /\ Selectable(m) \in SUBSET Versions
           /\ Selectable(m) \subseteq ActiveIn(m)
BY DEF Present, ActiveIn, Selectable

(* The version a new key gets is above every record that was read. *)
LEMMA NextVersionAbove ==
    ASSUME NEW m \in [Versions -> Record \cup {NoRecord}],
           next_version_from_keys(m) \in Versions
    PROVE  \A v \in Present(m) : next_version_from_keys(m) > v
<1>1. CASE Present(m) = {}
  BY <1>1
<1>2. CASE Present(m) # {}
  <2>1. \A v \in Present(m) : Last(Present(m)) >= v
    BY <1>2, LastIsGreatest DEF Present
  <2>2. next_version_from_keys(m) = Last(Present(m)) + 1
    BY <1>2 DEF next_version_from_keys
  <2>3. Last(Present(m)) \in Versions
    BY <1>2, LastIsGreatest DEF Present
  <2>4. QED
    BY <2>1, <2>2, <2>3, KeyRotationAssumption DEF Versions, Present
<1>3. QED
  BY <1>1, <1>2

-----------------------------------------------------------------------------

(* An active record is a record, and writing it back deprecated keeps its
   key. *)
LEMMA DeprecateForm ==
    ASSUME NEW rec \in Record \cup {NoRecord}, rec.status = Active
    PROVE  /\ rec \in Record
           /\ Deprecate(rec) \in Record
           /\ Deprecate(rec) # NoRecord
           /\ Deprecate(rec).status = Deprecated
           /\ Deprecate(rec).key = rec.key
           /\ [rec EXCEPT !.status = Deprecated] \in Record
           /\ [rec EXCEPT !.status = Deprecated] # NoRecord
           /\ [rec EXCEPT !.status = Deprecated].key = rec.key
           /\ [rec EXCEPT !.status = Deprecated].status = Deprecated
<1>1. rec \in Record
  BY DEF NoRecord, Active
<1>2. QED
  BY <1>1 DEF Record, NoRecord, Deprecate, Active, Deprecated, Shapes

(* The record of a new key. *)
LEMMA NewRecordForm ==
    ASSUME NEW k \in Nat
    PROVE  LET rec == [status |-> Active, key |-> k, shape |-> "rotated", expired |-> FALSE]
           IN  /\ rec \in Record
               /\ rec # NoRecord
               /\ rec.status = Active
               /\ Usable(rec)
BY DEF Record, NoRecord, Active, Deprecated, Shapes, Usable

(* A put keeps the types of what it writes. *)
LEMMA PutType ==
    ASSUME TypeOK, NEW r \in Rotators, NEW v \in Versions, NEW rec \in Record,
           Put(r, v, rec)
    PROVE  /\ kv' \in [Versions -> Record \cup {NoRecord}]
           /\ older' \in [Versions -> SUBSET (Record \cup {NoRecord})]
           /\ dropped' \subseteq Nat
<1>1. kv[v] \in Record \cup {NoRecord} /\ older[v] \in SUBSET (Record \cup {NoRecord})
  BY DEF TypeOK
<1>2. kv' \in [Versions -> Record \cup {NoRecord}]
  BY DEF Put, TypeOK
<1>3. (older[v] \cup {kv[v]}) \ {rec} \in SUBSET (Record \cup {NoRecord})
  BY <1>1
<1>4. older' = [older EXCEPT ![v] = (older[v] \cup {kv[v]}) \ {rec}]
  BY DEF Put
<1>5. older' \in [Versions -> SUBSET (Record \cup {NoRecord})]
  BY <1>3, <1>4 DEF TypeOK
<1>6. kv[v].key \in Nat
  BY <1>1 DEF Record, NoRecord
<1>7. dropped' \subseteq Nat
  BY <1>6 DEF Put, TypeOK
<1>8. QED
  BY <1>2, <1>5, <1>7

(* What may be read of a version is a record, or that there is none. *)
LEMMA ReadableType ==
    ASSUME TypeOK, NEW v \in Versions
    PROVE  Readable(v) \subseteq Record \cup {NoRecord}
BY DEF TypeOK, Readable

(* Every variable of KeyRotation keeps its type, whatever requests do. *)
LEMMA TypeStep == TypeOK /\ [Next]_vars => TypeOK'
<1> SUFFICES ASSUME TypeOK, [Next]_vars PROVE TypeOK'
  OBVIOUS
<1> USE KeyRotationAssumption DEF TypeOK, Goto, Requests, Locks, store, history
<1>0. Nothing \in [Versions -> Record \cup {NoRecord}]
  BY DEF Nothing
<1>1. CASE UNCHANGED vars
  BY <1>1 DEF vars
<1>2. ASSUME NEW q \in Requests, list_keys(q) PROVE TypeOK'
  <2>1. names' \in [Requests -> SUBSET Versions]
    BY <1>2 DEF list_keys, Listings
  <2>2. clean' \subseteq Rotators
    BY <1>2 DEF list_keys, Inside
  <2>3. got' \in [Requests -> [Versions -> Record \cup {NoRecord}]]
    BY <1>0, <1>2 DEF list_keys
  <2>4. QED
    BY <1>2, <2>1, <2>2, <2>3 DEF list_keys
<1>3. ASSUME NEW q \in Requests, load_key_record(q) PROVE TypeOK'
  <2> DEFINE v == First(names[q])
  <2>1. v \in Versions
    BY <1>3, FirstIsMember DEF load_key_record
  <2>2. Readable(v) \subseteq Record \cup {NoRecord}
    BY <2>1, ReadableType
  <2>3. names' = [names EXCEPT ![q] = @ \ {v}]
        /\ ((\E rec \in Readable(v) : got' = [got EXCEPT ![q][v] = rec]) \/ UNCHANGED got)
    BY <1>3 DEF load_key_record
  <2> HIDE DEF v
  <2>4. got' \in [Requests -> [Versions -> Record \cup {NoRecord}]]
    <3>1. ASSUME NEW rec \in Readable(v), got' = [got EXCEPT ![q][v] = rec]
          PROVE  got' \in [Requests -> [Versions -> Record \cup {NoRecord}]]
      <4>1. rec \in Record \cup {NoRecord}
        BY <2>2, <3>1
      <4>2. QED
        BY <2>1, <3>1, <4>1
    <3>2. CASE UNCHANGED got
      BY <3>2
    <3>3. QED
      BY <2>3, <3>1, <3>2
  <2>5. QED
    BY <1>3, <2>3, <2>4 DEF load_key_record
<1>4. ASSUME NEW r \in Rotators, Rotate(r) PROVE TypeOK'
  <2>1. CASE acquire_outer(r)
    BY <2>1 DEF acquire_outer
  <2>2. CASE acquire_inner(r)
    BY <2>2 DEF acquire_inner
  <2>3. CASE save_key_metadata(r)
    <3> DEFINE v == First(ActiveIn(got[r]))
    <3> HIDE DEF v
    <3>0. v \in ActiveIn(got[r])
      BY <2>3, FirstIsMember, ActiveType DEF save_key_metadata, v
    <3>1. v \in Versions /\ got[r][v].status = Active /\ got[r][v] \in Record \cup {NoRecord}
      BY <3>0 DEF ActiveIn
    <3>2. Deprecate(got[r][v]) \in Record /\ [got[r][v] EXCEPT !.status = Deprecated] \in Record
      BY <3>1, DeprecateForm
    <3>3. /\ Put(r, v, Deprecate(got[r][v])) \/ UNCHANGED <<store, dropped>>
          /\ got' = [got EXCEPT ![r][v].status = Deprecated] \/ Forget(r)
          /\ UNCHANGED pc \/ Goto(r, "release_inner")
          /\ lastOk' = 0 \/ UNCHANGED lastOk
      BY <2>3 DEF save_key_metadata, v
    <3>4. /\ kv' \in [Versions -> Record \cup {NoRecord}]
          /\ older' \in [Versions -> SUBSET (Record \cup {NoRecord})]
          /\ dropped' \subseteq Nat
      BY <3>1, <3>2, <3>3, PutType
    <3>5. got' \in [Requests -> [Versions -> Record \cup {NoRecord}]]
      BY <1>0, <3>1, <3>2, <3>3 DEF Forget
    <3>6. QED
      BY <2>3, <3>3, <3>4, <3>5 DEF save_key_metadata
  <2>4. CASE store_encrypted_key(r)
    <3> DEFINE v == next_version_from_keys(got[r])
               rec == [status |-> Active, key |-> fresh + 1, shape |-> "rotated",
                       expired |-> FALSE]
    <3>1. v \in Versions
      BY <2>4 DEF store_encrypted_key
    <3>2. rec \in Record
      BY NewRecordForm
    <3>3. /\ \/ /\ Put(r, v, rec)
                /\ fresh' = fresh + 1
                /\ strays' = IF r \in clean THEN {} ELSE strays \cup {fresh + 1}
                /\ base' = IF r \in clean THEN fresh + 1 ELSE base
             \/ UNCHANGED <<store, dropped, fresh, strays, base>>
          /\ lastOk' = v \/ lastOk' = 0
      BY <2>4 DEF store_encrypted_key
    <3> HIDE DEF v, rec
    <3>4. /\ kv' \in [Versions -> Record \cup {NoRecord}]
          /\ older' \in [Versions -> SUBSET (Record \cup {NoRecord})]
          /\ dropped' \subseteq Nat
      BY <3>1, <3>2, <3>3, PutType
    <3>5. fresh' \in Nat /\ base' \in Nat
      BY <3>3
    <3>6. strays' \subseteq Nat
      <4>1. strays \cup {fresh + 1} \subseteq Nat
        OBVIOUS
      <4>2. QED
        BY <3>3, <4>1
    <3>7. lastOk' \in Versions \cup {0}
      BY <3>1, <3>3
    <3>8. got' \in [Requests -> [Versions -> Record \cup {NoRecord}]]
      BY <1>0, <2>4 DEF store_encrypted_key, Forget
    <3>9. pc' \in [Requests -> {"start", "inner", "list", "load", "failed", "fetch",
                     "release_inner", "release_outer", "signed", "done"}]
      BY <2>4 DEF store_encrypted_key
    <3>10. QED
      BY <2>4, <3>4, <3>5, <3>6, <3>7, <3>8, <3>9 DEF store_encrypted_key
  <2>5. CASE rotation_failed(r)
    BY <2>5 DEF rotation_failed
  <2>6. CASE release_inner(r)
    BY <2>6 DEF release_inner, Release
  <2>7. CASE release_outer(r)
    BY <2>7 DEF release_outer, Release
  <2>8. CASE Crash(r)
    BY <1>0, <2>8 DEF Crash, Forget
  <2>9. QED
    BY <1>2, <1>3, <1>4, <2>1, <2>2, <2>3, <2>4, <2>5, <2>6, <2>7, <2>8 DEF Rotate
<1>5. ASSUME NEW s \in Signers, Sign(s) PROVE TypeOK'
  <2>1. CASE start_signing(s)
    BY <2>1 DEF start_signing
  <2>2. CASE get_active_signing_key(s)
    <3>1. Selectable(got[s]) # {} => First(Selectable(got[s])) \in Versions
      BY FirstIsMember, ActiveType
    <3>2. got' \in [Requests -> [Versions -> Record \cup {NoRecord}]]
      BY <1>0, <2>2 DEF get_active_signing_key, Forget
    <3>3. 0 \notin Versions
      BY DEF Versions
    <3>4. sel' \in [Requests -> Versions \cup {0}]
          /\ pc' \in [Requests -> {"start", "inner", "list", "load", "failed", "fetch",
                         "release_inner", "release_outer", "signed", "done"}]
      BY <2>2, <3>1 DEF get_active_signing_key
    <3>5. \A x \in Signers : pc'[x] = "fetch" => sel'[x] # 0
      BY <2>2, <3>1, <3>3 DEF get_active_signing_key
    <3>6. QED
      BY <2>2, <3>2, <3>4, <3>5 DEF get_active_signing_key
  <2>3. CASE get_signing_keypair(s)
    <3>1. sig' \in [Requests -> Nat]
      <4>1. CASE UNCHANGED sig
        BY <4>1
      <4>2. CASE ~UNCHANGED sig
        <5>1. PICK rec \in Readable(sel[s]) : Usable(rec) /\ sig' = [sig EXCEPT ![s] = rec.key]
          BY <2>3, <4>2 DEF get_signing_keypair
        <5>2. sel[s] \in Versions
          BY <2>3 DEF get_signing_keypair
        <5>3. rec \in Record \cup {NoRecord}
          BY <5>1, <5>2, ReadableType
        <5>4. rec.key \in Nat
          BY <5>3 DEF Record, NoRecord
        <5>5. QED
          BY <5>1, <5>4
      <4>3. QED
        BY <4>1, <4>2
    <3>2. QED
      BY <2>3, <3>1 DEF get_signing_keypair
  <2>4. QED
    BY <1>2, <1>3, <1>5, <2>1, <2>2, <2>3 DEF Sign
<1>6. ASSUME NEW k \in Locks, LeaseEnds(k) PROVE TypeOK'
  BY <1>6 DEF LeaseEnds
<1>7. ASSUME NEW v \in Versions, Propagate(v) PROVE TypeOK'
  BY <1>7 DEF Propagate
<1>8. QED
  BY <1>1, <1>4, <1>5, <1>6, <1>7 DEF Next

(* The types hold at the start. *)
LEMMA KeyRotationTypeInit == Init => TypeOK
<1> SUFFICES ASSUME Init PROVE TypeOK
  OBVIOUS
<1>1. strays \subseteq Nat
  BY KeyRotationAssumption DEF Init, ActiveIn, Record, NoRecord
<1>2. /\ kv \in [Versions -> Record \cup {NoRecord}]
      /\ older = [v \in Versions |-> {}]
      /\ holder = [k \in Locks |-> Nobody]
      /\ pc = [q \in Requests |-> "start"]
      /\ names = [q \in Requests |-> {}]
      /\ got = [q \in Requests |-> Nothing]
      /\ sel = [q \in Requests |-> 0]
      /\ fresh = MaxVersion /\ lastOk = 0 /\ clean = {} /\ base = 0 /\ spread = 0
      /\ sig = [q \in Requests |-> 0]
      /\ floor = [q \in Requests |-> 0]
      /\ dropped = {}
  BY KeyRotationAssumption DEF Init
<1>3. QED
  BY <1>1, <1>2, KeyRotationAssumption DEF TypeOK, Nothing, Requests

(* Type correctness of rotation, issuance and their leases. *)
THEOREM KeyRotationTypeCorrect == Spec => []TypeOK
BY KeyRotationTypeInit, TypeStep, PTL DEF Spec

-----------------------------------------------------------------------------

(* Between rotations, the key of the last one to end is the one to use.  A
   rotation that starts may deprecate it, and sets lastOk when it ends. *)
Recovered == (lastOk # 0 /\ Inside = {}) => Usable(kv[lastOk])

(* A rotation at work that ends sets lastOk: to its key, which it has just
   stored, or to 0. *)
LEMMA RecoveredStep ==
    ASSUME TypeOK, Recovered, [Next]_vars
    PROVE  Recovered'
<1> USE DEF Goto, Requests, store
<1>1. CASE UNCHANGED <<kv, pc, lastOk>>
  BY <1>1 DEF Recovered, Inside, Usable
<1>2. ASSUME NEW s \in Signers, Sign(s) PROVE Recovered'
  <2>1. UNCHANGED <<kv, lastOk>> /\ \A r \in Rotators : pc'[r] = pc[r]
    BY <1>2, KeyRotationAssumption DEF Sign, start_signing, list_keys, load_key_record,
       get_active_signing_key, get_signing_keypair, TypeOK
  <2>2. QED
    BY <2>1 DEF Recovered, Inside, Usable
<1>3. ASSUME NEW r \in Rotators, Rotate(r) PROVE Recovered'
  <2>1. CASE lastOk' = 0
    BY <2>1 DEF Recovered
  <2>2. CASE pc'[r] \in {"list", "load", "failed"}
    BY <2>2 DEF Recovered, Inside
  <2>3. CASE UNCHANGED <<kv, lastOk>> /\ r \notin Inside /\ \A x \in Rotators : x # r => pc'[x] = pc[x]
    BY <2>3 DEF Recovered, Inside, Usable
  <2>4. CASE store_encrypted_key(r) /\ lastOk' # 0
    <3> DEFINE v == next_version_from_keys(got[r])
               rec == [status |-> Active, key |-> fresh + 1, shape |-> "rotated",
                       expired |-> FALSE]
    <3>1. v \in Versions /\ lastOk' = v /\ kv' = [kv EXCEPT ![v] = rec]
      BY <2>4, KeyRotationAssumption DEF store_encrypted_key, Put, TypeOK, Versions
    <3>2. Usable(rec)
      BY DEF Usable
    <3> HIDE DEF v, rec
    <3>3. kv'[lastOk'] = rec
      BY <3>1 DEF TypeOK
    <3>4. QED
      BY <3>2, <3>3 DEF Recovered, Usable
  <2>5. ASSUME ~(lastOk' = 0), ~(pc'[r] \in {"list", "load", "failed"}),
               ~(store_encrypted_key(r) /\ lastOk' # 0)
        PROVE  UNCHANGED <<kv, lastOk>> /\ r \notin Inside
               /\ \A x \in Rotators : x # r => pc'[x] = pc[x]
    <3>1. CASE acquire_outer(r)
      BY <2>5, <3>1 DEF acquire_outer, TypeOK, Inside
    <3>2. CASE acquire_inner(r)
      BY <2>5, <3>2 DEF acquire_inner, TypeOK, Inside
    <3>3. CASE list_keys(r)
      BY <2>5, <3>3 DEF list_keys, TypeOK
    <3>4. CASE load_key_record(r)
      BY <2>5, <3>4 DEF load_key_record, TypeOK
    <3>5. CASE save_key_metadata(r)
      BY <2>5, <3>5 DEF save_key_metadata, Loaded, TypeOK
    <3>6. CASE rotation_failed(r)
      BY <2>5, <3>6 DEF rotation_failed
    <3>7. CASE release_inner(r)
      BY <2>5, <3>7 DEF release_inner, TypeOK, Inside
    <3>8. CASE release_outer(r)
      BY <2>5, <3>8 DEF release_outer, TypeOK, Inside
    <3>9. CASE Crash(r)
      BY <2>5, <3>9 DEF Crash
    <3>10. QED
      BY <1>3, <2>5, <3>1, <3>2, <3>3, <3>4, <3>5, <3>6, <3>7, <3>8, <3>9 DEF Rotate
  <2>6. QED
    BY <2>1, <2>2, <2>3, <2>4, <2>5
<1>4. ASSUME NEW k \in Locks, LeaseEnds(k) PROVE Recovered'
  BY <1>1, <1>4 DEF LeaseEnds
<1>5. ASSUME NEW v \in Versions, Propagate(v) PROVE Recovered'
  BY <1>1, <1>5 DEF Propagate
<1>6. QED
  BY <1>1, <1>2, <1>3, <1>4, <1>5 DEF Next, vars

(* A rotation that succeeds recovers from whatever the ones before it left:
   failed writes, abandoned requests and expired leases included. *)
THEOREM RotationRecoversHolds == Spec => []RotationRecovers
<1>1. Init => Recovered
  BY DEF Init, Recovered
<1>2. TypeOK /\ Recovered /\ [Next]_vars => Recovered'
  BY RecoveredStep
<1>3. Recovered => RotationRecovers
  BY DEF Recovered, RotationRecovers, AtRest, Inside
<1>4. QED
  BY <1>1, <1>2, <1>3, KeyRotationTypeCorrect, PTL DEF Spec

-----------------------------------------------------------------------------

(* A rotation can read every record: a lost read makes it assign a version
   again (see the run key_rotation_lost_read). *)
AllRead == LostReads \cap Rotators = {}

(* While a clean rotation is at work it holds the inner lease, and no other
   rotation is at work. *)
CleanAlone ==
    \A r \in clean :
      /\ pc[r] \notin {"start", "inner", "list"}
      /\ r \in Inside => Inside = {r} /\ holder[Inner] = r

(* What a rotation read of version v is what the store holds, except that a
   record it wrote back may have lost its shape. *)
Agrees(m, v) ==
    /\ m[v] = NoRecord <=> kv[v] = NoRecord
    /\ m[v].status = kv[v].status
    /\ m[v].key = kv[v].key

(* A clean rotation's view of the store is right but for what it has yet to
   load, and nothing it has yet to load can be read stale. *)
CleanView ==
    \A r \in clean : pc[r] = "load" =>
      /\ names[r] # {} => Settled
      /\ \A v \in Versions \ names[r] : Agrees(got[r], v)

(* No record that says active holds a key older than base, and none that can
   still be read one older than spread. *)
ActiveAbove ==
    /\ spread <= base
    /\ base <= fresh
    /\ \A v \in ActiveIn(kv) : kv[v].key >= base
    /\ \A v \in Versions : \A rec \in older[v] : rec.status = Active => rec.key >= spread

(* What signers started from and signed under. *)
SignerAbove ==
    \A s \in Signers :
      /\ floor[s] <= spread
      /\ pc[s] = "signed" => sig[s] >= floor[s]

(* The inductive invariant. *)
KeyInv ==
    /\ TypeOK
    /\ CleanAlone
    /\ CleanView
    /\ ActiveAbove
    /\ SignerAbove
    /\ OneActive
    /\ NoKeyDropped

(* No other rotation comes next to a clean one while its lease lasts. *)
LEMMA AloneStep ==
    ASSUME TypeOK, CleanAlone, [Next]_vars
    PROVE  CleanAlone'
<1> USE KeyRotationAssumption DEF Goto, Requests, CleanAlone, Inside, TypeOK, store, history
<1>1. CASE UNCHANGED <<pc, holder, clean>>
  BY <1>1
<1>2. ASSUME NEW s \in Signers, Sign(s) PROVE CleanAlone'
  <2>1. clean' = clean /\ holder' = holder /\ \A r \in Rotators : pc'[r] = pc[r]
    BY <1>2 DEF Sign, start_signing, list_keys, load_key_record,
       get_active_signing_key, get_signing_keypair
  <2>2. Inside' = Inside
    BY <2>1
  <2>3. QED
    BY <2>1, <2>2
<1>3. ASSUME NEW r \in Rotators, Rotate(r) PROVE CleanAlone'
  <2>1. CASE acquire_outer(r)
    BY <2>1 DEF acquire_outer, Locks, Outer, Inner
  <2>2. CASE acquire_inner(r)
    <3>1. CASE holder[Inner] = Nobody
      <4>1. \A x \in clean : x \notin Inside /\ x # r
        BY <2>2, <3>1 DEF acquire_inner
      <4>2. clean' = clean /\ \A x \in clean : pc'[x] = pc[x]
        BY <2>2, <4>1 DEF acquire_inner
      <4>3. QED
        BY <4>1, <4>2
    <3>2. CASE holder[Inner] # Nobody
      BY <2>2, <3>2 DEF acquire_inner
    <3>3. QED
      BY <3>1, <3>2
  <2>3. CASE list_keys(r)
    <3>1. holder' = holder /\ \A x \in Rotators : x # r => pc'[x] = pc[x]
      BY <2>3 DEF list_keys
    <3>2. pc[r] = "list" /\ pc'[r] \in {"load", "failed"}
      BY <2>3 DEF list_keys
    <3>3. Inside' = Inside
      BY <3>1, <3>2
    <3>4. clean' = clean \/ (clean' = clean \cup {r} /\ Inside = {r} /\ holder[Inner] = r)
      BY <2>3 DEF list_keys
    <3>5. \A x \in clean' : pc'[x] \notin {"start", "inner", "list"}
      BY <3>1, <3>2, <3>4
    <3> HIDE DEF Inside
    <3>6. QED
      BY <3>1, <3>3, <3>4, <3>5
  <2>4. CASE load_key_record(r) \/ rotation_failed(r) \/ Crash(r)
    BY <2>4 DEF load_key_record, rotation_failed, Crash
  <2>5. CASE save_key_metadata(r) \/ store_encrypted_key(r)
    BY <2>5 DEF save_key_metadata, store_encrypted_key
  <2>6. CASE release_inner(r)
    BY <2>6 DEF release_inner, Release, Locks, Outer, Inner
  <2>7. CASE release_outer(r)
    BY <2>7 DEF release_outer, Release, Locks, Outer, Inner
  <2>8. QED
    BY <1>3, <2>1, <2>2, <2>3, <2>4, <2>5, <2>6, <2>7 DEF Rotate
<1>4. ASSUME NEW k \in Locks, LeaseEnds(k) PROVE CleanAlone'
  BY <1>4 DEF LeaseEnds, Locks, Outer, Inner
<1>5. ASSUME NEW v \in Versions, Propagate(v) PROVE CleanAlone'
  BY <1>1, <1>5 DEF Propagate
<1>6. QED
  BY <1>1, <1>2, <1>3, <1>4, <1>5 DEF Next, vars

(* The facts that a step which writes no record must keep. *)
LEMMA QuietKeep ==
    ASSUME KeyInv, UNCHANGED <<store, fresh, strays, base, spread, dropped>>
    PROVE  ActiveAbove' /\ OneActive' /\ NoKeyDropped'
BY DEF KeyInv, ActiveAbove, OneActive, NoKeyDropped, ActiveIn, store

(* A listing of settled records names all of them; a clean rotation loads each
   as it is. *)
LEMMA ReadStep ==
    ASSUME AllRead, KeyInv, NEW q \in Requests, list_keys(q) \/ load_key_record(q)
    PROVE  CleanView' /\ SignerAbove'
<1> USE KeyRotationAssumption DEF Requests, Goto, store, history
<1>0. SignerAbove'
  <2>1. UNCHANGED <<floor, spread, sig>> /\ \A s \in Signers : pc'[s] = "signed" => pc[s] = "signed"
    BY DEF KeyInv, TypeOK, list_keys, load_key_record
  <2>2. QED
    BY <2>1 DEF KeyInv, SignerAbove
<1>1. CASE list_keys(q)
  <2> SUFFICES ASSUME NEW r \in clean', pc'[r] = "load"
               PROVE  /\ names'[r] # {} => Settled'
                      /\ \A v \in Versions \ names'[r] : Agrees(got[r], v)'
    BY <1>0 DEF CleanView
  <2>1. kv' = kv /\ older' = older
    BY <1>1 DEF list_keys
  <2>2. CASE r # q
    <3>1. r \in clean /\ pc[r] = "load" /\ names'[r] = names[r] /\ got'[r] = got[r]
      BY <1>1, <2>2 DEF list_keys, KeyInv, TypeOK
    <3>2. QED
      BY <2>1, <3>1 DEF KeyInv, CleanView, Settled, Agrees
  <2>3. CASE r = q
    <3>1. pc[q] = "list"
      BY <1>1 DEF list_keys
    <3>2. q \notin clean
      BY <3>1 DEF KeyInv, CleanAlone
    <3>3. Settled
      BY <1>1, <2>3, <3>2 DEF list_keys
    <3>4. PICK S \in Listings : names' = [names EXCEPT ![q] = S] /\ got' = [got EXCEPT ![q] = Nothing]
      BY <1>1, <2>3, <3>2 DEF list_keys
    <3>5. got'[q] = Nothing /\ names'[q] = S
      BY <3>4 DEF KeyInv, TypeOK
    <3>6. \A v \in Versions : Readable(v) = {kv[v]}
      BY <3>3 DEF Settled, Readable
    <3>7. \A v \in Versions \ S : kv[v] = NoRecord
      BY <3>6 DEF Listings
    <3>8. \A v \in Versions : Nothing[v] = NoRecord
      BY DEF Nothing
    <3>9. \A v \in Versions \ names'[r] : Agrees(got[r], v)'
      BY <2>1, <2>3, <3>5, <3>7, <3>8 DEF Agrees
    <3>10. QED
      BY <2>1, <3>3, <3>9 DEF Settled
  <2>4. QED
    BY <2>2, <2>3
<1>2. CASE load_key_record(q)
  <2> DEFINE v == First(names[q])
  <2> HIDE DEF v
  <2>1. v \in names[q] /\ v \in Versions
    BY <1>2, FirstIsMember DEF load_key_record, v, KeyInv, TypeOK
  <2>2. /\ names' = [names EXCEPT ![q] = @ \ {v}]
        /\ (\E rec \in Readable(v) : got' = [got EXCEPT ![q][v] = rec])
             \/ (q \in LostReads /\ UNCHANGED got)
        /\ UNCHANGED <<kv, older, pc, clean>>
    BY <1>2 DEF load_key_record, v
  <2> SUFFICES ASSUME NEW r \in clean, pc[r] = "load"
               PROVE  /\ names'[r] # {} => Settled'
                      /\ \A w \in Versions \ names'[r] : Agrees(got[r], w)'
    BY <1>0, <2>2 DEF CleanView
  <2>3. names[r] # {} => Settled
    BY DEF KeyInv, CleanView
  <2>4. names'[r] # {} => Settled'
    BY <2>1, <2>2, <2>3 DEF Settled, KeyInv, TypeOK
  <2>5. ASSUME NEW w \in Versions \ names'[r] PROVE Agrees(got[r], w)'
    <3>1. CASE r = q /\ w = v
      <4>1. Settled
        BY <2>1, <2>3, <3>1
      <4>2. Readable(v) = {kv[v]}
        BY <2>1, <4>1 DEF Settled, Readable
      <4>3. q \notin LostReads
        BY <3>1 DEF AllRead, KeyInv, TypeOK
      <4>4. got' = [got EXCEPT ![q][v] = kv[v]]
        BY <2>2, <4>2, <4>3
      <4>5. got'[r][w] = kv[w]
        BY <2>1, <3>1, <4>4 DEF KeyInv, TypeOK
      <4>6. QED
        BY <2>2, <4>5 DEF Agrees
    <3>2. CASE r # q \/ w # v
      <4>1. w \in Versions \ names[r] /\ got'[r][w] = got[r][w]
        BY <2>1, <2>2, <3>2 DEF KeyInv, TypeOK
      <4>2. Agrees(got[r], w)
        BY <4>1 DEF KeyInv, CleanView
      <4>3. QED
        BY <2>2, <4>1, <4>2 DEF Agrees
    <3>3. QED
      BY <3>1, <3>2
  <2>6. QED
    BY <2>4, <2>5
<1>3. QED
  BY <1>0, <1>1, <1>2

(* What a put replaces can still be read, and is no older than spread. *)
LEMMA PutOlder ==
    ASSUME KeyInv, NEW r, NEW v \in Versions, NEW rec, Put(r, v, rec)
    PROVE  \A w \in Versions : \A o \in older'[w] : o.status = Active => o.key >= spread
<1> SUFFICES ASSUME NEW w \in Versions, NEW o \in older'[w], o.status = Active
             PROVE  o.key >= spread
  OBVIOUS
<1>1. o \in older[w] \/ (w = v /\ o = kv[v])
  BY DEF Put, KeyInv, TypeOK
<1>2. CASE o \in older[w]
  BY <1>2 DEF KeyInv, ActiveAbove
<1>3. CASE w = v /\ o = kv[v]
  <2>1. v \in ActiveIn(kv)
    BY <1>3 DEF ActiveIn
  <2>2. kv[v].key >= base /\ base >= spread
    BY <2>1 DEF KeyInv, ActiveAbove, TypeOK
  <2>3. kv[v].key \in Nat /\ base \in Nat /\ spread \in Nat
    BY DEF KeyInv, TypeOK, Record, NoRecord
  <2>4. QED
    BY <1>3, <2>2, <2>3
<1>4. QED
  BY <1>1, <1>2, <1>3

(* Writing an active record back deprecated leaves fewer active records; what
   a clean rotation writes back is what is there, so its key stays. *)
LEMMA SaveStep ==
    ASSUME KeyInv, NEW r \in Rotators, save_key_metadata(r)
    PROVE  KeyInv'
<1> USE KeyRotationAssumption DEF Requests, Goto, store, history
<1>1. TypeOK' /\ CleanAlone'
  <2>1. Next
    BY DEF Next, Rotate
  <2>2. QED
    BY <2>1, TypeStep, AloneStep DEF KeyInv
<1> DEFINE v == First(ActiveIn(got[r]))
           rec == Deprecate(got[r][v])
           kept == [got[r][v] EXCEPT !.status = Deprecated]
<1>2. /\ UNCHANGED <<names, sel, fresh, sig, floor, clean, strays, base, spread>>
      /\ pc[r] = "load" /\ names[r] = {} /\ r \in Inside
      /\ \A q \in Requests : pc'[q] = pc[q] \/ (q = r /\ pc'[q] = "release_inner")
      /\ Put(r, v, rec) \/ UNCHANGED <<kv, older, dropped>>
  BY DEF save_key_metadata, Loaded, KeyInv, TypeOK, Inside
<1>3. \/ pc'[r] = "release_inner"
      \/ Put(r, v, rec) /\ got' = [got EXCEPT ![r][v] = kept]
  BY DEF save_key_metadata, KeyInv, TypeOK
<1> HIDE DEF v, rec, kept
<1>4. v \in ActiveIn(got[r])
  BY FirstIsMember, ActiveType DEF save_key_metadata, v
<1>5. v \in Versions /\ got[r][v] \in Record \cup {NoRecord} /\ got[r][v].status = Active
  BY <1>4 DEF ActiveIn, KeyInv, TypeOK
<1>6. /\ rec # NoRecord /\ rec.status = Deprecated /\ rec.key = got[r][v].key
      /\ kept # NoRecord /\ kept.status = Deprecated /\ kept.key = got[r][v].key
  BY <1>5, DeprecateForm DEF rec, kept
<1>7. SignerAbove'
  <2>1. \A s \in Signers : pc'[s] = pc[s]
    BY <1>2
  <2>2. QED
    BY <1>2, <2>1 DEF KeyInv, SignerAbove
<1>8. r \in clean => \A w \in Versions : Agrees(got[r], w)
  BY <1>2 DEF KeyInv, CleanView
<1>9. CASE UNCHANGED <<kv, older, dropped>>
  <2>1. ActiveAbove' /\ OneActive' /\ NoKeyDropped'
    BY <1>2, <1>9, QuietKeep
  <2>2. CleanView'
    <3> SUFFICES ASSUME NEW x \in clean, pc'[x] = "load"
                 PROVE  /\ names[x] # {} => Settled'
                        /\ \A w \in Versions \ names[x] : Agrees(got[x], w)'
      BY <1>2 DEF CleanView
    <3>1. x \in Rotators
      BY DEF KeyInv, TypeOK
    <3>2. pc[x] = "load"
      BY <1>2, <3>1
    <3>3. x \in Inside
      BY <3>1, <3>2 DEF Inside
    <3>4. x = r
      BY <1>2, <3>3 DEF KeyInv, CleanAlone
    <3>5. Put(r, v, rec) /\ got' = [got EXCEPT ![r][v] = kept]
      BY <1>3, <3>2, <3>4
    <3>6. kv[v] = rec
      BY <1>5, <1>9, <3>5 DEF Put, KeyInv, TypeOK
    <3>7. FALSE
      BY <1>5, <1>6, <1>8, <3>4, <3>6 DEF Agrees, Active, Deprecated
    <3>8. QED
      BY <3>7
  <2>3. QED
    BY <1>1, <1>7, <2>1, <2>2 DEF KeyInv
<1>10. CASE Put(r, v, rec)
  <2>1. kv' = [kv EXCEPT ![v] = rec]
    BY <1>10 DEF Put
  <2>2. kv'[v] = rec /\ \A w \in Versions \ {v} : kv'[w] = kv[w]
    BY <1>5, <2>1 DEF KeyInv, TypeOK
  <2>3. ActiveIn(kv') \subseteq ActiveIn(kv) /\ \A w \in ActiveIn(kv') : kv'[w] = kv[w]
    BY <1>6, <2>2 DEF ActiveIn, Active, Deprecated
  <2>4. ActiveAbove'
    <3>1. \A w \in ActiveIn(kv') : kv'[w].key >= base
      BY <2>3 DEF KeyInv, ActiveAbove
    <3>2. \A w \in Versions : \A o \in older'[w] : o.status = Active => o.key >= spread
      BY <1>5, <1>10, PutOlder
    <3>3. spread <= base /\ base <= fresh
      BY DEF KeyInv, ActiveAbove
    <3>4. QED
      BY <1>2, <3>1, <3>2, <3>3 DEF ActiveAbove
  <2>5. OneActive'
    BY <1>2, <2>3 DEF KeyInv, OneActive
  <2>6. NoKeyDropped'
    <3>1. r \in clean => kv[v].key = rec.key
      BY <1>5, <1>6, <1>8 DEF Agrees
    <3>2. QED
      BY <1>10, <3>1 DEF Put, KeyInv, NoKeyDropped
  <2>7. CleanView'
    <3> SUFFICES ASSUME NEW x \in clean, pc'[x] = "load"
                 PROVE  /\ names[x] # {} => Settled'
                        /\ \A w \in Versions \ names[x] : Agrees(got[x], w)'
      BY <1>2 DEF CleanView
    <3>1. x \in Rotators
      BY DEF KeyInv, TypeOK
    <3>2. pc[x] = "load"
      BY <1>2, <3>1
    <3>3. x \in Inside
      BY <3>1, <3>2 DEF Inside
    <3>4. x = r
      BY <1>2, <3>3 DEF KeyInv, CleanAlone
    <3>5. got' = [got EXCEPT ![r][v] = kept]
      BY <1>3, <3>2, <3>4
    <3>6. ASSUME NEW w \in Versions PROVE Agrees(got[r], w)'
      <4>1. Agrees(got[r], w)
        BY <1>8, <3>4
      <4>2. got'[r][w] = IF w = v THEN kept ELSE got[r][w]
        BY <1>5, <3>5 DEF KeyInv, TypeOK
      <4>3. CASE w = v
        <5>1. got'[r][w] = kept /\ kv'[w] = rec
          BY <2>2, <4>2, <4>3
        <5>2. QED
          BY <1>6, <5>1 DEF Agrees
      <4>4. CASE w # v
        <5>1. got'[r][w] = got[r][w] /\ kv'[w] = kv[w]
          BY <2>2, <4>2, <4>4
        <5>2. QED
          BY <4>1, <5>1 DEF Agrees
      <4>5. QED
        BY <4>3, <4>4
    <3>7. QED
      BY <1>2, <3>4, <3>6
  <2>8. QED
    BY <1>1, <1>7, <2>4, <2>5, <2>6, <2>7 DEF KeyInv
<1>11. QED
  BY <1>2, <1>9, <1>10

(* Storing the new key: the version a clean rotation gives it is above every
   record in the store, and none of those is active any more. *)
LEMMA StoreStep ==
    ASSUME KeyInv, NEW r \in Rotators, store_encrypted_key(r)
    PROVE  KeyInv'
<1> USE KeyRotationAssumption DEF Requests, Goto, store, history
<1>1. TypeOK' /\ CleanAlone'
  <2>1. Next
    BY DEF Next, Rotate
  <2>2. QED
    BY <2>1, TypeStep, AloneStep DEF KeyInv
<1>2. /\ UNCHANGED <<names, sig, floor, clean, spread>>
      /\ pc[r] = "load" /\ names[r] = {} /\ r \in Inside
      /\ \A q \in Requests : pc'[q] = IF q = r THEN "release_inner" ELSE pc[q]
  BY DEF store_encrypted_key, Loaded, KeyInv, TypeOK, Inside
<1>3. CleanView'
  <2> SUFFICES ASSUME NEW x \in clean, pc'[x] = "load" PROVE FALSE
    BY <1>2 DEF CleanView
  <2>1. x \in Rotators
    BY DEF KeyInv, TypeOK
  <2>2. x # r /\ pc[x] = "load"
    BY <1>2, <2>1
  <2>3. x \in Inside
    BY <2>1, <2>2 DEF Inside
  <2>4. QED
    BY <1>2, <2>2, <2>3 DEF KeyInv, CleanAlone
<1>4. SignerAbove'
  <2>1. \A s \in Signers : pc'[s] = pc[s]
    BY <1>2
  <2>2. QED
    BY <1>2, <2>1 DEF KeyInv, SignerAbove
<1>5. CASE UNCHANGED <<kv, older, dropped, fresh, strays, base>>
  BY <1>1, <1>2, <1>3, <1>4, <1>5, QuietKeep DEF KeyInv
<1>6. CASE ~UNCHANGED <<kv, older, dropped, fresh, strays, base>>
  <2> DEFINE v == next_version_from_keys(got[r])
             rec == [status |-> Active, key |-> fresh + 1, shape |-> "rotated",
                     expired |-> FALSE]
  <2>1. rec # NoRecord /\ rec.status = Active /\ rec.key = fresh + 1
    BY DEF NoRecord, Active
  <2> HIDE DEF v, rec
  <2>2. /\ v \in Versions
        /\ ActiveIn(got[r]) = {}
        /\ Put(r, v, rec)
        /\ fresh' = fresh + 1
        /\ strays' = IF r \in clean THEN {} ELSE strays \cup {fresh + 1}
        /\ base' = IF r \in clean THEN fresh + 1 ELSE base
    BY <1>6 DEF store_encrypted_key, v, rec
  <2>3. kv' = [kv EXCEPT ![v] = rec]
    BY <2>2 DEF Put
  <2>4. kv'[v] = rec /\ \A w \in Versions \ {v} : kv'[w] = kv[w]
    BY <2>2, <2>3 DEF KeyInv, TypeOK
  <2>5. \A w \in Versions : \A o \in older'[w] : o.status = Active => o.key >= spread
    BY <2>2, PutOlder
  <2>6. spread <= base /\ base <= fresh /\ fresh \in Nat /\ base \in Nat /\ spread \in Nat
    BY DEF KeyInv, ActiveAbove, TypeOK
  <2>7. spread <= base' /\ base' <= fresh'
    BY <2>2, <2>6
  <2>8. CASE r \in clean
    <3>1. \A w \in Versions : Agrees(got[r], w)
      BY <1>2, <2>8 DEF KeyInv, CleanView
    <3>2. Present(got[r]) = Present(kv) /\ ActiveIn(kv) = {}
      BY <2>2, <3>1 DEF Present, ActiveIn, Agrees
    <3>3. \A w \in Present(kv) : v > w
      BY <2>2, <3>2, NextVersionAbove DEF v, KeyInv, TypeOK
    <3>4. kv[v] = NoRecord
      BY <2>2, <3>3 DEF Present, Versions
    <3>5. ActiveIn(kv') \subseteq {v}
      BY <2>4, <3>2 DEF ActiveIn
    <3>6. NoKeyDropped'
      BY <2>2, <3>4 DEF Put, KeyInv, NoKeyDropped
    <3>7. \A w \in ActiveIn(kv') : kv'[w].key = fresh + 1
      BY <2>1, <2>4, <3>5
    <3>8. base' = fresh + 1
      BY <2>2, <2>8
    <3>9. ActiveAbove'
      <4>1. \A w \in ActiveIn(kv') : kv'[w].key >= base'
        BY <2>6, <3>7, <3>8
      <4>2. QED
        BY <1>2, <2>5, <2>7, <4>1 DEF ActiveAbove
    <3>10. OneActive'
      BY <3>5 DEF OneActive
    <3>11. QED
      BY <1>1, <1>3, <1>4, <3>6, <3>9, <3>10 DEF KeyInv
  <2>9. CASE r \notin clean
    <3>1. dropped' = dropped /\ strays' # {} /\ base' = base
      BY <2>2, <2>9 DEF Put
    <3>2. \A w \in ActiveIn(kv') : kv'[w].key >= base
      <4> SUFFICES ASSUME NEW w \in ActiveIn(kv') PROVE kv'[w].key >= base
        OBVIOUS
      <4>1. CASE w = v
        BY <2>1, <2>4, <2>6, <4>1
      <4>2. CASE w # v
        <5>1. w \in ActiveIn(kv) /\ kv'[w] = kv[w]
          BY <2>4, <4>2 DEF ActiveIn
        <5>2. QED
          BY <5>1 DEF KeyInv, ActiveAbove
      <4>3. QED
        BY <4>1, <4>2
    <3>3. ActiveAbove'
      BY <1>2, <2>5, <2>7, <3>1, <3>2 DEF ActiveAbove
    <3>4. OneActive' /\ NoKeyDropped'
      BY <3>1 DEF KeyInv, OneActive, NoKeyDropped
    <3>5. QED
      BY <1>1, <1>3, <1>4, <3>3, <3>4 DEF KeyInv
  <2>10. QED
    BY <2>8, <2>9
<1>7. QED
  BY <1>5, <1>6

(* A step that reads no record and writes none keeps the invariant when the
   views of the clean rotations at work stay as they are. *)
LEMMA QuietStep ==
    ASSUME KeyInv, [Next]_vars, UNCHANGED <<store, fresh, spread, strays, base, dropped, floor, sig>>,
           clean' \subseteq clean,
           \A r \in clean : pc'[r] = "load" => pc[r] = "load" /\ names'[r] = names[r] /\ got'[r] = got[r],
           \A s \in Signers : pc'[s] = "signed" => pc[s] = "signed"
    PROVE  KeyInv'
<1>1. TypeOK' /\ CleanAlone'
  BY TypeStep, AloneStep DEF KeyInv
<1>2. ActiveAbove' /\ OneActive' /\ NoKeyDropped'
  BY QuietKeep
<1>3. SignerAbove'
  BY DEF KeyInv, SignerAbove
<1>4. CleanView'
  BY DEF KeyInv, CleanView, Settled, Agrees, store
<1>5. QED
  BY <1>1, <1>2, <1>3, <1>4 DEF KeyInv

(* Issuance signs under no key older than what it started from. *)
LEMMA SignStep ==
    ASSUME KeyInv, NEW s \in Signers, get_signing_keypair(s)
    PROVE  KeyInv'
<1> USE KeyRotationAssumption DEF Requests, Goto
<1>1. Next
  BY DEF Next, Sign
<1>2. /\ UNCHANGED <<store, holder, names, got, fresh, spread, strays, base, dropped, floor, clean>>
      /\ \A q \in Requests : q # s => pc'[q] = pc[q] /\ sig'[q] = sig[q]
      /\ pc[s] = "fetch" /\ pc'[s] \in {"signed", "done"}
  BY DEF get_signing_keypair, KeyInv, TypeOK, history
<1>3. TypeOK' /\ CleanAlone'
  BY <1>1, TypeStep, AloneStep DEF KeyInv
<1>4. ActiveAbove' /\ OneActive' /\ NoKeyDropped'
  BY <1>2, QuietKeep
<1>5. CleanView'
  <2>1. \A r \in clean : r \in Requests /\ r # s
    BY DEF KeyInv, TypeOK
  <2>2. QED
    BY <1>2, <2>1 DEF KeyInv, CleanView, Settled, Agrees, store
<1>6. pc'[s] = "signed" => sig'[s] >= floor[s]
  <2> SUFFICES ASSUME pc'[s] = "signed" PROVE sig'[s] >= floor[s]
    OBVIOUS
  <2>1. PICK rec \in Readable(sel[s]) : Usable(rec) /\ sig' = [sig EXCEPT ![s] = rec.key]
    BY DEF get_signing_keypair, KeyInv, TypeOK
  <2>2. sel[s] \in Versions /\ sig'[s] = rec.key
    BY <1>2, <2>1 DEF KeyInv, TypeOK
  <2>3. rec.status = Active
    BY <2>1 DEF Usable
  <2>4. rec \in Record \cup {NoRecord}
    BY <2>1, <2>2, ReadableType DEF KeyInv
  <2>5. rec.key \in Nat /\ base \in Nat /\ spread \in Nat /\ floor[s] \in Nat
    BY <2>4 DEF KeyInv, TypeOK, Record, NoRecord
  <2>6. floor[s] <= spread /\ spread <= base
    BY DEF KeyInv, SignerAbove, ActiveAbove
  <2>7. rec.key >= base \/ rec.key >= spread
    <3>1. CASE rec = kv[sel[s]]
      <4>1. sel[s] \in ActiveIn(kv)
        BY <2>2, <2>3, <3>1 DEF ActiveIn
      <4>2. QED
        BY <3>1, <4>1 DEF KeyInv, ActiveAbove
    <3>2. CASE rec \in older[sel[s]]
      BY <2>2, <2>3, <3>2 DEF KeyInv, ActiveAbove
    <3>3. QED
      BY <2>1, <3>1, <3>2 DEF Readable
  <2>8. QED
    BY <2>2, <2>5, <2>6, <2>7
<1>7. SignerAbove'
  BY <1>2, <1>6 DEF KeyInv, SignerAbove
<1>8. QED
  BY <1>3, <1>4, <1>5, <1>7 DEF KeyInv

(* Propagation: once nothing replaced can be read, every active record is as
   new as base. *)
LEMMA PropagateStep ==
    ASSUME KeyInv, NEW v \in Versions, Propagate(v)
    PROVE  KeyInv'
<1>1. Next
  BY DEF Next
<1>2. /\ UNCHANGED <<kv, holder, pc, names, got, fresh, strays, base, dropped, floor, clean, sig>>
      /\ \A w \in Versions : older'[w] = IF w = v THEN {} ELSE older[w]
      /\ spread' = IF \A w \in Versions \ {v} : older[w] = {} THEN base ELSE spread
  BY DEF Propagate, KeyInv, TypeOK
<1>3. TypeOK' /\ CleanAlone'
  BY <1>1, TypeStep, AloneStep DEF KeyInv
<1>4. OneActive' /\ NoKeyDropped'
  BY <1>2 DEF KeyInv, OneActive, NoKeyDropped, ActiveIn
<1>5. Settled => Settled'
  BY <1>2 DEF Settled
<1>6. CleanView'
  BY <1>2, <1>5 DEF KeyInv, CleanView, Agrees
<1>7. spread <= base /\ spread \in Nat /\ base \in Nat
  BY DEF KeyInv, ActiveAbove, TypeOK
<1>8. spread <= spread' /\ spread' <= base
  BY <1>2, <1>7
<1>9. ActiveAbove'
  <2>1. \A w \in Versions : \A o \in older'[w] : o.status = Active => o.key >= spread'
    <3> SUFFICES ASSUME NEW w \in Versions, NEW o \in older'[w], o.status = Active
                 PROVE  o.key >= spread'
      OBVIOUS
    <3>1. w # v /\ o \in older[w]
      BY <1>2
    <3>2. spread' = spread
      BY <1>2, <3>1
    <3>3. QED
      BY <3>1, <3>2 DEF KeyInv, ActiveAbove
  <2>2. \A w \in ActiveIn(kv') : kv'[w].key >= base'
    BY <1>2 DEF KeyInv, ActiveAbove
  <2>3. QED
    BY <1>2, <1>8, <2>1, <2>2 DEF KeyInv, ActiveAbove
<1>10. SignerAbove'
  <2> SUFFICES ASSUME NEW s \in Signers PROVE floor[s] <= spread'
    BY <1>2 DEF KeyInv, SignerAbove
  <2>1. floor[s] <= spread /\ floor[s] \in Nat /\ spread' \in Nat
    BY <1>3 DEF KeyInv, SignerAbove, TypeOK, Requests
  <2>2. QED
    BY <1>7, <1>8, <2>1
<1>11. QED
  BY <1>3, <1>4, <1>6, <1>9, <1>10 DEF KeyInv

(* The invariant survives every step of every request, every lease end and
   every propagation. *)
LEMMA KeyInvStep == AllRead /\ KeyInv /\ [Next]_vars => KeyInv'
<1> SUFFICES ASSUME AllRead, KeyInv, [Next]_vars PROVE KeyInv'
  OBVIOUS
<1> USE KeyRotationAssumption DEF Requests, Goto
<1>1. TypeOK' /\ CleanAlone'
  BY TypeStep, AloneStep DEF KeyInv
<1>2. ASSUME NEW q \in Requests, list_keys(q) \/ load_key_record(q) PROVE KeyInv'
  <2>1. UNCHANGED <<store, fresh, strays, base, spread, dropped>>
    BY <1>2 DEF list_keys, load_key_record, history
  <2>2. QED
    BY <1>1, <1>2, <2>1, ReadStep, QuietKeep DEF KeyInv
<1>3. ASSUME NEW r \in Rotators, Rotate(r) PROVE KeyInv'
  <2>1. CASE acquire_outer(r) \/ acquire_inner(r) \/ rotation_failed(r)
    BY <2>1, QuietStep DEF acquire_outer, acquire_inner, rotation_failed, KeyInv, TypeOK, history
  <2>2. CASE release_inner(r) \/ release_outer(r)
    BY <2>2, QuietStep DEF release_inner, release_outer, KeyInv, TypeOK, history
  <2>3. CASE Crash(r)
    BY <2>3, QuietStep DEF Crash, Forget, KeyInv, TypeOK, history
  <2>4. QED
    BY <1>2, <1>3, <2>1, <2>2, <2>3, SaveStep, StoreStep DEF Rotate
<1>4. ASSUME NEW s \in Signers, Sign(s) PROVE KeyInv'
  <2>1. CASE start_signing(s)
    <3>1. UNCHANGED <<store, fresh, strays, base, spread, dropped, clean, names, got, sig>>
      BY <2>1 DEF start_signing, history
    <3>2. \A q \in Requests : q # s => pc'[q] = pc[q] /\ floor'[q] = floor[q]
      BY <2>1 DEF start_signing, KeyInv, TypeOK
    <3>3. floor'[s] = spread /\ pc'[s] = "list" /\ spread <= spread
      BY <2>1 DEF start_signing, KeyInv, TypeOK
    <3>4. SignerAbove'
      BY <3>1, <3>2, <3>3 DEF KeyInv, SignerAbove
    <3>5. \A r \in clean : r \in Requests /\ r # s
      BY DEF KeyInv, TypeOK
    <3>6. CleanView'
      BY <3>1, <3>2, <3>5 DEF KeyInv, CleanView, Settled, Agrees, store
    <3>7. QED
      BY <1>1, <3>1, <3>4, <3>6, QuietKeep DEF KeyInv
  <2>2. CASE get_active_signing_key(s)
    <3>1. UNCHANGED <<store, fresh, spread, strays, base, dropped, floor, sig, clean, names>>
      BY <2>2 DEF get_active_signing_key, history
    <3>2. \A q \in Requests : q # s => pc'[q] = pc[q] /\ got'[q] = got[q]
      BY <2>2 DEF get_active_signing_key, Forget, KeyInv, TypeOK
    <3>3. pc'[s] # "signed"
      BY <2>2 DEF get_active_signing_key, KeyInv, TypeOK
    <3>4. \A r \in clean : r \in Requests /\ r # s
      BY DEF KeyInv, TypeOK
    <3>5. QED
      BY <3>1, <3>2, <3>3, <3>4, QuietStep
  <2>3. QED
    BY <1>2, <1>4, <2>1, <2>2, SignStep DEF Sign
<1>5. ASSUME NEW k \in Locks, LeaseEnds(k) PROVE KeyInv'
  BY <1>5, QuietStep DEF LeaseEnds
<1>6. ASSUME NEW v \in Versions, Propagate(v) PROVE KeyInv'
  BY <1>6, PropagateStep
<1>7. CASE UNCHANGED vars
  BY <1>7, QuietStep DEF vars, history
<1>8. QED
  BY <1>3, <1>4, <1>5, <1>6, <1>7 DEF Next

(* The invariant holds at the start. *)
LEMMA KeyInvInit == Init => KeyInv
<1> SUFFICES ASSUME Init PROVE KeyInv
  OBVIOUS
<1>1. TypeOK
  BY KeyRotationTypeInit
<1>2. OneActive
  <2>1. CASE \A v, w \in ActiveIn(kv) : v = w
    BY <2>1 DEF OneActive
  <2>2. CASE ~(\A v, w \in ActiveIn(kv) : v = w)
    <3>1. PICK v \in ActiveIn(kv) : TRUE
      BY <2>2
    <3>2. strays = {kv[u].key : u \in ActiveIn(kv)}
      BY <2>2 DEF Init
    <3>3. kv[v].key \in strays
      BY <3>1, <3>2
    <3>4. QED
      BY <3>3 DEF OneActive
  <2>3. QED
    BY <2>1, <2>2
<1>3. /\ clean = {} /\ dropped = {} /\ base = 0 /\ spread = 0
      /\ fresh = MaxVersion
      /\ older = [v \in Versions |-> {}]
      /\ floor = [q \in Requests |-> 0]
      /\ pc = [q \in Requests |-> "start"]
  BY DEF Init
<1>4. CleanAlone /\ CleanView /\ NoKeyDropped
  BY <1>3 DEF CleanAlone, CleanView, NoKeyDropped
<1>5. SignerAbove
  BY <1>3 DEF SignerAbove, Requests
<1>6. ActiveAbove
  <2>1. \A v \in ActiveIn(kv) : kv[v].key \in Nat
    BY <1>1 DEF TypeOK, ActiveIn, Record, NoRecord
  <2>2. \A v \in ActiveIn(kv) : kv[v].key >= base
    BY <1>3, <2>1
  <2>3. QED
    BY <1>3, <2>2, KeyRotationAssumption DEF ActiveAbove
<1>7. QED
  BY <1>1, <1>2, <1>4, <1>5, <1>6 DEF KeyInv

(* While rotations can read every record, the invariant holds throughout. *)
LEMMA KeyInvHolds == ASSUME AllRead PROVE Spec => []KeyInv
<1>1. KeyInv /\ [Next]_vars => KeyInv'
  BY KeyInvStep
<1>2. QED
  BY <1>1, KeyInvInit, PTL DEF Spec

(* Two keys are active only after a rotation that read unsettled records,
   outlived its lease or was not alone, and until the next that is clean. *)
THEOREM OneActiveHolds == ASSUME AllRead PROVE Spec => []OneActive
BY KeyInvHolds, PTL DEF KeyInv

(* No clean rotation overwrites a key with another. *)
THEOREM NoKeyDroppedHolds == ASSUME AllRead PROVE Spec => []NoKeyDropped
BY KeyInvHolds, PTL DEF KeyInv

(* Nothing is signed under a key older than that of a clean rotation which had
   propagated when the signer started. *)
THEOREM NoRotatedOutKeyHolds == ASSUME AllRead PROVE Spec => []NoRotatedOutKey
<1>1. KeyInv => NoRotatedOutKey
  BY DEF KeyInv, SignerAbove, NoRotatedOutKey
<1>2. QED
  BY <1>1, KeyInvHolds, PTL
=============================================================================
