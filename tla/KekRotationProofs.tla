------------------------- MODULE KekRotationProofs -------------------------
(***************************************************************************)
(* Safety of KekRotation for every set of records, requests, isolates and  *)
(* procedures, and every duration.                                         *)
(***************************************************************************)
EXTENDS KekRotation, TLAPS

(* A cached pair that is out of date was dated no later than the change of the
   secret, as the clock is read before the secrets are. *)
GoodCache(c) ==
    /\ c.at <= clock
    /\ c.pair.current \notin Keks => c.at = - CacheTtl
    /\ c.pair.current # current => c.at <= changed["current"]
    /\ c.pair.sound /\ c.pair.previous # previous => c.at <= changed["previous"]

(* The same for the current KEK a request has in hand.  A request under way is
   about an entry, and the record in its hands does not mix KEKs. *)
GoodReq(x) ==
    /\ x.now <= clock
    /\ x.pc = "fetch_previous" =>
         x.kek \in Keks /\ (x.kek # current => x.now <= changed["current"])
    /\ x.pc \notin {"idle", "ended"} => x.entry \in Entries
    /\ x.entry \in Entries => Unmixed(NsOf[x.entry], x.seen)

(* Neither does a record in KV, or one staged by the tool. *)
AllUnmixed ==
    \A e \in Entries : Unmixed(NsOf[e], kv[e]) /\ Unmixed(NsOf[e], tool.staged[e])

(* The namespace of e comes before place n. *)
Before(e, n) == \E m \in 1..5 : m < n /\ NsOf[e] = encrypted_namespaces[m]

(* What the tool reads and writes belongs to the namespace it is at; what it
   wrote, to that namespace or earlier ones. *)
ToolInPlace ==
    /\ tool.pc # "idle" => step <= Len(proc) /\ proc[step] \in Modes
    /\ \A e \in tool.todo : NsOf[e] = Ns
    /\ \A e \in Entries : tool.staged[e] # NoRecord => NsOf[e] = Ns
    /\ tool.pc = "write" => Ns \notin tool.bad /\ tool.todo = {}
    /\ \A e \in touched : Before(e, tool.ns + 1)
    /\ tool.pc \in {"list", "read"} => \A e \in touched : Before(e, tool.ns)

KekInv ==
    /\ TypeOK
    /\ \A s \in {"current", "previous"} : changed[s] <= clock
    /\ \A i \in Isolates : GoodCache(cache[i])
    /\ \A q \in Requests : GoodReq(req[q])
    /\ AllUnmixed
    /\ ToolInPlace
    /\ NamespaceUntouched

-----------------------------------------------------------------------------
(* Facts about the values the model is built from. *)

LEMMA KekFacts ==
    /\ NoKek \notin Keks /\ Absent \notin Keks /\ Garbage \notin Keks
    /\ Keks \subseteq Keks \cup {NoKek}
    /\ OldKek \in Keks /\ NewKek \in Keks
  BY KekRotationAssumption DEF Keks

LEMMA NoRecordType == NoRecord \in Record /\ NoRecord.fields = [f \in FieldNames |-> Absent]
  BY DEF NoRecord, Record

LEMMA NamespaceFacts ==
    /\ Len(encrypted_namespaces) = 5
    /\ Namespaces = {"keys", "officers", "clients", "ed25519", "sessions"}
    /\ \A m \in 1..5 : encrypted_namespaces[m] \in Namespaces
    /\ \A m, n \in 1..5 : encrypted_namespaces[m] = encrypted_namespaces[n] => m = n
  <1> DEFINE E == encrypted_namespaces
  <1>1. Len(E) = 5 /\ E[1] = "keys" /\ E[2] = "officers" /\ E[3] = "clients" /\ E[4] = "ed25519"
        /\ E[5] = "sessions"
    BY DEF encrypted_namespaces
  <1>2. \A m \in 1..5 : m = 1 \/ m = 2 \/ m = 3 \/ m = 4 \/ m = 5
    OBVIOUS
  <1>3. Namespaces = {E[n] : n \in 1..5}
    BY <1>1 DEF Namespaces
  <1> HIDE DEF E
  <1>4. \A m, n \in 1..5 : E[m] = E[n] => m = n
    BY <1>1, <1>2
  <1>5. Namespaces = {"keys", "officers", "clients", "ed25519", "sessions"}
    BY <1>1, <1>2, <1>3
  <1>6. \A m \in 1..5 : E[m] \in Namespaces
    BY <1>3
  <1> QED
    BY <1>1, <1>4, <1>5, <1>6 DEF E

(* The next place to process lies ahead. *)
LEMMA FirstLater ==
    ASSUME NEW n \in 0..5, Later(n) # {}
    PROVE  /\ First(Later(n)) \in 1..5 /\ First(Later(n)) > n
           /\ \A k \in Later(n) : First(Later(n)) <= k
  <1> DEFINE L == Later(n)
  <1>1. L \subseteq {m \in 1..5 : m > n}
    BY NamespaceFacts DEF Later
  <1>2. \E m \in L : \A k \in L : m <= k
    <2> HIDE DEF L
    <2>1. L # {}
      BY DEF L
    <2>2. L \subseteq {1, 2, 3, 4, 5}
      BY <1>1
    <2>3. CASE 1 \in L BY <2>2, <2>3
    <2>4. CASE 1 \notin L /\ 2 \in L BY <2>2, <2>4
    <2>5. CASE 1 \notin L /\ 2 \notin L /\ 3 \in L BY <2>2, <2>5
    <2>6. CASE 1 \notin L /\ 2 \notin L /\ 3 \notin L /\ 4 \in L BY <2>2, <2>6
    <2>7. CASE 1 \notin L /\ 2 \notin L /\ 3 \notin L /\ 4 \notin L
      <3>1. L = {5} BY <2>1, <2>2, <2>7, Zenon
      <3> QED BY <3>1
    <2> QED BY <2>3, <2>4, <2>5, <2>6, <2>7
  <1>3. First(L) \in L /\ \A k \in L : First(L) <= k
    BY <1>2 DEF First
  <1> QED
    BY <1>1, <1>3

LEMMA SomePlace == Later(0) # {}
  <1>1. PICK ns \in Configured : ns \in Namespaces
    BY KekRotationAssumption
  <1>2. PICK m \in 1..5 : encrypted_namespaces[m] = ns
    BY <1>1, NamespaceFacts DEF Namespaces
  <1> QED
    BY <1>1, <1>2, NamespaceFacts DEF Later

(* Re-encryption and creation give records, and keep them unmixed. *)
LEMMA NewRecordSound ==
    ASSUME NEW e \in Entries, NEW p \in Pair, p.current \in Keks
    PROVE  NewRecord(e, p) \in Record /\ Unmixed(NsOf[e], NewRecord(e, p))
  <1>1. NsOf[e] \in {"keys", "officers", "clients", "ed25519", "sessions"}
    BY KekRotationAssumption, NamespaceFacts
  <1>2. "secret" \in fields(NsOf[e])
    BY <1>1 DEF fields, FieldNames
  <1> QED
    BY <1>2, KekFacts DEF NewRecord, Record, Unmixed, FieldNames

LEMMA ReEncryptedSound ==
    ASSUME NEW e \in Entries, NEW rec \in Record, Unmixed(NsOf[e], rec), AllFields(rec, NsOf[e], OldKek)
    PROVE  ReEncrypted(rec, NsOf[e]) \in Record /\ Unmixed(NsOf[e], ReEncrypted(rec, NsOf[e]))
  <1>1. NsOf[e] \in {"keys", "officers", "clients", "ed25519", "sessions"}
    BY KekRotationAssumption, NamespaceFacts
  <1>2. "secret" \in fields(NsOf[e]) /\ fields(NsOf[e]) \subseteq FieldNames
    BY <1>1 DEF fields, FieldNames
  <1>3. rec.fields["secret"] = OldKek
    BY <1>2, KekFacts DEF AllFields, optional, field_val, aes_gcm_decrypt
  <1>4. ReEncrypted(rec, NsOf[e]) =
          [rec EXCEPT !.fields = [f \in FieldNames |->
             IF f \in fields(NsOf[e]) /\ rec.fields[f] # Absent THEN NewKek ELSE rec.fields[f]]]
    BY DEF ReEncrypted
  <1> DEFINE R == ReEncrypted(rec, NsOf[e])
  <1>5. R \in Record
    BY <1>4, KekFacts DEF Record
  <1>6. R.fields = [f \in FieldNames |->
             IF f \in fields(NsOf[e]) /\ rec.fields[f] # Absent THEN NewKek ELSE rec.fields[f]]
    BY <1>4 DEF Record
  <1>7. R.fields["secret"] = NewKek
    BY <1>2, <1>3, <1>6, KekFacts DEF FieldNames
  <1>8. ASSUME NEW f \in FieldNames, R.fields[f] \in Keks
        PROVE  f \in fields(NsOf[e]) /\ R.fields[f] = NewKek
    BY <1>6, <1>8, KekFacts DEF Unmixed
  <1> QED
    BY <1>5, <1>7, <1>8 DEF Unmixed

-----------------------------------------------------------------------------
(* Requests. *)

ReqType == [pc : {"idle", "fetch_current", "fetch_previous", "touch", "put", "ended"},
            entry : Entries \cup {NoEntry}, home : Isolates \cup {Retired},
            now : 0..MaxTime, kek : Keks \cup {NoKek}, seen : Record \cup {NoRecord}]

(* A step of request q that leaves it in a good state. *)
ReqStep(q, x) == x \in ReqType /\ GoodReq(x) /\ req' = [req EXCEPT ![q] = x]

LEMMA IdleGood ==
    ASSUME TypeOK
    PROVE  /\ IdleRequest \in ReqType /\ EndedRequest \in ReqType
           /\ EndedRequest.entry = NoEntry /\ EndedRequest.now = 0 /\ EndedRequest.pc = "ended"
           /\ EndedRequest.seen = NoRecord
  BY KekRotationAssumption DEF TypeOK, IdleRequest, EndedRequest, ReqType

LEMMA NoRecordUnmixed == \A ns : Unmixed(ns, NoRecord)
  BY NoRecordType, KekFacts DEF Unmixed

LEMMA EndedGood ==
    ASSUME TypeOK
    PROVE  GoodReq(EndedRequest)
  BY IdleGood, NoRecordUnmixed, KekRotationAssumption DEF GoodReq, TypeOK

(* Using a pair whose current KEK is set. *)
LEMMA UsePairGood ==
    ASSUME TypeOK, NEW q \in Requests, NEW r \in ReqType, NEW p \in Pair,
           p.current \in Keks, r.entry \in Entries, r.now <= clock, UsePair(q, r, p)
    PROVE  (\E x : ReqStep(q, x)) /\ outage' \subseteq Entries
  <1>1. CASE r.seen = NoRecord
    <2> DEFINE x == [r EXCEPT !.pc = "put", !.kek = NoKek, !.seen = NewRecord(r.entry, p)]
    <2>1. req' = [req EXCEPT ![q] = x] /\ outage' = outage
      BY <1>1 DEF UsePair, Becomes
    <2>2. x \in ReqType
      BY NewRecordSound, KekFacts DEF ReqType
    <2>3. x.now = r.now /\ x.pc = "put" /\ x.entry = r.entry /\ x.seen = NewRecord(r.entry, p)
      BY DEF ReqType
    <2>4. GoodReq(x)
      BY <2>3, NewRecordSound DEF GoodReq
    <2> QED
      BY <2>1, <2>2, <2>4 DEF ReqStep, TypeOK
  <1>2. CASE r.seen # NoRecord /\ Ends(q)
    BY <1>2, IdleGood, EndedGood DEF Ends, Becomes, ReqStep, UsePair, TypeOK
  <1>3. CASE r.seen # NoRecord /\ ~ Ends(q)
    <2> DEFINE x == [r EXCEPT !.pc = "touch", !.kek = NoKek, !.seen = NoRecord]
    <2>1. req' = [req EXCEPT ![q] = x] /\ outage' = outage
      BY <1>3 DEF UsePair, Becomes
    <2>2. x \in ReqType
      BY KekFacts DEF ReqType
    <2>3. x.now = r.now /\ x.pc = "touch" /\ x.entry = r.entry /\ x.seen = NoRecord
      BY DEF ReqType
    <2>4. GoodReq(x)
      BY <2>3, NoRecordUnmixed DEF GoodReq
    <2> QED
      BY <2>1, <2>2, <2>4 DEF ReqStep, TypeOK
  <1> QED
    BY <1>1, <1>2, <1>3

LEMMA FreshPair ==
    ASSUME KekInv, NEW i \in Isolates, Fresh(i)
    PROVE  cache[i].pair \in Pair /\ cache[i].pair.current \in Keks
  <1>1. cache[i] \in Cached /\ clock \in Nat /\ GoodCache(cache[i])
    BY KekRotationAssumption DEF KekInv, TypeOK
  <1>2. cache[i].at # - CacheTtl
    BY <1>1, KekRotationAssumption DEF Fresh, Cached
  <1> QED
    BY <1>1, <1>2 DEF GoodCache, Cached

LEMMA GetPairGood ==
    ASSUME KekInv, NEW q \in Requests, NEW e \in Entries, get_kek_pair(q, e)
    PROVE  (\E x : ReqStep(q, x)) /\ outage' \subseteq Entries
  <1>1. PICK i \in Isolates :
          LET r == [IdleRequest EXCEPT !.entry = e, !.home = i, !.now = clock, !.seen = kv[e]]
          IN  \/ Fresh(i) /\ UsePair(q, r, cache[i].pair)
              \/ /\ Becomes(q, [r EXCEPT !.pc = "fetch_current"])
                 /\ UNCHANGED outage
    BY DEF get_kek_pair
  <1> DEFINE r == [IdleRequest EXCEPT !.entry = e, !.home = i, !.now = clock, !.seen = kv[e]]
             x == [r EXCEPT !.pc = "fetch_current"]
  <1>0. TypeOK
    BY DEF KekInv
  <1>2. r \in ReqType /\ r.entry = e /\ r.now = clock /\ r.seen = kv[e]
    BY <1>0, IdleGood DEF TypeOK, ReqType
  <1>3. clock <= clock
    BY <1>0, KekRotationAssumption DEF TypeOK
  <1> HIDE DEF r
  <1>4. CASE Fresh(i) /\ UsePair(q, r, cache[i].pair)
    BY <1>0, <1>2, <1>3, <1>4, FreshPair, UsePairGood
  <1>5. CASE Becomes(q, x) /\ UNCHANGED outage
    <2>1. x \in ReqType /\ x.entry = e /\ x.now = clock /\ x.seen = kv[e] /\ x.pc = "fetch_current"
      BY <1>2 DEF ReqType
    <2>2. GoodReq(x)
      BY <2>1, <1>3 DEF GoodReq, KekInv, AllUnmixed
    <2> QED
      BY <1>0, <1>5, <2>1, <2>2 DEF ReqStep, Becomes, TypeOK
  <1> QED
    BY <1>1, <1>4, <1>5 DEF r

-----------------------------------------------------------------------------
(* The invariant is inductive.  In a step of the worker the secrets, their
   dates and the tool do not change. *)

(* What a step of request q has to be for the invariant to survive it. *)
LEMMA WorkerStep ==
    ASSUME KekInv, NEW q \in Requests, NEW x, ReqStep(q, x), outage' \subseteq Entries,
           kv' \in [Entries -> Record], \A e \in Entries : Unmixed(NsOf[e], kv'[e]),
           cache' \in [Isolates -> Cached], \A i \in Isolates : GoodCache(cache'[i]),
           UNCHANGED <<clock, current, previous, toolVars, operatorVars>>
    PROVE  KekInv'
  <1>1. req' \in [Requests -> ReqType] /\ \A r \in Requests : GoodReq(req'[r])
    BY DEF ReqStep, KekInv, TypeOK, ReqType
  <1>2. TypeOK'
    BY <1>1, NoRecordType DEF KekInv, TypeOK, ReqType, toolVars, operatorVars
  <1>3. (\A s \in {"current", "previous"} : changed[s] <= clock)'
    BY DEF KekInv, operatorVars
  <1>5. (\A i \in Isolates : GoodCache(cache[i]))'
    BY DEF GoodCache, operatorVars
  <1>6. (\A r \in Requests : GoodReq(req[r]))'
    BY <1>1 DEF GoodReq, operatorVars
  <1>7. AllUnmixed'
    BY DEF KekInv, AllUnmixed, toolVars
  <1>8. ToolInPlace' /\ NamespaceUntouched'
    BY DEF KekInv, ToolInPlace, NamespaceUntouched, toolVars, operatorVars, Ns
  <1> QED
    BY <1>2, <1>3, <1>5, <1>6, <1>7, <1>8 DEF KekInv

(* What the invariant says of the parts that most steps leave alone. *)
Parts ==
    /\ TypeOK
    /\ kv \in [Entries -> Record] /\ \A e \in Entries : Unmixed(NsOf[e], kv[e])
    /\ cache \in [Isolates -> Cached] /\ \A i \in Isolates : GoodCache(cache[i])
    /\ req \in [Requests -> ReqType] /\ \A q \in Requests : GoodReq(req[q])
    /\ outage \subseteq Entries
    /\ clock \in 0..MaxTime /\ clock \in Nat /\ current \in Keks /\ previous \in Keks \cup {NoKek}

LEMMA PartsHold == KekInv => Parts
  BY NoRecordType, KekRotationAssumption DEF KekInv, Parts, TypeOK, AllUnmixed, ReqType

LEMMA WorkerInductive ==
    ASSUME KekInv, NEW q \in Requests,
           \/ \E e \in Entries :
                \/ get_signing_keypair(q, e) \/ get_officer_by_id(q, e) \/ get_client_by_id(q, e)
                \/ register_test_issuer(q, e) \/ store_encrypted_key(q, e)
           \/ fetch_current(q) \/ fetch_previous(q)
           \/ update_officer_last_used_by_id(q) \/ update_client_last_used(q) \/ put(q)
    PROVE  KekInv'
  <1>0. Parts
    BY PartsHold
  <1> USE DEF Parts
  <1>1. ASSUME NEW e \in Entries, Lookup(q, e) \/ Creation(q, e)
        PROVE  KekInv'
    <2>1. UNCHANGED <<clock, kv, current, previous, cache, toolVars, operatorVars>>
      BY <1>1 DEF Lookup, Creation
    <2>2. (\E x : ReqStep(q, x)) /\ outage' \subseteq Entries
      <3>1. CASE get_kek_pair(q, e)
        BY <3>1, GetPairGood
      <3>2. CASE Ends(q) /\ UNCHANGED outage
        BY <1>0, <3>2, IdleGood, EndedGood DEF Ends, Becomes, ReqStep
      <3> QED
        BY <1>1, <3>1, <3>2 DEF Lookup, Creation
    <2> QED
      BY <1>0, <2>1, <2>2, WorkerStep
  <1>2. CASE fetch_current(q)
    <2>1. UNCHANGED <<clock, kv, current, previous, cache, toolVars, operatorVars, outage>>
      BY <1>2 DEF fetch_current
    <2>2. \E x : ReqStep(q, x)
      <3> DEFINE x == [req[q] EXCEPT !.kek = current, !.pc = "fetch_previous"]
      <3>1. CASE req' = [req EXCEPT ![q] = x]
        <4>1. req[q] \in ReqType /\ GoodReq(req[q]) /\ req[q].pc = "fetch_current"
          BY <1>0, <1>2 DEF fetch_current
        <4>2. x \in ReqType /\ x.kek = current /\ x.now = req[q].now /\ x.entry = req[q].entry
              /\ x.seen = req[q].seen
          BY <1>0, <4>1 DEF ReqType
        <4>3. GoodReq(x)
          BY <1>0, <4>1, <4>2 DEF GoodReq
        <4> QED
          BY <3>1, <4>2, <4>3 DEF ReqStep
      <3>2. CASE Ends(q)
        BY <1>0, <3>2, IdleGood, EndedGood DEF Ends, Becomes, ReqStep
      <3> QED
        BY <1>2, <3>1, <3>2 DEF fetch_current, Becomes
    <2> QED
      BY <1>0, <2>1, <2>2, WorkerStep
  <1>3. CASE fetch_previous(q)
    <2>1. UNCHANGED <<clock, kv, current, previous, toolVars, operatorVars>>
      BY <1>3 DEF fetch_previous
    <2>2. PICK sound \in BOOLEAN :
            LET p == [current |-> req[q].kek, previous |-> IF sound THEN previous ELSE NoKek,
                      sound |-> sound]
            IN  /\ cache' = IF req[q].home = Retired THEN cache
                              ELSE [cache EXCEPT ![req[q].home] = [pair |-> p, at |-> req[q].now]]
                /\ UsePair(q, req[q], p)
      BY <1>3, KekRotationAssumption DEF fetch_previous, FetchedAt
    <2> DEFINE p == [current |-> req[q].kek, previous |-> IF sound THEN previous ELSE NoKek,
                     sound |-> sound]
               c == [pair |-> p, at |-> req[q].now]
    <2>3. req[q] \in ReqType /\ GoodReq(req[q]) /\ req[q].pc = "fetch_previous"
      BY <1>0, <1>3 DEF fetch_previous
    <2>4. p \in Pair /\ p.current = req[q].kek /\ p.current \in Keks
          /\ p.previous = (IF sound THEN previous ELSE NoKek) /\ p.sound = sound
      BY <1>0, <2>3 DEF Pair, GoodReq
    <2>5. req[q].entry \in Entries /\ req[q].now <= clock /\ req[q].now \in Int
      BY <2>3, KekRotationAssumption DEF GoodReq, ReqType
    <2>6. (\E x : ReqStep(q, x)) /\ outage' \subseteq Entries
      <3> HIDE DEF p
      <3> QED
        BY <1>0, <2>2, <2>3, <2>4, <2>5, UsePairGood DEF p
    <2>7. c \in Cached /\ c.pair = p /\ c.at = req[q].now
      <3> HIDE DEF p
      <3> QED BY <2>4, <2>5 DEF Cached
    <2>8. GoodCache(c)
      <3> HIDE DEF c, p
      <3> QED BY <2>3, <2>4, <2>5, <2>7 DEF GoodCache, GoodReq
    <2>9. cache' \in [Isolates -> Cached] /\ \A i \in Isolates : GoodCache(cache'[i])
      <3> HIDE DEF c, p
      <3>1. cache' = IF req[q].home = Retired THEN cache ELSE [cache EXCEPT ![req[q].home] = c]
        BY <2>2 DEF c, p
      <3> QED BY <1>0, <2>7, <2>8, <3>1
    <2> QED
      BY <1>0, <2>1, <2>6, <2>9, WorkerStep
  <1>4. CASE UpdateLastUsed(q)
    <2>1. UNCHANGED <<clock, kv, current, previous, cache, toolVars, operatorVars, outage>>
      BY <1>4 DEF UpdateLastUsed
    <2>2. \E x : ReqStep(q, x)
      <3> DEFINE x == [req[q] EXCEPT !.pc = "put", !.seen = kv[req[q].entry]]
      <3>1. CASE req' = [req EXCEPT ![q] = x]
        <4>1. req[q] \in ReqType /\ GoodReq(req[q]) /\ req[q].pc = "touch" /\ req[q].entry \in Entries
          BY <1>0, <1>4 DEF UpdateLastUsed, GoodReq
        <4>2. x \in ReqType /\ x.pc = "put" /\ x.now = req[q].now /\ x.entry = req[q].entry
              /\ x.seen = kv[req[q].entry]
          BY <1>0, <4>1 DEF ReqType
        <4>3. GoodReq(x)
          BY <1>0, <4>1, <4>2 DEF GoodReq
        <4> QED
          BY <3>1, <4>2, <4>3 DEF ReqStep
      <3>2. CASE Ends(q)
        BY <1>0, <3>2, IdleGood, EndedGood DEF Ends, Becomes, ReqStep
      <3> QED
        BY <1>4, <3>1, <3>2 DEF UpdateLastUsed, Becomes
    <2> QED
      BY <1>0, <2>1, <2>2, WorkerStep
  <1>5. CASE put(q)
    <2>1. UNCHANGED <<clock, current, previous, cache, toolVars, operatorVars, outage>>
      BY <1>5 DEF put
    <2>2. ReqStep(q, EndedRequest)
      BY <1>0, <1>5, IdleGood, EndedGood DEF put, Ends, Becomes, ReqStep
    <2>3. req[q] \in ReqType /\ GoodReq(req[q]) /\ req[q].entry \in Entries
      BY <1>0, <1>5 DEF put, GoodReq
    <2>4. req[q].seen \in Record /\ Unmixed(NsOf[req[q].entry], req[q].seen)
      BY <2>3, NoRecordType DEF GoodReq, ReqType
    <2>5. kv' \in [Entries -> Record] /\ \A e \in Entries : Unmixed(NsOf[e], kv'[e])
      BY <1>0, <1>5, <2>3, <2>4 DEF put
    <2> QED
      BY <1>0, <2>1, <2>2, <2>5, WorkerStep
  <1> QED
    BY <1>1, <1>2, <1>3, <1>4, <1>5
    DEF get_signing_keypair, get_officer_by_id, get_client_by_id, register_test_issuer,
        store_encrypted_key, update_officer_last_used_by_id, update_client_last_used

LEMMA TickInductive == KekInv /\ Tick => KekInv'
  <1> SUFFICES ASSUME KekInv, Tick PROVE KekInv'
    OBVIOUS
  <1> USE DEF KekInv, toolVars, operatorVars
  <1>1. clock \in Nat /\ clock' = clock + 1 /\ clock' \in 0..MaxTime
    BY KekRotationAssumption DEF Tick, TypeOK
  <1>2. UNCHANGED <<kv, current, previous, cache, req, tool, touched, proc, step, calm, reruns, changed, outage>>
    BY DEF Tick
  <1>3. TypeOK'
    BY <1>1, <1>2 DEF TypeOK
  <1>4. (\A s \in {"current", "previous"} : changed[s] <= clock)'
    BY <1>1, <1>2, KekRotationAssumption DEF TypeOK
  <1>5. (\A i \in Isolates : GoodCache(cache[i]))'
    BY <1>1, <1>2 DEF GoodCache, TypeOK, Cached
  <1>6. (\A q \in Requests : GoodReq(req[q]))'
    BY <1>1, <1>2, KekRotationAssumption DEF GoodReq, TypeOK
  <1>7. AllUnmixed' /\ ToolInPlace' /\ NamespaceUntouched'
    BY <1>2 DEF AllUnmixed, ToolInPlace, NamespaceUntouched, Ns
  <1> QED
    BY <1>3, <1>4, <1>5, <1>6, <1>7

LEMMA ExpireInductive == ASSUME KekInv, NEW e \in Entries, expire(e) PROVE KekInv'
  <1>1. kv' = [kv EXCEPT ![e] = NoRecord]
        /\ UNCHANGED <<clock, current, previous, cache, req, tool, touched, proc, step, calm, reruns, changed, outage>>
    BY DEF expire, toolVars, operatorVars
  <1>2. TypeOK'
    BY <1>1, NoRecordType DEF KekInv, TypeOK
  <1>3. AllUnmixed'
    BY <1>1, NoRecordUnmixed DEF KekInv, AllUnmixed, TypeOK
  <1>4. (\A i \in Isolates : GoodCache(cache[i]))' /\ (\A q \in Requests : GoodReq(req[q]))'
    BY <1>1 DEF KekInv, GoodCache, GoodReq
  <1> QED
    BY <1>1, <1>2, <1>3, <1>4 DEF KekInv, ToolInPlace, NamespaceUntouched, Ns

-----------------------------------------------------------------------------
(* The tool. *)

ToolType == [pc : {"idle", "list", "read", "write", "complete", "failed", "aborted"},
             mode : Modes, ns : 1..5, todo : SUBSET Entries,
             staged : [Entries -> Record], bad : SUBSET Namespaces]

(* The invariant survives a step that changes the tool, what it touched and
   KV only, if it does for these three. *)
LEMMA ToolStep ==
    ASSUME KekInv, UNCHANGED <<clock, current, previous, cache, req, operatorVars, outage>>,
           tool' \in ToolType, touched' \subseteq Entries, kv' \in [Entries -> Record],
           AllUnmixed', ToolInPlace', NamespaceUntouched'
    PROVE  KekInv'
  <1>1. TypeOK'
    BY NamespaceFacts, NoRecordType DEF KekInv, TypeOK, ToolType, operatorVars
  <1>2. (\A i \in Isolates : GoodCache(cache[i]))' /\ (\A q \in Requests : GoodReq(req[q]))'
    BY DEF KekInv, GoodCache, GoodReq, operatorVars
  <1> QED
    BY <1>1, <1>2 DEF KekInv, operatorVars

ToolParts ==
    /\ tool \in ToolType /\ touched \subseteq Entries /\ kv \in [Entries -> Record]
    /\ tool.ns \in 1..5 /\ Ns \in Namespaces
    /\ AllUnmixed /\ ToolInPlace /\ NamespaceUntouched

LEMMA ToolPartsHold == KekInv => ToolParts
  BY NamespaceFacts, NoRecordType DEF KekInv, ToolParts, TypeOK, ToolType, Ns

LEMMA IdleToolFacts ==
    /\ IdleTool \in ToolType /\ IdleTool.pc = "idle" /\ IdleTool.todo = {} /\ IdleTool.bad = {}
    /\ IdleTool.staged = [e \in Entries |-> NoRecord]
  BY NoRecordType DEF IdleTool, ToolType, Modes

LEMMA StartedFacts ==
    ASSUME NEW mode \in Modes, NEW n \in 1..5
    PROVE  LET t == [IdleTool EXCEPT !.pc = "list", !.mode = mode, !.ns = n]
           IN  /\ t \in ToolType /\ t.pc = "list" /\ t.todo = {} /\ t.bad = {}
               /\ t.staged = [e \in Entries |-> NoRecord]
  BY IdleToolFacts DEF ToolType

LEMMA AbortedFacts ==
    LET t == [IdleTool EXCEPT !.pc = "aborted"]
    IN  /\ t \in ToolType /\ t.pc = "aborted" /\ t.todo = {} /\ t.bad = {}
        /\ t.staged = [e \in Entries |-> NoRecord]
  BY IdleToolFacts DEF ToolType

(* A run begins, ends or is aborted: nothing is staged, bad or touched. *)
LEMMA ToolReset ==
    ASSUME KekInv, tool' \in ToolType, tool'.todo = {}, tool'.bad = {},
           tool'.staged = [e \in Entries |-> NoRecord], touched' = {}, kv' = kv,
           tool'.pc # "write",
           tool'.pc # "idle" => step' <= Len(proc') /\ proc'[step'] \in Modes
    PROVE  AllUnmixed' /\ ToolInPlace' /\ NamespaceUntouched'
  <1>1. AllUnmixed'
    BY NoRecordUnmixed DEF KekInv, AllUnmixed
  <1>2. ToolInPlace' /\ NamespaceUntouched'
    BY DEF ToolInPlace, NamespaceUntouched
  <1> QED
    BY <1>1, <1>2

LEMMA AbortInductive ==
    ASSUME KekInv, Aborts, tool.pc # "idle", kv' = kv,
           UNCHANGED <<clock, current, previous, cache, req, operatorVars, outage>>
    PROVE  KekInv'
  <1>1. tool' \in ToolType /\ tool'.todo = {} /\ tool'.bad = {} /\ tool'.pc = "aborted"
        /\ tool'.staged = [e \in Entries |-> NoRecord] /\ touched' = {}
    BY AbortedFacts DEF Aborts
  <1>2. step' <= Len(proc') /\ proc'[step'] \in Modes
    BY DEF KekInv, ToolInPlace, operatorVars
  <1>3. kv' \in [Entries -> Record]
    BY ToolPartsHold DEF ToolParts
  <1> QED
    BY <1>1, <1>2, <1>3, ToolReset, ToolStep

(* The next namespace: nothing is staged any more. *)
LEMMA NextNamespaceGood ==
    ASSUME KekInv, tool.pc \in {"read", "write"}, tool.todo = {}, tool' = NextNamespace(tool),
           UNCHANGED <<clock, kv, current, previous, cache, req, touched, operatorVars, outage>>
    PROVE  KekInv'
  <1>0. ToolParts
    BY ToolPartsHold
  <1> USE DEF ToolParts
  <1> DEFINE n == IF Later(tool.ns) # {} THEN First(Later(tool.ns)) ELSE tool.ns
             pc == CASE Later(tool.ns) # {} -> "list"
                     [] Later(tool.ns) = {} /\ tool.bad # {} -> "failed"
                     [] OTHER -> "complete"
  <1>1. n \in 1..5 /\ n >= tool.ns /\ (pc = "list" => n > tool.ns)
    BY <1>0, FirstLater
  <1>2. pc \in {"list", "failed", "complete"}
    OBVIOUS
  <1>3. tool' = [tool EXCEPT !.staged = IdleTool.staged, !.ns = n, !.pc = pc]
    BY <1>0 DEF NextNamespace, ToolType
  <1> HIDE DEF n, pc
  <1>4. tool' \in ToolType /\ tool'.ns = n /\ tool'.pc = pc /\ tool'.todo = {} /\ tool'.bad = tool.bad
        /\ tool'.staged = [e \in Entries |-> NoRecord]
    BY <1>0, <1>1, <1>2, <1>3, IdleToolFacts DEF ToolType
  <1>5. AllUnmixed'
    BY <1>0, <1>4, NoRecordUnmixed DEF AllUnmixed
  <1>6. ASSUME NEW e \in touched
        PROVE  Before(e, n + 1) /\ (pc = "list" => Before(e, n))
    <2>1. Before(e, tool.ns + 1)
      BY <1>0 DEF ToolInPlace
    <2> QED
      BY <1>0, <1>1, <2>1 DEF Before
  <1>7. (\A e \in touched : Before(e, tool.ns + 1))'
        /\ (tool.pc \in {"list", "read"} => \A e \in touched : Before(e, tool.ns))'
    <2>1. touched' = touched
      OBVIOUS
    <2> QED
      BY <1>2, <1>4, <1>6, <2>1 DEF Before
  <1>8. (tool.pc # "idle" => step <= Len(proc) /\ proc[step] \in Modes)'
    BY <1>0 DEF ToolInPlace, operatorVars
  <1>9. ToolInPlace'
    BY <1>2, <1>4, <1>7, <1>8 DEF ToolInPlace
  <1>10. NamespaceUntouched'
    BY <1>0, <1>4 DEF NamespaceUntouched
  <1> QED
    BY <1>0, <1>4, <1>5, <1>9, <1>10, ToolStep

LEMMA ListInductive == KekInv /\ list_kv_keys => KekInv'
  <1> SUFFICES ASSUME KekInv, list_kv_keys PROVE KekInv'
    OBVIOUS
  <1>0. ToolParts /\ UNCHANGED <<clock, kv, current, previous, cache, req, operatorVars, outage>>
        /\ tool.pc = "list"
    BY ToolPartsHold DEF list_kv_keys
  <1> USE DEF ToolParts
  <1>1. CASE Aborts
    BY <1>0, <1>1, AbortInductive
  <1>2. CASE ~ Aborts
    <2> DEFINE T == {e \in Entries : NsOf[e] = Ns /\ kv[e] # NoRecord}
    <2>1. tool' = [tool EXCEPT !.pc = "read", !.todo = T] /\ touched' = touched
      BY <1>2 DEF list_kv_keys
    <2>2. T \in SUBSET Entries /\ \A e \in T : NsOf[e] = Ns
      OBVIOUS
    <2> HIDE DEF T
    <2>3. tool' \in ToolType /\ tool'.pc = "read" /\ tool'.todo = T /\ tool'.ns = tool.ns
          /\ tool'.staged = tool.staged /\ tool'.bad = tool.bad
      BY <1>0, <2>1, <2>2 DEF ToolType
    <2>4. AllUnmixed' /\ NamespaceUntouched' /\ Ns' = Ns
      BY <1>0, <2>1, <2>3 DEF AllUnmixed, NamespaceUntouched, Ns
    <2>5. ToolInPlace'
      BY <1>0, <2>1, <2>2, <2>3, <2>4 DEF ToolInPlace, operatorVars, Before
    <2> QED
      BY <1>0, <2>1, <2>3, <2>4, <2>5, ToolStep
  <1> QED
    BY <1>1, <1>2

LEMMA EndPhase1Inductive == KekInv /\ end_phase_1 => KekInv'
  <1> SUFFICES ASSUME KekInv, end_phase_1 PROVE KekInv'
    OBVIOUS
  <1>0. ToolParts /\ UNCHANGED <<clock, kv, current, previous, cache, req, touched, operatorVars, outage>>
        /\ tool.pc = "read" /\ tool.todo = {}
    BY ToolPartsHold DEF end_phase_1
  <1> USE DEF ToolParts
  <1>1. CASE ~ MayWrite
    BY <1>0, <1>1, NextNamespaceGood DEF end_phase_1
  <1>2. CASE MayWrite
    <2>1. tool' = [tool EXCEPT !.pc = "write"] /\ Ns \notin tool.bad
      BY <1>2 DEF end_phase_1, MayWrite
    <2>2. tool' \in ToolType /\ tool'.pc = "write" /\ tool'.todo = {} /\ tool'.ns = tool.ns
          /\ tool'.staged = tool.staged /\ tool'.bad = tool.bad
      BY <1>0, <2>1 DEF ToolType
    <2>3. AllUnmixed' /\ NamespaceUntouched' /\ Ns' = Ns
      BY <1>0, <2>2 DEF AllUnmixed, NamespaceUntouched, Ns
    <2>4. ToolInPlace'
      BY <1>0, <2>1, <2>2, <2>3 DEF ToolInPlace, operatorVars, Before
    <2> QED
      BY <1>0, <2>2, <2>3, <2>4, ToolStep
  <1> QED
    BY <1>1, <1>2

LEMMA ReadInductive == KekInv /\ read_entry => KekInv'
  <1> SUFFICES ASSUME KekInv, read_entry PROVE KekInv'
    OBVIOUS
  <1>0. ToolParts /\ UNCHANGED <<clock, kv, current, previous, cache, req, operatorVars, outage>>
        /\ tool.pc = "read"
    BY ToolPartsHold DEF read_entry
  <1> USE DEF ToolParts
  <1>1. CASE Aborts
    BY <1>0, <1>1, AbortInductive
  <1>2. CASE ~ Aborts
    <2> DEFINE rest(e) == [tool EXCEPT !.todo = tool.todo \ {e}]
    <2>1. PICK e \in tool.todo :
            /\ tool' = CASE Skipped(kv[e]) -> rest(e)
                         [] ~ Skipped(kv[e]) /\ ~ Passes(kv[e], Ns, tool.mode) ->
                              [rest(e) EXCEPT !.bad = rest(e).bad \cup {Ns}]
                         [] OTHER ->
                              [rest(e) EXCEPT !.staged[e] = IF tool.mode = "rotate"
                                  THEN ReEncrypted(kv[e], Ns) ELSE rest(e).staged[e]]
            /\ touched' = touched
      BY <1>2 DEF read_entry
    <2>2. e \in Entries /\ NsOf[e] = Ns /\ Ns' = Ns
      <3>1. e \in Entries /\ NsOf[e] = Ns
        BY <1>0 DEF ToolType, ToolInPlace
      <3>2. tool'.ns = tool.ns
        BY <1>0, <2>1 DEF ToolType
      <3> QED
        BY <3>1, <3>2 DEF Ns
    <2>3. /\ tool' \in ToolType /\ tool'.pc = "read" /\ tool'.ns = tool.ns
          /\ tool'.todo = tool.todo \ {e}
          /\ tool'.bad \in {tool.bad, tool.bad \cup {Ns}}
          /\ \/ tool'.staged = tool.staged
             \/ /\ tool'.staged = [tool.staged EXCEPT ![e] = ReEncrypted(kv[e], Ns)]
                /\ Unmixed(Ns, ReEncrypted(kv[e], Ns))
      <3>1. rest(e) \in ToolType /\ rest(e).pc = "read" /\ rest(e).ns = tool.ns
            /\ rest(e).todo = tool.todo \ {e} /\ rest(e).bad = tool.bad /\ rest(e).staged = tool.staged
        BY <1>0 DEF ToolType
      <3> DEFINE R == rest(e)
      <3> HIDE DEF rest, R
      <3>2. CASE tool' = R
        BY <3>1, <3>2 DEF R
      <3>3. CASE tool' = [R EXCEPT !.bad = R.bad \cup {Ns}]
        BY <1>0, <3>1, <3>3 DEF ToolType, R
      <3>4. CASE tool' = [R EXCEPT !.staged[e] = R.staged[e]]
        <4>1. tool'.staged = R.staged
          BY <2>2, <3>1, <3>4 DEF ToolType, R
        <4> QED
          BY <3>1, <3>4, <4>1 DEF ToolType, R
      <3>5. CASE /\ tool' = [R EXCEPT !.staged[e] = ReEncrypted(kv[e], Ns)]
                 /\ Passes(kv[e], Ns, tool.mode) /\ tool.mode = "rotate"
        <4>1. AllFields(kv[e], NsOf[e], OldKek)
          BY <2>2, <3>5 DEF Passes
        <4>2. ReEncrypted(kv[e], Ns) \in Record /\ Unmixed(Ns, ReEncrypted(kv[e], Ns))
          BY <1>0, <2>2, <4>1, ReEncryptedSound DEF AllUnmixed
        <4> QED
          BY <2>2, <3>1, <3>5, <4>2 DEF ToolType, R
      <3> QED
        BY <2>1, <3>2, <3>3, <3>4, <3>5 DEF R
    <2>4. AllUnmixed'
      BY <1>0, <2>2, <2>3 DEF AllUnmixed, ToolType
    <2>5. ASSUME NEW x \in touched PROVE NsOf[x] # Ns
      <3>1. PICK m \in 1..5 : m < tool.ns /\ NsOf[x] = encrypted_namespaces[m]
        BY <1>0 DEF ToolInPlace, Before
      <3> QED
        BY <1>0, <3>1, NamespaceFacts DEF Ns
    <2>6. NamespaceUntouched'
      BY <1>0, <2>1, <2>3, <2>5 DEF NamespaceUntouched
    <2>7. ToolInPlace'
      <3>1. (\A x \in tool.todo : NsOf[x] = Ns)' /\ (\A x \in Entries : tool.staged[x] # NoRecord => NsOf[x] = Ns)'
        BY <1>0, <2>2, <2>3 DEF ToolInPlace, ToolType
      <3>2. (\A x \in touched : Before(x, tool.ns + 1))' /\ (\A x \in touched : Before(x, tool.ns))'
        BY <1>0, <2>1, <2>3 DEF ToolInPlace, Before
      <3> QED
        BY <1>0, <2>3, <3>1, <3>2 DEF ToolInPlace, operatorVars
    <2> QED
      BY <1>0, <2>1, <2>3, <2>4, <2>6, <2>7, ToolStep
  <1> QED
    BY <1>1, <1>2

LEMMA WriteInductive == KekInv /\ write_entry => KekInv'
  <1> SUFFICES ASSUME KekInv, write_entry PROVE KekInv'
    OBVIOUS
  <1>0. ToolParts /\ UNCHANGED <<clock, current, previous, cache, req, operatorVars, outage>>
        /\ tool.pc = "write" /\ tool.todo = {}
    BY ToolPartsHold DEF write_entry, ToolParts, ToolInPlace
  <1> USE DEF ToolParts
  <1>1. CASE Aborts /\ UNCHANGED kv
    BY <1>0, <1>1, AbortInductive
  <1>2. CASE tool' = NextNamespace(tool) /\ UNCHANGED <<kv, touched>>
    BY <1>0, <1>2, NextNamespaceGood
  <1>3. ASSUME NEW e \in Entries, tool.staged[e] # NoRecord,
               put_kv_value_by_ns(e, tool.staged[e]),
               tool' = [tool EXCEPT !.staged[e] = NoRecord], touched' = touched \cup {e}
        PROVE  KekInv'
    <2>1. tool' \in ToolType /\ tool'.pc = "write" /\ tool'.ns = tool.ns /\ tool'.todo = {}
          /\ tool'.bad = tool.bad /\ tool'.staged = [tool.staged EXCEPT ![e] = NoRecord]
      BY <1>0, <1>3, NoRecordType DEF ToolType
    <2>2. Ns' = Ns /\ NsOf[e] = Ns /\ Ns \notin tool.bad
      BY <1>0, <1>3, <2>1 DEF ToolInPlace, Ns
    <2>3. kv' = [kv EXCEPT ![e] = tool.staged[e]] /\ tool.staged[e] \in Record
      BY <1>0, <1>3 DEF put_kv_value_by_ns, ToolType
    <2>4. AllUnmixed'
      BY <1>0, <2>1, <2>3, NoRecordUnmixed DEF AllUnmixed, ToolType
    <2>5. NamespaceUntouched'
      BY <1>0, <1>3, <2>1, <2>2 DEF NamespaceUntouched
    <2>6. Before(e, tool.ns + 1)
      BY <1>0, <2>2 DEF Before, Ns
    <2>7. (\A x \in touched : Before(x, tool.ns + 1))'
      BY <1>0, <1>3, <2>1, <2>6 DEF ToolInPlace, Before
    <2>8. ToolInPlace'
      BY <1>0, <2>1, <2>2, <2>7 DEF ToolInPlace, operatorVars, ToolType
    <2> QED
      BY <1>0, <1>3, <2>1, <2>3, <2>4, <2>5, <2>8, ToolStep
  <1> QED
    BY <1>1, <1>2, <1>3 DEF write_entry

-----------------------------------------------------------------------------
(* The operator. *)

LEMMA StepFacts ==
    ASSUME TypeOK
    PROVE  proc \in Seq(Steps) /\ Len(proc) \in Nat /\ step \in 1 .. Len(proc) + 1
  BY KekRotationAssumption DEF TypeOK

LEMMA AdvanceType ==
    ASSUME TypeOK, Advance, step <= Len(proc), proc' = proc
    PROVE  step' \in 1 .. Len(proc') + 1
  BY StepFacts DEF Advance

LEMMA StartInductive == ASSUME KekInv, NEW mode \in Modes, Start(mode) PROVE KekInv'
  <1>1. First(Later(0)) \in 1..5
    BY SomePlace, FirstLater
  <1>2. tool' = [IdleTool EXCEPT !.pc = "list", !.mode = mode, !.ns = First(Later(0))] /\ touched' = {}
        /\ UNCHANGED <<clock, kv, current, previous, cache, req, proc, step, reruns, changed, outage>>
        /\ step <= Len(proc) /\ proc[step] = mode /\ calm' \subseteq calm \cup {step}
    BY DEF Start, At
  <1>3. tool' \in ToolType /\ tool'.pc = "list" /\ tool'.todo = {} /\ tool'.bad = {}
        /\ tool'.staged = [e \in Entries |-> NoRecord]
    BY <1>1, <1>2, StartedFacts
  <1>4. step \in 1 .. Len(proc)
    BY <1>2, StepFacts DEF KekInv
  <1>5. TypeOK'
    BY <1>2, <1>3, <1>4, NamespaceFacts, NoRecordType DEF KekInv, TypeOK, ToolType
  <1>6. AllUnmixed' /\ ToolInPlace' /\ NamespaceUntouched'
    BY <1>2, <1>3, ToolReset
  <1>7. (\A i \in Isolates : GoodCache(cache[i]))' /\ (\A q \in Requests : GoodReq(req[q]))'
    BY <1>2 DEF KekInv, GoodCache, GoodReq
  <1> QED
    BY <1>2, <1>5, <1>6, <1>7 DEF KekInv

LEMMA ToolEndedInductive == KekInv /\ tool_ended => KekInv'
  <1> SUFFICES ASSUME KekInv, tool_ended PROVE KekInv'
    OBVIOUS
  <1>1. UNCHANGED <<clock, kv, current, previous, cache, req, proc, calm, changed, outage>>
        /\ tool' = IdleTool /\ touched' = {}
    BY DEF tool_ended
  <1>2. step' \in 1 .. Len(proc') + 1 /\ reruns' \in 0..MaxReruns
    <2>1. TypeOK /\ step <= Len(proc)
      BY DEF KekInv, ToolInPlace, tool_ended
    <2>2. CASE Advance /\ UNCHANGED reruns
      BY <1>1, <2>1, <2>2, AdvanceType DEF TypeOK
    <2>3. CASE reruns < MaxReruns /\ reruns' = reruns + 1 /\ UNCHANGED step
      BY <1>1, <2>1, <2>3, KekRotationAssumption DEF TypeOK
    <2> QED
      BY <2>2, <2>3 DEF tool_ended
  <1>3. TypeOK'
    BY <1>1, <1>2, IdleToolFacts, NamespaceFacts, NoRecordType DEF KekInv, TypeOK, ToolType
  <1>4. AllUnmixed' /\ ToolInPlace' /\ NamespaceUntouched'
    BY <1>1, IdleToolFacts, ToolReset
  <1>5. (\A i \in Isolates : GoodCache(cache[i]))' /\ (\A q \in Requests : GoodReq(req[q]))'
    BY <1>1 DEF KekInv, GoodCache, GoodReq
  <1> QED
    BY <1>1, <1>3, <1>4, <1>5 DEF KekInv

(* A step of the operator other than running the tool: the tool is idle. *)
LEMMA OperatorStep ==
    ASSUME KekInv, NEW s \in Steps \ Modes, At(s), Advance,
           UNCHANGED <<clock, kv, toolVars, proc, calm, reruns, outage>>,
           current' \in Keks, previous' \in Keks \cup {NoKek},
           cache' \in [Isolates -> Cached], (\A i \in Isolates : GoodCache(cache[i]))',
           req' \in [Requests -> ReqType], (\A q \in Requests : GoodReq(req[q]))',
           changed' \in [{"current", "previous"} -> 0..MaxTime],
           \A t \in {"current", "previous"} : changed'[t] <= clock
    PROVE  KekInv'
  <1>1. TypeOK /\ step <= Len(proc) /\ tool.pc = "idle"
    BY DEF KekInv, ToolInPlace, At
  <1>2. step' \in 1 .. Len(proc') + 1
    BY <1>1, AdvanceType
  <1>3. TypeOK'
    BY <1>1, <1>2 DEF TypeOK, ReqType, toolVars
  <1>4. AllUnmixed' /\ NamespaceUntouched'
    BY DEF KekInv, AllUnmixed, NamespaceUntouched, toolVars
  <1>5. ToolInPlace'
    BY <1>1 DEF KekInv, ToolInPlace, toolVars, Ns, Before
  <1> QED
    BY <1>3, <1>4, <1>5 DEF KekInv

LEMMA SetSecretInductive == KekInv /\ set_secret => KekInv'
  <1> SUFFICES ASSUME KekInv, set_secret PROVE KekInv'
    OBVIOUS
  <1>0. Parts /\ Advance /\ UNCHANGED <<clock, kv, cache, req, toolVars, proc, calm, reruns, outage>>
        /\ changed \in [{"current", "previous"} -> 0..MaxTime]
        /\ \A t \in {"current", "previous"} : changed[t] <= clock
    BY PartsHold DEF set_secret, KekInv, TypeOK
  <1> USE DEF Parts
  <1>1. PICK s \in {"current", "previous", "remove"} :
          /\ At(s)
          /\ \/ /\ s = "current" /\ current' = NewKek /\ previous' = previous
                /\ changed' = [changed EXCEPT !["current"] = clock]
             \/ /\ s # "current" /\ previous' \in {OldKek, NoKek} /\ current' = current
                /\ changed' = [changed EXCEPT !["previous"] = clock]
    BY DEF set_secret
  <1>2. s \in Steps \ Modes
    BY DEF Steps, Modes, Changes
  <1>3. current' \in Keks /\ previous' \in Keks \cup {NoKek}
    BY <1>0, <1>1, KekFacts
  <1>4. changed' \in [{"current", "previous"} -> 0..MaxTime]
        /\ \A t \in {"current", "previous"} : changed'[t] <= clock
    BY <1>0, <1>1
  <1>5. (\A i \in Isolates : GoodCache(cache[i]))'
    BY <1>0, <1>1 DEF GoodCache, Cached
  <1>6. (\A q \in Requests : GoodReq(req[q]))'
    BY <1>0, <1>1 DEF GoodReq, ReqType
  <1> QED
    BY <1>0, <1>1, <1>2, <1>3, <1>4, <1>5, <1>6, OperatorStep

LEMMA DeployInductive == KekInv /\ deploy => KekInv'
  <1> SUFFICES ASSUME KekInv, deploy PROVE KekInv'
    OBVIOUS
  <1>0. Parts /\ Advance /\ At("deploy")
        /\ UNCHANGED <<clock, kv, current, previous, toolVars, proc, calm, reruns, changed, outage>>
        /\ cache' = [i \in Isolates |-> NotCached]
        /\ req' = [q \in Requests |-> [req[q] EXCEPT !.home = Retired]]
        /\ changed \in [{"current", "previous"} -> 0..MaxTime]
        /\ \A t \in {"current", "previous"} : changed[t] <= clock
    BY PartsHold DEF deploy, KekInv, TypeOK
  <1> USE DEF Parts
  <1>1. "deploy" \in Steps \ Modes
    BY DEF Steps, Modes, Changes
  <1>2. NotCached \in Cached /\ NotCached.at = - CacheTtl /\ NotCached.pair.current = NoKek
        /\ NotCached.pair.sound = FALSE
    BY KekRotationAssumption DEF NotCached, Cached, Pair, NoPair
  <1>3. cache' \in [Isolates -> Cached] /\ (\A i \in Isolates : GoodCache(cache[i]))'
    <2>1. changed["current"] \in Nat /\ clock \in Nat
      BY <1>0, KekRotationAssumption
    <2> QED
      BY <1>0, <1>2, <2>1, KekRotationAssumption DEF GoodCache
  <1>4. ASSUME NEW q \in Requests
        PROVE  LET x == [req[q] EXCEPT !.home = Retired]
               IN  /\ x \in ReqType /\ x.pc = req[q].pc /\ x.now = req[q].now /\ x.kek = req[q].kek
                   /\ x.entry = req[q].entry /\ x.seen = req[q].seen
    BY <1>0 DEF ReqType
  <1>5. req' \in [Requests -> ReqType] /\ (\A q \in Requests : GoodReq(req[q]))'
    BY <1>0, <1>4 DEF GoodReq
  <1> QED
    BY <1>0, <1>1, <1>3, <1>5, OperatorStep

-----------------------------------------------------------------------------
(* The theorems. *)

LEMMA KekInitially == Init => KekInv
  <1> SUFFICES ASSUME Init PROVE KekInv
    OBVIOUS
  <1> USE DEF Init
  <1>1. NotCached \in Cached /\ NotCached.at = - CacheTtl /\ NotCached.pair.current = NoKek
        /\ NotCached.pair.sound = FALSE
    BY KekRotationAssumption DEF NotCached, Cached, Pair, NoPair
  <1>2. IdleRequest \in ReqType /\ IdleRequest.pc = "idle" /\ IdleRequest.now = 0
        /\ IdleRequest.entry = NoEntry /\ IdleRequest.seen = NoRecord
    BY KekRotationAssumption DEF IdleRequest, ReqType
  <1>3. proc \in Seq(Steps) /\ step \in 1 .. Len(proc) + 1
    BY KekRotationAssumption
  <1>4. kv \in [Entries -> Record] /\ \A e \in Entries : Unmixed(NsOf[e], kv[e])
    BY KekRotationAssumption, InitialAssumption, NoRecordType
  <1>5. TypeOK
    BY <1>1, <1>2, <1>3, <1>4, KekRotationAssumption, KekFacts, IdleToolFacts, NamespaceFacts, NoRecordType
    DEF TypeOK, ReqType, ToolType
  <1>6. \A i \in Isolates : GoodCache(cache[i])
    BY <1>1, KekRotationAssumption DEF GoodCache
  <1>7. \A q \in Requests : GoodReq(req[q])
    BY <1>2, NoRecordUnmixed DEF GoodReq
  <1>8. AllUnmixed
    BY <1>4, IdleToolFacts, NoRecordUnmixed DEF AllUnmixed
  <1>9. ToolInPlace /\ NamespaceUntouched
    BY IdleToolFacts DEF ToolInPlace, NamespaceUntouched
  <1> QED
    BY <1>5, <1>6, <1>7, <1>8, <1>9 DEF KekInv

LEMMA KekInductive == KekInv /\ [Next]_vars => KekInv'
  <1> SUFFICES ASSUME KekInv, [Next]_vars PROVE KekInv'
    OBVIOUS
  <1>1. CASE Tick
    BY <1>1, TickInductive
  <1>2. CASE \E q \in Requests :
               \/ \E e \in Entries :
                    \/ get_signing_keypair(q, e) \/ get_officer_by_id(q, e) \/ get_client_by_id(q, e)
                    \/ register_test_issuer(q, e) \/ store_encrypted_key(q, e)
               \/ fetch_current(q) \/ fetch_previous(q)
               \/ update_officer_last_used_by_id(q) \/ update_client_last_used(q) \/ put(q)
    BY <1>2, WorkerInductive
  <1>3. CASE \E e \in Entries : expire(e)
    BY <1>3, ExpireInductive
  <1>4. CASE list_kv_keys \/ read_entry \/ end_phase_1 \/ write_entry
    BY <1>4, ListInductive, ReadInductive, EndPhase1Inductive, WriteInductive
  <1>5. CASE rotate_kek \/ verify_rotation
    BY <1>5, StartInductive DEF rotate_kek, verify_rotation, Modes
  <1>6. CASE tool_ended \/ set_secret \/ deploy
    BY <1>6, ToolEndedInductive, SetSecretInductive, DeployInductive
  <1>7. CASE UNCHANGED vars
    <2>1. TypeOK'
      BY <1>7 DEF KekInv, TypeOK, vars, toolVars, operatorVars
    <2>2. (\A i \in Isolates : GoodCache(cache[i]))' /\ (\A q \in Requests : GoodReq(req[q]))'
      BY <1>7 DEF KekInv, GoodCache, GoodReq, vars, operatorVars
    <2>3. AllUnmixed' /\ ToolInPlace' /\ NamespaceUntouched'
      BY <1>7 DEF KekInv, AllUnmixed, ToolInPlace, NamespaceUntouched, Ns, vars, toolVars, operatorVars
    <2> QED
      BY <1>7, <2>1, <2>2, <2>3 DEF KekInv, vars, operatorVars
  <1> QED
    BY <1>1, <1>2, <1>3, <1>4, <1>5, <1>6, <1>7 DEF Next

(* Type correctness of the rotation, whatever the procedure and the records. *)
THEOREM KekRotationTypeCorrect == Spec => []TypeOK
  <1>1. KekInv => TypeOK
    BY DEF KekInv
  <1> QED
    BY <1>1, KekInitially, KekInductive, PTL DEF Spec

(* A secret's former value is served from no cache CacheTtl after the change:
   get_kek_pair dates a pair before it fetches it. *)
THEOREM KekFreshHolds == Spec => []KekFresh
  <1>1. KekInv => KekFresh
    <2> SUFFICES ASSUME KekInv, NEW i \in Isolates, Fresh(i)
                 PROVE  /\ clock >= changed["current"] + CacheTtl => cache[i].pair.current = current
                        /\ clock >= changed["previous"] + CacheTtl /\ cache[i].pair.sound =>
                             cache[i].pair.previous = previous
      BY DEF KekFresh
    <2>1. GoodCache(cache[i]) /\ cache[i].at \in Int /\ clock \in Int /\ CacheTtl \in Nat
          /\ changed["current"] \in Int /\ changed["previous"] \in Int
      BY KekRotationAssumption DEF KekInv, TypeOK, Cached
    <2>2. clock - cache[i].at < CacheTtl
      BY <2>1 DEF Fresh
    <2> QED
      BY <2>1, <2>2 DEF GoodCache
  <1> QED
    BY <1>1, KekInitially, KekInductive, PTL DEF Spec

(* The tool modifies no data of a namespace in which an entry fails, as it
   decrypts all entries of a namespace before it writes the first. *)
THEOREM NamespaceUntouchedHolds == Spec => []NamespaceUntouched
  <1>1. KekInv => NamespaceUntouched
    BY DEF KekInv
  <1> QED
    BY <1>1, KekInitially, KekInductive, PTL DEF Spec

(* No record ever mixes the two KEKs, so that verify-rotation may judge it by
   its first field. *)
THEOREM FirstFieldSpeaksHolds == Spec => []FirstFieldSpeaks
  <1>1. KekInv => FirstFieldSpeaks
    BY DEF KekInv, AllUnmixed, Unmixed, FirstFieldSpeaks
  <1> QED
    BY <1>1, KekInitially, KekInductive, PTL DEF Spec

-----------------------------------------------------------------------------
(* Removal of the previous KEK after a verification without requests under way. *)

(* The old KEK is in the record. *)
OldIn(e, rec) == rec.encrypted /\ \E f \in fields(NsOf[e]) : rec.fields[f] = OldKek

(* No cached pair with the old KEK is fresh, nor will be one yet to be stored. *)
Forgotten ==
    /\ current = NewKek
    /\ \A i \in Isolates : cache[i].pair.current = NewKek \/ cache[i].at + CacheTtl <= clock
    /\ \A q \in Requests : req[q].pc = "fetch_previous" =>
         \/ req[q].kek = NewKek
         \/ req[q].home = Retired
         \/ req[q].now + CacheTtl <= clock

(* No request has the old KEK in hand. *)
NewInHand == \A q \in Requests : req[q].pc = "fetch_previous" => req[q].kek = NewKek

Holding(x) == x.pc \in {"fetch_current", "fetch_previous", "put"}

(* What a request holds has the old KEK in it if what it would overwrite has. *)
Agree == \A q \in Requests : Holding(req[q]) =>
           (OldIn(req[q].entry, req[q].seen) <=> OldIn(req[q].entry, kv[req[q].entry]))

(* No configured record has the old KEK in it, nor will one that is held. *)
Clean ==
    /\ \A e \in Entries : NsOf[e] \in Configured => ~ OldIn(e, kv[e])
    /\ \A q \in Requests : Holding(req[q]) /\ NsOf[req[q].entry] \in Configured =>
         ~ OldIn(req[q].entry, req[q].seen)

Verifications == {"verify", "verify_rotation"}

(* The run of the tool has been through entry e. *)
Checked(e) ==
    /\ tool.pc \in {"list", "read", "complete", "failed"}
    /\ \/ Before(e, tool.ns)
       \/ tool.pc = "read" /\ NsOf[e] = Ns /\ e \notin tool.todo
       \/ tool.pc \in {"complete", "failed"}

(* The verification has objected to the old KEK in what it has been through. *)
RunSpeaks ==
    \A e \in Entries : NsOf[e] \in Configured /\ Checked(e) /\ OldIn(e, kv[e]) => tool.bad # {}

RunKept ==
    /\ tool.pc \notin {"idle", "aborted"} => tool.mode = proc[step]
    /\ tool.pc = "write" => tool.mode = "rotate"
    /\ tool.pc = "complete" => tool.bad = {}
    /\ \A e \in Entries : ~ OldIn(e, tool.staged[e])

(* The verification under way began after the deployment and without requests. *)
Quiet == step \in calm /\ Settled(proc, step)

SafeInv ==
    /\ \A n \in 1 .. step - 1 : proc[n] = "current" => current = NewKek
    /\ \A v \in calm : v <= step /\ proc[v] \in Verifications
    /\ RunKept
    /\ Settled(proc, step) => Forgotten
    /\ Quiet => NewInHand /\ Agree /\ RunSpeaks
    /\ Verified(step) => NewInHand /\ Clean

-----------------------------------------------------------------------------
(* The old KEK in records. *)

LEMMA NsCases == \A e \in Entries : NsOf[e] \in {"keys", "officers", "clients", "ed25519", "sessions"}
  BY KekRotationAssumption, NamespaceFacts

LEMMA FieldsFacts ==
    \A e \in Entries : fields(NsOf[e]) \subseteq FieldNames /\ "secret" \in fields(NsOf[e])
  BY NsCases DEF fields, FieldNames

LEMMA OldNotInNone == \A e : ~ OldIn(e, NoRecord)
  BY DEF OldIn, NoRecord

(* A record created under the new KEK is free of the old one, *)
LEMMA OldNotInNew ==
    ASSUME NEW e \in Entries, NEW p \in Pair, p.current = NewKek
    PROVE  ~ OldIn(e, NewRecord(e, p))
  <1>1. \A f \in FieldNames : NewRecord(e, p).fields[f] \in {NewKek, Garbage, Absent}
    BY DEF NewRecord, FieldNames
  <1> QED
    BY <1>1, FieldsFacts, KekRotationAssumption DEF OldIn

(* and so is one that the tool re-encrypted. *)
LEMMA OldNotInReEncrypted ==
    ASSUME NEW e \in Entries, NEW rec \in Record
    PROVE  ~ OldIn(e, ReEncrypted(rec, NsOf[e]))
  <1>1. ReEncrypted(rec, NsOf[e]) =
          [rec EXCEPT !.fields = [f \in FieldNames |->
             IF f \in fields(NsOf[e]) /\ rec.fields[f] # Absent THEN NewKek ELSE rec.fields[f]]]
    BY DEF ReEncrypted
  <1>2. ReEncrypted(rec, NsOf[e]).fields = [f \in FieldNames |->
             IF f \in fields(NsOf[e]) /\ rec.fields[f] # Absent THEN NewKek ELSE rec.fields[f]]
    BY <1>1 DEF Record
  <1>3. \A f \in fields(NsOf[e]) : ReEncrypted(rec, NsOf[e]).fields[f] \in {NewKek, Absent}
    BY <1>2, FieldsFacts
  <1> QED
    BY <1>3, KekRotationAssumption DEF OldIn

(* Both verifications object to a record with the old KEK in it. *)
LEMMA OldObjected ==
    ASSUME NEW e \in Entries, NEW rec \in Record, Unmixed(NsOf[e], rec), OldIn(e, rec),
           NEW mode \in {"verify", "verify_rotation"}
    PROVE  ~ Passes(rec, NsOf[e], mode) /\ rec.encrypted /\ rec # NoRecord
  <1>1. PICK f \in fields(NsOf[e]) : rec.fields[f] = OldKek
    BY DEF OldIn
  <1>2. f \in FieldNames /\ OldKek # NewKek /\ OldKek # Absent /\ NewKek # Absent /\ NewKek # Garbage
    BY <1>1, FieldsFacts, KekRotationAssumption
  <1>3. CASE mode = "verify"
    <2>1. field_val(rec, f) # NewKek /\ ~ (field_val(rec, f) = Absent /\ optional(f))
      BY <1>1, <1>2 DEF field_val, optional
    <2> QED
      BY <1>1, <1>3, <2>1, OldNotInNone DEF Passes, AllFields, aes_gcm_decrypt, OldIn
  <1>4. CASE mode = "verify_rotation"
    <2>1. rec.fields["secret"] \in {OldKek, Garbage}
      BY <1>1, <1>2, KekFacts DEF Unmixed
    <2>2. field_val(rec, "secret") # NewKek
      BY <1>2, <2>1 DEF field_val
    <2>3. entry_result(rec) # "Current"
      BY <2>2 DEF entry_result, aes_gcm_decrypt
    <2> QED
      BY <1>4, <2>3, OldNotInNone DEF Passes, OldIn
  <1> QED
    BY <1>3, <1>4

-----------------------------------------------------------------------------
(* Places in a procedure. *)

LEMMA StepNat == KekInv => step \in Nat /\ proc \in Seq(Steps) /\ Len(proc) \in Nat
  BY StepFacts DEF KekInv

LEMMA SettledLater ==
    ASSUME NEW p, NEW d \in Nat, NEW n \in Nat, d <= n, Settled(p, d)
    PROVE  Settled(p, n)
  BY DEF Settled

LEMMA VerifiedSettled ==
    ASSUME KekInv, Verified(step)
    PROVE  Settled(proc, step)
  <1>1. PICK v \in calm : v < step /\ Settled(proc, v)
    BY DEF Verified
  <1>2. v \in Nat /\ step \in Nat
    BY StepNat, StepFacts DEF KekInv, TypeOK
  <1> QED
    BY <1>1, <1>2, SettledLater

(* What the step at place n adds. *)
LEMMA NextPlace ==
    ASSUME NEW p, NEW n \in Nat, Settled(p, n + 1)
    PROVE  Settled(p, n) \/ (p[n] = "deploy" /\ \E c \in 1 .. n - 1 : p[c] = "current")
  <1>1. PICK c \in 1 .. n, w \in 1 .. n : c < w /\ p[c] = "current" /\ p[w] = "deploy"
    BY DEF Settled
  <1>2. c \in 1 .. n - 1
    BY <1>1
  <1>3. CASE w = n BY <1>1, <1>2, <1>3
  <1>4. CASE w \in 1 .. n - 1 BY <1>1, <1>2, <1>4 DEF Settled
  <1> QED BY <1>3, <1>4

-----------------------------------------------------------------------------
(* The worker. *)

(* What a request holds after its step, ... *)
Move(q, x) ==
    /\ req' = [req EXCEPT ![q] = x]
    /\ x.pc = "fetch_previous" => x.kek = current
    /\ Holding(x) =>
         /\ x.entry \in Entries
         /\ kv' = kv
         /\ \/ x.seen = kv[x.entry]
            \/ Holding(req[q]) /\ x.entry = req[q].entry /\ x.seen = req[q].seen
            \/ /\ \/ kv[x.entry] = NoRecord
                  \/ Holding(req[q]) /\ x.entry = req[q].entry /\ req[q].seen = NoRecord
               /\ Forgotten /\ NewInHand => ~ OldIn(x.entry, x.seen)

(* ... what it may have written, ... *)
KvMove(q) ==
    \/ kv' = kv
    \/ req[q].pc = "put" /\ kv' = [kv EXCEPT ![req[q].entry] = req[q].seen]

(* ... and what it may have cached. *)
CacheMove(q) ==
    \A i \in Isolates :
      \/ cache'[i] = cache[i]
      \/ /\ req[q].pc = "fetch_previous" /\ req[q].home # Retired
         /\ cache'[i].pair.current = req[q].kek /\ cache'[i].at = req[q].now

LEMMA EndsMove ==
    ASSUME NEW q \in Requests, Ends(q)
    PROVE  \E x : Move(q, x)
  <1>1. EndedRequest.pc = "ended"
    BY DEF EndedRequest, IdleRequest
  <1> QED
    BY <1>1 DEF Ends, Becomes, Move, Holding

LEMMA UsePairMove ==
    ASSUME KekInv, NEW q \in Requests, NEW r \in ReqType, NEW p \in Pair, kv' = kv,
           r.entry \in Entries, Forgotten /\ NewInHand => p.current = NewKek,
           \/ r.seen = kv[r.entry]
           \/ Holding(req[q]) /\ r.entry = req[q].entry /\ r.seen = req[q].seen,
           UsePair(q, r, p)
    PROVE  \E x : Move(q, x)
  <1>1. CASE r.seen = NoRecord
    <2> DEFINE x == [r EXCEPT !.pc = "put", !.kek = NoKek, !.seen = NewRecord(r.entry, p)]
    <2>1. req' = [req EXCEPT ![q] = x]
      BY <1>1 DEF UsePair, Becomes
    <2>2. x.pc = "put" /\ x.entry = r.entry /\ x.seen = NewRecord(r.entry, p)
      BY DEF ReqType
    <2>3. Forgotten /\ NewInHand => ~ OldIn(x.entry, x.seen)
      BY <2>2, OldNotInNew
    <2> HIDE DEF x
    <2> QED
      BY <1>1, <2>1, <2>2, <2>3 DEF Move
  <1>2. CASE r.seen # NoRecord /\ ~ Ends(q)
    <2> DEFINE x == [r EXCEPT !.pc = "touch", !.kek = NoKek, !.seen = NoRecord]
    <2>1. req' = [req EXCEPT ![q] = x]
      BY <1>2 DEF UsePair, Becomes
    <2>2. x.pc = "touch"
      BY DEF ReqType
    <2> HIDE DEF x
    <2> QED
      BY <2>1, <2>2 DEF Move, Holding
  <1> QED
    BY <1>1, <1>2, EndsMove

LEMMA GetPairMove ==
    ASSUME KekInv, NEW q \in Requests, NEW e \in Entries, get_kek_pair(q, e), kv' = kv
    PROVE  \E x : Move(q, x)
  <1>0. Parts
    BY PartsHold
  <1> USE DEF Parts
  <1>1. PICK i \in Isolates :
          LET r == [IdleRequest EXCEPT !.entry = e, !.home = i, !.now = clock, !.seen = kv[e]]
          IN  \/ Fresh(i) /\ UsePair(q, r, cache[i].pair)
              \/ Becomes(q, [r EXCEPT !.pc = "fetch_current"])
    BY DEF get_kek_pair
  <1> DEFINE r == [IdleRequest EXCEPT !.entry = e, !.home = i, !.now = clock, !.seen = kv[e]]
             x == [r EXCEPT !.pc = "fetch_current"]
  <1>2. r \in ReqType /\ r.entry = e /\ r.seen = kv[e]
    BY <1>0, IdleGood DEF ReqType
  <1> HIDE DEF r
  <1>3. CASE Fresh(i) /\ UsePair(q, r, cache[i].pair)
    <2>1. cache[i].pair \in Pair /\ cache[i].at \in Int /\ CacheTtl \in Nat
      BY <1>0, KekRotationAssumption DEF Cached
    <2>2. Forgotten => cache[i].pair.current = NewKek
      BY <1>0, <1>3, <2>1 DEF Forgotten, Fresh
    <2> QED
      BY <1>2, <1>3, <2>1, <2>2, UsePairMove
  <1>4. CASE Becomes(q, x)
    <2>1. x.pc = "fetch_current" /\ x.entry = e /\ x.seen = kv[e]
      BY <1>2 DEF ReqType
    <2> HIDE DEF x
    <2> QED
      BY <1>4, <2>1 DEF Move, Becomes
  <1> QED
    BY <1>1, <1>3, <1>4 DEF r

(* The steps of a request. *)
Works(q) ==
    \/ \E e \in Entries :
         \/ get_signing_keypair(q, e) \/ get_officer_by_id(q, e) \/ get_client_by_id(q, e)
         \/ register_test_issuer(q, e) \/ store_encrypted_key(q, e)
    \/ fetch_current(q) \/ fetch_previous(q)
    \/ update_officer_last_used_by_id(q) \/ update_client_last_used(q) \/ put(q)

LEMMA WorkerMoves ==
    ASSUME KekInv, NEW q \in Requests, Works(q)
    PROVE  /\ \E x : Move(q, x)
           /\ KvMove(q) /\ CacheMove(q)
           /\ UNCHANGED <<clock, current, toolVars, operatorVars>>
  <1>0. Parts
    BY PartsHold
  <1> USE DEF Parts
  <1>1. ASSUME NEW e \in Entries, Lookup(q, e) \/ Creation(q, e)
        PROVE  (\E x : Move(q, x)) /\ KvMove(q) /\ CacheMove(q)
               /\ UNCHANGED <<clock, current, toolVars, operatorVars>>
    <2>1. UNCHANGED <<clock, kv, current, previous, cache, toolVars, operatorVars>>
      BY <1>1 DEF Lookup, Creation
    <2>2. \E x : Move(q, x)
      BY <1>1, <2>1, GetPairMove, EndsMove DEF Lookup, Creation
    <2> QED
      BY <2>1, <2>2 DEF KvMove, CacheMove
  <1>2. CASE fetch_current(q)
    <2>1. UNCHANGED <<clock, kv, current, previous, cache, toolVars, operatorVars, outage>>
      BY <1>2 DEF fetch_current
    <2>2. \E x : Move(q, x)
      <3> DEFINE x == [req[q] EXCEPT !.kek = current, !.pc = "fetch_previous"]
      <3>1. CASE req' = [req EXCEPT ![q] = x]
        <4>1. req[q] \in ReqType /\ GoodReq(req[q]) /\ req[q].pc = "fetch_current"
              /\ req[q].entry \in Entries
          BY <1>0, <1>2 DEF fetch_current, GoodReq
        <4>2. x.kek = current /\ x.entry = req[q].entry /\ x.seen = req[q].seen
          BY <1>0, <4>1 DEF ReqType
        <4> HIDE DEF x
        <4> QED
          BY <2>1, <3>1, <4>1, <4>2 DEF Move, Holding
      <3> QED
        BY <1>2, <3>1, EndsMove DEF fetch_current, Becomes
    <2> QED
      BY <2>1, <2>2 DEF KvMove, CacheMove
  <1>3. CASE fetch_previous(q)
    <2>1. UNCHANGED <<clock, kv, current, previous, toolVars, operatorVars>>
      BY <1>3 DEF fetch_previous
    <2>2. PICK sound \in BOOLEAN :
            LET p == [current |-> req[q].kek, previous |-> IF sound THEN previous ELSE NoKek,
                      sound |-> sound]
            IN  /\ cache' = IF req[q].home = Retired THEN cache
                              ELSE [cache EXCEPT ![req[q].home] = [pair |-> p, at |-> req[q].now]]
                /\ UsePair(q, req[q], p)
      BY <1>3, KekRotationAssumption DEF fetch_previous, FetchedAt
    <2> DEFINE p == [current |-> req[q].kek, previous |-> IF sound THEN previous ELSE NoKek,
                     sound |-> sound]
    <2>3. req[q] \in ReqType /\ GoodReq(req[q]) /\ req[q].pc = "fetch_previous"
          /\ req[q].entry \in Entries
      BY <1>0, <1>3 DEF fetch_previous, GoodReq
    <2>4. p \in Pair /\ p.current = req[q].kek
      BY <1>0, <2>3 DEF Pair, GoodReq
    <2>5. \E x : Move(q, x)
      <3>1. NewInHand => p.current = NewKek
        BY <2>3, <2>4 DEF NewInHand
      <3>2. UsePair(q, req[q], p)
        BY <2>2
      <3>3. Holding(req[q])
        BY <2>3 DEF Holding
      <3> HIDE DEF p
      <3> QED
        BY <2>1, <2>3, <2>4, <3>1, <3>2, <3>3, UsePairMove
    <2>6. CacheMove(q)
      <3> DEFINE c == [pair |-> p, at |-> req[q].now]
      <3>1. cache' = IF req[q].home = Retired THEN cache ELSE [cache EXCEPT ![req[q].home] = c]
        BY <2>2
      <3>2. c.pair.current = req[q].kek /\ c.at = req[q].now
        BY <2>4
      <3> HIDE DEF c, p
      <3> QED
        BY <1>0, <2>3, <3>1, <3>2 DEF CacheMove
    <2> QED
      BY <2>1, <2>5, <2>6 DEF KvMove
  <1>4. CASE UpdateLastUsed(q)
    <2>1. UNCHANGED <<clock, kv, current, previous, cache, toolVars, operatorVars, outage>>
      BY <1>4 DEF UpdateLastUsed
    <2>2. \E x : Move(q, x)
      <3> DEFINE x == [req[q] EXCEPT !.pc = "put", !.seen = kv[req[q].entry]]
      <3>1. CASE req' = [req EXCEPT ![q] = x]
        <4>1. req[q] \in ReqType /\ GoodReq(req[q]) /\ req[q].pc = "touch" /\ req[q].entry \in Entries
          BY <1>0, <1>4 DEF UpdateLastUsed, GoodReq
        <4>2. x.pc = "put" /\ x.entry = req[q].entry /\ x.seen = kv[req[q].entry]
          BY <1>0, <4>1 DEF ReqType
        <4> HIDE DEF x
        <4> QED
          BY <2>1, <3>1, <4>1, <4>2 DEF Move
      <3> QED
        BY <1>4, <3>1, EndsMove DEF UpdateLastUsed, Becomes
    <2> QED
      BY <2>1, <2>2 DEF KvMove, CacheMove
  <1>5. CASE put(q)
    BY <1>5, EndsMove DEF put, KvMove, CacheMove
  <1> QED
    BY <1>1, <1>2, <1>3, <1>4, <1>5
    DEF Works, get_signing_keypair, get_officer_by_id, get_client_by_id, register_test_issuer,
        store_encrypted_key, update_officer_last_used_by_id, update_client_last_used

(* In a quiet verification, and after it, a step of the worker brings the old KEK
   into no record. *)
LEMMA WorkerKeepsAgree ==
    ASSUME KekInv, NEW q \in Requests, NEW x, Move(q, x), KvMove(q), CacheMove(q),
           Forgotten, NewInHand, Agree
    PROVE  /\ Agree'
           /\ \A e \in Entries : OldIn(e, kv'[e]) => OldIn(e, kv[e])
  <1>0. Parts
    BY PartsHold
  <1> USE DEF Parts
  <1>1. \A r \in Requests : Holding(req[r]) => req[r].entry \in Entries
    BY <1>0 DEF GoodReq, Holding
  <1>2. \A e \in Entries : OldIn(e, kv'[e]) <=> OldIn(e, kv[e])
    <2>1. CASE kv' = kv
      BY <2>1
    <2>2. CASE req[q].pc = "put" /\ kv' = [kv EXCEPT ![req[q].entry] = req[q].seen]
      <3>1. req[q].entry \in Entries /\ (OldIn(req[q].entry, req[q].seen) <=> OldIn(req[q].entry, kv[req[q].entry]))
        BY <1>1, <2>2 DEF Agree, Holding
      <3> QED
        BY <1>0, <2>2, <3>1
    <2> QED
      BY <2>1, <2>2 DEF KvMove
  <1>3. ASSUME NEW r \in Requests, Holding(req'[r])
        PROVE  OldIn(req'[r].entry, req'[r].seen) <=> OldIn(req'[r].entry, kv'[req'[r].entry])
    <2>1. CASE r # q
      <3>1. req'[r] = req[r]
        BY <1>0, <2>1 DEF Move
      <3> QED
        BY <1>1, <1>2, <1>3, <3>1 DEF Agree
    <2>2. CASE r = q
      <3>1. req'[r] = x /\ Holding(x)
        BY <1>0, <1>3, <2>2 DEF Move
      <3>2. x.entry \in Entries /\ kv' = kv
        BY <3>1 DEF Move
      <3>3. OldIn(x.entry, x.seen) <=> OldIn(x.entry, kv[x.entry])
        BY <3>1, OldNotInNone DEF Move, Agree
      <3> QED
        BY <3>1, <3>2, <3>3
    <2> QED
      BY <2>1, <2>2
  <1> QED
    BY <1>2, <1>3 DEF Agree

LEMMA WorkerKeepsClean ==
    ASSUME KekInv, NEW q \in Requests, NEW x, Move(q, x), KvMove(q), Forgotten, NewInHand, Clean
    PROVE  Clean'
  <1>0. Parts
    BY PartsHold
  <1> USE DEF Parts
  <1>1. ASSUME NEW e \in Entries, NsOf[e] \in Configured PROVE ~ OldIn(e, kv'[e])
    <2>1. CASE kv' = kv
      BY <1>1, <2>1 DEF Clean
    <2>2. CASE req[q].pc = "put" /\ kv' = [kv EXCEPT ![req[q].entry] = req[q].seen]
      <3>1. NsOf[req[q].entry] \in Configured => ~ OldIn(req[q].entry, req[q].seen)
        BY <2>2 DEF Clean, Holding
      <3> QED
        BY <1>0, <1>1, <2>2, <3>1 DEF Clean
    <2> QED
      BY <2>1, <2>2 DEF KvMove
  <1>2. ASSUME NEW r \in Requests, Holding(req'[r]), NsOf[req'[r].entry] \in Configured
        PROVE  ~ OldIn(req'[r].entry, req'[r].seen)
    <2>1. CASE r # q
      BY <1>0, <1>2, <2>1 DEF Move, Clean
    <2>2. CASE r = q
      <3>1. req'[r] = x /\ Holding(x) /\ NsOf[x.entry] \in Configured
        BY <1>0, <1>2, <2>2 DEF Move
      <3>2. ~ OldIn(x.entry, x.seen)
        BY <3>1 DEF Move, Clean
      <3> QED
        BY <3>1, <3>2
    <2> QED
      BY <2>1, <2>2
  <1> QED
    BY <1>1, <1>2 DEF Clean

LEMMA WorkerKeepsForgotten ==
    ASSUME KekInv, NEW q \in Requests, NEW x, Move(q, x), CacheMove(q), Forgotten,
           UNCHANGED <<clock, current>>
    PROVE  Forgotten' /\ (NewInHand => NewInHand')
  <1>0. Parts
    BY PartsHold
  <1> USE DEF Parts
  <1>1. \A r \in Requests : req'[r] = IF r = q THEN x ELSE req[r]
    BY <1>0 DEF Move
  <1>2. x.pc = "fetch_previous" => x.kek = NewKek
    BY DEF Move, Forgotten
  <1>3. NewInHand => NewInHand'
    BY <1>1, <1>2 DEF NewInHand
  <1>4. \A i \in Isolates : cache'[i].pair.current = NewKek \/ cache'[i].at + CacheTtl <= clock
    BY DEF CacheMove, Forgotten
  <1>5. \A r \in Requests : req'[r].pc = "fetch_previous" =>
          req'[r].kek = NewKek \/ req'[r].home = Retired \/ req'[r].now + CacheTtl <= clock
    BY <1>1, <1>2 DEF Forgotten
  <1> QED
    BY <1>3, <1>4, <1>5 DEF Forgotten

LEMMA WorkerSafe ==
    ASSUME KekInv, SafeInv, NEW q \in Requests, Works(q)
    PROVE  SafeInv'
  <1>1. PICK x : Move(q, x)
    BY WorkerMoves
  <1>2. KvMove(q) /\ CacheMove(q) /\ UNCHANGED <<clock, current, toolVars, operatorVars>>
    BY WorkerMoves
  <1>4. Settled(proc, step) => Forgotten'
    BY <1>1, <1>2, WorkerKeepsForgotten DEF SafeInv
  <1>5. Quiet => NewInHand' /\ Agree' /\ \A e \in Entries : OldIn(e, kv'[e]) => OldIn(e, kv[e])
    BY <1>1, <1>2, WorkerKeepsForgotten, WorkerKeepsAgree DEF SafeInv, Quiet
  <1>6. Verified(step) => NewInHand' /\ Clean'
    BY <1>1, <1>2, VerifiedSettled, WorkerKeepsForgotten, WorkerKeepsClean DEF SafeInv
  <1>7. UNCHANGED <<tool, proc, step, calm>>
    BY <1>2 DEF toolVars, operatorVars
  <1>8. Quiet => RunSpeaks'
    <2>1. \A e \in Entries : Checked(e)' <=> Checked(e)
      BY <1>7 DEF Checked, Before, Ns
    <2> QED
      BY <1>5, <1>7, <2>1 DEF SafeInv, RunSpeaks
  <1>9. RunKept'
    BY <1>7 DEF SafeInv, RunKept
  <1>10. (Quiet <=> Quiet') /\ (Verified(step) <=> Verified(step)')
    BY <1>7 DEF Quiet, Verified
  <1> QED
    BY <1>2, <1>4, <1>5, <1>6, <1>7, <1>8, <1>9, <1>10 DEF SafeInv

LEMMA TickSafe == ASSUME KekInv, SafeInv, Tick PROVE SafeInv'
  <1>0. Parts
    BY PartsHold
  <1> USE DEF Parts
  <1>1. UNCHANGED <<kv, current, cache, req, tool, proc, step, calm>> /\ clock' = clock + 1
    BY DEF Tick, toolVars, operatorVars
  <1>2. Forgotten => Forgotten'
    <2>1. \A i \in Isolates : cache[i].at \in Int
      BY <1>0 DEF Cached
    <2>2. \A q \in Requests : req[q].now \in Int
      BY <1>0, KekRotationAssumption DEF ReqType
    <2> QED
      BY <1>0, <1>1, <2>1, <2>2, KekRotationAssumption DEF Forgotten
  <1>3. (NewInHand <=> NewInHand') /\ (Agree <=> Agree') /\ (Clean <=> Clean')
    BY <1>1 DEF NewInHand, Agree, Clean
  <1>4. RunKept' /\ (RunSpeaks => RunSpeaks')
    BY <1>1 DEF SafeInv, RunKept, RunSpeaks, Checked, Before, Ns
  <1>5. (Quiet <=> Quiet') /\ (Verified(step) <=> Verified(step)')
    BY <1>1 DEF Quiet, Verified
  <1> QED
    BY <1>1, <1>2, <1>3, <1>4, <1>5 DEF SafeInv

LEMMA ExpireSafe == ASSUME KekInv, SafeInv, NEW e \in Entries, expire(e) PROVE SafeInv'
  <1>0. Parts
    BY PartsHold
  <1> USE DEF Parts
  <1>1. UNCHANGED <<clock, current, cache, req, tool, proc, step, calm>>
        /\ kv' = [kv EXCEPT ![e] = NoRecord]
    BY DEF expire, toolVars, operatorVars
  <1>2. \A q \in Requests : Holding(req[q]) => req[q].entry # e
    BY DEF expire, InFlight, Holding
  <1>3. \A x \in Entries : OldIn(x, kv'[x]) => OldIn(x, kv[x])
    BY <1>0, <1>1, OldNotInNone
  <1>4. Agree => Agree'
    <2>1. \A q \in Requests : Holding(req[q]) => kv'[req[q].entry] = kv[req[q].entry]
      BY <1>0, <1>1, <1>2 DEF GoodReq, Holding
    <2> QED
      BY <1>1, <2>1 DEF Agree
  <1>5. Clean => Clean'
    BY <1>1, <1>3 DEF Clean
  <1>6. (Forgotten => Forgotten') /\ (NewInHand => NewInHand') /\ RunKept'
    BY <1>1 DEF Forgotten, NewInHand, SafeInv, RunKept
  <1>7. RunSpeaks => RunSpeaks'
    BY <1>1, <1>3 DEF RunSpeaks, Checked, Before, Ns
  <1>8. (Quiet <=> Quiet') /\ (Verified(step) <=> Verified(step)')
    BY <1>1 DEF Quiet, Verified
  <1> QED
    BY <1>1, <1>4, <1>5, <1>6, <1>7, <1>8 DEF SafeInv

-----------------------------------------------------------------------------
(* The tool. *)

(* SafeInv survives a step of the tool that puts the old KEK into no record
   and, in such a verification, writes none. *)
LEMMA ToolSafe ==
    ASSUME KekInv, SafeInv, UNCHANGED <<clock, current, cache, req, proc, step, calm>>,
           RunKept', Quiet => kv' = kv,
           \A e \in Entries : kv'[e] = kv[e] \/ ~ OldIn(e, kv'[e]),
           Quiet => RunSpeaks'
    PROVE  SafeInv'
  <1>1. (Forgotten => Forgotten') /\ (NewInHand => NewInHand')
    BY DEF Forgotten, NewInHand
  <1>2. Quiet /\ Agree => Agree'
    BY DEF Agree
  <1>3. Clean => Clean'
    BY DEF Clean
  <1>4. (Quiet <=> Quiet') /\ (Verified(step) <=> Verified(step)')
    BY DEF Quiet, Verified
  <1> QED
    BY <1>1, <1>2, <1>3, <1>4 DEF SafeInv

(* The step at which a quiet verification is under way is one. *)
LEMMA QuietVerifies == SafeInv /\ Quiet => proc[step] \in Verifications
  BY DEF SafeInv, Quiet

LEMMA AbortSafe ==
    ASSUME KekInv, SafeInv, Aborts, kv' = kv,
           UNCHANGED <<clock, current, cache, req, proc, step, calm>>
    PROVE  SafeInv'
  <1>1. tool'.pc = "aborted" /\ tool'.staged = [e \in Entries |-> NoRecord]
    BY AbortedFacts DEF Aborts
  <1>2. RunKept'
    BY <1>1, OldNotInNone DEF RunKept
  <1>3. RunSpeaks'
    BY <1>1 DEF RunSpeaks, Checked
  <1> QED
    BY <1>2, <1>3, ToolSafe

LEMMA ListSafe == ASSUME KekInv, SafeInv, list_kv_keys PROVE SafeInv'
  <1>0. ToolParts /\ UNCHANGED <<clock, kv, current, cache, req, proc, step, calm>> /\ tool.pc = "list"
    BY ToolPartsHold DEF list_kv_keys, operatorVars
  <1> USE DEF ToolParts
  <1>1. CASE Aborts
    BY <1>0, <1>1, AbortSafe
  <1>2. CASE ~ Aborts
    <2> DEFINE T == {e \in Entries : NsOf[e] = Ns /\ kv[e] # NoRecord}
    <2>1. tool' = [tool EXCEPT !.pc = "read", !.todo = T]
      BY <1>2 DEF list_kv_keys
    <2>2. \A e \in Entries : NsOf[e] = Ns /\ e \notin T => kv[e] = NoRecord
      OBVIOUS
    <2> HIDE DEF T
    <2>3. tool'.pc = "read" /\ tool'.todo = T /\ tool'.ns = tool.ns /\ tool'.mode = tool.mode
          /\ tool'.staged = tool.staged /\ tool'.bad = tool.bad
      BY <1>0, <2>1 DEF ToolType
    <2>4. RunKept'
      BY <1>0, <2>3 DEF SafeInv, RunKept
    <2>5. RunSpeaks => RunSpeaks'
      <3>1. \A e \in Entries : Checked(e)' => Checked(e) \/ kv[e] = NoRecord
        BY <1>0, <2>2, <2>3 DEF Checked, Before, Ns
      <3> QED
        BY <1>0, <2>3, <3>1, OldNotInNone DEF RunSpeaks
    <2> QED
      BY <1>0, <2>4, <2>5, ToolSafe, QuietVerifies DEF SafeInv
  <1> QED
    BY <1>1, <1>2

LEMMA ReadSafe == ASSUME KekInv, SafeInv, read_entry PROVE SafeInv'
  <1>0. ToolParts /\ UNCHANGED <<clock, kv, current, cache, req, proc, step, calm>> /\ tool.pc = "read"
    BY ToolPartsHold DEF read_entry, operatorVars
  <1> USE DEF ToolParts
  <1>1. CASE Aborts
    BY <1>0, <1>1, AbortSafe
  <1>2. CASE ~ Aborts
    <2> DEFINE rest(e) == [tool EXCEPT !.todo = tool.todo \ {e}]
    <2>1. PICK e \in tool.todo :
            tool' = CASE Skipped(kv[e]) -> rest(e)
                      [] ~ Skipped(kv[e]) /\ ~ Passes(kv[e], Ns, tool.mode) ->
                           [rest(e) EXCEPT !.bad = rest(e).bad \cup {Ns}]
                      [] OTHER ->
                           [rest(e) EXCEPT !.staged[e] = IF tool.mode = "rotate"
                               THEN ReEncrypted(kv[e], Ns) ELSE rest(e).staged[e]]
      BY <1>2 DEF read_entry
    <2>2. e \in Entries /\ NsOf[e] = Ns /\ kv[e] \in Record
      BY <1>0 DEF ToolType, ToolInPlace
    <2>3. /\ tool'.pc = "read" /\ tool'.ns = tool.ns /\ tool'.mode = tool.mode
          /\ tool'.todo = tool.todo \ {e}
          /\ tool.bad # {} => tool'.bad # {}
          /\ ~ Skipped(kv[e]) /\ ~ Passes(kv[e], Ns, tool.mode) => tool'.bad # {}
          /\ \/ tool'.staged = tool.staged
             \/ tool'.staged = [tool.staged EXCEPT ![e] = ReEncrypted(kv[e], Ns)]
      <3>1. rest(e) \in ToolType /\ rest(e).pc = "read" /\ rest(e).ns = tool.ns /\ rest(e).mode = tool.mode
            /\ rest(e).todo = tool.todo \ {e} /\ rest(e).bad = tool.bad /\ rest(e).staged = tool.staged
        BY <1>0 DEF ToolType
      <3> DEFINE R == rest(e)
      <3> HIDE DEF rest, R
      <3>2. CASE tool' = R /\ Skipped(kv[e])
        BY <3>1, <3>2 DEF R
      <3>3. CASE tool' = [R EXCEPT !.bad = R.bad \cup {Ns}]
        BY <1>0, <3>1, <3>3 DEF ToolType, R
      <3>4. CASE /\ tool' = [R EXCEPT !.staged[e] = R.staged[e]]
                 /\ Passes(kv[e], Ns, tool.mode)
        <4>1. tool'.staged = R.staged
          BY <2>2, <3>1, <3>4 DEF ToolType, R
        <4> QED
          BY <3>1, <3>4, <4>1 DEF ToolType, R
      <3>5. CASE /\ tool' = [R EXCEPT !.staged[e] = ReEncrypted(kv[e], Ns)]
                 /\ Passes(kv[e], Ns, tool.mode)
        BY <2>2, <3>1, <3>5 DEF ToolType, R
      <3> QED
        BY <2>1, <3>2, <3>3, <3>4, <3>5 DEF R
    <2>4. RunKept'
      <3>1. \A x \in Entries : ~ OldIn(x, tool'.staged[x])
        BY <1>0, <2>2, <2>3, OldNotInReEncrypted DEF SafeInv, RunKept, ToolType
      <3> QED
        BY <1>0, <2>3, <3>1 DEF SafeInv, RunKept
    <2>5. proc[step] \in Verifications /\ RunSpeaks => RunSpeaks'
      <3> SUFFICES ASSUME proc[step] \in Verifications, RunSpeaks,
                          NEW x \in Entries, NsOf[x] \in Configured, Checked(x)', OldIn(x, kv[x])
                   PROVE  tool'.bad # {}
        BY <1>0 DEF RunSpeaks
      <3>1. tool.mode \in Verifications
        BY <1>0 DEF SafeInv, RunKept
      <3>2. Checked(x) \/ x = e
        BY <1>0, <2>3 DEF Checked, Before, Ns
      <3>3. CASE x = e
        <4>1. ~ Passes(kv[e], NsOf[e], tool.mode) /\ kv[e].encrypted /\ kv[e] # NoRecord
          BY <1>0, <2>2, <3>1, <3>3, OldObjected DEF AllUnmixed, Verifications
        <4> QED
          BY <2>2, <2>3, <4>1 DEF Skipped
      <3> QED
        BY <2>3, <3>2, <3>3 DEF RunSpeaks
    <2> QED
      BY <1>0, <2>4, <2>5, ToolSafe, QuietVerifies DEF SafeInv
  <1> QED
    BY <1>1, <1>2

(* A configured namespace that does not lie ahead of place n is at n or before. *)
LEMMA NotAhead ==
    ASSUME NEW n \in 0..5, NEW e \in Entries, NsOf[e] \in Configured,
           Later(n) = {} \/ Before(e, First(Later(n)))
    PROVE  Before(e, n) \/ (n # 0 /\ NsOf[e] = encrypted_namespaces[n])
  <1>1. PICK m \in 1..5 : /\ NsOf[e] = encrypted_namespaces[m]
                          /\ Later(n) = {} \/ m < First(Later(n))
    <2>1. CASE Later(n) = {}
      BY <2>1, NamespaceFacts, KekRotationAssumption DEF Namespaces
    <2>2. CASE Before(e, First(Later(n)))
      BY <2>2 DEF Before
    <2> QED
      BY <2>1, <2>2
  <1>2. m <= n
    <2>1. CASE m > n
      <3>1. m \in Later(n)
        BY <1>1, <2>1, NamespaceFacts DEF Later
      <3> QED
        BY <1>1, <3>1, FirstLater
    <2> QED
      BY <2>1
  <1> QED
    BY <1>1, <1>2 DEF Before

LEMMA NextNamespaceSafe ==
    ASSUME KekInv, SafeInv, tool.pc \in {"read", "write"}, tool.todo = {}, tool' = NextNamespace(tool),
           UNCHANGED <<clock, kv, current, cache, req, proc, step, calm>>
    PROVE  SafeInv'
  <1>0. ToolParts
    BY ToolPartsHold
  <1> USE DEF ToolParts
  <1> DEFINE n == IF Later(tool.ns) # {} THEN First(Later(tool.ns)) ELSE tool.ns
             pc == CASE Later(tool.ns) # {} -> "list"
                     [] Later(tool.ns) = {} /\ tool.bad # {} -> "failed"
                     [] OTHER -> "complete"
  <1>1. tool' = [tool EXCEPT !.staged = IdleTool.staged, !.ns = n, !.pc = pc]
    BY <1>0 DEF NextNamespace, ToolType
  <1>2. tool'.ns = n /\ tool'.pc = pc /\ tool'.bad = tool.bad /\ tool'.mode = tool.mode
        /\ tool'.staged = [e \in Entries |-> NoRecord]
    <2> HIDE DEF n, pc
    <2> QED
      BY <1>0, <1>1, IdleToolFacts DEF ToolType
  <1>3. RunKept'
    <2>1. pc # "write" /\ (pc = "complete" => tool.bad = {})
      OBVIOUS
    <2> HIDE DEF n, pc
    <2> QED
      BY <1>0, <1>2, <2>1, OldNotInNone DEF SafeInv, RunKept
  <1>4. proc[step] \in Verifications /\ RunSpeaks => RunSpeaks'
    <2> SUFFICES ASSUME proc[step] \in Verifications, RunSpeaks,
                        NEW e \in Entries, NsOf[e] \in Configured, Checked(e)', OldIn(e, kv[e])
                 PROVE  tool.bad # {}
      BY <1>0, <1>2 DEF RunSpeaks
    <2>1. tool.pc = "read"
      BY <1>0 DEF SafeInv, RunKept, Verifications
    <2>2. Later(tool.ns) = {} \/ Before(e, First(Later(tool.ns)))
      BY <1>2 DEF Checked, Before
    <2>3. Before(e, tool.ns) \/ NsOf[e] = Ns
      BY <1>0, <2>2, NotAhead DEF Ns
    <2> QED
      BY <2>1, <2>3 DEF RunSpeaks, Checked
  <1> QED
    BY <1>3, <1>4, ToolSafe, QuietVerifies DEF SafeInv

LEMMA EndPhase1Safe == ASSUME KekInv, SafeInv, end_phase_1 PROVE SafeInv'
  <1>0. ToolParts /\ UNCHANGED <<clock, kv, current, cache, req, proc, step, calm>>
        /\ tool.pc = "read" /\ tool.todo = {}
    BY ToolPartsHold DEF end_phase_1, operatorVars
  <1> USE DEF ToolParts
  <1>1. CASE ~ MayWrite
    BY <1>0, <1>1, NextNamespaceSafe DEF end_phase_1
  <1>2. CASE MayWrite
    <2>1. tool' = [tool EXCEPT !.pc = "write"] /\ tool.mode = "rotate"
      BY <1>2 DEF end_phase_1, MayWrite
    <2>2. tool'.pc = "write" /\ tool'.mode = tool.mode /\ tool'.staged = tool.staged
      BY <1>0, <2>1 DEF ToolType
    <2>3. RunKept' /\ proc[step] \notin Verifications
      BY <1>0, <2>1, <2>2 DEF SafeInv, RunKept, Verifications
    <2> QED
      BY <1>0, <2>3, ToolSafe, QuietVerifies
  <1> QED
    BY <1>1, <1>2

LEMMA WriteSafe == ASSUME KekInv, SafeInv, write_entry PROVE SafeInv'
  <1>0. ToolParts /\ UNCHANGED <<clock, current, cache, req, proc, step, calm>>
        /\ tool.pc = "write" /\ tool.todo = {}
    BY ToolPartsHold DEF write_entry, operatorVars, ToolParts, ToolInPlace
  <1> USE DEF ToolParts
  <1>1. CASE Aborts /\ UNCHANGED kv
    BY <1>0, <1>1, AbortSafe
  <1>2. CASE tool' = NextNamespace(tool) /\ UNCHANGED <<kv, touched>>
    BY <1>0, <1>2, NextNamespaceSafe
  <1>3. ASSUME NEW e \in Entries, put_kv_value_by_ns(e, tool.staged[e]),
               tool' = [tool EXCEPT !.staged[e] = NoRecord]
        PROVE  SafeInv'
    <2>1. tool'.pc = "write" /\ tool'.mode = tool.mode /\ tool'.staged = [tool.staged EXCEPT ![e] = NoRecord]
      BY <1>0, <1>3 DEF ToolType
    <2>2. proc[step] = "rotate" /\ ~ OldIn(e, tool.staged[e])
      BY <1>0 DEF SafeInv, RunKept
    <2>3. ~ Quiet
      BY <2>2, QuietVerifies DEF Verifications
    <2>4. \A x \in Entries : kv'[x] = kv[x] \/ ~ OldIn(x, kv'[x])
      BY <1>0, <1>3, <2>2 DEF put_kv_value_by_ns
    <2>5. RunKept'
      BY <1>0, <2>1, OldNotInNone DEF SafeInv, RunKept, ToolType
    <2> QED
      BY <1>0, <2>3, <2>4, <2>5, ToolSafe
  <1> QED
    BY <1>1, <1>2, <1>3 DEF write_entry

LEMMA StartSafe == ASSUME KekInv, SafeInv, NEW mode \in Modes, Start(mode) PROVE SafeInv'
  <1>1. First(Later(0)) \in 1..5
    BY SomePlace, FirstLater
  <1>2. tool' = [IdleTool EXCEPT !.pc = "list", !.mode = mode, !.ns = First(Later(0))]
        /\ UNCHANGED <<clock, kv, current, cache, req, proc, step>> /\ proc[step] = mode
        /\ calm' = IF mode # "rotate" /\ InFlight = {} THEN calm \cup {step} ELSE calm \ {step}
    BY DEF Start, At
  <1>3. tool'.pc = "list" /\ tool'.mode = mode /\ tool'.ns = First(Later(0))
        /\ tool'.staged = [e \in Entries |-> NoRecord]
    BY <1>1, <1>2, IdleToolFacts DEF ToolType
  <1>4. RunKept'
    BY <1>2, <1>3, OldNotInNone DEF RunKept
  <1>5. RunSpeaks'
    <2>1. ASSUME NEW e \in Entries, NsOf[e] \in Configured PROVE ~ Checked(e)'
      <3>1. ~ Before(e, 0)
        BY DEF Before
      <3>2. ~ Before(e, First(Later(0)))
        BY <2>1, <3>1, NotAhead
      <3> QED
        BY <1>3, <3>2 DEF Checked, Before
    <2> QED
      BY <1>2, <2>1 DEF RunSpeaks
  <1>6. (Forgotten => Forgotten') /\ (NewInHand => NewInHand') /\ (Clean => Clean')
    BY <1>2 DEF Forgotten, NewInHand, Clean
  <1>7. (step \in calm)' => NewInHand' /\ Agree'
    <2>1. step \in calm' => InFlight = {}
      BY <1>2
    <2> QED
      BY <1>2, <2>1 DEF InFlight, NewInHand, Agree, Holding
  <1>8. Verified(step)' => Verified(step)
    BY <1>2, StepNat DEF Verified
  <1>9. \A v \in calm' : v <= step /\ proc[v] \in Verifications
    <2>1. step <= step
      BY StepNat
    <2>2. \A v \in calm' : v \in calm \/ (v = step /\ mode # "rotate")
      BY <1>2
    <2> QED
      BY <1>2, <2>1, <2>2 DEF SafeInv, Verifications, Modes
  <1> QED
    BY <1>2, <1>4, <1>5, <1>6, <1>7, <1>8, <1>9 DEF SafeInv, Quiet

-----------------------------------------------------------------------------
(* The operator. *)

(* What a step of the procedure has to achieve for SafeInv to survive it. *)
LEMMA AdvanceSafe ==
    ASSUME KekInv, SafeInv, Advance, step <= Len(proc),
           UNCHANGED <<clock, kv, proc, calm>>,
           tool'.pc = "idle", \A e \in Entries : ~ OldIn(e, tool'.staged[e]),
           current' \in {current, NewKek}, proc[step] = "current" => current' = NewKek,
           Forgotten => Forgotten',
           proc[step] = "deploy" /\ current = NewKek => Forgotten',
           NewInHand => NewInHand', Clean => Clean',
           Quiet => Clean
    PROVE  SafeInv'
  <1>0. step \in Nat /\ Len(proc) \in Nat /\ step' = step + 1 /\ calm \subseteq Nat
    BY StepNat, StepFacts DEF Advance, KekInv, TypeOK
  <1>1. (\A n \in 1 .. step - 1 : proc[n] = "current" => current = NewKek)'
    BY <1>0 DEF SafeInv
  <1>2. (\A v \in calm : v <= step /\ proc[v] \in Verifications)' /\ ~ Quiet'
    <2>1. \A v \in calm : v <= step /\ proc[v] \in Verifications
      BY DEF SafeInv
    <2>2. \A v \in calm : v <= step' /\ v # step'
      BY <1>0, <2>1
    <2> QED
      BY <2>1, <2>2 DEF Quiet
  <1>3. RunKept'
    BY DEF RunKept
  <1>4. Settled(proc, step + 1) => Forgotten'
    <2>1. CASE Settled(proc, step)
      BY <2>1 DEF SafeInv
    <2>2. CASE proc[step] = "deploy" /\ \E c \in 1 .. step - 1 : proc[c] = "current"
      BY <2>2 DEF SafeInv
    <2> QED
      BY <1>0, <2>1, <2>2, NextPlace
  <1>5. Verified(step)' => NewInHand' /\ Clean'
    <2>1. ASSUME Verified(step)'
          PROVE  Quiet \/ Verified(step)
      <3>1. PICK v \in calm : v < step + 1 /\ Settled(proc, v)
        BY <1>0, <2>1 DEF Verified
      <3>2. v = step \/ v < step
        BY <1>0, <3>1
      <3> QED
        BY <3>1, <3>2 DEF Quiet, Verified
    <2> QED
      BY <2>1 DEF SafeInv
  <1> QED
    BY <1>0, <1>1, <1>2, <1>3, <1>4, <1>5 DEF SafeInv

LEMMA ToolEndedSafe == ASSUME KekInv, SafeInv, tool_ended PROVE SafeInv'
  <1>0. Parts /\ step <= Len(proc)
    BY PartsHold DEF KekInv, ToolInPlace, tool_ended
  <1>1. UNCHANGED <<clock, kv, current, cache, req, proc, calm>> /\ tool' = IdleTool
    BY DEF tool_ended
  <1>2. tool'.pc = "idle" /\ \A e \in Entries : ~ OldIn(e, tool'.staged[e])
    BY <1>1, IdleToolFacts, OldNotInNone
  <1>3. RunKept' /\ RunSpeaks'
    BY <1>2 DEF RunKept, RunSpeaks, Checked
  <1>4. CASE UNCHANGED step
    BY <1>1, <1>3, <1>4, ToolSafe
  <1>5. CASE tool.pc = "complete" /\ Advance
    <2>1. (Forgotten => Forgotten') /\ (NewInHand => NewInHand') /\ (Clean => Clean')
      BY <1>1 DEF Forgotten, NewInHand, Clean
    <2>2. proc[step] \in Modes
      BY <1>5 DEF KekInv, ToolInPlace
    <2>3. ASSUME Quiet
          PROVE  Clean
      <3>1. RunSpeaks /\ Agree /\ tool.bad = {}
        BY <1>5, <2>3 DEF SafeInv, RunKept
      <3>2. \A e \in Entries : NsOf[e] \in Configured => ~ OldIn(e, kv[e])
        BY <1>5, <3>1 DEF RunSpeaks, Checked
      <3>3. \A q \in Requests : Holding(req[q]) => req[q].entry \in Entries
        BY <1>0 DEF Parts, GoodReq, Holding
      <3> QED
        BY <3>1, <3>2, <3>3 DEF Agree, Clean
    <2>4. proc[step] \notin {"current", "deploy"}
      BY <2>2 DEF Modes
    <2> QED
      BY <1>0, <1>1, <1>2, <1>5, <2>1, <2>3, <2>4, AdvanceSafe
  <1> QED
    BY <1>4, <1>5 DEF tool_ended

LEMMA SetSecretSafe == ASSUME KekInv, SafeInv, set_secret PROVE SafeInv'
  <1>1. Advance /\ UNCHANGED <<clock, kv, cache, req, tool, proc, calm>>
    BY DEF set_secret, toolVars
  <1>2. PICK s \in {"current", "previous", "remove"} :
          /\ At(s)
          /\ \/ s = "current" /\ current' = NewKek
             \/ s # "current" /\ current' = current
    BY DEF set_secret
  <1>3. step <= Len(proc) /\ proc[step] = s /\ s \notin Modes
    BY <1>2 DEF At, Modes
  <1>4. tool.pc = "idle"
    BY <1>3 DEF KekInv, ToolInPlace
  <1>5. \A e \in Entries : ~ OldIn(e, tool.staged[e])
    BY DEF SafeInv, RunKept
  <1>6. current' \in {current, NewKek} /\ (proc[step] = "current" => current' = NewKek)
    BY <1>2, <1>3
  <1>7. (Forgotten => Forgotten') /\ (NewInHand => NewInHand') /\ (Clean => Clean')
    BY <1>1, <1>6 DEF Forgotten, NewInHand, Clean
  <1>8. ~ Quiet /\ proc[step] # "deploy"
    BY <1>3, QuietVerifies, <1>2 DEF Verifications, Modes
  <1> QED
    BY <1>1, <1>3, <1>4, <1>5, <1>6, <1>7, <1>8, AdvanceSafe

LEMMA DeploySafe == ASSUME KekInv, SafeInv, deploy PROVE SafeInv'
  <1>0. Parts
    BY PartsHold
  <1> USE DEF Parts
  <1>1. /\ Advance /\ UNCHANGED <<clock, kv, current, tool, proc, calm>>
        /\ cache' = [i \in Isolates |-> NotCached]
        /\ req' = [q \in Requests |-> [req[q] EXCEPT !.home = Retired]]
        /\ step <= Len(proc) /\ proc[step] = "deploy"
    BY DEF deploy, At, toolVars
  <1>2. tool.pc = "idle" /\ \A e \in Entries : ~ OldIn(e, tool.staged[e])
    BY <1>1 DEF KekInv, ToolInPlace, SafeInv, RunKept, Modes
  <1>3. \A q \in Requests :
          /\ req'[q].pc = req[q].pc /\ req'[q].kek = req[q].kek /\ req'[q].home = Retired
          /\ req'[q].entry = req[q].entry /\ req'[q].seen = req[q].seen
    BY <1>0, <1>1 DEF ReqType
  <1>4. \A i \in Isolates : cache'[i].at + CacheTtl <= clock
    <2>1. NotCached.at = - CacheTtl
      BY DEF NotCached
    <2> QED
      BY <1>0, <1>1, <2>1, KekRotationAssumption
  <1>5. current = NewKek => Forgotten'
    BY <1>1, <1>3, <1>4 DEF Forgotten
  <1>6. (NewInHand => NewInHand') /\ (Clean => Clean')
    BY <1>1, <1>3 DEF NewInHand, Clean, Holding
  <1>7. Forgotten => Forgotten'
    BY <1>5 DEF Forgotten
  <1>8. ~ Quiet
    BY <1>1, QuietVerifies DEF Verifications
  <1> QED
    BY <1>0, <1>1, <1>2, <1>5, <1>6, <1>7, <1>8, AdvanceSafe

-----------------------------------------------------------------------------

LEMMA SafeInitially == Init => SafeInv
  <1> SUFFICES ASSUME Init PROVE SafeInv
    OBVIOUS
  <1> USE DEF Init
  <1>1. RunKept
    BY IdleToolFacts, OldNotInNone DEF RunKept
  <1>2. ~ Settled(proc, step) /\ ~ Quiet /\ ~ Verified(step)
    BY DEF Settled, Quiet, Verified
  <1> QED
    BY <1>1, <1>2 DEF SafeInv

LEMMA SafeInductive == KekInv /\ SafeInv /\ [Next]_vars => SafeInv'
  <1> SUFFICES ASSUME KekInv, SafeInv, [Next]_vars PROVE SafeInv'
    OBVIOUS
  <1>1. CASE Tick \/ \E e \in Entries : expire(e)
    BY <1>1, TickSafe, ExpireSafe
  <1>2. CASE \E q \in Requests : Works(q)
    BY <1>2, WorkerSafe
  <1>3. CASE list_kv_keys \/ read_entry \/ end_phase_1 \/ write_entry
    BY <1>3, ListSafe, ReadSafe, EndPhase1Safe, WriteSafe
  <1>4. CASE rotate_kek \/ verify_rotation
    BY <1>4, StartSafe DEF rotate_kek, verify_rotation, Modes
  <1>5. CASE tool_ended \/ set_secret \/ deploy
    BY <1>5, ToolEndedSafe, SetSecretSafe, DeploySafe
  <1>6. CASE UNCHANGED vars
    <2>1. UNCHANGED <<clock, kv, current, cache, req, tool, proc, step, calm>>
      BY <1>6 DEF vars, toolVars, operatorVars
    <2>2. RunKept' /\ (RunSpeaks => RunSpeaks')
      BY <2>1 DEF SafeInv, RunKept, RunSpeaks, Checked, Before, Ns
    <2> QED
      BY <2>1, <2>2, ToolSafe DEF SafeInv
  <1> QED
    BY <1>1, <1>2, <1>3, <1>4, <1>5, <1>6 DEF Next, Works

(* "Safe to remove", of any procedure: although requests read, rewrite and create
   records throughout, no scanned record needs the old KEK once
   ISSUER_KEK_PREVIOUS has been removed after a verification that began after the
   deployment and without a request under way. *)
THEOREM SafeToRemoveHolds == Spec => []SafeToRemove
  <1>1. KekInv /\ SafeInv => SafeToRemove
    <2> SUFFICES ASSUME KekInv, SafeInv, NEW n \in 1 .. step - 1, Verified(n)
                 PROVE  \A e \in Entries : NsOf[e] \in Configured => ~ OldIn(e, kv[e])
      BY DEF SafeToRemove, OldKekUnused, OldIn
    <2>1. step \in Nat /\ n \in Nat /\ calm \subseteq Nat
      BY StepFacts DEF KekInv, TypeOK
    <2>2. PICK v \in calm : v < n /\ Settled(proc, v)
      BY DEF Verified
    <2>3. v < step
      BY <2>1, <2>2
    <2>4. Verified(step)
      BY <2>2, <2>3 DEF Verified
    <2> QED
      BY <2>4 DEF SafeInv, Clean
  <1> QED
    BY <1>1, KekInitially, KekInductive, SafeInitially, SafeInductive, PTL DEF Spec
-----------------------------------------------------------------------------
(* The open window. *)

(* Entries whose records, if any, were decryptable from the start. *)
Sane(rec) == rec = NoRecord \/ Legible(rec)
Good == {e \in Entries : \A k \in InitialKvs : Sane(k[e])}

(* Since the last deployment, with no secret changed after it, the isolates have
   cached, and their requests have in hand, what the secrets are. *)
WindowInv ==
    /\ SinceDeploy => \A i \in Isolates : cache[i].pair.sound =>
         cache[i].pair.current = current /\ cache[i].pair.previous = previous
    /\ SinceDeploy => \A q \in Requests :
         req[q].pc = "fetch_previous" /\ req[q].home # Retired => req[q].kek = current
    /\ \A e \in Good : Sane(kv[e]) /\ Sane(tool.staged[e])
    /\ \A q \in Requests : req[q].entry \in Good => Sane(req[q].seen)
    /\ outage \cap Good = {}

LEMMA SaneNew ==
    ASSUME NEW e, NEW p, p.current \in Keks
    PROVE  Sane(NewRecord(e, p))
  <1>1. NewRecord(e, p).fields["secret"] = p.current /\ NewRecord(e, p).fields["previous"] = Absent
    BY DEF NewRecord, FieldNames
  <1> QED
    BY <1>1 DEF Sane, Legible

LEMMA SaneReEncrypted ==
    ASSUME NEW e \in Entries, NEW rec \in Record, Legible(rec)
    PROVE  Sane(ReEncrypted(rec, NsOf[e]))
  <1>1. ReEncrypted(rec, NsOf[e]) =
          [rec EXCEPT !.fields = [f \in FieldNames |->
             IF f \in fields(NsOf[e]) /\ rec.fields[f] # Absent THEN NewKek ELSE rec.fields[f]]]
    BY DEF ReEncrypted
  <1>2. ReEncrypted(rec, NsOf[e]).fields = [f \in FieldNames |->
             IF f \in fields(NsOf[e]) /\ rec.fields[f] # Absent THEN NewKek ELSE rec.fields[f]]
    BY <1>1 DEF Record
  <1>3. \A f \in {"secret", "previous"} :
          ReEncrypted(rec, NsOf[e]).fields[f] \in {NewKek, rec.fields[f]}
    BY <1>2 DEF FieldNames
  <1> QED
    BY <1>3, KekFacts DEF Sane, Legible

(* A pair with both KEKs decrypts whatever is decryptable. *)
LEMMA BothDecrypt ==
    ASSUME NEW rec, Legible(rec), NEW p, p.current = NewKek, p.previous = OldKek
    PROVE  Decrypts(rec, p)
  BY KekFacts DEF Legible, Decrypts, decrypt_with_kek_fallback, decrypt_with_kek, Keks

(* What a request is after its step. *)
WindowMove(q, x) ==
    /\ req' = [req EXCEPT ![q] = x]
    /\ x.entry \in Good => Sane(x.seen)
    /\ x.pc = "fetch_previous" => x.kek = current
    /\ outage' \cap Good = {}

LEMMA EndsWindow ==
    ASSUME WindowInv, NEW q \in Requests, Ends(q), outage' = outage
    PROVE  \E x : WindowMove(q, x)
  <1>1. EndedRequest.pc = "ended" /\ EndedRequest.seen = NoRecord
    BY DEF EndedRequest, IdleRequest
  <1> QED
    BY <1>1 DEF Ends, Becomes, WindowMove, Sane, WindowInv

LEMMA UsePairWindow ==
    ASSUME WindowInv, NEW q \in Requests, NEW r \in ReqType, NEW p \in Pair,
           p.current \in Keks, r.entry \in Good => Sane(r.seen),
           p.sound /\ WindowOpen /\ r.home # Retired => p.current = NewKek /\ p.previous = OldKek,
           UsePair(q, r, p)
    PROVE  \E x : WindowMove(q, x)
  <1>1. CASE r.seen = NoRecord
    <2> DEFINE x == [r EXCEPT !.pc = "put", !.kek = NoKek, !.seen = NewRecord(r.entry, p)]
    <2>1. req' = [req EXCEPT ![q] = x] /\ outage' = outage
      BY <1>1 DEF UsePair, Becomes
    <2>2. x.pc = "put" /\ x.seen = NewRecord(r.entry, p)
      BY DEF ReqType
    <2> HIDE DEF x
    <2> QED
      BY <2>1, <2>2, SaneNew DEF WindowMove, WindowInv
  <1>2. CASE r.seen # NoRecord /\ Decrypts(r.seen, p) /\ ~ Ends(q)
    <2> DEFINE x == [r EXCEPT !.pc = "touch", !.kek = NoKek, !.seen = NoRecord]
    <2>1. req' = [req EXCEPT ![q] = x] /\ outage' = outage
      BY <1>2 DEF UsePair, Becomes
    <2>2. x.pc = "touch" /\ x.seen = NoRecord
      BY DEF ReqType
    <2> HIDE DEF x
    <2> QED
      BY <2>1, <2>2 DEF WindowMove, WindowInv, Sane
  <1>3. CASE r.seen # NoRecord /\ Decrypts(r.seen, p) /\ Ends(q) /\ outage' = outage
    BY <1>3, EndsWindow
  <1>4. CASE r.seen # NoRecord /\ ~ Decrypts(r.seen, p)
    <2>1. req' = [req EXCEPT ![q] = EndedRequest]
          /\ outage' = IF p.sound /\ WindowOpen /\ r.home # Retired
                         THEN outage \cup {r.entry} ELSE outage
      BY <1>4 DEF UsePair, Ends, Becomes
    <2>2. EndedRequest.pc = "ended" /\ EndedRequest.seen = NoRecord
      BY DEF EndedRequest, IdleRequest
    <2>3. p.sound /\ WindowOpen /\ r.home # Retired => r.entry \notin Good
      BY <1>4, BothDecrypt DEF Sane
    <2>4. outage' \cap Good = {}
      BY <2>1, <2>3 DEF WindowInv
    <2> QED
      BY <2>1, <2>2, <2>4 DEF WindowMove, Sane
  <1> QED
    BY <1>1, <1>2, <1>3, <1>4 DEF UsePair

LEMMA GetPairWindow ==
    ASSUME KekInv, WindowInv, NEW q \in Requests, NEW e \in Entries, get_kek_pair(q, e)
    PROVE  \E x : WindowMove(q, x)
  <1>0. Parts
    BY PartsHold
  <1> USE DEF Parts
  <1>1. PICK i \in Isolates :
          LET r == [IdleRequest EXCEPT !.entry = e, !.home = i, !.now = clock, !.seen = kv[e]]
          IN  \/ Fresh(i) /\ UsePair(q, r, cache[i].pair)
              \/ Becomes(q, [r EXCEPT !.pc = "fetch_current"]) /\ UNCHANGED outage
    BY DEF get_kek_pair
  <1> DEFINE r == [IdleRequest EXCEPT !.entry = e, !.home = i, !.now = clock, !.seen = kv[e]]
             x == [r EXCEPT !.pc = "fetch_current"]
  <1>2. r \in ReqType /\ r.entry = e /\ r.seen = kv[e]
    BY <1>0, IdleGood DEF ReqType
  <1>3. r.entry \in Good => Sane(r.seen)
    BY <1>2 DEF WindowInv
  <1> HIDE DEF r
  <1>4. CASE Fresh(i) /\ UsePair(q, r, cache[i].pair)
    <2>1. cache[i].pair \in Pair /\ cache[i].pair.current \in Keks
      BY <1>4, FreshPair
    <2>2. cache[i].pair.sound /\ WindowOpen =>
            cache[i].pair.current = NewKek /\ cache[i].pair.previous = OldKek
      BY DEF WindowInv, WindowOpen
    <2> QED
      BY <1>2, <1>3, <1>4, <2>1, <2>2, UsePairWindow
  <1>5. CASE Becomes(q, x) /\ UNCHANGED outage
    <2>1. x.pc = "fetch_current" /\ x.entry = r.entry /\ x.seen = r.seen
      BY <1>2 DEF ReqType
    <2> HIDE DEF x
    <2> QED
      BY <1>3, <1>5, <2>1 DEF WindowMove, Becomes, WindowInv
  <1> QED
    BY <1>1, <1>4, <1>5 DEF r

(* What a step of request q has to be for WindowInv to survive it. *)
LEMMA WorkerWindow ==
    ASSUME KekInv, WindowInv, NEW q \in Requests, NEW x, WindowMove(q, x),
           \A e \in Good : Sane(kv'[e]),
           SinceDeploy => \A i \in Isolates : cache'[i].pair.sound =>
             cache'[i].pair.current = current /\ cache'[i].pair.previous = previous,
           UNCHANGED <<current, previous, toolVars, operatorVars>>
    PROVE  WindowInv'
  <1>1. \A r \in Requests : req'[r] = IF r = q THEN x ELSE req[r]
    BY PartsHold DEF WindowMove, Parts
  <1>2. SinceDeploy' <=> SinceDeploy
    BY DEF SinceDeploy, operatorVars
  <1>3. (SinceDeploy => \A r \in Requests :
           req[r].pc = "fetch_previous" /\ req[r].home # Retired => req[r].kek = current)'
    BY <1>1, <1>2 DEF WindowInv, WindowMove
  <1>4. (\A r \in Requests : req[r].entry \in Good => Sane(req[r].seen))'
    BY <1>1 DEF WindowInv, WindowMove
  <1>5. (\A e \in Good : Sane(kv[e]) /\ Sane(tool.staged[e]))'
    BY DEF WindowInv, toolVars
  <1> QED
    BY <1>2, <1>3, <1>4, <1>5 DEF WindowInv, WindowMove

LEMMA WorksWindow ==
    ASSUME KekInv, WindowInv, NEW q \in Requests, Works(q)
    PROVE  WindowInv'
  <1>0. Parts
    BY PartsHold
  <1> USE DEF Parts
  <1>1. ASSUME NEW e \in Entries, Lookup(q, e) \/ Creation(q, e)
        PROVE  WindowInv'
    <2>1. UNCHANGED <<kv, current, previous, cache, toolVars, operatorVars>>
      BY <1>1 DEF Lookup, Creation
    <2>2. \E x : WindowMove(q, x)
      BY <1>1, GetPairWindow, EndsWindow DEF Lookup, Creation
    <2> QED
      BY <2>1, <2>2, WorkerWindow DEF WindowInv
  <1>2. CASE fetch_current(q)
    <2>1. UNCHANGED <<kv, current, previous, cache, toolVars, operatorVars, outage>>
      BY <1>2 DEF fetch_current
    <2>2. \E x : WindowMove(q, x)
      <3> DEFINE x == [req[q] EXCEPT !.kek = current, !.pc = "fetch_previous"]
      <3>1. CASE req' = [req EXCEPT ![q] = x]
        <4>1. x.kek = current /\ x.entry = req[q].entry /\ x.seen = req[q].seen
          BY <1>0 DEF ReqType
        <4> HIDE DEF x
        <4> QED
          BY <2>1, <3>1, <4>1 DEF WindowMove, WindowInv
      <3> QED
        BY <1>2, <2>1, <3>1, EndsWindow DEF fetch_current, Becomes
    <2> QED
      BY <2>1, <2>2, WorkerWindow DEF WindowInv
  <1>3. CASE fetch_previous(q)
    <2>1. UNCHANGED <<kv, current, previous, toolVars, operatorVars>>
      BY <1>3 DEF fetch_previous
    <2>2. PICK sound \in BOOLEAN :
            LET p == [current |-> req[q].kek, previous |-> IF sound THEN previous ELSE NoKek,
                      sound |-> sound]
            IN  /\ cache' = IF req[q].home = Retired THEN cache
                              ELSE [cache EXCEPT ![req[q].home] = [pair |-> p, at |-> req[q].now]]
                /\ UsePair(q, req[q], p)
      BY <1>3, KekRotationAssumption DEF fetch_previous, FetchedAt
    <2> DEFINE p == [current |-> req[q].kek, previous |-> IF sound THEN previous ELSE NoKek,
                     sound |-> sound]
               c == [pair |-> p, at |-> req[q].now]
    <2>3. req[q] \in ReqType /\ GoodReq(req[q]) /\ req[q].pc = "fetch_previous"
      BY <1>0, <1>3 DEF fetch_previous
    <2>4. p \in Pair /\ p.current = req[q].kek /\ p.current \in Keks
          /\ p.previous = (IF sound THEN previous ELSE NoKek) /\ p.sound = sound
      BY <1>0, <2>3 DEF Pair, GoodReq
    <2>5. SinceDeploy /\ req[q].home # Retired => req[q].kek = current
      BY <2>3 DEF WindowInv
    <2>6. p.sound /\ WindowOpen /\ req[q].home # Retired => p.current = NewKek /\ p.previous = OldKek
      BY <2>4, <2>5 DEF WindowOpen
    <2>7. \E x : WindowMove(q, x)
      <3> HIDE DEF p
      <3> QED
        BY <2>2, <2>3, <2>4, <2>6, UsePairWindow DEF p, WindowInv
    <2>8. SinceDeploy => \A i \in Isolates : cache'[i].pair.sound =>
            cache'[i].pair.current = current /\ cache'[i].pair.previous = previous
      <3> SUFFICES ASSUME SinceDeploy, NEW i \in Isolates, cache'[i].pair.sound
                   PROVE  cache'[i].pair.current = current /\ cache'[i].pair.previous = previous
        OBVIOUS
      <3>1. c.pair = p
        OBVIOUS
      <3> HIDE DEF c, p
      <3>2. cache' = IF req[q].home = Retired THEN cache ELSE [cache EXCEPT ![req[q].home] = c]
        BY <2>2 DEF c, p
      <3>3. CASE cache'[i] = cache[i]
        BY <3>3 DEF WindowInv
      <3>4. CASE cache'[i] = c /\ req[q].home # Retired
        BY <2>4, <2>5, <3>1, <3>4
      <3> QED
        BY <1>0, <3>2, <3>3, <3>4
    <2> QED
      BY <2>1, <2>7, <2>8, WorkerWindow DEF WindowInv
  <1>4. CASE UpdateLastUsed(q)
    <2>1. UNCHANGED <<kv, current, previous, cache, toolVars, operatorVars, outage>>
      BY <1>4 DEF UpdateLastUsed
    <2>2. \E x : WindowMove(q, x)
      <3> DEFINE x == [req[q] EXCEPT !.pc = "put", !.seen = kv[req[q].entry]]
      <3>1. CASE req' = [req EXCEPT ![q] = x]
        <4>1. x.pc = "put" /\ x.entry = req[q].entry /\ x.seen = kv[req[q].entry]
          BY <1>0 DEF ReqType
        <4> HIDE DEF x
        <4> QED
          BY <2>1, <3>1, <4>1 DEF WindowMove, WindowInv
      <3> QED
        BY <1>4, <2>1, <3>1, EndsWindow DEF UpdateLastUsed, Becomes
    <2> QED
      BY <2>1, <2>2, WorkerWindow DEF WindowInv
  <1>5. CASE put(q)
    <2>1. UNCHANGED <<current, previous, cache, toolVars, operatorVars, outage>>
      BY <1>5 DEF put
    <2>2. \E x : WindowMove(q, x)
      BY <1>5, <2>1, EndsWindow DEF put
    <2>3. \A e \in Good : Sane(kv'[e])
      BY <1>0, <1>5 DEF put, WindowInv, Good
    <2> QED
      BY <2>1, <2>2, <2>3, WorkerWindow DEF WindowInv
  <1> QED
    BY <1>1, <1>2, <1>3, <1>4, <1>5
    DEF Works, get_signing_keypair, get_officer_by_id, get_client_by_id, register_test_issuer,
        store_encrypted_key, update_officer_last_used_by_id, update_client_last_used

(* The steps of the tool leave records decryptable. *)
LEMMA ToolWindow ==
    ASSUME WindowInv, UNCHANGED <<current, previous, cache, req, outage>>,
           SinceDeploy' => SinceDeploy, \A e \in Good : Sane(kv'[e]) /\ Sane(tool'.staged[e])
    PROVE  WindowInv'
  BY DEF WindowInv

LEMMA StagedNone ==
    ASSUME WindowInv, tool'.staged = [e \in Entries |-> NoRecord]
    PROVE  \A e \in Good : Sane(tool'.staged[e])
  BY DEF Good, Sane

LEMMA ToolsWindow ==
    ASSUME KekInv, WindowInv,
           list_kv_keys \/ read_entry \/ end_phase_1 \/ write_entry \/ \E mode \in Modes : Start(mode)
    PROVE  WindowInv'
  <1>0. ToolParts
    BY ToolPartsHold
  <1> USE DEF ToolParts
  <1>1. UNCHANGED <<current, previous, cache, req, outage, proc, step>>
    BY DEF list_kv_keys, read_entry, end_phase_1, write_entry, Start, operatorVars
  <1>2. SinceDeploy' <=> SinceDeploy
    BY <1>1 DEF SinceDeploy
  <1>3. CASE Aborts /\ UNCHANGED kv
    <2>1. tool'.staged = [e \in Entries |-> NoRecord]
      BY <1>3, AbortedFacts DEF Aborts
    <2> QED
      BY <1>1, <1>2, <1>3, <2>1, StagedNone, ToolWindow DEF WindowInv
  <1>4. CASE tool' = NextNamespace(tool) /\ UNCHANGED kv
    <2>1. tool'.staged = [e \in Entries |-> NoRecord]
      BY <1>0, <1>4, IdleToolFacts DEF NextNamespace, ToolType
    <2> QED
      BY <1>1, <1>2, <1>4, <2>1, StagedNone, ToolWindow DEF WindowInv
  <1>5. CASE \E mode \in Modes : Start(mode)
    <2>1. PICK mode \in Modes :
            tool' = [IdleTool EXCEPT !.pc = "list", !.mode = mode, !.ns = First(Later(0))] /\ kv' = kv
      BY <1>5 DEF Start
    <2>2. First(Later(0)) \in 1..5
      BY SomePlace, FirstLater
    <2>3. tool'.staged = [e \in Entries |-> NoRecord]
      BY <2>1, <2>2, StartedFacts
    <2> QED
      BY <1>1, <1>2, <2>1, <2>3, StagedNone, ToolWindow DEF WindowInv
  <1>6. CASE kv' = kv /\ tool'.staged = tool.staged
    BY <1>1, <1>2, <1>6, ToolWindow DEF WindowInv
  <1>7. CASE list_kv_keys /\ ~ Aborts
    <2>1. kv' = kv /\ tool'.staged = tool.staged
      BY <1>0, <1>7 DEF list_kv_keys, ToolType
    <2> QED
      BY <1>6, <2>1
  <1>8. CASE read_entry /\ ~ Aborts
    <2>0. kv' = kv
      BY <1>8 DEF read_entry
    <2> DEFINE rest(e) == [tool EXCEPT !.todo = tool.todo \ {e}]
    <2>1. PICK e \in tool.todo :
            tool' = CASE Skipped(kv[e]) -> rest(e)
                      [] ~ Skipped(kv[e]) /\ ~ Passes(kv[e], Ns, tool.mode) ->
                           [rest(e) EXCEPT !.bad = rest(e).bad \cup {Ns}]
                      [] OTHER ->
                           [rest(e) EXCEPT !.staged[e] = IF tool.mode = "rotate"
                               THEN ReEncrypted(kv[e], Ns) ELSE rest(e).staged[e]]
      BY <1>8 DEF read_entry
    <2>2. e \in Entries /\ NsOf[e] = Ns /\ kv[e] \in Record
      BY <1>0, <1>8 DEF ToolType, ToolInPlace, read_entry
    <2>3. rest(e) \in ToolType /\ rest(e).staged = tool.staged
      BY <1>0 DEF ToolType
    <2> DEFINE R == rest(e)
    <2> HIDE DEF rest, R
    <2>4. CASE tool' = R \/ tool' = [R EXCEPT !.bad = R.bad \cup {Ns}]
      BY <1>6, <2>0, <2>3, <2>4 DEF ToolType, R
    <2>5. CASE tool' = [R EXCEPT !.staged[e] = R.staged[e]]
      BY <1>6, <2>0, <2>2, <2>3, <2>5 DEF ToolType, R
    <2>6. CASE tool' = [R EXCEPT !.staged[e] = ReEncrypted(kv[e], Ns)] /\ ~ Skipped(kv[e])
      <3>1. tool'.staged = [tool.staged EXCEPT ![e] = ReEncrypted(kv[e], Ns)]
        BY <2>2, <2>3, <2>6 DEF ToolType, R
      <3>2. e \in Good => Sane(ReEncrypted(kv[e], Ns))
        BY <2>2, <2>6, SaneReEncrypted DEF WindowInv, Sane, Skipped
      <3>3. \A x \in Good : Sane(tool'.staged[x])
        BY <1>0, <3>1, <3>2 DEF WindowInv, ToolType, Good
      <3> QED
        BY <1>1, <1>2, <2>0, <3>3, ToolWindow DEF WindowInv
    <2> QED
      BY <2>1, <2>4, <2>5, <2>6 DEF R
  <1>9. CASE end_phase_1
    <2>1. tool' = [tool EXCEPT !.pc = "write"] => tool'.staged = tool.staged
      BY <1>0 DEF ToolType
    <2> QED
      BY <1>4, <1>6, <1>9, <2>1 DEF end_phase_1
  <1>10. CASE \E e \in Entries : put_kv_value_by_ns(e, tool.staged[e])
                                /\ tool' = [tool EXCEPT !.staged[e] = NoRecord]
    <2>1. PICK e \in Entries : put_kv_value_by_ns(e, tool.staged[e])
                               /\ tool' = [tool EXCEPT !.staged[e] = NoRecord]
      BY <1>10
    <2>2. tool'.staged = [tool.staged EXCEPT ![e] = NoRecord]
      BY <1>0, <2>1 DEF ToolType
    <2>3. \A x \in Good : Sane(kv'[x]) /\ Sane(tool'.staged[x])
      BY <1>0, <2>1, <2>2 DEF WindowInv, ToolType, Good, put_kv_value_by_ns, Sane
    <2> QED
      BY <1>1, <1>2, <2>3, ToolWindow
  <1> QED
    BY <1>3, <1>4, <1>5, <1>7, <1>8, <1>9, <1>10 DEF write_entry, list_kv_keys, read_entry

(* The operator: the end of a run goes back to no deployment, a change of a secret
   ends what the last one brought about, and a deployment empties the caches. *)
LEMMA OperatorWindow ==
    ASSUME KekInv, WindowInv, tool_ended \/ set_secret \/ deploy
    PROVE  WindowInv'
  <1>0. step \in Nat /\ proc \in Seq(Steps) /\ Len(proc) \in Nat
    BY StepNat
  <1>1. CASE tool_ended
    <2>1. UNCHANGED <<kv, current, previous, cache, req, outage, proc>> /\ tool' = IdleTool
      BY <1>1 DEF tool_ended
    <2>2. proc[step] \in Modes
      BY <1>1 DEF tool_ended, KekInv, ToolInPlace
    <2>3. SinceDeploy' => SinceDeploy
      <3>1. CASE step' = step
        BY <2>1, <3>1 DEF SinceDeploy
      <3>2. CASE step' = step + 1
        <4> SUFFICES ASSUME SinceDeploy' PROVE SinceDeploy
          OBVIOUS
        <4>1. PICK d \in 1 .. step : proc[d] = "deploy" /\ \A m \in d + 1 .. step : proc[m] \notin Changes
          BY <1>0, <2>1, <3>2 DEF SinceDeploy
        <4>2. d \in 1 .. step - 1
          BY <1>0, <2>2, <4>1 DEF Modes
        <4> QED
          BY <1>0, <4>1, <4>2 DEF SinceDeploy
      <3> QED
        BY <1>1, <3>1, <3>2 DEF tool_ended, Advance
    <2>4. tool'.staged = [e \in Entries |-> NoRecord]
      BY <2>1, IdleToolFacts
    <2> QED
      BY <2>1, <2>3, <2>4, StagedNone, ToolWindow DEF WindowInv
  <1>2. CASE set_secret
    <2>1. UNCHANGED <<kv, cache, req, tool, outage, proc>> /\ step' = step + 1
          /\ proc[step] \in Changes
      BY <1>2 DEF set_secret, toolVars, Advance, At, Changes
    <2>2. ~ SinceDeploy'
      <3> SUFFICES ASSUME NEW d \in 1 .. step, proc[d] = "deploy",
                          \A m \in d + 1 .. step : proc[m] \notin Changes
                   PROVE  FALSE
        BY <1>0, <2>1 DEF SinceDeploy
      <3>1. d # step
        BY <2>1 DEF Changes
      <3> QED
        BY <1>0, <2>1, <3>1
    <2> QED
      BY <2>1, <2>2 DEF WindowInv
  <1>3. CASE deploy
    <2>1. UNCHANGED <<kv, current, previous, tool, outage>>
          /\ cache' = [i \in Isolates |-> NotCached]
          /\ req' = [q \in Requests |-> [req[q] EXCEPT !.home = Retired]]
      BY <1>3 DEF deploy, toolVars
    <2>2. NotCached.pair.sound = FALSE
      BY DEF NotCached, NoPair
    <2>3. \A q \in Requests :
            req'[q].home = Retired /\ req'[q].entry = req[q].entry /\ req'[q].seen = req[q].seen
      BY <2>1, PartsHold DEF Parts, ReqType
    <2> QED
      BY <2>1, <2>2, <2>3 DEF WindowInv
  <1> QED
    BY <1>1, <1>2, <1>3

LEMMA WindowInitially == Init => WindowInv
  <1> SUFFICES ASSUME Init PROVE WindowInv
    OBVIOUS
  <1>1. ~ SinceDeploy
    BY DEF Init, SinceDeploy
  <1>2. IdleRequest.seen = NoRecord
    BY DEF IdleRequest
  <1> QED
    BY <1>1, <1>2, IdleToolFacts DEF Init, WindowInv, Good, Sane

LEMMA WindowInductive == KekInv /\ WindowInv /\ [Next]_vars => WindowInv'
  <1> SUFFICES ASSUME KekInv, WindowInv, [Next]_vars PROVE WindowInv'
    OBVIOUS
  <1>1. CASE \E q \in Requests : Works(q)
    BY <1>1, WorksWindow
  <1>2. CASE list_kv_keys \/ read_entry \/ end_phase_1 \/ write_entry \/ rotate_kek \/ verify_rotation
    BY <1>2, ToolsWindow DEF rotate_kek, verify_rotation, Modes
  <1>3. CASE tool_ended \/ set_secret \/ deploy
    BY <1>3, OperatorWindow
  <1>4. CASE Tick \/ (\E e \in Entries : expire(e)) \/ UNCHANGED vars
    <2>1. UNCHANGED <<current, previous, cache, req, tool, outage, proc, step>>
      BY <1>4 DEF Tick, expire, vars, toolVars, operatorVars
    <2>2. SinceDeploy' <=> SinceDeploy
      BY <2>1 DEF SinceDeploy
    <2>3. \A e \in Entries : kv'[e] \in {kv[e], NoRecord}
      BY <1>4, PartsHold DEF Tick, expire, vars, Parts
    <2>4. \A e \in Good : Sane(kv'[e]) /\ Sane(tool'.staged[e])
      BY <2>1, <2>3 DEF WindowInv, Good, Sane
    <2> QED
      BY <2>1, <2>2, <2>4, ToolWindow
  <1> QED
    BY <1>1, <1>2, <1>3, <1>4 DEF Next, Works

(* "Zero-downtime": while the rotation window is open, in any procedure, a request
   of the deployed worker decrypts every record that was decryptable from the
   start, whatever the tool, other requests and failures did to it. *)
THEOREM WindowReadableHolds == Spec => []WindowReadable
  <1>1. KekInv /\ WindowInv => WindowReadable
    BY DEF KekInv, TypeOK, WindowInv, WindowReadable, Good, Sane
  <1> QED
    BY <1>1, KekInitially, KekInductive, WindowInitially, WindowInductive, PTL DEF Spec
=============================================================================
