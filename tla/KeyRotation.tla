----------------------------- MODULE KeyRotation -----------------------------
(***************************************************************************)
(* Rotation of the RedJubjub signing key next to blind issuance, which     *)
(* selects and loads the active key.  Keys are KV records, one per         *)
(* version; requests await between KV operations, and KV is eventually     *)
(* consistent: until a write has propagated, listings and reads may show   *)
(* what it replaced, whoever holds a lease.  Rotation holds two leases of  *)
(* ResourceLockDO; here a lease is its holder, and it may run out while    *)
(* the holder is still at work.                                            *)
(***************************************************************************)
EXTENDS Integers, FiniteSets

CONSTANTS
    Rotators,    \* admin rotation requests
    Signers,     \* blind issuance requests
    MaxVersion,  \* bound: highest key version
    InitialKvs,  \* key records found at the start
    Faults,      \* whether writes and listings fail and requests are cut off
    LostReads    \* requests for which reading one record may fail

Versions == 1..MaxVersion
Nobody == "nobody"
Active == "active"
Deprecated == "deprecated"

(* The fields a record carries: those of the onboarding service, those of
   store_encrypted_key, or only those SigningKeyRecord keeps of the former. *)
Shapes == {"onboarded", "rotated", "stripped"}
Record == [status : {Active, Deprecated}, key : Nat, shape : Shapes, expired : BOOLEAN]
NoRecord == [status |-> "none", key |-> 0, shape |-> "none", expired |-> FALSE]

(* The leases of the route and of KeyRotationManager. *)
Outer == "signing_key_rotation"
Inner == "key-rotation:signing-key"
Locks == {Outer, Inner}
Requests == Rotators \cup Signers

ASSUME KeyRotationAssumption ==
    /\ MaxVersion \in Nat \ {0}
    /\ InitialKvs \subseteq [Versions -> Record \cup {NoRecord}]
    /\ Rotators \cap Signers = {}
    /\ Nobody \notin Rotators
    /\ Faults \in BOOLEAN
    /\ LostReads \subseteq Requests

(* Keys found at the start have lower numbers than those generated later. *)
ASSUME InitialKvAssumption ==
    \A m \in InitialKvs : \A v \in Versions : m[v].key <= MaxVersion

VARIABLES
    kv,         \* the key record of each version, or NoRecord
    older,      \* what KV may still show of it instead
    holder,     \* who holds each lease
    pc,         \* where each request is
    names,      \* listed versions a request has yet to load
    got,        \* the records it loaded, by version; NoRecord if none
    sel,        \* version a signer selected
    fresh,      \* keys generated so far
    lastOk,     \* version stored by the last rotation to end, 0 if it failed
    sig,        \* history: the key a signer signed under
    clean,      \* history: rotations that listed settled records, alone, and
                \* whose lease has lasted so far
    strays,     \* history: keys stored by others since the last clean one
    base,       \* history: the last key a clean rotation stored
    spread,     \* history: what base was when KV had last propagated all
    floor,      \* history: what spread was when a signer started
    dropped     \* history: keys a clean rotation overwrote with another key

store == <<kv, older>>
history == <<clean, strays, base, spread, dropped>>
vars == <<store, holder, pc, names, got, sel, fresh, lastOk, sig, floor, history>>

Nothing == [v \in Versions |-> NoRecord]
Present(m) == {v \in Versions : m[v] # NoRecord}
ActiveIn(m) == {v \in Versions : m[v].status = Active}
First(S) == CHOOSE v \in S : \A w \in S : v <= w
Last(S) == CHOOSE v \in S : \A w \in S : v >= w

Init ==
    /\ kv \in InitialKvs
    /\ older = [v \in Versions |-> {}]
    /\ holder = [k \in Locks |-> Nobody]
    /\ pc = [q \in Requests |-> "start"]
    /\ names = [q \in Requests |-> {}]
    /\ got = [q \in Requests |-> Nothing]
    /\ sel = [q \in Requests |-> 0]
    /\ fresh = MaxVersion
    /\ lastOk = 0
    /\ sig = [q \in Requests |-> 0]
    /\ clean = {}
    /\ strays = IF \A v, w \in ActiveIn(kv) : v = w
                 THEN {} ELSE {kv[v].key : v \in ActiveIn(kv)}
    /\ base = 0
    /\ spread = 0
    /\ floor = [q \in Requests |-> 0]
    /\ dropped = {}

Goto(q, stage) == pc' = [pc EXCEPT ![q] = stage]

(* The records request q loaded go out of scope. *)
Forget(q) == got' = [got EXCEPT ![q] = Nothing]

(* The rotations between acquiring and releasing the inner lease. *)
Inside == {r \in Rotators : pc[r] \in {"list", "load", "failed"}}

(* What a read of version v may return, and when that is only the last write. *)
Readable(v) == {kv[v]} \cup older[v]
Settled == \A v \in Versions : older[v] = {}

(* Rotation r puts record rec under version v. *)
Put(r, v, rec) ==
    /\ kv' = [kv EXCEPT ![v] = rec]
    /\ older' = [older EXCEPT ![v] = (@ \cup {kv[v]}) \ {rec}]
    /\ dropped' = IF r \in clean /\ kv[v] # NoRecord /\ kv[v].key # rec.key
                    THEN dropped \cup {kv[v].key} ELSE dropped

(* KV has propagated the writes to version v. *)
Propagate(v) ==
    /\ older[v] # {}
    /\ older' = [older EXCEPT ![v] = {}]
    /\ spread' = IF \A w \in Versions \ {v} : older[w] = {} THEN base ELSE spread
    /\ UNCHANGED <<kv, holder, pc, names, got, sel, fresh, lastOk, sig, floor,
                   clean, strays, base, dropped>>

-----------------------------------------------------------------------------
(* Reading all keys: list the names, then load them one by one. *)

(* What a listing may show: all that is there, and is not too new to miss. *)
Listings ==
    {S \in SUBSET Versions :
       /\ \A v \in S : Readable(v) # {NoRecord}
       /\ \A v \in Versions \ S : NoRecord \in Readable(v)}

list_keys(q) ==
    /\ pc[q] = "list"
    /\ \/ /\ \E S \in Listings : names' = [names EXCEPT ![q] = S]
          /\ got' = [got EXCEPT ![q] = Nothing]
          /\ clean' = IF Settled /\ Inside = {q} /\ holder[Inner] = q
                        THEN clean \cup {q} ELSE clean
          /\ Goto(q, "load")
       \/ /\ Faults
          /\ Goto(q, IF q \in Rotators THEN "failed" ELSE "done")
          /\ UNCHANGED <<names, got, clean>>
    /\ UNCHANGED <<store, holder, sel, fresh, lastOk, sig, floor, strays, base,
                   spread, dropped>>

(* A record that cannot be read, or is not seen yet, is left out. *)
load_key_record(q) ==
    /\ pc[q] = "load"
    /\ names[q] # {}
    /\ LET v == First(names[q]) IN
         /\ names' = [names EXCEPT ![q] = @ \ {v}]
         /\ \/ \E rec \in Readable(v) : got' = [got EXCEPT ![q][v] = rec]
            \/ q \in LostReads /\ UNCHANGED got
    /\ UNCHANGED <<store, holder, pc, sel, fresh, lastOk, sig, floor, history>>

Loaded(q) == pc[q] = "load" /\ names[q] = {}

-----------------------------------------------------------------------------
(* Rotation. *)

(* Take a lease, or end the request: the outer one first. *)
acquire_outer(r) ==
    /\ pc[r] = "start"
    /\ \/ /\ holder[Outer] = Nobody
          /\ holder' = [holder EXCEPT ![Outer] = r]
          /\ Goto(r, "inner")
       \/ /\ holder[Outer] # Nobody
          /\ Goto(r, "done")
          /\ UNCHANGED holder
    /\ UNCHANGED <<store, names, got, sel, fresh, lastOk, sig, floor, history>>

acquire_inner(r) ==
    /\ pc[r] = "inner"
    /\ \/ /\ holder[Inner] = Nobody
          /\ holder' = [holder EXCEPT ![Inner] = r]
          /\ Goto(r, "list")
       \/ /\ holder[Inner] # Nobody
          /\ Goto(r, "release_outer")
          /\ UNCHANGED holder
    /\ UNCHANGED <<store, names, got, sel, fresh, lastOk, sig, floor, history>>

(* Mutant: writing a status back keeps the status. *)
Deprecate_KeepsStatus(rec) ==
    [rec EXCEPT !.shape = IF @ = "onboarded" THEN "stripped" ELSE @]

(* A record written back with status Deprecated: SigningKeyRecord has no sk
   and no vk field, so an onboarded record loses both. *)
Deprecate(rec) ==
    [rec EXCEPT !.status = Deprecated,
                !.shape = IF @ = "onboarded" THEN "stripped" ELSE @]

(* Old active keys are deprecated one by one, before the new one is stored;
   the first write to report an error, whether or not it took effect, ends
   the rotation. *)
save_key_metadata(r) ==
    /\ Loaded(r)
    /\ ActiveIn(got[r]) # {}
    /\ LET v == First(ActiveIn(got[r]))
           Write == Put(r, v, Deprecate(got[r][v]))
       IN
         \/ /\ Write
            /\ got' = [got EXCEPT ![r][v].status = Deprecated]
            /\ UNCHANGED <<pc, lastOk>>
         \/ /\ Faults
            /\ Write \/ UNCHANGED <<store, dropped>>
            /\ Goto(r, "release_inner")
            /\ lastOk' = 0
            /\ Forget(r)
    /\ UNCHANGED <<holder, names, sel, fresh, sig, floor, clean, strays, base, spread>>

(* Mutant: the number of records decides the next version. *)
next_version_from_keys_Count(m) == Cardinality(ActiveIn(m)) + 1

next_version_from_keys(m) ==
    IF Present(m) = {} THEN 1 ELSE Last(Present(m)) + 1

(* Mutant: the record is stored as it was before the secret half was added. *)
store_encrypted_key_WithoutSecret(r) ==
    LET v == next_version_from_keys(got[r]) IN
    /\ Loaded(r)
    /\ ActiveIn(got[r]) = {}
    /\ v \in Versions
    /\ Goto(r, "release_inner")
    /\ \/ /\ Put(r, v, [status |-> Active, key |-> fresh + 1, shape |-> "stripped",
                        expired |-> FALSE])
          /\ fresh' = fresh + 1
          /\ strays' = IF r \in clean THEN {} ELSE strays \cup {fresh + 1}
          /\ base' = IF r \in clean THEN fresh + 1 ELSE base
          /\ lastOk' = v \/ (Faults /\ lastOk' = 0)
       \/ /\ Faults
          /\ lastOk' = 0
          /\ UNCHANGED <<store, dropped, fresh, strays, base>>
    /\ Forget(r)
    /\ UNCHANGED <<holder, names, sel, sig, floor, clean, spread>>

(* The new key is encrypted and stored once no loaded record is active. *)
store_encrypted_key(r) ==
    LET v == next_version_from_keys(got[r]) IN
    /\ Loaded(r)
    /\ ActiveIn(got[r]) = {}
    /\ v \in Versions
    /\ Goto(r, "release_inner")
    /\ \/ /\ Put(r, v, [status |-> Active, key |-> fresh + 1, shape |-> "rotated",
                        expired |-> FALSE])
          /\ fresh' = fresh + 1
          /\ strays' = IF r \in clean THEN {} ELSE strays \cup {fresh + 1}
          /\ base' = IF r \in clean THEN fresh + 1 ELSE base
          /\ lastOk' = v \/ (Faults /\ lastOk' = 0)
       \/ /\ Faults
          /\ lastOk' = 0
          /\ UNCHANGED <<store, dropped, fresh, strays, base>>
    /\ Forget(r)
    /\ UNCHANGED <<holder, names, sel, sig, floor, clean, spread>>

(* A listing that failed: nothing was written. *)
rotation_failed(r) ==
    /\ pc[r] = "failed"
    /\ lastOk' = 0
    /\ Goto(r, "release_inner")
    /\ UNCHANGED <<store, holder, names, got, sel, fresh, sig, floor, history>>

(* Releases free a lease only if it is still the caller's (its token). *)
Release(r, k) ==
    holder' = IF holder[k] = r THEN [holder EXCEPT ![k] = Nobody] ELSE holder

release_inner(r) ==
    /\ pc[r] = "release_inner"
    /\ Release(r, Inner) \/ (Faults /\ UNCHANGED holder)
    /\ Goto(r, "release_outer")
    /\ UNCHANGED <<store, names, got, sel, fresh, lastOk, sig, floor, history>>

release_outer(r) ==
    /\ pc[r] = "release_outer"
    /\ Release(r, Outer) \/ (Faults /\ UNCHANGED holder)
    /\ Goto(r, "done")
    /\ UNCHANGED <<store, names, got, sel, fresh, lastOk, sig, floor, history>>

(* A rotation request is cut off; its leases stay until they run out. *)
Crash(r) ==
    /\ Faults
    /\ r \in Inside
    /\ Goto(r, "done")
    /\ lastOk' = 0
    /\ names' = [names EXCEPT ![r] = {}]
    /\ Forget(r)
    /\ UNCHANGED <<store, holder, sel, fresh, sig, floor, history>>

(* A lease runs out, its holder at work or not. *)
LeaseEnds(k) ==
    /\ holder[k] # Nobody
    /\ holder' = [holder EXCEPT ![k] = Nobody]
    /\ clean' = IF k = Inner THEN clean \ {holder[k]} ELSE clean
    /\ UNCHANGED <<store, pc, names, got, sel, fresh, lastOk, sig, floor, strays,
                   base, spread, dropped>>

-----------------------------------------------------------------------------
(* Blind issuance. *)

start_signing(s) ==
    /\ pc[s] = "start"
    /\ floor' = [floor EXCEPT ![s] = spread]
    /\ Goto(s, "list")
    /\ UNCHANGED <<store, holder, names, got, sel, fresh, lastOk, sig, history>>

Selectable(m) == {v \in ActiveIn(m) : ~m[v].expired}

(* The first active, unexpired record of the listing. *)
get_active_signing_key(s) ==
    /\ Loaded(s)
    /\ IF Selectable(got[s]) = {}
         THEN Goto(s, "done") /\ UNCHANGED sel
         ELSE /\ sel' = [sel EXCEPT ![s] = First(Selectable(got[s]))]
              /\ Goto(s, "fetch")
    /\ Forget(s)
    /\ UNCHANGED <<store, holder, names, fresh, lastOk, sig, floor, history>>

(* A key that can be loaded is active and has its secret half. *)
Usable(rec) == rec.status = Active /\ rec.shape # "stripped"

(* The record is read once more, under the version selected. *)
get_signing_keypair(s) ==
    /\ pc[s] = "fetch"
    /\ \/ \E rec \in Readable(sel[s]) :
            \/ Usable(rec) /\ sig' = [sig EXCEPT ![s] = rec.key] /\ Goto(s, "signed")
            \/ ~Usable(rec) /\ Goto(s, "done") /\ UNCHANGED sig
       \/ Faults /\ Goto(s, "done") /\ UNCHANGED sig
    /\ UNCHANGED <<store, holder, names, got, sel, fresh, lastOk, floor, history>>

-----------------------------------------------------------------------------

Rotate(r) ==
    \/ acquire_outer(r) \/ acquire_inner(r) \/ list_keys(r) \/ load_key_record(r)
    \/ save_key_metadata(r) \/ store_encrypted_key(r) \/ rotation_failed(r)
    \/ release_inner(r) \/ release_outer(r) \/ Crash(r)

Sign(s) ==
    \/ start_signing(s) \/ list_keys(s) \/ load_key_record(s)
    \/ get_active_signing_key(s) \/ get_signing_keypair(s)

Next ==
    \/ \E r \in Rotators : Rotate(r)
    \/ \E s \in Signers : Sign(s)
    \/ \E k \in Locks : LeaseEnds(k)
    \/ \E v \in Versions : Propagate(v)

Spec == Init /\ [][Next]_vars

-----------------------------------------------------------------------------
(* Properties. *)

(* Every variable has its type. *)
TypeOK ==
    /\ kv \in [Versions -> Record \cup {NoRecord}]
    /\ older \in [Versions -> SUBSET (Record \cup {NoRecord})]
    /\ holder \in [Locks -> Rotators \cup {Nobody}]
    /\ pc \in [Requests -> {"start", "inner", "list", "load", "failed", "fetch",
                            "release_inner", "release_outer", "signed", "done"}]
    /\ names \in [Requests -> SUBSET Versions]
    /\ got \in [Requests -> [Versions -> Record \cup {NoRecord}]]
    /\ sel \in [Requests -> Versions \cup {0}]
    /\ \A s \in Signers : pc[s] = "fetch" => sel[s] # 0
    /\ fresh \in Nat
    /\ lastOk \in Versions \cup {0}
    /\ sig \in [Requests -> Nat]
    /\ clean \subseteq Rotators
    /\ strays \subseteq Nat
    /\ base \in Nat
    /\ spread \in Nat
    /\ floor \in [Requests -> Nat]
    /\ dropped \subseteq Nat

(* Two keys are active at once only after a rotation that read KV before the
   last one's writes had propagated, or outlived its lease, or ran next to one
   that did; and only until the next rotation that did none of this, whatever
   fails or is abandoned. *)
OneActive == strays = {} => \A v, w \in ActiveIn(kv) : v = w

(* A rotation that lists after the writes before it have propagated, with no
   other at work, and ends before its lease does, overwrites no key with
   another. *)
NoKeyDropped == dropped = {}

(* Once the key of such a rotation has propagated, no issuance that starts
   later signs under an older one, whatever it lists and loads while further
   rotations go on. *)
NoRotatedOutKey == \A s \in Signers : pc[s] = "signed" => sig[s] >= floor[s]

AtRest == \A r \in Rotators : pc[r] \in {"start", "done"}

(* A successful rotation recovers from anything before it: when the last one
   to end succeeded and none is at work, its key is active and loadable. *)
RotationRecovers == (AtRest /\ lastOk # 0) => Usable(kv[lastOk])
=============================================================================
