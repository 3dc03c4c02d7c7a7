---------------------------- MODULE KekRotation ----------------------------
(***************************************************************************)
(* Rotation of the key encryption key (KEK): the operator's tool           *)
(* re-encrypts the KV records namespace by namespace, in two phases, while *)
(* the worker reads them, rewrites them (last_used) and creates new ones.  *)
(* Each isolate caches the pair ISSUER_KEK, ISSUER_KEK_PREVIOUS; the       *)
(* operator changes the two secrets separately.  Of a ciphertext the model *)
(* keeps the KEK it is under; AES-GCM decrypts with that KEK only.         *)
(***************************************************************************)
EXTENDS Integers, Sequences

CONSTANTS
    Entries,     \* KV keys of encrypted records under the prefix the tool filters on
    NsOf,        \* the namespace of each
    InitialKvs,  \* records found at the start
    Configured,  \* namespaces whose ID the operator has configured
    OldKek, NewKek,
    Procedures,  \* orders in which the operator may proceed
    MaxReruns,   \* bound: repetitions of a tool run that did not succeed
    Requests,    \* worker requests
    Isolates,    \* isolates of the worker
    CacheTtl,    \* CACHE_TTL_MS
    Processing,  \* bound: longest time a request takes
    MaxTime,     \* bound: end of time
    KvFaults,    \* whether KV calls fail
    StoreFaults  \* whether Secrets Store reads fail

NoKek == "none"      \* the secret is not set
Absent == "absent"   \* the record has no such field
Garbage == "garbage" \* not decryptable with any KEK
Keks == {OldKek, NewKek}

FieldNames == {"secret", "previous", "hash"}

(* "sk" stands for the field names the tool knows; a key that the worker
   rotated keeps its secret in private_key_encrypted instead. *)
Record == [encrypted : BOOLEAN, shape : {"sk", "private_key_encrypted"},
           fields : [FieldNames -> Keks \cup {Absent, Garbage}]]
NoRecord == [encrypted |-> FALSE, shape |-> "sk",
             fields |-> [f \in FieldNames |-> Absent]]

encrypted_namespaces == <<"keys", "officers", "clients", "ed25519", "sessions">>
Namespaces == {encrypted_namespaces[n] : n \in 1..Len(encrypted_namespaces)}

(* The places of the namespaces to process after place n: one that is not
   configured is passed over. *)
Later(n) == {m \in 1..Len(encrypted_namespaces) : m > n /\ encrypted_namespaces[m] \in Configured}
First(places) == CHOOSE m \in places : \A k \in places : m <= k

Modes == {"rotate", "verify", "verify_rotation"}
Changes == {"current", "previous", "remove"}
Steps == Modes \cup Changes \cup {"deploy"}

ASSUME KekRotationAssumption ==
    /\ NsOf \in [Entries -> Namespaces]
    /\ InitialKvs \subseteq [Entries -> Record \cup {NoRecord}]
    /\ Configured \subseteq Namespaces /\ Configured # {}
    /\ OldKek # NewKek
    /\ {OldKek, NewKek} \cap {NoKek, Absent, Garbage} = {}
    /\ Procedures \subseteq Seq(Steps)
    /\ CacheTtl \in Nat \ {0} /\ Processing \in Nat /\ MaxTime \in Nat /\ MaxReruns \in Nat
    /\ KvFaults \in BOOLEAN /\ StoreFaults \in BOOLEAN

VARIABLES
    clock,
    kv,       \* the record of each entry, or NoRecord
    current,  \* ISSUER_KEK
    previous, \* ISSUER_KEK_PREVIOUS
    cache,    \* KEK_CACHE of each isolate
    req,      \* where each request is, and what it has in hand
    tool,     \* the state of the tool
    touched,  \* history: entries this run of the tool wrote
    proc,     \* the operator's procedure
    step,     \* the step the operator is at
    calm,     \* history: verifications that began with no request under way
    reruns,   \* failed runs of the tool so far
    changed,  \* history: when each of the two secrets last changed
    outage    \* history: entries the worker failed to decrypt in the open window

toolVars == <<tool, touched>>
operatorVars == <<proc, step, calm, reruns, changed>>
vars == <<clock, kv, current, previous, cache, req, toolVars, operatorVars, outage>>

(* "sound": reading ISSUER_KEK_PREVIOUS did not fail. *)
Pair == [current : Keks \cup {NoKek}, previous : Keks \cup {NoKek}, sound : BOOLEAN]
NoPair == [current |-> NoKek, previous |-> NoKek, sound |-> FALSE]
NoEntry == "no entry"
Retired == "retired" \* an isolate that a deployment replaced
Cached == [pair : Pair, at : Int]
NotCached == [pair |-> NoPair, at |-> - CacheTtl]

(* home: the isolate; now: the clock read by get_kek_pair as the request began;
   kek: the current KEK it fetched; seen: the record it read or is to write. *)
IdleRequest == [pc |-> "idle", entry |-> NoEntry, home |-> Retired,
                now |-> 0, kek |-> NoKek, seen |-> NoRecord]
EndedRequest == [IdleRequest EXCEPT !.pc = "ended"]
InFlight == {q \in Requests : req[q].pc \notin {"idle", "ended"}}

(* todo: entries of the namespace still to be read; staged: StagedEntry, the
   records to be written; bad: namespaces with an entry that failed. *)
IdleTool == [pc |-> "idle", mode |-> "rotate", ns |-> 1, todo |-> {},
             staged |-> [e \in Entries |-> NoRecord], bad |-> {}]

Init ==
    /\ clock = 0
    /\ kv \in InitialKvs
    /\ current = OldKek
    /\ previous = NoKek
    /\ cache = [i \in Isolates |-> NotCached]
    /\ req = [q \in Requests |-> IdleRequest]
    /\ tool = IdleTool
    /\ touched = {}
    /\ proc \in Procedures
    /\ step = 1
    /\ calm = {}
    /\ reruns = 0
    /\ changed = [s \in {"current", "previous"} |-> 0]
    /\ outage = {}

(* Time passes; a request is over Processing after it began. *)
Tick ==
    /\ clock < MaxTime
    /\ \A q \in InFlight : clock < req[q].now + Processing
    /\ clock' = clock + 1
    /\ UNCHANGED <<kv, current, previous, cache, req, toolVars, operatorVars, outage>>

Becomes(q, r) == req' = [req EXCEPT ![q] = r]
Goto(q, pc) == Becomes(q, [req[q] EXCEPT !.pc = pc])
Ends(q) == Becomes(q, EndedRequest)

-----------------------------------------------------------------------------
(* The worker. *)

(* AES-GCM: a ciphertext decrypts with the KEK it is under. *)
decrypt_with_kek(kek, c) == kek \in Keks /\ c = kek

(* Mutant: the current KEK only. *)
decrypt_with_kek_fallback_NoFallback(p, c) == decrypt_with_kek(p.current, c)

(* The current KEK first, then the previous one if there is one. *)
decrypt_with_kek_fallback(p, c) ==
    decrypt_with_kek(p.current, c) \/ decrypt_with_kek(p.previous, c)

(* The HMAC secrets of the record; a previous one that does not decrypt fails
   the lookup too. *)
Decrypts(rec, p) ==
    \A f \in {"secret", "previous"} :
      \/ rec.fields[f] = Absent /\ f # "secret"
      \/ decrypt_with_kek_fallback(p, rec.fields[f])

(* Mutant: a cache entry is fresh for one more unit of time. *)
Fresh_Inclusive(i) == clock - cache[i].at \in 0..CacheTtl

Fresh(i) == clock - cache[i].at \in 0 .. CacheTtl - 1

(* A new record, under the current KEK.  A sandbox client has no API key and
   an empty hash. *)
NewRecord(e, p) ==
    [encrypted |-> TRUE,
     shape |-> IF NsOf[e] = "keys" THEN "private_key_encrypted" ELSE "sk",
     fields |-> [f \in FieldNames |->
                   CASE f = "secret" -> p.current
                     [] f = "hash" /\ NsOf[e] = "clients" -> Garbage
                     [] OTHER -> Absent]]

(* The rotation window is open: the two KEKs are in place, and the worker was
   deployed since. *)
SinceDeploy ==
    \E d \in 1 .. step - 1 :
      proc[d] = "deploy" /\ \A m \in d + 1 .. step - 1 : proc[m] \notin Changes
WindowOpen == current = NewKek /\ previous = OldKek /\ SinceDeploy

(* What request r does with the pair p: encrypt its new record, or decrypt
   the one it read, after which it ends (wrong HMAC, or nothing to update) or
   goes on to update_officer_last_used_by_id or update_client_last_used.  A
   failure counts if the worker has a sound pair and was deployed for the window. *)
UsePair(q, r, p) ==
    \/ /\ r.seen = NoRecord
       /\ Becomes(q, [r EXCEPT !.pc = "put", !.kek = NoKek, !.seen = NewRecord(r.entry, p)])
       /\ UNCHANGED outage
    \/ /\ r.seen # NoRecord
       /\ Decrypts(r.seen, p)
       /\ \/ Ends(q)
          \/ /\ NsOf[r.entry] \in {"officers", "clients"}
             /\ Becomes(q, [r EXCEPT !.pc = "touch", !.kek = NoKek, !.seen = NoRecord])
       /\ UNCHANGED outage
    \/ /\ r.seen # NoRecord
       /\ ~ Decrypts(r.seen, p)
       /\ Ends(q)
       /\ outage' = IF p.sound /\ WindowOpen /\ r.home # Retired
                      THEN outage \cup {r.entry} ELSE outage

(* A request about entry e asks for the KEK pair: the isolate has it in its
   cache, or it is fetched, and the clock is read before that. *)
get_kek_pair(q, e) ==
    \E i \in Isolates :
      LET r == [IdleRequest EXCEPT !.entry = e, !.home = i, !.now = clock, !.seen = kv[e]]
      IN  \/ /\ Fresh(i)
             /\ UsePair(q, r, cache[i].pair)
          \/ /\ ~ Fresh(i)
             /\ Becomes(q, [r EXCEPT !.pc = "fetch_current"])
             /\ UNCHANGED outage

(* A record is read, to decrypt its secrets; a plaintext one is rejected. *)
Lookup(q, e) ==
    /\ req[q].pc = "idle"
    /\ kv[e] # NoRecord
    /\ IF kv[e].encrypted THEN get_kek_pair(q, e) ELSE Ends(q) /\ UNCHANGED outage
    /\ UNCHANGED <<clock, kv, current, previous, cache, toolVars, operatorVars>>

get_signing_keypair(q, e) == NsOf[e] = "keys" /\ Lookup(q, e)
get_officer_by_id(q, e) == NsOf[e] = "officers" /\ Lookup(q, e)
get_client_by_id(q, e) == NsOf[e] = "clients" /\ Lookup(q, e)

(* A record is created. *)
Creation(q, e) ==
    /\ req[q].pc = "idle"
    /\ kv[e] = NoRecord
    /\ get_kek_pair(q, e)
    /\ UNCHANGED <<clock, kv, current, previous, cache, toolVars, operatorVars>>

register_test_issuer(q, e) == NsOf[e] = "clients" /\ Creation(q, e)
store_encrypted_key(q, e) == NsOf[e] = "keys" /\ Creation(q, e)

(* The required secret: a failed read fails the request. *)
fetch_current(q) ==
    /\ req[q].pc = "fetch_current"
    /\ \/ Becomes(q, [req[q] EXCEPT !.kek = current, !.pc = "fetch_previous"])
       \/ StoreFaults /\ Ends(q)
    /\ UNCHANGED <<clock, kv, current, previous, cache, toolVars, operatorVars, outage>>

(* Mutant: the pair is dated when it is stored. *)
FetchedAt_AfterFetch(q) == clock

(* The date of the stored pair: the clock read before the fetch. *)
FetchedAt(q) == req[q].now

(* The optional secret: a failed read counts as "not set".  The pair is cached. *)
fetch_previous(q) ==
    /\ req[q].pc = "fetch_previous"
    /\ \E sound \in {TRUE, ~ StoreFaults} :
         LET p == [current |-> req[q].kek, previous |-> IF sound THEN previous ELSE NoKek,
                   sound |-> sound]
         IN  /\ cache' = IF req[q].home = Retired THEN cache
                           ELSE [cache EXCEPT ![req[q].home] = [pair |-> p, at |-> FetchedAt(q)]]
             /\ UsePair(q, req[q], p)
    /\ UNCHANGED <<clock, kv, current, previous, toolVars, operatorVars>>

(* The record is read again, raw, to be rewritten as a whole with last_used. *)
UpdateLastUsed(q) ==
    /\ req[q].pc = "touch"
    /\ \/ /\ kv[req[q].entry] # NoRecord
          /\ Becomes(q, [req[q] EXCEPT !.pc = "put", !.seen = kv[req[q].entry]])
       \/ /\ KvFaults \/ kv[req[q].entry] = NoRecord
          /\ Ends(q)
    /\ UNCHANGED <<clock, kv, current, previous, cache, toolVars, operatorVars, outage>>

update_officer_last_used_by_id(q) ==
    /\ req[q].entry \in Entries
    /\ NsOf[req[q].entry] = "officers"
    /\ UpdateLastUsed(q)
update_client_last_used(q) ==
    /\ req[q].entry \in Entries
    /\ NsOf[req[q].entry] = "clients"
    /\ UpdateLastUsed(q)

put(q) ==
    /\ req[q].pc = "put"
    /\ \/ kv' = [kv EXCEPT ![req[q].entry] = req[q].seen]
       \/ KvFaults /\ UNCHANGED kv
    /\ Ends(q)
    /\ UNCHANGED <<clock, current, previous, cache, toolVars, operatorVars, outage>>

(* A sandbox client's record has a TTL; assumed not to be in use at its end. *)
expire(e) ==
    /\ \A q \in InFlight : req[q].entry # e
    /\ NsOf[e] = "clients"
    /\ kv[e].fields["hash"] = Garbage
    /\ kv' = [kv EXCEPT ![e] = NoRecord]
    /\ UNCHANGED <<clock, current, previous, cache, req, toolVars, operatorVars, outage>>

-----------------------------------------------------------------------------
(* The tool: rotate-kek, with or without --verify-only, and verify-rotation. *)

Ns == encrypted_namespaces[tool.ns]

fields(ns) ==
    CASE ns \in {"keys", "ed25519", "sessions"} -> {"secret"}
      [] ns = "officers" -> {"secret", "previous"}
      [] ns = "clients" -> FieldNames
optional(f) == f = "previous"

(* A record has the secrets of its namespace only, and does not mix KEKs. *)
Unmixed(ns, rec) ==
    \A f \in FieldNames : rec.fields[f] \in Keks =>
      f \in fields(ns) /\ rec.fields["secret"] \in {rec.fields[f], Garbage}

(* Records found at the start were encrypted in one go by the key tools. *)
ASSUME InitialAssumption == \A k \in InitialKvs : \A e \in Entries : Unmixed(NsOf[e], k[e])

requires_encrypted_flag(ns) == ns # "sessions"

(* What the tool finds in a field. *)
field_val(rec, f) == IF f = "secret" /\ rec.shape # "sk" THEN Absent ELSE rec.fields[f]

(* The tool's own decryption. *)
aes_gcm_decrypt(kek, c) == c = kek

(* rotate-kek: every field of the record decrypts with this KEK. *)
AllFields(rec, ns, kek) ==
    \A f \in fields(ns) :
      \/ field_val(rec, f) = Absent /\ optional(f)
      \/ aes_gcm_decrypt(kek, field_val(rec, f))

(* verify-rotation: the first field, which is never optional, decides. *)
entry_result(rec) ==
    CASE aes_gcm_decrypt(NewKek, field_val(rec, "secret")) -> "Current"
      [] aes_gcm_decrypt(OldKek, field_val(rec, "secret")) -> "Previous"
      [] OTHER -> "Neither"

(* What the run of the tool wants of an entry. *)
Passes(rec, ns, mode) ==
    CASE mode = "rotate" -> AllFields(rec, ns, OldKek)
      [] mode = "verify" -> AllFields(rec, ns, NewKek)
      [] mode = "verify_rotation" -> entry_result(rec) = "Current"

(* Mutant: only the first field is encrypted again. *)
ReEncrypted_FirstField(rec, ns) == [rec EXCEPT !.fields["secret"] = NewKek]

(* The staged record of an entry that passed: its fields under the new KEK. *)
ReEncrypted(rec, ns) ==
    [rec EXCEPT !.fields =
       [f \in FieldNames |-> IF f \in fields(ns) /\ @[f] # Absent THEN NewKek ELSE @[f]]]

(* The next namespace, or the summary and the exit status.  verify-rotation
   exits without an error when entries are under the previous KEK, and warns. *)
NextNamespace(t) ==
    [t EXCEPT !.staged = IdleTool.staged,
              !.ns = IF Later(t.ns) # {} THEN First(Later(t.ns)) ELSE @,
              !.pc = CASE Later(t.ns) # {} -> "list"
                       [] Later(t.ns) = {} /\ t.bad # {} -> "failed"
                       [] OTHER -> "complete"]

(* A call of the KV API fails, and that ends the tool. *)
Aborts ==
    /\ KvFaults
    /\ tool' = [IdleTool EXCEPT !.pc = "aborted"]
    /\ touched' = {}

(* The entries of the namespace under the prefix, page by page; a listing that
   fails ends the tool. *)
list_kv_keys ==
    /\ tool.pc = "list"
    /\ \/ /\ tool' = [tool EXCEPT !.pc = "read",
                         !.todo = {e \in Entries : NsOf[e] = Ns /\ kv[e] # NoRecord}]
          /\ UNCHANGED touched
       \/ Aborts
    /\ UNCHANGED <<clock, kv, current, previous, cache, req, operatorVars, outage>>

(* Mutant: the flag is read the wrong way round. *)
Skipped_Encrypted(rec) == rec = NoRecord \/ (requires_encrypted_flag(Ns) /\ rec.encrypted)

(* A record that is gone, or in plaintext, is skipped. *)
Skipped(rec) == rec = NoRecord \/ (requires_encrypted_flag(Ns) /\ ~ rec.encrypted)

(* Phase 1, one entry: one that does not decrypt, or lacks a field, fails the
   namespace; otherwise, when rotating, the re-encrypted record is staged.  A
   read that fails ends the tool. *)
read_entry ==
    /\ tool.pc = "read"
    /\ \/ \E e \in tool.todo :
            LET rec == kv[e]
                rest == [tool EXCEPT !.todo = @ \ {e}]
            IN  /\ tool' = CASE Skipped(rec) -> rest
                             [] ~ Skipped(rec) /\ ~ Passes(rec, Ns, tool.mode) ->
                                  [rest EXCEPT !.bad = @ \cup {Ns}]
                             [] OTHER ->
                                  [rest EXCEPT !.staged[e] = IF tool.mode = "rotate"
                                                               THEN ReEncrypted(rec, Ns) ELSE @]
                /\ UNCHANGED touched
       \/ tool.todo # {} /\ Aborts
    /\ UNCHANGED <<clock, kv, current, previous, cache, req, operatorVars, outage>>

(* Mutant: what was staged is written although another entry failed. *)
MayWrite_Anyway == tool.mode = "rotate"

(* The writes of a namespace with a failed entry are abandoned. *)
MayWrite == tool.mode = "rotate" /\ Ns \notin tool.bad

end_phase_1 ==
    /\ tool.pc = "read"
    /\ tool.todo = {}
    /\ tool' = IF MayWrite THEN [tool EXCEPT !.pc = "write"] ELSE NextNamespace(tool)
    /\ UNCHANGED <<clock, kv, current, previous, cache, req, touched, operatorVars, outage>>

put_kv_value_by_ns(e, value) == kv' = [kv EXCEPT ![e] = value]

(* Phase 2: the staged records are written one by one; the first write to
   fail ends the tool. *)
write_entry ==
    /\ tool.pc = "write"
    /\ \/ \E e \in {x \in Entries : tool.staged[x] # NoRecord} :
            /\ put_kv_value_by_ns(e, tool.staged[e])
            /\ tool' = [tool EXCEPT !.staged[e] = NoRecord]
            /\ touched' = touched \cup {e}
       \/ /\ tool.staged # IdleTool.staged
          /\ Aborts
          /\ UNCHANGED kv
       \/ /\ tool.staged = IdleTool.staged
          /\ tool' = NextNamespace(tool)
          /\ UNCHANGED <<kv, touched>>
    /\ UNCHANGED <<clock, current, previous, cache, req, operatorVars, outage>>

-----------------------------------------------------------------------------
(* The operator. *)

At(s) == step <= Len(proc) /\ proc[step] = s
Advance == step' = step + 1

Start(mode) ==
    /\ tool.pc = "idle"
    /\ At(mode)
    /\ tool' = [IdleTool EXCEPT !.pc = "list", !.mode = mode, !.ns = First(Later(0))]
    /\ touched' = {}
    /\ calm' = IF mode # "rotate" /\ InFlight = {} THEN calm \cup {step} ELSE calm \ {step}
    /\ UNCHANGED <<clock, kv, current, previous, cache, req, proc, step, reruns, changed, outage>>

rotate_kek == Start("rotate") \/ Start("verify")
verify_rotation == Start("verify_rotation")

(* The tool has ended; unless all went well it is run again, or the operator
   gives up. *)
tool_ended ==
    /\ tool.pc \in {"complete", "failed", "aborted"}
    /\ \/ /\ tool.pc = "complete"
          /\ Advance
          /\ UNCHANGED reruns
       \/ /\ tool.pc # "complete"
          /\ reruns < MaxReruns
          /\ reruns' = reruns + 1
          /\ UNCHANGED step
    /\ tool' = IdleTool
    /\ touched' = {}
    /\ UNCHANGED <<clock, kv, current, previous, cache, req, proc, calm, changed, outage>>

set_secret ==
    /\ \/ /\ At("current")
          /\ current' = NewKek
          /\ changed' = [changed EXCEPT !["current"] = clock]
          /\ UNCHANGED previous
       \/ /\ At("previous") \/ At("remove")
          /\ previous' = IF At("previous") THEN OldKek ELSE NoKek
          /\ changed' = [changed EXCEPT !["previous"] = clock]
          /\ UNCHANGED current
    /\ Advance
    /\ UNCHANGED <<clock, kv, cache, req, toolVars, proc, calm, reruns, outage>>

(* New isolates take over; requests under way end in the old ones. *)
deploy ==
    /\ At("deploy")
    /\ cache' = [i \in Isolates |-> NotCached]
    /\ req' = [q \in Requests |-> [req[q] EXCEPT !.home = Retired]]
    /\ Advance
    /\ UNCHANGED <<clock, kv, current, previous, toolVars, proc, calm, reruns, changed, outage>>

-----------------------------------------------------------------------------

Next ==
    \/ Tick
    \/ \E q \in Requests :
         \/ \E e \in Entries :
              \/ get_signing_keypair(q, e) \/ get_officer_by_id(q, e) \/ get_client_by_id(q, e)
              \/ register_test_issuer(q, e) \/ store_encrypted_key(q, e)
         \/ fetch_current(q) \/ fetch_previous(q)
         \/ update_officer_last_used_by_id(q) \/ update_client_last_used(q) \/ put(q)
    \/ \E e \in Entries : expire(e)
    \/ list_kv_keys \/ read_entry \/ end_phase_1 \/ write_entry
    \/ rotate_kek \/ verify_rotation \/ tool_ended \/ set_secret \/ deploy

Spec == Init /\ [][Next]_vars

-----------------------------------------------------------------------------
(* Properties. *)

(* Every variable has its type. *)
TypeOK ==
    /\ clock \in 0..MaxTime
    /\ kv \in [Entries -> Record \cup {NoRecord}]
    /\ current \in Keks
    /\ previous \in Keks \cup {NoKek}
    /\ cache \in [Isolates -> Cached]
    /\ req \in [Requests -> [pc : {"idle", "fetch_current", "fetch_previous", "touch",
                                    "put", "ended"},
                              entry : Entries \cup {NoEntry}, home : Isolates \cup {Retired},
                              now : 0..MaxTime, kek : Keks \cup {NoKek},
                              seen : Record \cup {NoRecord}]]
    /\ tool \in [pc : {"idle", "list", "read", "write", "complete", "failed", "aborted"},
                 mode : Modes, ns : 1..Len(encrypted_namespaces), todo : SUBSET Entries,
                 staged : [Entries -> Record \cup {NoRecord}], bad : SUBSET Namespaces]
    /\ touched \subseteq Entries
    /\ proc \in Procedures
    /\ step \in 1 .. Len(proc) + 1
    /\ calm \subseteq 1 .. Len(proc)
    /\ reruns \in 0..MaxReruns
    /\ changed \in [{"current", "previous"} -> 0..MaxTime]
    /\ outage \subseteq Entries

(* The worker was deployed after the current KEK was set, before place n of
   the procedure. *)
Settled(p, n) ==
    \E c \in 1 .. n - 1, w \in 1 .. n - 1 : c < w /\ p[c] = "current" /\ p[w] = "deploy"

(* A verification that passed before place n began after that deployment and
   with no request under way. *)
Verified(n) == \E v \in calm : v < n /\ Settled(proc, v)

(* No scanned record needs the old KEK. *)
OldKekUnused ==
    \A e \in Entries : NsOf[e] \in Configured /\ kv[e].encrypted =>
      \A f \in fields(NsOf[e]) : kv[e].fields[f] # OldKek

(* Once ISSUER_KEK_PREVIOUS has been removed no scanned record needs the old KEK,
   although isolates cached the old pair, records were created under it, and
   last_used was written back from reads that preceded the tool's writes, if the
   verification began after the deployment and while no request was under way. *)
SafeToRemove ==
    \A n \in 1 .. step - 1 : proc[n] = "remove" /\ Verified(n) => OldKekUnused

(* "All entries decrypt with the current KEK. Safe to remove ISSUER_KEK_PREVIOUS.":
   the same after any verification that passed. *)
VerdictSafe ==
    \A n \in 1 .. step - 1 :
      proc[n] = "remove" /\ (\E v \in 1 .. n - 1 : proc[v] \in {"verify", "verify_rotation"}) =>
        OldKekUnused

(* The HMAC secrets are under one of the two KEKs. *)
Legible(rec) ==
    rec.fields["secret"] \in Keks /\ rec.fields["previous"] \in Keks \cup {Absent}

(* "Data encrypted under the old KEK can still be decrypted while the rotation
   window is open": a request of the deployed worker whose reads of the two
   secrets succeeded decrypts every record, whichever KEK the tool, a rewrite or
   a creation left it under and whatever the isolates had cached, unless it was
   not decryptable from the start. *)
WindowReadable ==
    \A e \in outage : \E k \in InitialKvs : k[e] # NoRecord /\ ~ Legible(k[e])

(* "No data in this namespace was modified": the tool has written no entry of
   a namespace in which an entry failed. *)
NamespaceUntouched == \A e \in touched : NsOf[e] \notin tool.bad

(* verify-rotation judges a record by its first field: no record ever mixes
   the two KEKs. *)
FirstFieldSpeaks ==
    \A e \in Entries : \A f \in FieldNames :
      kv[e].fields[f] \in Keks => kv[e].fields["secret"] \in {kv[e].fields[f], Garbage}

(* CacheTtl after a change of a secret no isolate serves its former value from
   the cache, although fetches that began earlier still store theirs. *)
KekFresh ==
    \A i \in Isolates : Fresh(i) =>
      /\ clock >= changed["current"] + CacheTtl => cache[i].pair.current = current
      /\ clock >= changed["previous"] + CacheTtl /\ cache[i].pair.sound =>
           cache[i].pair.previous = previous
=============================================================================
