---------------------------- MODULE SecretSlots ----------------------------
(***************************************************************************)
(* Service credentials in two slots: a secret and its _PREVIOUS companion  *)
(* in the Secrets Store, cached by the isolate as Argon2id hashes, each    *)
(* slot by itself, while an operator rotates the secret and the store has  *)
(* outages.  Isolates share nothing here, so there is one.  A behaviour is *)
(* about one surface:                                                      *)
(*   "status"    /health/detailed and /metrics (STATUS_API_TOKEN)          *)
(*   "admin"     the /v1/admin endpoints (ADMIN_API_KEY)                   *)
(*   "internal"  the /_internal endpoints, which cache nothing             *)
(*   "preflight" the check of the KEK before a blind issuance, whose       *)
(*               verdict is cached on top of the cached KEK                *)
(* Secrets are numbered in the order they are issued; a hash is the number *)
(* of its secret.                                                          *)
(***************************************************************************)
EXTENDS Integers

CONSTANTS
    Surfaces,    \* surfaces to explore
    Requests,
    CacheTtl,    \* CACHE_TTL_MS
    OkTtl,       \* KEK_PREFLIGHT_OK_TTL_MS
    FailTtl,     \* KEK_PREFLIGHT_FAIL_TTL_MS
    Processing,  \* bound: longest time a request takes
    Patience,    \* the operator's pause between two rotations
    MaxSecret,   \* bound: secrets issued
    MaxFaults,   \* bound: outages of the Secrets Store and failures to hash
    LastTime     \* bound: end of time

ASSUME SecretSlotsAssumption ==
    /\ Surfaces \subseteq {"status", "admin", "internal", "preflight"}
    /\ CacheTtl \in Nat \ {0} /\ OkTtl \in Nat \ {0} /\ FailTtl \in Nat \ {0}
    /\ Processing \in Nat /\ Patience \in Nat
    /\ MaxSecret \in Nat \ {0, 1} /\ MaxFaults \in Nat /\ LastTime \in Nat

VARIABLES
    surface,
    clock,
    up,        \* whether the Secrets Store answers
    turned,    \* history, for the preflight: when it last began or ceased to
    faults,    \* outages and failures to hash so far
    secret,    \* the value of each slot
    rotating,  \* whether the operator is between the steps of a rotation
    since,     \* history: since when each secret is in a slot, Never if it is not
    until,     \* history: when it was last taken out of one, Never if it was not
    cache,     \* per slot, what was fetched and when
    preflight, \* KEK_PREFLIGHT
    req,       \* where each request is, and what it has in hand
    outcome    \* the decision of the last step, if it made one

storeVars == <<up, turned, faults>>
operatorVars == <<secret, rotating, since, until>>
slotVars == <<surface, clock, storeVars, operatorVars, cache, preflight, req, outcome>>

Slots == {"current", "previous"}
Secrets == 1..MaxSecret
NoSecret == 0
Unhashed == -1   \* the hash of a secret that could not be hashed
Never == LastTime + 1

NotCached == [value |-> NoSecret, at |-> - 2 * CacheTtl]
NotProbed == [available |-> FALSE, at |-> - (OkTtl + FailTtl)]

(* What a lookup may find in a slot. *)
Values == Secrets \cup {NoSecret, Unhashed}

(* at: what the request is doing, or looking up; fetch: whether the store was
   asked for it and has answered; now, answer: when it was asked, and what it
   answered; presented: the credential in its header; current: the hash of
   the current slot; used: the slot that matched; sound: no read or hashing
   behind what it looked up has failed. *)
IdleRequest == [at |-> "idle", fetch |-> "none", answer |-> NoSecret, presented |-> NoSecret, began |-> 0, now |-> 0,
                current |-> NoSecret, used |-> "current", sound |-> TRUE]
NoOutcome == [verdict |-> "none", presented |-> NoSecret, began |-> 0, sound |-> TRUE]
Lookups == {"auth_current", "auth_previous", "log_current", "log_previous", "header"}
Logins == {"auth_current", "auth_previous"}
InFlight == {q \in Requests : req[q].at # "idle"}

(* At the start a rotation is in its overlap window, and nothing is cached. *)
SlotInit ==
    /\ surface \in Surfaces
    /\ clock = 0
    /\ up = TRUE
    /\ turned = 0
    /\ faults = 0
    /\ secret = [s \in Slots |-> IF s = "current" THEN 2 ELSE 1]
    /\ rotating = TRUE
    /\ since = [g \in Secrets |-> IF g <= 2 THEN - Patience ELSE Never]
    /\ until = [g \in Secrets |-> Never]
    /\ cache = [s \in Slots |-> NotCached]
    /\ preflight = NotProbed
    /\ req = [q \in Requests |-> IdleRequest]
    /\ outcome = NoOutcome

SlotTick ==
    /\ clock < LastTime
    /\ \A q \in InFlight : clock < req[q].began + Processing
    /\ clock' = clock + 1
    /\ UNCHANGED <<surface, storeVars, operatorVars, cache, preflight, req>>
    /\ outcome' = NoOutcome

-----------------------------------------------------------------------------
(* The Secrets Store and the operator. *)

outage ==
    /\ up
    /\ faults < MaxFaults
    /\ up' = FALSE
    /\ turned' = IF surface = "preflight" THEN clock ELSE turned
    /\ faults' = faults + 1
    /\ UNCHANGED <<surface, clock, operatorVars, cache, preflight, req>>
    /\ outcome' = NoOutcome

recovery ==
    /\ ~ up
    /\ up' = TRUE
    /\ turned' = IF surface = "preflight" THEN clock ELSE turned
    /\ UNCHANGED <<surface, clock, faults, operatorVars, cache, preflight, req>>
    /\ outcome' = NoOutcome

(* The documented rotation: the new secret goes to the current slot, the one
   it replaces is copied to the previous slot, and in the end removed there.
   Between the first two steps the replaced secret is in neither slot. *)
set_current ==
    /\ ~ rotating
    /\ secret["current"] < MaxSecret
    /\ \A g \in Secrets : until[g] # Never => until[g] + Patience <= clock
    /\ secret' = [secret EXCEPT !["current"] = @ + 1]
    /\ since' = [since EXCEPT ![secret["current"] + 1] = clock, ![secret["current"]] = Never]
    /\ until' = [until EXCEPT ![secret["current"]] = clock]
    /\ rotating' = TRUE
    /\ UNCHANGED <<surface, clock, storeVars, cache, preflight, req>>
    /\ outcome' = NoOutcome

set_previous ==
    /\ rotating
    /\ secret["previous"] = NoSecret
    /\ secret' = [secret EXCEPT !["previous"] = secret["current"] - 1]
    /\ since' = [since EXCEPT ![secret["current"] - 1] = clock]
    /\ until' = [until EXCEPT ![secret["current"] - 1] = Never]
    /\ UNCHANGED <<surface, clock, storeVars, rotating, cache, preflight, req>>
    /\ outcome' = NoOutcome

remove_previous ==
    /\ secret["previous"] # NoSecret
    /\ secret' = [secret EXCEPT !["previous"] = NoSecret]
    /\ since' = [since EXCEPT ![secret["previous"]] = Never]
    /\ until' = [until EXCEPT ![secret["previous"]] = clock]
    /\ rotating' = FALSE
    /\ UNCHANGED <<surface, clock, storeVars, cache, preflight, req>>
    /\ outcome' = NoOutcome

-----------------------------------------------------------------------------
(* The worker. *)

SlotOf(r, lookup) ==
    CASE lookup \in {"auth_current", "log_current"} -> "current"
      [] lookup \in {"auth_previous", "log_previous"} -> "previous"
      [] lookup = "header" -> r.used

(* A request goes on to a lookup, with what it now has in hand. *)
Continue(q, r, lookup) ==
    /\ req' = [req EXCEPT ![q] = [r EXCEPT !.at = lookup, !.fetch = "none", !.answer = NoSecret, !.now = 0]]
    /\ outcome' = NoOutcome

(* A slot matched: the request is served, and in the end logged with the
   fingerprints of both slots and answered with that of the slot. *)
Accept(q, r, slot) ==
    /\ req' = [req EXCEPT ![q] =
                 IF surface \in {"status", "admin"}
                   THEN [IdleRequest EXCEPT !.at = "log_current", !.used = slot, !.began = r.began]
                   ELSE IdleRequest]
    /\ outcome' = [verdict |-> "accepted", presented |-> r.presented, began |-> r.began,
                    sound |-> r.sound]

Deny(q, r) ==
    /\ req' = [req EXCEPT ![q] = IdleRequest]
    /\ outcome' = [verdict |-> "denied", presented |-> r.presented, began |-> r.began,
                    sound |-> r.sound]

(* STATUS_API_TOKEN and the internal token: without a current secret the
   endpoint is not configured; the previous one is optional; the slots are
   compared once both are known. *)
authenticate_status_request(q, r, lookup, value) ==
    \/ lookup = "auth_current" /\ value = NoSecret /\ Deny(q, r)
    \/ lookup = "auth_current" /\ value # NoSecret
         /\ Continue(q, [r EXCEPT !.current = value], "auth_previous")
    \/ lookup = "auth_previous" /\ r.current = r.presented /\ Accept(q, r, "current")
    \/ lookup = "auth_previous" /\ r.current # r.presented /\ value = r.presented
         /\ Accept(q, r, "previous")
    \/ lookup = "auth_previous" /\ r.presented \notin {r.current, value} /\ Deny(q, r)

(* ADMIN_API_KEY: the previous slot is asked unless the current one matches,
   even when there is no current one. *)
verify_admin_api_key(q, r, lookup, value) ==
    \/ lookup = "auth_current" /\ value = r.presented /\ Accept(q, r, "current")
    \/ lookup = "auth_current" /\ value # r.presented /\ Continue(q, r, "auth_previous")
    \/ lookup = "auth_previous" /\ value = r.presented /\ Accept(q, r, "previous")
    \/ lookup = "auth_previous" /\ value # r.presented /\ Deny(q, r)

(* The request log and the x-secret-version header ask the cache again. *)
log_secret_version(q, r, lookup) ==
    \/ lookup = "log_current" /\ Continue(q, r, "log_previous")
    \/ lookup = "log_previous" /\ Continue(q, r, "header")
    \/ lookup = "header" /\ req' = [req EXCEPT ![q] = IdleRequest] /\ outcome' = NoOutcome

(* The probe of the KEK. *)
get_kek_pair(q, r, lookup, value) ==
    /\ lookup = "auth_current"
    /\ IF value = NoSecret THEN Deny(q, r) ELSE Accept(q, r, "current")

(* What a request knows of the soundness of what it found. *)
Told(r, value) == [r EXCEPT !.sound = @ /\ (value # Unhashed \/ r.at \notin Logins)]

(* What follows once a lookup has its value, NoSecret if it failed. *)
Resolve(q, r, lookup, value) ==
    \/ surface \in {"status", "internal"} /\ authenticate_status_request(q, r, lookup, value)
    \/ surface = "admin" /\ verify_admin_api_key(q, r, lookup, value)
    \/ surface = "preflight" /\ get_kek_pair(q, r, lookup, value)
    \/ log_secret_version(q, r, lookup)

(* Mutant: the previous slot is kept for longer than the current one. *)
Fresh_PreviousLonger(slot) ==
    surface # "internal" /\ clock - cache[slot].at \in 0 .. IF slot = "previous" THEN CacheTtl ELSE CacheTtl - 1

(* An entry younger than CACHE_TTL_MS, and not from the future, is served. *)
Fresh(slot) == surface # "internal" /\ clock - cache[slot].at \in 0 .. CacheTtl - 1

(* Mutant: a verdict is served at the age at which it expires. *)
preflight_cache_hit_Late ==
    clock - preflight.at \in 0 .. (IF preflight.available THEN OkTtl ELSE FailTtl)

(* A verdict is served again for a time that depends on it. *)
preflight_cache_hit ==
    clock - preflight.at \in 0 .. (IF preflight.available THEN OkTtl ELSE FailTtl) - 1

(* A request arrives with one of the secrets issued so far. *)
arrive(q) ==
    /\ req[q].at = "idle"
    /\ \E g \in 1 .. secret["current"] :
         LET r == [IdleRequest EXCEPT !.presented = g, !.began = clock]
         IN  IF surface = "preflight" /\ preflight_cache_hit
               THEN IF preflight.available THEN Accept(q, r, "current") ELSE Deny(q, r)
               ELSE Continue(q, r, "auth_current")
    /\ UNCHANGED <<surface, clock, storeVars, operatorVars, cache, preflight>>

(* The verdict of a fresh probe is kept, dated when the probe began. *)
Probed(q, value) ==
    preflight' = IF surface = "preflight"
                   THEN [available |-> value # NoSecret, at |-> req[q].began]
                   ELSE preflight

(* The value in the cache, or the clock is read and the fetch begins. *)
get_or_fetch_hashed(q) ==
    /\ req[q].at \in Lookups /\ req[q].fetch = "none"
    /\ LET r == req[q]
           slot == SlotOf(r, r.at)
       IN  \/ /\ Fresh(slot)
              /\ Resolve(q, Told(r, cache[slot].value), r.at, cache[slot].value)
              /\ Probed(q, cache[slot].value)
           \/ /\ ~ Fresh(slot)
              /\ req' = [req EXCEPT ![q].fetch = "asked", ![q].now = clock]
              /\ outcome' = NoOutcome
              /\ UNCHANGED preflight
    /\ UNCHANGED <<surface, clock, storeVars, operatorVars, cache>>

(* Mutant: a slot that is not set is cached as such. *)
Keeps_Absence(answer) == TRUE

(* An answer without a secret, like a failure, is not cached. *)
Keeps(answer) == answer # NoSecret

(* What becomes of an answer: its hash, or none if hashing fails.  The KEK
   and the internal token are not hashed. *)
Hashes(answer) ==
    {answer} \cup IF faults < MaxFaults /\ surface \in {"status", "admin"} /\ answer # NoSecret
                    THEN {Unhashed} ELSE {}

(* The store reads the slot, or fails. *)
fetch_secret(q) ==
    /\ req[q].fetch = "asked"
    /\ req' = [req EXCEPT ![q].fetch = "answered",
                          ![q].answer = IF up THEN secret[SlotOf(req[q], req[q].at)] ELSE NoSecret,
                          ![q].sound = @ /\ (up \/ req[q].at \notin Logins)]
    /\ outcome' = NoOutcome
    /\ UNCHANGED <<surface, clock, storeVars, operatorVars, cache, preflight>>

FetchedAt(r) == r.now

(* The answer arrives and is hashed; the hash, or that there is none, is
   cached, dated before the fetch. *)
fetched(q) ==
    /\ req[q].fetch = "answered"
    /\ \E value \in Hashes(req[q].answer) :
         LET r == req[q]
             slot == SlotOf(r, r.at)
         IN  /\ cache' = IF surface # "internal" /\ Keeps(r.answer)
                           THEN [cache EXCEPT ![slot] = [value |-> value, at |-> FetchedAt(r)]]
                           ELSE cache
             /\ Resolve(q, Told(r, value), r.at, value)
             /\ Probed(q, value)
             /\ faults' = IF value = Unhashed THEN faults + 1 ELSE faults
    /\ UNCHANGED <<surface, clock, up, turned, operatorVars>>

-----------------------------------------------------------------------------

SlotNext ==
    \/ SlotTick \/ outage \/ recovery
    \/ set_previous \/ set_current \/ remove_previous
    \/ \E q \in Requests : arrive(q) \/ get_or_fetch_hashed(q) \/ fetch_secret(q) \/ fetched(q)

SlotSpec == SlotInit /\ [][SlotNext]_slotVars

-----------------------------------------------------------------------------
(* Properties. *)

(* Type correctness: among others, no entry is dated in the future and the
   current slot is never empty. *)
SlotTypeOK ==
    /\ surface \in Surfaces
    /\ clock \in 0..LastTime
    /\ up \in BOOLEAN /\ turned \in 0..LastTime /\ faults \in 0..MaxFaults
    /\ secret \in [Slots -> Secrets \cup {NoSecret}]
    /\ secret["current"] \in Secrets
    /\ rotating \in BOOLEAN
    /\ since \in [Secrets -> - Patience .. Never]
    /\ until \in [Secrets -> 0..Never]
    /\ cache \in [Slots -> [value : Values, at : - 2 * CacheTtl .. LastTime]]
    /\ preflight \in [available : BOOLEAN, at : - (OkTtl + FailTtl) .. LastTime]
    /\ req \in [Requests -> [at : Lookups \cup {"idle"}, fetch : {"none", "asked", "answered"},
                             answer : Secrets \cup {NoSecret},
                             presented : Secrets \cup {NoSecret}, began : 0..LastTime, now : 0..LastTime,
                             current : Values, used : Slots, sound : BOOLEAN]]
    /\ outcome \in [verdict : {"none", "accepted", "denied"}, presented : Secrets \cup {NoSecret},
                     began : 0..LastTime, sound : BOOLEAN]

Authenticated == surface \in {"status", "admin", "internal"}

(* "A secret rotation propagates within minutes": a request with a retired
   credential is refused from the end of the cache's TTL on, in spite of two
   caches refreshed apart and of answers read before the change that arrive
   after it; at once where nothing is cached. *)
RetiredRefused ==
    Authenticated /\ outcome.verdict = "accepted" =>
      outcome.began <= until[outcome.presented] + IF surface = "internal" THEN 0 ELSE CacheTtl - 1

(* "Dual-slot acceptance during rotation overlap windows": a request is not
   refused for a credential that was in the previous slot before it began, nor
   for one that has been in the current slot for as long as a cache remembers,
   while the credential is still there, the store answers and hashing succeeds;
   for an operator who lets the caches expire before the next rotation.  It
   promises nothing to callers of the replaced credential between the steps
   that take it out of the current slot and put it into the previous one. *)
OverlapAccepted ==
    Authenticated /\ outcome.verdict = "denied" /\ outcome.sound =>
      \/ outcome.began <= since[outcome.presented]
      \/ /\ outcome.presented = secret["current"]
         /\ outcome.began < since[outcome.presented] + CacheTtl

(* A preflight keeps answering that the KEK is there for as long as the two
   caches behind it live, one after the other, and no longer. *)
PreflightExpires ==
    surface = "preflight" /\ outcome.verdict = "accepted" /\ ~ up =>
      clock <= turned + (CacheTtl - 1) + (OkTtl - 1)
=============================================================================
