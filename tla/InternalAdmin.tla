---------------------------- MODULE InternalAdmin ----------------------------
(***************************************************************************)
(* The internal endpoints behind the gateway: the version report, and the  *)
(* drill's administration (replay probe, fixture manifest and clean-up),   *)
(* which share an hourly cap, the brute-force lockout of role "admin" and  *)
(* the single-use nonces of NonceDO.  Callers inside carry no address, so  *)
(* all of them are one "unknown" caller with one lockout.                  *)
(* A request has more fields here: token, nonce, and body (it parses).     *)
(* The lockout's own races are module Lockout, the nonce's module NonceDO. *)
(***************************************************************************)
EXTENDS Gateway, FiniteSetsExt

CONSTANTS
    Nonces,       \* values of X-Nonce
    Cap,          \* ADMIN_RL_LIMIT_PER_HOUR, per role tag
    MaxFailures,  \* MAX_ADMIN_FAILED_ATTEMPTS
    Fixtures,     \* keys under ATTESTATIONS_TEST_PREFIX: numbers, as KV lists them in order
    PageSize,     \* keys KV lists at a time
    NonceTtl,     \* NONCE_TTL_SECONDS
    MaxTime       \* bound: last second considered

ASSUME AdminAssumption ==
    /\ Cap \in Nat /\ MaxFailures \in Nat \ {0}
    /\ Fixtures \subseteq Nat /\ IsFiniteSet(Fixtures) /\ PageSize \in Nat \ {0}
    /\ NonceTtl \in Nat /\ MaxTime \in Nat
    /\ \A load \in Workloads : \A q \in Requests :
         load[q].path \in Paths /\ load[q].nonce \in Nonces \cup {Absent}

VARIABLES
    count,     \* ISSUER_RATE_LIMITS: this hour's counter of each role tag
    failures,  \* failed attempts of role "admin"
    locked,    \* whether it is locked out
    now,       \* seconds since a nonce was first consumed
    consumed,  \* NonceDO: <<nonce, the request it was consumed for, when>>; the old ones are history
    fixtures,  \* ISSUER_SESSIONS: the test fixtures present
    adm        \* the local variables of the handlers

adminVars == <<now, count, failures, locked, consumed, fixtures, adm>>
vars == <<gatewayVars, adminVars>>

Version == "/_internal/version"
Replay == "/_internal/replay-saved-pre-rotation-token"
Manifest == "/_internal/test-fixtures"
Attestations == "/_internal/test-fixtures/attestations"
RoleTags == FixtureClass \cup {Replay, Manifest}  \* a class is part of its tag

(* read: the counter as read; served: authentication is over; page: the keys
   listed and not yet deleted, complete: nothing is listed after them; passed:
   the keys before the cursor; due: the fixtures there at the first listing and not seeded
   since. *)
NoLocals == [read |-> 0, served |-> FALSE, page |-> {}, complete |-> FALSE, passed |-> {}, due |-> {}]

Init ==
    /\ GatewayInit
    /\ count = [t \in RoleTags |-> 0]
    /\ failures \in 0..(MaxFailures - 1)
    /\ locked = FALSE
    /\ now = 0
    /\ consumed = {}
    /\ fixtures = Fixtures
    /\ adm = [q \in Requests |-> NoLocals]

Path(q) == req[q].r.path
At(q, stage) == req[q].stage = stage
Go(q, stage) == req' = [req EXCEPT ![q].stage = stage]
Reply(q, status) == Answer(q, add_security_headers(req[q].r, status, {}))

(* The audit event of a refusal is awaited before its answer. *)
AuditThenReply(q, status) ==
    req' = [req EXCEPT ![q].stage = "audit", ![q].owed = TRUE,
                       ![q].answer = add_security_headers(req[q].r, status, {})]

-----------------------------------------------------------------------------
(* The version report has its own authentication: no cap, lockout or nonce. *)
handle_internal_version(q) ==
    /\ At(q, "handler") /\ Path(q) = Version /\ ~ req[q].r.external
    /\ LET token == req[q].r.token
       IN  \/ token = "missing" /\ Reply(q, 401)
           \/ token # "missing" /\ Reply(q, 503)  \* the Secrets Store fails
           \/ token = "invalid" /\ Reply(q, 401)
           \/ token = "valid" /\ Reply(q, 200)
    /\ UNCHANGED <<environment, isolateVars, adminVars>>

-----------------------------------------------------------------------------
(* wrap_admin_handler: the cap, then the authentication. *)

OverCap(q) == count[Path(q)] >= Cap

(* Without a binding 503; a failed read is refused like an exceeded cap. *)
admin_rate_limit_check(q) ==
    /\ At(q, "handler") /\ Path(q) \in RoleTags /\ ~ req[q].r.external
    /\ \/ Reply(q, 503) /\ UNCHANGED adm
       \/ Reply(q, 429) /\ UNCHANGED adm
       \/ /\ ~ OverCap(q)
          /\ adm' = [adm EXCEPT ![q].read = count[Path(q)]]
          /\ Go(q, "cap_put")
    /\ UNCHANGED <<environment, isolateVars, now, count, failures, locked, consumed, fixtures>>

(* The counter read is written back increased, unless the write fails. *)
cap_put(q) ==
    /\ At(q, "cap_put")
    /\ count' \in {count, [count EXCEPT ![Path(q)] = adm[q].read + 1]}
    /\ Go(q, "lockout")
    /\ UNCHANGED <<environment, isolateVars, now, failures, locked, consumed, fixtures, adm>>

is_locked_out(q) ==
    /\ At(q, "lockout")
    /\ \/ Reply(q, 503)
       \/ locked /\ AuditThenReply(q, 403)
       \/ ~ locked /\ Go(q, "credential")
    /\ UNCHANGED <<environment, isolateVars, adminVars>>

(* Mutant: the nonce is spent before the token is compared. *)
credential_NonceFirst(q) ==
    LET r == req[q].r
    IN  \/ r.token = "missing" /\ Go(q, "failure")
        \/ r.token # "missing" /\ r.nonce # Absent /\ Go(q, "nonce")
        \/ r.token # "missing" /\ r.nonce = Absent /\ Go(q, "failure")

(* A token that is missing or matches neither slot, and a nonce that is
   missing after a valid one, count as a failed attempt. *)
credential(q) ==
    LET r == req[q].r
    IN  \/ r.token = "missing" /\ Go(q, "failure")
        \/ r.token # "missing" /\ Reply(q, 503)  \* the Secrets Store fails
        \/ r.token = "invalid" /\ Go(q, "failure")
        \/ r.token = "valid" /\ r.nonce = Absent /\ Go(q, "failure")
        \/ r.token = "valid" /\ r.nonce # Absent /\ Go(q, "nonce")

authenticate_admin_endpoint(q) ==
    /\ At(q, "credential")
    /\ credential(q)
    /\ UNCHANGED <<environment, isolateVars, adminVars>>

(* The attempt is recorded, and at the limit the role locked; either may fail
   silently.  Only a missing nonce is audited. *)
record_admin_auth_failure(q) ==
    /\ At(q, "failure")
    /\ \/ UNCHANGED <<failures, locked>>
       \/ /\ failures' = IF failures < MaxFailures THEN failures + 1 ELSE failures
          /\ \/ UNCHANGED locked
             \/ failures + 1 >= MaxFailures /\ locked' = TRUE
    /\ IF req[q].r.token = "valid" THEN AuditThenReply(q, 401) ELSE Reply(q, 401)
    /\ UNCHANGED <<environment, isolateVars, now, count, consumed, fixtures, adm>>

(* Mutant: the nonce is not remembered. *)
Consume_Forgets(q) == consumed' = consumed

Consume(q) == consumed' = consumed \cup {<<req[q].r.nonce, q, now>>}

(* A nonce counts as used up to and including the second its record expires;
   nothing else limits the age of a request. *)
Spent(nonce) == \E c \in consumed : c[1] = nonce /\ c[3] + NonceTtl >= now

(* Consumed, used before, or no answer from NonceDO, whatever it did. *)
validate_and_consume_nonce(q) ==
    /\ At(q, "nonce")
    /\ LET nonce == req[q].r.nonce
       IN  \/ ~ Spent(nonce) /\ Consume(q) /\ Go(q, "clear")
           \/ Spent(nonce) /\ UNCHANGED consumed /\ AuditThenReply(q, 401)
           \/ UNCHANGED consumed /\ Reply(q, 503)
           \/ ~ Spent(nonce) /\ Consume(q) /\ Reply(q, 503)
    /\ UNCHANGED <<environment, isolateVars, now, count, failures, locked, fixtures, adm>>

clear_auth_failures(q) ==
    /\ At(q, "clear")
    /\ failures' \in {0, failures}
    /\ adm' = [adm EXCEPT ![q].served = TRUE]
    /\ Go(q, "serve")
    /\ UNCHANGED <<environment, isolateVars, now, count, locked, consumed, fixtures>>

-----------------------------------------------------------------------------
(* The operations. *)

replay_pre_rotation_token(q) ==
    /\ At(q, "serve") /\ Path(q) = Replay
    /\ \/ ~ req[q].r.body /\ Reply(q, 400)
       \/ req[q].r.body /\ Reply(q, 503)  \* the Secrets Store fails
       \/ req[q].r.body /\ Reply(q, 200)
    /\ UNCHANGED <<environment, isolateVars, adminVars>>

test_fixtures_manifest(q) ==
    /\ At(q, "serve") /\ Path(q) = Manifest
    /\ Reply(q, 200)
    /\ UNCHANGED <<environment, isolateVars, adminVars>>

(* One class is known; its fixtures are deleted page by page. *)
delete_test_fixtures(q) ==
    /\ At(q, "serve") /\ Path(q) \in FixtureClass
    /\ \/ Path(q) # Attestations /\ Reply(q, 400) /\ UNCHANGED adm
       \/ Path(q) = Attestations /\ Reply(q, 503) /\ UNCHANGED adm
       \/ /\ Path(q) = Attestations
          /\ adm' = [adm EXCEPT ![q].due = fixtures]
          /\ Go(q, "list")
    /\ UNCHANGED <<environment, isolateVars, now, count, failures, locked, consumed, fixtures>>

(* The keys after the cursor, at most a page of them. *)
Rest(passed) == {k \in fixtures : \A j \in passed : k > j}
Listed(passed) ==
    {k \in Rest(passed) : Cardinality({j \in Rest(passed) : j < k}) < PageSize}

(* KV says whether a listing is complete, and gives a cursor when it is not. *)
list_complete(passed) == Listed(passed) = Rest(passed)
HasCursor(passed) == ~ list_complete(passed)

(* Mutant: only the first page is taken. *)
Complete_FirstPage(q) == TRUE

(* The loop ends, in success, after a complete listing or one without a cursor. *)
Complete(q) == list_complete(adm[q].passed) \/ ~ HasCursor(adm[q].passed)

list(q) ==
    /\ At(q, "list")
    /\ \/ Reply(q, 503) /\ UNCHANGED adm
       \/ LET page == Listed(adm[q].passed)
          IN  /\ adm' = [adm EXCEPT ![q].page = page, ![q].complete = Complete(q),
                                    ![q].passed = @ \cup page]
              /\ Go(q, "delete")
    /\ UNCHANGED <<environment, isolateVars, now, count, failures, locked, consumed, fixtures>>

(* The keys of the page one by one; one failure ends the operation. *)
clear_attestations_test_prefix(q) ==
    /\ At(q, "delete")
    /\ LET page == adm[q].page
       IN  \/ /\ page # {}
              /\ fixtures' = fixtures \ {Min(page)}
              /\ adm' = [adm EXCEPT ![q].page = page \ {Min(page)}]
              /\ UNCHANGED req
           \/ page # {} /\ Reply(q, 503) /\ UNCHANGED <<fixtures, adm>>
           \/ page = {} /\ adm[q].complete /\ Reply(q, 200) /\ UNCHANGED <<fixtures, adm>>
           \/ page = {} /\ ~ adm[q].complete /\ Go(q, "list") /\ UNCHANGED <<fixtures, adm>>
    /\ UNCHANGED <<environment, isolateVars, now, count, failures, locked, consumed>>

(* A second passes, which matters once a nonce has been consumed. *)
Tick ==
    /\ consumed # {} /\ now < MaxTime
    /\ now' = now + 1
    /\ UNCHANGED <<gatewayVars, count, failures, locked, consumed, fixtures, adm>>

(* The drill seeds a fixture. *)
seed(k) ==
    /\ k \notin fixtures
    /\ fixtures' = fixtures \cup {k}
    /\ adm' = [q \in Requests |-> [adm[q] EXCEPT !.due = @ \ {k}]]
    /\ UNCHANGED <<gatewayVars, now, count, failures, locked, consumed>>

-----------------------------------------------------------------------------
AdminNext ==
    \/ \E q \in Requests :
         \/ handle_internal_version(q) \/ admin_rate_limit_check(q) \/ cap_put(q) \/ is_locked_out(q)
         \/ authenticate_admin_endpoint(q) \/ record_admin_auth_failure(q) \/ validate_and_consume_nonce(q)
         \/ clear_auth_failures(q) \/ replay_pre_rotation_token(q) \/ test_fixtures_manifest(q)
         \/ delete_test_fixtures(q) \/ list(q) \/ clear_attestations_test_prefix(q)
    \/ \E k \in Fixtures : seed(k)
    \/ Tick

Next == (GatewayNext /\ UNCHANGED adminVars) \/ AdminNext

Spec == Init /\ [][Next]_vars

-----------------------------------------------------------------------------
(* Properties. *)

Stages == {"idle", "salt", "salt_fetch", "limit", "audit", "answered", "handler", "cap_put", "lockout",
           "credential", "failure", "nonce", "clear", "serve", "list", "delete"}

(* Type correctness: among others, counts stay within the cap and the
   threshold, and an event is handed to the audit at most once. *)
TypeOK ==
    /\ environment \in Environments
    /\ context \in Requests \cup {Nobody}
    /\ salt \in Salts \cup {NoSalt} /\ logger \in Salts \cup {NoSalt}
    /\ \A q \in Requests :
         /\ req[q].stage \in Stages /\ req[q].r.path \in Paths
         /\ req[q].salt \in Salts \cup {NoSalt}
         /\ req[q].answer \in Answers
         /\ audits[q] \in 0..1 /\ carrier[q] \in Requests \cup {Nobody}
         /\ adm[q].page \cup adm[q].due \subseteq Fixtures /\ adm[q].read \in 0..Cap
    /\ count \in [RoleTags -> 0..Cap]
    /\ failures \in 0..MaxFailures /\ locked \in BOOLEAN
    /\ now \in 0..MaxTime /\ consumed \subseteq Nonces \X Requests \X (0..now)
    /\ fixtures \subseteq Fixtures

Apart(s, t) == s > t + NonceTtl \/ t > s + NonceTtl

(* "A captured request cannot replay within the dedupe TTL": two administrative
   operations with one nonce were authorised more than NONCE_TTL_SECONDS
   apart, also when the same request is sent twice at the same time or
   retried after a lost answer. *)
OneServicePerNonce ==
    \A p, q \in Requests :
      adm[p].served /\ adm[q].served /\ req[p].r.nonce = req[q].r.nonce /\ p # q =>
        \E c, d \in consumed : c[2] = p /\ d[2] = q /\ Apart(c[3], d[3])

(* A nonce is spent only by a caller inside that holds the service token: a
   request that fails any gate before cannot burn the nonce of another. *)
NonceSpentByHolder ==
    \A c \in consumed :
      LET r == req[c[2]].r
      IN  r.token = "valid" /\ ~ r.external /\ r.path \in RoleTags /\ r.method = (IF r.path = Replay THEN "POST"
            ELSE IF r.path = Manifest THEN "GET" ELSE "DELETE")

(* When the clean-up reports success, no fixture is left that was there when
   it began and has not been seeded since, whatever pages it came in, and
   although another clean-up and the seeding interleave with it. *)
FixturesCleared ==
    \A q \in Requests :
      Answered(q) /\ Path(q) = Attestations /\ req[q].answer.status = 200 =>
        adm[q].due \cap fixtures = {}
=============================================================================
