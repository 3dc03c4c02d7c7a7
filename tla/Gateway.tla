------------------------------ MODULE Gateway ------------------------------
(***************************************************************************)
(* One isolate of the worker between the arrival of a request and its      *)
(* handler.  Requests are handled at once and interleave at their awaits;  *)
(* they share the thread-local WORKER_CTX, which every arrival overwrites  *)
(* and a refusal takes to emit its audit event in the background, the salt *)
(* the IP addresses are hashed with, and the audit logger.                 *)
(* The verdicts of the rate limiter (module RateLimit) are inputs.         *)
(***************************************************************************)
EXTENDS Routes

CONSTANTS
    Requests,     \* invocations of the worker
    Workloads,    \* what they may be for: functions from them to requests
    Environments  \* values of ENVIRONMENT to explore

ASSUME GatewayAssumption == {"nobody", "none"} \cap Requests = {}

VARIABLES
    environment,
    context,  \* WORKER_CTX: the invocation whose Context it holds
    salt,     \* CACHED_IP_HASH_SALT
    logger,   \* CACHED_LOGGER: the salt it was built with
    req,      \* where each invocation is: its request, answer and salt
    audits,   \* history: how often the refusal of each was handed to the audit
    carrier   \* the invocation whose Context carries that event

isolateVars == <<context, salt, logger, audits, carrier>>
gatewayVars == <<environment, req, isolateVars>>

Nobody == "nobody"
NoSalt == "none"
TheSalt == "ISSUER_IP_HASH_SALT"
Salts == {TheSalt} \cup Requests  \* an ephemeral salt is its maker's

NoAnswer == [status |-> 0, cors |-> "none", cache |-> "unset", allow |-> {}]

(* r: its request; owed: it was refused in a way that is audited. *)
NotArrived(r) == [stage |-> "idle", r |-> r, salt |-> NoSalt, answer |-> NoAnswer, owed |-> FALSE]
Answered(q) == req[q].stage = "answered"

GatewayInit ==
    /\ environment \in Environments
    /\ context = Nobody
    /\ salt = NoSalt
    /\ logger = NoSalt
    /\ \E load \in Workloads : req = [q \in Requests |-> NotArrived(load[q])]
    /\ audits = [q \in Requests |-> 0]
    /\ carrier = [q \in Requests |-> Nobody]

Answer(q, answer) == req' = [req EXCEPT ![q].stage = "answered", ![q].answer = answer]

-----------------------------------------------------------------------------
(* Up to the first await: the context is stored, the body and the names are
   checked. *)
arrive(q) ==
    /\ req[q].stage = "idle"
    /\ LET r == req[q].r
           status == IF body_gate(r) # Pass THEN body_gate(r) ELSE check_prefix_rejection(environment, r)
       IN  IF status = Pass
             THEN req' = [req EXCEPT ![q].stage = "salt"]
             ELSE Answer(q, BareAnswer(r, status))
    /\ context' = q
    /\ UNCHANGED <<environment, salt, logger, audits, carrier>>

(* The cached salt, or the Secrets Store is asked. *)
build_privacy_context(q) ==
    /\ req[q].stage = "salt"
    /\ req' = [req EXCEPT ![q].stage = IF salt = NoSalt THEN "salt_fetch" ELSE "limit",
                          ![q].salt = salt]
    /\ UNCHANGED <<environment, isolateVars>>

(* The stored salt, or without one a random one.  The first to finish fills
   the cache; each goes on with its own. *)
resolve_ip_hash_salt(q) ==
    /\ req[q].stage = "salt_fetch"
    /\ \E resolved \in {TheSalt, q} :
         /\ salt' = IF salt = NoSalt THEN resolved ELSE salt
         /\ req' = [req EXCEPT ![q].stage = "limit", ![q].salt = resolved]
    /\ UNCHANGED <<environment, context, logger, audits, carrier>>

-----------------------------------------------------------------------------
(* Audit of a refusal. *)

(* Mutant: the context stays for the next taker. *)
take_worker_context_Copy == context' = context

take_worker_context == context' = Nobody

(* Mutant: without a context nothing is emitted. *)
NoContext_Skip(q, answer) ==
    /\ req' = [req EXCEPT ![q].stage = "answered", ![q].answer = answer, ![q].owed = TRUE]
    /\ UNCHANGED <<context, audits, carrier>>

(* The event is awaited before the answer. *)
NoContext(q, answer) ==
    /\ req' = [req EXCEPT ![q].stage = "audit", ![q].answer = answer, ![q].owed = TRUE]
    /\ UNCHANGED <<context, audits, carrier>>

(* The event is given to the context, whosever it is, and the answer leaves;
   or there is none and the event goes first. *)
Refuse(q, answer) ==
    \/ /\ context # Nobody
       /\ take_worker_context
       /\ carrier' = [carrier EXCEPT ![q] = context]
       /\ audits' = [audits EXCEPT ![q] = @ + 1]
       /\ req' = [req EXCEPT ![q].stage = "answered", ![q].answer = answer, ![q].owed = TRUE]
    \/ /\ context = Nobody
       /\ NoContext(q, answer)

(* Mutant: the logger hashes with the salt of the request it is built in. *)
LoggerSalt_Own(q) == {req[q].salt}

(* build_logger resolves the salt for itself: the cached one, or else the
   stored or a random one.  Each is long enough, so PrivacyContext::new does not fail. *)
LoggerSalt(q) == IF salt = NoSalt THEN {TheSalt, q} ELSE {salt}

get_or_build_logger(q) ==
    \/ logger # NoSalt /\ UNCHANGED <<logger, salt>>
    \/ /\ logger = NoSalt
       /\ logger' \in LoggerSalt(q)
       /\ salt' = IF salt = NoSalt THEN logger' ELSE salt

(* An event that is awaited is sent, and the answer leaves. *)
audit_log(q) ==
    /\ req[q].stage = "audit"
    /\ get_or_build_logger(q)
    /\ audits' = [audits EXCEPT ![q] = @ + 1]
    /\ req' = [req EXCEPT ![q].stage = "answered"]
    /\ UNCHANGED <<environment, context, carrier>>

(* An event given to a context is sent, or the runtime drops it: the isolate
   was evicted, or the invocation of that context was over. *)
wait_until(q) ==
    /\ carrier[q] # Nobody
    /\ carrier' = [carrier EXCEPT ![q] = Nobody]
    /\ get_or_build_logger(q) \/ UNCHANGED <<logger, salt>>
    /\ UNCHANGED <<environment, context, req, audits>>

-----------------------------------------------------------------------------
(* The limiter, and from its verdict to the next await: the Sec-Fetch gate,
   the nonce of the documentation page, OPTIONS, the method and the router. *)

(* A known path is answered 405 for the methods that are not its own. *)
method_gate(r) ==
    LET allowed == allowed_methods_for_path(environment, r.path)
    IN  IF allowed # {} /\ r.method \notin allowed THEN 405 ELSE Pass

Dispatch(q) ==
    LET r == req[q].r
    IN  \/ /\ fetch_gate(r) # Pass
           /\ req' = [req EXCEPT ![q].stage = "audit", ![q].owed = TRUE,
                                 ![q].answer = BareAnswer(r, fetch_gate(r))]
        \/ /\ fetch_gate(r) = Pass
           /\ r.path = "/v1/docs"  \* generate_csp_nonce fails
           /\ Answer(q, BareAnswer(r, 500))
        \/ /\ fetch_gate(r) = Pass /\ r.method = "OPTIONS"
           /\ Answer(q, add_security_headers(r, 204, options_allow(environment, r.path)))
        \/ /\ fetch_gate(r) = Pass /\ r.method # "OPTIONS" /\ method_gate(r) # Pass
           /\ Answer(q, add_security_headers(r, 405, allowed_methods_for_path(environment, r.path)))
        \/ /\ fetch_gate(r) = Pass /\ r.method # "OPTIONS" /\ method_gate(r) = Pass
           /\ IF router(environment, r.method, r.path)
                THEN req' = [req EXCEPT ![q].stage = "handler"]
                ELSE Answer(q, add_security_headers(r, 404, {}))

(* The limiter has no binding, refuses (as over the limit or out of order), or
   admits. *)
global_ip_limit(q) ==
    /\ req[q].stage = "limit"
    /\ \/ Answer(q, EarlyAnswer(req[q].r, 503)) /\ UNCHANGED <<context, audits, carrier>>
       \/ \E status \in {429, 503} : Refuse(q, EarlyAnswer(req[q].r, status))
       \/ Dispatch(q) /\ UNCHANGED <<context, audits, carrier>>
    /\ UNCHANGED <<environment, salt, logger>>

-----------------------------------------------------------------------------
(* Handlers.  Internal routes are for callers inside only. *)

reject_external_internal_traffic(r) == is_internal_route(r.path) /\ r.external

(* The endpoints that hand the audit of a refusal (a body that does not
   parse, or their own limits) to the context. *)
Offloading == {"/v1/challenge", "/v1/issuance/blind", "/v1/attestation/create"}
RefusalStatus(path) == IF path = "/v1/challenge" THEN {400} ELSE {429, 503}

(* A public handler, reduced to whether it refuses that way: 200 stands for
   all its other answers.  And the refusal of external callers. *)
handle(q) ==
    /\ req[q].stage = "handler"
    /\ LET r == req[q].r
       IN  \/ /\ reject_external_internal_traffic(r)
              /\ Answer(q, add_security_headers(r, 401, {}))
              /\ UNCHANGED <<context, audits, carrier>>
           \/ /\ ~ is_internal_route(r.path)
              /\ Answer(q, add_security_headers(r, 200, {}))
              /\ UNCHANGED <<context, audits, carrier>>
           \/ /\ r.path \in Offloading
              /\ \E status \in RefusalStatus(r.path) : Refuse(q, add_security_headers(r, status, {}))
    /\ UNCHANGED <<environment, salt, logger>>

GatewayNext ==
    \E q \in Requests :
      \/ arrive(q) \/ build_privacy_context(q) \/ resolve_ip_hash_salt(q)
      \/ global_ip_limit(q) \/ handle(q) \/ audit_log(q) \/ wait_until(q)

-----------------------------------------------------------------------------
(* Properties. *)

Statuses == {0, 200, 204, 400, 401, 403, 404, 405, 411, 413, 415, 429, 500, 503}
Answers == [status : Statuses, cors : {"none", "origin", "credentials"},
            cache : {"unset", "no-store", "public", "handler"}, allow : SUBSET Methods]

(* A Context is single-shot: it carries the events of one refusal, although
   any request of the isolate may take it. *)
ContextOnce ==
    \A p, q \in Requests : carrier[p] = carrier[q] /\ carrier[p] # Nobody => p = q

(* "Inline fallback is MANDATORY": when the answer to a refused request has
   left, its event has been sent or handed over, once, whichever request
   took whose context; and no other answer is audited as a refusal. *)
AuditOnce ==
    \A q \in Requests : Answered(q) => audits[q] = IF req[q].owed THEN 1 ELSE 0

(* The audit trail hashes every address with the salt the isolate keeps, also
   when two requests resolved the salt at once with different results. *)
AuditCorrelates == logger \in {NoSalt, salt}

(* For one path, the Allow header of OPTIONS names what the Allow header of a
   405 names and OPTIONS itself; a method that has a handler is never
   answered 405, and OPTIONS names it; in each environment. *)
MethodsAgree ==
    \A p, q \in Requests :
      /\ req[p].answer.status = 204 /\ req[q].answer.status = 405 /\ req[p].r.path = req[q].r.path =>
           req[p].answer.allow = req[q].answer.allow \cup {"OPTIONS"}
      /\ req[p].answer.status = 405 => ~ router(environment, req[p].r.method, req[p].r.path)
      /\ req[p].answer.status = 204 =>
           {m \in Methods : router(environment, m, req[p].r.path)} \subseteq req[p].answer.allow

(* An answer of the limiter carries the same CORS headers as the routed
   answer to the same request would: a browser can read the 429. *)
CorsParity ==
    \A p, q \in Requests :
      req[p].stage = "answered" /\ req[p].answer.status \in {429, 503}
        /\ req[q].stage = "answered" /\ req[q].answer.status \in {200, 204, 405}
        /\ req[p].r.path = req[q].r.path /\ req[p].r.origin = req[q].r.origin =>
          req[p].answer.cors = req[q].answer.cors

(* Nothing but the health, documentation and key set answers may be stored,
   on whichever of the two header paths the answer leaves. *)
SensitiveNotStored ==
    \A q \in Requests : Answered(q) =>
      \/ req[q].answer.cache = "no-store"
      \/ req[q].r.path \in {"/health", "/v1/docs", "/v1/openapi.json", "/v1/jwks.json", "/.well-known/jwks.json"}

(* The headers of the answers: a browser can read what the limiter says, and
   nothing sensitive is stored, whichever gate or handler answers. *)
HeadersAgree == CorsParity /\ SensitiveNotStored
=============================================================================
