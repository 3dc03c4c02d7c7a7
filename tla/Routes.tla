------------------------------- MODULE Routes -------------------------------
(***************************************************************************)
(* The gates every request passes before a handler sees it, as operators   *)
(* on a request: the limits on its body, the rejection of sandbox names in *)
(* production, the Sec-Fetch policy, the method tables, the router, and    *)
(* the CORS and caching headers of the answers.                            *)
(* A request is a record:                                                  *)
(*   method, path; length, json: its Content-Length and Content-Type;      *)
(*   prefixed: a sandbox name occurs in its URL or credentials;            *)
(*   site, mode, dest: its Sec-Fetch headers; origin: its Origin;          *)
(*   external: it carries CF-Connecting-IP.                                *)
(***************************************************************************)
EXTENDS Integers

CONSTANTS
    AllowAny,        \* ALLOWED_ORIGINS has "*"
    ExactOrigins,    \* the origins it names
    WildcardOrigins  \* the origins under one of its https://*. patterns

Methods == {"GET", "POST", "PUT", "PATCH", "DELETE", "HEAD", "OPTIONS"}
Mutating == {"POST", "PUT", "PATCH"}
Absent == "absent"

GetPaths == {"/health", "/health/detailed", "/metrics", "/v1/openapi.json", "/v1/docs",
             "/v1/jwks.json", "/.well-known/jwks.json", "/v1/admin/keys/health",
             "/_internal/version", "/_internal/test-fixtures"}
PostPaths == {"/v1/challenge", "/v1/issuance/blind", "/v1/attestation/create",
              "/v1/admin/keys/rotate", "/v1/admin/attestation-keys/rotate",
              "/_internal/replay-saved-pre-rotation-token"}
SandboxPath == "/v1/register-test-issuer"
FixtureClass == {"/_internal/test-fixtures/attestations", "/_internal/test-fixtures/other"}
BelowFixtures == FixtureClass \cup {"/_internal/test-fixtures/a/b"}
Unknown == {"/v1/unknown", "/_internal/unknown"}
Paths == GetPaths \cup PostPaths \cup {SandboxPath} \cup BelowFixtures \cup Unknown

is_internal_route(path) ==
    path \in BelowFixtures \cup {"/_internal/version", "/_internal/test-fixtures", "/_internal/unknown",
                                 "/_internal/replay-saved-pre-rotation-token"}
is_docs_route(path) == path \in {"/v1/docs", "/v1/openapi.json"}
StartsWithV1(path) ==
    ~ is_internal_route(path) /\ path \notin {"/health", "/health/detailed", "/metrics", "/.well-known/jwks.json"}

-----------------------------------------------------------------------------
(* The gates, each with the status it answers, or 0 to let the request on. *)
Pass == 0

(* Only a request with a body must declare its length and be JSON. *)
body_gate(r) ==
    CASE r.method \notin Mutating -> Pass
      [] r.method \in Mutating /\ r.length = Absent -> 411
      [] r.method \in Mutating /\ r.length = "malformed" -> 400
      [] r.method \in Mutating /\ r.length = "large" -> 413
      [] r.method \in Mutating /\ r.length = "small" /\ ~ r.json -> 415
      [] OTHER -> Pass

(* Sandbox names are turned away everywhere but in the sandbox. *)
check_prefix_rejection(environment, r) ==
    IF environment # "sandbox" /\ r.prefixed THEN 401 ELSE Pass

(* A missing header is tolerated by the standard policy only. *)
validate_sec_fetch_site(r, strict) ==
    r.site \in {"same-origin", "same-site", "none"} \cup (IF strict THEN {} ELSE {Absent})

validate_sec_fetch_mode(r, strict) ==
    r.mode \in {"cors", "same-origin"} \cup (IF strict THEN {} ELSE {Absent})

validate_sec_fetch_dest(r, strict) ==
    r.dest \in {"empty"} \cup (IF strict THEN {} ELSE {"document", Absent})

validate_fetch_metadata(r, strict) ==
    /\ validate_sec_fetch_site(r, strict)
    /\ validate_sec_fetch_mode(r, strict)
    /\ validate_sec_fetch_dest(r, strict)

(* The documentation is exempt; internal routes are strict, and hidden. *)
fetch_gate(r) ==
    CASE is_docs_route(r.path) \/ validate_fetch_metadata(r, is_internal_route(r.path)) -> Pass
      [] is_internal_route(r.path) -> 404
      [] OTHER -> 403

-----------------------------------------------------------------------------
(* Three tables of methods: the Allow header of OPTIONS, the check that
   answers 405, and the router itself. *)

options_allow(environment, path) ==
    CASE path \in GetPaths -> {"GET", "OPTIONS"}
      [] path \in PostPaths -> {"POST", "OPTIONS"}
      [] path \in BelowFixtures -> {"DELETE", "OPTIONS"}
      [] path = SandboxPath /\ environment = "sandbox" -> {"POST", "OPTIONS"}
      [] OTHER -> {"OPTIONS"}

allowed_methods_for_path(environment, path) ==
    CASE path \in GetPaths -> {"GET"}
      [] path \in PostPaths -> {"POST"}
      [] path = SandboxPath /\ environment = "sandbox" -> {"POST"}
      [] path \in BelowFixtures -> {"DELETE"}
      [] OTHER -> {}

(* Mutant: the route for credentials is registered in every environment. *)
router_Everywhere(environment, method, path) ==
    \/ method = "GET" /\ path \in GetPaths
    \/ method = "POST" /\ path \in PostPaths \cup {SandboxPath}
    \/ method = "DELETE" /\ path \in FixtureClass

(* Whether a handler is registered; the rest is the catch-all's 404. *)
router(environment, method, path) ==
    \/ method = "GET" /\ path \in GetPaths
    \/ method = "POST" /\ path \in PostPaths
    \/ method = "DELETE" /\ path \in FixtureClass
    \/ method = "POST" /\ path = SandboxPath /\ environment = "sandbox"

-----------------------------------------------------------------------------
(* Headers. *)

matches(origin) == AllowAny \/ origin \in ExactOrigins \cup WildcardOrigins

(* Credentials are never allowed by a wildcard. *)
allows_credentials(origin) == ~ AllowAny /\ origin \in ExactOrigins

CorsOf(origin) ==
    CASE origin = Absent \/ ~ matches(origin) -> "none"
      [] origin # Absent /\ matches(origin) /\ allows_credentials(origin) -> "credentials"
      [] OTHER -> "origin"

(* Mutant: the early answers forget the key set's well-known path. *)
add_cors_headers_early_NoJwks(r) == IF StartsWithV1(r.path) THEN CorsOf(r.origin) ELSE "none"

(* The CORS headers of answers given before routing. *)
add_cors_headers_early(r) ==
    IF ~ is_internal_route(r.path) /\ (StartsWithV1(r.path) \/ r.path = "/.well-known/jwks.json")
      THEN CorsOf(r.origin) ELSE "none"

(* Whether an early answer may be stored: errors say no themselves, the
   limiter's 429 leaves it to the path. *)
add_base_security_headers(r, status) ==
    IF status = 429 /\ r.path \in {"/health", "/v1/jwks.json", "/.well-known/jwks.json", "/v1/docs", "/v1/openapi.json"}
      THEN "unset" ELSE "no-store"

(* Whether a routed answer may be stored; the key set's handler decides. *)
cache_control(r) ==
    CASE r.path \in {"/health", "/v1/docs", "/v1/openapi.json"} -> "public"
      [] r.path \in {"/v1/jwks.json", "/.well-known/jwks.json"} -> "handler"
      [] OTHER -> "no-store"

(* The answers: early without CORS, early with it, and routed. *)
BareAnswer(r, status) ==
    [status |-> status, cors |-> "none", cache |-> add_base_security_headers(r, status), allow |-> {}]
EarlyAnswer(r, status) ==
    [status |-> status, cors |-> add_cors_headers_early(r), cache |-> add_base_security_headers(r, status), allow |-> {}]
add_security_headers(r, status, allow) ==
    [status |-> status, cache |-> cache_control(r), allow |-> allow,
     cors |-> IF ~ is_internal_route(r.path) /\ (StartsWithV1(r.path) \/ r.path = "/.well-known/jwks.json")
                THEN CorsOf(r.origin) ELSE "none"]
=============================================================================
