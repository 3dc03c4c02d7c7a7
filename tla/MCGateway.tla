------------------------------ MODULE MCGateway ------------------------------
EXTENDS InternalAdmin, TLC

CONSTANTS q1, q2, n1, n2

MCRequests == {q1, q2}
MCExact == {"https://exact.example"}
MCWildcard == {"https://a.wild.example"}
MCFixtures == 1..2

Plain == [method |-> "POST", path |-> "/v1/challenge", length |-> "small", json |-> TRUE,
          prefixed |-> FALSE, site |-> "same-origin", mode |-> "cors", dest |-> "empty",
          origin |-> Absent, external |-> TRUE, token |-> "missing", nonce |-> Absent, body |-> TRUE]

(* Every method on every path. *)
Tables == {[Plain EXCEPT !.method = m, !.path = p] : m \in Methods, p \in Paths}
(* A request that fails one of the gates. *)
Flawed ==
    {[Plain EXCEPT !.length = l] : l \in {Absent, "malformed", "large"}}
    \cup {[Plain EXCEPT !.json = FALSE], [Plain EXCEPT !.prefixed = TRUE]}
    \cup {[Plain EXCEPT !.path = p, !.method = "GET", !.site = s, !.mode = "cors", !.dest = d] :
            p \in {"/health", "/v1/docs", "/_internal/version"}, s \in {Absent, "cross-site"},
            d \in {Absent, "document", "iframe"}}
    \cup {[Plain EXCEPT !.mode = "navigate"], [Plain EXCEPT !.mode = Absent]}
(* Browsers of several origins. *)
Browsers ==
    {[Plain EXCEPT !.path = p[1], !.method = p[2], !.origin = o] :
       p \in {<<"/v1/challenge", "POST">>, <<"/.well-known/jwks.json", "GET">>, <<"/health", "GET">>},
       o \in MCExact \cup MCWildcard \cup {"https://other.example"}}
(* Callers inside. *)
CleanUp(n) == [Plain EXCEPT !.path = Attestations, !.method = "DELETE", !.external = FALSE,
                            !.token = "valid", !.nonce = n]
Admin ==
    {[Plain EXCEPT !.path = p[1], !.method = p[2], !.external = FALSE, !.token = t[1], !.nonce = t[2]] :
       p \in {<<Replay, "POST">>, <<Manifest, "GET">>, <<Attestations, "DELETE">>,
              <<"/_internal/test-fixtures/other", "DELETE">>, <<Version, "GET">>},
       t \in {<<"valid", n1>>, <<"valid", Absent>>, <<"invalid", n1>>, <<"missing", n1>>}}
    \cup {CleanUp(n1), CleanUp(n2)}
    \cup {[Plain EXCEPT !.path = Replay, !.external = FALSE, !.token = "valid", !.nonce = n1, !.body = FALSE]}

Pair(r, s) == q1 :> r @@ q2 :> s

MCWorkloads ==
    {Pair(r, s) : r \in Tables \cup Flawed, s \in {Plain}}
    \cup {Pair(r, [Plain EXCEPT !.method = "OPTIONS", !.path = r.path]) : r \in Tables}
    \cup {Pair(r, s) : r, s \in Browsers}
    \cup {Pair(r, CleanUp(n1)) : r \in Admin}
==============================================================================
