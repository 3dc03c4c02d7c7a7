--------------------------- MODULE GatewayProofs ---------------------------
(***************************************************************************)
(* Safety of the gateway and of the internal administration behind it, for *)
(* any number of requests of any kind.                                     *)
(***************************************************************************)
EXTENDS InternalAdmin, FiniteSetTheorems, TLAPS

AllR == UNION {{load[q] : q \in Requests} : load \in Workloads}
ReqRec == [stage : Stages, r : AllR, salt : Salts \cup {NoSalt}, answer : Answers, owed : BOOLEAN]
AdmRec == [read : 0..Cap, served : BOOLEAN, page : SUBSET Fixtures, complete : BOOLEAN,
           passed : SUBSET Fixtures, due : SUBSET Fixtures]

GTypes ==
    /\ environment \in Environments
    /\ context \in Requests \cup {Nobody}
    /\ carrier \in [Requests -> Requests \cup {Nobody}]
    /\ salt \in Salts \cup {NoSalt} /\ logger \in Salts \cup {NoSalt}
    /\ req \in [Requests -> ReqRec]
    /\ adm \in [Requests -> AdmRec]
    /\ audits \in [Requests -> 0..1]
    /\ count \in [RoleTags -> 0..Cap]
    /\ failures \in 0..MaxFailures /\ locked \in BOOLEAN
    /\ now \in 0..MaxTime /\ consumed \subseteq Nonces \X Requests \X (0..now)
    /\ fixtures \subseteq Fixtures

-----------------------------------------------------------------------------
(* What holds in environment e of one request x, its handler's variables y, and
   the number n of its audit events, with C consumed and the fixtures F present. *)

AdminStages == {"cap_put", "lockout", "credential", "failure", "nonce", "clear", "serve", "list", "delete"}
Held == {"nonce", "clear", "serve", "list", "delete"}
Storable == {"/health", "/v1/docs", "/v1/openapi.json", "/v1/jwks.json", "/.well-known/jwks.json"}

(* An answer to r that may leave. *)
GoodAnswer(e, r, a) ==
    /\ a.status # 0
    /\ a.cache = "no-store" \/ r.path \in Storable
    /\ a.status \in {200, 204, 405, 429, 503} => a.cors = add_cors_headers_early(r)
    /\ a.status = 204 => a.allow = options_allow(e, r.path)
    /\ a.status = 405 => /\ a.allow = allowed_methods_for_path(e, r.path)
                         /\ ~ router(e, r.method, r.path)

AnswerSafe(e, x) ==
    IF x.stage \in {"audit", "answered"} THEN GoodAnswer(e, x.r, x.answer) ELSE x.answer = NoAnswer

AuditSafe(x, n) ==
    /\ x.stage = "audit" => x.owed /\ n = 0 /\ x.answer.status # 200
    /\ x.stage = "answered" => n = IF x.owed THEN 1 ELSE 0
    /\ x.stage \notin {"audit", "answered"} => ~ x.owed /\ n = 0

RouteSafe(e, x) ==
    /\ x.stage \in AdminStages \cup {"handler"} => router(e, x.r.method, x.r.path)
    /\ x.stage \in AdminStages => x.r.path \in RoleTags /\ ~ x.r.external
    /\ x.stage \in Held => x.r.token = "valid"
    /\ x.stage = "nonce" => x.r.nonce # Absent
    /\ x.stage \in {"list", "delete"} => x.r.path = Attestations

ServeSafe(q, x, y, C) ==
    /\ x.stage = "clear" \/ y.served => \E c \in C : c[1] = x.r.nonce /\ c[2] = q
    /\ x.stage = "cap_put" => y.read < Cap

RestOf(F, passed) == {k \in F : \A j \in passed : k > j}

(* The clean-up: what is due lies ahead of the cursor or on the page. *)
ClearSafe(x, y, F) ==
    /\ x.stage \notin {"list", "delete", "answered"} => y.passed = {}
    /\ x.stage = "list" => y.due \cap F \subseteq RestOf(F, y.passed)
    /\ x.stage = "delete" => /\ y.due \cap F \subseteq y.page \cup RestOf(F, y.passed)
                             /\ y.complete => y.due \cap F \subseteq y.page
    /\ x.stage = "answered" /\ x.r.path = Attestations /\ x.answer.status = 200 => y.due \cap F = {}

Safe(e, q, x, y, n, C, F) ==
    AnswerSafe(e, x) /\ AuditSafe(x, n) /\ RouteSafe(e, x) /\ ServeSafe(q, x, y, C) /\ ClearSafe(x, y, F)

AllSafe == \A q \in Requests : Safe(environment, q, req[q], adm[q], audits[q], consumed, fixtures)

(* A context that is stored or carries an event belongs to a request that has
   arrived, and the one stored carries nothing. *)
ContextInv ==
    /\ context # Nobody => req[context].stage # "idle"
    /\ \A p \in Requests : carrier[p] # Nobody => req[carrier[p]].stage # "idle" /\ carrier[p] # context
    /\ ContextOnce

(* A nonce was consumed for one request in every TTL. *)
ConsumedInv ==
    /\ \A c, d \in consumed : c[1] = d[1] => c = d \/ Apart(c[3], d[3])
    /\ NonceSpentByHolder

GInv == GTypes /\ AllSafe /\ ContextInv /\ ConsumedInv /\ AuditCorrelates

-----------------------------------------------------------------------------
(* The forms a step gives to the record of its request. *)

LEMMA NobodyNot == Nobody \notin Requests /\ NoSalt \notin Requests /\ NoSalt \notin Salts
  BY GatewayAssumption DEF Nobody, NoSalt, Salts, TheSalt

LEMMA AnswerForm ==
    ASSUME req \in [Requests -> ReqRec], NEW q \in Requests, NEW a \in Answers, Answer(q, a)
    PROVE  \E x \in ReqRec : /\ req' = [req EXCEPT ![q] = x] /\ x.stage = "answered" /\ x.answer = a
                             /\ x.r = req[q].r /\ x.owed = req[q].owed
  <1> DEFINE x == [req[q] EXCEPT !.stage = "answered", !.answer = a]
  <1>1. req[q] \in ReqRec
    OBVIOUS
  <1>2. x \in ReqRec /\ x.stage = "answered" /\ x.answer = a /\ x.r = req[q].r /\ x.owed = req[q].owed
    BY <1>1 DEF ReqRec, Stages
  <1>3. req' = [req EXCEPT ![q] = x]
    BY <1>1 DEF Answer, ReqRec
  <1> QED
    BY <1>2, <1>3

(* Only the stage, and the salt, of q change. *)
GoesTo(q, s) ==
    \E x \in ReqRec : /\ req' = [req EXCEPT ![q] = x] /\ x.stage = s /\ x.answer = req[q].answer
                      /\ x.r = req[q].r /\ x.owed = req[q].owed

LEMMA GoForm ==
    ASSUME req \in [Requests -> ReqRec], NEW q \in Requests, NEW s \in Stages,
           req' = [req EXCEPT ![q].stage = s]
    PROVE  GoesTo(q, s)
  <1> DEFINE x == [req[q] EXCEPT !.stage = s]
  <1>1. req[q] \in ReqRec
    OBVIOUS
  <1>2. x \in ReqRec /\ x.stage = s /\ x.answer = req[q].answer /\ x.r = req[q].r /\ x.owed = req[q].owed
    BY <1>1 DEF ReqRec
  <1>3. req' = [req EXCEPT ![q] = x]
    OBVIOUS
  <1> QED
    BY <1>2, <1>3 DEF GoesTo

LEMMA SaltForm ==
    ASSUME req \in [Requests -> ReqRec], NEW q \in Requests, NEW s \in Stages, NEW v \in Salts \cup {NoSalt},
           req' = [req EXCEPT ![q].stage = s, ![q].salt = v]
    PROVE  GoesTo(q, s)
  <1> DEFINE x == [req[q] EXCEPT !.stage = s, !.salt = v]
  <1>1. req[q] \in ReqRec
    OBVIOUS
  <1>2. x \in ReqRec /\ x.stage = s /\ x.answer = req[q].answer /\ x.r = req[q].r /\ x.owed = req[q].owed
    BY <1>1 DEF ReqRec
  <1>3. req' = [req EXCEPT ![q] = x]
    BY <1>1 DEF ReqRec
  <1> QED
    BY <1>2, <1>3 DEF GoesTo

-----------------------------------------------------------------------------
(* Answers. *)

LEMMA CorsTypes ==
    \A r, status :
           /\ add_cors_headers_early(r) \in {"none", "origin", "credentials"}
           /\ add_base_security_headers(r, status) \in {"unset", "no-store"}
           /\ add_base_security_headers(r, status) = "no-store" \/ r.path \in Storable
           /\ cache_control(r) \in {"public", "handler", "no-store"}
           /\ cache_control(r) = "no-store" \/ r.path \in Storable
  BY DEF add_cors_headers_early, CorsOf, add_base_security_headers, cache_control, Storable

LEMMA MethodTypes ==
    \A e, path : options_allow(e, path) \subseteq Methods /\ allowed_methods_for_path(e, path) \subseteq Methods
  BY DEF options_allow, allowed_methods_for_path, Methods

LEMMA RoutedAnswer ==
    ASSUME NEW r, NEW status \in {200, 204, 400, 401, 403, 404, 405, 429, 503}, NEW allow \in SUBSET Methods,
           status = 204 => allow = options_allow(environment, r.path),
           status = 405 => /\ allow = allowed_methods_for_path(environment, r.path)
                           /\ ~ router(environment, r.method, r.path)
    PROVE  LET a == add_security_headers(r, status, allow)
           IN  a \in Answers /\ a.status = status /\ GoodAnswer(environment, r, a)
  <1> DEFINE a == add_security_headers(r, status, allow)
  <1>1. a = [status |-> status, cache |-> cache_control(r), allow |-> allow, cors |-> add_cors_headers_early(r)]
    BY DEF add_security_headers, add_cors_headers_early
  <1>2. a \in Answers
    BY <1>1, CorsTypes DEF Answers, Statuses
  <1>3. a.status = status /\ a.cache = cache_control(r) /\ a.allow = allow /\ a.cors = add_cors_headers_early(r)
    BY <1>1
  <1> HIDE DEF a
  <1>4. GoodAnswer(environment, r, a)
    BY <1>3, CorsTypes DEF GoodAnswer
  <1> QED
    BY <1>2, <1>3, <1>4 DEF a

LEMMA PlainAnswer ==
    ASSUME NEW r, NEW status \in {200, 400, 401, 403, 404, 429, 503}
    PROVE  LET a == add_security_headers(r, status, {})
           IN  a \in Answers /\ a.status = status /\ GoodAnswer(environment, r, a)
  <1> DEFINE a == add_security_headers(r, status, {})
  <1>1. a = [status |-> status, cache |-> cache_control(r), allow |-> {}, cors |-> add_cors_headers_early(r)]
    BY DEF add_security_headers, add_cors_headers_early
  <1>2. a \in Answers
    BY <1>1, CorsTypes DEF Answers, Statuses
  <1>3. a.status = status /\ a.cache = cache_control(r) /\ a.cors = add_cors_headers_early(r)
    BY <1>1
  <1> HIDE DEF a
  <1>4. GoodAnswer(environment, r, a)
    BY <1>3, CorsTypes DEF GoodAnswer
  <1> QED
    BY <1>2, <1>3, <1>4 DEF a

LEMMA BareAnswers ==
    ASSUME NEW r, NEW status \in {400, 401, 403, 404, 411, 413, 415, 500}
    PROVE  LET a == BareAnswer(r, status)
           IN  a \in Answers /\ a.status = status /\ GoodAnswer(environment, r, a)
  <1> DEFINE a == BareAnswer(r, status)
  <1>1. a = [status |-> status, cors |-> "none", cache |-> add_base_security_headers(r, status), allow |-> {}]
    BY DEF BareAnswer
  <1>2. a \in Answers
    BY <1>1, CorsTypes DEF Answers, Statuses
  <1>3. a.status = status /\ a.cache = add_base_security_headers(r, status)
    BY <1>1
  <1> HIDE DEF a
  <1>4. GoodAnswer(environment, r, a)
    BY <1>3, CorsTypes DEF GoodAnswer
  <1> QED
    BY <1>2, <1>3, <1>4 DEF a

LEMMA EarlyAnswers ==
    ASSUME NEW r, NEW status \in {429, 503}
    PROVE  LET a == EarlyAnswer(r, status)
           IN  a \in Answers /\ a.status = status /\ GoodAnswer(environment, r, a)
  <1> DEFINE a == EarlyAnswer(r, status)
  <1>1. a = [status |-> status, cors |-> add_cors_headers_early(r), cache |-> add_base_security_headers(r, status),
             allow |-> {}]
    BY DEF EarlyAnswer
  <1>2. a \in Answers
    BY <1>1, CorsTypes DEF Answers, Statuses
  <1>3. a.status = status /\ a.cache = add_base_security_headers(r, status) /\ a.cors = add_cors_headers_early(r)
    BY <1>1
  <1> HIDE DEF a
  <1>4. GoodAnswer(environment, r, a)
    BY <1>3, CorsTypes DEF GoodAnswer
  <1> QED
    BY <1>2, <1>3, <1>4 DEF a

-----------------------------------------------------------------------------
(* A step of one request. *)

(* What is safe stays so when more nonces are consumed and fixtures deleted. *)
LEMMA SafeMonotone ==
    ASSUME NEW e, NEW q, NEW x, NEW y, NEW n, NEW C, NEW D, C \subseteq D, NEW F, NEW G, G \subseteq F,
           Safe(e, q, x, y, n, C, F)
    PROVE  Safe(e, q, x, y, n, D, G)
  BY DEF Safe, ServeSafe, ClearSafe, RestOf

(* What a step of q has to be. *)
LocalStep(q, x, y, n) ==
    /\ x \in ReqRec /\ y \in AdmRec /\ n \in 0..1
    /\ req' = [req EXCEPT ![q] = x] /\ adm' = [adm EXCEPT ![q] = y] /\ audits' = [audits EXCEPT ![q] = n]
    /\ x.r = req[q].r /\ x.stage # "idle"
    /\ Safe(environment, q, x, y, n, consumed', fixtures')

LEMMA LocalSafe ==
    ASSUME GInv, NEW q \in Requests, NEW x, NEW y, NEW n, LocalStep(q, x, y, n),
           environment' = environment, consumed \subseteq consumed', fixtures' \subseteq fixtures
    PROVE  /\ req' \in [Requests -> ReqRec] /\ adm' \in [Requests -> AdmRec] /\ audits' \in [Requests -> 0..1]
           /\ AllSafe'
           /\ \A p \in Requests : req'[p].r = req[p].r /\ (req[p].stage # "idle" => req'[p].stage # "idle")
  <1>1. req \in [Requests -> ReqRec] /\ adm \in [Requests -> AdmRec] /\ audits \in [Requests -> 0..1]
    BY DEF GInv, GTypes
  <1>2. req' \in [Requests -> ReqRec] /\ adm' \in [Requests -> AdmRec] /\ audits' \in [Requests -> 0..1]
    BY <1>1 DEF LocalStep
  <1>3. \A p \in Requests : p # q => req'[p] = req[p] /\ adm'[p] = adm[p] /\ audits'[p] = audits[p]
    BY <1>1 DEF LocalStep
  <1>4. req'[q] = x /\ adm'[q] = y /\ audits'[q] = n
    BY <1>1 DEF LocalStep
  <1>5. \A p \in Requests : Safe(environment, p, req'[p], adm'[p], audits'[p], consumed', fixtures')
    <2> SUFFICES ASSUME NEW p \in Requests PROVE Safe(environment, p, req'[p], adm'[p], audits'[p], consumed', fixtures')
      OBVIOUS
    <2>1. CASE p = q
      BY <1>4, <2>1 DEF LocalStep
    <2>2. CASE p # q
      <3>1. Safe(environment, p, req[p], adm[p], audits[p], consumed, fixtures)
        BY DEF GInv, AllSafe
      <3> QED
        BY <1>3, <2>2, <3>1, SafeMonotone
    <2> QED
      BY <2>1, <2>2
  <1>6. AllSafe'
    BY <1>5 DEF AllSafe
  <1> QED
    BY <1>2, <1>3, <1>4, <1>6 DEF LocalStep

(* The whole invariant, when the shared parts change in one of the ways they
   do. *)
SharedStep(q) ==
    /\ environment' = environment /\ fixtures' \subseteq fixtures /\ now' = now
    /\ consumed' = consumed \/ (~ Spent(req[q].r.nonce) /\ Consume(q) /\ req[q].stage = "nonce")
    /\ \/ UNCHANGED <<context, carrier>>
       \/ context' = q /\ carrier' = carrier /\ req[q].stage = "idle"
       \/ context # Nobody /\ context' = Nobody /\ carrier' = [carrier EXCEPT ![q] = context]
    /\ salt' = salt \/ (salt = NoSalt /\ salt' \in Salts)
    /\ (logger' = logger /\ (logger = NoSalt \/ salt' = salt)) \/ (logger' = salt' /\ salt' \in Salts \cup {NoSalt})
    /\ count' \in [RoleTags -> 0..Cap] /\ failures' \in 0..MaxFailures /\ locked' \in BOOLEAN

LEMMA StepInductive ==
    ASSUME GInv, NEW q \in Requests, NEW x, NEW y, NEW n, LocalStep(q, x, y, n), SharedStep(q)
    PROVE  GInv'
  <1>0. GTypes /\ req[q] \in ReqRec /\ Safe(environment, q, req[q], adm[q], audits[q], consumed, fixtures)
    BY DEF GInv, GTypes, AllSafe
  <1>1. consumed \subseteq consumed' /\ environment' = environment /\ fixtures' \subseteq fixtures
    BY DEF Consume, SharedStep
  <1>2. /\ req' \in [Requests -> ReqRec] /\ adm' \in [Requests -> AdmRec] /\ audits' \in [Requests -> 0..1]
        /\ AllSafe'
        /\ \A p \in Requests : req'[p].r = req[p].r /\ (req[p].stage # "idle" => req'[p].stage # "idle")
    BY <1>1, LocalSafe
  <1>3. ConsumedInv' /\ now' \in 0..MaxTime /\ consumed' \subseteq Nonces \X Requests \X (0..now')
    <2>1. CASE consumed' = consumed
      <3>1. \A c \in consumed : c[2] \in Requests
        BY <1>0 DEF GTypes
      <3> QED
        BY <1>0, <1>2, <2>1, <3>1 DEF GInv, ConsumedInv, NonceSpentByHolder, GTypes, SharedStep
    <2>2. CASE ~ Spent(req[q].r.nonce) /\ Consume(q) /\ req[q].stage = "nonce"
      <3> DEFINE c == <<req[q].r.nonce, q, now>>
      <3>0. now' = now /\ now \in 0..MaxTime /\ consumed \subseteq Nonces \X Requests \X (0..now)
        BY <1>0 DEF SharedStep, GTypes
      <3>1. consumed' = consumed \cup {c} /\ \A d \in consumed : d[1] = c[1] => Apart(d[3], c[3]) /\ Apart(c[3], d[3])
        <4>1. consumed' = consumed \cup {c}
          BY <2>2 DEF Consume
        <4>2. ASSUME NEW d \in consumed, d[1] = c[1] PROVE Apart(d[3], c[3]) /\ Apart(c[3], d[3])
          <5>1. ~ (d[3] + NonceTtl >= now)
            BY <2>2, <4>2 DEF Spent
          <5>2. d[3] \in 0..now /\ now \in Nat /\ c[3] = now /\ NonceTtl \in Nat
            BY <3>0, AdminAssumption
          <5> QED
            BY <5>1, <5>2 DEF Apart
        <4> QED
          BY <4>1, <4>2
      <3>2. RouteSafe(environment, req[q]) /\ req[q].stage = "nonce"
        BY <1>0, <2>2 DEF Safe
      <3>3. c \in Nonces \X Requests \X (0..now)
        <4>1. req[q].r \in AllR
          BY <1>0 DEF ReqRec
        <4>2. req[q].r.nonce \in Nonces \cup {Absent}
          BY <4>1, AdminAssumption DEF AllR
        <4>3. now \in 0..now
          BY <3>0, AdminAssumption
        <4> QED
          BY <3>2, <4>2, <4>3 DEF RouteSafe
      <3>4. LET r == req[q].r
            IN  r.token = "valid" /\ ~ r.external /\ r.path \in RoleTags /\ router(environment, r.method, r.path)
        BY <3>2 DEF RouteSafe, AdminStages, Held
      <3>5. LET r == req[q].r
            IN  r.method = (IF r.path = Replay THEN "POST" ELSE IF r.path = Manifest THEN "GET" ELSE "DELETE")
        BY <3>4 DEF router, RoleTags, Replay, Manifest, FixtureClass, GetPaths, PostPaths, SandboxPath
      <3>6. \A d \in consumed : d[2] \in Requests
        BY <1>0 DEF GTypes
      <3>7. c[1] = req[q].r.nonce /\ c[2] = q
        OBVIOUS
      <3> HIDE DEF c
      <3>8. NonceSpentByHolder'
        <4> SUFFICES ASSUME NEW d \in consumed'
                     PROVE  LET r == req'[d[2]].r
                            IN  /\ r.token = "valid" /\ ~ r.external /\ r.path \in RoleTags
                                /\ r.method = (IF r.path = Replay THEN "POST"
                                                 ELSE IF r.path = Manifest THEN "GET" ELSE "DELETE")
          BY DEF NonceSpentByHolder
        <4>1. CASE d = c
          BY <1>2, <3>4, <3>5, <3>7, <4>1
        <4>2. CASE d \in consumed
          <5>1. req'[d[2]].r = req[d[2]].r
            BY <1>2, <3>6, <4>2
          <5> QED
            BY <4>2, <5>1 DEF GInv, ConsumedInv, NonceSpentByHolder
        <4> QED
          BY <3>1, <4>1, <4>2
      <3>9. \A d, e \in consumed' : d[1] = e[1] => d = e \/ Apart(d[3], e[3])
        BY <3>1 DEF GInv, ConsumedInv
      <3>10. ConsumedInv'
        BY <3>8, <3>9 DEF ConsumedInv, Apart
      <3> QED
        BY <3>0, <3>1, <3>3, <3>10
    <2> QED
      BY <2>1, <2>2 DEF SharedStep
  <1>4. ContextInv' /\ context' \in Requests \cup {Nobody} /\ carrier' \in [Requests -> Requests \cup {Nobody}]
    <2>1. req'[q].stage # "idle"
      BY <1>0 DEF LocalStep, GTypes
    <2>2. CASE UNCHANGED <<context, carrier>>
      BY <1>0, <1>2, <2>2 DEF GInv, ContextInv, ContextOnce, GTypes
    <2>3. CASE context' = q /\ carrier' = carrier /\ req[q].stage = "idle"
      BY <1>0, <1>2, <2>1, <2>3 DEF GInv, ContextInv, ContextOnce, GTypes
    <2>4. CASE context # Nobody /\ context' = Nobody /\ carrier' = [carrier EXCEPT ![q] = context]
      <3>1. \A p \in Requests : carrier'[p] = IF p = q THEN context ELSE carrier[p]
        BY <1>0, <2>4 DEF GTypes
      <3>2. context \in Requests /\ req[context].stage # "idle"
        BY <1>0, <2>4 DEF GInv, GTypes, ContextInv
      <3>3. ContextOnce'
        BY <1>0, <2>4, <3>1 DEF GInv, ContextInv, ContextOnce
      <3>4. \A p \in Requests : carrier'[p] # Nobody => req'[carrier'[p]].stage # "idle" /\ carrier'[p] # context'
        BY <1>0, <1>2, <2>4, <3>1, <3>2 DEF GInv, ContextInv, GTypes
      <3> QED
        BY <1>0, <2>4, <3>3, <3>4 DEF ContextInv, GTypes
    <2> QED
      BY <2>2, <2>3, <2>4 DEF SharedStep
  <1>5. AuditCorrelates' /\ salt' \in Salts \cup {NoSalt} /\ logger' \in Salts \cup {NoSalt}
    BY <1>0 DEF GInv, AuditCorrelates, GTypes, SharedStep
  <1> QED
    BY <1>0, <1>1, <1>2, <1>3, <1>4, <1>5 DEF GInv, GTypes, SharedStep

-----------------------------------------------------------------------------
(* The kinds of step. *)

(* What the invariant says of a request that has no answer yet. *)
LEMMA Unanswered ==
    ASSUME GInv, NEW q \in Requests, req[q].stage \notin {"audit", "answered"}
    PROVE  /\ req \in [Requests -> ReqRec] /\ adm \in [Requests -> AdmRec] /\ audits \in [Requests -> 0..1]
           /\ req[q] \in ReqRec /\ adm[q] \in AdmRec
           /\ req[q].answer = NoAnswer /\ req[q].owed = FALSE /\ audits[q] = 0
           /\ Safe(environment, q, req[q], adm[q], audits[q], consumed, fixtures)
           /\ adm = [adm EXCEPT ![q] = adm[q]] /\ audits = [audits EXCEPT ![q] = 0]
  <1>1. /\ req \in [Requests -> ReqRec] /\ adm \in [Requests -> AdmRec] /\ audits \in [Requests -> 0..1]
        /\ Safe(environment, q, req[q], adm[q], audits[q], consumed, fixtures)
    BY DEF GInv, GTypes, AllSafe
  <1>2. req[q].answer = NoAnswer /\ ~ req[q].owed /\ audits[q] = 0
    BY <1>1 DEF Safe, AnswerSafe, AuditSafe
  <1>3. req[q].owed \in BOOLEAN
    BY <1>1 DEF ReqRec
  <1>4. adm = [adm EXCEPT ![q] = adm[q]] /\ audits = [audits EXCEPT ![q] = 0]
    BY <1>1, <1>2
  <1> QED
    BY <1>1, <1>2, <1>3, <1>4

(* An answer that is not a refusal leaves. *)
LEMMA AnswerStep ==
    ASSUME GInv, NEW q \in Requests, req[q].stage \notin {"audit", "answered"},
           NEW a \in Answers, GoodAnswer(environment, req[q].r, a), Answer(q, a),
           consumed \subseteq consumed', fixtures' \subseteq fixtures, UNCHANGED <<adm, audits>>,
           req[q].r.path = Attestations /\ a.status = 200 => adm[q].due \cap fixtures' = {}
    PROVE  \E x : LocalStep(q, x, adm[q], 0)
  <1>1. PICK x \in ReqRec : /\ req' = [req EXCEPT ![q] = x] /\ x.stage = "answered" /\ x.answer = a
                            /\ x.r = req[q].r /\ x.owed = req[q].owed
    BY Unanswered, AnswerForm
  <1>2. ServeSafe(q, x, adm[q], consumed')
    <2>1. ServeSafe(q, req[q], adm[q], consumed)
      BY Unanswered DEF Safe
    <2> QED
      BY <1>1, <2>1 DEF ServeSafe
  <1>3. Safe(environment, q, x, adm[q], 0, consumed', fixtures')
    BY <1>1, <1>2, Unanswered
    DEF Safe, AnswerSafe, AuditSafe, RouteSafe, ClearSafe, AdminStages, Held
  <1>4. adm' = [adm EXCEPT ![q] = adm[q]] /\ audits' = [audits EXCEPT ![q] = 0] /\ adm[q] \in AdmRec
    BY Unanswered
  <1>5. LocalStep(q, x, adm[q], 0)
    <2>1. 0 \in 0..1 /\ x.stage # "idle"
      BY <1>1
    <2> QED
      BY <1>1, <1>3, <1>4, <2>1, Zenon DEF LocalStep
  <1> QED
    BY <1>5

(* A refusal, whose event is to be awaited (n = 0) or was handed over (1). *)
OwedStage(n) == IF n = 0 THEN "audit" ELSE "answered"
Owes(q, a, n) ==
    /\ req[q].stage \notin {"audit", "answered", "list", "delete"}
    /\ a \in Answers /\ GoodAnswer(environment, req[q].r, a) /\ a.status # 200
    /\ n \in 0..1
    /\ \/ req' = [req EXCEPT ![q].stage = OwedStage(n), ![q].answer = a, ![q].owed = TRUE]
       \/ req' = [req EXCEPT ![q].stage = OwedStage(n), ![q].owed = TRUE, ![q].answer = a]
    /\ UNCHANGED <<adm, consumed, fixtures>>
    /\ audits' = [audits EXCEPT ![q] = n]

LEMMA OwedStages == OwedStage(0) = "audit" /\ OwedStage(1) = "answered" /\ 0 \in 0..1 /\ 1 \in 0..1
  BY DEF OwedStage

LEMMA OwedStep ==
    ASSUME GInv, NEW q \in Requests, NEW a, NEW n, Owes(q, a, n)
    PROVE  \E x : LocalStep(q, x, adm[q], n)
  <1> DEFINE s == OwedStage(n)
  <1>0. /\ req[q].stage \notin {"audit", "answered", "list", "delete"}
        /\ a \in Answers /\ GoodAnswer(environment, req[q].r, a) /\ a.status # 200
        /\ n \in 0..1 /\ s \in {"audit", "answered"} /\ s = (IF n = 0 THEN "audit" ELSE "answered")
        /\ \/ req' = [req EXCEPT ![q].stage = s, ![q].answer = a, ![q].owed = TRUE]
           \/ req' = [req EXCEPT ![q].stage = s, ![q].owed = TRUE, ![q].answer = a]
        /\ UNCHANGED <<adm, consumed, fixtures>> /\ audits' = [audits EXCEPT ![q] = n]
    BY DEF Owes, OwedStage
  <1> HIDE DEF s
  <1>1. PICK x \in ReqRec : /\ req' = [req EXCEPT ![q] = x] /\ x.stage = s /\ x.answer = a
                            /\ x.r = req[q].r /\ x.owed = TRUE
    <2> DEFINE x == [req[q] EXCEPT !.stage = s, !.answer = a, !.owed = TRUE]
               z == [req[q] EXCEPT !.stage = s, !.owed = TRUE, !.answer = a]
    <2>1. req \in [Requests -> ReqRec] /\ req[q] \in ReqRec
      BY <1>0, Unanswered
    <2>2. x \in ReqRec /\ x.stage = s /\ x.answer = a /\ x.r = req[q].r /\ x.owed = TRUE
      BY <1>0, <2>1 DEF ReqRec, Stages
    <2>3. z \in ReqRec /\ z.stage = s /\ z.answer = a /\ z.r = req[q].r /\ z.owed = TRUE
      BY <1>0, <2>1 DEF ReqRec, Stages
    <2>4. req' = [req EXCEPT ![q] = x] \/ req' = [req EXCEPT ![q] = z]
      BY <1>0, <2>1 DEF ReqRec
    <2> QED
      BY <2>2, <2>3, <2>4
  <1>2. ServeSafe(q, req[q], adm[q], consumed) /\ adm[q].passed = {}
    BY <1>0, Unanswered DEF Safe, ClearSafe
  <1>3. Safe(environment, q, x, adm[q], n, consumed', fixtures')
    BY <1>0, <1>1, <1>2
    DEF Safe, AnswerSafe, AuditSafe, RouteSafe, ServeSafe, ClearSafe, AdminStages, Held
  <1>4. adm' = [adm EXCEPT ![q] = adm[q]] /\ adm[q] \in AdmRec
    BY <1>0, Unanswered
  <1>5. LocalStep(q, x, adm[q], n)
    BY <1>0, <1>1, <1>3, <1>4 DEF LocalStep
  <1> QED
    BY <1>5

(* The handler goes on. *)
LEMMA GoStep ==
    ASSUME GInv, NEW q \in Requests, req[q].stage \notin {"audit", "answered"},
           NEW s \in Stages \ {"idle", "audit", "answered"}, GoesTo(q, s),
           NEW y \in AdmRec, adm' = [adm EXCEPT ![q] = y], UNCHANGED audits,
           consumed \subseteq consumed', fixtures' \subseteq fixtures,
           \A x \in ReqRec : x.stage = s /\ x.r = req[q].r =>
             RouteSafe(environment, x) /\ ServeSafe(q, x, y, consumed') /\ ClearSafe(x, y, fixtures')
    PROVE  \E x : LocalStep(q, x, y, 0)
  <1>1. PICK x \in ReqRec : /\ req' = [req EXCEPT ![q] = x] /\ x.stage = s /\ x.answer = req[q].answer
                            /\ x.r = req[q].r /\ x.owed = req[q].owed
    BY DEF GoesTo
  <1>2. Safe(environment, q, x, y, 0, consumed', fixtures')
    BY <1>1, Unanswered DEF Safe, AnswerSafe, AuditSafe
  <1>3. audits' = [audits EXCEPT ![q] = 0]
    BY Unanswered
  <1>4. LocalStep(q, x, y, 0)
    <2>1. 0 \in 0..1 /\ x.stage # "idle"
      BY <1>1
    <2> QED
      BY <1>1, <1>2, <1>3, <2>1, Zenon DEF LocalStep
  <1> QED
    BY <1>4

(* It goes on, to a stage about which only the routing says something. *)
LEMMA GoPlain ==
    ASSUME GInv, NEW q \in Requests, req[q].stage \notin {"audit", "answered", "list", "delete"},
           NEW s \in Stages \ {"idle", "audit", "answered", "list", "delete", "clear", "cap_put"}, GoesTo(q, s),
           UNCHANGED <<adm, audits, consumed, fixtures>>,
           \A x \in ReqRec : x.stage = s /\ x.r = req[q].r => RouteSafe(environment, x)
    PROVE  \E x : LocalStep(q, x, adm[q], 0)
  <1>1. ServeSafe(q, req[q], adm[q], consumed) /\ adm[q].passed = {}
    BY Unanswered DEF Safe, ClearSafe
  <1>2. \A x \in ReqRec : x.stage = s /\ x.r = req[q].r =>
          ServeSafe(q, x, adm[q], consumed') /\ ClearSafe(x, adm[q], fixtures')
    BY <1>1 DEF ServeSafe, ClearSafe
  <1>3. adm' = [adm EXCEPT ![q] = adm[q]] /\ adm[q] \in AdmRec
    BY Unanswered
  <1> QED
    BY <1>2, <1>3, GoStep

(* The shared parts do not change. *)
LEMMA QuietStep ==
    ASSUME GInv, NEW q \in Requests, NEW x, NEW y, NEW n, LocalStep(q, x, y, n),
           UNCHANGED <<environment, context, carrier, salt, logger, now, count, failures, locked, consumed, fixtures>>
    PROVE  GInv'
  <1>1. count' \in [RoleTags -> 0..Cap] /\ failures' \in 0..MaxFailures /\ locked' \in BOOLEAN
    BY DEF GInv, GTypes
  <1> QED
    BY <1>1, StepInductive DEF SharedStep

(* A plain answer of a handler. *)
LEMMA ReplyLocal ==
    ASSUME GInv, NEW q \in Requests, req[q].stage \notin {"audit", "answered"},
           NEW status \in {200, 400, 401, 403, 404, 429, 503}, Reply(q, status),
           consumed \subseteq consumed', fixtures' \subseteq fixtures, UNCHANGED <<adm, audits>>,
           Path(q) = Attestations /\ status = 200 => adm[q].due \cap fixtures' = {}
    PROVE  \E x : LocalStep(q, x, adm[q], 0)
  <1> DEFINE a == add_security_headers(req[q].r, status, {})
  <1>1. a \in Answers /\ a.status = status /\ GoodAnswer(environment, req[q].r, a)
    BY PlainAnswer
  <1> HIDE DEF a
  <1>2. Answer(q, a)
    BY DEF Reply, a
  <1> QED
    BY <1>1, <1>2, AnswerStep DEF Path

LEMMA RepliesQuietly ==
    ASSUME GInv, NEW q \in Requests, req[q].stage \notin {"audit", "answered"},
           NEW status \in {200, 400, 401, 403, 404, 429, 503}, Reply(q, status),
           UNCHANGED <<environment, isolateVars, now, count, failures, locked, consumed, fixtures, adm>>,
           Path(q) = Attestations /\ status = 200 => adm[q].due \cap fixtures = {}
    PROVE  GInv'
  <1>1. \E x : LocalStep(q, x, adm[q], 0)
    BY ReplyLocal DEF isolateVars
  <1> QED
    BY <1>1, QuietStep DEF isolateVars

(* A refusal of a handler, its event still to be sent. *)
LEMMA AuditLocal ==
    ASSUME GInv, NEW q \in Requests, req[q].stage \notin {"audit", "answered", "list", "delete"},
           NEW status \in {400, 401, 403, 404, 429, 503}, AuditThenReply(q, status),
           UNCHANGED <<adm, audits, consumed, fixtures>>
    PROVE  \E x : LocalStep(q, x, adm[q], 0)
  <1> DEFINE a == add_security_headers(req[q].r, status, {})
  <1>0. a \in Answers /\ a.status = status /\ GoodAnswer(environment, req[q].r, a)
    BY PlainAnswer
  <1>1. a \in Answers /\ a.status # 200 /\ GoodAnswer(environment, req[q].r, a)
    BY <1>0
  <1> HIDE DEF a
  <1>2. req' = [req EXCEPT ![q].stage = "audit", ![q].owed = TRUE, ![q].answer = a]
    BY DEF AuditThenReply, a
  <1>3. audits' = [audits EXCEPT ![q] = 0]
    BY Unanswered
  <1>4. Owes(q, a, 0)
    BY <1>1, <1>2, <1>3, OwedStages DEF Owes
  <1> QED
    BY <1>4, OwedStep

LEMMA AuditsQuietly ==
    ASSUME GInv, NEW q \in Requests, req[q].stage \notin {"audit", "answered", "list", "delete"},
           NEW status \in {400, 401, 403, 404, 429, 503}, AuditThenReply(q, status),
           UNCHANGED <<environment, isolateVars, now, count, failures, locked, consumed, fixtures, adm>>
    PROVE  GInv'
  <1>1. \E x : LocalStep(q, x, adm[q], 0)
    BY AuditLocal DEF isolateVars
  <1> QED
    BY <1>1, QuietStep DEF isolateVars

LEMMA GoesQuietly ==
    ASSUME GInv, NEW q \in Requests, req[q].stage \notin {"audit", "answered", "list", "delete"},
           NEW s \in Stages \ {"idle", "audit", "answered", "list", "delete", "clear", "cap_put"}, Go(q, s),
           UNCHANGED <<environment, isolateVars, now, count, failures, locked, consumed, fixtures, adm>>,
           \A x \in ReqRec : x.stage = s /\ x.r = req[q].r => RouteSafe(environment, x)
    PROVE  GInv'
  <1>1. GoesTo(q, s)
    BY Unanswered, GoForm DEF Go
  <1>2. \E x : LocalStep(q, x, adm[q], 0)
    BY <1>1, GoPlain DEF isolateVars
  <1> QED
    BY <1>2, QuietStep DEF isolateVars

-----------------------------------------------------------------------------
(* The actions of the gateway. *)

LEMMA ArriveKeeps ==
    ASSUME GInv, NEW q \in Requests, arrive(q), UNCHANGED adminVars
    PROVE  GInv'
  <1> DEFINE r == req[q].r
             status == IF body_gate(r) # Pass THEN body_gate(r) ELSE check_prefix_rejection(environment, r)
  <1>1. /\ req[q].stage = "idle" /\ context' = q
        /\ UNCHANGED <<environment, salt, logger, audits, carrier>>
        /\ UNCHANGED <<now, count, failures, locked, consumed, fixtures, adm>>
        /\ IF status = Pass THEN req' = [req EXCEPT ![q].stage = "salt"] ELSE Answer(q, BareAnswer(r, status))
    BY DEF arrive, adminVars
  <1>2. status \in {0, 400, 401, 411, 413, 415}
    BY DEF body_gate, check_prefix_rejection, Pass
  <1> HIDE DEF status
  <1>3. \E x : LocalStep(q, x, adm[q], 0)
    <2>1. CASE status = Pass
      <3>1. GoesTo(q, "salt")
        BY <1>1, <2>1, Unanswered, GoForm DEF Stages
      <3>2. \A x \in ReqRec : x.stage = "salt" /\ x.r = req[q].r => RouteSafe(environment, x)
        BY DEF RouteSafe, AdminStages, Held
      <3>3. "salt" \in Stages \ {"idle", "audit", "answered", "list", "delete", "clear", "cap_put"}
        BY DEF Stages
      <3> QED
        BY <1>1, <3>1, <3>2, <3>3, GoPlain
    <2>2. CASE status # Pass
      <3> DEFINE a == BareAnswer(r, status)
      <3>1. status \in {400, 401, 403, 404, 411, 413, 415, 500} /\ status # 200
        BY <1>2, <2>2 DEF Pass
      <3>2. a \in Answers /\ a.status = status /\ GoodAnswer(environment, r, a)
        BY <3>1, BareAnswers
      <3>3. Answer(q, a)
        BY <1>1, <2>2
      <3> HIDE DEF a
      <3> QED
        BY <1>1, <3>1, <3>2, <3>3, AnswerStep
    <2> QED
      BY <2>1, <2>2
  <1>4. count' \in [RoleTags -> 0..Cap] /\ failures' \in 0..MaxFailures /\ locked' \in BOOLEAN
    BY <1>1 DEF GInv, GTypes
  <1> QED
    BY <1>1, <1>3, <1>4, StepInductive DEF SharedStep

LEMMA PrivacyKeeps ==
    ASSUME GInv, NEW q \in Requests, build_privacy_context(q), UNCHANGED adminVars
    PROVE  GInv'
  <1> DEFINE s == IF salt = NoSalt THEN "salt_fetch" ELSE "limit"
  <1>1. /\ req[q].stage = "salt" /\ s \in Stages \ {"idle", "audit", "answered", "list", "delete", "clear", "cap_put"}
        /\ req' = [req EXCEPT ![q].stage = s, ![q].salt = salt]
        /\ UNCHANGED <<environment, context, carrier, salt, logger, now, count, failures, locked, consumed, fixtures>>
        /\ UNCHANGED <<adm, audits>>
    BY DEF build_privacy_context, adminVars, isolateVars, Stages
  <1>2. \A x \in ReqRec : x.stage = s /\ x.r = req[q].r => RouteSafe(environment, x)
    BY DEF RouteSafe, AdminStages, Held
  <1> HIDE DEF s
  <1>3. GoesTo(q, s)
    BY <1>1, Unanswered, SaltForm DEF GInv, GTypes
  <1>4. \E x : LocalStep(q, x, adm[q], 0)
    BY <1>1, <1>2, <1>3, GoPlain
  <1> QED
    BY <1>1, <1>4, QuietStep

LEMMA SaltKeeps ==
    ASSUME GInv, NEW q \in Requests, resolve_ip_hash_salt(q), UNCHANGED adminVars
    PROVE  GInv'
  <1>1. PICK v \in {TheSalt, q} : /\ salt' = IF salt = NoSalt THEN v ELSE salt
                                  /\ req' = [req EXCEPT ![q].stage = "limit", ![q].salt = v]
    BY DEF resolve_ip_hash_salt
  <1>2. /\ req[q].stage = "salt_fetch"
        /\ UNCHANGED <<environment, context, carrier, logger, now, count, failures, locked, consumed, fixtures>>
        /\ UNCHANGED <<adm, audits>>
    BY DEF resolve_ip_hash_salt, adminVars
  <1>3. v \in Salts /\ "limit" \in Stages \ {"idle", "audit", "answered", "list", "delete", "clear", "cap_put"}
    BY <1>1 DEF Salts, Stages
  <1>4. \A x \in ReqRec : x.stage = "limit" /\ x.r = req[q].r => RouteSafe(environment, x)
    BY DEF RouteSafe, AdminStages, Held
  <1>5. GoesTo(q, "limit")
    BY <1>1, <1>2, <1>3, Unanswered, SaltForm
  <1>6. \E x : LocalStep(q, x, adm[q], 0)
    BY <1>2, <1>3, <1>4, <1>5, GoPlain
  <1>7. salt' = salt \/ (salt = NoSalt /\ salt' \in Salts)
    BY <1>1, <1>3
  <1>8. count' \in [RoleTags -> 0..Cap] /\ failures' \in 0..MaxFailures /\ locked' \in BOOLEAN
    BY <1>2 DEF GInv, GTypes
  <1>9. /\ environment' = environment /\ fixtures' \subseteq fixtures /\ consumed' = consumed
        /\ UNCHANGED <<context, carrier>> /\ logger' = logger /\ now' = now
    BY <1>2
  <1>10. logger = NoSalt \/ salt' = salt
    BY <1>7 DEF GInv, AuditCorrelates
  <1> QED
    BY <1>6, <1>7, <1>8, <1>9, <1>10, StepInductive DEF SharedStep

LEMMA RefuseKeeps ==
    ASSUME GInv, NEW q \in Requests, req[q].stage \in {"limit", "handler"},
           NEW a \in Answers, GoodAnswer(environment, req[q].r, a), a.status # 200, Refuse(q, a),
           UNCHANGED <<environment, salt, logger>>, UNCHANGED adminVars
    PROVE  GInv'
  <1>0. req[q].stage \notin {"audit", "answered", "list", "delete"}
    OBVIOUS
  <1>1. UNCHANGED <<now, count, failures, locked, consumed, fixtures, adm>>
    BY DEF adminVars
  <1>2. audits[q] = 0 /\ audits \in [Requests -> 0..1]
    BY Unanswered
  <1>3. count' \in [RoleTags -> 0..Cap] /\ failures' \in 0..MaxFailures /\ locked' \in BOOLEAN
    BY <1>1 DEF GInv, GTypes
  <1>4. CASE /\ context # Nobody /\ take_worker_context /\ carrier' = [carrier EXCEPT ![q] = context]
             /\ audits' = [audits EXCEPT ![q] = @ + 1]
             /\ req' = [req EXCEPT ![q].stage = "answered", ![q].answer = a, ![q].owed = TRUE]
    <2>1. audits' = [audits EXCEPT ![q] = 1]
      BY <1>2, <1>4
    <2>2. Owes(q, a, 1)
      BY <1>0, <1>1, <1>4, <2>1, OwedStages DEF Owes
    <2>3. \E x : LocalStep(q, x, adm[q], 1)
      BY <2>2, OwedStep
    <2>4. SharedStep(q)
      BY <1>1, <1>3, <1>4 DEF SharedStep, take_worker_context
    <2> QED
      BY <2>3, <2>4, StepInductive
  <1>5. CASE context = Nobody /\ NoContext(q, a)
    <2>1. audits' = [audits EXCEPT ![q] = 0] /\ UNCHANGED <<context, carrier>>
      BY <1>2, <1>5 DEF NoContext
    <2>2. Owes(q, a, 0)
      BY <1>0, <1>1, <1>5, <2>1, OwedStages DEF Owes, NoContext
    <2>3. \E x : LocalStep(q, x, adm[q], 0)
      BY <2>2, OwedStep
    <2>4. SharedStep(q)
      BY <1>1, <1>3, <2>1 DEF SharedStep
    <2> QED
      BY <2>3, <2>4, StepInductive
  <1> QED
    BY <1>4, <1>5 DEF Refuse

LEMMA DispatchKeeps ==
    ASSUME GInv, NEW q \in Requests, req[q].stage = "limit", Dispatch(q),
           UNCHANGED <<environment, context, salt, logger, audits, carrier>>, UNCHANGED adminVars
    PROVE  GInv'
  <1> DEFINE r == req[q].r
  <1>1. /\ UNCHANGED <<environment, context, carrier, salt, logger, now, count, failures, locked, consumed, fixtures>>
        /\ UNCHANGED <<adm, audits>>
    BY DEF adminVars
  <1>2. ASSUME NEW a \in Answers, GoodAnswer(environment, r, a), a.status # 200, Answer(q, a)
        PROVE  GInv'
    <2>1. \E x : LocalStep(q, x, adm[q], 0)
      BY <1>1, <1>2, AnswerStep
    <2> QED
      BY <1>1, <2>1, QuietStep
  <1>3. CASE /\ fetch_gate(r) # Pass
             /\ req' = [req EXCEPT ![q].stage = "audit", ![q].owed = TRUE,
                                   ![q].answer = BareAnswer(r, fetch_gate(r))]
    <2> DEFINE a == BareAnswer(r, fetch_gate(r))
    <2>1. fetch_gate(r) \in {400, 401, 403, 404, 411, 413, 415, 500}
      BY <1>3 DEF fetch_gate, Pass
    <2>2. a \in Answers /\ a.status = fetch_gate(r) /\ GoodAnswer(environment, r, a)
      BY <2>1, BareAnswers
    <2>3. a.status # 200
      BY <2>1, <2>2
    <2>4. req' = [req EXCEPT ![q].stage = "audit", ![q].owed = TRUE, ![q].answer = a]
      BY <1>3
    <2> HIDE DEF a
    <2>5. audits' = [audits EXCEPT ![q] = 0]
      BY <1>1, Unanswered
    <2>6. Owes(q, a, 0)
      BY <1>1, <2>2, <2>3, <2>4, <2>5, OwedStages DEF Owes
    <2>7. \E x : LocalStep(q, x, adm[q], 0)
      BY <2>6, OwedStep
    <2> QED
      BY <1>1, <2>7, QuietStep
  <1>4. CASE Answer(q, BareAnswer(r, 500))
    <2> DEFINE a == BareAnswer(r, 500)
    <2>1. a \in Answers /\ a.status = 500 /\ GoodAnswer(environment, r, a)
      BY BareAnswers
    <2>2. a.status # 200 /\ Answer(q, a)
      BY <1>4, <2>1
    <2> QED
      BY <1>2, <2>1, <2>2
  <1>5. CASE Answer(q, add_security_headers(r, 204, options_allow(environment, r.path)))
    <2> DEFINE allow == options_allow(environment, r.path)
               a == add_security_headers(r, 204, allow)
    <2>1. a \in Answers /\ a.status = 204 /\ GoodAnswer(environment, r, a)
      BY RoutedAnswer, MethodTypes
    <2>2. a.status # 200 /\ Answer(q, a)
      BY <1>5, <2>1
    <2> QED
      BY <1>2, <2>1, <2>2
  <1>6. CASE /\ method_gate(r) # Pass
             /\ Answer(q, add_security_headers(r, 405, allowed_methods_for_path(environment, r.path)))
    <2> DEFINE allow == allowed_methods_for_path(environment, r.path)
               a == add_security_headers(r, 405, allow)
    <2>1. ~ router(environment, r.method, r.path)
      BY <1>6 DEF method_gate, Pass, router, allowed_methods_for_path, GetPaths, PostPaths, SandboxPath,
                  BelowFixtures, FixtureClass
    <2>2. a \in Answers /\ a.status = 405 /\ GoodAnswer(environment, r, a)
      BY <2>1, RoutedAnswer, MethodTypes
    <2>3. a.status # 200 /\ Answer(q, a)
      BY <1>6, <2>2
    <2> QED
      BY <1>2, <2>2, <2>3
  <1>7. CASE router(environment, r.method, r.path) /\ req' = [req EXCEPT ![q].stage = "handler"]
    <2>1. GoesTo(q, "handler")
      BY <1>7, Unanswered, GoForm DEF Stages
    <2>2. \A x \in ReqRec : x.stage = "handler" /\ x.r = req[q].r => RouteSafe(environment, x)
      BY <1>7 DEF RouteSafe, AdminStages, Held
    <2>3. "handler" \in Stages \ {"idle", "audit", "answered", "list", "delete", "clear", "cap_put"}
      BY DEF Stages
    <2>4. \E x : LocalStep(q, x, adm[q], 0)
      BY <1>1, <2>1, <2>2, <2>3, GoPlain
    <2> QED
      BY <1>1, <2>4, QuietStep
  <1>8. CASE Answer(q, add_security_headers(r, 404, {}))
    <2> DEFINE a == add_security_headers(r, 404, {})
    <2>1. a \in Answers /\ a.status = 404 /\ GoodAnswer(environment, r, a)
      BY PlainAnswer
    <2>2. a.status # 200 /\ Answer(q, a)
      BY <1>8, <2>1
    <2> QED
      BY <1>2, <2>1, <2>2
  <1> QED
    BY <1>3, <1>4, <1>5, <1>6, <1>7, <1>8 DEF Dispatch

LEMMA LimitKeeps ==
    ASSUME GInv, NEW q \in Requests, global_ip_limit(q), UNCHANGED adminVars
    PROVE  GInv'
  <1> DEFINE r == req[q].r
  <1>1. req[q].stage = "limit" /\ UNCHANGED <<environment, salt, logger>>
    BY DEF global_ip_limit
  <1>2. \A status \in {429, 503} :
          LET a == EarlyAnswer(r, status) IN a \in Answers /\ a.status # 200 /\ GoodAnswer(environment, r, a)
    <2> SUFFICES ASSUME NEW status \in {429, 503}
                 PROVE  LET a == EarlyAnswer(r, status)
                        IN  a \in Answers /\ a.status # 200 /\ GoodAnswer(environment, r, a)
      OBVIOUS
    <2>1. EarlyAnswer(r, status) \in Answers /\ EarlyAnswer(r, status).status = status
          /\ GoodAnswer(environment, r, EarlyAnswer(r, status))
      BY EarlyAnswers
    <2> QED
      BY <2>1
  <1>3. CASE Answer(q, EarlyAnswer(r, 503)) /\ UNCHANGED <<context, audits, carrier>>
    <2> DEFINE a == EarlyAnswer(r, 503)
    <2>1. a \in Answers /\ a.status # 200 /\ GoodAnswer(environment, r, a) /\ Answer(q, a)
      BY <1>2, <1>3
    <2> HIDE DEF a
    <2>2. /\ UNCHANGED <<environment, context, carrier, salt, logger, now, count, failures, locked, consumed, fixtures>>
          /\ UNCHANGED <<adm, audits>>
      BY <1>1, <1>3 DEF adminVars
    <2>3. \E x : LocalStep(q, x, adm[q], 0)
      BY <1>1, <2>1, <2>2, AnswerStep
    <2> QED
      BY <2>2, <2>3, QuietStep
  <1>4. CASE \E status \in {429, 503} : Refuse(q, EarlyAnswer(r, status))
    <2>1. PICK status \in {429, 503} : Refuse(q, EarlyAnswer(r, status))
      BY <1>4
    <2> DEFINE a == EarlyAnswer(r, status)
    <2>2. a \in Answers /\ a.status # 200 /\ GoodAnswer(environment, r, a) /\ Refuse(q, a)
      BY <1>2, <2>1
    <2> HIDE DEF a
    <2> QED
      BY <1>1, <2>2, RefuseKeeps
  <1>5. CASE Dispatch(q) /\ UNCHANGED <<context, audits, carrier>>
    BY <1>1, <1>5, DispatchKeeps
  <1> QED
    BY <1>3, <1>4, <1>5 DEF global_ip_limit

LEMMA HandleKeeps ==
    ASSUME GInv, NEW q \in Requests, handle(q), UNCHANGED adminVars
    PROVE  GInv'
  <1> DEFINE r == req[q].r
  <1>1. req[q].stage = "handler" /\ UNCHANGED <<environment, salt, logger>>
    BY DEF handle
  <1>2. ASSUME NEW status \in {200, 401}, Reply(q, status), UNCHANGED <<context, audits, carrier>>,
               Path(q) # Attestations \/ status # 200
        PROVE  GInv'
    <2>1. UNCHANGED <<environment, isolateVars, now, count, failures, locked, consumed, fixtures, adm>>
      BY <1>1, <1>2 DEF isolateVars, adminVars
    <2> QED
      BY <1>1, <1>2, <2>1, RepliesQuietly
  <1>3. CASE Answer(q, add_security_headers(r, 401, {})) /\ UNCHANGED <<context, audits, carrier>>
    BY <1>2, <1>3 DEF Reply
  <1>4. CASE /\ ~ is_internal_route(r.path) /\ Answer(q, add_security_headers(r, 200, {}))
             /\ UNCHANGED <<context, audits, carrier>>
    <2>1. Path(q) # Attestations
      BY <1>4 DEF Path, is_internal_route, Attestations, BelowFixtures, FixtureClass
    <2> QED
      BY <1>2, <1>4, <2>1 DEF Reply
  <1>5. CASE \E status \in RefusalStatus(r.path) : Refuse(q, add_security_headers(r, status, {}))
    <2>1. PICK status \in {400, 429, 503} : Refuse(q, add_security_headers(r, status, {}))
      BY <1>5 DEF RefusalStatus
    <2> DEFINE a == add_security_headers(r, status, {})
    <2>2. a \in Answers /\ a.status = status /\ GoodAnswer(environment, r, a)
      BY PlainAnswer
    <2>3. a.status # 200 /\ Refuse(q, a)
      BY <2>1, <2>2
    <2> HIDE DEF a
    <2> QED
      BY <1>1, <2>2, <2>3, RefuseKeeps
  <1> QED
    BY <1>3, <1>4, <1>5 DEF handle

(* Building the logger keeps the salt of the isolate, or fixes it. *)
LEMMA LoggerKeeps ==
    ASSUME GInv, NEW q \in Requests, get_or_build_logger(q)
    PROVE  /\ salt' = salt \/ (salt = NoSalt /\ salt' \in Salts)
           /\ (logger' = logger /\ (logger = NoSalt \/ salt' = salt)) \/ (logger' = salt' /\ salt' \in Salts \cup {NoSalt})
           /\ salt' \in Salts \cup {NoSalt} /\ logger' \in Salts \cup {NoSalt} /\ AuditCorrelates'
  <1>1. salt \in Salts \cup {NoSalt} /\ logger \in {NoSalt, salt}
    BY DEF GInv, GTypes, AuditCorrelates
  <1>2. {TheSalt, q} \subseteq Salts
    BY DEF Salts
  <1> QED
    BY <1>1, <1>2 DEF get_or_build_logger, LoggerSalt, AuditCorrelates

LEMMA AuditKeeps ==
    ASSUME GInv, NEW q \in Requests, audit_log(q), UNCHANGED adminVars
    PROVE  GInv'
  <1>1. /\ req[q].stage = "audit" /\ get_or_build_logger(q)
        /\ audits' = [audits EXCEPT ![q] = @ + 1] /\ req' = [req EXCEPT ![q].stage = "answered"]
        /\ UNCHANGED <<environment, context, carrier>>
        /\ UNCHANGED <<now, count, failures, locked, consumed, fixtures, adm>>
    BY DEF audit_log, adminVars
  <1>2. /\ req \in [Requests -> ReqRec] /\ adm \in [Requests -> AdmRec] /\ audits \in [Requests -> 0..1]
        /\ Safe(environment, q, req[q], adm[q], audits[q], consumed, fixtures)
    BY DEF GInv, GTypes, AllSafe
  <1>3. audits' = [audits EXCEPT ![q] = 1] /\ req[q].owed /\ req[q].answer.status # 200
    BY <1>1, <1>2 DEF Safe, AuditSafe
  <1>4. PICK x \in ReqRec : /\ req' = [req EXCEPT ![q] = x] /\ x.stage = "answered" /\ x.answer = req[q].answer
                            /\ x.r = req[q].r /\ x.owed = req[q].owed
    <2>1. GoesTo(q, "answered")
      BY <1>1, <1>2, GoForm DEF Stages
    <2> QED
      BY <2>1 DEF GoesTo
  <1>5. Safe(environment, q, x, adm[q], 1, consumed, fixtures)
    BY <1>1, <1>2, <1>3, <1>4
    DEF Safe, AnswerSafe, AuditSafe, RouteSafe, ServeSafe, ClearSafe, AdminStages, Held
  <1>6. adm' = [adm EXCEPT ![q] = adm[q]] /\ adm[q] \in AdmRec
    BY <1>1, <1>2
  <1>7. Safe(environment, q, x, adm[q], 1, consumed', fixtures') /\ x.stage # "idle" /\ 1 \in 0..1
    BY <1>1, <1>4, <1>5
  <1>8. LocalStep(q, x, adm[q], 1)
    BY <1>3, <1>4, <1>6, <1>7 DEF LocalStep
  <1>9. SharedStep(q)
    <2>1. count' \in [RoleTags -> 0..Cap] /\ failures' \in 0..MaxFailures /\ locked' \in BOOLEAN
      BY <1>1 DEF GInv, GTypes
    <2> QED
      BY <1>1, <2>1, LoggerKeeps DEF SharedStep
  <1> QED
    BY <1>8, <1>9, StepInductive

LEMMA WaitUntilKeeps ==
    ASSUME GInv, NEW q \in Requests, wait_until(q), UNCHANGED adminVars
    PROVE  GInv'
  <1>1. /\ carrier' = [carrier EXCEPT ![q] = Nobody]
        /\ get_or_build_logger(q) \/ UNCHANGED <<logger, salt>>
        /\ UNCHANGED <<environment, context, req, audits>>
        /\ UNCHANGED <<now, count, failures, locked, consumed, fixtures, adm>>
    BY DEF wait_until, adminVars
  <1>0. salt' \in Salts \cup {NoSalt} /\ logger' \in Salts \cup {NoSalt} /\ AuditCorrelates'
    BY <1>1, LoggerKeeps DEF GInv, GTypes, AuditCorrelates
  <1>2. GTypes'
    BY <1>0, <1>1 DEF GInv, GTypes
  <1>3. AllSafe' /\ ConsumedInv'
    BY <1>1 DEF GInv, AllSafe, ConsumedInv, NonceSpentByHolder, Apart
  <1>4. \A p \in Requests : carrier'[p] = IF p = q THEN Nobody ELSE carrier[p]
    BY <1>1 DEF GInv, GTypes
  <1>5. ContextInv'
    BY <1>1, <1>4 DEF GInv, ContextInv, ContextOnce
  <1> QED
    BY <1>0, <1>2, <1>3, <1>5 DEF GInv

-----------------------------------------------------------------------------
(* The actions of the administration. *)

LEMMA VersionKeeps ==
    ASSUME GInv, NEW q \in Requests, handle_internal_version(q)
    PROVE  GInv'
  <1>1. /\ req[q].stage = "handler" /\ Path(q) # Attestations
        /\ UNCHANGED <<environment, isolateVars, now, count, failures, locked, consumed, fixtures, adm>>
    BY DEF handle_internal_version, At, Version, Attestations, adminVars
  <1>2. PICK status \in {200, 401, 503} : Reply(q, status)
    BY DEF handle_internal_version
  <1> QED
    BY <1>1, <1>2, RepliesQuietly

LEMMA CapKeeps ==
    ASSUME GInv, NEW q \in Requests, admin_rate_limit_check(q)
    PROVE  GInv'
  <1>1. /\ req[q].stage = "handler" /\ Path(q) \in RoleTags /\ ~ req[q].r.external
        /\ UNCHANGED <<environment, context, carrier, salt, logger, now, count, failures, locked, consumed, fixtures>>
        /\ UNCHANGED <<environment, isolateVars, now, count, failures, locked, consumed, fixtures>>
        /\ UNCHANGED audits
    BY DEF admin_rate_limit_check, At, isolateVars
  <1>2. CASE Reply(q, 503) /\ UNCHANGED adm
    BY <1>1, <1>2, RepliesQuietly
  <1>3. CASE Reply(q, 429) /\ UNCHANGED adm
    BY <1>1, <1>3, RepliesQuietly
  <1>4. CASE ~ OverCap(q) /\ adm' = [adm EXCEPT ![q].read = count[Path(q)]] /\ Go(q, "cap_put")
    <2> DEFINE y == [adm[q] EXCEPT !.read = count[Path(q)]]
    <2>1. count[Path(q)] \in 0..Cap /\ count[Path(q)] < Cap
      BY <1>1, <1>4, AdminAssumption DEF GInv, GTypes, OverCap
    <2>2. adm \in [Requests -> AdmRec] /\ adm[q] \in AdmRec
      BY DEF GInv, GTypes
    <2>3. y \in AdmRec /\ y.read < Cap /\ y.served = adm[q].served /\ y.passed = adm[q].passed
      BY <2>1, <2>2 DEF AdmRec
    <2>4. adm' = [adm EXCEPT ![q] = y]
      BY <1>4, <2>2 DEF AdmRec
    <2> HIDE DEF y
    <2>5. /\ ServeSafe(q, req[q], adm[q], consumed) /\ adm[q].passed = {}
          /\ router(environment, req[q].r.method, req[q].r.path)
      BY <1>1, Unanswered DEF Safe, ClearSafe, RouteSafe
    <2>6. \A x \in ReqRec : x.stage = "cap_put" /\ x.r = req[q].r =>
            RouteSafe(environment, x) /\ ServeSafe(q, x, y, consumed') /\ ClearSafe(x, y, fixtures')
      BY <1>1, <2>3, <2>5 DEF RouteSafe, ServeSafe, ClearSafe, AdminStages, Held, Path
    <2>7. GoesTo(q, "cap_put")
      BY <1>1, <1>4, Unanswered, GoForm DEF Go, Stages
    <2>8. "cap_put" \in Stages \ {"idle", "audit", "answered"}
      BY DEF Stages
    <2>9. \E x : LocalStep(q, x, y, 0)
      BY <1>1, <2>3, <2>4, <2>6, <2>7, <2>8, GoStep
    <2> QED
      BY <1>1, <2>9, QuietStep
  <1> QED
    BY <1>2, <1>3, <1>4 DEF admin_rate_limit_check

LEMMA CapPutKeeps ==
    ASSUME GInv, NEW q \in Requests, cap_put(q)
    PROVE  GInv'
  <1>1. /\ req[q].stage = "cap_put" /\ Go(q, "lockout")
        /\ count' \in {count, [count EXCEPT ![Path(q)] = adm[q].read + 1]}
        /\ UNCHANGED <<environment, context, carrier, salt, logger, now, failures, locked, consumed, fixtures>>
        /\ UNCHANGED <<adm, audits>>
    BY DEF cap_put, At, isolateVars
  <1>2. /\ RouteSafe(environment, req[q]) /\ adm[q].read < Cap /\ adm[q].read \in 0..Cap
        /\ count \in [RoleTags -> 0..Cap] /\ failures \in 0..MaxFailures /\ locked \in BOOLEAN
    BY <1>1, Unanswered DEF Safe, ServeSafe, AdmRec, GInv, GTypes
  <1>3. adm[q].read + 1 \in 0..Cap
    BY <1>2, AdminAssumption
  <1>4. count' \in [RoleTags -> 0..Cap]
    BY <1>1, <1>2, <1>3
  <1>5. GoesTo(q, "lockout")
    BY <1>1, Unanswered, GoForm DEF Go, Stages
  <1>6. \A x \in ReqRec : x.stage = "lockout" /\ x.r = req[q].r => RouteSafe(environment, x)
    BY <1>1, <1>2 DEF RouteSafe, AdminStages, Held
  <1>7. "lockout" \in Stages \ {"idle", "audit", "answered", "list", "delete", "clear", "cap_put"}
    BY DEF Stages
  <1>8. \E x : LocalStep(q, x, adm[q], 0)
    BY <1>1, <1>5, <1>6, <1>7, GoPlain
  <1>9. SharedStep(q)
    BY <1>1, <1>2, <1>4 DEF SharedStep
  <1> QED
    BY <1>8, <1>9, StepInductive

(* On to a stage of the authentication that needs no more than the last. *)
LEMMA GoesOn ==
    ASSUME GInv, NEW q \in Requests, req[q].stage \in {"lockout", "credential"},
           NEW s \in {"credential", "failure", "nonce"}, Go(q, s),
           s = "nonce" => req[q].r.token = "valid" /\ req[q].r.nonce # Absent,
           UNCHANGED <<environment, isolateVars, now, count, failures, locked, consumed, fixtures, adm>>
    PROVE  GInv'
  <1>1. RouteSafe(environment, req[q])
    BY Unanswered DEF Safe
  <1>2. \A x \in ReqRec : x.stage = s /\ x.r = req[q].r => RouteSafe(environment, x)
    BY <1>1 DEF RouteSafe, AdminStages, Held
  <1>3. s \in Stages \ {"idle", "audit", "answered", "list", "delete", "clear", "cap_put"}
    BY DEF Stages
  <1> QED
    BY <1>2, <1>3, GoesQuietly

LEMMA LockedOutKeeps ==
    ASSUME GInv, NEW q \in Requests, is_locked_out(q)
    PROVE  GInv'
  <1>1. /\ req[q].stage = "lockout"
        /\ UNCHANGED <<environment, isolateVars, now, count, failures, locked, consumed, fixtures, adm>>
    BY DEF is_locked_out, At, adminVars
  <1>2. CASE Reply(q, 503)
    BY <1>1, <1>2, RepliesQuietly
  <1>3. CASE AuditThenReply(q, 403)
    BY <1>1, <1>3, AuditsQuietly
  <1>4. CASE Go(q, "credential")
    BY <1>1, <1>4, GoesOn
  <1> QED
    BY <1>2, <1>3, <1>4 DEF is_locked_out

LEMMA CredentialKeeps ==
    ASSUME GInv, NEW q \in Requests, authenticate_admin_endpoint(q)
    PROVE  GInv'
  <1>1. /\ req[q].stage = "credential"
        /\ UNCHANGED <<environment, isolateVars, now, count, failures, locked, consumed, fixtures, adm>>
    BY DEF authenticate_admin_endpoint, At, adminVars
  <1>2. CASE Reply(q, 503)
    BY <1>1, <1>2, RepliesQuietly
  <1>3. CASE Go(q, "failure")
    BY <1>1, <1>3, GoesOn
  <1>4. CASE req[q].r.token = "valid" /\ req[q].r.nonce # Absent /\ Go(q, "nonce")
    BY <1>1, <1>4, GoesOn
  <1> QED
    BY <1>2, <1>3, <1>4 DEF authenticate_admin_endpoint, credential

LEMMA FailureKeeps ==
    ASSUME GInv, NEW q \in Requests, record_admin_auth_failure(q)
    PROVE  GInv'
  <1>1. /\ req[q].stage = "failure"
        /\ UNCHANGED <<environment, context, carrier, salt, logger, now, count, consumed, fixtures>>
        /\ UNCHANGED <<adm, audits, consumed, fixtures>>
        /\ AuditThenReply(q, 401) \/ Reply(q, 401)
    BY DEF record_admin_auth_failure, At, isolateVars
  <1>2. failures' \in 0..MaxFailures /\ locked' \in BOOLEAN
    <2>1. failures \in 0..MaxFailures /\ locked \in BOOLEAN /\ MaxFailures \in Nat
      BY AdminAssumption DEF GInv, GTypes
    <2>2. failures' \in {failures, IF failures < MaxFailures THEN failures + 1 ELSE failures}
      BY DEF record_admin_auth_failure
    <2>3. locked' \in {locked, TRUE}
      BY DEF record_admin_auth_failure
    <2>4. failures' \in 0..MaxFailures
      BY <2>1, <2>2
    <2> QED
      BY <2>1, <2>3, <2>4
  <1>3. \E x : LocalStep(q, x, adm[q], 0)
    <2>1. CASE AuditThenReply(q, 401)
      BY <1>1, <2>1, AuditLocal
    <2>2. CASE Reply(q, 401)
      BY <1>1, <2>2, ReplyLocal
    <2> QED
      BY <1>1, <2>1, <2>2
  <1>4. SharedStep(q)
    <2>1. count' \in [RoleTags -> 0..Cap]
      BY <1>1 DEF GInv, GTypes
    <2> QED
      BY <1>1, <1>2, <2>1 DEF SharedStep
  <1> QED
    BY <1>3, <1>4, StepInductive

LEMMA NonceKeeps ==
    ASSUME GInv, NEW q \in Requests, validate_and_consume_nonce(q)
    PROVE  GInv'
  <1>1. /\ req[q].stage = "nonce"
        /\ UNCHANGED <<environment, context, carrier, salt, logger, now, count, failures, locked, fixtures>>
        /\ UNCHANGED <<adm, audits>>
        /\ UNCHANGED <<environment, isolateVars, now, count, failures, locked, fixtures, adm>>
    BY DEF validate_and_consume_nonce, At, isolateVars
  <1>2. ASSUME ~ Spent(req[q].r.nonce), Consume(q)
        PROVE  SharedStep(q) /\ consumed \subseteq consumed'
    <2>1. count' \in [RoleTags -> 0..Cap] /\ failures' \in 0..MaxFailures /\ locked' \in BOOLEAN
      BY <1>1 DEF GInv, GTypes
    <2> QED
      BY <1>1, <1>2, <2>1 DEF SharedStep, Consume
  <1>3. CASE ~ Spent(req[q].r.nonce) /\ Consume(q) /\ Go(q, "clear")
    <2>1. RouteSafe(environment, req[q]) /\ adm[q].passed = {}
      BY <1>1, Unanswered DEF Safe, ClearSafe
    <2>2. \E c \in consumed' : c[1] = req[q].r.nonce /\ c[2] = q
      <3>1. <<req[q].r.nonce, q, now>> \in consumed'
        BY <1>3 DEF Consume
      <3>2. <<req[q].r.nonce, q, now>>[1] = req[q].r.nonce /\ <<req[q].r.nonce, q, now>>[2] = q
        OBVIOUS
      <3> QED
        BY <3>1, <3>2
    <2>3. \A x \in ReqRec : x.stage = "clear" /\ x.r = req[q].r =>
            RouteSafe(environment, x) /\ ServeSafe(q, x, adm[q], consumed') /\ ClearSafe(x, adm[q], fixtures')
      BY <1>1, <2>1, <2>2 DEF RouteSafe, ServeSafe, ClearSafe, AdminStages, Held
    <2>4. GoesTo(q, "clear")
      BY <1>1, <1>3, Unanswered, GoForm DEF Go, Stages
    <2>5. "clear" \in Stages \ {"idle", "audit", "answered"}
      BY DEF Stages
    <2>6. adm' = [adm EXCEPT ![q] = adm[q]] /\ adm[q] \in AdmRec
      BY <1>1, Unanswered
    <2>7. \E x : LocalStep(q, x, adm[q], 0)
      BY <1>1, <1>2, <1>3, <2>3, <2>4, <2>5, <2>6, GoStep
    <2> QED
      BY <1>2, <1>3, <2>7, StepInductive
  <1>4. CASE UNCHANGED consumed /\ AuditThenReply(q, 401)
    BY <1>1, <1>4, AuditsQuietly
  <1>5. CASE UNCHANGED consumed /\ Reply(q, 503)
    BY <1>1, <1>5, RepliesQuietly
  <1>6. CASE ~ Spent(req[q].r.nonce) /\ Consume(q) /\ Reply(q, 503)
    <2>1. \E x : LocalStep(q, x, adm[q], 0)
      BY <1>1, <1>2, <1>6, ReplyLocal
    <2> QED
      BY <1>2, <1>6, <2>1, StepInductive
  <1> QED
    BY <1>3, <1>4, <1>5, <1>6 DEF validate_and_consume_nonce

LEMMA ClearFailuresKeeps ==
    ASSUME GInv, NEW q \in Requests, clear_auth_failures(q)
    PROVE  GInv'
  <1> DEFINE y == [adm[q] EXCEPT !.served = TRUE]
  <1>1. /\ req[q].stage = "clear" /\ Go(q, "serve") /\ failures' \in {0, failures}
        /\ adm' = [adm EXCEPT ![q].served = TRUE]
        /\ UNCHANGED <<environment, context, carrier, salt, logger, now, count, locked, consumed, fixtures>>
        /\ UNCHANGED audits
    BY DEF clear_auth_failures, At, isolateVars
  <1>2. adm \in [Requests -> AdmRec] /\ adm[q] \in AdmRec
    BY DEF GInv, GTypes
  <1>3. y \in AdmRec /\ y.passed = adm[q].passed
    BY <1>2 DEF AdmRec
  <1>4. adm' = [adm EXCEPT ![q] = y]
    BY <1>1, <1>2 DEF AdmRec
  <1> HIDE DEF y
  <1>5. /\ RouteSafe(environment, req[q]) /\ adm[q].passed = {}
        /\ \E c \in consumed : c[1] = req[q].r.nonce /\ c[2] = q
    BY <1>1, Unanswered DEF Safe, ClearSafe, ServeSafe
  <1>6. \A x \in ReqRec : x.stage = "serve" /\ x.r = req[q].r =>
          RouteSafe(environment, x) /\ ServeSafe(q, x, y, consumed') /\ ClearSafe(x, y, fixtures')
    BY <1>1, <1>3, <1>5 DEF RouteSafe, ServeSafe, ClearSafe, AdminStages, Held
  <1>7. GoesTo(q, "serve")
    BY <1>1, Unanswered, GoForm DEF Go, Stages
  <1>8. "serve" \in Stages \ {"idle", "audit", "answered"}
    BY DEF Stages
  <1>9. \E x : LocalStep(q, x, y, 0)
    BY <1>1, <1>3, <1>4, <1>6, <1>7, <1>8, GoStep
  <1>10. SharedStep(q)
    <2>1. count' \in [RoleTags -> 0..Cap] /\ failures' \in 0..MaxFailures /\ locked' \in BOOLEAN
      BY <1>1, AdminAssumption DEF GInv, GTypes
    <2> QED
      BY <1>1, <2>1 DEF SharedStep
  <1> QED
    BY <1>9, <1>10, StepInductive

LEMMA ReplayKeeps ==
    ASSUME GInv, NEW q \in Requests, replay_pre_rotation_token(q) \/ test_fixtures_manifest(q)
    PROVE  GInv'
  <1>1. /\ req[q].stage = "serve" /\ Path(q) # Attestations
        /\ UNCHANGED <<environment, isolateVars, now, count, failures, locked, consumed, fixtures, adm>>
    BY DEF replay_pre_rotation_token, test_fixtures_manifest, At, Replay, Manifest, Attestations, adminVars
  <1>2. PICK status \in {200, 400, 503} : Reply(q, status)
    BY DEF replay_pre_rotation_token, test_fixtures_manifest
  <1> QED
    BY <1>1, <1>2, RepliesQuietly

LEMMA DeleteKeeps ==
    ASSUME GInv, NEW q \in Requests, delete_test_fixtures(q)
    PROVE  GInv'
  <1>1. /\ req[q].stage = "serve"
        /\ UNCHANGED <<environment, context, carrier, salt, logger, now, count, failures, locked, consumed, fixtures>>
        /\ UNCHANGED <<environment, isolateVars, now, count, failures, locked, consumed, fixtures>>
        /\ UNCHANGED audits
    BY DEF delete_test_fixtures, At, isolateVars
  <1>2. CASE Reply(q, 400) /\ UNCHANGED adm
    BY <1>1, <1>2, RepliesQuietly
  <1>3. CASE Reply(q, 503) /\ UNCHANGED adm
    BY <1>1, <1>3, RepliesQuietly
  <1>4. CASE Path(q) = Attestations /\ adm' = [adm EXCEPT ![q].due = fixtures] /\ Go(q, "list")
    <2> DEFINE y == [adm[q] EXCEPT !.due = fixtures]
    <2>1. adm \in [Requests -> AdmRec] /\ adm[q] \in AdmRec /\ fixtures \subseteq Fixtures
      BY DEF GInv, GTypes
    <2>2. y \in AdmRec /\ y.passed = adm[q].passed /\ y.served = adm[q].served /\ y.due = fixtures
      BY <2>1 DEF AdmRec
    <2>3. adm' = [adm EXCEPT ![q] = y]
      BY <1>4, <2>1 DEF AdmRec
    <2> HIDE DEF y
    <2>4. RouteSafe(environment, req[q]) /\ ServeSafe(q, req[q], adm[q], consumed) /\ adm[q].passed = {}
      BY <1>1, Unanswered DEF Safe, ClearSafe
    <2>5. \A x \in ReqRec : x.stage = "list" /\ x.r = req[q].r =>
            RouteSafe(environment, x) /\ ServeSafe(q, x, y, consumed') /\ ClearSafe(x, y, fixtures')
      BY <1>1, <1>4, <2>2, <2>4 DEF RouteSafe, ServeSafe, ClearSafe, RestOf, AdminStages, Held, Path
    <2>6. GoesTo(q, "list")
      BY <1>1, <1>4, Unanswered, GoForm DEF Go, Stages
    <2>7. "list" \in Stages \ {"idle", "audit", "answered"}
      BY DEF Stages
    <2>8. \E x : LocalStep(q, x, y, 0)
      BY <1>1, <2>2, <2>3, <2>5, <2>6, <2>7, GoStep
    <2> QED
      BY <1>1, <2>8, QuietStep
  <1> QED
    BY <1>2, <1>3, <1>4 DEF delete_test_fixtures

(* A page holds the least of the keys that are left, so the keys that are
   left after it lie past the new cursor. *)
LEMMA PageIsLeast ==
    ASSUME fixtures \subseteq Fixtures, NEW passed \in SUBSET Fixtures
    PROVE  /\ Listed(passed) \subseteq Rest(passed) /\ Rest(passed) \subseteq fixtures
           /\ Rest(passed) \subseteq Listed(passed) \cup RestOf(fixtures, passed \cup Listed(passed))
  <1> DEFINE R == Rest(passed)
             Below(k) == {j \in R : j < k}
  <1>1. R \subseteq fixtures /\ R \subseteq Nat /\ IsFiniteSet(R)
    <2>1. R \subseteq fixtures /\ R \subseteq Nat /\ R \subseteq Fixtures
      BY AdminAssumption DEF Rest
    <2> QED
      BY <2>1, AdminAssumption, FS_Subset
  <1>2. \A k \in R : \A j \in passed : k > j
    BY DEF Rest
  <1>3. Listed(passed) = {k \in R : Cardinality(Below(k)) < PageSize}
    BY DEF Listed
  <1> HIDE DEF R
  <1>4. ASSUME NEW k \in R, k \notin Listed(passed), NEW i \in Listed(passed)
        PROVE  k > i
    <2>0. i \in R /\ i \in Nat /\ k \in Nat
      BY <1>1, <1>3, <1>4
    <2> SUFFICES ASSUME k <= i PROVE FALSE
      BY <2>0
    <2>1. i \in R /\ Cardinality(Below(i)) < PageSize /\ ~ (Cardinality(Below(k)) < PageSize)
      BY <1>3, <1>4
    <2>2. Below(k) \subseteq Below(i)
      <3>1. ASSUME NEW j \in R, j < k PROVE j < i
        <4>1. j \in Nat
          BY <1>1
        <4> QED
          BY <2>0, <3>1, <4>1
      <3> QED
        BY <3>1
    <2>3. IsFiniteSet(Below(i))
      BY <1>1, FS_Subset
    <2>4. /\ Cardinality(Below(k)) <= Cardinality(Below(i))
          /\ Cardinality(Below(k)) \in Nat /\ Cardinality(Below(i)) \in Nat
      <3> HIDE DEF Below
      <3> QED
        BY <2>2, <2>3, FS_Subset, FS_CardinalityType
    <2> QED
      BY <2>1, <2>4, AdminAssumption
  <1>5. R \subseteq Listed(passed) \cup RestOf(fixtures, passed \cup Listed(passed))
    BY <1>1, <1>2, <1>4 DEF RestOf
  <1> QED
    BY <1>1, <1>3, <1>5 DEF R

LEMMA ListKeeps ==
    ASSUME GInv, NEW q \in Requests, list(q)
    PROVE  GInv'
  <1> DEFINE page == Listed(adm[q].passed)
             y == [adm[q] EXCEPT !.page = page, !.complete = Complete(q), !.passed = @ \cup page]
  <1>1. /\ req[q].stage = "list"
        /\ UNCHANGED <<environment, context, carrier, salt, logger, now, count, failures, locked, consumed, fixtures>>
        /\ UNCHANGED <<environment, isolateVars, now, count, failures, locked, consumed, fixtures>>
        /\ UNCHANGED audits
    BY DEF list, At, isolateVars
  <1>2. CASE Reply(q, 503) /\ UNCHANGED adm
    BY <1>1, <1>2, RepliesQuietly
  <1>3. CASE /\ adm' = [adm EXCEPT ![q].page = page, ![q].complete = Complete(q), ![q].passed = @ \cup page]
             /\ Go(q, "delete")
    <2>1. adm \in [Requests -> AdmRec] /\ adm[q] \in AdmRec /\ fixtures \subseteq Fixtures
      BY DEF GInv, GTypes
    <2>2. adm[q].passed \in SUBSET Fixtures
      BY <2>1 DEF AdmRec
    <2>3. /\ page \subseteq Rest(adm[q].passed) /\ Rest(adm[q].passed) \subseteq fixtures
          /\ Rest(adm[q].passed) \subseteq page \cup RestOf(fixtures, adm[q].passed \cup page)
          /\ Complete(q) \in BOOLEAN /\ (Complete(q) => page = Rest(adm[q].passed))
      BY <2>1, <2>2, PageIsLeast DEF Complete, HasCursor, list_complete
    <2> HIDE DEF page
    <2>4. /\ y \in AdmRec /\ y.passed = adm[q].passed \cup page /\ y.served = adm[q].served
          /\ y.due = adm[q].due /\ y.page = page /\ y.complete = Complete(q)
      BY <2>1, <2>2, <2>3 DEF AdmRec
    <2>5. adm' = [adm EXCEPT ![q] = y]
      BY <1>3, <2>1 DEF AdmRec
    <2> HIDE DEF y
    <2>6. /\ RouteSafe(environment, req[q]) /\ ServeSafe(q, req[q], adm[q], consumed)
          /\ adm[q].due \cap fixtures \subseteq RestOf(fixtures, adm[q].passed)
      BY <1>1, Unanswered DEF Safe, ClearSafe
    <2>7. RestOf(fixtures, adm[q].passed) = Rest(adm[q].passed)
      BY DEF RestOf, Rest
    <2>8. /\ y.due \cap fixtures' \subseteq y.page \cup RestOf(fixtures', y.passed)
          /\ y.complete => y.due \cap fixtures' \subseteq y.page
      BY <1>1, <2>3, <2>4, <2>6, <2>7
    <2>9. \A x \in ReqRec : x.stage = "delete" /\ x.r = req[q].r =>
            RouteSafe(environment, x) /\ ServeSafe(q, x, y, consumed') /\ ClearSafe(x, y, fixtures')
      BY <1>1, <2>4, <2>6, <2>8 DEF RouteSafe, ServeSafe, ClearSafe, AdminStages, Held
    <2>10. GoesTo(q, "delete")
      BY <1>1, <1>3, Unanswered, GoForm DEF Go, Stages
    <2>11. "delete" \in Stages \ {"idle", "audit", "answered"}
      BY DEF Stages
    <2>12. \E x : LocalStep(q, x, y, 0)
      BY <1>1, <2>4, <2>5, <2>9, <2>10, <2>11, GoStep
    <2> QED
      BY <1>1, <2>12, QuietStep
  <1> QED
    BY <1>2, <1>3 DEF list

LEMMA ClearKeeps ==
    ASSUME GInv, NEW q \in Requests, clear_attestations_test_prefix(q)
    PROVE  GInv'
  <1> DEFINE page == adm[q].page
  <1>1. /\ req[q].stage = "delete"
        /\ UNCHANGED <<environment, context, carrier, salt, logger, now, count, failures, locked, consumed>>
        /\ UNCHANGED <<environment, isolateVars, now, count, failures, locked, consumed>>
        /\ UNCHANGED audits
    BY DEF clear_attestations_test_prefix, At, isolateVars
  <1>2. /\ req \in [Requests -> ReqRec] /\ req[q] \in ReqRec /\ req[q].stage # "idle"
        /\ adm \in [Requests -> AdmRec] /\ adm[q] \in AdmRec /\ page \subseteq Fixtures
        /\ RouteSafe(environment, req[q]) /\ ServeSafe(q, req[q], adm[q], consumed)
        /\ AnswerSafe(environment, req[q]) /\ AuditSafe(req[q], 0)
        /\ adm[q].due \cap fixtures \subseteq page \cup RestOf(fixtures, adm[q].passed)
        /\ adm[q].complete => adm[q].due \cap fixtures \subseteq page
    BY <1>1, Unanswered DEF Safe, ClearSafe, AdmRec
  <1>3. CASE /\ fixtures' = fixtures \ {Min(page)} /\ adm' = [adm EXCEPT ![q].page = page \ {Min(page)}]
             /\ UNCHANGED req
    <2> DEFINE k == Min(page)
               y == [adm[q] EXCEPT !.page = page \ {k}]
    <2>1. fixtures' = fixtures \ {k} /\ adm' = [adm EXCEPT ![q].page = page \ {k}]
      BY <1>3
    <2> HIDE DEF k
    <2>2. /\ y \in AdmRec /\ y.page = page \ {k} /\ y.passed = adm[q].passed /\ y.due = adm[q].due
          /\ y.served = adm[q].served /\ y.complete = adm[q].complete /\ y.read = adm[q].read
      BY <1>2 DEF AdmRec
    <2>3. adm' = [adm EXCEPT ![q] = y]
      BY <1>2, <2>1 DEF AdmRec
    <2> HIDE DEF y
    <2>4. RestOf(fixtures, adm[q].passed) \ {k} \subseteq RestOf(fixtures', adm[q].passed)
      BY <2>1 DEF RestOf
    <2>5. /\ y.due \cap fixtures' \subseteq y.page \cup RestOf(fixtures', y.passed)
          /\ y.complete => y.due \cap fixtures' \subseteq y.page
      BY <1>2, <2>1, <2>2, <2>4
    <2>6. ServeSafe(q, req[q], y, consumed') /\ ClearSafe(req[q], y, fixtures')
      BY <1>1, <1>2, <2>2, <2>5 DEF ServeSafe, ClearSafe
    <2>7. Safe(environment, q, req[q], y, 0, consumed', fixtures')
      BY <1>2, <2>6 DEF Safe
    <2>8. req' = [req EXCEPT ![q] = req[q]] /\ audits' = [audits EXCEPT ![q] = 0]
      BY <1>1, <1>2, <1>3, Unanswered
    <2>9. LocalStep(q, req[q], y, 0)
      BY <1>2, <2>2, <2>3, <2>7, <2>8, OwedStages DEF LocalStep
    <2>10. SharedStep(q)
      <3>1. count' \in [RoleTags -> 0..Cap] /\ failures' \in 0..MaxFailures /\ locked' \in BOOLEAN
        BY <1>1 DEF GInv, GTypes
      <3> QED
        BY <1>1, <2>1, <3>1 DEF SharedStep
    <2> QED
      BY <2>9, <2>10, StepInductive
  <1>4. CASE Reply(q, 503) /\ UNCHANGED <<fixtures, adm>>
    BY <1>1, <1>4, RepliesQuietly
  <1>5. CASE page = {} /\ adm[q].complete /\ Reply(q, 200) /\ UNCHANGED <<fixtures, adm>>
    <2>1. adm[q].due \cap fixtures = {}
      BY <1>2, <1>5
    <2> QED
      BY <1>1, <1>5, <2>1, RepliesQuietly
  <1>6. CASE page = {} /\ Go(q, "list") /\ UNCHANGED <<fixtures, adm>>
    <2>1. \A x \in ReqRec : x.stage = "list" /\ x.r = req[q].r =>
            RouteSafe(environment, x) /\ ServeSafe(q, x, adm[q], consumed') /\ ClearSafe(x, adm[q], fixtures')
      BY <1>1, <1>2, <1>6 DEF RouteSafe, ServeSafe, ClearSafe, AdminStages, Held
    <2>2. GoesTo(q, "list")
      BY <1>1, <1>6, Unanswered, GoForm DEF Go, Stages
    <2>3. "list" \in Stages \ {"idle", "audit", "answered"}
      BY DEF Stages
    <2>4. adm' = [adm EXCEPT ![q] = adm[q]]
      BY <1>2, <1>6
    <2>5. \E x : LocalStep(q, x, adm[q], 0)
      BY <1>1, <1>2, <1>6, <2>1, <2>2, <2>3, <2>4, GoStep
    <2> QED
      BY <1>1, <1>6, <2>5, QuietStep
  <1> QED
    BY <1>3, <1>4, <1>5, <1>6 DEF clear_attestations_test_prefix

(* A key that is seeded is due to nobody any more. *)
LEMMA SeedKeeps ==
    ASSUME GInv, NEW k \in Fixtures, seed(k)
    PROVE  GInv'
  <1> DEFINE Y(p) == [adm[p] EXCEPT !.due = @ \ {k}]
  <1>1. /\ fixtures' = fixtures \cup {k} /\ adm' = [p \in Requests |-> Y(p)]
        /\ UNCHANGED <<environment, req, context, salt, logger, audits, carrier, now, count, failures, locked, consumed>>
    BY DEF seed, gatewayVars, isolateVars
  <1>2. GTypes /\ AllSafe
    BY DEF GInv
  <1>3. \A p \in Requests :
          /\ adm'[p] = Y(p) /\ Y(p) \in AdmRec /\ Y(p).due = adm[p].due \ {k} /\ Y(p).passed = adm[p].passed
          /\ Y(p).page = adm[p].page /\ Y(p).complete = adm[p].complete /\ Y(p).served = adm[p].served
          /\ Y(p).read = adm[p].read
    <2> SUFFICES ASSUME NEW p \in Requests
                 PROVE  /\ adm'[p] = Y(p) /\ Y(p) \in AdmRec /\ Y(p).due = adm[p].due \ {k}
                        /\ Y(p).passed = adm[p].passed /\ Y(p).page = adm[p].page
                        /\ Y(p).complete = adm[p].complete /\ Y(p).served = adm[p].served
                        /\ Y(p).read = adm[p].read
      OBVIOUS
    <2>1. adm[p] \in AdmRec
      BY <1>2 DEF GTypes
    <2>2. adm'[p] = Y(p)
      BY <1>1
    <2> QED
      BY <2>1, <2>2 DEF AdmRec
  <1>4. adm' \in [Requests -> AdmRec]
    BY <1>1, <1>3
  <1>5. ASSUME NEW p \in Requests
        PROVE  Safe(environment, p, req[p], adm'[p], audits[p], consumed, fixtures')
    <2>1. Safe(environment, p, req[p], adm[p], audits[p], consumed, fixtures)
      BY <1>2 DEF AllSafe
    <2>2. /\ adm'[p].due = adm[p].due \ {k} /\ adm'[p].passed = adm[p].passed /\ adm'[p].page = adm[p].page
          /\ adm'[p].complete = adm[p].complete /\ adm'[p].served = adm[p].served /\ adm'[p].read = adm[p].read
      BY <1>3
    <2>3. adm'[p].due \cap fixtures' \subseteq adm[p].due \cap fixtures
      BY <1>1, <2>2
    <2>4. RestOf(fixtures, adm[p].passed) \subseteq RestOf(fixtures', adm[p].passed)
      BY <1>1 DEF RestOf
    <2>5. ClearSafe(req[p], adm'[p], fixtures')
      BY <2>1, <2>2, <2>3, <2>4 DEF Safe, ClearSafe
    <2>6. ServeSafe(p, req[p], adm'[p], consumed)
      BY <2>1, <2>2 DEF Safe, ServeSafe
    <2> QED
      BY <2>1, <2>5, <2>6 DEF Safe
  <1>6. AllSafe'
    BY <1>1, <1>5 DEF AllSafe
  <1>7. GTypes'
    BY <1>1, <1>2, <1>4 DEF GTypes
  <1>8. ContextInv' /\ ConsumedInv' /\ AuditCorrelates'
    BY <1>1 DEF GInv, ContextInv, ContextOnce, ConsumedInv, NonceSpentByHolder, AuditCorrelates, Apart
  <1> QED
    BY <1>6, <1>7, <1>8 DEF GInv

(* Time only ages the nonces. *)
LEMMA TickKeeps == ASSUME GInv, Tick PROVE GInv'
  <1>1. /\ now' = now + 1 /\ now < MaxTime
        /\ UNCHANGED <<environment, req, context, salt, logger, audits, carrier>>
        /\ UNCHANGED <<count, failures, locked, consumed, fixtures, adm>>
    BY DEF Tick, gatewayVars, isolateVars
  <1>2. now' \in 0..MaxTime /\ 0..now \subseteq 0..now'
    BY <1>1, AdminAssumption DEF GInv, GTypes
  <1>3. consumed' \subseteq Nonces \X Requests \X (0..now')
    BY <1>1, <1>2 DEF GInv, GTypes
  <1>4. GTypes' /\ AllSafe'
    BY <1>1, <1>2, <1>3 DEF GInv, GTypes, AllSafe
  <1>5. ContextInv' /\ ConsumedInv' /\ AuditCorrelates'
    BY <1>1 DEF GInv, ContextInv, ContextOnce, ConsumedInv, NonceSpentByHolder, AuditCorrelates, Apart
  <1> QED
    BY <1>4, <1>5 DEF GInv

-----------------------------------------------------------------------------
(* The invariant. *)

LEMMA GInvInit == Init => GInv
  <1> SUFFICES ASSUME Init PROVE GInv
    OBVIOUS
  <1>1. PICK load \in Workloads : req = [q \in Requests |-> NotArrived(load[q])]
    BY DEF Init, GatewayInit
  <1>2. \A q \in Requests : load[q] \in AllR
    BY DEF AllR
  <1>3. NoAnswer \in Answers
    BY DEF NoAnswer, Answers, Statuses
  <1>4. \A q \in Requests :
          /\ req[q] \in ReqRec /\ req[q].stage = "idle" /\ req[q].answer = NoAnswer /\ req[q].owed = FALSE
    BY <1>1, <1>2, <1>3 DEF NotArrived, ReqRec, Stages
  <1>5. req \in [Requests -> ReqRec]
    BY <1>1, <1>4
  <1>6. NoLocals \in AdmRec /\ NoLocals.served = FALSE /\ NoLocals.passed = {}
    BY AdminAssumption DEF NoLocals, AdmRec
  <1>7. /\ adm = [q \in Requests |-> NoLocals] /\ audits = [q \in Requests |-> 0]
        /\ carrier = [q \in Requests |-> Nobody] /\ context = Nobody /\ salt = NoSalt /\ logger = NoSalt
        /\ count = [t \in RoleTags |-> 0] /\ failures \in 0..(MaxFailures - 1) /\ locked = FALSE
        /\ now = 0 /\ consumed = {} /\ fixtures = Fixtures /\ environment \in Environments
    BY DEF Init, GatewayInit
  <1>8. adm \in [Requests -> AdmRec] /\ audits \in [Requests -> 0..1] /\ count \in [RoleTags -> 0..Cap]
    BY <1>6, <1>7, AdminAssumption
  <1>9. failures \in 0..MaxFailures /\ locked \in BOOLEAN
    <2>1. failures \in 0..MaxFailures
      BY <1>7, AdminAssumption
    <2> QED
      BY <1>7, <2>1
  <1>10. GTypes
    BY <1>5, <1>7, <1>8, <1>9, AdminAssumption DEF GTypes
  <1>11. ASSUME NEW q \in Requests
         PROVE  Safe(environment, q, req[q], adm[q], audits[q], consumed, fixtures)
    <2>1. adm[q] = NoLocals /\ audits[q] = 0
      BY <1>7
    <2> QED
      BY <1>4, <1>6, <2>1 DEF Safe, AnswerSafe, AuditSafe, RouteSafe, ServeSafe, ClearSafe, AdminStages, Held
  <1>12. ContextInv /\ ConsumedInv /\ AuditCorrelates
    BY <1>7 DEF ContextInv, ContextOnce, ConsumedInv, NonceSpentByHolder, AuditCorrelates
  <1> QED
    BY <1>10, <1>11, <1>12 DEF GInv, AllSafe

LEMMA GInvStutters == ASSUME GInv, UNCHANGED vars PROVE GInv'
  <1>1. UNCHANGED <<environment, req, context, salt, logger, audits, carrier>>
        /\ UNCHANGED <<now, count, failures, locked, consumed, fixtures, adm>>
    BY DEF vars, gatewayVars, isolateVars, adminVars
  <1>2. GTypes' /\ AllSafe'
    BY <1>1 DEF GInv, GTypes, AllSafe
  <1>3. ContextInv' /\ ConsumedInv' /\ AuditCorrelates'
    BY <1>1 DEF GInv, ContextInv, ContextOnce, ConsumedInv, NonceSpentByHolder, AuditCorrelates, Apart
  <1> QED
    BY <1>2, <1>3 DEF GInv

LEMMA GInvStep == GInv /\ [Next]_vars => GInv'
  <1> SUFFICES ASSUME GInv, [Next]_vars PROVE GInv'
    OBVIOUS
  <1>1. CASE GatewayNext /\ UNCHANGED adminVars
    <2>1. PICK q \in Requests :
            \/ arrive(q) \/ build_privacy_context(q) \/ resolve_ip_hash_salt(q)
            \/ global_ip_limit(q) \/ handle(q) \/ audit_log(q) \/ wait_until(q)
      BY <1>1 DEF GatewayNext
    <2> QED
      BY <1>1, <2>1, ArriveKeeps, PrivacyKeeps, SaltKeeps, LimitKeeps, HandleKeeps, AuditKeeps, WaitUntilKeeps
  <1>2. CASE AdminNext
    <2>1. ASSUME NEW q \in Requests,
                 \/ handle_internal_version(q) \/ admin_rate_limit_check(q) \/ cap_put(q) \/ is_locked_out(q)
                 \/ authenticate_admin_endpoint(q) \/ record_admin_auth_failure(q)
                 \/ validate_and_consume_nonce(q) \/ clear_auth_failures(q)
          PROVE  GInv'
      BY <2>1, VersionKeeps, CapKeeps, CapPutKeeps, LockedOutKeeps, CredentialKeeps, FailureKeeps, NonceKeeps,
         ClearFailuresKeeps
    <2>2. ASSUME NEW q \in Requests,
                 \/ replay_pre_rotation_token(q) \/ test_fixtures_manifest(q)
                 \/ delete_test_fixtures(q) \/ list(q) \/ clear_attestations_test_prefix(q)
          PROVE  GInv'
      BY <2>2, ReplayKeeps, DeleteKeeps, ListKeeps, ClearKeeps
    <2>3. ASSUME NEW k \in Fixtures, seed(k) PROVE GInv'
      BY <2>3, SeedKeeps
    <2> QED
      BY <1>2, <2>1, <2>2, <2>3, TickKeeps DEF AdminNext
  <1>3. CASE UNCHANGED vars
    BY <1>3, GInvStutters
  <1> QED
    BY <1>1, <1>2, <1>3 DEF Next

LEMMA GInvHolds == Spec => []GInv
  BY GInvInit, GInvStep, PTL DEF Spec

-----------------------------------------------------------------------------
(* The results. *)

(* Every variable keeps its type: the statuses and headers of the answers,
   the counters within the cap and the threshold, at most one audit event per
   request. *)
THEOREM GatewayTypeCorrect == Spec => []TypeOK
  <1>1. GInv => TypeOK
    <2> SUFFICES ASSUME GInv PROVE TypeOK
      OBVIOUS
    <2>1. GTypes
      BY DEF GInv
    <2>2. ASSUME NEW q \in Requests
          PROVE  /\ req[q].stage \in Stages /\ req[q].r.path \in Paths
                 /\ req[q].salt \in Salts \cup {NoSalt} /\ req[q].answer \in Answers
                 /\ audits[q] \in 0..1 /\ carrier[q] \in Requests \cup {Nobody}
                 /\ adm[q].page \cup adm[q].due \subseteq Fixtures /\ adm[q].read \in 0..Cap
      <3>1. req[q] \in ReqRec /\ adm[q] \in AdmRec /\ audits[q] \in 0..1 /\ carrier[q] \in Requests \cup {Nobody}
        BY <2>1 DEF GTypes
      <3>2. req[q].r \in AllR
        BY <3>1 DEF ReqRec
      <3>3. req[q].r.path \in Paths
        BY <3>2, AdminAssumption DEF AllR
      <3> QED
        BY <3>1, <3>3 DEF ReqRec, AdmRec
    <2> QED
      BY <2>1, <2>2 DEF TypeOK, GTypes
  <1> QED
    BY <1>1, GInvHolds, PTL

(* A Context that was taken from WORKER_CTX carries the event of one refusal
   only, whichever requests arrive and are refused in between. *)
THEOREM ContextOnceHolds == Spec => []ContextOnce
  <1>1. GInv => ContextOnce
    BY DEF GInv, ContextInv
  <1> QED
    BY <1>1, GInvHolds, PTL

(* When the answer to a refused request has left, its audit event was sent or
   handed over exactly once, and no other answer has one. *)
THEOREM AuditOnceHolds == Spec => []AuditOnce
  <1>1. GInv => AuditOnce
    BY DEF GInv, AllSafe, Safe, AuditSafe, AuditOnce, Answered
  <1> QED
    BY <1>1, GInvHolds, PTL

(* The audit logger hashes with the salt the isolate keeps, whichever requests
   resolved one at the same time. *)
THEOREM AuditCorrelatesHolds == Spec => []AuditCorrelates
  <1>1. GInv => AuditCorrelates
    BY DEF GInv
  <1> QED
    BY <1>1, GInvHolds, PTL

(* An answer with a status is one that may leave. *)
LEMMA AnswersGood ==
    ASSUME GInv, NEW q \in Requests, req[q].answer.status # 0
    PROVE  GoodAnswer(environment, req[q].r, req[q].answer)
  BY DEF GInv, AllSafe, Safe, AnswerSafe, NoAnswer

(* The tables of OPTIONS, of the 405 check and of the router agree, for
   whatever methods and paths the requests have: OPTIONS names itself and what
   a 405 names, and no method of the router is missing from either. *)
THEOREM MethodsAgreeHolds == Spec => []MethodsAgree
  <1>1. \A e, path : options_allow(e, path) = allowed_methods_for_path(e, path) \cup {"OPTIONS"}
    BY DEF options_allow, allowed_methods_for_path, BelowFixtures, FixtureClass, SandboxPath
  <1>2. \A e, path : \A m \in Methods : router(e, m, path) => m \in options_allow(e, path)
    BY DEF router, options_allow, GetPaths, PostPaths, BelowFixtures, FixtureClass, SandboxPath
  <1>3. GInv => MethodsAgree
    <2> SUFFICES ASSUME GInv, NEW p \in Requests, NEW q \in Requests
                 PROVE  /\ req[p].answer.status = 204 /\ req[q].answer.status = 405
                             /\ req[p].r.path = req[q].r.path =>
                             req[p].answer.allow = req[q].answer.allow \cup {"OPTIONS"}
                        /\ req[p].answer.status = 405 => ~ router(environment, req[p].r.method, req[p].r.path)
                        /\ req[p].answer.status = 204 =>
                             {m \in Methods : router(environment, m, req[p].r.path)} \subseteq req[p].answer.allow
      BY DEF MethodsAgree
    <2>1. req[p].answer.status # 0 => GoodAnswer(environment, req[p].r, req[p].answer)
      BY AnswersGood
    <2>2. req[q].answer.status # 0 => GoodAnswer(environment, req[q].r, req[q].answer)
      BY AnswersGood
    <2> QED
      BY <1>1, <1>2, <2>1, <2>2 DEF GoodAnswer
  <1> QED
    BY <1>3, GInvHolds, PTL

(* The two header paths agree: a browser that may read the routed answer may
   read the limiter's, and nothing sensitive may be stored on either. *)
THEOREM HeadersAgreeHolds == Spec => []HeadersAgree
  <1>1. \A r, s : r.path = s.path /\ r.origin = s.origin => add_cors_headers_early(r) = add_cors_headers_early(s)
    BY DEF add_cors_headers_early
  <1>2. ASSUME GInv PROVE CorsParity
    <2> SUFFICES ASSUME NEW p \in Requests, NEW q \in Requests,
                        req[p].stage = "answered" /\ req[p].answer.status \in {429, 503},
                        req[q].stage = "answered" /\ req[q].answer.status \in {200, 204, 405},
                        req[p].r.path = req[q].r.path /\ req[p].r.origin = req[q].r.origin
                 PROVE  req[p].answer.cors = req[q].answer.cors
      BY DEF CorsParity
    <2>1. /\ GoodAnswer(environment, req[p].r, req[p].answer)
          /\ GoodAnswer(environment, req[q].r, req[q].answer)
      BY <1>2, AnswersGood
    <2>2. /\ req[p].answer.cors = add_cors_headers_early(req[p].r)
          /\ req[q].answer.cors = add_cors_headers_early(req[q].r)
      BY <2>1 DEF GoodAnswer
    <2> QED
      BY <1>1, <2>2
  <1>3. ASSUME GInv PROVE SensitiveNotStored
    <2> SUFFICES ASSUME NEW q \in Requests, req[q].stage = "answered"
                 PROVE  req[q].answer.cache = "no-store" \/ req[q].r.path \in Storable
      BY DEF SensitiveNotStored, Answered, Storable
    <2> QED
      BY <1>3 DEF GInv, AllSafe, Safe, AnswerSafe, GoodAnswer
  <1>4. GInv => HeadersAgree
    BY <1>2, <1>3 DEF HeadersAgree
  <1> QED
    BY <1>4, GInvHolds, PTL

(* A nonce authorises one administrative operation within its TTL, however
   its requests interleave, are repeated, or lose NonceDO's answer. *)
THEOREM OneServicePerNonceHolds == Spec => []OneServicePerNonce
  <1>1. GInv => OneServicePerNonce
    <2> SUFFICES ASSUME GInv, NEW p \in Requests, NEW q \in Requests, adm[p].served, adm[q].served,
                        req[p].r.nonce = req[q].r.nonce, p # q
                 PROVE  \E c, d \in consumed : c[2] = p /\ d[2] = q /\ Apart(c[3], d[3])
      BY DEF OneServicePerNonce
    <2>1. PICK c \in consumed : c[1] = req[p].r.nonce /\ c[2] = p
      BY DEF GInv, AllSafe, Safe, ServeSafe
    <2>2. PICK d \in consumed : d[1] = req[q].r.nonce /\ d[2] = q
      BY DEF GInv, AllSafe, Safe, ServeSafe
    <2>3. c # d /\ c[1] = d[1]
      BY <2>1, <2>2
    <2>4. Apart(c[3], d[3])
      BY <2>3 DEF GInv, ConsumedInv
    <2> QED
      BY <2>1, <2>2, <2>4
  <1> QED
    BY <1>1, GInvHolds, PTL

(* A nonce is spent only by an internal caller with the service token, on a
   route and with a method that is registered. *)
THEOREM NonceSpentByHolderHolds == Spec => []NonceSpentByHolder
  <1>1. GInv => NonceSpentByHolder
    BY DEF GInv, ConsumedInv
  <1> QED
    BY <1>1, GInvHolds, PTL

(* When the clean-up reports success, no fixture is left that was there when
   it began and was not seeded since, for any page size and number of keys and
   of clean-ups at the same time. *)
THEOREM FixturesClearedHolds == Spec => []FixturesCleared
  <1>1. GInv => FixturesCleared
    BY DEF GInv, AllSafe, Safe, ClearSafe, FixturesCleared, Answered, Path
  <1> QED
    BY <1>1, GInvHolds, PTL
============================================================================
