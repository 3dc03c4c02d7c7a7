--------------------------- MODULE SignedRequests ---------------------------
(***************************************************************************)
(* Replay protection of signed requests (POST /v1/attestation): a request  *)
(* carries a signed timestamp and nonce; the handler first compares the    *)
(* timestamp with its clock and only later, after other awaits, asks       *)
(* NonceDO.  Deliveries may be duplicated and delayed, and several are     *)
(* handled at once.  Other endpoints use the same shard (Request).         *)
(***************************************************************************)
EXTENDS NonceDO

CONSTANTS
    Requests,     \* signed requests
    NonceOf,      \* the nonce each carries
    TimestampOf,  \* the timestamp each carries
    Deliveries,   \* handler invocations that may be under way at once
    Window,       \* TIMESTAMP_WINDOW_SECONDS
    NonceTtl,     \* NONCE_TTL_SECONDS
    Processing    \* longest time from timestamp check to nonce check

ASSUME ReplayAssumption ==
    /\ NonceOf \in [Requests -> Nonces]
    /\ TimestampOf \in [Requests -> Nat]
    /\ Window \in Nat
    /\ NonceTtl \in Nat
    /\ Processing \in Nat
    /\ 2 * Window + Processing <= NonceTtl

VARIABLES
    handling,  \* per delivery: the request and when its timestamp was checked
    accepted   \* history: requests whose nonce was accepted, with how often

reqVars == <<now, expires, alarm, promise, replayed, handling, accepted>>

Idle == [at |-> Absent]
Handling == [at : Nat, request : Requests]

ReqInit ==
    /\ NonceInit
    /\ handling = [d \in Deliveries |-> Idle]
    /\ accepted = [q \in Requests |-> 0]

(* Mutant: timestamps from the future are taken without limit. *)
validate_timestamp_NoFuture(timestamp) == now <= timestamp + Window

(* The timestamp is within the window, on either side of the clock. *)
validate_timestamp(timestamp) ==
    /\ now <= timestamp + Window
    /\ timestamp <= now + Window

(* A copy of q arrives, first or again, and passes the timestamp check. *)
Receive(d, q) ==
    /\ now <= LastRequest
    /\ handling[d] = Idle
    /\ validate_timestamp(TimestampOf[q])
    /\ handling' = [handling EXCEPT ![d] = [at |-> now, request |-> q]]
    /\ UNCHANGED <<now, expires, alarm, promise, replayed, accepted>>

InTime(d) == handling[d] # Idle /\ now <= handling[d].at + Processing

(* The handler asks NonceDO and goes on only if the nonce was stored. *)
validate_and_consume_nonce(d) ==
    /\ InTime(d)
    /\ LET q == handling[d].request IN
       \E outcome \in Outcomes(NonceOf[q]) :
         /\ check_and_set_internal(NonceOf[q], NonceTtl, outcome)
         /\ accepted' = IF outcome = "stored"
                          THEN [accepted EXCEPT ![q] = @ + 1] ELSE accepted
    /\ handling' = [handling EXCEPT ![d] = Idle]

(* The handler answers without accepting: nonce already used, a storage
   error, or the platform ended it. *)
Refuse(d) ==
    /\ handling[d] # Idle
    /\ handling' = [handling EXCEPT ![d] = Idle]
    /\ UNCHANGED <<now, expires, alarm, promise, replayed, accepted>>

(* What the shard does apart from these requests. *)
Shard == NonceNext /\ UNCHANGED <<handling, accepted>>

ReqNext ==
    \/ \E d \in Deliveries :
         \/ \E q \in Requests : Receive(d, q)
         \/ validate_and_consume_nonce(d)
         \/ Refuse(d)
    \/ Shard

ReqSpec == ReqInit /\ [][ReqNext]_reqVars

(* Time passes and a due alarm is delivered; no handler has to go on. *)
FairReqSpec ==
    /\ ReqSpec
    /\ WF_reqVars(Tick /\ UNCHANGED <<handling, accepted>>)
    /\ WF_reqVars(alarm_handler /\ UNCHANGED <<handling, accepted>>)

-----------------------------------------------------------------------------

(* Every variable has its type. *)
ReqTypeOK ==
    /\ NonceTypeOK
    /\ handling \in [Deliveries -> Handling \cup {Idle}]
    /\ accepted \in [Requests -> Nat]

(* However often and however late its copies arrive, a signed request is
   accepted at most once: the nonce outlives every copy whose timestamp can
   still pass, including those already past that check. *)
AcceptedOnce == \A q \in Requests : accepted[q] <= 1
=============================================================================
