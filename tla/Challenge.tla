------------------------------ MODULE Challenge ------------------------------
(***************************************************************************)
(* YubiKey challenges: created once, kept in KV, and presented by request  *)
(* handlers that run concurrently.  A handler first consumes the challenge *)
(* at ResourceLockDO (LockService), then reads it from KV, marks it used   *)
(* there, and only then verifies a response against it.  KV is eventually  *)
(* consistent: for KvLag seconds a read may still miss a write.            *)
(***************************************************************************)
EXTENDS Integers, FiniteSets

CONSTANTS
    Challenges,  \* challenge ids (random, so never created twice)
    Handlers,    \* requests presenting a challenge
    Ttl,         \* CHALLENGE_TTL_SECONDS
    DoTtl,       \* resource_ttl_seconds("challenge")
    KvLag,       \* seconds until every KV read sees a write
    Processing,  \* bound: seconds a handler takes once it is granted
    Faults,      \* whether KV and Durable Object calls may fail
    MaxTime      \* bound: last second considered

ASSUME ChallengeAssumption ==
    /\ Ttl \in Nat \ {0}
    /\ DoTtl \in Nat \ {0}
    /\ KvLag \in Nat
    /\ Processing \in Nat
    /\ Faults \in BOOLEAN
    /\ MaxTime \in Nat

VARIABLES
    now,        \* time in seconds
    expires,    \* expires_at of each challenge, or Never
    storedAt,   \* when its KV put was executed, or Never
    markedAt,   \* when it was first marked used in KV, or Never
    lastGrant,  \* when ResourceLockDO last granted it (LockService)
    pc,         \* where each handler is
    chal,       \* the challenge a handler presents
    since,      \* when the handler was granted it
    served,     \* history: handlers a challenge was returned to
    unlucky     \* history: challenges a fault or the KV lag cost their grant

vars == <<now, expires, storedAt, markedAt, lastGrant, pc, chal, since, served,
          unlucky>>

Never == -1
Idle == "no challenge"

(* The part of LockService this module uses. *)
Window == [c \in Challenges |-> DoTtl]
resettable == FALSE
leases == {}
L == INSTANCE LockService WITH
       Resources <- Challenges, LockNames <- {}, Tokens <- {},
       MaxLeaseTtl <- 0, Sound <- Challenges

Init ==
    /\ now = 0
    /\ expires = [c \in Challenges |-> Never]
    /\ storedAt = [c \in Challenges |-> Never]
    /\ markedAt = [c \in Challenges |-> Never]
    /\ lastGrant = [c \in Challenges |-> Never]
    /\ pc = [h \in Handlers |-> "start"]
    /\ chal = [h \in Handlers |-> Idle]
    /\ since = [h \in Handlers |-> 0]
    /\ served = [c \in Challenges |-> {}]
    /\ unlucky = {}

Goto(h, stage) == pc' = [pc EXCEPT ![h] = stage]

-----------------------------------------------------------------------------
(* Creation: the record is stamped, then put; only then is its id sent out. *)

generate_yubikey_challenge(c) ==
    /\ expires[c] = Never
    /\ expires' = [expires EXCEPT ![c] = now + Ttl]
    /\ UNCHANGED <<now, storedAt, markedAt, lastGrant, pc, chal, since, served,
                   unlucky>>

(* If the put fails the id is never sent out. *)
create_challenge(c) ==
    /\ expires[c] # Never
    /\ storedAt[c] = Never
    /\ storedAt' = [storedAt EXCEPT ![c] = now]
    /\ UNCHANGED <<now, expires, markedAt, lastGrant, pc, chal, since, served,
                   unlucky>>

-----------------------------------------------------------------------------
(* get_and_consume_challenge, one action per await. *)

(* Ask ResourceLockDO; a refusal or an error ends the request.  The error may
   come after the object has recorded the consumption. *)
consume_resource_once(h, c) ==
    /\ pc[h] = "start"
    /\ storedAt[c] # Never
    /\ chal' = [chal EXCEPT ![h] = c]
    /\ \/ /\ L!MayGrant(c)
          /\ lastGrant' = [lastGrant EXCEPT ![c] = now]
          /\ since' = [since EXCEPT ![h] = now]
          /\ Goto(h, "read")
          /\ UNCHANGED unlucky
       \/ /\ Faults /\ L!MayGrant(c)
          /\ lastGrant' = [lastGrant EXCEPT ![c] = now]
          /\ unlucky' = unlucky \cup {c}
          /\ Goto(h, "done")
          /\ UNCHANGED since
       \/ /\ Faults \/ ~L!MayGrant(c)
          /\ Goto(h, "done")
          /\ UNCHANGED <<lastGrant, since, unlucky>>
    /\ UNCHANGED <<now, expires, storedAt, markedAt, served>>

(* What a KV read may find: nothing while the put may not have reached the
   reader or when the record is past its expiration_ttl; the record, unless
   it has been gone for KvLag seconds; and its used flag, certainly once
   KvLag seconds have passed since it was set. *)
MayLag(c) == now < storedAt[c] + KvLag
MayBeGone(c) == now >= storedAt[c] + Ttl
MayFind(c) == now < storedAt[c] + Ttl + KvLag
MayFindUsed(c) == MayFind(c) /\ markedAt[c] # Never
MayFindUnused(c) ==
    MayFind(c) /\ (markedAt[c] = Never \/ now < markedAt[c] + KvLag)

(* Mutant: a challenge in its last second is taken as expired. *)
Valid_Exclusive(c) == now < expires[c]

(* The record read has not expired. *)
Valid(c) == expires[c] >= now

(* Mutant: the used flag of the record is not looked at. *)
read_challenge_IgnoresUsed(h) ==
    LET c == chal[h] IN
    /\ pc[h] = "read"
    /\ \/ (MayLag(c) \/ MayBeGone(c)) /\ Goto(h, "done")
       \/ MayFind(c) /\ Goto(h, IF Valid(c) THEN "mark" ELSE "done")
    /\ UNCHANGED <<now, expires, storedAt, markedAt, lastGrant, chal, since,
                   served, unlucky>>

(* A record that is missing, expired or used, or a failed read, ends the
   request, and the challenge stays consumed.  Deleting an expired record
   changes nothing: it is not valid again. *)
read_challenge(h) ==
    LET c == chal[h] IN
    /\ pc[h] = "read"
    /\ \/ /\ Faults \/ MayLag(c)
          /\ Goto(h, "done")
          /\ unlucky' = unlucky \cup {c}
       \/ /\ MayBeGone(c) \/ MayFindUsed(c)
          /\ Goto(h, "done")
          /\ UNCHANGED unlucky
       \/ /\ MayFindUnused(c)
          /\ Goto(h, IF Valid(c) THEN "mark" ELSE "done")
          /\ UNCHANGED unlucky
    /\ UNCHANGED <<now, expires, storedAt, markedAt, lastGrant, chal, since,
                   served>>

(* Mark the record used in KV and return the challenge to the caller. *)
mark_used(h) ==
    LET c == chal[h] IN
    /\ pc[h] = "mark"
    /\ \/ /\ markedAt' = [markedAt EXCEPT ![c] = IF @ = Never THEN now ELSE @]
          /\ served' = [served EXCEPT ![c] = @ \cup {h}]
          /\ UNCHANGED unlucky
       \/ /\ Faults
          /\ unlucky' = unlucky \cup {c}
          /\ UNCHANGED <<markedAt, served>>
    /\ Goto(h, "done")
    /\ UNCHANGED <<now, expires, storedAt, lastGrant, chal, since>>

-----------------------------------------------------------------------------

InFlight == {h \in Handlers : pc[h] \in {"read", "mark"}}

(* A second passes; no handler is at work longer than Processing. *)
Tick ==
    /\ now < MaxTime
    /\ \A h \in InFlight : now < since[h] + Processing
    /\ now' = now + 1
    /\ UNCHANGED <<expires, storedAt, markedAt, lastGrant, pc, chal, since,
                   served, unlucky>>

Next ==
    \/ \E c \in Challenges :
         \/ generate_yubikey_challenge(c)
         \/ create_challenge(c)
         \/ \E h \in Handlers : consume_resource_once(h, c)
    \/ \E h \in Handlers : read_challenge(h) \/ mark_used(h)
    \/ Tick

Spec == Init /\ [][Next]_vars

-----------------------------------------------------------------------------
(* Properties. *)

(* Every variable has its type, and a handler at work presents a challenge. *)
TypeOK ==
    /\ now \in Nat
    /\ expires \in [Challenges -> Nat \cup {Never}]
    /\ storedAt \in [Challenges -> Nat \cup {Never}]
    /\ markedAt \in [Challenges -> Nat \cup {Never}]
    /\ lastGrant \in [Challenges -> Nat \cup {Never}]
    /\ pc \in [Handlers -> {"start", "read", "mark", "done"}]
    /\ chal \in [Handlers -> Challenges \cup {Idle}]
    /\ since \in [Handlers -> Nat]
    /\ served \in [Challenges -> SUBSET Handlers]
    /\ unlucky \subseteq Challenges
    /\ \A h \in InFlight : chal[h] \in Challenges

(* One use per challenge: get_and_consume_challenge returns a challenge to one
   request only, so at most one response is ever verified against it.  In the
   second in which both the grant and the challenge end, this rests on KV: the
   record is gone, or its used flag is seen by then. *)
ChallengeSingleUse ==
    \A c \in Challenges : \A h1, h2 \in served[c] : h1 = h2

(* A challenge is not lost without a reason: one granted early enough for its
   handler to finish before it expires has been returned to a caller once its
   handlers are done, unless a call of theirs failed or a read came too soon
   after the put. *)
NotBurned ==
    \A c \in Challenges :
      (/\ lastGrant[c] # Never
       /\ lastGrant[c] + Processing < storedAt[c] + Ttl
       /\ lastGrant[c] + Processing <= expires[c]
       /\ c \notin unlucky
       /\ \A h \in InFlight : chal[h] # c) => served[c] # {}
=============================================================================
