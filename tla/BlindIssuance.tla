---------------------------- MODULE BlindIssuance ----------------------------
(***************************************************************************)
(* The life of an attestation: created under the default kid of the issuer *)
(* configuration, presented for blind issuance, where it is tried against  *)
(* the default and the previous kid, while rotations move these two.       *)
(* Attestations have one nonce each and are named by the request that made *)
(* them.  Configurations are numbered in the order they are written; KV    *)
(* serves one for a while after it was replaced.                           *)
(***************************************************************************)
EXTENDS Integers, Sequences, FiniteSets

CONSTANTS
    Creators,    \* create_attestation requests
    Presenters,  \* blind_issuance requests
    Rotators,    \* rotate_attestation_key requests
    Kids,        \* key ids
    NoKid,       \* no previous kid
    Keys,        \* the key records of each kid
    FirstKid,    \* the default kid at the start
    MaxAge,      \* ATTESTATION_MAX_AGE_SECONDS
    Processing,  \* longest time from reading the clock to consuming the nonce
    KvLag,       \* how long a replaced configuration may be read
    Faults,      \* whether storage calls fail and requests are cut off
    MaxRequests, \* bound on the requests that arrive
    MaxTime      \* bound on the clock

Nobody == "nobody"
Requests == Creators \cup Presenters \cup Rotators

(* Where a request is: creating, rotating, presenting. *)
Stages == {"start", "sign", "created", "refused"}
          \cup {"locked", "write", "release", "done"}
          \cup {"slots", "consume", "used", "failed", "verify", "verified",
                "unverified", "issued"}

(* The verifying record of a kid (active, valid_from, valid_until) and the
   status of its signing record. *)
KeyRecord == [stored : BOOLEAN, active : BOOLEAN, from : Nat, until : Nat,
              signing : {"none", "active", "inactive"}]
Loaded == {k \in Kids : Keys[k].stored /\ Keys[k].signing # "none"}
IssuerConfig == [default : Loaded, previous : Loaded \cup {NoKid}, at : Nat]
Attestation == [kid : Kids \cup {NoKid}, at : Nat]

ASSUME BlindIssuanceAssumption ==
    /\ Creators \cap Presenters = {}
    /\ Creators \cap Rotators = {}
    /\ Presenters \cap Rotators = {}
    /\ Nobody \notin Requests
    /\ NoKid \notin Kids
    /\ Keys \in [Kids -> KeyRecord]
    /\ FirstKid \in Loaded
    /\ MaxAge \in Nat \ {0}
    /\ Processing \in Nat
    /\ Processing <= MaxAge
    /\ KvLag \in Nat
    /\ MaxRequests \in Nat
    /\ MaxTime \in Nat
    /\ Faults \in BOOLEAN

VARIABLES
    clock,
    configs,     \* IssuerConfig as written, oldest first
    holder,      \* holder of the lease attestation_key_rotation
    pc,          \* where each request is
    ver,         \* number of the configuration a request read
    target,      \* the new_kid of a rotation
    att,         \* kid and time an attestation was signed with
    holds,       \* the attestation a presenter has
    now,         \* the time it read before collecting candidates
    cands,       \* the kids it will try
    spent,       \* when the record of a consumed nonce expires, 0 if none
    credentials, \* credentials signed for an attestation
    hurried,     \* history: rotations that outlived their lease, or read while
                 \* the last change of the configuration was still spreading
    torn         \* history: the configurations that those have written

rotationVars == <<configs, holder, target, hurried, torn>>
vars == <<clock, rotationVars, pc, ver, att, holds, now, cands, spent, credentials>>

NoAtt == [kid |-> NoKid, at |-> 0]

Init ==
    /\ clock = 1
    /\ configs = <<[default |-> FirstKid, previous |-> NoKid, at |-> 0]>>
    /\ holder = Nobody
    /\ pc = [q \in Requests |-> "start"]
    /\ ver = [q \in Requests |-> 1]
    /\ target = [r \in Rotators |-> FirstKid]
    /\ att = [c \in Creators |-> NoAtt]
    /\ holds = [p \in Presenters |-> Nobody]
    /\ now = [p \in Presenters |-> 0]
    /\ cands = [p \in Presenters |-> {}]
    /\ spent = [c \in Creators |-> 0]
    /\ credentials = [c \in Creators |-> 0]
    /\ hurried = {}
    /\ torn = {}

Goto(q, stage) == pc' = [pc EXCEPT ![q] = stage]

(* A request is answered without having changed anything. *)
End(q, from, to) ==
    /\ pc[q] = from
    /\ Goto(q, to)
    /\ UNCHANGED <<clock, rotationVars, ver, att, holds, now, cands, spent, credentials>>

(* A request comes in. *)
Arrive(q) ==
    /\ pc[q] = "start"
    /\ Cardinality({x \in Requests : pc[x] # "start"}) < MaxRequests

(* get_issuer_config returns the newest configuration, or one that was
   replaced less than KvLag ago.  With one issuer in the namespace the
   auto-discovery that follows a failed read finds the same record. *)
get_issuer_config ==
    {v \in DOMAIN configs : v = Len(configs) \/ configs[v + 1].at + KvLag > clock}

-----------------------------------------------------------------------------
(* POST /v1/attestation/create *)

(* The gates before the configuration is read: caps, API key, body,
   timestamp, authentication, minors, quota. *)
refuse_creation(c) == Arrive(c) /\ End(c, "start", "refused")

create_attestation(c) ==
    /\ Arrive(c)
    /\ \E v \in get_issuer_config : ver' = [ver EXCEPT ![c] = v]
    /\ Goto(c, "sign")
    /\ UNCHANGED <<clock, rotationVars, att, holds, now, cands, spent, credentials>>

(* The signing key of the default kid it read must be active; fetching it
   and the KEK takes time. *)
sign_attestation(c) ==
    LET kid == configs[ver[c]].default IN
    /\ pc[c] = "sign"
    /\ \/ /\ Keys[kid].signing = "active"
          /\ att' = [att EXCEPT ![c] = [kid |-> kid, at |-> clock]]
          /\ Goto(c, "created")
       \/ /\ Faults \/ Keys[kid].signing # "active"
          /\ Goto(c, "refused")
          /\ UNCHANGED att
    /\ UNCHANGED <<clock, rotationVars, ver, holds, now, cands, spent, credentials>>

-----------------------------------------------------------------------------
(* POST /v1/admin/attestation-keys/rotate *)

(* Credential, nonce, quota and body come first; a lease that is taken ends
   the request too. *)
refuse_rotation(r) == Arrive(r) /\ End(r, "start", "done")

(* Mutant: rotations do not wait for one another. *)
acquire_rotation_lock_Unlocked(r) ==
    /\ Arrive(r)
    /\ \E k \in Kids : target' = [target EXCEPT ![r] = k]
    /\ Goto(r, "locked")
    /\ UNCHANGED <<clock, configs, holder, hurried, torn, ver, att, holds, now, cands, spent,
                   credentials>>

acquire_rotation_lock(r) ==
    /\ Arrive(r)
    /\ holder = Nobody
    /\ holder' = r
    /\ \E k \in Kids : target' = [target EXCEPT ![r] = k]
    /\ Goto(r, "locked")
    /\ UNCHANGED <<clock, configs, hurried, torn, ver, att, holds, now, cands, spent, credentials>>

(* Mutant: the key records of the new kid are not looked up. *)
Promotable_Unchecked(kid, cfg) == kid # cfg.default

(* The new kid is another one and has both of its records. *)
Promotable(kid, cfg) == kid # cfg.default /\ kid \in Loaded

(* The last change of the configuration has reached every reader. *)
Settled == configs[Len(configs)].at + KvLag <= clock

(* The configuration is read again under the lease, from the same KV. *)
rotate_attestation_key_inner(r) ==
    /\ pc[r] = "locked"
    /\ \/ \E v \in get_issuer_config :
            /\ ver' = [ver EXCEPT ![r] = v]
            /\ Goto(r, IF Promotable(target[r], configs[v]) THEN "write" ELSE "release")
       \/ Faults /\ Goto(r, "release") /\ UNCHANGED ver
    /\ hurried' = IF Settled THEN hurried ELSE hurried \cup {r}
    /\ UNCHANGED <<clock, configs, holder, torn, target, att, holds, now, cands, spent,
                   credentials>>

(* One put writes both fields; it may fail, also after it took effect. *)
put_issuer_config(r) ==
    /\ pc[r] = "write"
    /\ \/ /\ configs' = Append(configs, [default |-> target[r],
                                         previous |-> configs[ver[r]].default,
                                         at |-> clock])
          /\ torn' = IF r \in hurried THEN torn \cup {Len(configs) + 1} ELSE torn
       \/ Faults /\ UNCHANGED <<configs, torn>>
    /\ Goto(r, "release")
    /\ UNCHANGED <<clock, holder, hurried, ver, target, att, holds, now, cands, spent,
                   credentials>>

(* The release frees the lease only if it is still the caller's. *)
release_rotation_lock(r) ==
    /\ pc[r] = "release"
    /\ \/ holder' = IF holder = r THEN Nobody ELSE holder
       \/ Faults /\ UNCHANGED holder
    /\ Goto(r, "done")
    /\ UNCHANGED <<clock, configs, hurried, torn, ver, target, att, holds, now, cands, spent,
                   credentials>>

(* A rotation is cut off; its lease stays until it runs out. *)
Crash(r) ==
    /\ Faults
    /\ pc[r] \in {"locked", "write"}
    /\ Goto(r, "done")
    /\ UNCHANGED <<clock, rotationVars, ver, att, holds, now, cands, spent, credentials>>

(* A lease runs out, whatever its holder is doing. *)
LeaseEnds ==
    /\ holder # Nobody
    /\ holder' = Nobody
    /\ hurried' = IF pc[holder] \in {"locked", "write"} THEN hurried \cup {holder} ELSE hurried
    /\ UNCHANGED <<clock, configs, torn, pc, ver, target, att, holds, now, cands, spent,
                   credentials>>

-----------------------------------------------------------------------------
(* POST /v1/issuance/blind *)

(* The gates up to the configuration: IP cap and body. *)
refuse_presentation(p) == Arrive(p) /\ End(p, "start", "refused")

(* A created attestation is presented, and the configuration read. *)
blind_issuance(p) ==
    /\ Arrive(p)
    /\ \E c \in {c \in Creators : att[c] # NoAtt} : holds' = [holds EXCEPT ![p] = c]
    /\ \E v \in get_issuer_config : ver' = [ver EXCEPT ![p] = v]
    /\ Goto(p, "slots")
    /\ UNCHANGED <<clock, rotationVars, att, now, cands, spent, credentials>>

(* Another issuer's attestation, the issuer's cap, the KEK preflight. *)
refuse_at_cap(p) == End(p, "slots", "refused")

trial_verify_candidate_slots(cfg) == {cfg.default, cfg.previous} \ {NoKid}

(* valid_until 0 stands for no expiry. *)
is_eligible(rec, t) ==
    /\ rec.stored
    /\ rec.active
    /\ t >= rec.from
    /\ rec.until # 0 => t <= rec.until

(* The time is read, and the eligible slots of the configuration. *)
collect_candidates(p) ==
    /\ pc[p] = "slots"
    /\ now' = [now EXCEPT ![p] = clock]
    /\ cands' = [cands EXCEPT ![p] =
         {k \in trial_verify_candidate_slots(configs[ver[p]]) :
            is_eligible(Keys[k], clock)}]
    /\ Goto(p, IF cands'[p] = {} THEN "refused" ELSE "consume")
    /\ UNCHANGED <<clock, rotationVars, ver, att, holds, spent, credentials>>

(* Mutant: the record of a nonce lives as long as the attestation. *)
ATTESTATION_NONCE_TTL_OneAge == MaxAge

ATTESTATION_NONCE_TTL == 2 * MaxAge

(* NonceDO accepts a nonce without a record or past its record's expiry; an
   error may come back whether or not the nonce was stored. *)
validate_and_consume_attestation_nonce(p) ==
    LET a == holds[p]
        stored == [spent EXCEPT ![a] = clock + ATTESTATION_NONCE_TTL]
        unused == spent[a] < clock
    IN
    /\ pc[p] = "consume"
    /\ \/ unused /\ spent' = stored /\ Goto(p, "verify")
       \/ ~unused /\ UNCHANGED spent /\ Goto(p, "used")
       \/ Faults /\ UNCHANGED spent /\ Goto(p, "failed")
       \/ Faults /\ unused /\ spent' = stored /\ Goto(p, "failed")
    /\ UNCHANGED <<clock, rotationVars, ver, att, holds, now, cands, credentials>>

(* A candidate verifies an attestation signed under its kid that is not
   older than MaxAge at the time read before. *)
verify_with_timestamp(p) ==
    LET a == att[holds[p]] IN
    /\ pc[p] = "verify"
    /\ Goto(p, IF a.kid \in cands[p] /\ now[p] <= a.at + MaxAge
                 THEN "verified" ELSE "unverified")
    /\ UNCHANGED <<clock, rotationVars, ver, att, holds, now, cands, spent, credentials>>

(* Commitment, signing key, validity and schema may each end the request,
   with the nonce gone. *)
fail_after_nonce(p) == End(p, "verified", "failed")

sign_commitment(p) ==
    /\ pc[p] = "verified"
    /\ credentials' = [credentials EXCEPT ![holds[p]] = @ + 1]
    /\ Goto(p, "issued")
    /\ UNCHANGED <<clock, rotationVars, ver, att, holds, now, cands, spent>>

-----------------------------------------------------------------------------

(* Time passes; a presenter consumes the nonce soon after reading it. *)
Tick ==
    /\ clock < MaxTime
    /\ \A p \in Presenters : pc[p] = "consume" => clock < now[p] + Processing
    /\ clock' = clock + 1
    /\ UNCHANGED <<rotationVars, pc, ver, att, holds, now, cands, spent, credentials>>

Rotate(r) ==
    \/ refuse_rotation(r) \/ acquire_rotation_lock(r)
    \/ rotate_attestation_key_inner(r) \/ put_issuer_config(r)
    \/ release_rotation_lock(r) \/ Crash(r)

Present(p) ==
    \/ refuse_presentation(p) \/ blind_issuance(p) \/ refuse_at_cap(p)
    \/ collect_candidates(p) \/ validate_and_consume_attestation_nonce(p)
    \/ verify_with_timestamp(p) \/ fail_after_nonce(p) \/ sign_commitment(p)

Next ==
    \/ \E c \in Creators : refuse_creation(c) \/ create_attestation(c) \/ sign_attestation(c)
    \/ \E r \in Rotators : Rotate(r)
    \/ \E p \in Presenters : Present(p)
    \/ LeaseEnds
    \/ Tick

Spec == Init /\ [][Next]_vars

-----------------------------------------------------------------------------
(* Properties. *)

(* Every variable has its type; the default kid of every configuration has
   both of its key records. *)
TypeOK ==
    /\ clock \in Nat
    /\ configs \in Seq(IssuerConfig)
    /\ holder \in Rotators \cup {Nobody}
    /\ pc \in [Requests -> Stages]
    /\ ver \in [Requests -> DOMAIN configs]
    /\ target \in [Rotators -> Kids]
    /\ att \in [Creators -> Attestation]
    /\ holds \in [Presenters -> Creators \cup {Nobody}]
    /\ now \in [Presenters -> Nat]
    /\ cands \in [Presenters -> SUBSET Kids]
    /\ spent \in [Creators -> Nat]
    /\ credentials \in [Creators -> Nat]
    /\ hurried \subseteq Rotators
    /\ torn \subseteq DOMAIN configs

(* An attestation yields at most one credential, however often and however
   late it is presented: the record of its nonce outlives every presenter
   that still counts it as young enough, though that one read the clock
   before it asked for the nonce. *)
RedeemedOnce == \A c \in Creators : credentials[c] <= 1

(* Times the default kid changed after configuration v and up to w. *)
Changes(v, w) ==
    Cardinality({i \in v + 1 .. w : configs[i].default # configs[i - 1].default})

(* The overlap window: an attestation within its age, of a kid that is still
   eligible, fails verification only after the default kid changed twice
   between the configuration its creator read and the one its presenter
   read, or because the presenter read an older configuration than the
   creator, or because a rotation was hurried: it read the configuration
   before the last change had spread, or its lease ended before its write.
   The lease keeps all other rotations, whatever fails or is cut off, from
   undoing one another's previous kid. *)
OneRotationTolerated ==
    \A p \in Presenters : pc[p] = "unverified" =>
      LET c == holds[p] IN
      \/ now[p] > att[c].at + MaxAge
      \/ ~is_eligible(Keys[att[c].kid], now[p])
      \/ ver[p] < ver[c]
      \/ Changes(ver[c], ver[p]) >= 2
      \/ torn \cap (ver[c] .. ver[p]) # {}
=============================================================================
