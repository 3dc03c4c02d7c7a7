------------------------- MODULE BlindIssuanceProofs -------------------------
(***************************************************************************)
(* At most one credential per attestation, for all sets of requests and    *)
(* kids, all key records, ages and lags, with rotations that fail, overlap *)
(* or are cut off, whenever Processing is at most MaxAge.                  *)
(***************************************************************************)
EXTENDS BlindIssuance, TLAPS, FiniteSetTheorems

(* The nonce of a presenter's attestation is consumed, its credential not yet
   signed. *)
Redeeming(p) == pc[p] \in {"verify", "verified"}

(* The presenter read a time at which its attestation was young enough. *)
Young(p) == now[p] <= att[holds[p]].at + MaxAge

(* The record of a consumed nonce outlives the attestation by MaxAge. *)
AttInv ==
    \A c \in Creators :
      /\ pc[c] # "created" => att[c] = NoAtt
      /\ att[c].at <= clock
      /\ att[c] = NoAtt => spent[c] = 0
      /\ spent[c] # 0 => spent[c] >= att[c].at + ATTESTATION_NONCE_TTL
      /\ credentials[c] # 0 => spent[c] # 0
      /\ credentials[c] <= 1

PresentInv ==
    \A p \in Presenters :
      /\ pc[p] \in {"slots", "consume", "verify", "verified"} =>
           holds[p] \in Creators /\ att[holds[p]] # NoAtt
      /\ pc[p] = "consume" => clock <= now[p] + Processing
      /\ Redeeming(p) => spent[holds[p]] # 0
      /\ pc[p] = "verified" => Young(p)
      /\ Redeeming(p) /\ Young(p) => credentials[holds[p]] = 0

(* One presenter at most is about to redeem a young attestation. *)
ClaimInv ==
    \A p, q \in Presenters :
      Redeeming(p) /\ Redeeming(q) /\ holds[p] = holds[q] /\ Young(p) /\ Young(q) => p = q

(* A rotation writes a kid with both of its key records. *)
TargetInv == \A r \in Rotators : pc[r] = "write" => target[r] \in Loaded

(* The inductive invariant. *)
RedeemInv == TypeOK /\ TargetInv /\ AttInv /\ PresentInv /\ ClaimInv

-----------------------------------------------------------------------------
(* Types. *)

(* A configuration is added at the end: the ones there were keep their
   numbers. *)
LEMMA AppendConfig ==
  ASSUME NEW S, NEW s \in Seq(S), NEW e \in S
  PROVE  /\ Append(s, e) \in Seq(S)
         /\ DOMAIN s \subseteq DOMAIN Append(s, e)
  OBVIOUS

(* A configuration that is read has a loaded default kid. *)
LEMMA DefaultLoaded ==
  ASSUME TypeOK, NEW q \in Requests
  PROVE  /\ configs[ver[q]].default \in Loaded
         /\ configs[ver[q]].default \in Kids
         /\ trial_verify_candidate_slots(configs[ver[q]]) \subseteq Kids
<1>1. configs[ver[q]] \in IssuerConfig
  BY DEF TypeOK
<1>2. QED
  BY <1>1 DEF IssuerConfig, Loaded, trial_verify_candidate_slots

(* A request that moves on keeps pc a function to stages. *)
LEMMA GotoType ==
  ASSUME TypeOK, NEW q \in Requests, NEW s \in Stages, Goto(q, s)
  PROVE  pc' \in [Requests -> Stages]
  BY DEF TypeOK, Goto

(* A request that is answered early leaves the types alone. *)
LEMMA EndType ==
  ASSUME TypeOK, NEW q \in Requests, NEW from, NEW to \in Stages, End(q, from, to)
  PROVE  TypeOK'
<1>1. pc' \in [Requests -> Stages]
  BY GotoType DEF End, rotationVars
<1>2. QED
  BY <1>1 DEF End, TypeOK, rotationVars

(* The early answers of the three kinds of request. *)
Ends(q) ==
    \/ q \in Creators /\ refuse_creation(q)
    \/ q \in Rotators /\ refuse_rotation(q)
    \/ q \in Presenters
         /\ (refuse_presentation(q) \/ refuse_at_cap(q) \/ fail_after_nonce(q))

LEMMA TypeStep == RedeemInv /\ [Next]_vars => TypeOK'
<1> SUFFICES ASSUME RedeemInv, [Next]_vars PROVE TypeOK'
  OBVIOUS
<1> USE DEF TypeOK
<1>a. TypeOK /\ Creators \subseteq Requests /\ Rotators \subseteq Requests
      /\ Presenters \subseteq Requests
  BY DEF Requests, RedeemInv
<1>b. get_issuer_config \subseteq DOMAIN configs
  BY DEF get_issuer_config
<1>1. ASSUME NEW c \in Creators, create_attestation(c) PROVE TypeOK'
  <2>1. pc' \in [Requests -> Stages]
    BY <1>1, <1>a, GotoType DEF create_attestation, Stages, rotationVars
  <2>2. ver' \in [Requests -> DOMAIN configs]
    BY <1>1, <1>a, <1>b DEF create_attestation, rotationVars
  <2>3. QED
    BY <1>1, <1>a, <2>1, <2>2 DEF create_attestation, rotationVars
<1>2. ASSUME NEW c \in Creators, sign_attestation(c) PROVE TypeOK'
  <2>1. [kid |-> configs[ver[c]].default, at |-> clock] \in Attestation
    BY <1>a, DefaultLoaded DEF Attestation
  <2>2. pc' \in [Requests -> Stages]
    BY <1>2, <1>a, GotoType DEF sign_attestation, Stages, rotationVars
  <2>3. QED
    BY <1>2, <1>a, <2>1, <2>2 DEF sign_attestation, rotationVars
<1>3. ASSUME NEW r \in Rotators, acquire_rotation_lock(r) PROVE TypeOK'
  <2>1. pc' \in [Requests -> Stages]
    BY <1>3, <1>a, GotoType DEF acquire_rotation_lock, Stages
  <2>2. target' \in [Rotators -> Kids]
    BY <1>3, <1>a DEF acquire_rotation_lock
  <2>3. QED
    BY <1>3, <1>a, <2>1, <2>2 DEF acquire_rotation_lock
<1>4. ASSUME NEW r \in Rotators, rotate_attestation_key_inner(r) PROVE TypeOK'
  <2>1. ver' \in [Requests -> DOMAIN configs]
    BY <1>4, <1>a, <1>b DEF rotate_attestation_key_inner
  <2>2. Goto(r, "write") \/ Goto(r, "release")
    BY <1>4 DEF rotate_attestation_key_inner
  <2>3. pc' \in [Requests -> Stages]
    BY <2>2, <1>a, GotoType DEF Stages
  <2>4. hurried' \subseteq Rotators
    BY <1>4, <1>a DEF rotate_attestation_key_inner
  <2>5. QED
    BY <1>4, <1>a, <2>1, <2>3, <2>4 DEF rotate_attestation_key_inner
<1>5. ASSUME NEW r \in Rotators, put_issuer_config(r) PROVE TypeOK'
  <2> DEFINE e == [default |-> target[r], previous |-> configs[ver[r]].default,
                   at |-> clock]
  <2>1. e \in IssuerConfig
    BY <1>5, <1>a, DefaultLoaded DEF put_issuer_config, TargetInv, IssuerConfig, RedeemInv
  <2>2. \/ /\ configs' = Append(configs, e)
           /\ torn' = torn \/ torn' = torn \cup {Len(configs) + 1}
        \/ UNCHANGED <<configs, torn>>
    BY <1>5 DEF put_issuer_config
  <2> HIDE DEF e
  <2>3. CASE configs' = Append(configs, e) /\ (torn' = torn \/ torn' = torn \cup {Len(configs) + 1})
    <3>0. Len(configs) + 1 \in DOMAIN configs'
      BY <1>a, <2>1, <2>3
    <3>1. /\ configs' \in Seq(IssuerConfig) /\ DOMAIN configs \subseteq DOMAIN configs'
          /\ torn' \subseteq DOMAIN configs'
      BY <1>a, <2>1, <2>3, <3>0, AppendConfig
    <3>2. pc' \in [Requests -> Stages]
      BY <1>5, <1>a, GotoType DEF put_issuer_config, Stages
    <3>3. QED
      BY <1>5, <1>a, <3>1, <3>2 DEF put_issuer_config
  <2>4. CASE UNCHANGED <<configs, torn>>
    <3>1. pc' \in [Requests -> Stages]
      BY <1>5, <1>a, GotoType DEF put_issuer_config, Stages
    <3>2. QED
      BY <1>5, <1>a, <2>4, <3>1 DEF put_issuer_config
  <2>5. QED
    BY <2>2, <2>3, <2>4
<1>6. ASSUME NEW r \in Rotators, release_rotation_lock(r) PROVE TypeOK'
  <2>1. pc' \in [Requests -> Stages]
    BY <1>6, <1>a, GotoType DEF release_rotation_lock, Stages
  <2>2. QED
    BY <1>6, <1>a, <2>1 DEF release_rotation_lock
<1>7. ASSUME NEW r \in Rotators, Crash(r) PROVE TypeOK'
  <2>1. pc' \in [Requests -> Stages]
    BY <1>7, <1>a, GotoType DEF Crash, Stages, rotationVars
  <2>2. QED
    BY <1>7, <1>a, <2>1 DEF Crash, rotationVars
<1>8. ASSUME NEW p \in Presenters, blind_issuance(p) PROVE TypeOK'
  <2>1. pc' \in [Requests -> Stages]
    BY <1>8, <1>a, GotoType DEF blind_issuance, Stages, rotationVars
  <2>2. ver' \in [Requests -> DOMAIN configs]
    BY <1>8, <1>a, <1>b DEF blind_issuance, rotationVars
  <2>3. holds' \in [Presenters -> Creators \cup {Nobody}]
    BY <1>8, <1>a DEF blind_issuance, rotationVars
  <2>4. QED
    BY <1>8, <1>a, <2>1, <2>2, <2>3 DEF blind_issuance, rotationVars
<1>9. ASSUME NEW p \in Presenters, collect_candidates(p) PROVE TypeOK'
  <2>1. cands' \in [Presenters -> SUBSET Kids]
    BY <1>9, <1>a, DefaultLoaded DEF collect_candidates, rotationVars
  <2>2. Goto(p, "refused") \/ Goto(p, "consume")
    BY <1>9 DEF collect_candidates, rotationVars
  <2>3. pc' \in [Requests -> Stages]
    BY <2>2, <1>a, GotoType DEF Stages
  <2>4. now' \in [Presenters -> Nat]
    BY <1>9, <1>a DEF collect_candidates, rotationVars
  <2>5. QED
    BY <1>9, <1>a, <2>1, <2>3, <2>4 DEF collect_candidates, rotationVars
<1>10. ASSUME NEW p \in Presenters, validate_and_consume_attestation_nonce(p)
       PROVE  TypeOK'
  <2>1. ATTESTATION_NONCE_TTL \in Nat
    BY BlindIssuanceAssumption DEF ATTESTATION_NONCE_TTL
  <2>2. spent' \in [Creators -> Nat]
    BY <1>10, <1>a, <2>1 DEF validate_and_consume_attestation_nonce, rotationVars
  <2>3. pc' \in [Requests -> Stages]
    BY <1>10, <1>a, GotoType DEF validate_and_consume_attestation_nonce, Stages, rotationVars
  <2>4. QED
    BY <1>10, <1>a, <2>2, <2>3 DEF validate_and_consume_attestation_nonce, rotationVars
<1>11. ASSUME NEW p \in Presenters, verify_with_timestamp(p) PROVE TypeOK'
  <2>1. Goto(p, "verified") \/ Goto(p, "unverified")
    BY <1>11 DEF verify_with_timestamp, rotationVars
  <2>2. pc' \in [Requests -> Stages]
    BY <2>1, <1>a, GotoType DEF Stages
  <2>3. QED
    BY <1>11, <1>a, <2>2 DEF verify_with_timestamp, rotationVars
<1>12. ASSUME NEW p \in Presenters, sign_commitment(p) PROVE TypeOK'
  <2>1. pc' \in [Requests -> Stages]
    BY <1>12, <1>a, GotoType DEF sign_commitment, Stages, rotationVars
  <2>2. holds[p] \in Creators
    BY <1>12 DEF sign_commitment, RedeemInv, PresentInv, rotationVars
  <2>3. credentials' \in [Creators -> Nat]
    BY <1>12, <1>a, <2>2 DEF sign_commitment, rotationVars
  <2>4. QED
    BY <1>12, <1>a, <2>1, <2>3 DEF sign_commitment, rotationVars
<1>13. ASSUME NEW q \in Requests, Ends(q) PROVE TypeOK'
  BY <1>13, <1>a, EndType DEF Ends, Stages, refuse_creation, refuse_rotation,
     refuse_presentation, refuse_at_cap, fail_after_nonce
<1>14. CASE LeaseEnds
  <2>1. hurried' = hurried \/ hurried' = hurried \cup {holder}
    BY <1>14 DEF LeaseEnds
  <2>2. holder \in Rotators
    BY <1>14, <1>a DEF LeaseEnds
  <2>3. QED
    BY <1>14, <1>a, <2>1, <2>2 DEF LeaseEnds
<1>15. CASE Tick
  BY <1>15, <1>a DEF Tick, rotationVars
<1>16. CASE UNCHANGED vars
  BY <1>16, <1>a DEF vars, rotationVars
<1>17. QED
  BY <1>a, <1>1, <1>2, <1>3, <1>4, <1>5, <1>6, <1>7, <1>8, <1>9, <1>10, <1>11, <1>12,
     <1>13, <1>14, <1>15, <1>16 DEF Next, Rotate, Present, Ends

-----------------------------------------------------------------------------
(* Redemption. *)

Redemption == AttInv /\ PresentInv /\ ClaimInv

(* Steps of a rotation touch nothing that redemption depends on. *)
LEMMA FrameStep ==
  ASSUME RedeemInv, \A q \in Creators \cup Presenters : pc'[q] = pc[q],
         UNCHANGED <<clock, att, holds, now, spent, credentials>>
  PROVE  Redemption'
  BY DEF RedeemInv, Redemption, AttInv, PresentInv, ClaimInv, Redeeming, Young

LEMMA RotateStep ==
  ASSUME RedeemInv, NEW r \in Rotators, Rotate(r)
  PROVE  Redemption' /\ TargetInv'
<1> USE DEF RedeemInv, TypeOK, Goto, Requests
<1>1. UNCHANGED <<clock, att, holds, now, spent, credentials>>
  BY DEF Rotate, refuse_rotation, End, acquire_rotation_lock,
         rotate_attestation_key_inner, put_issuer_config, release_rotation_lock, Crash, rotationVars
<1>2. \A q \in Requests : q # r => pc'[q] = pc[q]
  BY DEF Rotate, refuse_rotation, End, acquire_rotation_lock,
         rotate_attestation_key_inner, put_issuer_config, release_rotation_lock, Crash, rotationVars
<1>3. \A q \in Creators \cup Presenters : pc'[q] = pc[q]
  BY <1>2, BlindIssuanceAssumption
<1>4. \A q \in Rotators : q # r => target'[q] = target[q]
  BY DEF Rotate, refuse_rotation, End, acquire_rotation_lock,
         rotate_attestation_key_inner, put_issuer_config, release_rotation_lock, Crash, rotationVars
<1>5. pc'[r] = "write" => target'[r] \in Loaded
  BY DEF Rotate, refuse_rotation, End, acquire_rotation_lock,
         rotate_attestation_key_inner, put_issuer_config, release_rotation_lock, Crash, Promotable, TargetInv, rotationVars
<1>6. QED
  BY <1>1, <1>2, <1>3, <1>4, <1>5, FrameStep DEF TargetInv

(* An early answer leaves one redemption less to come. *)
LEMMA EndStep ==
  ASSUME RedeemInv, NEW q \in Creators \cup Presenters, Ends(q)
  PROVE  Redemption' /\ TargetInv'
<1> USE BlindIssuanceAssumption DEF RedeemInv
<1>1. UNCHANGED <<clock, att, holds, now, spent, credentials, target>>
  BY DEF Ends, End, refuse_creation, refuse_rotation, refuse_presentation,
         refuse_at_cap, fail_after_nonce, rotationVars
<1>2. (\A r \in Requests : r # q => pc'[r] = pc[r]) /\ pc'[q] \in {"refused", "failed"}
  BY DEF Ends, End, Goto, refuse_creation, refuse_rotation, refuse_presentation,
         refuse_at_cap, fail_after_nonce, TypeOK, Requests, rotationVars
<1>3. q \in Creators => pc[q] # "created"
  BY DEF Ends, End, refuse_creation, Requests, rotationVars
<1>4. AttInv'
  BY <1>1, <1>2, <1>3 DEF AttInv, Requests
<1>5. PresentInv' /\ ClaimInv' /\ TargetInv'
  BY <1>1, <1>2 DEF PresentInv, ClaimInv, TargetInv, Redeeming, Young, Requests
<1>6. QED
  BY <1>4, <1>5 DEF Redemption

(* A new attestation has not been presented. *)
LEMMA CreateStep ==
  ASSUME RedeemInv, NEW c \in Creators, create_attestation(c) \/ sign_attestation(c)
  PROVE  Redemption'
<1> USE BlindIssuanceAssumption DEF RedeemInv
<1>1. UNCHANGED <<clock, holds, now, spent, credentials>> /\ att[c] = NoAtt
      /\ \A d \in Creators : d # c => att'[d] = att[d]
  BY DEF create_attestation, Arrive, sign_attestation, AttInv, TypeOK, Requests
<1>2. \A q \in Requests : q # c => pc'[q] = pc[q]
  BY DEF create_attestation, sign_attestation, Goto, TypeOK, rotationVars
<1>3. (att'[c] = NoAtt) \/ (pc'[c] = "created" /\ att'[c].at = clock)
  BY <1>1 DEF create_attestation, sign_attestation, Goto, TypeOK, Requests
<1>4. spent[c] = 0 /\ credentials[c] = 0
  BY <1>1 DEF AttInv
<1>5. AttInv'
  <2>1. att'[c].at <= clock /\ (pc'[c] # "created" => att'[c] = NoAtt)
    BY <1>1, <1>3 DEF AttInv, TypeOK
  <2>2. \A d \in Creators : d # c => pc'[d] = pc[d]
    BY <1>2 DEF Requests
  <2>3. QED
    BY <1>1, <1>4, <2>1, <2>2 DEF AttInv
<1>6. \A p \in Presenters : pc'[p] = pc[p]
  BY <1>2 DEF Requests
<1>7. \A p \in Presenters :
        pc[p] \in {"slots", "consume", "verify", "verified"} => holds[p] # c
  BY <1>1 DEF PresentInv
<1>8. \A p \in Presenters :
        pc[p] \in {"slots", "consume", "verify", "verified"} =>
          holds[p] \in Creators /\ att'[holds[p]] = att[holds[p]]
  BY <1>1, <1>7 DEF PresentInv
<1>9. PresentInv' /\ ClaimInv'
  BY <1>1, <1>6, <1>8 DEF PresentInv, ClaimInv, Redeeming, Young
<1>10. QED
  BY <1>5, <1>9 DEF Redemption

(* A presenter's steps up to the nonce: it takes up an attestation and reads
   the clock. *)
LEMMA TakeUpStep ==
  ASSUME RedeemInv, NEW p \in Presenters, blind_issuance(p) \/ collect_candidates(p)
  PROVE  Redemption'
<1> USE BlindIssuanceAssumption DEF RedeemInv
<1>1. UNCHANGED <<clock, att, spent, credentials>>
  BY DEF blind_issuance, collect_candidates, rotationVars
<1>2. /\ \A q \in Requests : q # p => pc'[q] = pc[q]
      /\ \A q \in Presenters : q # p => holds'[q] = holds[q] /\ now'[q] = now[q]
  BY DEF blind_issuance, collect_candidates, Goto, TypeOK, rotationVars
<1>3. pc'[p] \in {"slots", "consume", "refused"}
  BY DEF blind_issuance, collect_candidates, Goto, TypeOK, Requests, rotationVars
<1>4. pc'[p] \in {"slots", "consume"} => holds'[p] \in Creators /\ att[holds'[p]] # NoAtt
  BY DEF blind_issuance, collect_candidates, Goto, TypeOK, Requests, PresentInv, rotationVars
<1>5. pc'[p] = "consume" => clock <= now'[p] + Processing
  <2>1. pc'[p] = "consume" => now'[p] = clock
    BY DEF blind_issuance, collect_candidates, Goto, TypeOK, Requests, rotationVars
  <2>2. QED
    BY <2>1 DEF TypeOK
<1>6. AttInv'
  BY <1>1, <1>2 DEF AttInv, Requests
<1>7. \A q \in Presenters : q # p => pc'[q] = pc[q]
  BY <1>2 DEF Requests
<1>8. PresentInv'
  BY <1>1, <1>2, <1>3, <1>4, <1>5, <1>7 DEF PresentInv, Redeeming, Young
<1>9. ClaimInv'
  BY <1>1, <1>2, <1>3, <1>7 DEF ClaimInv, Redeeming, Young
<1>10. QED
  BY <1>6, <1>8, <1>9 DEF Redemption

(* The nonce: a presenter that gets it again finds the attestation too old,
   for it read the clock at most Processing before. *)
LEMMA ConsumeStep ==
  ASSUME RedeemInv, NEW p \in Presenters, validate_and_consume_attestation_nonce(p)
  PROVE  Redemption'
<1> USE BlindIssuanceAssumption DEF RedeemInv
<1> DEFINE c == holds[p]
<1>1. UNCHANGED <<clock, att, holds, now, credentials>> /\ pc[p] = "consume"
  BY DEF validate_and_consume_attestation_nonce, rotationVars
<1>2. \A q \in Creators \cup Presenters : q # p => pc'[q] = pc[q]
  BY DEF validate_and_consume_attestation_nonce, Goto, TypeOK, Requests, rotationVars
<1>3. c \in Creators /\ att[c] # NoAtt /\ clock <= now[p] + Processing
  BY <1>1 DEF PresentInv
<1>4. /\ clock \in Nat /\ now[p] \in Nat /\ att[c].at \in Nat /\ spent[c] \in Nat
      /\ ATTESTATION_NONCE_TTL = 2 * MaxAge /\ att[c].at <= clock
  BY <1>3 DEF TypeOK, AttInv, Attestation, ATTESTATION_NONCE_TTL
<1>5. CASE UNCHANGED spent /\ pc'[p] \in {"used", "failed"}
  <2>1. AttInv'
    BY <1>1, <1>2, <1>5 DEF AttInv
  <2>2. QED
    BY <1>1, <1>2, <1>5, <2>1 DEF Redemption, PresentInv, ClaimInv, Redeeming, Young
<1>6. CASE /\ spent[c] < clock
           /\ spent' = [spent EXCEPT ![c] = clock + ATTESTATION_NONCE_TTL]
           /\ pc'[p] \in {"verify", "failed"}
  <2>1. /\ spent'[c] # 0 /\ spent'[c] >= att[c].at + ATTESTATION_NONCE_TTL
        /\ \A d \in Creators : d # c => spent'[d] = spent[d]
    BY <1>3, <1>4, <1>6 DEF TypeOK
  <2>2. spent[c] # 0 => now[p] > att[c].at + MaxAge
    BY <1>3, <1>4, <1>6 DEF AttInv
  <2>3. spent[c] = 0 => credentials[c] = 0
                        /\ \A q \in Presenters : holds[q] = c => ~Redeeming(q)
    BY <1>3 DEF AttInv, PresentInv
  <2>4. \A d \in Creators : spent'[d] # 0 \/ spent'[d] = spent[d]
    BY <2>1
  <2>5. AttInv'
    BY <1>1, <1>2, <1>3, <2>1 DEF AttInv
  <2>6. Young(p) => credentials[c] = 0 /\ \A q \in Presenters : holds[q] = c => ~Redeeming(q)
    BY <1>4, <2>2, <2>3 DEF Young
  <2>7. PresentInv'
    BY <1>1, <1>2, <1>3, <1>6, <2>1, <2>6 DEF PresentInv, Redeeming, Young
  <2>8. ClaimInv'
    BY <1>1, <1>2, <1>6, <2>6 DEF ClaimInv, Redeeming, Young
  <2>9. QED
    BY <2>5, <2>7, <2>8 DEF Redemption
<1>7. QED
  BY <1>5, <1>6 DEF validate_and_consume_attestation_nonce, Goto, TypeOK, Requests, rotationVars

(* Only a young attestation is verified. *)
LEMMA VerifyStep ==
  ASSUME RedeemInv, NEW p \in Presenters, verify_with_timestamp(p)
  PROVE  Redemption'
<1> USE BlindIssuanceAssumption DEF RedeemInv
<1>1. UNCHANGED <<clock, att, holds, now, spent, credentials>> /\ pc[p] = "verify"
  BY DEF verify_with_timestamp, rotationVars
<1>2. \A q \in Creators \cup Presenters : q # p => pc'[q] = pc[q]
  BY DEF verify_with_timestamp, Goto, TypeOK, Requests, rotationVars
<1>3. pc'[p] = "unverified" \/ (pc'[p] = "verified" /\ Young(p))
  BY DEF verify_with_timestamp, Goto, TypeOK, Requests, Young, rotationVars
<1>4. AttInv'
  BY <1>1, <1>2 DEF AttInv
<1>5. PresentInv' /\ ClaimInv'
  BY <1>1, <1>2, <1>3 DEF PresentInv, ClaimInv, Redeeming, Young
<1>6. QED
  BY <1>4, <1>5 DEF Redemption

(* The credential: no other presenter is about to sign one. *)
LEMMA SignStep ==
  ASSUME RedeemInv, NEW p \in Presenters, sign_commitment(p)
  PROVE  Redemption'
<1> USE BlindIssuanceAssumption DEF RedeemInv
<1> DEFINE c == holds[p]
<1>1. UNCHANGED <<clock, att, holds, now, spent>> /\ pc[p] = "verified"
  BY DEF sign_commitment, rotationVars
<1>2. \A q \in Creators \cup Presenters : q # p => pc'[q] = pc[q]
  BY DEF sign_commitment, Goto, TypeOK, Requests, rotationVars
<1>3. c \in Creators /\ spent[c] # 0 /\ credentials[c] = 0 /\ Redeeming(p) /\ Young(p)
  BY <1>1 DEF PresentInv, Redeeming
<1>4. \A q \in Presenters : q # p /\ Redeeming(q) /\ holds[q] = c => ~Young(q)
  BY <1>3 DEF ClaimInv
<1>5. pc'[p] \in {"issued", "failed"}
  BY DEF sign_commitment, Goto, TypeOK, Requests, rotationVars
<1>6. /\ credentials'[c] \in {0, 1}
      /\ \A d \in Creators : d # c => credentials'[d] = credentials[d]
  BY <1>3 DEF sign_commitment, TypeOK, rotationVars
<1>7. AttInv'
  BY <1>1, <1>2, <1>3, <1>6 DEF AttInv
<1>8. PresentInv'
  BY <1>1, <1>2, <1>4, <1>5, <1>6 DEF PresentInv, Redeeming, Young
<1>9. ClaimInv'
  BY <1>1, <1>2, <1>5 DEF ClaimInv, Redeeming, Young
<1>10. QED
  BY <1>7, <1>8, <1>9 DEF Redemption

LEMMA TickStep ==
  ASSUME RedeemInv, Tick
  PROVE  Redemption'
<1> USE BlindIssuanceAssumption DEF RedeemInv
<1>1. UNCHANGED <<pc, att, holds, now, spent, credentials>> /\ clock' = clock + 1
  BY DEF Tick, rotationVars
<1>2. AttInv'
  BY <1>1 DEF AttInv, TypeOK, Attestation
<1>3. \A p \in Presenters : pc[p] = "consume" => clock' <= now[p] + Processing
  BY DEF Tick, TypeOK, rotationVars
<1>4. PresentInv' /\ ClaimInv'
  BY <1>1, <1>3 DEF PresentInv, ClaimInv, Redeeming, Young
<1>5. QED
  BY <1>2, <1>4 DEF Redemption

-----------------------------------------------------------------------------

LEMMA InitRedeem == Init => RedeemInv
<1> SUFFICES ASSUME Init PROVE RedeemInv
  OBVIOUS
<1> USE BlindIssuanceAssumption DEF Init
<1>1. configs[1] \in IssuerConfig /\ configs \in Seq(IssuerConfig) /\ DOMAIN configs = {1}
  BY DEF IssuerConfig
<1>2. NoAtt \in Attestation /\ FirstKid \in Kids /\ "start" \in Stages
  BY DEF NoAtt, Attestation, Loaded, Stages
<1>3. TypeOK
  BY <1>1, <1>2 DEF TypeOK
<1>4. AttInv
  BY DEF AttInv, NoAtt, Requests
<1>5. TargetInv /\ PresentInv /\ ClaimInv
  BY DEF TargetInv, PresentInv, ClaimInv, Redeeming, Requests
<1>6. QED
  BY <1>3, <1>4, <1>5 DEF RedeemInv

LEMMA StepRedeem == RedeemInv /\ [Next]_vars => RedeemInv'
<1> SUFFICES ASSUME RedeemInv, [Next]_vars PROVE Redemption' /\ TargetInv'
  BY TypeStep DEF RedeemInv, Redemption
<1>1. ASSUME NEW c \in Creators, create_attestation(c) \/ sign_attestation(c)
      PROVE  TargetInv'
  BY <1>1, BlindIssuanceAssumption
     DEF create_attestation, sign_attestation, Goto, TargetInv, RedeemInv, TypeOK, Requests, rotationVars
<1>2. ASSUME NEW p \in Presenters, Present(p), ~Ends(p) PROVE TargetInv'
  <2>1. UNCHANGED target /\ \A r \in Rotators : pc'[r] = pc[r]
    BY <1>2, BlindIssuanceAssumption
       DEF Present, blind_issuance, collect_candidates,
           validate_and_consume_attestation_nonce, verify_with_timestamp,
           sign_commitment, Ends, Goto, RedeemInv, TypeOK, Requests, rotationVars
  <2>2. QED
    BY <2>1 DEF TargetInv, RedeemInv
<1>3. ASSUME NEW p \in Presenters, Present(p), ~Ends(p) PROVE Redemption'
  BY <1>3, TakeUpStep, ConsumeStep, VerifyStep, SignStep DEF Present, Ends
<1>4. CASE LeaseEnds \/ UNCHANGED vars
  <2>1. UNCHANGED <<clock, att, holds, now, spent, credentials, pc, target>>
    BY <1>4 DEF LeaseEnds, vars, rotationVars
  <2>2. QED
    BY <2>1, FrameStep DEF TargetInv, RedeemInv
<1>5. CASE Tick
  <2>1. TargetInv'
    BY <1>5 DEF Tick, TargetInv, RedeemInv, rotationVars
  <2>2. QED
    BY <1>5, <2>1, TickStep
<1>6. QED
  BY <1>1, <1>2, <1>3, <1>4, <1>5, CreateStep, RotateStep, EndStep DEF Next, Ends

(* Every variable of BlindIssuance keeps its type, and the default kid of
   every configuration ever written has both of its key records. *)
THEOREM BlindIssuanceTypeCorrect == Spec => []TypeOK
<1>1. RedeemInv => TypeOK
  BY DEF RedeemInv
<1>2. QED
  BY <1>1, InitRedeem, StepRedeem, PTL DEF Spec

(* However often, however late and during whatever rotations an attestation
   is presented, blind_issuance signs at most one credential for it. *)
THEOREM RedeemedOnceHolds == Spec => []RedeemedOnce
<1>1. RedeemInv => RedeemedOnce
  BY DEF RedeemInv, AttInv, RedeemedOnce
<1>2. QED
  BY <1>1, InitRedeem, StepRedeem, PTL DEF Spec

-----------------------------------------------------------------------------
(* The overlap window. *)

(* A configuration moves the default kid and keeps the one before it, unless
   it or the one before it is torn. *)
ChainInv ==
    \A i \in DOMAIN configs :
      /\ configs[i].at <= clock
      /\ configs[i].at <= configs[Len(configs)].at
      /\ i > 1 /\ i \notin torn /\ i - 1 \notin torn =>
           /\ configs[i].default # configs[i - 1].default
           /\ configs[i].previous = configs[i - 1].default

(* A rotation at work that is not hurried holds the lease, and whatever was
   written since it read the configuration is torn. *)
Unhurried(r) == r \notin hurried /\ pc[r] \in {"locked", "write"}

WriterInv ==
    \A r \in Rotators :
      /\ Unhurried(r) => holder = r
      /\ pc[r] = "write" => target[r] # configs[ver[r]].default
      /\ Unhurried(r) /\ pc[r] = "write" =>
           \A i \in DOMAIN configs : i > ver[r] => i \in torn

(* An attestation is signed under the default kid its creator read. *)
MadeInv ==
    \A c \in Creators : att[c] # NoAtt => att[c].kid = configs[ver[c]].default

(* A presenter tries the eligible kids of the configuration it read. *)
TriedInv ==
    \A p \in Presenters :
      /\ pc[p] \in {"consume", "verify", "unverified"} =>
           cands[p] = {k \in trial_verify_candidate_slots(configs[ver[p]]) :
                         is_eligible(Keys[k], now[p])}
      /\ pc[p] = "unverified" =>
           /\ holds[p] \in Creators /\ att[holds[p]] # NoAtt
           /\ att[holds[p]].kid \notin cands[p] \/ ~Young(p)

(* The inductive invariant. *)
OverlapInv == RedeemInv /\ ChainInv /\ WriterInv /\ MadeInv /\ TriedInv

(* Only the write of a rotation changes the configurations, by one more. *)
LEMMA ConfigStep ==
  ASSUME [Next]_vars, ~(UNCHANGED <<configs, torn>>)
  PROVE  \E r \in Rotators : put_issuer_config(r)
  BY DEF Next, vars, Rotate, Present, refuse_creation, create_attestation, sign_attestation,
         refuse_rotation, acquire_rotation_lock, rotate_attestation_key_inner,
         release_rotation_lock, Crash, refuse_presentation, blind_issuance, refuse_at_cap,
         collect_candidates, validate_and_consume_attestation_nonce, verify_with_timestamp,
         fail_after_nonce, sign_commitment, LeaseEnds, Tick, End, rotationVars

(* A configuration stays what it was when a request read it. *)
LEMMA ConfigKept ==
  ASSUME RedeemInv, [Next]_vars
  PROVE  \A i \in DOMAIN configs : i \in DOMAIN configs' /\ configs'[i] = configs[i]
<1>1. CASE configs' = configs
  BY <1>1
<1>2. CASE configs' # configs
  <2>1. PICK r \in Rotators : put_issuer_config(r)
    BY <1>2, ConfigStep
  <2>2. PICK e : configs' = Append(configs, e)
    BY <1>2, <2>1 DEF put_issuer_config
  <2>3. QED
    BY <2>2 DEF RedeemInv, TypeOK
<1>3. QED
  BY <1>1, <1>2

(* The clock does not go back. *)
LEMMA ClockStep ==
  ASSUME RedeemInv, [Next]_vars
  PROVE  clock' >= clock /\ clock' \in Nat
<1>1. clock' = clock \/ clock' = clock + 1
  BY DEF Next, vars, Rotate, Present, refuse_creation, create_attestation, sign_attestation,
         refuse_rotation, acquire_rotation_lock, rotate_attestation_key_inner,
         put_issuer_config, release_rotation_lock, Crash, refuse_presentation,
         blind_issuance, refuse_at_cap, collect_candidates,
         validate_and_consume_attestation_nonce, verify_with_timestamp,
         fail_after_nonce, sign_commitment, LeaseEnds, Tick, End, rotationVars
<1>2. QED
  BY <1>1 DEF RedeemInv, TypeOK

(* The configuration that a rotation in no hurry writes follows the newest
   one, or a torn one. *)
LEMMA ChainStep ==
  ASSUME OverlapInv, [Next]_vars
  PROVE  ChainInv'
<1> USE DEF OverlapInv
<1>0. \A i \in DOMAIN configs : configs[i] \in IssuerConfig
  BY DEF RedeemInv, TypeOK
<1>1. /\ clock' >= clock /\ clock' \in Nat /\ clock \in Nat
      /\ \A i \in DOMAIN configs : configs[i].at \in Nat
  <2>1. clock' >= clock /\ clock' \in Nat
    BY ClockStep
  <2>2. clock \in Nat
    BY DEF RedeemInv, TypeOK
  <2>3. \A i \in DOMAIN configs : configs[i].at \in Nat
    BY <1>0 DEF IssuerConfig
  <2>4. QED
    BY <2>1, <2>2, <2>3
<1>2. CASE UNCHANGED <<configs, torn>>
  <2>1. \A i \in DOMAIN configs : configs[i].at <= clock'
    BY <1>1 DEF ChainInv
  <2>2. QED
    BY <1>2, <2>1 DEF ChainInv
<1>3. CASE ~(UNCHANGED <<configs, torn>>)
  <2>1. PICK r \in Rotators : put_issuer_config(r)
    BY <1>3, ConfigStep
  <2> DEFINE n == Len(configs)
             e == [default |-> target[r], previous |-> configs[ver[r]].default, at |-> clock]
  <2>2. /\ configs' = Append(configs, e) /\ clock' = clock /\ pc[r] = "write"
        /\ torn' = IF r \in hurried THEN torn \cup {n + 1} ELSE torn
    BY <1>3, <2>1 DEF put_issuer_config
  <2>3. n \in DOMAIN configs /\ ver[r] \in 1 .. n /\ n \in Nat
    BY DEF RedeemInv, TypeOK, Requests
  <2>4. r \notin hurried /\ n \notin torn => ver[r] = n /\ target[r] # configs[n].default
    <3>1. r \notin hurried => \A i \in DOMAIN configs : i > ver[r] => i \in torn
      BY <2>2 DEF WriterInv, Unhurried
    <3>2. r \notin hurried /\ n \notin torn => ~(n > ver[r])
      BY <2>3, <3>1
    <3>3. ~(n > ver[r]) => ver[r] = n
      BY <2>3
    <3>4. QED
      BY <2>2, <3>2, <3>3 DEF WriterInv
  <2>5. /\ e.at = clock
        /\ r \notin hurried /\ n \notin torn =>
             e.default # configs[n].default /\ e.previous = configs[n].default
    BY <2>4
  <2> HIDE DEF e
  <2>6. /\ DOMAIN configs' = 1 .. n + 1 /\ Len(configs') = n + 1
        /\ configs'[n + 1] = e
        /\ \A i \in 1 .. n : configs'[i] = configs[i] /\ i \in DOMAIN configs
    BY <2>2, <2>3 DEF RedeemInv, TypeOK
  <2> HIDE DEF n
  <2>7. SUFFICES ASSUME NEW i \in 1 .. n + 1
                 PROVE  /\ configs'[i].at <= clock
                        /\ i > 1 /\ i \notin torn' /\ i - 1 \notin torn' =>
                             /\ configs'[i].default # configs'[i - 1].default
                             /\ configs'[i].previous = configs'[i - 1].default
    BY <2>2, <2>5, <2>6 DEF ChainInv
  <2>8. CASE i = n + 1
    <3>1. configs'[i] = e /\ i - 1 = n /\ configs'[i - 1] = configs[n] /\ clock <= clock
      BY <1>1, <2>3, <2>6, <2>8
    <3>2. i \notin torn' => r \notin hurried /\ torn' = torn
      BY <2>2, <2>8
    <3>3. QED
      BY <2>5, <3>1, <3>2
  <2>9. CASE i # n + 1
    <3>1. i \in DOMAIN configs /\ configs'[i] = configs[i]
      BY <2>3, <2>6, <2>9
    <3>2. i > 1 => configs'[i - 1] = configs[i - 1]
      BY <2>3, <2>6, <2>9
    <3>3. torn \subseteq torn'
      BY <2>2
    <3>4. QED
      BY <3>1, <3>2, <3>3 DEF ChainInv
  <2>10. QED
    BY <2>8, <2>9
<1>4. QED
  BY <1>2, <1>3

(* Steps of creators, presenters and the clock leave rotations alone. *)
LEMMA NotRotating ==
  ASSUME OverlapInv, Next, \A r \in Rotators : ~Rotate(r), ~LeaseEnds
  PROVE  UNCHANGED <<configs, holder, target, hurried, torn>>
         /\ \A r \in Rotators : pc'[r] = pc[r] /\ ver'[r] = ver[r]
  BY BlindIssuanceAssumption
     DEF OverlapInv, RedeemInv, TypeOK, Requests, Goto, Next, Present, refuse_creation,
         create_attestation, sign_attestation, refuse_presentation, blind_issuance,
         refuse_at_cap, collect_candidates, validate_and_consume_attestation_nonce,
         verify_with_timestamp, fail_after_nonce, sign_commitment, Tick, End, rotationVars

(* Once the last change has spread, everybody reads the newest configuration. *)
LEMMA SettledRead ==
  ASSUME OverlapInv, Settled
  PROVE  get_issuer_config \subseteq {Len(configs)}
<1> USE BlindIssuanceAssumption DEF OverlapInv, RedeemInv, TypeOK
<1> SUFFICES ASSUME NEW v \in DOMAIN configs, v # Len(configs), configs[v + 1].at + KvLag > clock
             PROVE  FALSE
  BY DEF get_issuer_config
<1>1. v + 1 \in DOMAIN configs /\ Len(configs) \in DOMAIN configs
  OBVIOUS
<1>2. /\ configs[v + 1] \in IssuerConfig /\ configs[Len(configs)] \in IssuerConfig
      /\ configs[v + 1].at <= configs[Len(configs)].at
  BY <1>1 DEF ChainInv
<1>3. configs[v + 1].at \in Nat /\ configs[Len(configs)].at \in Nat
  BY <1>2 DEF IssuerConfig
<1>4. configs[Len(configs)].at + KvLag <= clock
  BY DEF Settled
<1>5. QED
  BY <1>2, <1>3, <1>4

(* Under the lease nothing but torn configurations follows the one that a
   rotation in no hurry has read. *)
LEMMA WriterStep ==
  ASSUME OverlapInv, [Next]_vars
  PROVE  WriterInv'
<1> USE BlindIssuanceAssumption DEF OverlapInv
<1>1. ASSUME UNCHANGED <<configs, holder, target, hurried, torn>>,
             \A r \in Rotators : pc'[r] = pc[r] /\ ver'[r] = ver[r]
      PROVE  WriterInv'
  BY <1>1 DEF WriterInv, Unhurried
<1>2. CASE UNCHANGED vars
  BY <1>1, <1>2 DEF vars, rotationVars
<1>3. CASE LeaseEnds
  <2>1. UNCHANGED <<configs, target, torn, pc, ver>>
    BY <1>3 DEF LeaseEnds
  <2>2. \A r \in Rotators : ~Unhurried(r)'
    BY <1>3 DEF LeaseEnds, Unhurried, WriterInv
  <2>3. QED
    BY <2>1, <2>2 DEF WriterInv
<1>4. ASSUME NEW r \in Rotators, Rotate(r) PROVE WriterInv'
  <2> USE DEF RedeemInv, TypeOK, Goto, Requests
  <2>1. /\ \A x \in Rotators : x # r => pc'[x] = pc[x] /\ ver'[x] = ver[x]
                                         /\ target'[x] = target[x]
    BY <1>4 DEF Rotate, refuse_rotation, End, acquire_rotation_lock,
         rotate_attestation_key_inner, put_issuer_config, release_rotation_lock, Crash, rotationVars
  <2>2. CASE acquire_rotation_lock(r)
    <3>1. \A x \in Rotators : ~Unhurried(x)
      BY <2>2 DEF acquire_rotation_lock, WriterInv
    <3>2. pc'[r] = "locked" /\ holder' = r /\ UNCHANGED <<configs, hurried, torn>>
      BY <2>2 DEF acquire_rotation_lock
    <3>3. QED
      BY <2>1, <3>1, <3>2 DEF WriterInv, Unhurried
  <2>3. CASE rotate_attestation_key_inner(r)
    <3>1. /\ UNCHANGED <<configs, holder, target, torn>> /\ pc[r] = "locked"
          /\ \A x \in Rotators : x # r => (x \in hurried' <=> x \in hurried)
          /\ r \notin hurried' => r \notin hurried /\ Settled
      BY <2>3 DEF rotate_attestation_key_inner
    <3>2. pc'[r] = "write" =>
            ver'[r] \in get_issuer_config /\ target[r] # configs[ver'[r]].default
      BY <2>3 DEF rotate_attestation_key_inner, Promotable
    <3>3. Unhurried(r)' => holder = r
      BY <3>1 DEF WriterInv, Unhurried
    <3>4. Unhurried(r)' /\ pc'[r] = "write" => \A i \in DOMAIN configs : ~(i > ver'[r])
      <4>1. Unhurried(r)' /\ pc'[r] = "write" => ver'[r] = Len(configs)
        BY <3>1, <3>2, SettledRead DEF Unhurried
      <4>2. \A i \in DOMAIN configs : ~(i > Len(configs))
        OBVIOUS
      <4>3. QED
        BY <4>1, <4>2
    <3>5. \A x \in Rotators : x # r => (Unhurried(x)' <=> Unhurried(x))
      BY <2>1, <3>1 DEF Unhurried
    <3>6. QED
      BY <2>1, <3>1, <3>2, <3>3, <3>4, <3>5 DEF WriterInv
  <2>4. CASE put_issuer_config(r)
    <3>1. pc[r] = "write" /\ pc'[r] = "release" /\ UNCHANGED <<holder, hurried, ver, target>>
      BY <2>4 DEF put_issuer_config
    <3>2. \A x \in Rotators : x # r => (Unhurried(x)' <=> Unhurried(x))
      BY <2>1, <3>1 DEF Unhurried
    <3>3. \A x \in Rotators : x # r /\ Unhurried(x) => r \in hurried
      BY <3>1 DEF WriterInv, Unhurried
    <3>4. ASSUME NEW x \in Rotators, x # r, Unhurried(x), pc[x] = "write",
                 NEW i \in DOMAIN configs', i > ver[x]
          PROVE  i \in torn'
      <4>1. \/ UNCHANGED <<configs, torn>>
            \/ \E e : configs' = Append(configs, e) /\ torn' = torn \cup {Len(configs) + 1}
        BY <2>4, <3>3, <3>4 DEF put_issuer_config
      <4>2. i \in DOMAIN configs \/ (i = Len(configs) + 1 /\ torn' = torn \cup {Len(configs) + 1})
        BY <4>1
      <4>3. torn \subseteq torn'
        BY <4>1
      <4>4. QED
        BY <3>4, <4>2, <4>3 DEF WriterInv
    <3>5. \A x \in Rotators : configs'[ver[x]] = configs[ver[x]]
      BY ConfigKept
    <3>6. QED
      BY <2>1, <3>1, <3>2, <3>4, <3>5 DEF WriterInv, Unhurried
  <2>5. CASE release_rotation_lock(r) \/ Crash(r) \/ refuse_rotation(r)
    <3>1. pc'[r] = "done" /\ UNCHANGED <<configs, target, hurried, torn>>
          /\ (holder' = holder \/ holder = r)
      BY <2>5 DEF release_rotation_lock, Crash, refuse_rotation, End, rotationVars
    <3>2. \A x \in Rotators : x # r => (Unhurried(x)' <=> Unhurried(x))
      BY <2>1, <3>1 DEF Unhurried
    <3>3. \A x \in Rotators : x # r /\ Unhurried(x) => holder' = x
      BY <3>1 DEF WriterInv
    <3>4. QED
      BY <2>1, <3>1, <3>2, <3>3 DEF WriterInv, Unhurried
  <2>6. QED
    BY <1>4, <2>2, <2>3, <2>4, <2>5 DEF Rotate
<1>5. QED
  BY <1>1, <1>2, <1>3, <1>4, NotRotating

(* A step is one creator's, or leaves all attestations as they are. *)
LEMMA CreatorSteps ==
  ASSUME OverlapInv, [Next]_vars, NEW c \in Creators,
         ~create_attestation(c), ~sign_attestation(c)
  PROVE  att'[c] = att[c] /\ ver'[c] = ver[c]
<1> USE BlindIssuanceAssumption DEF OverlapInv, RedeemInv, TypeOK, Requests
<1>1. ASSUME NEW d \in Creators,
             refuse_creation(d) \/ create_attestation(d) \/ sign_attestation(d)
      PROVE  att'[c] = att[c] /\ ver'[c] = ver[c]
  BY <1>1 DEF refuse_creation, create_attestation, sign_attestation, End, rotationVars
<1>2. ASSUME NEW p \in Presenters, Present(p) PROVE att'[c] = att[c] /\ ver'[c] = ver[c]
  BY <1>2 DEF Present, refuse_presentation, blind_issuance, refuse_at_cap,
              collect_candidates, validate_and_consume_attestation_nonce,
              verify_with_timestamp, fail_after_nonce, sign_commitment, End, rotationVars
<1>3. ASSUME NEW r \in Rotators, Rotate(r) PROVE att'[c] = att[c] /\ ver'[c] = ver[c]
  BY <1>3 DEF Rotate, refuse_rotation, acquire_rotation_lock,
              rotate_attestation_key_inner, put_issuer_config, release_rotation_lock,
              Crash, End, rotationVars
<1>4. CASE LeaseEnds \/ Tick \/ UNCHANGED vars
  BY <1>4 DEF LeaseEnds, Tick, vars, rotationVars
<1>5. QED
  BY <1>1, <1>2, <1>3, <1>4 DEF Next

(* An attestation is signed once, under the default kid that was read. *)
LEMMA MadeStep ==
  ASSUME OverlapInv, [Next]_vars
  PROVE  MadeInv' /\ \A c \in Creators : att[c] # NoAtt => att'[c] = att[c]
<1> SUFFICES ASSUME NEW c \in Creators
             PROVE  /\ att'[c] # NoAtt => att'[c].kid = configs'[ver'[c]].default
                    /\ att[c] # NoAtt => att'[c] = att[c]
  BY DEF MadeInv
<1> USE DEF OverlapInv
<1>1. ver[c] \in DOMAIN configs
  BY DEF RedeemInv, TypeOK, Requests
<1>2. configs'[ver[c]] = configs[ver[c]]
  BY <1>1, ConfigKept
<1>3. CASE create_attestation(c)
  <2>1. att[c] = NoAtt
    BY <1>3 DEF create_attestation, Arrive, RedeemInv, AttInv
  <2>2. QED
    BY <1>3, <2>1 DEF create_attestation, rotationVars
<1>4. CASE sign_attestation(c)
  <2>1. att[c] = NoAtt
    BY <1>4 DEF sign_attestation, RedeemInv, AttInv, rotationVars
  <2>2. ver' = ver
    BY <1>4 DEF sign_attestation, rotationVars
  <2>3. att'[c] = NoAtt \/ att'[c].kid = configs[ver[c]].default
    BY <1>4, <2>1 DEF sign_attestation, RedeemInv, TypeOK, rotationVars
  <2>4. QED
    BY <1>2, <2>1, <2>2, <2>3
<1>5. CASE ~create_attestation(c) /\ ~sign_attestation(c)
  <2>1. att'[c] = att[c] /\ ver'[c] = ver[c]
    BY <1>5, CreatorSteps
  <2>2. QED
    BY <1>2, <2>1 DEF MadeInv
<1>6. QED
  BY <1>3, <1>4, <1>5

(* A step is this presenter's, or leaves what it has read as it is. *)
LEMMA PresenterSteps ==
  ASSUME OverlapInv, [Next]_vars, NEW p \in Presenters, ~Present(p)
  PROVE  /\ pc'[p] = pc[p] /\ ver'[p] = ver[p] /\ holds'[p] = holds[p]
         /\ now'[p] = now[p] /\ cands'[p] = cands[p]
<1> USE BlindIssuanceAssumption DEF OverlapInv, RedeemInv, TypeOK, Requests, Goto
<1>1. ASSUME NEW q \in Presenters, q # p, Present(q)
      PROVE  /\ pc'[p] = pc[p] /\ ver'[p] = ver[p] /\ holds'[p] = holds[p]
             /\ now'[p] = now[p] /\ cands'[p] = cands[p]
  BY <1>1 DEF Present, refuse_presentation, blind_issuance, refuse_at_cap,
              collect_candidates, validate_and_consume_attestation_nonce,
              verify_with_timestamp, fail_after_nonce, sign_commitment, End, rotationVars
<1>2. ASSUME NEW r \in Rotators, Rotate(r)
      PROVE  /\ pc'[p] = pc[p] /\ ver'[p] = ver[p] /\ holds'[p] = holds[p]
             /\ now'[p] = now[p] /\ cands'[p] = cands[p]
  BY <1>2 DEF Rotate, refuse_rotation, acquire_rotation_lock,
              rotate_attestation_key_inner, put_issuer_config, release_rotation_lock,
              Crash, End, rotationVars
<1>3. ASSUME NEW c \in Creators,
             refuse_creation(c) \/ create_attestation(c) \/ sign_attestation(c)
      PROVE  /\ pc'[p] = pc[p] /\ ver'[p] = ver[p] /\ holds'[p] = holds[p]
             /\ now'[p] = now[p] /\ cands'[p] = cands[p]
  BY <1>3 DEF refuse_creation, create_attestation, sign_attestation, End, rotationVars
<1>4. CASE LeaseEnds \/ Tick \/ UNCHANGED vars
  BY <1>4 DEF LeaseEnds, Tick, vars, rotationVars
<1>5. QED
  BY <1>1, <1>2, <1>3, <1>4 DEF Next

(* What a presenter tries, and why it gives up. *)
LEMMA TriedStep ==
  ASSUME OverlapInv, [Next]_vars
  PROVE  TriedInv'
<1> SUFFICES ASSUME NEW p \in Presenters
             PROVE  /\ pc'[p] \in {"consume", "verify", "unverified"} =>
                         cands'[p] = {k \in trial_verify_candidate_slots(configs'[ver'[p]]) :
                                        is_eligible(Keys[k], now'[p])}
                    /\ pc'[p] = "unverified" =>
                         /\ holds'[p] \in Creators /\ att'[holds'[p]] # NoAtt
                         /\ att'[holds'[p]].kid \notin cands'[p] \/ ~Young(p)'
  BY DEF TriedInv
<1> USE DEF OverlapInv
<1>1. ver[p] \in DOMAIN configs /\ p \in Requests
  BY DEF RedeemInv, TypeOK, Requests
<1>2. configs'[ver[p]] = configs[ver[p]]
  BY <1>1, ConfigKept
<1>3. CASE /\ UNCHANGED <<ver[p], holds[p], now[p], cands[p]>>
           /\ pc'[p] = pc[p] \/ pc'[p] \notin {"consume", "verify", "unverified"}
  BY <1>2, <1>3, MadeStep DEF TriedInv, Young
<1>4. CASE Present(p)
  <2>1. CASE refuse_presentation(p) \/ refuse_at_cap(p) \/ fail_after_nonce(p)
             \/ sign_commitment(p)
    BY <1>1, <1>3, <2>1 DEF refuse_presentation, refuse_at_cap, fail_after_nonce, End,
       sign_commitment, Goto, RedeemInv, TypeOK, rotationVars
  <2>2. CASE blind_issuance(p)
    BY <1>1, <2>2 DEF blind_issuance, Goto, RedeemInv, TypeOK, rotationVars
  <2>3. CASE collect_candidates(p)
    <3>1. now'[p] = clock /\ ver' = ver
          /\ cands'[p] = {k \in trial_verify_candidate_slots(configs[ver[p]]) :
                            is_eligible(Keys[k], clock)}
      BY <2>3 DEF collect_candidates, RedeemInv, TypeOK, rotationVars
    <3>2. pc'[p] # "unverified"
      BY <1>1, <2>3 DEF collect_candidates, Goto, RedeemInv, TypeOK, rotationVars
    <3>3. QED
      BY <1>2, <3>1, <3>2
  <2>4. CASE validate_and_consume_attestation_nonce(p)
    <3>1. UNCHANGED <<ver, holds, now, cands>> /\ pc[p] = "consume"
      BY <2>4 DEF validate_and_consume_attestation_nonce, rotationVars
    <3>2. pc'[p] # "unverified"
      BY <1>1, <2>4 DEF validate_and_consume_attestation_nonce, Goto, RedeemInv, TypeOK, rotationVars
    <3>3. QED
      BY <1>2, <3>1, <3>2 DEF TriedInv
  <2>5. CASE verify_with_timestamp(p)
    <3>1. UNCHANGED <<ver, holds, now, cands, att>> /\ pc[p] = "verify"
      BY <2>5 DEF verify_with_timestamp, rotationVars
    <3>2. pc'[p] = "unverified" => att[holds[p]].kid \notin cands[p] \/ ~Young(p)
      BY <1>1, <2>5 DEF verify_with_timestamp, Goto, RedeemInv, TypeOK, Young, rotationVars
    <3>3. holds[p] \in Creators /\ att[holds[p]] # NoAtt
      BY <3>1 DEF RedeemInv, PresentInv
    <3>4. Young(p)' <=> Young(p)
      BY <3>1 DEF Young
    <3>5. QED
      BY <1>2, <3>1, <3>2, <3>3, <3>4 DEF TriedInv
  <2>6. QED
    BY <1>4, <2>1, <2>2, <2>3, <2>4, <2>5 DEF Present
<1>5. CASE ~Present(p)
  BY <1>3, <1>5, PresenterSteps
<1>6. QED
  BY <1>4, <1>5

(* Where nothing is torn, every configuration is a change of the default kid. *)
LEMMA ChangesCount ==
  ASSUME OverlapInv, NEW v \in DOMAIN configs, NEW w \in DOMAIN configs, v <= w,
         torn \cap (v .. w) = {}
  PROVE  Changes(v, w) = w - v
<1>1. configs \in Seq(IssuerConfig)
  BY DEF OverlapInv, RedeemInv, TypeOK
<1>2. {i \in v + 1 .. w : configs[i].default # configs[i - 1].default} = v + 1 .. w
  <2> SUFFICES ASSUME NEW i \in v + 1 .. w PROVE configs[i].default # configs[i - 1].default
    OBVIOUS
  <2>1. i \in DOMAIN configs /\ i > 1 /\ i \in v .. w /\ i - 1 \in v .. w
    BY <1>1
  <2>2. QED
    BY <2>1 DEF OverlapInv, ChainInv
<1>3. v + 1 \in Int /\ w \in Int
  BY <1>1
<1>4. Cardinality(v + 1 .. w) = IF v + 1 > w THEN 0 ELSE w - (v + 1) + 1
  BY <1>3, FS_Interval
<1>5. Changes(v, w) = Cardinality(v + 1 .. w)
  BY <1>2 DEF Changes
<1>6. v \in Nat /\ w \in Nat
  BY <1>1
<1>7. QED
  BY <1>4, <1>5, <1>6

(* The invariant implies the window. *)
LEMMA OverlapImplies == OverlapInv => OneRotationTolerated
<1> SUFFICES ASSUME OverlapInv, NEW p \in Presenters, pc[p] = "unverified",
                    now[p] <= att[holds[p]].at + MaxAge,
                    is_eligible(Keys[att[holds[p]].kid], now[p]),
                    ver[p] >= ver[holds[p]],
                    ~(Changes(ver[holds[p]], ver[p]) >= 2),
                    torn \cap (ver[holds[p]] .. ver[p]) = {}
             PROVE  FALSE
  <2>1. ASSUME NEW p \in Presenters, OverlapInv, pc[p] = "unverified" 
        PROVE  /\ now[p] \in Int /\ att[holds[p]].at + MaxAge \in Int
               /\ ver[p] \in Int /\ ver[holds[p]] \in Int
    <3>1. holds[p] \in Creators /\ p \in Requests
      BY <2>1 DEF OverlapInv, TriedInv, Requests
    <3>2. att[holds[p]].at \in Nat
      BY <2>1, <3>1 DEF OverlapInv, RedeemInv, TypeOK, Attestation
    <3>3. ver[p] \in DOMAIN configs /\ ver[holds[p]] \in DOMAIN configs
          /\ configs \in Seq(IssuerConfig)
      BY <2>1, <3>1 DEF OverlapInv, RedeemInv, TypeOK, Requests
    <3>4. now[p] \in Nat
      BY <2>1 DEF OverlapInv, RedeemInv, TypeOK
    <3>5. QED
      BY <3>2, <3>3, <3>4, BlindIssuanceAssumption
  <2>2. QED
    BY <2>1 DEF OneRotationTolerated
<1> DEFINE c == holds[p]
           cfg == configs[ver[p]]
<1>1. /\ c \in Creators /\ att[c] # NoAtt
      /\ att[c].kid \notin cands[p]
      /\ cands[p] = {k \in trial_verify_candidate_slots(cfg) : is_eligible(Keys[k], now[p])}
  BY DEF OverlapInv, TriedInv, Young
<1>2. ver[c] \in DOMAIN configs /\ ver[p] \in DOMAIN configs /\ configs \in Seq(IssuerConfig)
  BY <1>1 DEF OverlapInv, RedeemInv, TypeOK, Requests
<1>3. att[c].kid = configs[ver[c]].default /\ att[c].kid # NoKid
  <2>1. att[c].kid = configs[ver[c]].default
    BY <1>1 DEF OverlapInv, MadeInv
  <2>2. configs[ver[c]].default \in Kids
    BY <1>1, DefaultLoaded DEF OverlapInv, RedeemInv, Requests
  <2>3. QED
    BY <2>1, <2>2, BlindIssuanceAssumption
<1>4. att[c].kid # cfg.default /\ att[c].kid # cfg.previous
  BY <1>1, <1>3 DEF trial_verify_candidate_slots
<1>5. Changes(ver[c], ver[p]) = ver[p] - ver[c]
  BY <1>2, ChangesCount
<1>5a. torn \cap (ver[c] .. ver[p]) = {}
  OBVIOUS
<1> HIDE DEF c
<1>6. ver[p] = ver[c] \/ ver[p] = ver[c] + 1
  BY <1>2, <1>5 DEF c
<1>7. CASE ver[p] = ver[c]
  BY <1>3, <1>4, <1>7
<1>8. CASE ver[p] = ver[c] + 1
  <2>1. ver[p] > 1 /\ ver[p] \notin torn /\ ver[p] - 1 \notin torn
    BY <1>2, <1>5a, <1>8
  <2>2. cfg.previous = configs[ver[p] - 1].default
    BY <1>2, <2>1 DEF OverlapInv, ChainInv
  <2>3. ver[p] - 1 = ver[c]
    BY <1>2, <1>8
  <2>4. QED
    BY <1>3, <1>4, <2>2, <2>3
<1>9. QED
  BY <1>6, <1>7, <1>8

(* One rotation is tolerated: an attestation in time fails only after two
   changes of the default kid, at a presenter with an older configuration
   than its creator, or across the write of a rotation that read before the
   last change had spread or that outlived its lease. *)
THEOREM OneRotationToleratedHolds == Spec => []OneRotationTolerated
<1>1. Init => OverlapInv
  <2> SUFFICES ASSUME Init PROVE OverlapInv
    OBVIOUS
  <2>1. ChainInv
    BY DEF Init, ChainInv
  <2>2. WriterInv /\ MadeInv /\ TriedInv
    BY DEF Init, WriterInv, Unhurried, MadeInv, TriedInv, Requests
  <2>3. QED
    BY <2>1, <2>2, InitRedeem DEF OverlapInv
<1>2. OverlapInv /\ [Next]_vars => OverlapInv'
  BY StepRedeem, ChainStep, WriterStep, MadeStep, TriedStep DEF OverlapInv
<1>3. QED
  BY <1>1, <1>2, OverlapImplies, PTL DEF Spec
=============================================================================
