--------------------------- MODULE ChallengeProofs ---------------------------
(***************************************************************************)
(* One use per challenge, for all challenges, handlers and TTLs, with or   *)
(* without faults, whenever a handler's time plus the KV lag is shorter    *)
(* than the Durable Object's record of the consumption.                    *)
(***************************************************************************)
EXTENDS Challenge, TLAPS

(* The condition on the deployment's constants. *)
Timely == Processing + KvLag < DoTtl

(* Handlers that were granted the challenge they present, and those among
   them that found it unused. *)
Granted == {h \in Handlers : chal[h] \in Challenges
              /\ (pc[h] \in {"read", "mark"} \/ h \in served[chal[h]])}
Claims == {h \in Granted : pc[h] = "mark" \/ h \in served[chal[h]]}

(* A handler in flight presents a challenge, was granted it at most Processing
   seconds ago; one that was served is done. *)
FlightInv ==
    /\ \A h \in InFlight :
         chal[h] \in Challenges /\ since[h] <= now /\ now <= since[h] + Processing
    /\ \A c \in Challenges, h \in Handlers :
         h \in served[c] => chal[h] = c /\ pc[h] = "done"

(* Grants of one challenge are DoTtl apart. *)
GrantInv ==
    /\ \A c \in Challenges : lastGrant[c] <= now
    /\ \A h \in Granted :
         lastGrant[chal[h]] # Never /\ since[h] <= lastGrant[chal[h]]
    /\ \A g, h \in Granted :
         g # h /\ chal[g] = chal[h] =>
           since[g] >= since[h] + DoTtl \/ since[h] >= since[g] + DoTtl

(* A served challenge was marked within its handler's time, and only served
   challenges are marked. *)
MarkInv ==
    \A c \in Challenges :
      /\ \A h \in served[c] :
           markedAt[c] # Never /\ markedAt[c] <= since[h] + Processing
      /\ served[c] = {} => markedAt[c] = Never

(* One handler at most found a challenge unused. *)
ClaimInv == \A g, h \in Claims : chal[g] = chal[h] => g = h

(* The inductive invariant. *)
UseInv == TypeOK /\ FlightInv /\ GrantInv /\ MarkInv /\ ClaimInv

-----------------------------------------------------------------------------

(* Every variable of Challenge keeps its type. *)
LEMMA TypeStep == TypeOK /\ [Next]_vars => TypeOK'
<1> SUFFICES ASSUME TypeOK, [Next]_vars PROVE TypeOK'
  OBVIOUS
<1> USE ChallengeAssumption DEF TypeOK, InFlight, Goto, Never
<1>1. ASSUME NEW c \in Challenges, generate_yubikey_challenge(c) PROVE TypeOK'
  BY <1>1 DEF generate_yubikey_challenge
<1>2. ASSUME NEW c \in Challenges, create_challenge(c) PROVE TypeOK'
  BY <1>2 DEF create_challenge
<1>3. ASSUME NEW c \in Challenges, NEW h \in Handlers, consume_resource_once(h, c)
      PROVE  TypeOK'
  BY <1>3 DEF consume_resource_once
<1>4. ASSUME NEW h \in Handlers, read_challenge(h) PROVE TypeOK'
  BY <1>4 DEF read_challenge
<1>5. ASSUME NEW h \in Handlers, mark_used(h) PROVE TypeOK'
  BY <1>5 DEF mark_used
<1>6. CASE Tick
  BY <1>6 DEF Tick
<1>7. CASE UNCHANGED vars
  BY <1>7 DEF vars
<1>8. QED
  BY <1>1, <1>2, <1>3, <1>4, <1>5, <1>6, <1>7 DEF Next

(* A handler's grant: the other grants of the challenge are DoTtl ago. *)
LEMMA ConsumeStep ==
  ASSUME UseInv, NEW c \in Challenges, NEW h \in Handlers,
         consume_resource_once(h, c), TypeOK'
  PROVE  UseInv'
<1> USE ChallengeAssumption DEF UseInv, Never
<1>1. pc[h] = "start" /\ UNCHANGED <<now, markedAt, served>>
  BY DEF consume_resource_once
<1>2. h \notin Granted /\ \A d \in Challenges : h \notin served[d]
  BY <1>1 DEF FlightInv, Granted
<1>3. \A g \in Handlers : g # h => pc'[g] = pc[g] /\ chal'[g] = chal[g]
                                    /\ since'[g] = since[g]
  BY DEF consume_resource_once, Goto, TypeOK
<1>4. chal'[h] = c /\ pc'[h] # "mark"
  BY DEF consume_resource_once, Goto, TypeOK
<1>5. \A g \in Handlers : g # h => (g \in Granted' <=> g \in Granted)
  BY <1>1, <1>3 DEF Granted
<1>6. \A g \in Claims' : g \in Claims /\ g # h
  BY <1>1, <1>2, <1>3, <1>4 DEF Claims, Granted
<1>7. ClaimInv'
  BY <1>3, <1>6 DEF ClaimInv, Claims, Granted
<1>8. MarkInv'
  BY <1>1, <1>2, <1>3 DEF MarkInv, TypeOK
<1>9. CASE /\ L!MayGrant(c)
           /\ lastGrant' = [lastGrant EXCEPT ![c] = now]
           /\ since' = [since EXCEPT ![h] = now]
           /\ Goto(h, "read")
  <2>1. lastGrant[c] = Never \/ now >= lastGrant[c] + DoTtl
    BY <1>9 DEF L!MayGrant, L!Never, Window, resettable
  <2>2. since'[h] = now /\ lastGrant'[c] = now
        /\ \A d \in Challenges : d # c => lastGrant'[d] = lastGrant[d]
    BY <1>9 DEF TypeOK
  <2>3. FlightInv'
    BY <1>1, <1>2, <1>3, <1>4, <2>2 DEF FlightInv, InFlight, TypeOK
  <2>4. \A g \in Granted : chal[g] = c => since[g] + DoTtl <= now
    BY <2>1 DEF GrantInv, Granted, TypeOK
  <2>5. \A g \in Granted' : g # h =>
          lastGrant'[chal'[g]] # Never /\ since'[g] <= lastGrant'[chal'[g]]
    BY <1>1, <1>3, <1>5, <2>2, <2>4 DEF GrantInv, Granted, TypeOK
  <2>6. \A f, g \in Granted' : f # g /\ chal'[f] = chal'[g] =>
          since'[f] >= since'[g] + DoTtl \/ since'[g] >= since'[f] + DoTtl
    BY <1>3, <1>4, <1>5, <2>2, <2>4 DEF GrantInv, Granted, TypeOK
  <2>7. GrantInv'
    <3>1. \A g \in Granted' :
            lastGrant'[chal'[g]] # Never /\ since'[g] <= lastGrant'[chal'[g]]
      BY <1>4, <2>2, <2>5 DEF TypeOK
    <3>2. \A d \in Challenges : lastGrant'[d] <= now'
      BY <1>1, <2>2 DEF GrantInv, TypeOK
    <3>3. QED
      BY <2>6, <3>1, <3>2 DEF GrantInv
  <2>8. QED
    BY <1>7, <1>8, <2>3, <2>7
<1>10. CASE Goto(h, "done") /\ UNCHANGED <<lastGrant, since>>
  <2>1. h \notin Granted'
    BY <1>1, <1>2, <1>4, <1>10 DEF Granted, Goto, TypeOK
  <2>2. GrantInv'
    BY <1>1, <1>3, <1>5, <1>10, <2>1 DEF GrantInv, Granted
  <2>3. FlightInv'
    BY <1>1, <1>2, <1>3, <1>10 DEF FlightInv, InFlight, Goto, TypeOK
  <2>4. QED
    BY <1>7, <1>8, <2>2, <2>3
<1>11. CASE /\ L!MayGrant(c)
            /\ lastGrant' = [lastGrant EXCEPT ![c] = now]
            /\ Goto(h, "done") /\ UNCHANGED since
  <2>1. h \notin Granted'
    BY <1>1, <1>2, <1>4, <1>11 DEF Granted, Goto, TypeOK
  <2>2. \A d \in Challenges : lastGrant'[d] = IF d = c THEN now ELSE lastGrant[d]
    BY <1>11 DEF TypeOK
  <2>3. GrantInv'
    <3>1. \A d \in Challenges : lastGrant'[d] <= now' /\ lastGrant[d] <= lastGrant'[d]
      BY <1>1, <2>2 DEF GrantInv, TypeOK
    <3>2. \A g \in Granted' : g \in Granted /\ g # h /\ chal[g] \in Challenges
      BY <1>5, <2>1 DEF Granted
    <3>3. \A g \in Granted' :
            lastGrant'[chal'[g]] # Never /\ since'[g] <= lastGrant'[chal'[g]]
      BY <1>3, <3>1, <3>2 DEF GrantInv, Granted, TypeOK
    <3>4. QED
      BY <1>3, <3>1, <3>2, <3>3 DEF GrantInv, Granted
  <2>4. FlightInv'
    BY <1>1, <1>2, <1>3, <1>11 DEF FlightInv, InFlight, Goto, TypeOK
  <2>5. QED
    BY <1>7, <1>8, <2>3, <2>4
<1>12. QED
  BY <1>9, <1>10, <1>11 DEF consume_resource_once

(* A handler's read: if it finds the challenge unused, nobody else claims it,
   for a claim DoTtl old has set the flag long enough ago to be seen. *)
LEMMA ReadStep ==
  ASSUME Timely, UseInv, NEW h \in Handlers, read_challenge(h), TypeOK'
  PROVE  UseInv'
<1> USE ChallengeAssumption DEF UseInv, Never
<1> DEFINE c == chal[h]
<1>1. /\ pc[h] = "read" /\ h \in InFlight /\ h \in Granted
      /\ UNCHANGED <<now, markedAt, lastGrant, chal, since, served>>
  BY DEF read_challenge, InFlight, FlightInv, Granted
<1>2. /\ \A g \in Handlers : g # h => pc'[g] = pc[g]
      /\ pc'[h] \in {"mark", "done"}
  BY DEF read_challenge, Goto, TypeOK
<1>3. FlightInv'
  BY <1>1, <1>2 DEF FlightInv, InFlight
<1>4. Granted' \subseteq Granted
  BY <1>1, <1>2 DEF Granted
<1>5. GrantInv'
  BY <1>1, <1>4 DEF GrantInv, Granted
<1>6. MarkInv'
  BY <1>1 DEF MarkInv
<1>7. \A g \in Claims' : g # h => g \in Claims
  BY <1>1, <1>2 DEF Claims, Granted
<1>8. ASSUME pc'[h] = "mark", NEW g \in Claims, g # h, chal[g] = c PROVE FALSE
  <2>1. g \in Granted /\ since[g] \in Nat /\ since[h] \in Nat /\ now \in Nat
        /\ c \in Challenges /\ markedAt[c] \in Nat \cup {Never}
    BY <1>1, <1>8 DEF Claims, Granted, TypeOK
  <2>2. since[g] >= since[h] + DoTtl \/ since[h] >= since[g] + DoTtl
    BY <1>1, <1>8, <2>1 DEF GrantInv
  <2>3. since[h] <= now /\ now <= since[h] + Processing
    BY <1>1 DEF FlightInv
  <2>4. since[g] <= now
    BY <2>1 DEF GrantInv, Granted, TypeOK
  <2>5. since[h] >= since[g] + DoTtl
    BY <2>1, <2>2, <2>3, <2>4 DEF Timely
  <2>6. CASE pc[g] = "mark"
    BY <2>1, <2>3, <2>5, <2>6 DEF FlightInv, InFlight, Granted, Timely
  <2>7. CASE g \in served[c]
    <3>1. markedAt[c] # Never /\ markedAt[c] <= since[g] + Processing
      BY <2>1, <2>7 DEF MarkInv
    <3>2. markedAt[c] = Never \/ now < markedAt[c] + KvLag
      BY <1>8 DEF read_challenge, MayFindUnused, Goto, TypeOK
    <3>3. QED
      BY <2>1, <2>3, <2>5, <3>1, <3>2 DEF Timely
  <2>8. QED
    BY <1>8, <2>6, <2>7 DEF Claims
<1>9. ClaimInv'
  <2>1. CASE pc'[h] = "mark"
    BY <1>1, <1>7, <1>8, <2>1 DEF ClaimInv
  <2>2. CASE pc'[h] = "done"
    <3>1. h \notin Claims'
      BY <1>1, <2>2 DEF Claims, FlightInv, Granted
    <3>2. QED
      BY <1>1, <1>7, <3>1 DEF ClaimInv
  <2>3. QED
    BY <1>2, <2>1, <2>2
<1>10. QED
  BY <1>3, <1>5, <1>6, <1>9

(* A handler's mark: it becomes the one served. *)
LEMMA MarkStep ==
  ASSUME UseInv, NEW h \in Handlers, mark_used(h), TypeOK'
  PROVE  UseInv'
<1> USE ChallengeAssumption DEF UseInv, Never
<1> DEFINE c == chal[h]
<1>1. /\ pc[h] = "mark" /\ h \in InFlight /\ h \in Claims /\ c \in Challenges
      /\ UNCHANGED <<now, lastGrant, chal, since>>
  BY DEF mark_used, InFlight, FlightInv, Granted, Claims
<1>2. pc'[h] = "done" /\ \A g \in Handlers : g # h => pc'[g] = pc[g]
  BY DEF mark_used, Goto, TypeOK
<1>3. /\ \A d \in Challenges : d # c => served'[d] = served[d] /\ markedAt'[d] = markedAt[d]
      /\ served'[c] \subseteq served[c] \cup {h}
  BY <1>1 DEF mark_used, TypeOK
<1>4. FlightInv'
  BY <1>1, <1>2, <1>3 DEF FlightInv, InFlight
<1>5. Granted' \subseteq Granted /\ Claims' \subseteq Claims
  BY <1>1, <1>2, <1>3 DEF Granted, Claims
<1>6. GrantInv'
  BY <1>1, <1>5 DEF GrantInv, Granted
<1>7. ClaimInv'
  BY <1>1, <1>5 DEF ClaimInv
<1>8. \A g \in served[c] : g = h
  BY <1>1, <1>5 DEF ClaimInv, Claims, Granted, FlightInv, TypeOK
<1>9. served[c] = {}
  BY <1>1, <1>8 DEF FlightInv, TypeOK
<1>10. \A g \in served'[c] :
         markedAt'[c] # Never /\ markedAt'[c] <= since'[g] + Processing
  <2>1. CASE UNCHANGED <<markedAt, served>>
    BY <1>9, <2>1
  <2>2. CASE markedAt' = [markedAt EXCEPT ![c] = IF @ = Never THEN now ELSE @]
    <3>1. markedAt'[c] = now
      BY <1>1, <1>9, <2>2 DEF MarkInv, TypeOK
    <3>2. now <= since[h] + Processing
      BY <1>1 DEF FlightInv
    <3>3. QED
      BY <1>1, <1>3, <1>9, <3>1, <3>2 DEF TypeOK
  <2>3. QED
    BY <2>1, <2>2 DEF mark_used
<1>11. served'[c] = {} => markedAt'[c] = Never
  <2>1. CASE UNCHANGED <<markedAt, served>>
    BY <1>1, <2>1 DEF MarkInv
  <2>2. CASE served' = [served EXCEPT ![c] = @ \cup {h}]
    <3>1. h \in served'[c]
      BY <1>1, <2>2 DEF TypeOK
    <3>2. QED
      BY <3>1
  <2>3. QED
    BY <2>1, <2>2 DEF mark_used
<1>12. MarkInv'
  BY <1>1, <1>3, <1>10, <1>11 DEF MarkInv
<1>13. QED
  BY <1>4, <1>6, <1>7, <1>12

(* One use per challenge: whenever Processing + KvLag < DoTtl, whatever the
   handlers' interleaving and whatever calls fail, get_and_consume_challenge
   returns a challenge to one request only. *)
THEOREM ChallengeSingleUseHolds == Spec => [](Timely => ChallengeSingleUse)
<1>1. Init => UseInv
  <2> SUFFICES ASSUME Init PROVE UseInv
    OBVIOUS
  <2>1. TypeOK
    BY ChallengeAssumption DEF Init, TypeOK, InFlight, Never
  <2>2. Granted = {} /\ InFlight = {}
    BY DEF Init, Granted, InFlight
  <2>3. QED
    BY <2>1, <2>2 DEF Init, UseInv, FlightInv, GrantInv, MarkInv, ClaimInv,
                      Claims, Never
<1>2. (Timely => UseInv) /\ [Next]_vars => (Timely => UseInv)'
  <2> SUFFICES ASSUME Timely, UseInv, [Next]_vars PROVE UseInv'
    BY DEF Timely
  <2>0. TypeOK'
    BY TypeStep DEF UseInv
  <2>1. ASSUME NEW c \in Challenges,
               generate_yubikey_challenge(c) \/ create_challenge(c)
        PROVE  UseInv'
    BY <2>0, <2>1 DEF generate_yubikey_challenge, create_challenge, UseInv,
       FlightInv, GrantInv, MarkInv, ClaimInv, Claims, Granted, InFlight
  <2>2. CASE Tick
    <3>1. UNCHANGED <<lastGrant, markedAt, pc, chal, since, served>>
          /\ now' = now + 1 /\ now \in Nat
      BY <2>2 DEF Tick, UseInv, TypeOK
    <3>2. \A h \in InFlight : now < since[h] + Processing /\ since[h] \in Nat
      BY <2>2 DEF Tick, UseInv, TypeOK, InFlight
    <3>3. FlightInv'
      BY <3>1, <3>2, ChallengeAssumption DEF UseInv, FlightInv, InFlight
    <3>4. GrantInv' /\ MarkInv' /\ ClaimInv'
      BY <3>1 DEF UseInv, GrantInv, MarkInv, ClaimInv, Claims, Granted, TypeOK,
                  Never
    <3>5. QED
      BY <2>0, <3>3, <3>4 DEF UseInv
  <2>3. CASE UNCHANGED vars
    BY <2>0, <2>3 DEF vars, UseInv, FlightInv, GrantInv, MarkInv, ClaimInv,
                      Claims, Granted, InFlight
  <2>4. QED
    BY <2>0, <2>1, <2>2, <2>3, ConsumeStep, ReadStep, MarkStep DEF Next
<1>3. (Timely => UseInv) => (Timely => ChallengeSingleUse)
  BY DEF UseInv, ClaimInv, Claims, Granted, FlightInv, ChallengeSingleUse, TypeOK
<1>4. QED
  BY <1>1, <1>2, <1>3, PTL DEF Spec

-----------------------------------------------------------------------------
(* No challenge is lost without a reason.  This does not need Timely: a grant
   that is not yet used up is in the hands of a handler. *)

(* A granted challenge was stored, and stamped before that. *)
StoredInv ==
    \A c \in Challenges :
      /\ lastGrant[c] <= now
      /\ storedAt[c] # Never => expires[c] # Never
      /\ lastGrant[c] # Never => storedAt[c] # Never
      /\ markedAt[c] # Never => served[c] # {}

(* A handler in flight was granted its challenge, at most Processing seconds
   ago. *)
HeldInv ==
    \A h \in InFlight :
      /\ chal[h] \in Challenges
      /\ now <= since[h] + Processing
      /\ lastGrant[chal[h]] # Never /\ since[h] <= lastGrant[chal[h]]

BurnInv == TypeOK /\ StoredInv /\ HeldInv /\ NotBurned

(* What NotBurned asks about challenge c. *)
Early(c) ==
    /\ lastGrant[c] # Never
    /\ lastGrant[c] + Processing < storedAt[c] + Ttl
    /\ lastGrant[c] + Processing <= expires[c]
    /\ c \notin unlucky
    /\ \A h \in InFlight : chal[h] # c

(* A step in which a handler at work on an early challenge stays at work, or
   the challenge is served. *)
LEMMA ConsumeBurn ==
  ASSUME BurnInv, TypeOK', NEW c \in Challenges, NEW h \in Handlers, consume_resource_once(h, c)
  PROVE  BurnInv'
<1> USE ChallengeAssumption DEF BurnInv, Never
<1>1. /\ pc[h] = "start" /\ storedAt[c] # Never
      /\ UNCHANGED <<now, expires, storedAt, markedAt, served>>
      /\ chal'[h] = c
      /\ \A g \in Handlers \ {h} : pc'[g] = pc[g] /\ chal'[g] = chal[g] /\ since'[g] = since[g]
  BY DEF consume_resource_once, Goto, TypeOK
<1>2. h \notin InFlight /\ \A g \in Handlers \ {h} : g \in InFlight' <=> g \in InFlight
  BY <1>1 DEF InFlight
<1>3. CASE /\ lastGrant' = [lastGrant EXCEPT ![c] = now]
           /\ since' = [since EXCEPT ![h] = now]
           /\ Goto(h, "read")
           /\ UNCHANGED unlucky
  <2>1. h \in InFlight' /\ since'[h] = now
    BY <1>3 DEF InFlight, Goto, TypeOK
  <2>2. \A d \in Challenges : lastGrant'[d] = IF d = c THEN now ELSE lastGrant[d]
    BY <1>3 DEF TypeOK
  <2>3. StoredInv'
    BY <1>1, <2>2 DEF StoredInv, TypeOK
  <2>4. HeldInv'
    <3> SUFFICES ASSUME NEW g \in InFlight'
                 PROVE  /\ chal'[g] \in Challenges
                        /\ now <= since'[g] + Processing
                        /\ lastGrant'[chal'[g]] # Never /\ since'[g] <= lastGrant'[chal'[g]]
      BY <1>1 DEF HeldInv
    <3>1. CASE g = h
      BY <1>1, <2>1, <2>2, <3>1 DEF TypeOK
    <3>2. CASE g # h
      <4>1. /\ g \in Handlers /\ g \in InFlight /\ chal'[g] = chal[g] /\ since'[g] = since[g]
            /\ chal[g] \in Challenges /\ now <= since[g] + Processing
            /\ lastGrant[chal[g]] # Never /\ since[g] <= lastGrant[chal[g]]
        BY <1>1, <1>2, <3>2 DEF HeldInv, InFlight
      <4>2. since[g] \in Nat /\ lastGrant[chal[g]] \in Nat /\ lastGrant[chal[g]] <= now /\ now \in Nat
        BY <4>1 DEF TypeOK, StoredInv
      <4>3. QED
        BY <2>2, <4>1, <4>2
    <3>3. QED
      BY <3>1, <3>2
  <2>5. NotBurned'
    <3> SUFFICES ASSUME NEW d \in Challenges, Early(d)' PROVE served'[d] # {}
      BY DEF NotBurned, Early
    <3>1. d # c
      BY <1>1, <2>1 DEF Early
    <3>2. Early(d)
      <4>1. \A g \in InFlight : chal[g] # d
        BY <1>1, <1>2 DEF Early, InFlight
      <4>2. QED
        BY <1>1, <1>3, <2>2, <3>1, <4>1 DEF Early
    <3>3. QED
      BY <1>1, <3>2 DEF NotBurned, Early
  <2>6. QED
    BY <2>3, <2>4, <2>5
<1>4. CASE /\ \/ lastGrant' = [lastGrant EXCEPT ![c] = now] /\ unlucky' = unlucky \cup {c}
              \/ UNCHANGED <<lastGrant, unlucky>>
           /\ Goto(h, "done") /\ UNCHANGED since
  <2>1. InFlight' = InFlight
    BY <1>2, <1>4 DEF InFlight, Goto, TypeOK
  <2>2. \A d \in Challenges : /\ lastGrant'[d] = lastGrant[d] \/ (d = c /\ lastGrant'[d] = now /\ d \in unlucky')
                              /\ d \in unlucky => d \in unlucky'
    BY <1>4 DEF TypeOK
  <2>3. StoredInv'
    BY <1>1, <2>2 DEF StoredInv, TypeOK
  <2>4. HeldInv'
    <3> SUFFICES ASSUME NEW g \in InFlight
                 PROVE  /\ chal'[g] \in Challenges
                        /\ now <= since'[g] + Processing
                        /\ lastGrant'[chal'[g]] # Never /\ since'[g] <= lastGrant'[chal'[g]]
      BY <1>1, <2>1 DEF HeldInv
    <3>1. /\ g # h /\ g \in Handlers /\ chal'[g] = chal[g] /\ since'[g] = since[g]
          /\ chal[g] \in Challenges /\ now <= since[g] + Processing
          /\ lastGrant[chal[g]] # Never /\ since[g] <= lastGrant[chal[g]]
      BY <1>1, <1>2 DEF HeldInv, InFlight
    <3>2. since[g] \in Nat /\ lastGrant[chal[g]] \in Nat /\ lastGrant[chal[g]] <= now /\ now \in Nat
      BY <3>1 DEF TypeOK, StoredInv
    <3>3. QED
      BY <2>2, <3>1, <3>2
  <2>5. NotBurned'
    <3> SUFFICES ASSUME NEW d \in Challenges, Early(d)' PROVE served'[d] # {}
      BY DEF NotBurned, Early
    <3>1. Early(d)
      <4>1. \A g \in InFlight : chal[g] # d
        BY <1>1, <1>2, <2>1 DEF Early, InFlight
      <4>2. QED
        BY <1>1, <2>2, <4>1 DEF Early
    <3>2. QED
      BY <1>1, <3>1 DEF NotBurned, Early
  <2>6. QED
    BY <2>3, <2>4, <2>5
<1>5. QED
  BY <1>3, <1>4 DEF consume_resource_once

(* A read that ends the request without a fault found the challenge expired or
   used: neither is possible of an early one that was not served. *)
LEMMA ReadBurn ==
  ASSUME BurnInv, TypeOK', NEW h \in Handlers, read_challenge(h)
  PROVE  BurnInv'
<1> USE ChallengeAssumption DEF BurnInv, Never
<1>1. /\ pc[h] = "read" /\ h \in InFlight
      /\ UNCHANGED <<now, expires, storedAt, markedAt, lastGrant, chal, since, served>>
      /\ \A g \in Handlers \ {h} : pc'[g] = pc[g]
  BY DEF read_challenge, InFlight, Goto, TypeOK
<1>2. InFlight' \subseteq InFlight /\ \A g \in InFlight : g # h => g \in InFlight'
  BY <1>1 DEF InFlight
<1>3. StoredInv' /\ HeldInv'
  BY <1>1, <1>2 DEF StoredInv, HeldInv
<1>4. NotBurned'
  <2> SUFFICES ASSUME NEW d \in Challenges, Early(d)' PROVE served[d] # {}
    BY <1>1 DEF NotBurned, Early
  <2>1. unlucky \subseteq unlucky'
    BY DEF read_challenge
  <2>2. CASE chal[h] # d \/ h \in InFlight'
    <3>1. \A g \in InFlight : chal[g] # d
      BY <1>1, <1>2, <2>2 DEF Early
    <3>2. QED
      BY <1>1, <2>1, <3>1 DEF NotBurned, Early
  <2>3. CASE chal[h] = d /\ h \notin InFlight'
    <3>1. /\ now <= since[h] + Processing /\ since[h] <= lastGrant[d]
          /\ now \in Nat /\ since[h] \in Nat /\ lastGrant[d] \in Nat
          /\ storedAt[d] \in Nat /\ expires[d] \in Nat
      BY <1>1, <2>3 DEF HeldInv, StoredInv, TypeOK
    <3>2. /\ lastGrant[d] + Processing < storedAt[d] + Ttl
          /\ lastGrant[d] + Processing <= expires[d]
          /\ d \notin unlucky'
      BY <1>1 DEF Early
    <3>3. ~ MayBeGone(d) /\ Valid(d)
      BY <3>1, <3>2 DEF MayBeGone, Valid
    <3>4. pc'[h] # "mark"
      BY <2>3 DEF InFlight
    <3>5. MayFindUsed(d)
      <4>1. \/ chal[h] \in unlucky'
            \/ MayBeGone(chal[h]) \/ MayFindUsed(chal[h])
            \/ pc'[h] = IF Valid(chal[h]) THEN "mark" ELSE "done"
        BY DEF read_challenge, Goto, TypeOK
      <4>2. QED
        BY <2>3, <3>2, <3>3, <3>4, <4>1
    <3>6. QED
      BY <3>5 DEF MayFindUsed, StoredInv
  <2>4. QED
    BY <2>2, <2>3
<1>5. QED
  BY <1>3, <1>4

(* Marking serves the challenge, unless the put fails. *)
LEMMA MarkBurn ==
  ASSUME BurnInv, TypeOK', NEW h \in Handlers, mark_used(h)
  PROVE  BurnInv'
<1> USE ChallengeAssumption DEF BurnInv, Never
<1>1. /\ pc[h] = "mark" /\ h \in InFlight
      /\ UNCHANGED <<now, expires, storedAt, lastGrant, chal, since>>
      /\ \A g \in Handlers \ {h} : pc'[g] = pc[g]
  BY DEF mark_used, InFlight, Goto, TypeOK
<1>2. InFlight' \subseteq InFlight /\ \A g \in InFlight : g # h => g \in InFlight'
  BY <1>1 DEF InFlight, mark_used, Goto, TypeOK
<1>3. chal[h] \in Challenges
  BY <1>1 DEF HeldInv
<1>4. /\ unlucky \subseteq unlucky'
      /\ \A d \in Challenges : served[d] \subseteq served'[d]
      /\ \A d \in Challenges : markedAt'[d] = markedAt[d] \/ h \in served'[d]
      /\ h \in served'[chal[h]] \/ chal[h] \in unlucky'
  BY <1>3 DEF mark_used, TypeOK
<1>5. HeldInv'
  BY <1>1, <1>2 DEF HeldInv
<1>6. StoredInv'
  BY <1>1, <1>4 DEF StoredInv
<1>7. NotBurned'
  <2> SUFFICES ASSUME NEW d \in Challenges, Early(d)' PROVE served'[d] # {}
    BY DEF NotBurned, Early
  <2>1. CASE chal[h] = d
    BY <1>4, <2>1 DEF Early
  <2>2. CASE chal[h] # d
    <3>1. \A g \in InFlight : chal[g] # d
      BY <1>1, <1>2, <2>2 DEF Early
    <3>2. served[d] # {}
      BY <1>1, <1>4, <3>1 DEF NotBurned, Early
    <3>3. QED
      BY <1>4, <3>2
  <2>3. QED
    BY <2>1, <2>2
<1>8. QED
  BY <1>5, <1>6, <1>7

(* A challenge granted in time is returned to a caller once its handlers are
   done, unless a call failed or a read came too soon after the put, for all
   TTLs, lags and handlers. *)
THEOREM NotBurnedHolds == Spec => []NotBurned
<1>1. Init => BurnInv
  <2> SUFFICES ASSUME Init PROVE BurnInv
    OBVIOUS
  <2>1. TypeOK
    BY ChallengeAssumption DEF Init, TypeOK, InFlight, Never
  <2>2. InFlight = {}
    BY DEF Init, InFlight
  <2>3. QED
    BY <2>1, <2>2 DEF Init, BurnInv, StoredInv, HeldInv, NotBurned, Never
<1>2. BurnInv /\ [Next]_vars => BurnInv'
  <2> SUFFICES ASSUME BurnInv, [Next]_vars PROVE BurnInv'
    OBVIOUS
  <2>0. TypeOK /\ TypeOK'
    BY TypeStep DEF BurnInv
  <2> USE DEF BurnInv, Never
  <2>1. ASSUME NEW c \in Challenges, generate_yubikey_challenge(c) PROVE BurnInv'
    <3>1. /\ UNCHANGED <<now, storedAt, markedAt, lastGrant, pc, chal, since, served, unlucky>>
          /\ lastGrant[c] = Never
          /\ \A d \in Challenges \ {c} : expires'[d] = expires[d]
          /\ expires'[c] # Never
      BY <2>0, <2>1, ChallengeAssumption DEF generate_yubikey_challenge, StoredInv, TypeOK
    <3>2. StoredInv' /\ HeldInv'
      BY <3>1 DEF StoredInv, HeldInv, InFlight
    <3>3. NotBurned'
      BY <3>1 DEF NotBurned, InFlight
    <3>4. QED
      BY <2>0, <3>2, <3>3
  <2>2. ASSUME NEW c \in Challenges, create_challenge(c) PROVE BurnInv'
    <3>1. /\ UNCHANGED <<now, expires, markedAt, lastGrant, pc, chal, since, served, unlucky>>
          /\ lastGrant[c] = Never /\ expires[c] # Never
          /\ \A d \in Challenges \ {c} : storedAt'[d] = storedAt[d]
          /\ storedAt'[c] # Never
      BY <2>0, <2>2 DEF create_challenge, StoredInv, TypeOK
    <3>2. StoredInv' /\ HeldInv'
      BY <3>1 DEF StoredInv, HeldInv, InFlight
    <3>3. NotBurned'
      BY <3>1 DEF NotBurned, InFlight
    <3>4. QED
      BY <2>0, <3>2, <3>3
  <2>3. CASE Tick
    <3>1. /\ UNCHANGED <<expires, storedAt, markedAt, lastGrant, pc, chal, since, served, unlucky>>
          /\ now' = now + 1 /\ now \in Nat
          /\ InFlight' = InFlight
      BY <2>0, <2>3 DEF Tick, TypeOK, InFlight
    <3>2. \A h \in InFlight : now < since[h] + Processing /\ since[h] \in Nat
      BY <2>0, <2>3 DEF Tick, TypeOK, InFlight
    <3>3. HeldInv'
      BY <3>1, <3>2, ChallengeAssumption DEF HeldInv
    <3>4. StoredInv'
      BY <2>0, <3>1 DEF StoredInv, TypeOK
    <3>5. NotBurned'
      BY <3>1 DEF NotBurned
    <3>6. QED
      BY <2>0, <3>3, <3>4, <3>5
  <2>4. CASE UNCHANGED vars
    BY <2>0, <2>4 DEF vars, StoredInv, HeldInv, NotBurned, InFlight
  <2>5. QED
    BY <2>0, <2>1, <2>2, <2>3, <2>4, ConsumeBurn, ReadBurn, MarkBurn DEF Next
<1>3. BurnInv => NotBurned
  BY DEF BurnInv
<1>4. QED
  BY <1>1, <1>2, <1>3, PTL DEF Spec
=============================================================================
