------------------------ MODULE AuthenticationProofs ------------------------
(***************************************************************************)
(* Who is let in.  Lockout, for every number of attempts, every threshold  *)
(* and every TTL, with or without storage faults, however far reads lag:   *)
(* no failure is forgotten that was counted from a settled counter.        *)
(* SecretSlots, for every number of requests, secrets and failures, every  *)
(* TTL and every pace of the operator: a retired credential is refused in  *)
(* time, and one that is in a slot is accepted when its caches have        *)
(* settled.                                                                *)
(***************************************************************************)
EXTENDS Lockout, SecretSlots, TLAPS

(* Every attempt at the counter holds a live lease. *)
HoldersLive ==
    \A a \in Inside : \E l \in leases :
      l.name = LockKey /\ l.token = a /\ now < l.until

(* At most one attempt is at the counter. *)
Alone == \A a, b \in Inside : a = b

(* No count that can be read is more than one behind the settled failures. *)
OlderInTime == \A o \in Replaced : CountOf(o.count) + 1 >= settled

(* Nor is a count that was read, which one more failure brings up; and if the
   read was fresh, neither it nor what can be read now is behind at all. *)
ReadInTime ==
    \A a \in Attempts : pc[a] = "write" =>
      /\ seen[a] + 1 >= settled
      /\ fresh[a] => /\ seen[a] >= settled
                     /\ \A o \in Replaced : CountOf(o.count) >= settled

(* A corrupt counter has not been written since it was found. *)
CorruptUncounted == counter = Corrupt => settled = 0

(* The inductive invariant. *)
CountInv ==
    /\ TypeOK
    /\ HoldersLive
    /\ Alone
    /\ OlderInTime
    /\ ReadInTime
    /\ CorruptUncounted
    /\ FailuresRemembered

-----------------------------------------------------------------------------

(* Every variable of Lockout keeps its type, whatever the attempts do. *)
LEMMA TypeStep == TypeOK /\ [Next]_vars => TypeOK'
<1> SUFFICES ASSUME TypeOK, [Next]_vars PROVE TypeOK'
  OBVIOUS
<1> USE LockoutAssumption DEF TypeOK, Stages, Goto, Corrupt, PutCounter, PutFlag, DropCounter,
        counterVars, flagVars, history
<1>1. CASE UNCHANGED vars
  BY <1>1 DEF vars
<1>2. ASSUME NEW a \in Attempts, Step(a) PROVE TypeOK'
  <2>1. CASE is_locked_out(a)
    BY <2>1 DEF is_locked_out
  <2>2. CASE authenticate_yubikey(a)
    BY <2>2 DEF authenticate_yubikey
  <2>3. CASE acquire_resource_lock(a)
    <3>1. L!WithLease(LockKey, a, now + LeaseTtl)
            \subseteq [name : {LockKey}, token : Attempts, until : Nat]
      BY DEF L!WithLease
    <3>2. QED
      BY <2>3, <3>1 DEF acquire_resource_lock
  <2>4. CASE read_count(a)
    <3>1. \A c \in Readable : CountOf(c) \in Nat
      BY DEF Readable, Replaced, CountOf
    <3>2. seen' \in [Attempts -> Nat]
      BY <2>4, <3>1 DEF read_count
    <3>3. fresh' \in [Attempts -> BOOLEAN]
      <4> DEFINE q == Replaced = {}
      <4>1. q \in BOOLEAN
        OBVIOUS
      <4>2. fresh' = fresh \/ fresh' = [fresh EXCEPT ![a] = q]
        BY <2>4 DEF read_count
      <4> HIDE DEF q
      <4>3. QED
        BY <4>1, <4>2, Zenon
    <3>4. QED
      BY <2>4, <3>2, <3>3 DEF read_count
  <2>5. CASE write_count(a)
    BY <2>5 DEF write_count
  <2>6. CASE release_resource_lock(a)
    BY <2>6 DEF release_resource_lock, L!WithoutLease
  <2>7. CASE lock_account(a)
    BY <2>7 DEF lock_account
  <2>8. CASE clear_counter(a)
    BY <2>8 DEF clear_counter
  <2>9. CASE clear_flag(a)
    BY <2>9 DEF clear_flag
  <2>10. QED
    BY <1>2, <2>1, <2>2, <2>3, <2>4, <2>5, <2>6, <2>7, <2>8, <2>9 DEF Step
<1>3. CASE Tick
  BY <1>3 DEF Tick
<1>4. QED
  BY <1>1, <1>2, <1>3 DEF Next

(* Type correctness of the lockout handlers. *)
THEOREM LockoutTypeCorrect == Spec => []TypeOK
<1>1. Init => TypeOK
  BY LockoutAssumption DEF Init, TypeOK, Stages, Corrupt
<1>2. QED
  BY <1>1, TypeStep, PTL DEF Spec

-----------------------------------------------------------------------------

(* Only the lease's holder works on the counter, provided holders are done
   before their lease ends: acquiring needs every lease to be over, a holder's
   lease is not over, and time does not pass it. *)
LEMMA HolderStep ==
  ASSUME Prompt, TypeOK, HoldersLive, Alone, [Next]_vars
  PROVE  HoldersLive' /\ Alone'
<1> USE LockoutAssumption
<1>1. CASE UNCHANGED vars
  BY <1>1 DEF vars, HoldersLive, Alone, Inside
<1>2. ASSUME NEW a \in Attempts, Step(a) PROVE HoldersLive' /\ Alone'
  <2>1. CASE acquire_resource_lock(a)
    <3>1. CASE Inside' \subseteq Inside /\ leases' = leases /\ now' = now
      BY <3>1 DEF HoldersLive, Alone
    <3>2. CASE /\ L!MayLend(LockKey, a, now + LeaseTtl)
               /\ leases' = L!WithLease(LockKey, a, now + LeaseTtl)
               /\ Goto(a, "read") \/ Goto(a, "done")
      <4>1. Inside = {}
        BY <3>2 DEF HoldersLive, L!MayLend, TypeOK
      <4>2. Inside' \subseteq {a}
        BY <3>2, <4>1 DEF Goto, Inside, TypeOK
      <4>3. [name |-> LockKey, token |-> a, until |-> now + LeaseTtl] \in leases'
        BY <3>2 DEF L!WithLease
      <4>4. now' = now /\ now < now + LeaseTtl
        BY <2>1 DEF acquire_resource_lock, TypeOK
      <4>5. QED
        BY <4>2, <4>3, <4>4 DEF HoldersLive, Alone
    <3>3. QED
      BY <2>1, <3>1, <3>2 DEF acquire_resource_lock, Goto, Inside, TypeOK
  <2>2. CASE release_resource_lock(a)
    <3>1. now' = now /\ Inside' \subseteq Inside /\ a \notin Inside'
      BY <2>2 DEF release_resource_lock, Goto, Inside, TypeOK
    <3>2. \A l \in leases : l.token # a => l \in leases'
      BY <2>2 DEF release_resource_lock, L!WithoutLease
    <3>3. QED
      BY <3>1, <3>2 DEF HoldersLive, Alone
  <2>3. ASSUME \/ is_locked_out(a) \/ authenticate_yubikey(a) \/ read_count(a)
               \/ write_count(a) \/ lock_account(a) \/ clear_counter(a)
               \/ clear_flag(a)
        PROVE  HoldersLive' /\ Alone'
    <3>1. now' = now /\ leases' = leases /\ Inside' \subseteq Inside
      BY <2>3 DEF is_locked_out, authenticate_yubikey, read_count, write_count,
                  lock_account, clear_counter, clear_flag, Goto, Inside, TypeOK
    <3>2. QED
      BY <3>1 DEF HoldersLive, Alone
  <2>4. QED
    BY <1>2, <2>1, <2>2, <2>3 DEF Step
<1>3. CASE Tick
  <2>1. Inside' = Inside /\ leases' = leases /\ now' = now + 1
    BY <1>3 DEF Tick, Inside
  <2>2. \A l \in leases : l.token \in Inside => now + 1 < l.until
    BY <1>3 DEF Tick
  <2>3. QED
    BY <2>1, <2>2 DEF HoldersLive, Alone
<1>4. QED
  BY <1>1, <1>2, <1>3 DEF Next

(* One step keeps the counter, and what can still be read of it, in time. *)
Timely == OlderInTime /\ ReadInTime /\ CorruptUncounted /\ FailuresRemembered

(* A deleted counter is in time: nothing is settled. *)
LEMMA DropTimely ==
  ASSUME TypeOK', settled' = 0 PROVE Timely'
<1> USE LockoutAssumption DEF TypeOK, Corrupt
<1>1. \A o \in Replaced' : CountOf(o.count) \in Nat
  BY DEF Replaced, CountOf
<1>2. QED
  BY <1>1 DEF Timely, OlderInTime, ReadInTime, CorruptUncounted, FailuresRemembered

(* So is a counter nobody touches, while older counts disappear. *)
LEMMA QuietTimely ==
  ASSUME CountInv, Replaced' \subseteq Replaced, UNCHANGED <<seen, fresh, counter, settled>>,
         \A b \in Attempts : pc'[b] = "write" => pc[b] = "write"
  PROVE  Timely'
<1>1. OlderInTime' /\ CorruptUncounted' /\ FailuresRemembered'
  BY DEF CountInv, OlderInTime, CorruptUncounted, FailuresRemembered, CountOf
<1>2. ReadInTime'
  BY DEF CountInv, ReadInTime, CountOf
<1>3. QED
  BY <1>1, <1>2 DEF Timely

LEMMA CountStep ==
  ASSUME Prompt, CountInv, TypeOK', [Next]_vars
  PROVE  Timely'
<1> USE LockoutAssumption DEF Corrupt
<1>0. TypeOK
  BY DEF CountInv
<1>1. CASE UNCHANGED vars
  BY <1>1, QuietTimely DEF vars, Replaced
<1>2. ASSUME NEW a \in Attempts, Step(a) PROVE Timely'
  <2>1. CASE read_count(a)
    <3>1. /\ UNCHANGED <<counter, settled>> /\ Replaced' = Replaced
          /\ \A b \in Attempts \ {a} : pc'[b] = pc[b] /\ seen'[b] = seen[b] /\ fresh'[b] = fresh[b]
      BY <1>0, <2>1 DEF read_count, Goto, TypeOK, counterVars, history, Replaced
    <3>2. OlderInTime' /\ CorruptUncounted' /\ FailuresRemembered'
      BY <3>1 DEF CountInv, OlderInTime, CorruptUncounted, FailuresRemembered, CountOf
    <3>3. CASE pc'[a] # "write"
      BY <3>1, <3>2, <3>3 DEF CountInv, ReadInTime, Timely, CountOf
    <3>4. CASE pc'[a] = "write"
      <4>1. PICK c \in Readable : seen'[a] = CountOf(c)
        BY <1>0, <2>1, <3>4 DEF read_count, Goto, TypeOK
      <4>2. fresh'[a] => Replaced = {}
        BY <1>0, <2>1, <3>4 DEF read_count, Goto, TypeOK
      <4>3. CountOf(counter) >= settled /\ settled \in Nat /\ CountOf(counter) \in Nat
        BY <1>0 DEF CountInv, TypeOK, FailuresRemembered, CorruptUncounted, CountOf
      <4>4. \A o \in Replaced : CountOf(o.count) + 1 >= settled
        BY DEF CountInv, OlderInTime
      <4>5. seen'[a] + 1 >= settled
        <5>1. CASE c = counter
          BY <5>1, <4>1, <4>3
        <5>2. CASE c \in {o.count : o \in Replaced}
          BY <5>2, <4>1, <4>4
        <5>3. QED
          BY <4>1, <5>1, <5>2 DEF Readable
      <4>6. fresh'[a] => seen'[a] >= settled
        BY <4>1, <4>2, <4>3 DEF Readable
      <4>7. ReadInTime'
        BY <3>1, <4>2, <4>5, <4>6 DEF CountInv, ReadInTime, CountOf
      <4>8. QED
        BY <3>2, <4>7 DEF Timely
    <3>5. QED
      BY <3>3, <3>4
  <2>2. CASE write_count(a)
    <3>1. \A b \in Attempts : pc'[b] = "write" => pc[b] = "write" /\ b # a
      BY <1>0, <2>2 DEF write_count, Goto, TypeOK
    <3>2. \A b \in Attempts : pc'[b] # "write"
      BY <2>2, <3>1 DEF CountInv, Alone, Inside, write_count
    <3>3. CASE UNCHANGED <<counter, older, settled, now>>
      BY <3>2, <3>3 DEF CountInv, Timely, OlderInTime, ReadInTime, CorruptUncounted,
                        FailuresRemembered, Replaced, CountOf
    <3>4. CASE /\ PutCounter(seen[a] + 1, now + TrackTtl) /\ now' = now
               /\ settled' = IF fresh[a] THEN settled + 1 ELSE settled
      <4>1. /\ seen[a] + 1 >= settled /\ seen[a] \in Nat /\ settled \in Nat
            /\ fresh[a] => seen[a] >= settled
            /\ CountOf(counter) >= settled /\ CountOf(counter) \in Nat
            /\ \A o \in Replaced : CountOf(o.count) \in Nat
        BY <1>0, <2>2 DEF write_count, CountInv, ReadInTime, TypeOK, FailuresRemembered,
                          CorruptUncounted, CountOf, Replaced
      <4>2. \A o \in Replaced : /\ CountOf(o.count) + 1 >= settled
                                /\ fresh[a] => CountOf(o.count) >= settled
        BY <2>2 DEF write_count, CountInv, ReadInTime, OlderInTime
      <4>3. \A o \in Replaced' : o \in Replaced \/ o.count = counter
        BY <3>4 DEF PutCounter, Replaced
      <4>4. OlderInTime'
        <5> SUFFICES ASSUME NEW o \in Replaced' PROVE CountOf(o.count) + 1 >= settled'
          BY DEF OlderInTime, CountOf
        <5>1. CASE o \in Replaced
          BY <5>1, <4>1, <4>2, <3>4
        <5>2. CASE o.count = counter
          BY <5>2, <4>1, <3>4
        <5>3. QED
          BY <4>3, <5>1, <5>2
      <4>5. counter' = seen[a] + 1 /\ counter' >= settled' /\ counter' # Corrupt
        BY <3>4, <4>1 DEF PutCounter
      <4>6. QED
        BY <3>2, <4>4, <4>5 DEF Timely, ReadInTime, CorruptUncounted, FailuresRemembered
    <3>5. CASE PutCounter(seen[a] + 1, now + TrackTtl) /\ now' = now /\ settled' = settled
      <4>1. /\ seen[a] + 1 >= settled /\ seen[a] \in Nat /\ settled \in Nat
            /\ CountOf(counter) >= settled /\ CountOf(counter) \in Nat
        BY <1>0, <2>2 DEF write_count, CountInv, ReadInTime, TypeOK, FailuresRemembered,
                          CorruptUncounted, CountOf
      <4>2. \A o \in Replaced' : o \in Replaced \/ o.count = counter
        BY <3>5 DEF PutCounter, Replaced
      <4>3. OlderInTime'
        BY <3>5, <4>1, <4>2 DEF CountInv, OlderInTime, CountOf
      <4>4. counter' >= settled' /\ counter' # Corrupt
        BY <3>5, <4>1 DEF PutCounter
      <4>5. QED
        BY <3>2, <4>3, <4>4 DEF Timely, ReadInTime, CorruptUncounted, FailuresRemembered
    <3>6. QED
      BY <2>2, <3>3, <3>4, <3>5 DEF write_count, counterVars
  <2>3. CASE clear_counter(a)
    <3>1. CASE DropCounter
      BY <3>1, DropTimely DEF DropCounter
    <3>2. CASE UNCHANGED <<counterVars, settled>>
      <4>1. /\ UNCHANGED <<seen, fresh, counter, settled>> /\ Replaced' = Replaced
            /\ \A b \in Attempts : pc'[b] = "write" => pc[b] = "write"
        BY <1>0, <2>3, <3>2 DEF clear_counter, counterVars, Replaced, Goto, TypeOK
      <4>2. QED
        BY <4>1, QuietTimely
    <3>3. QED
      BY <2>3, <3>1, <3>2 DEF clear_counter
  <2>4. ASSUME \/ is_locked_out(a) \/ authenticate_yubikey(a)
               \/ acquire_resource_lock(a) \/ release_resource_lock(a)
               \/ lock_account(a) \/ clear_flag(a)
        PROVE  Timely'
    <3>1. /\ UNCHANGED <<seen, fresh, counter, settled>> /\ Replaced' = Replaced
          /\ \A b \in Attempts : pc'[b] = "write" => pc[b] = "write"
      BY <1>0, <2>4 DEF is_locked_out, authenticate_yubikey, acquire_resource_lock,
                  release_resource_lock, lock_account, clear_flag, Goto, TypeOK,
                  counterVars, history, Replaced
    <3>2. QED
      BY <3>1, QuietTimely
  <2>5. QED
    BY <1>2, <2>1, <2>2, <2>3, <2>4 DEF Step
<1>3. CASE Tick
  <2>1. CASE DropCounter
    BY <2>1, DropTimely DEF DropCounter
  <2>2. CASE older' = {o \in older : now + 1 < o.until} /\ UNCHANGED <<counter, settled>>
    <3>1. now' = now + 1 /\ UNCHANGED <<pc, seen, fresh>>
      BY <1>3 DEF Tick
    <3>2. Replaced' \subseteq Replaced
      BY <1>0, <2>2, <3>1 DEF Replaced, TypeOK
    <3>3. QED
      BY <2>2, <3>1, <3>2, QuietTimely
  <2>3. QED
    BY <1>3, <2>1, <2>2 DEF Tick
<1>4. QED
  BY <1>1, <1>2, <1>3 DEF Next

(* The invariant holds of the counter found at the start. *)
LEMMA InitCount ==
  ASSUME Init PROVE CountInv
<1>1. TypeOK
  BY LockoutAssumption DEF Init, TypeOK, Stages, Corrupt
<1>2. QED
  BY <1>1, LockoutAssumption DEF Init, CountInv, HoldersLive, Alone,
     Inside, OlderInTime, Replaced, ReadInTime, CorruptUncounted, FailuresRemembered, Corrupt

(* Failures are remembered: as long as holders of the counter's lease are done
   before it ends, the stored count is never below the settled failures since
   it was deleted or expired, however far behind KV's reads are, whatever
   successes delete and whatever fails. *)
THEOREM FailuresRememberedHolds == Spec => [](Prompt => FailuresRemembered)
<1>1. Init => CountInv
  BY InitCount
<1>2. (Prompt => CountInv) /\ [Next]_vars => (Prompt => CountInv)'
  BY TypeStep, HolderStep, CountStep DEF CountInv, Timely
<1>3. (Prompt => CountInv) => (Prompt => FailuresRemembered)
  BY DEF CountInv
<1>4. QED
  BY <1>1, <1>2, <1>3, PTL DEF Spec

-----------------------------------------------------------------------------
(* The threshold.  The attempt whose write brings the settled failures to the
   threshold has read at least as many as were settled, so the count it
   carries to the comparison is no smaller. *)

LEMMA LockStep ==
  ASSUME Prompt, CountInv, CountInv', LockedWhenCounted, [Next]_vars
  PROVE  LockedWhenCounted'
<1> USE LockoutAssumption
<1> DEFINE Bound(a) == pc[a] \in {"release", "lock"} /\ seen[a] >= Threshold
<1>1. CASE UNCHANGED vars
  BY <1>1 DEF vars, LockedWhenCounted
<1>2. ASSUME NEW a \in Attempts, Step(a) PROVE LockedWhenCounted'
  <2>0. /\ \A b \in Attempts \ {a} : pc'[b] = pc[b] /\ seen'[b] = seen[b]
        /\ seen \in [Attempts -> Nat] /\ pc \in [Attempts -> Stages]
        /\ settled \in Nat /\ lockCalls \in Nat
    BY <1>2 DEF Step, is_locked_out, authenticate_yubikey, acquire_resource_lock,
                read_count, write_count, release_resource_lock, lock_account,
                clear_counter, clear_flag, Goto, CountInv, TypeOK
  <2>1. CASE write_count(a)
    <3>1. pc'[a] = "release" /\ pc[a] = "write"
      BY <2>0, <2>1 DEF write_count, Goto
    <3>2. \A b \in Attempts : Bound(b) => Bound(b)'
      BY <2>0, <3>1
    <3>3. CASE settled' = settled /\ lockCalls' = lockCalls
      BY <3>2, <3>3 DEF LockedWhenCounted
    <3>4. CASE settled' = settled + 1 /\ seen'[a] = seen[a] + 1 /\ fresh[a]
      <4>1. seen[a] >= settled /\ seen[a] \in Nat
        BY <2>0, <3>1, <3>4 DEF CountInv, ReadInTime
      <4>2. settled' >= Threshold => Bound(a)'
        BY <2>0, <3>1, <3>4, <4>1
      <4>3. QED
        BY <4>2 DEF LockedWhenCounted
    <3>5. QED
      BY <2>0, <2>1, <3>3, <3>4 DEF write_count
  <2>2. CASE lock_account(a)
    BY <2>0, <2>2 DEF lock_account, LockedWhenCounted
  <2>3. CASE clear_counter(a)
    <3>1. CASE settled' = 0
      BY <3>1, LockoutAssumption DEF LockedWhenCounted
    <3>2. CASE UNCHANGED <<settled, lockCalls>>
      <4>1. pc[a] = "clear_counter"
        BY <2>3 DEF clear_counter
      <4>2. \A b \in Attempts : Bound(b) => Bound(b)'
        BY <2>0, <4>1
      <4>3. QED
        BY <3>2, <4>2 DEF LockedWhenCounted
    <3>3. QED
      BY <2>3, <3>1, <3>2 DEF clear_counter, DropCounter
  <2>4. CASE release_resource_lock(a)
    <3>1. Bound(a) => Bound(a)'
      BY <2>0, <2>4 DEF release_resource_lock, Goto
    <3>2. UNCHANGED <<settled, lockCalls>>
      BY <2>4 DEF release_resource_lock, history
    <3>3. QED
      BY <2>0, <3>1, <3>2 DEF LockedWhenCounted
  <2>5. ASSUME \/ is_locked_out(a) \/ authenticate_yubikey(a) \/ acquire_resource_lock(a)
               \/ read_count(a) \/ clear_flag(a)
        PROVE  LockedWhenCounted'
    <3>1. pc[a] \notin {"release", "lock"} /\ UNCHANGED <<settled, lockCalls>>
      BY <2>5 DEF is_locked_out, authenticate_yubikey, acquire_resource_lock, read_count, clear_flag,
                  history
    <3>2. \A b \in Attempts : Bound(b) => Bound(b)'
      BY <2>0, <3>1
    <3>3. QED
      BY <3>1, <3>2 DEF LockedWhenCounted
  <2>6. QED
    BY <1>2, <2>1, <2>2, <2>3, <2>4, <2>5 DEF Step
<1>3. CASE Tick
  <2>1. /\ pc' = pc /\ seen' = seen
        /\ \/ settled' = 0
           \/ settled' = settled /\ lockCalls' = lockCalls
    BY <1>3 DEF Tick, DropCounter
  <2>2. QED
    BY <2>1 DEF LockedWhenCounted
<1>4. QED
  BY <1>1, <1>2, <1>3 DEF Next

(* The threshold leads to lock_account: as long as holders of the lease are
   done before it ends, settled failures that reach it have led to the call,
   or the attempt that reached it is on its way there. *)
THEOREM LockedWhenCountedHolds == Spec => [](Prompt => LockedWhenCounted)
<1> DEFINE Inv == Prompt => CountInv /\ LockedWhenCounted
<1>1. Init => Inv
  <2> SUFFICES ASSUME Init PROVE CountInv /\ LockedWhenCounted
    OBVIOUS
  <2>1. CountInv
    BY InitCount
  <2>2. QED
    BY <2>1, LockoutAssumption DEF Init, LockedWhenCounted
<1>2. Inv /\ [Next]_vars => Inv'
  BY TypeStep, HolderStep, CountStep, LockStep DEF CountInv, Timely
<1>3. Inv => (Prompt => LockedWhenCounted)
  OBVIOUS
<1> HIDE DEF Inv
<1>4. QED
  BY <1>1, <1>2, <1>3, PTL DEF Spec

-----------------------------------------------------------------------------
(* Nobody is locked early.  Whatever an attempt has in hand is at most the
   number of failures ever written; this needs neither the lease nor prompt
   holders, since a lost update or an older read only lowers the count. *)

EarnInv ==
    /\ TypeOK
    /\ counter = Corrupt => Threshold - 2 <= total
    /\ counter <= total
    /\ \A o \in older : CountOf(o.count) <= total
    /\ \A a \in Attempts : seen[a] <= total /\ (pc[a] = "lock" => Threshold <= total)
    /\ LockEarned

(* A lockout is earned: the flag is never set before Threshold failures. *)
THEOREM LockEarnedHolds == Spec => []LockEarned
<1>1. Init => EarnInv
  <2> SUFFICES ASSUME Init PROVE EarnInv
    OBVIOUS
  <2>1. TypeOK
    BY LockoutAssumption DEF Init, TypeOK, Stages, Corrupt
  <2>2. QED
    BY <2>1, LockoutAssumption DEF Init, EarnInv, LockEarned, Corrupt
<1>2. EarnInv /\ [Next]_vars => EarnInv'
  <2> SUFFICES ASSUME EarnInv, [Next]_vars PROVE EarnInv'
    OBVIOUS
  <2>1. TypeOK /\ TypeOK'
    BY TypeStep DEF EarnInv
  <2> USE LockoutAssumption DEF EarnInv, Corrupt, LockEarned
  <2>2. CASE UNCHANGED vars
    BY <2>1, <2>2 DEF vars
  <2>3. ASSUME NEW a \in Attempts, Step(a) PROVE EarnInv'
    <3>1. CASE read_count(a)
      <4>1. \A c \in Readable : CountOf(c) <= total
        BY <2>1 DEF Readable, Replaced, CountOf, TypeOK
      <4>2. UNCHANGED <<counter, older, lockedUntil, total>>
        BY <3>1 DEF read_count, counterVars, flagVars, history
      <4>3. \A b \in Attempts : seen'[b] <= total /\ (pc'[b] = "lock" => Threshold <= total)
        BY <2>1, <3>1, <4>1 DEF read_count, Goto, TypeOK
      <4>4. QED
        BY <2>1, <4>2, <4>3 DEF CountOf
    <3>2. CASE write_count(a)
      <4>1. CountOf(counter) <= total /\ total \in Nat /\ seen[a] <= total /\ seen[a] \in Nat
            /\ \A o \in older : CountOf(o.count) \in Nat
        BY <2>1 DEF CountOf, TypeOK
      <4>2. lockedUntil' = lockedUntil /\ total' \in Nat /\ total' >= total
        BY <3>2, <4>1 DEF write_count, flagVars
      <4>3. \A o \in older' : CountOf(o.count) <= total'
        <5>1. \A o \in older' : o \in older \/ o.count = counter
          BY <3>2 DEF write_count, PutCounter, counterVars
        <5>2. \A o \in older : CountOf(o.count) <= total
          OBVIOUS
        <5>3. CountOf(counter) \in Nat
          BY <2>1 DEF CountOf, TypeOK
        <5>4. QED
          BY <4>1, <4>2, <5>1, <5>2, <5>3
      <4>4. counter' <= total' /\ (counter' = Corrupt => Threshold - 2 <= total')
        BY <2>1, <3>2, <4>1, <4>2 DEF write_count, PutCounter, counterVars, TypeOK
      <4>5. \A b \in Attempts : seen'[b] <= total' /\ (pc'[b] = "lock" => Threshold <= total')
        BY <2>1, <3>2, <4>1, <4>2 DEF write_count, Goto, TypeOK
      <4>6. LockEarned'
        BY <2>1, <4>2 DEF TypeOK
      <4>7. QED
        BY <2>1, <4>3, <4>4, <4>5, <4>6 DEF CountOf
    <3>3. CASE release_resource_lock(a)
      BY <2>1, <3>3 DEF release_resource_lock, Goto, TypeOK, counterVars, flagVars, history, PutFlag,
                         DropCounter, PutCounter, CountOf
    <3>4. CASE lock_account(a)
      BY <2>1, <3>4 DEF lock_account, Goto, TypeOK, counterVars, flagVars, history, PutFlag,
                         DropCounter, PutCounter, CountOf
    <3>5. CASE clear_counter(a)
      BY <2>1, <3>5 DEF clear_counter, Goto, TypeOK, counterVars, flagVars, history, PutFlag,
                         DropCounter, PutCounter, CountOf
    <3>6. CASE clear_flag(a)
      BY <2>1, <3>6 DEF clear_flag, Goto, TypeOK, counterVars, flagVars, history, PutFlag,
                         DropCounter, PutCounter, CountOf
    <3>7. CASE is_locked_out(a) \/ authenticate_yubikey(a) \/ acquire_resource_lock(a)
      BY <2>1, <3>7 DEF is_locked_out, authenticate_yubikey, acquire_resource_lock, Goto, TypeOK,
                         counterVars, flagVars, history, CountOf
    <3>8. QED
      BY <2>3, <3>1, <3>2, <3>3, <3>4, <3>5, <3>6, <3>7 DEF Step
  <2>4. CASE Tick
    BY <2>1, <2>4 DEF Tick, TypeOK, DropCounter, PutCounter, PutFlag, flagVars, CountOf
  <2>5. QED
    BY <2>2, <2>3, <2>4 DEF Next
<1>3. EarnInv => LockEarned
  BY DEF EarnInv
<1>4. QED
  BY <1>1, <1>2, <1>3, PTL DEF Spec

-----------------------------------------------------------------------------
(* Dual-slot credentials. *)

(* How much longer than it is valid a credential may be found in a cache. *)
Grace == IF surface = "internal" THEN 0 ELSE CacheTtl - 1

(* The operator replaces secrets in order: a secret issued is taken out of the
   slots exactly while it is in neither, and the secrets of earlier rotations
   were Patience before the present one. *)
OperatorInv ==
    /\ secret["previous"] \in {NoSecret, secret["current"] - 1}
    /\ secret["previous"] # NoSecret => rotating
    /\ rotating => 1 < secret["current"]
    /\ \A g \in Secrets :
         /\ secret["current"] < g => since[g] = Never
         /\ since[g] # Never => since[g] <= clock
         /\ until[g] # Never =>
              /\ g < secret["current"] /\ g # secret["previous"]
              /\ until[g] <= clock /\ since[g] = Never
              /\ rotating /\ g < secret["current"] - 1 => until[g] + Patience <= clock
         /\ until[g] = Never /\ g <= secret["current"] =>
              g \in {secret["current"], secret["previous"]}

(* Only a lookup asks the store. *)
AskInv == \A q \in Requests : req[q].fetch # "none" => req[q].at \in Lookups

SlotBaseInv == SlotTypeOK /\ OperatorInv /\ AskInv

(* What is known of the value g of a slot, found under the date t. *)
Found(slot, g, t) ==
    /\ t <= clock /\ t <= until[g] /\ g <= secret["current"]
    /\ slot = "current" => \A h \in Secrets : since[h] < t => h <= g
    /\ slot = "previous" => secret["previous"] = g \/ until[g] # Never

(* Entries of the cache and answers of the store are dated before they were read. *)
CacheInv ==
    \A s \in Slots :
      /\ cache[s].value \in Secrets => Found(s, cache[s].value, cache[s].at)
      /\ cache[s].value = NoSecret => cache[s] = NotCached
      /\ cache[s].at <= clock

AnswerInv ==
    \A q \in Requests :
      /\ req[q].at # "idle" => req[q].began <= clock /\ clock <= req[q].began + Processing
      /\ req[q].fetch # "none" => req[q].began <= req[q].now /\ req[q].now <= clock
      /\ req[q].fetch = "answered" /\ req[q].answer # NoSecret =>
           Found(SlotOf(req[q], req[q].at), req[q].answer, req[q].now)

(* The credential was in the previous slot when the request began, or has been
   in the current one for as long as a cache remembers. *)
Settled(r) ==
    /\ since[r.presented] < r.began
    /\ r.presented = secret["current"] => since[r.presented] + CacheTtl <= r.began

(* No failure is behind what the request has looked up so far. *)
Sound(q, value) == req[q].sound /\ (value # Unhashed \/ req[q].at \notin Logins)

(* What a request that authenticates has found out so far. *)
Knows(q) ==
    LET r == req[q] IN
    /\ r.at \in {"auth_current", "auth_previous"} => r.presented \in 1 .. secret["current"]
    /\ surface = "admin" => r.current = NoSecret
    /\ r.at = "auth_current" /\ r.fetch = "answered" /\ r.answer = NoSecret => ~ r.sound
    /\ r.at = "auth_previous" /\ r.current \in Secrets => r.began <= until[r.current] + Grace
    /\ r.at = "auth_previous" /\ r.current # r.presented /\ Settled(r) /\ r.sound =>
         /\ r.presented < secret["current"]
         /\ r.fetch = "answered" /\ r.answer # r.presented => until[r.presented] # Never

LoginInv == \A q \in Requests : Knows(q)

(* The preflight: its requests, and how far the caches are behind the store. *)
PreflightInv ==
    surface = "preflight" =>
      /\ turned <= clock
      /\ preflight.at <= clock
      /\ ~ up /\ preflight.available => preflight.at <= turned + CacheTtl - 1
      /\ ~ up => \A s \in Slots : cache[s].value # NoSecret => cache[s].at <= turned
      /\ \A q \in Requests :
           /\ req[q].at \in {"idle", "auth_current"}
           /\ ~ up /\ req[q].fetch = "answered" /\ req[q].answer # NoSecret => req[q].now <= turned

-----------------------------------------------------------------------------
(* The shape of a request, and how a step changes it. *)

SlotRequest ==
    [at : Lookups \cup {"idle"}, fetch : {"none", "asked", "answered"}, answer : Secrets \cup {NoSecret},
     presented : Secrets \cup {NoSecret}, began : 0..LastTime, now : 0..LastTime,
     current : Values, used : Slots, sound : BOOLEAN]

SlotOutcome ==
    [verdict : {"none", "accepted", "denied"}, presented : Secrets \cup {NoSecret},
     began : 0..LastTime, sound : BOOLEAN]

(* A lookup of q has its value, from the cache or from the store. *)
Looks(q, value) ==
    LET r == req[q]
        slot == SlotOf(r, r.at)
    IN  /\ r.at \in Lookups
        /\ \/ Fresh(slot) /\ value = cache[slot].value /\ cache' = cache
           \/ /\ r.fetch = "answered"
              /\ value = r.answer \/ (value = Unhashed /\ r.answer # NoSecret)
              /\ \/ cache' = cache
                 \/ /\ r.answer # NoSecret
                    /\ cache' = [cache EXCEPT ![slot] = [value |-> value, at |-> r.now]]
        /\ Resolve(q, Told(r, value), r.at, value)
        /\ Probed(q, value)
        /\ UNCHANGED <<surface, clock, up, turned, operatorVars>>
        /\ faults' \in 0 .. MaxFaults

(* The store is asked on behalf of q. *)
Asks(q) ==
    /\ req[q].at \in Lookups /\ req[q].fetch = "none"
    /\ req' = [req EXCEPT ![q].fetch = "asked", ![q].now = clock]
    /\ outcome' = NoOutcome
    /\ UNCHANGED <<surface, clock, storeVars, operatorVars, cache, preflight>>

(* A request is served, turned away, or goes on; and when. *)
Served(q, sound) ==
    LET r == req[q] IN
    /\ r.at \in {"auth_current", "auth_previous"}
    /\ \/ req' = [req EXCEPT ![q] = IdleRequest]
       \/ /\ surface \in {"status", "admin"}
          /\ \E slot \in Slots :
               req' = [req EXCEPT ![q] = [IdleRequest EXCEPT !.at = "log_current", !.used = slot, !.began = r.began]]
    /\ outcome' = [verdict |-> "accepted", presented |-> r.presented, began |-> r.began, sound |-> sound]

TurnedAway(q, sound) ==
    LET r == req[q] IN
    /\ r.at \in {"auth_current", "auth_previous"}
    /\ req' = [req EXCEPT ![q] = IdleRequest]
    /\ outcome' = [verdict |-> "denied", presented |-> r.presented, began |-> r.began, sound |-> sound]

GoesOn(q, current, lookup, sound) ==
    /\ req' = [req EXCEPT ![q] = [req[q] EXCEPT !.current = current, !.at = lookup, !.fetch = "none",
                                                !.answer = NoSecret, !.now = 0, !.sound = sound]]
    /\ outcome' = NoOutcome

Finished(q) ==
    /\ req' = [req EXCEPT ![q] = IdleRequest]
    /\ outcome' = NoOutcome

(* How a lookup of q ends. *)
Ends(q, value) ==
    LET r == req[q]
        s == Sound(q, value)
    IN
    \/ /\ Served(q, s)
       /\ Authenticated => value = r.presented \/ (r.at = "auth_previous" /\ r.current = r.presented)
       /\ surface = "preflight" => r.at = "auth_current" /\ value # NoSecret
    \/ /\ TurnedAway(q, s)
       /\ Authenticated => \/ r.at = "auth_current" /\ value = NoSecret
                           \/ /\ r.at = "auth_previous" /\ value # r.presented
                              /\ surface = "admin" \/ r.current # r.presented
       /\ surface = "preflight" => r.at = "auth_current" /\ value = NoSecret
    \/ /\ r.at = "auth_current" /\ Authenticated
       /\ \/ surface # "admin" /\ value # NoSecret /\ GoesOn(q, value, "auth_previous", s)
          \/ surface = "admin" /\ value # r.presented /\ GoesOn(q, r.current, "auth_previous", s)
    \/ /\ r.at \in {"log_current", "log_previous"}
       /\ \E lookup \in {"log_previous", "header"} : GoesOn(q, r.current, lookup, s)
    \/ r.at = "header" /\ Finished(q)

(* Every lookup is of one of the two slots. *)
LEMMA SlotsOfLookups ==
  ASSUME NEW r \in SlotRequest, r.at \in Lookups
  PROVE  /\ SlotOf(r, r.at) \in Slots
         /\ r.at = "auth_current" => SlotOf(r, r.at) = "current"
         /\ r.at = "auth_previous" => SlotOf(r, r.at) = "previous"
BY DEF SlotOf, Lookups, SlotRequest, Slots

(* The types, request by request. *)
LEMMA SlotTypes ==
  ASSUME SlotTypeOK
  PROVE  /\ req \in [Requests -> SlotRequest] /\ outcome \in SlotOutcome
         /\ \A q \in Requests : req[q] \in SlotRequest
         /\ Never \in Nat /\ Never > LastTime /\ LastTime \in Nat
         /\ IdleRequest \in SlotRequest /\ NoOutcome \in SlotOutcome
BY SecretSlotsAssumption DEF SlotTypeOK, SlotRequest, SlotOutcome, Never, IdleRequest, NoOutcome, Lookups,
   NoSecret, Slots, Values

(* Every way a lookup ends is one of five. *)
LEMMA ResolveEnds ==
  ASSUME SlotTypeOK, NEW q \in Requests, NEW value, req[q].at \in Lookups,
         Resolve(q, Told(req[q], value), req[q].at, value)
  PROVE  Ends(q, value)
<1> DEFINE r == Told(req[q], value)
<1> DEFINE s == Sound(q, value)
<1>0. /\ r \in SlotRequest /\ r = [req[q] EXCEPT !.sound = s] /\ s \in BOOLEAN /\ req[q] \in SlotRequest
      /\ r.at = req[q].at /\ r.presented = req[q].presented /\ r.began = req[q].began
      /\ r.current = req[q].current /\ r.sound = s
  <2>1. req[q] \in SlotRequest
    BY SlotTypes
  <2>2. s \in BOOLEAN
    BY <2>1 DEF Sound, SlotRequest
  <2>3. r = [req[q] EXCEPT !.sound = s]
    BY <2>1 DEF Told, Sound, SlotRequest
  <2> HIDE DEF r, s
  <2>4. QED
    BY <2>1, <2>2, <2>3 DEF SlotRequest
<1>c. ASSUME NEW v, NEW lookup, Continue(q, [r EXCEPT !.current = v], lookup)
      PROVE  GoesOn(q, v, lookup, s)
  <2> HIDE DEF r, s
  <2>1. [[r EXCEPT !.current = v] EXCEPT !.at = lookup, !.fetch = "none", !.answer = NoSecret, !.now = 0]
          = [req[q] EXCEPT !.current = v, !.at = lookup, !.fetch = "none", !.answer = NoSecret, !.now = 0,
                           !.sound = s]
    BY <1>0 DEF SlotRequest
  <2>2. QED
    BY <1>c, <2>1 DEF Continue, GoesOn
<1>d. ASSUME NEW lookup, Continue(q, r, lookup) PROVE GoesOn(q, req[q].current, lookup, s)
  <2> HIDE DEF r, s
  <2>1. r = [r EXCEPT !.current = req[q].current]
    BY <1>0 DEF SlotRequest
  <2>2. QED
    BY <1>c, <1>d, <2>1
<1>e. r.at = req[q].at
  BY <1>0
<1> HIDE DEF r, s
<1>1. CASE surface \in {"status", "internal"} /\ authenticate_status_request(q, r, req[q].at, value)
  <2>1. CASE r.at = "auth_current" /\ value = NoSecret /\ Deny(q, r)
    BY <1>0, <1>1, <2>1 DEF s, Ends, TurnedAway, Deny, Authenticated
  <2>2. CASE r.at = "auth_current" /\ value # NoSecret
               /\ Continue(q, [r EXCEPT !.current = value], "auth_previous")
    <3>1. GoesOn(q, value, "auth_previous", s)
      BY <1>c, <2>2
    <3>2. req[q].at = "auth_current" /\ Authenticated /\ surface # "admin" /\ value # NoSecret
      BY <1>0, <1>1, <2>2 DEF Authenticated
    <3>3. QED
      BY <3>1, <3>2, Zenon DEF s, Ends
  <2>3. CASE \E slot \in Slots : r.at = "auth_previous" /\ Accept(q, r, slot)
               /\ (value = r.presented \/ r.current = r.presented)
    <3>1. Served(q, s)
      BY <1>0, <2>3 DEF Accept, Served
    <3>2. QED
      BY <1>0, <1>1, <2>3, <3>1 DEF s, Ends
  <2>4. CASE r.at = "auth_previous" /\ r.presented \notin {r.current, value} /\ Deny(q, r)
    BY <1>0, <1>1, <2>4 DEF s, Ends, TurnedAway, Deny, Authenticated
  <2>5. QED
    BY <1>e, <1>1, <2>1, <2>2, <2>3, <2>4 DEF authenticate_status_request, Slots
<1>2. CASE surface = "admin" /\ verify_admin_api_key(q, r, req[q].at, value)
  <2>1. CASE \E slot \in Slots : r.at \in {"auth_current", "auth_previous"} /\ Accept(q, r, slot)
               /\ value = r.presented
    <3>1. Served(q, s)
      BY <1>0, <2>1 DEF Accept, Served
    <3>2. QED
      BY <1>0, <1>2, <2>1, <3>1 DEF s, Ends
  <2>2. CASE r.at = "auth_current" /\ value # r.presented /\ Continue(q, r, "auth_previous")
    <3>1. GoesOn(q, req[q].current, "auth_previous", s)
      BY <1>d, <2>2
    <3>2. req[q].at = "auth_current" /\ Authenticated /\ value # req[q].presented
      BY <1>0, <1>2, <2>2 DEF Authenticated
    <3>3. QED
      BY <1>2, <3>1, <3>2, Zenon DEF s, Ends
  <2>3. CASE r.at = "auth_previous" /\ value # r.presented /\ Deny(q, r)
    BY <1>0, <1>2, <2>3 DEF s, Ends, TurnedAway, Deny, Authenticated
  <2>4. QED
    BY <1>e, <1>2, <2>1, <2>2, <2>3 DEF verify_admin_api_key, Slots
<1>3. CASE surface = "preflight" /\ get_kek_pair(q, r, req[q].at, value)
  <2>1. CASE value = NoSecret
    BY <1>0, <1>3, <2>1 DEF s, get_kek_pair, Ends, TurnedAway, Deny, Authenticated
  <2>2. CASE value # NoSecret
    <3>1. Served(q, s)
      BY <1>0, <1>3, <2>2 DEF get_kek_pair, Accept, Served, Slots
    <3>2. QED
      BY <1>0, <1>3, <2>2, <3>1 DEF s, Ends, get_kek_pair, Authenticated
  <2>3. QED
    BY <2>1, <2>2
<1>4. CASE log_secret_version(q, r, req[q].at)
  <2>1. QED
    BY <1>4, <1>d DEF log_secret_version, Ends, Finished, s
<1>5. QED
  BY <1>1, <1>2, <1>3, <1>4 DEF Resolve, r

(* What the worker's steps are, in these terms. *)
LEMMA WorkerStep ==
  ASSUME SlotBaseInv, NEW q \in Requests
  PROVE  /\ get_or_fetch_hashed(q) => Asks(q) \/ \E value : Looks(q, value) /\ Ends(q, value)
         /\ fetched(q) => \E value : Looks(q, value) /\ Ends(q, value)
<1>0. SlotTypeOK /\ (req[q].fetch # "none" => req[q].at \in Lookups)
  BY DEF SlotBaseInv, AskInv
<1>1. ASSUME get_or_fetch_hashed(q) PROVE Asks(q) \/ \E value : Looks(q, value)
  BY <1>0, <1>1 DEF get_or_fetch_hashed, Asks, Looks, storeVars, SlotTypeOK
<1>2. ASSUME fetched(q) PROVE \E value : Looks(q, value)
  <2>1. PICK value \in Hashes(req[q].answer) :
          /\ cache' = IF surface # "internal" /\ Keeps(req[q].answer)
                        THEN [cache EXCEPT ![SlotOf(req[q], req[q].at)] = [value |-> value, at |-> FetchedAt(req[q])]]
                        ELSE cache
          /\ Resolve(q, Told(req[q], value), req[q].at, value)
          /\ Probed(q, value)
          /\ faults' = IF value = Unhashed THEN faults + 1 ELSE faults
    BY <1>2 DEF fetched
  <2>2. faults' \in 0 .. MaxFaults
    <3>0. req[q].answer \in 0 .. MaxSecret
      BY <1>0, SlotTypes, SecretSlotsAssumption DEF SlotRequest, Secrets, NoSecret
    <3>1. faults \in 0 .. MaxFaults /\ req[q].answer # Unhashed
      BY <1>0, <3>0 DEF SlotTypeOK, Unhashed
    <3>2. value = Unhashed => faults < MaxFaults
      BY <2>1, <3>1 DEF Hashes
    <3>3. QED
      BY <2>1, <3>1, <3>2, SecretSlotsAssumption
  <2>3. value = req[q].answer \/ (value = Unhashed /\ req[q].answer # NoSecret)
    BY <2>1 DEF Hashes
  <2>4. Looks(q, value)
    BY <1>0, <1>2, <2>1, <2>2, <2>3 DEF fetched, Looks, FetchedAt, Keeps
  <2>5. QED
    BY <2>4
<1>3. ASSUME NEW value, Looks(q, value) PROVE Ends(q, value)
  BY <1>0, <1>3, ResolveEnds DEF Looks
<1>4. QED
  BY <1>1, <1>2, <1>3

-----------------------------------------------------------------------------
(* Types and the operator. *)

(* The steps of the operator, who changes one slot at a time. *)
OperatorStep == set_previous \/ set_current \/ remove_previous

(* The steps that leave the operator's variables alone. *)
LEMMA OthersKeepSecrets ==
  ASSUME SlotBaseInv, [SlotNext]_slotVars
  PROVE  \/ OperatorStep
         \/ /\ UNCHANGED operatorVars
            /\ clock' = clock \/ SlotTick
<1>1. CASE UNCHANGED slotVars
  BY <1>1 DEF slotVars
<1>2. CASE SlotTick \/ outage \/ recovery
  BY <1>2 DEF SlotTick, outage, recovery
<1>3. ASSUME NEW q \in Requests, arrive(q) \/ get_or_fetch_hashed(q) \/ fetch_secret(q) \/ fetched(q)
      PROVE  UNCHANGED operatorVars /\ clock' = clock
  BY <1>3 DEF arrive, get_or_fetch_hashed, fetch_secret, fetched
<1>4. QED
  BY <1>1, <1>2, <1>3 DEF SlotNext, OperatorStep

(* One step keeps the operator's order. *)
LEMMA OperatorInvStep ==
  ASSUME SlotBaseInv, [SlotNext]_slotVars
  PROVE  OperatorInv'
<1> USE SecretSlotsAssumption DEF SlotBaseInv
<1>0. /\ clock \in 0 .. LastTime /\ Never = LastTime + 1 /\ clock # Never /\ rotating \in BOOLEAN
      /\ secret \in [Slots -> Secrets \cup {NoSecret}] /\ secret["current"] \in 1 .. MaxSecret
      /\ since \in [Secrets -> - Patience .. Never] /\ until \in [Secrets -> 0..Never]
      /\ Secrets = 1 .. MaxSecret /\ NoSecret = 0
  BY DEF SlotTypeOK, Never, Secrets, NoSecret
<1>a. ASSUME NEW g \in Secrets
      PROVE  /\ since[g] \in - Patience .. Never /\ until[g] \in 0 .. Never /\ g \in 1 .. MaxSecret
             /\ secret["current"] < g => since[g] = Never
             /\ since[g] # Never => since[g] <= clock
             /\ until[g] # Never => g < secret["current"] /\ g # secret["previous"]
             /\ until[g] # Never => until[g] <= clock /\ since[g] = Never
             /\ until[g] # Never /\ rotating /\ g < secret["current"] - 1 => until[g] + Patience <= clock
             /\ until[g] = Never /\ g <= secret["current"] => g = secret["current"] \/ g = secret["previous"]
  BY <1>0 DEF OperatorInv
<1>b. /\ secret["previous"] \in {NoSecret, secret["current"] - 1}
      /\ secret["previous"] # NoSecret => rotating
      /\ rotating => 1 < secret["current"]
  BY DEF OperatorInv
<1>1. CASE UNCHANGED operatorVars /\ (clock' = clock \/ SlotTick)
  <2>1. clock' = clock \/ clock' = clock + 1
    BY <1>1 DEF SlotTick
  <2>2. UNCHANGED <<secret, rotating, since, until>>
    BY <1>1 DEF operatorVars
  <2>3. ASSUME NEW g \in Secrets
        PROVE  /\ since[g] # Never => since[g] <= clock'
               /\ until[g] # Never => until[g] <= clock'
               /\ until[g] # Never /\ rotating /\ g < secret["current"] - 1 => until[g] + Patience <= clock'
    BY <1>0, <1>a, <2>1
  <2>4. QED
    BY <1>a, <1>b, <2>2, <2>3 DEF OperatorInv
<1>2. CASE set_current
  <2>1. /\ ~ rotating /\ rotating' = TRUE /\ clock' = clock /\ secret["current"] < MaxSecret
        /\ \A g \in Secrets : until[g] # Never => until[g] + Patience <= clock
        /\ secret'["current"] = secret["current"] + 1 /\ secret'["previous"] = secret["previous"]
        /\ since' = [since EXCEPT ![secret["current"] + 1] = clock, ![secret["current"]] = Never]
        /\ until' = [until EXCEPT ![secret["current"]] = clock]
    BY <1>0, <1>2 DEF set_current, Slots
  <2>2. secret["previous"] = NoSecret /\ secret["current"] + 1 \in Secrets /\ secret["current"] \in Secrets
    BY <1>0, <1>b, <2>1
  <2>3. ASSUME NEW g \in Secrets
        PROVE  /\ since'[g] = IF g = secret["current"] THEN Never
                              ELSE IF g = secret["current"] + 1 THEN clock ELSE since[g]
               /\ until'[g] = IF g = secret["current"] THEN clock ELSE until[g]
    BY <1>0, <2>1, <2>2
  <2>4. ASSUME NEW g \in Secrets
        PROVE  /\ secret["current"] + 1 < g => since'[g] = Never
               /\ since'[g] # Never => since'[g] <= clock
               /\ until'[g] # Never =>
                    /\ g < secret["current"] + 1 /\ g # NoSecret
                    /\ until'[g] <= clock /\ since'[g] = Never
                    /\ g < secret["current"] => until'[g] + Patience <= clock
               /\ until'[g] = Never /\ g <= secret["current"] + 1 => g = secret["current"] + 1
    <3>1. CASE g = secret["current"]
      BY <1>0, <2>3, <3>1
    <3>2. CASE g = secret["current"] + 1
      <4>1. since'[g] = clock /\ until'[g] = until[g]
        BY <1>0, <2>3, <3>2
      <4>2. until[g] = Never
        BY <1>0, <1>a, <3>2
      <4>3. QED
        BY <1>0, <3>2, <4>1, <4>2
    <3>3. CASE g \notin {secret["current"], secret["current"] + 1}
      <4>1. since'[g] = since[g] /\ until'[g] = until[g]
        BY <2>3, <3>3
      <4>2. until[g] # Never => until[g] + Patience <= clock
        BY <2>1
      <4>3. /\ g \in Int /\ g # NoSecret /\ secret["current"] \in Int
            /\ secret["current"] < g => since[g] = Never
            /\ since[g] # Never => since[g] <= clock
            /\ until[g] # Never => g < secret["current"] /\ until[g] <= clock /\ since[g] = Never
            /\ until[g] = Never /\ g <= secret["current"] => g = secret["current"]
        BY <1>0, <1>a, <2>2
      <4>4. /\ secret["current"] + 1 < g => secret["current"] < g
            /\ g < secret["current"] => g < secret["current"] + 1
            /\ g <= secret["current"] + 1 => g <= secret["current"]
        BY <3>3, <4>3
      <4>5. QED
        BY <3>3, <4>1, <4>2, <4>3, <4>4
    <3>4. QED
      BY <3>1, <3>2, <3>3
  <2>5. 1 < secret'["current"] /\ secret'["current"] - 1 = secret["current"]
    BY <1>0, <2>1
  <2>6. ASSUME NEW g \in Secrets
        PROVE  /\ secret'["current"] < g => since'[g] = Never
               /\ since'[g] # Never => since'[g] <= clock'
               /\ until'[g] # Never =>
                    /\ g < secret'["current"] /\ g # secret'["previous"]
                    /\ until'[g] <= clock' /\ since'[g] = Never
                    /\ rotating' /\ g < secret'["current"] - 1 => until'[g] + Patience <= clock'
               /\ until'[g] = Never /\ g <= secret'["current"] =>
                    g \in {secret'["current"], secret'["previous"]}
    BY <2>1, <2>2, <2>4, <2>5
  <2>7. secret'["previous"] = NoSecret /\ rotating'
    BY <2>1, <2>2
  <2>8. QED
    BY <2>5, <2>6, <2>7 DEF OperatorInv
<1>3. CASE set_previous
  <2> DEFINE old == secret["current"] - 1
  <2>1. /\ rotating /\ secret["previous"] = NoSecret /\ UNCHANGED <<clock, rotating>>
        /\ secret'["previous"] = old /\ secret'["current"] = secret["current"]
        /\ since' = [since EXCEPT ![old] = clock] /\ until' = [until EXCEPT ![old] = Never]
    BY <1>0, <1>3 DEF set_previous, Slots
  <2>2. old \in Secrets /\ old < secret["current"] /\ secret["current"] \in Int
    BY <1>0, <1>b, <2>1
  <2> HIDE DEF old
  <2>3. ASSUME NEW g \in Secrets
        PROVE  /\ since'[g] = IF g = old THEN clock ELSE since[g]
               /\ until'[g] = IF g = old THEN Never ELSE until[g]
    BY <1>0, <2>1, <2>2
  <2>4. ASSUME NEW g \in Secrets
        PROVE  /\ secret["current"] < g => since'[g] = Never
               /\ since'[g] # Never => since'[g] <= clock
               /\ until'[g] # Never =>
                    /\ g < secret["current"] /\ g # old
                    /\ until'[g] <= clock /\ since'[g] = Never
                    /\ g < secret["current"] - 1 => until'[g] + Patience <= clock
               /\ until'[g] = Never /\ g <= secret["current"] => g \in {secret["current"], old}
    <3>1. CASE g = old
      BY <1>0, <2>2, <2>3, <3>1
    <3>2. CASE g # old
      <4>1. since'[g] = since[g] /\ until'[g] = until[g]
        BY <2>3, <3>2
      <4>2. until[g] = Never /\ g <= secret["current"] => g = secret["current"]
        BY <1>0, <1>a, <2>1
      <4>3. QED
        BY <1>0, <1>a, <2>1, <3>2, <4>1, <4>2
    <3>3. QED
      BY <3>1, <3>2
  <2>5. QED
    BY <1>b, <2>1, <2>4 DEF OperatorInv, old
<1>4. CASE remove_previous
  <2>1. /\ secret["previous"] # NoSecret /\ clock' = clock /\ rotating' = FALSE
        /\ secret'["previous"] = NoSecret /\ secret'["current"] = secret["current"]
        /\ since' = [since EXCEPT ![secret["previous"]] = Never]
        /\ until' = [until EXCEPT ![secret["previous"]] = clock]
    BY <1>0, <1>4 DEF remove_previous, Slots
  <2>2. secret["previous"] \in Secrets /\ secret["previous"] = secret["current"] - 1
    BY <1>0, <1>b, <2>1 DEF Slots
  <2>3. ASSUME NEW g \in Secrets
        PROVE  /\ since'[g] = IF g = secret["previous"] THEN Never ELSE since[g]
               /\ until'[g] = IF g = secret["previous"] THEN clock ELSE until[g]
    BY <1>0, <2>1, <2>2
  <2>4. ASSUME NEW g \in Secrets
        PROVE  /\ secret["current"] < g => since'[g] = Never
               /\ since'[g] # Never => since'[g] <= clock
               /\ until'[g] # Never =>
                    /\ g < secret["current"] /\ g # NoSecret
                    /\ until'[g] <= clock /\ since'[g] = Never
               /\ until'[g] = Never /\ g <= secret["current"] => g = secret["current"]
    <3>1. CASE g = secret["previous"]
      <4>1. since'[g] = Never /\ until'[g] = clock
        BY <2>3, <3>1
      <4>2. g \in Int /\ g # NoSecret /\ secret["current"] \in Int /\ g = secret["current"] - 1 /\ clock <= clock
        BY <1>0, <2>1, <2>2, <3>1
      <4>3. g < secret["current"] /\ ~ (secret["current"] < g)
        BY <4>2
      <4>4. QED
        BY <1>0, <4>1, <4>2, <4>3
    <3>2. CASE g # secret["previous"]
      <4>1. since'[g] = since[g] /\ until'[g] = until[g]
        BY <2>3, <3>2
      <4>2. QED
        BY <1>0, <1>a, <3>2, <4>1
    <3>3. QED
      BY <3>1, <3>2
  <2>5. QED
    BY <1>b, <2>1, <2>4 DEF OperatorInv
<1>5. QED
  BY <1>1, <1>2, <1>3, <1>4, OthersKeepSecrets DEF OperatorStep

(* What a lookup finds is a hash, none, or that there is no secret. *)
LEMMA LooksType ==
  ASSUME SlotTypeOK, NEW q \in Requests, NEW value, Looks(q, value)
  PROVE  value \in Values
<1>1. req[q] \in SlotRequest /\ req[q].at \in Lookups
  BY SlotTypes DEF Looks
<1>2. SlotOf(req[q], req[q].at) \in Slots
  BY <1>1, SlotsOfLookups
<1>3. req[q].answer \in Values /\ cache[SlotOf(req[q], req[q].at)].value \in Values /\ Unhashed \in Values
  BY <1>1, <1>2 DEF SlotTypeOK, SlotRequest, Values
<1>4. QED
  BY <1>3 DEF Looks

(* One step keeps the types, and only lookups ask the store. *)
LEMMA SlotTypeStep ==
  ASSUME SlotBaseInv, [SlotNext]_slotVars
  PROVE  SlotTypeOK' /\ AskInv'
<1> USE SecretSlotsAssumption DEF SlotBaseInv
<1>0. /\ req \in [Requests -> SlotRequest] /\ IdleRequest \in SlotRequest /\ NoOutcome \in SlotOutcome
      /\ Never \in Nat /\ Never > LastTime /\ LastTime \in Nat /\ 0 \in 0 .. LastTime
      /\ IdleRequest.fetch = "none"
  BY SlotTypes DEF IdleRequest
<1>1. ASSUME req' \in [Requests -> SlotRequest], outcome' \in SlotOutcome, UNCHANGED <<surface, operatorVars>>,
             clock' \in 0..LastTime, up' \in BOOLEAN, turned' \in 0..LastTime, faults' \in 0..MaxFaults,
             cache' \in [Slots -> [value : Values, at : - 2 * CacheTtl .. LastTime]],
             preflight' \in [available : BOOLEAN, at : - (OkTtl + FailTtl) .. LastTime]
      PROVE  SlotTypeOK'
  BY <1>1 DEF SlotTypeOK, SlotRequest, SlotOutcome, operatorVars
<1>2. CASE UNCHANGED slotVars
  BY <1>2 DEF slotVars, storeVars, operatorVars, SlotTypeOK, AskInv
<1>3. CASE SlotTick \/ outage \/ recovery
  <2>1. UNCHANGED <<surface, operatorVars, cache, preflight, req>> /\ outcome' = NoOutcome
    BY <1>3 DEF SlotTick, outage, recovery
  <2>2. clock' \in 0..LastTime /\ up' \in BOOLEAN /\ turned' \in 0..LastTime /\ faults' \in 0..MaxFaults
    <3>1. CASE SlotTick
      BY <1>0, <3>1 DEF SlotTick, storeVars, SlotTypeOK
    <3>2. CASE outage
      <4>1. faults \in 0 .. MaxFaults /\ faults < MaxFaults /\ faults' = faults + 1
        BY <3>2 DEF outage, SlotTypeOK
      <4>2. faults' \in 0 .. MaxFaults
        BY <4>1
      <4>3. clock' = clock /\ up' \in BOOLEAN /\ turned' \in {clock, turned}
        BY <3>2 DEF outage
      <4>4. QED
        BY <4>2, <4>3 DEF SlotTypeOK
    <3>3. CASE recovery
      BY <1>0, <3>3 DEF recovery, SlotTypeOK
    <3>4. QED
      BY <1>3, <3>1, <3>2, <3>3
  <2>3. QED
    BY <1>0, <1>1, <2>1, <2>2 DEF SlotTypeOK, AskInv
<1>4. CASE OperatorStep
  <2>1. UNCHANGED <<surface, clock, storeVars, cache, preflight, req>> /\ outcome' = NoOutcome
    BY <1>4 DEF OperatorStep, set_previous, set_current, remove_previous
  <2>2. /\ secret \in [Slots -> Secrets \cup {NoSecret}] /\ secret["current"] \in Secrets
        /\ clock \in - Patience .. Never /\ clock \in 0..Never
        /\ Never \in - Patience .. Never /\ Never \in 0..Never
    BY <1>0 DEF SlotTypeOK
  <2>3. CASE set_previous
    <3>1. secret["current"] - 1 \in Secrets
      BY <2>2, <2>3 DEF set_previous, OperatorInv, Secrets
    <3>2. secret' \in [Slots -> Secrets \cup {NoSecret}] /\ secret'["current"] \in Secrets
      BY <2>2, <2>3, <3>1 DEF set_previous, Slots
    <3>3. since' \in [Secrets -> - Patience .. Never] /\ until' \in [Secrets -> 0..Never] /\ rotating' \in BOOLEAN
      BY <2>2, <2>3, <3>1 DEF set_previous, SlotTypeOK
    <3>4. QED
      BY <1>0, <2>1, <3>2, <3>3 DEF SlotTypeOK, SlotOutcome, storeVars, AskInv
  <2>4. CASE set_current
    <3>1. secret["current"] + 1 \in Secrets
      BY <2>2, <2>4 DEF set_current, Secrets
    <3>2. secret' \in [Slots -> Secrets \cup {NoSecret}] /\ secret'["current"] \in Secrets
      BY <2>2, <2>4, <3>1 DEF set_current, Slots
    <3>3. since' \in [Secrets -> - Patience .. Never] /\ until' \in [Secrets -> 0..Never] /\ rotating' \in BOOLEAN
      BY <2>2, <2>4, <3>1 DEF set_current, SlotTypeOK
    <3>4. QED
      BY <1>0, <2>1, <3>2, <3>3 DEF SlotTypeOK, SlotOutcome, storeVars, AskInv
  <2>5. CASE remove_previous
    <3>1. secret' \in [Slots -> Secrets \cup {NoSecret}] /\ secret'["current"] \in Secrets
      BY <2>2, <2>5 DEF remove_previous, Slots
    <3>2. since' \in [Secrets -> - Patience .. Never] /\ until' \in [Secrets -> 0..Never] /\ rotating' \in BOOLEAN
      BY <2>2, <2>5 DEF remove_previous, SlotTypeOK
    <3>3. QED
      BY <1>0, <2>1, <3>1, <3>2 DEF SlotTypeOK, SlotOutcome, storeVars, AskInv
  <2>6. QED
    BY <1>4, <2>3, <2>4, <2>5 DEF OperatorStep
<1>5. ASSUME NEW q \in Requests, arrive(q) PROVE SlotTypeOK' /\ AskInv'
  <2>1. UNCHANGED <<surface, clock, storeVars, operatorVars, cache, preflight>>
    BY <1>5 DEF arrive
  <2>2. PICK g \in 1 .. secret["current"] :
          LET r == [IdleRequest EXCEPT !.presented = g, !.began = clock]
          IN  Accept(q, r, "current") \/ Deny(q, r) \/ Continue(q, r, "auth_current")
    BY <1>5 DEF arrive
  <2> DEFINE r == [IdleRequest EXCEPT !.presented = g, !.began = clock]
  <2>3. g \in Secrets /\ clock \in 0..LastTime
    BY <1>0 DEF SlotTypeOK, Secrets
  <2>4. r \in SlotRequest /\ r.presented = g /\ r.began = clock
    BY <1>0, <2>3 DEF SlotRequest, IdleRequest
  <2>5. req' \in [Requests -> SlotRequest] /\ outcome' \in SlotOutcome /\ req'[q].fetch = "none"
    <3>1. CASE Accept(q, r, "current") \/ Deny(q, r)
      <4>1. [IdleRequest EXCEPT !.at = "log_current", !.used = "current", !.began = r.began] \in SlotRequest
        BY <1>0, <2>3, <2>4 DEF SlotRequest, Lookups, Slots
      <4>2. [IdleRequest EXCEPT !.at = "log_current", !.used = "current", !.began = r.began].fetch = "none"
        BY DEF IdleRequest
      <4>3. req'[q] \in SlotRequest /\ req'[q].fetch = "none" /\ req' \in [Requests -> SlotRequest]
        <5>1. CASE Accept(q, r, "current")
          BY <1>0, <4>1, <4>2, <5>1 DEF Accept
        <5>2. CASE Deny(q, r)
          BY <1>0, <5>2 DEF Deny
        <5>3. QED
          BY <3>1, <5>1, <5>2
      <4>4. outcome' \in SlotOutcome
        <5>1. PICK v \in {"accepted", "denied"} :
                outcome' = [verdict |-> v, presented |-> r.presented, began |-> r.began, sound |-> r.sound]
          BY <3>1 DEF Accept, Deny
        <5>2. r.presented \in Secrets \cup {NoSecret} /\ r.began \in 0..LastTime /\ r.sound \in BOOLEAN
          BY <2>4 DEF SlotRequest
        <5>3. QED
          BY <5>1, <5>2 DEF SlotOutcome
      <4>5. QED
        BY <4>3, <4>4
    <3>2. CASE Continue(q, r, "auth_current")
      <4>1. [r EXCEPT !.at = "auth_current", !.fetch = "none", !.answer = NoSecret, !.now = 0] \in SlotRequest
        BY <1>0, <2>3, <2>4 DEF SlotRequest, Lookups, NoSecret
      <4>2. QED
        BY <1>0, <3>2, <4>1 DEF Continue, SlotRequest
    <3>3. QED
      BY <2>2, <3>1, <3>2
  <2>6. \A p \in Requests \ {q} : req'[p] = req[p]
    BY <1>0, <2>2 DEF Accept, Deny, Continue
  <2>7. QED
    BY <1>1, <2>1, <2>5, <2>6 DEF SlotTypeOK, AskInv, storeVars
<1>6. ASSUME NEW q \in Requests, Asks(q) \/ fetch_secret(q) PROVE SlotTypeOK' /\ AskInv'
  <2>1. UNCHANGED <<surface, clock, storeVars, operatorVars, cache, preflight>> /\ outcome' = NoOutcome
    BY <1>6 DEF Asks, fetch_secret
  <2>2. req[q].at \in Lookups /\ SlotOf(req[q], req[q].at) \in Slots /\ req[q] \in SlotRequest
    BY <1>0, <1>6, SlotsOfLookups DEF Asks, fetch_secret, AskInv
  <2>3. (IF up THEN secret[SlotOf(req[q], req[q].at)] ELSE NoSecret) \in Secrets \cup {NoSecret}
    BY <2>2 DEF SlotTypeOK
  <2>4. req' \in [Requests -> SlotRequest]
    <3>1. CASE Asks(q)
      BY <1>0, <2>2, <3>1 DEF Asks, SlotRequest, SlotTypeOK
    <3>2. CASE fetch_secret(q)
      <4>1. [req[q] EXCEPT !.fetch = "answered",
                           !.answer = IF up THEN secret[SlotOf(req[q], req[q].at)] ELSE NoSecret,
                           !.sound = @ /\ (up \/ req[q].at \notin Logins)] \in SlotRequest
        BY <2>2, <2>3 DEF SlotRequest
      <4>2. QED
        BY <1>0, <3>2, <4>1 DEF fetch_secret
    <3>3. QED
      BY <1>6, <3>1, <3>2
  <2>5. req'[q].at = req[q].at /\ \A p \in Requests \ {q} : req'[p] = req[p]
    BY <1>0, <1>6, <2>2 DEF Asks, fetch_secret, SlotRequest
  <2>6. QED
    BY <1>0, <1>1, <2>1, <2>2, <2>4, <2>5 DEF SlotTypeOK, AskInv, storeVars
<1>7. ASSUME NEW q \in Requests, NEW value, Looks(q, value), Ends(q, value) PROVE SlotTypeOK' /\ AskInv'
  <2>1. /\ UNCHANGED <<surface, clock, up, turned, operatorVars>> /\ faults' \in 0..MaxFaults
        /\ Probed(q, value) /\ req[q].at \in Lookups
    BY <1>7 DEF Looks
  <2>2. value \in Values /\ req[q] \in SlotRequest /\ SlotOf(req[q], req[q].at) \in Slots
    BY <1>0, <1>7, <2>1, LooksType, SlotsOfLookups
  <2>3. cache' \in [Slots -> [value : Values, at : - 2 * CacheTtl .. LastTime]]
    <3>1. req[q].now \in - 2 * CacheTtl .. LastTime
      BY <2>2 DEF SlotRequest
    <3>2. PICK e : e = [value |-> value, at |-> req[q].now]
      OBVIOUS
    <3>3. e \in [value : Values, at : - 2 * CacheTtl .. LastTime]
      BY <2>2, <3>1, <3>2
    <3>4. cache' = cache \/ cache' = [cache EXCEPT ![SlotOf(req[q], req[q].at)] = e]
      BY <1>7, <3>2 DEF Looks
    <3>5. QED
      BY <2>2, <3>3, <3>4 DEF SlotTypeOK
  <2>4. preflight' \in [available : BOOLEAN, at : - (OkTtl + FailTtl) .. LastTime]
    BY <2>1, <2>2 DEF Probed, SlotTypeOK, SlotRequest
  <2> DEFINE sd == Sound(q, value)
  <2>s. sd \in BOOLEAN
    BY <2>2 DEF Sound, SlotRequest
  <2>e. Ends(q, value)
    BY <1>7
  <2>o. \A v \in {"accepted", "denied"} :
          [verdict |-> v, presented |-> req[q].presented, began |-> req[q].began, sound |-> sd] \in SlotOutcome
    <3> HIDE DEF sd
    <3>1. QED
      BY <2>2, <2>s DEF SlotRequest, SlotOutcome
  <2>5. /\ req' \in [Requests -> SlotRequest] /\ outcome' \in SlotOutcome
        /\ req'[q].fetch = "none" /\ \A p \in Requests \ {q} : req'[p] = req[p]
    <3>1. ASSUME NEW current \in Values, NEW lookup \in Lookups, GoesOn(q, current, lookup, sd)
          PROVE  <2>5
      <4> HIDE DEF sd
      <4> DEFINE n == [req[q] EXCEPT !.current = current, !.at = lookup, !.fetch = "none", !.answer = NoSecret,
                                     !.now = 0, !.sound = sd]
      <4>1. n \in SlotRequest /\ n.fetch = "none"
        BY <1>0, <2>2, <2>s, <3>1 DEF SlotRequest
      <4>2. req' = [req EXCEPT ![q] = n] /\ outcome' = NoOutcome
        BY <3>1 DEF GoesOn
      <4> HIDE DEF n
      <4>3. QED
        BY <1>0, <4>1, <4>2
    <3>2. CASE Finished(q) \/ TurnedAway(q, sd)
      BY <1>0, <2>o, <3>2 DEF Finished, TurnedAway
    <3>3. CASE Served(q, sd)
      <4>1. \A slot \in Slots : [IdleRequest EXCEPT !.at = "log_current", !.used = slot, !.began = req[q].began]
                                   \in SlotRequest
        BY <1>0, <2>2 DEF SlotRequest, IdleRequest, Lookups
      <4>2. QED
        <5>1. CASE req' = [req EXCEPT ![q] = IdleRequest]
          BY <1>0, <2>o, <3>3, <5>1 DEF Served
        <5>2. ASSUME NEW slot \in Slots,
                     req' = [req EXCEPT ![q] = [IdleRequest EXCEPT !.at = "log_current", !.used = slot,
                                                                   !.began = req[q].began]]
              PROVE  <2>5
          <6>1. [IdleRequest EXCEPT !.at = "log_current", !.used = slot, !.began = req[q].began].fetch = "none"
            BY DEF IdleRequest
          <6>2. outcome' \in SlotOutcome
            BY <2>o, <3>3 DEF Served
          <6>3. QED
            BY <1>0, <4>1, <5>2, <6>1, <6>2
        <5>3. QED
          BY <3>3, <5>1, <5>2 DEF Served
    <3>4. req[q].current \in Values /\ {"auth_previous", "log_previous", "header"} \subseteq Lookups
      BY <2>2 DEF SlotRequest, Lookups
    <3>5. QED
      BY <2>2, <2>e, <3>1, <3>2, <3>3, <3>4 DEF Ends
  <2>6. QED
    BY <1>1, <2>1, <2>3, <2>4, <2>5 DEF SlotTypeOK, AskInv
<1>8. QED
  BY <1>2, <1>3, <1>4, <1>5, <1>6, <1>7, WorkerStep DEF SlotNext, OperatorStep

(* Types and the operator's order hold initially. *)
LEMMA SlotBaseInit == SlotInit => SlotBaseInv
<1> SUFFICES ASSUME SlotInit PROVE SlotBaseInv
  OBVIOUS
<1> USE SecretSlotsAssumption DEF SlotInit
<1>a. NotCached \in [value : Values, at : - 2 * CacheTtl .. LastTime]
  BY DEF NotCached, Values
<1>b. IdleRequest \in SlotRequest /\ NoOutcome \in SlotOutcome
  BY DEF IdleRequest, SlotRequest, NoOutcome, SlotOutcome, Lookups, NoSecret, Slots, Values
<1>c. secret \in [Slots -> Secrets \cup {NoSecret}] /\ secret["current"] \in Secrets
  BY DEF Slots, Secrets, NoSecret
<1>d. since \in [Secrets -> - Patience .. Never] /\ until \in [Secrets -> 0..Never]
  BY DEF Secrets, Never
<1>e. preflight \in [available : BOOLEAN, at : - (OkTtl + FailTtl) .. LastTime]
  BY DEF NotProbed
<1>f. cache \in [Slots -> [value : Values, at : - 2 * CacheTtl .. LastTime]]
  BY <1>a
<1>g. req \in [Requests -> SlotRequest] /\ outcome \in SlotOutcome
  BY <1>b
<1>h. surface \in Surfaces /\ clock \in 0..LastTime /\ turned \in 0..LastTime /\ faults \in 0..MaxFaults
  OBVIOUS
<1>i. up \in BOOLEAN /\ rotating \in BOOLEAN
  OBVIOUS
<1>1. SlotTypeOK
  <2> HIDE DEF SlotInit
  <2>1. QED
    BY <1>c, <1>d, <1>e, <1>f, <1>g, <1>h, <1>i DEF SlotTypeOK, SlotRequest, SlotOutcome
<1>2. OperatorInv /\ AskInv
  BY DEF OperatorInv, AskInv, Slots, Secrets, NoSecret, Never, IdleRequest
<1>3. QED
  BY <1>1, <1>2 DEF SlotBaseInv

(* Every step keeps them. *)
LEMMA SlotBaseStep == SlotBaseInv /\ [SlotNext]_slotVars => SlotBaseInv'
BY OperatorInvStep, SlotTypeStep DEF SlotBaseInv

(* Type correctness: the variables of the dual-slot credentials keep their
   types; no entry is dated in the future and the current slot is never
   empty. *)
THEOREM SecretSlotsTypeCorrect == SlotSpec => []SlotTypeOK
<1>1. SlotBaseInv => SlotTypeOK
  BY DEF SlotBaseInv
<1>2. QED
  BY <1>1, SlotBaseInit, SlotBaseStep, PTL DEF SlotSpec

-----------------------------------------------------------------------------
(* What was found once stays true. *)

(* No step, of the operator or of the worker, undoes what was found. *)
LEMMA FoundStays ==
  ASSUME SlotBaseInv, [SlotNext]_slotVars, NEW slot \in Slots, NEW g \in Secrets, NEW t \in Int,
         Found(slot, g, t)
  PROVE  Found(slot, g, t)'
<1> USE SecretSlotsAssumption DEF SlotBaseInv
<1>0. /\ clock \in 0 .. LastTime /\ Never = LastTime + 1
      /\ secret \in [Slots -> Secrets \cup {NoSecret}] /\ secret["current"] \in 1 .. MaxSecret
      /\ since \in [Secrets -> - Patience .. Never] /\ until \in [Secrets -> 0..Never]
      /\ Secrets = 1 .. MaxSecret /\ NoSecret = 0
  BY DEF SlotTypeOK, Never, Secrets, NoSecret
<1>1. CASE UNCHANGED operatorVars /\ (clock' = clock \/ SlotTick)
  <2>1. UNCHANGED <<secret, since, until>> /\ (clock' = clock \/ clock' = clock + 1)
    BY <1>1 DEF operatorVars, SlotTick
  <2>2. QED
    BY <1>0, <2>1 DEF Found
<1>f. /\ t <= clock /\ t <= until[g] /\ g <= secret["current"]
      /\ slot = "current" => \A h \in Secrets : since[h] < t => h <= g
      /\ slot = "previous" => secret["previous"] = g \/ until[g] # Never
      /\ clock < Never /\ until[g] \in 0 .. Never
  BY <1>0 DEF Found
<1>g. ASSUME clock' = clock, t <= until'[g], g <= secret'["current"],
             \A h \in Secrets : since'[h] = since[h] \/ since'[h] = clock \/ since'[h] = Never,
             slot = "previous" => secret'["previous"] = g \/ until'[g] # Never
      PROVE  Found(slot, g, t)'
  <2>1. ASSUME NEW h \in Secrets, since'[h] < t PROVE since[h] < t
    <3>1. ~ (clock < t) /\ ~ (Never < t) /\ clock \in Int /\ Never \in Int
      BY <1>0, <1>f
    <3>2. QED
      BY <1>g, <2>1, <3>1
  <2>2. QED
    BY <1>f, <1>g, <2>1 DEF Found
<1>2. CASE set_previous
  <2> DEFINE old == secret["current"] - 1
  <2>1. /\ rotating /\ secret["previous"] = NoSecret /\ clock' = clock
        /\ secret'["current"] = secret["current"] /\ secret'["previous"] = old
        /\ since' = [since EXCEPT ![old] = clock] /\ until' = [until EXCEPT ![old] = Never]
    BY <1>0, <1>2 DEF set_previous, Slots
  <2>2. until'[g] = until[g] \/ (g = old /\ until'[g] = Never)
    BY <1>0, <2>1
  <2>3. t <= until'[g]
    BY <1>0, <1>f, <2>2
  <2>4. \A h \in Secrets : since'[h] = since[h] \/ since'[h] = clock
    BY <1>0, <2>1
  <2>5. slot = "previous" => secret'["previous"] = g \/ until'[g] # Never
    BY <1>0, <1>f, <2>1, <2>2
  <2>6. QED
    BY <1>f, <1>g, <2>1, <2>3, <2>4, <2>5
<1>3. CASE set_current
  <2>1. /\ ~ rotating /\ clock' = clock
        /\ secret'["current"] = secret["current"] + 1 /\ secret'["previous"] = secret["previous"]
        /\ since' = [since EXCEPT ![secret["current"] + 1] = clock, ![secret["current"]] = Never]
        /\ until' = [until EXCEPT ![secret["current"]] = clock]
    BY <1>0, <1>3 DEF set_current, Slots
  <2>2. until'[g] = until[g] \/ until'[g] = clock
    BY <1>0, <2>1
  <2>3. t <= until'[g] /\ (until[g] # Never => until'[g] # Never)
    BY <1>0, <1>f, <2>2
  <2>4. \A h \in Secrets : since'[h] = since[h] \/ since'[h] = clock \/ since'[h] = Never
    BY <1>0, <2>1
  <2>5. slot = "previous" => secret'["previous"] = g \/ until'[g] # Never
    BY <1>f, <2>1, <2>3
  <2>6. g <= secret'["current"]
    BY <1>0, <1>f, <2>1
  <2>7. QED
    BY <1>g, <2>1, <2>3, <2>4, <2>5, <2>6
<1>4. CASE remove_previous
  <2>1. /\ clock' = clock /\ secret'["current"] = secret["current"]
        /\ since' = [since EXCEPT ![secret["previous"]] = Never]
        /\ until' = [until EXCEPT ![secret["previous"]] = clock]
    BY <1>0, <1>4 DEF remove_previous, Slots
  <2>2. /\ until'[g] = until[g] \/ until'[g] = clock
        /\ secret["previous"] = g => until'[g] = clock
    BY <1>0, <2>1
  <2>3. t <= until'[g] /\ (until[g] # Never => until'[g] # Never)
    BY <1>0, <1>f, <2>2
  <2>4. \A h \in Secrets : since'[h] = since[h] \/ since'[h] = Never
    BY <1>0, <2>1
  <2>5. slot = "previous" => until'[g] # Never
    BY <1>f, <2>2, <2>3
  <2>6. QED
    BY <1>f, <1>g, <2>1, <2>3, <2>4, <2>5
<1>5. QED
  BY <1>1, <1>2, <1>3, <1>4, OthersKeepSecrets DEF OperatorStep

(* What the store holds is found under any date up to now. *)
LEMMA FoundNow ==
  ASSUME SlotBaseInv, NEW slot \in Slots, NEW t \in Int, t <= clock, secret[slot] # NoSecret
  PROVE  Found(slot, secret[slot], t)
<1> USE SecretSlotsAssumption DEF SlotBaseInv
<1> DEFINE g == secret[slot]
<1>0. /\ clock \in 0 .. LastTime /\ Never = LastTime + 1
      /\ secret["current"] \in 1 .. MaxSecret /\ g \in Secrets /\ until[g] \in 0 .. Never
      /\ since \in [Secrets -> - Patience .. Never] /\ Secrets = 1 .. MaxSecret
  BY DEF SlotTypeOK, Never, Secrets, NoSecret
<1>1. g = secret["current"] \/ g = secret["previous"]
  BY DEF Slots
<1>2. g <= secret["current"]
  BY <1>0, <1>1 DEF OperatorInv
<1>3. until[g] = Never
  <2>1. until[g] # Never => g < secret["current"] /\ g # secret["previous"]
    BY <1>0 DEF OperatorInv
  <2>2. QED
    BY <1>0, <1>1, <2>1
<1>4. ASSUME NEW h \in Secrets, since[h] < t PROVE h <= secret["current"]
  <2>1. secret["current"] < h => since[h] = Never
    BY DEF OperatorInv
  <2>2. QED
    BY <1>0, <1>4, <2>1
<1>5. QED
  BY <1>0, <1>2, <1>3, <1>4 DEF Found

-----------------------------------------------------------------------------
(* The steps of a request, field by field. *)

(* An arrival looks up the current slot, unless a preflight has its verdict. *)
LEMMA ArriveShape ==
  ASSUME SlotBaseInv, NEW q \in Requests, arrive(q)
  PROVE  /\ UNCHANGED <<surface, clock, storeVars, operatorVars, cache, preflight>>
         /\ \A p \in Requests \ {q} : req'[p] = req[p]
         /\ req'[q].fetch = "none" /\ req'[q].current = NoSecret
         /\ \/ /\ req'[q].at = "auth_current" /\ req'[q].began = clock
               /\ req'[q].presented \in 1 .. secret["current"]
               /\ outcome' = NoOutcome
            \/ /\ surface = "preflight" /\ req'[q] = IdleRequest /\ preflight_cache_hit
               /\ outcome'.began = clock
               /\ outcome'.verdict = IF preflight.available THEN "accepted" ELSE "denied"
<1> USE DEF SlotBaseInv
<1>0. req \in [Requests -> SlotRequest] /\ IdleRequest.fetch = "none" /\ IdleRequest.current = NoSecret
  BY SlotTypes DEF IdleRequest
<1>1. UNCHANGED <<surface, clock, storeVars, operatorVars, cache, preflight>>
  BY DEF arrive
<1>2. PICK g \in 1 .. secret["current"] :
        LET r == [IdleRequest EXCEPT !.presented = g, !.began = clock]
        IN  IF surface = "preflight" /\ preflight_cache_hit
              THEN IF preflight.available THEN Accept(q, r, "current") ELSE Deny(q, r)
              ELSE Continue(q, r, "auth_current")
  BY DEF arrive
<1> DEFINE r == [IdleRequest EXCEPT !.presented = g, !.began = clock]
<1>3. r.began = clock /\ r.presented = g
  BY DEF IdleRequest
<1>4. CASE surface = "preflight" /\ preflight_cache_hit
  <2>1. CASE preflight.available
    <3>1. Accept(q, r, "current")
      BY <1>2, <1>4, <2>1
    <3>2. QED
      BY <1>0, <1>1, <1>3, <1>4, <2>1, <3>1 DEF Accept
  <2>2. CASE ~ preflight.available
    <3>1. Deny(q, r)
      BY <1>2, <1>4, <2>2
    <3>2. QED
      BY <1>0, <1>1, <1>3, <1>4, <2>2, <3>1 DEF Deny
  <2>3. QED
    BY <2>1, <2>2
<1>5. CASE ~ (surface = "preflight" /\ preflight_cache_hit)
  <2> DEFINE n == [r EXCEPT !.at = "auth_current", !.fetch = "none", !.answer = NoSecret, !.now = 0]
  <2>1. Continue(q, r, "auth_current")
    BY <1>2, <1>5
  <2>2. req' = [req EXCEPT ![q] = n] /\ outcome' = NoOutcome
    BY <2>1 DEF Continue
  <2>3. /\ n.at = "auth_current" /\ n.fetch = "none" /\ n.began = clock /\ n.presented = g
        /\ n.current = NoSecret
    BY DEF IdleRequest
  <2>4. QED
    BY <1>0, <1>1, <2>2, <2>3
<1>6. QED
  BY <1>4, <1>5

(* The store is asked, with the date of now. *)
LEMMA AsksShape ==
  ASSUME SlotBaseInv, NEW q \in Requests, Asks(q)
  PROVE  /\ \A p \in Requests \ {q} : req'[p] = req[p]
         /\ req'[q] = [req[q] EXCEPT !.fetch = "asked", !.now = clock]
         /\ req'[q].at = req[q].at /\ req'[q].fetch = "asked" /\ req'[q].now = clock
         /\ req'[q].began = req[q].began /\ req'[q].presented = req[q].presented
         /\ req'[q].current = req[q].current /\ req'[q].sound = req[q].sound
<1>0. req \in [Requests -> SlotRequest] /\ req[q] \in SlotRequest
  BY SlotTypes DEF SlotBaseInv
<1>1. /\ \A p \in Requests \ {q} : req'[p] = req[p]
      /\ req'[q] = [req[q] EXCEPT !.fetch = "asked", !.now = clock]
  BY <1>0 DEF Asks
<1>2. QED
  BY <1>0, <1>1 DEF SlotRequest

(* The store answers. *)
LEMMA AnswersShape ==
  ASSUME SlotBaseInv, NEW q \in Requests, fetch_secret(q)
  PROVE  /\ \A p \in Requests \ {q} : req'[p] = req[p]
         /\ req'[q].at = req[q].at /\ req'[q].fetch = "answered" /\ req'[q].now = req[q].now
         /\ req'[q].began = req[q].began /\ req'[q].presented = req[q].presented
         /\ req'[q].current = req[q].current /\ req'[q].sound = (req[q].sound /\ (up \/ req[q].at \notin Logins))
         /\ req'[q].answer = IF up THEN secret[SlotOf(req[q], req[q].at)] ELSE NoSecret
         /\ SlotOf(req'[q], req'[q].at) = SlotOf(req[q], req[q].at)
<1> DEFINE v == IF up THEN secret[SlotOf(req[q], req[q].at)] ELSE NoSecret
<1>0. req \in [Requests -> SlotRequest] /\ req[q] \in SlotRequest
  BY SlotTypes DEF SlotBaseInv
<1>1. /\ \A p \in Requests \ {q} : req'[p] = req[p]
      /\ req'[q] = [req[q] EXCEPT !.fetch = "answered", !.answer = v, !.sound = @ /\ (up \/ req[q].at \notin Logins)]
  BY <1>0 DEF fetch_secret
<1>2. /\ req'[q].at = req[q].at /\ req'[q].fetch = "answered" /\ req'[q].now = req[q].now
      /\ req'[q].began = req[q].began /\ req'[q].presented = req[q].presented
      /\ req'[q].current = req[q].current /\ req'[q].sound = (req[q].sound /\ (up \/ req[q].at \notin Logins))
      /\ req'[q].answer = v /\ req'[q].used = req[q].used
  BY <1>0, <1>1 DEF SlotRequest
<1>3. QED
  BY <1>1, <1>2 DEF SlotOf

(* The end of a lookup leaves the request idle, on to the log, or on to the
   previous slot. *)
LEMMA EndsShape ==
  ASSUME SlotBaseInv, NEW q \in Requests, NEW value, Looks(q, value), Ends(q, value)
  PROVE  /\ \A p \in Requests \ {q} : req'[p] = req[p]
         /\ req'[q].fetch = "none"
         /\ \/ req'[q] = IdleRequest
            \/ /\ req'[q].at \in {"log_current", "log_previous", "header"} /\ req'[q].began = req[q].began
               /\ req'[q].current \in {req[q].current, NoSecret}
               /\ surface = "preflight" => req[q].at # "auth_current"
            \/ /\ req'[q].at = "auth_previous" /\ req[q].at = "auth_current" /\ Authenticated
               /\ req'[q].began = req[q].began /\ req'[q].presented = req[q].presented
               /\ req'[q].sound = Sound(q, value)
               /\ \/ surface # "admin" /\ value # NoSecret /\ req'[q].current = value
                  \/ surface = "admin" /\ value # req[q].presented /\ req'[q].current = req[q].current
<1> DEFINE r == req[q]
<1> DEFINE s == Sound(q, value)
<1>0. req \in [Requests -> SlotRequest] /\ r \in SlotRequest /\ IdleRequest.fetch = "none"
  BY SlotTypes DEF SlotBaseInv, IdleRequest
<1>1. ASSUME NEW current, NEW lookup, GoesOn(q, current, lookup, s)
      PROVE  /\ \A p \in Requests \ {q} : req'[p] = req[p]
             /\ req'[q].fetch = "none" /\ req'[q].at = lookup /\ req'[q].current = current
             /\ req'[q].began = r.began /\ req'[q].presented = r.presented /\ req'[q].sound = s
  <2> HIDE DEF s
  <2> DEFINE n == [r EXCEPT !.current = current, !.at = lookup, !.fetch = "none", !.answer = NoSecret, !.now = 0,
                           !.sound = s]
  <2>1. n.fetch = "none" /\ n.at = lookup /\ n.current = current /\ n.began = r.began
        /\ n.presented = r.presented /\ n.sound = s
    BY <1>0 DEF SlotRequest
  <2>2. QED
    BY <1>0, <1>1, <2>1 DEF GoesOn
<1>2. CASE req' = [req EXCEPT ![q] = IdleRequest]
  BY <1>0, <1>2
<1>3. CASE Served(q, s)
  <2>1. ASSUME NEW slot \in Slots, surface \in {"status", "admin"},
               req' = [req EXCEPT ![q] = [IdleRequest EXCEPT !.at = "log_current", !.used = slot, !.began = r.began]]
        PROVE  /\ \A p \in Requests \ {q} : req'[p] = req[p]
               /\ req'[q].fetch = "none" /\ req'[q].at = "log_current" /\ req'[q].began = r.began
               /\ req'[q].current = NoSecret
    <3> DEFINE n == [IdleRequest EXCEPT !.at = "log_current", !.used = slot, !.began = r.began]
    <3>1. n.at = "log_current" /\ n.fetch = "none" /\ n.began = r.began /\ n.current = NoSecret
      BY DEF IdleRequest
    <3>2. QED
      BY <1>0, <2>1, <3>1
  <2>2. QED
    BY <1>2, <1>3, <2>1 DEF Served
<1>4. CASE r.at = "auth_current" /\ Authenticated
             /\ \/ surface # "admin" /\ value # NoSecret /\ GoesOn(q, value, "auth_previous", s)
                \/ surface = "admin" /\ value # r.presented /\ GoesOn(q, r.current, "auth_previous", s)
  BY <1>1, <1>4
<1>5. CASE r.at \in {"log_current", "log_previous"}
             /\ \E lookup \in {"log_previous", "header"} : GoesOn(q, r.current, lookup, s)
  BY <1>1, <1>5
<1>6. QED
  BY <1>2, <1>3, <1>4, <1>5 DEF Ends, TurnedAway, Finished

-----------------------------------------------------------------------------
(* Dates: entries and answers are dated before they were read. *)

SlotDatesInv == SlotBaseInv /\ CacheInv /\ AnswerInv

(* No step turns the clock back. *)
LEMMA ClockGoesOn ==
  ASSUME SlotBaseInv, [SlotNext]_slotVars
  PROVE  clock' \in Int /\ clock <= clock'
<1>1. clock' = clock \/ SlotTick
  BY OthersKeepSecrets DEF OperatorStep, set_previous, set_current, remove_previous
<1>2. clock \in Int
  BY DEF SlotBaseInv, SlotTypeOK
<1>3. QED
  BY <1>1, <1>2 DEF SlotTick

(* An entry of the cache stays found. *)
LEMMA EntryStays ==
  ASSUME SlotDatesInv, [SlotNext]_slotVars, NEW s \in Slots, cache'[s] = cache[s]
  PROVE  /\ cache'[s].value \in Secrets => Found(s, cache[s].value, cache[s].at)'
         /\ cache'[s].value = NoSecret => cache'[s] = NotCached
         /\ cache'[s].at <= clock'
<1> USE SecretSlotsAssumption DEF SlotDatesInv, SlotBaseInv
<1>1. PICK g, t : g = cache[s].value /\ t = cache[s].at
  OBVIOUS
<1>2. t \in Int /\ t <= clock /\ clock \in Int
  BY <1>1 DEF SlotTypeOK, CacheInv
<1>3. g \in Secrets => Found(s, g, t)'
  BY <1>1, <1>2, FoundStays DEF CacheInv
<1>4. cache'[s].value = g /\ cache'[s].at = t
  BY <1>1
<1>5. t <= clock'
  BY <1>2, ClockGoesOn
<1>6. g = NoSecret => cache[s] = NotCached
  BY <1>1 DEF CacheInv
<1>7. QED
  BY <1>1, <1>3, <1>4, <1>5, <1>6 DEF Found

(* So does an answer that a request has in hand. *)
LEMMA AnswerStays ==
  ASSUME SlotDatesInv, [SlotNext]_slotVars, NEW p \in Requests, req'[p] = req[p]
  PROVE  req'[p].fetch = "answered" /\ req'[p].answer # NoSecret =>
           Found(SlotOf(req[p], req[p].at), req[p].answer, req[p].now)'
<1> USE SecretSlotsAssumption DEF SlotDatesInv, SlotBaseInv
<1>1. PICK s, g, t : s = SlotOf(req[p], req[p].at) /\ g = req[p].answer /\ t = req[p].now
  OBVIOUS
<1>2. SUFFICES ASSUME req[p].fetch = "answered", g # NoSecret PROVE Found(s, g, t)'
  <2>1. SlotOf(req'[p], req'[p].at) = s /\ req'[p].answer = g /\ req'[p].now = t
    BY <1>1 DEF SlotOf
  <2>2. QED
    BY <1>1, <2>1 DEF Found, SlotOf
<1>3. req[p] \in SlotRequest
  BY SlotTypes
<1>4. s \in Slots /\ g \in Secrets /\ t \in Int
  BY <1>1, <1>2, <1>3, SlotsOfLookups DEF AskInv, SlotRequest
<1>5. QED
  BY <1>1, <1>2, <1>4, FoundStays DEF AnswerInv

(* A request that a step leaves alone keeps its dates. *)
LEMMA DatesStay ==
  ASSUME SlotDatesInv, [SlotNext]_slotVars, NEW p \in Requests, req'[p] = req[p],
         clock' = clock \/ SlotTick
  PROVE  /\ req'[p].at # "idle" => req'[p].began <= clock' /\ clock' <= req'[p].began + Processing
         /\ req'[p].fetch # "none" => req'[p].began <= req'[p].now /\ req'[p].now <= clock'
<1> USE SecretSlotsAssumption DEF SlotDatesInv, SlotBaseInv
<1>1. req[p].began \in Int /\ req[p].now \in Int /\ clock \in Int
  BY SlotTypes DEF SlotRequest, SlotTypeOK
<1>2. clock' = clock \/ (clock' = clock + 1 /\ (req[p].at # "idle" => clock < req[p].began + Processing))
  BY DEF SlotTick, InFlight
<1>3. QED
  BY <1>1, <1>2 DEF AnswerInv

(* One step keeps the cache and the requests dated. *)
LEMMA DatesStep ==
  ASSUME SlotDatesInv, [SlotNext]_slotVars
  PROVE  CacheInv' /\ AnswerInv'
<1> USE SecretSlotsAssumption DEF SlotDatesInv, SlotBaseInv
<1>0. /\ clock \in 0 .. LastTime /\ req \in [Requests -> SlotRequest]
      /\ \A p \in Requests : req[p].began \in Int /\ req[p].now \in Int /\ req[p] \in SlotRequest
      /\ IdleRequest.at = "idle" /\ IdleRequest.fetch = "none"
  BY SlotTypes DEF SlotTypeOK, SlotRequest, IdleRequest
<1>1. ASSUME cache' = cache PROVE CacheInv'
  BY <1>1, EntryStays DEF CacheInv
<1>2. ASSUME NEW p \in Requests, req'[p] = req[p], clock' = clock \/ SlotTick
      PROVE  /\ req'[p].at # "idle" => req'[p].began <= clock' /\ clock' <= req'[p].began + Processing
             /\ req'[p].fetch # "none" => req'[p].began <= req'[p].now /\ req'[p].now <= clock'
             /\ req'[p].fetch = "answered" /\ req'[p].answer # NoSecret =>
                  Found(SlotOf(req[p], req[p].at), req[p].answer, req[p].now)'
  BY <1>2, DatesStay, AnswerStays
<1>3. ASSUME cache' = cache, req' = req, clock' = clock \/ SlotTick PROVE CacheInv' /\ AnswerInv'
  BY <1>1, <1>2, <1>3 DEF AnswerInv
<1>4. ASSUME NEW q \in Requests, \A p \in Requests \ {q} : req'[p] = req[p], clock' = clock,
             req'[q].at # "idle" => req'[q].began <= clock /\ clock <= req'[q].began + Processing,
             req'[q].fetch # "none" => req'[q].began <= req'[q].now /\ req'[q].now <= clock,
             req'[q].fetch = "answered" /\ req'[q].answer # NoSecret =>
               Found(SlotOf(req[q], req[q].at), req[q].answer, req[q].now)'
      PROVE  AnswerInv'
  BY <1>2, <1>4 DEF AnswerInv
<1>5. CASE UNCHANGED slotVars \/ SlotTick \/ outage \/ recovery \/ OperatorStep
  <2>1. cache' = cache /\ req' = req /\ (clock' = clock \/ SlotTick)
    BY <1>5 DEF slotVars, SlotTick, outage, recovery, OperatorStep, set_previous, set_current, remove_previous
  <2>2. QED
    BY <1>3, <2>1
<1>6. ASSUME NEW q \in Requests, arrive(q) PROVE CacheInv' /\ AnswerInv'
  <2>1. /\ cache' = cache /\ clock' = clock /\ \A p \in Requests \ {q} : req'[p] = req[p]
        /\ req'[q].fetch = "none" /\ (req'[q].at = "idle" \/ req'[q].began = clock)
    BY <1>0, <1>6, ArriveShape
  <2>2. QED
    BY <1>0, <1>1, <1>4, <2>1
<1>7. ASSUME NEW q \in Requests, Asks(q) PROVE CacheInv' /\ AnswerInv'
  <2>1. cache' = cache /\ clock' = clock /\ req[q].at # "idle"
    BY <1>7 DEF Asks, Lookups
  <2>2. req[q].began <= clock /\ clock <= req[q].began + Processing
    BY <2>1 DEF AnswerInv
  <2>3. /\ \A p \in Requests \ {q} : req'[p] = req[p]
        /\ req'[q].at = req[q].at /\ req'[q].fetch = "asked" /\ req'[q].now = clock
        /\ req'[q].began = req[q].began
    BY <1>7, AsksShape
  <2>4. clock <= clock
    BY <1>0
  <2>5. AnswerInv'
    BY <1>4, <2>1, <2>2, <2>3, <2>4
  <2>6. QED
    BY <1>1, <2>1, <2>5
<1>8. ASSUME NEW q \in Requests, fetch_secret(q) PROVE CacheInv' /\ AnswerInv'
  <2>1. cache' = cache /\ clock' = clock /\ req[q].at # "idle" /\ req[q].at \in Lookups /\ req[q].fetch = "asked"
    BY <1>8 DEF fetch_secret, AskInv, Lookups
  <2>2. /\ req[q].began <= clock /\ clock <= req[q].began + Processing
        /\ req[q].began <= req[q].now /\ req[q].now <= clock
    BY <2>1 DEF AnswerInv
  <2>3. req'[q].answer # NoSecret => Found(SlotOf(req[q], req[q].at), req[q].answer, req[q].now)'
    <3>1. PICK s, g, t : s = SlotOf(req[q], req[q].at) /\ g = secret[s] /\ t = req[q].now
      OBVIOUS
    <3>2. s \in Slots /\ t \in Int
      BY <1>0, <2>1, <3>1, SlotsOfLookups
    <3>3. SUFFICES ASSUME req'[q].answer # NoSecret PROVE Found(s, g, t)'
      <4>1. /\ SlotOf(req'[q], req'[q].at) = s /\ req'[q].now = t
            /\ req'[q].answer # NoSecret => req'[q].answer = g
        BY <1>8, <3>1, AnswersShape
      <4>2. QED
        BY <4>1 DEF Found, SlotOf
    <3>4. g # NoSecret /\ g \in Secrets
      BY <1>8, <3>1, <3>2, <3>3, AnswersShape DEF SlotTypeOK
    <3>5. Found(s, g, t)
      BY <2>2, <3>1, <3>2, <3>4, FoundNow
    <3>6. QED
      BY <3>2, <3>4, <3>5, FoundStays
  <2>4. QED
    BY <1>0, <1>1, <1>4, <1>8, <2>1, <2>2, <2>3, AnswersShape
<1>9. ASSUME NEW q \in Requests, NEW value, Looks(q, value), Ends(q, value) PROVE CacheInv' /\ AnswerInv'
  <2>1. clock' = clock /\ req[q].at \in Lookups /\ req[q].at # "idle"
    BY <1>9 DEF Looks, Lookups
  <2>2. AnswerInv'
    <3>1. req[q].began <= clock /\ clock <= req[q].began + Processing
      BY <2>1 DEF AnswerInv
    <3>2. /\ \A p \in Requests \ {q} : req'[p] = req[p]
          /\ req'[q].fetch = "none" /\ (req'[q].at = "idle" \/ req'[q].began = req[q].began)
      BY <1>0, <1>9, EndsShape
    <3>3. QED
      BY <1>0, <1>4, <2>1, <3>1, <3>2
  <2>3. CacheInv'
    <3>1. CASE cache' = cache
      BY <1>1, <3>1
    <3>2. CASE cache' # cache
      <4>1. PICK s, g, t : s = SlotOf(req[q], req[q].at) /\ g = req[q].answer /\ t = req[q].now
        OBVIOUS
      <4>2. /\ req[q].fetch = "answered" /\ g # NoSecret /\ (value = g \/ value = Unhashed)
            /\ cache' = [cache EXCEPT ![s] = [value |-> value, at |-> t]]
        BY <1>9, <3>2, <4>1 DEF Looks
      <4>3. s \in Slots /\ g \in Secrets /\ t \in Int
        BY <1>0, <2>1, <4>1, <4>2, SlotsOfLookups DEF SlotRequest
      <4>4. Found(s, g, t)' /\ t <= clock
        <5>1. Found(s, g, t)
          BY <4>1, <4>2, <4>3 DEF AnswerInv
        <5>2. QED
          BY <4>3, <5>1, FoundStays DEF Found
      <4>5. cache'[s].value = value /\ cache'[s].at = t
        BY <4>2, <4>3 DEF SlotTypeOK
      <4>6. \A u \in Slots \ {s} : cache'[u] = cache[u]
        BY <4>2, <4>3 DEF SlotTypeOK
      <4>7. Unhashed \notin Secrets /\ Unhashed # NoSecret
        BY DEF Unhashed, Secrets, NoSecret
      <4>8. \A u \in Slots \ {s} :
              /\ cache'[u].value \in Secrets => Found(u, cache[u].value, cache[u].at)'
              /\ cache'[u].value = NoSecret => cache'[u] = NotCached
              /\ cache'[u].at <= clock'
        BY <4>6, EntryStays
      <4>9. value \in Secrets => value = g
        BY <4>2, <4>7
      <4>10. value # NoSecret
        BY <4>2, <4>7
      <4>11. /\ cache'[s].value \in Secrets => Found(s, cache[s].value, cache[s].at)'
             /\ cache'[s].value = NoSecret => cache'[s] = NotCached
             /\ cache'[s].at <= clock'
        BY <2>1, <4>4, <4>5, <4>9, <4>10 DEF Found
      <4>12. QED
        BY <4>8, <4>11 DEF CacheInv
    <3>3. QED
      BY <3>1, <3>2
  <2>4. QED
    BY <2>2, <2>3
<1>10. QED
  BY <1>5, <1>6, <1>7, <1>8, <1>9, WorkerStep DEF SlotNext, OperatorStep

-----------------------------------------------------------------------------
(* The value of a lookup. *)

SlotLoginInv == SlotDatesInv /\ LoginInv

(* A value was found no longer before the request began than a cache
   remembers. *)
LEMMA LookedUp ==
  ASSUME SlotDatesInv, NEW q \in Requests, NEW value \in Secrets, Looks(q, value)
  PROVE  \E t \in Int : /\ Found(SlotOf(req[q], req[q].at), value, t)
                        /\ req[q].began <= t + Grace
<1> USE SecretSlotsAssumption DEF SlotDatesInv, SlotBaseInv
<1> DEFINE s == SlotOf(req[q], req[q].at)
<1>0. /\ req[q] \in SlotRequest /\ req[q].at \in Lookups /\ s \in Slots /\ req[q].at # "idle"
      /\ clock \in Int /\ req[q].began \in Int /\ req[q].now \in Int /\ Grace \in Nat
      /\ req[q].began <= clock
  <2>1. req[q].at \in Lookups /\ req[q] \in SlotRequest
    BY SlotTypes DEF Looks
  <2>2. req[q].at # "idle"
    BY <2>1 DEF Lookups
  <2>3. QED
    BY <2>1, <2>2, SlotsOfLookups DEF SlotRequest, Grace, SlotTypeOK, AnswerInv
<1>1. value # NoSecret /\ value # Unhashed
  BY DEF Secrets, NoSecret, Unhashed
<1>2. CASE Fresh(s) /\ value = cache[s].value
  <2>1. /\ surface # "internal" /\ clock - cache[s].at \in 0 .. CacheTtl - 1 /\ cache[s].at \in Int
        /\ Grace = CacheTtl - 1
    BY <1>0, <1>2 DEF Fresh, Grace, SlotTypeOK
  <2>2. Found(s, value, cache[s].at)
    BY <1>0, <1>2 DEF CacheInv
  <2>3. req[q].began <= cache[s].at + Grace
    BY <1>0, <2>1
  <2>4. QED
    BY <2>1, <2>2, <2>3
<1>3. CASE req[q].fetch = "answered" /\ value = req[q].answer
  <2>1. Found(s, value, req[q].now) /\ req[q].began <= req[q].now
    BY <1>1, <1>3 DEF AnswerInv
  <2>2. req[q].began <= req[q].now + Grace
    BY <1>0, <2>1
  <2>3. QED
    BY <1>0, <2>1, <2>2
<1>4. QED
  BY <1>1, <1>2, <1>3 DEF Looks

(* An entry that is served holds a secret. *)
LEMMA FreshIsSet ==
  ASSUME SlotDatesInv, NEW s \in Slots, Fresh(s)
  PROVE  cache[s].value # NoSecret
<1> USE SecretSlotsAssumption DEF SlotDatesInv, SlotBaseInv
<1>1. clock \in 0 .. LastTime /\ clock - cache[s].at \in 0 .. CacheTtl - 1
  BY DEF Fresh, SlotTypeOK
<1>2. cache[s].value = NoSecret => cache[s].at = - 2 * CacheTtl
  BY DEF CacheInv, NotCached
<1>3. QED
  BY <1>1, <1>2

(* A secret that was found is found while it is valid, or briefly after. *)
LEMMA LookedUpIsValid ==
  ASSUME SlotDatesInv, NEW q \in Requests, NEW value \in Secrets, Looks(q, value)
  PROVE  req[q].began <= until[value] + Grace
<1> USE SecretSlotsAssumption DEF SlotDatesInv, SlotBaseInv
<1>2. PICK t \in Int : Found(SlotOf(req[q], req[q].at), value, t) /\ req[q].began <= t + Grace
  BY LookedUp
<1>3. until[value] \in Int /\ Grace \in Nat /\ req[q].began \in Int
  BY SlotTypes DEF SlotTypeOK, Grace, SlotRequest, Never
<1>4. QED
  BY <1>2, <1>3 DEF Found

(* The current slot has no value only when the store failed. *)
LEMMA CurrentIsSet ==
  ASSUME SlotLoginInv, NEW q \in Requests, Looks(q, NoSecret), req[q].at = "auth_current"
  PROVE  ~ req[q].sound
<1> USE DEF SlotLoginInv, SlotDatesInv, SlotBaseInv
<1>1. SlotOf(req[q], req[q].at) \in Slots
  BY SlotTypes, SlotsOfLookups DEF Looks
<1>2. ~ (Fresh(SlotOf(req[q], req[q].at)) /\ NoSecret = cache[SlotOf(req[q], req[q].at)].value)
  BY <1>1, FreshIsSet
<1>3. NoSecret # Unhashed
  BY DEF NoSecret, Unhashed
<1>4. QED
  BY <1>2, <1>3 DEF Looks, LoginInv, Knows

(* No lookup of a login that went well finds less than a secret, in the
   current slot or in a cache. *)
LEMMA SoundIsSecret ==
  ASSUME SlotLoginInv, NEW q \in Requests, NEW value, Looks(q, value), Sound(q, value),
         req[q].at \in Logins, value # NoSecret
  PROVE  value \in Secrets
<1>1. value \in Values
  BY LooksType DEF SlotLoginInv, SlotDatesInv, SlotBaseInv
<1>2. QED
  BY <1>1 DEF Sound, Values

(* A credential in a slot for long enough that is not what the current slot
   was found to hold is an older one. *)
LEMMA CurrentIsNewer ==
  ASSUME SlotLoginInv, NEW q \in Requests, NEW value, Looks(q, value), req[q].at = "auth_current",
         Sound(q, value), Settled(req[q]), value # req[q].presented
  PROVE  req[q].presented < secret["current"]
<1> USE SecretSlotsAssumption DEF SlotLoginInv, SlotDatesInv, SlotBaseInv
<1>1. value # NoSecret
  BY CurrentIsSet DEF Sound
<1>2. /\ req[q] \in SlotRequest /\ req[q].at \in Lookups /\ req[q].presented \in 1 .. secret["current"]
      /\ secret["current"] \in 1 .. MaxSecret
  BY SlotTypes DEF Looks, LoginInv, Knows, SlotTypeOK, Secrets
<1>3. SlotOf(req[q], req[q].at) = "current"
  BY <1>2, SlotsOfLookups
<1>4. value \in Secrets
  BY <1>1, SoundIsSecret DEF Logins
<1>5. PICK t \in Int : Found("current", value, t) /\ req[q].began <= t + Grace
  BY <1>3, <1>4, LookedUp
<1>6. req[q].presented \in Secrets /\ req[q].presented \in Int /\ value \in Int /\ req[q].began \in Int
  BY <1>2, <1>4 DEF Secrets, SlotRequest
<1>7. since[req[q].presented] \in Int /\ Grace \in Int /\ Grace < CacheTtl
  BY <1>6 DEF SlotTypeOK, Grace, Never
<1>8. SUFFICES ASSUME req[q].presented = secret["current"] PROVE FALSE
  BY <1>2
<1>9. since[req[q].presented] < t
  <2>1. since[req[q].presented] + CacheTtl <= req[q].began
    BY <1>8 DEF Settled
  <2>2. QED
    BY <1>5, <1>6, <1>7, <2>1
<1>10. req[q].presented <= value /\ value <= secret["current"]
  BY <1>5, <1>6, <1>9 DEF Found
<1>11. QED
  BY <1>2, <1>6, <1>8, <1>10

(* Such a credential that the previous slot was not found to hold either is
   retired, for an operator who lets the caches expire. *)
LEMMA PreviousIsRetired ==
  ASSUME SlotLoginInv, NEW q \in Requests, NEW value, Looks(q, value), req[q].at = "auth_previous",
         Sound(q, value), Settled(req[q]), req[q].presented \notin {value, req[q].current},
         CacheTtl <= Patience
  PROVE  until[req[q].presented] # Never
<1> USE SecretSlotsAssumption DEF SlotLoginInv, SlotDatesInv, SlotBaseInv
<1> DEFINE g == req[q].presented
<1>1. /\ req[q] \in SlotRequest /\ req[q].at \in Lookups /\ g \in 1 .. secret["current"]
      /\ secret["current"] \in 1 .. MaxSecret /\ g \in Secrets /\ g < secret["current"] /\ g # NoSecret
  <2>1. req[q] \in SlotRequest /\ req[q].at \in Lookups /\ secret["current"] \in 1 .. MaxSecret
    BY SlotTypes DEF Looks, SlotTypeOK, Secrets
  <2>2. g \in 1 .. secret["current"] /\ g < secret["current"]
    BY DEF LoginInv, Knows, Sound
  <2>3. QED
    BY <2>1, <2>2 DEF Secrets, NoSecret
<1>2. SlotOf(req[q], req[q].at) = "previous" /\ value # Unhashed
  BY <1>1, SlotsOfLookups DEF Sound, Logins
<1>3. CASE req[q].fetch = "answered" /\ value = req[q].answer
  BY <1>3 DEF LoginInv, Knows, Sound
<1>4. CASE Fresh("previous") /\ value = cache["previous"].value
  <2>1. SUFFICES ASSUME until[g] = Never PROVE FALSE
    OBVIOUS
  <2>2. g = secret["previous"] /\ g = secret["current"] - 1 /\ rotating
    BY <1>1, <2>1 DEF OperatorInv
  <2>3. value \in Secrets
    <3>1. value # NoSecret
      BY <1>4, FreshIsSet DEF Slots
    <3>2. QED
      BY <3>1, SoundIsSecret DEF Logins
  <2>4. Found("previous", value, cache["previous"].at)
    BY <1>4, <2>3 DEF Slots, CacheInv
  <2>5. value \in Int /\ cache["previous"].at \in Int /\ until[value] \in Int /\ clock \in Int
    BY <1>4, <2>3 DEF Slots, SlotTypeOK, Never, Secrets
  <2>6. until[value] # Never /\ value # g
    BY <2>2, <2>4 DEF Found
  <2>7. value < secret["current"]
    BY <2>3, <2>6 DEF OperatorInv
  <2>8. value < secret["current"] - 1
    BY <1>1, <2>2, <2>5, <2>6, <2>7
  <2>9. until[value] + Patience <= clock
    BY <2>2, <2>3, <2>6, <2>8 DEF OperatorInv
  <2>10. clock - cache["previous"].at <= CacheTtl - 1 /\ cache["previous"].at <= until[value]
    BY <1>4, <2>4, <2>5 DEF Fresh, Found
  <2>11. QED
    BY <2>5, <2>9, <2>10
<1>5. QED
  BY <1>2, <1>3, <1>4 DEF Looks

-----------------------------------------------------------------------------
(* What a request that authenticates knows. *)

(* The history goes on: what changes for a secret that was issued, changes
   now, and a secret enters or leaves a slot now. *)
LEMMA HistoryGoesOn ==
  ASSUME SlotBaseInv, [SlotNext]_slotVars, NEW g \in Secrets
  PROVE  /\ secret["current"] <= secret'["current"]
         /\ until'[g] = until[g] \/ until'[g] = clock \/ until'[g] = Never
         /\ g <= secret["current"] =>
              \/ since'[g] = clock \/ since'[g] = Never
              \/ /\ since'[g] = since[g] /\ until'[g] = until[g]
                 /\ g = secret["current"] => secret'["current"] = secret["current"]
<1> USE SecretSlotsAssumption DEF SlotBaseInv
<1>0. /\ secret \in [Slots -> Secrets \cup {NoSecret}] /\ secret["current"] \in 1 .. MaxSecret
      /\ since \in [Secrets -> - Patience .. Never] /\ until \in [Secrets -> 0..Never]
      /\ Secrets = 1 .. MaxSecret /\ NoSecret = 0
  BY DEF SlotTypeOK, Secrets, NoSecret
<1>1. CASE UNCHANGED operatorVars
  BY <1>0, <1>1 DEF operatorVars
<1>2. CASE set_previous
  <2>1. /\ since' = [since EXCEPT ![secret["current"] - 1] = clock]
        /\ until' = [until EXCEPT ![secret["current"] - 1] = Never]
        /\ secret'["current"] = secret["current"]
    BY <1>0, <1>2 DEF set_previous, Slots
  <2>2. \/ since'[g] = clock /\ until'[g] = Never
        \/ since'[g] = since[g] /\ until'[g] = until[g]
    BY <1>0, <2>1
  <2>3. QED
    BY <1>0, <2>1, <2>2
<1>3. CASE set_current
  <2>1. /\ since' = [since EXCEPT ![secret["current"] + 1] = clock, ![secret["current"]] = Never]
        /\ until' = [until EXCEPT ![secret["current"]] = clock]
        /\ secret'["current"] = secret["current"] + 1
    BY <1>0, <1>3 DEF set_current, Slots
  <2>2. /\ g = secret["current"] => since'[g] = Never /\ until'[g] = clock
        /\ g # secret["current"] => until'[g] = until[g]
        /\ g < secret["current"] => since'[g] = since[g]
    BY <1>0, <2>1
  <2>3. QED
    BY <1>0, <2>1, <2>2
<1>4. CASE remove_previous
  <2>1. /\ since' = [since EXCEPT ![secret["previous"]] = Never]
        /\ until' = [until EXCEPT ![secret["previous"]] = clock]
        /\ secret'["current"] = secret["current"]
    BY <1>0, <1>4 DEF remove_previous, Slots
  <2>2. \/ since'[g] = Never /\ until'[g] = clock
        \/ since'[g] = since[g] /\ until'[g] = until[g]
    BY <1>0, <2>1
  <2>3. QED
    BY <1>0, <2>1, <2>2
<1>5. QED
  BY <1>1, <1>2, <1>3, <1>4, OthersKeepSecrets DEF OperatorStep

(* A request that a step leaves alone knows what it knew. *)
LEMMA KnowledgeStays ==
  ASSUME SlotLoginInv, [SlotNext]_slotVars, NEW p \in Requests, req'[p] = req[p]
  PROVE  Knows(p)'
<1> USE SecretSlotsAssumption DEF SlotLoginInv, SlotDatesInv, SlotBaseInv
<1>1. PICK g, h, b : g = req[p].presented /\ h = req[p].current /\ b = req[p].began
  OBVIOUS
<1>2. req[p] \in SlotRequest /\ h \in Values /\ b \in Int
  BY <1>1, SlotTypes DEF SlotRequest
<1>3. surface' = surface
  BY DEF SlotNext, slotVars, SlotTick, outage, recovery, set_previous, set_current, remove_previous, arrive,
         get_or_fetch_hashed, fetch_secret, fetched
<1>4. Knows(p)
  BY DEF Knows, LoginInv
<1>5. secret["current"] \in 1 .. MaxSecret /\ secret'["current"] \in 1 .. MaxSecret
      /\ secret["current"] <= secret'["current"]
  <2>1. SlotTypeOK'
    BY SlotTypeStep
  <2>2. 1 \in Secrets
    BY DEF Secrets
  <2>3. QED
    BY <2>1, <2>2, HistoryGoesOn DEF SlotTypeOK, Secrets
<1>6. req[p].at \in {"auth_current", "auth_previous"} =>
        /\ g \in 1 .. secret["current"] /\ g \in 1 .. secret'["current"] /\ g \in Secrets /\ g \in Int
        /\ b <= clock
  BY <1>1, <1>4, <1>5 DEF Knows, Secrets, AnswerInv
<1>7. ASSUME req[p].at = "auth_previous", h \in Secrets PROVE b <= until'[h] + Grace'
  <2>1. /\ until[h] \in Int /\ clock \in Int /\ Never \in Int /\ clock <= Never
        /\ Grace \in Nat /\ Grace' = Grace /\ b <= clock
    BY <1>2, <1>3, <1>6, <1>7 DEF SlotTypeOK, Grace, Never
  <2>2. b <= until[h] + Grace
    BY <1>1, <1>4, <1>7 DEF Knows
  <2>3. until'[h] = until[h] \/ until'[h] = clock \/ until'[h] = Never
    BY <1>7, HistoryGoesOn
  <2>4. QED
    BY <1>2, <2>1, <2>2, <2>3
<1>8. ASSUME req[p].at = "auth_previous", h # g, req[p].sound,
             since'[g] < b, g = secret'["current"] => since'[g] + CacheTtl <= b
      PROVE  /\ g < secret'["current"]
             /\ req[p].fetch = "answered" /\ req[p].answer # g => until'[g] # Never
  <2>1. /\ g \in Secrets /\ g <= secret["current"] /\ g \in Int /\ b <= clock
        /\ clock \in Int /\ Never \in Int /\ clock < Never
    BY <1>5, <1>6, <1>8 DEF SlotTypeOK, Never
  <2>2. since'[g] # clock /\ since'[g] # Never
    BY <1>2, <1>8, <2>1
  <2>3. /\ since'[g] = since[g] /\ until'[g] = until[g]
        /\ g = secret["current"] => secret'["current"] = secret["current"]
    BY <2>1, <2>2, HistoryGoesOn
  <2>4. Settled(req[p])
    BY <1>1, <1>8, <2>3 DEF Settled
  <2>5. g < secret["current"] /\ (req[p].fetch = "answered" /\ req[p].answer # g => until[g] # Never)
    BY <1>1, <1>4, <1>8, <2>4 DEF Knows
  <2>6. QED
    BY <1>5, <2>1, <2>3, <2>5
<1>9. QED
  BY <1>1, <1>3, <1>4, <1>6, <1>7, <1>8 DEF Knows, Settled

(* One step keeps what requests know. *)
LEMMA LoginStep ==
  ASSUME SlotLoginInv, [SlotNext]_slotVars
  PROVE  LoginInv'
<1> USE SecretSlotsAssumption DEF SlotLoginInv, SlotDatesInv, SlotBaseInv
<1>0. /\ req \in [Requests -> SlotRequest] /\ \A p \in Requests : req[p] \in SlotRequest
      /\ IdleRequest.at = "idle" /\ IdleRequest.current = NoSecret
  BY SlotTypes DEF IdleRequest
<1>1. ASSUME \A p \in Requests : Knows(p)' PROVE LoginInv'
  BY <1>1 DEF LoginInv, Knows
<1>2. ASSUME req' = req PROVE LoginInv'
  BY <1>1, <1>2, KnowledgeStays
<1>3. ASSUME NEW q \in Requests, \A p \in Requests \ {q} : req'[p] = req[p], Knows(q)' PROVE LoginInv'
  BY <1>1, <1>3, KnowledgeStays
<1>4. CASE UNCHANGED slotVars \/ SlotTick \/ outage \/ recovery \/ OperatorStep
  <2>1. req' = req
    BY <1>4 DEF slotVars, SlotTick, outage, recovery, OperatorStep, set_previous, set_current, remove_previous
  <2>2. QED
    BY <1>2, <2>1
<1>5. ASSUME NEW q \in Requests, arrive(q) PROVE LoginInv'
  <2>1. /\ UNCHANGED operatorVars /\ \A p \in Requests \ {q} : req'[p] = req[p]
        /\ req'[q].fetch = "none" /\ req'[q].current = NoSecret
        /\ \/ req'[q].at = "auth_current" /\ req'[q].presented \in 1 .. secret["current"]
           \/ req'[q].at = "idle"
    BY <1>0, <1>5, ArriveShape
  <2>2. Knows(q)'
    BY <2>1 DEF Knows, operatorVars
  <2>3. QED
    BY <1>3, <2>1, <2>2
<1>6. ASSUME NEW q \in Requests, Asks(q) PROVE LoginInv'
  <2>1. UNCHANGED <<surface, secret, since, until>>
    BY <1>6 DEF Asks, operatorVars
  <2>2. /\ \A p \in Requests \ {q} : req'[p] = req[p]
        /\ req'[q].at = req[q].at /\ req'[q].fetch = "asked" /\ req'[q].began = req[q].began
        /\ req'[q].presented = req[q].presented /\ req'[q].current = req[q].current
        /\ req'[q].sound = req[q].sound
    BY <1>6, AsksShape
  <2>3. Knows(q)'
    <3>1. Knows(q)
      BY DEF LoginInv, Knows
    <3>2. QED
      BY <2>1, <2>2, <3>1 DEF Knows, Settled, Grace
  <2>4. QED
    BY <1>3, <2>2, <2>3
<1>7. ASSUME NEW q \in Requests, fetch_secret(q) PROVE LoginInv'
  <2>1. UNCHANGED <<surface, secret, since, until>>
    BY <1>7 DEF fetch_secret, operatorVars
  <2>2. /\ \A p \in Requests \ {q} : req'[p] = req[p]
        /\ req'[q].at = req[q].at /\ req'[q].fetch = "answered" /\ req'[q].began = req[q].began
        /\ req'[q].presented = req[q].presented /\ req'[q].current = req[q].current
        /\ req'[q].sound = (req[q].sound /\ (up \/ req[q].at \notin Logins))
        /\ req'[q].answer = IF up THEN secret[SlotOf(req[q], req[q].at)] ELSE NoSecret
    BY <1>7, AnswersShape
  <2>3. req[q].at \in Lookups /\ req[q] \in SlotRequest /\ up \in BOOLEAN
    BY <1>0, <1>7 DEF fetch_secret, AskInv, SlotTypeOK
  <2>4. Knows(q)
    BY DEF LoginInv, Knows
  <2>l. {"auth_current", "auth_previous"} = Logins
    BY DEF Logins
  <2>5. req[q].at = "auth_current" /\ up => req'[q].answer # NoSecret
    <3>1. req[q].at = "auth_current" => SlotOf(req[q], req[q].at) = "current"
      BY <2>3, SlotsOfLookups
    <3>2. secret["current"] # NoSecret
      BY DEF SlotTypeOK, Secrets, NoSecret
    <3>3. QED
      BY <2>2, <3>1, <3>2
  <2>6. ASSUME req[q].at = "auth_previous", up, req[q].presented < secret["current"],
               req'[q].answer # req[q].presented
        PROVE  until[req[q].presented] # Never
    <3>1. req[q].presented # secret["previous"]
      BY <2>2, <2>3, <2>6, SlotsOfLookups
    <3>2. req[q].presented \in Secrets /\ secret["current"] \in Secrets
      <4>1. req[q].presented \in 1 .. secret["current"]
        BY <2>4, <2>6 DEF Knows
      <4>2. secret["current"] \in 1 .. MaxSecret
        BY DEF SlotTypeOK, Secrets
      <4>3. QED
        BY <4>1, <4>2 DEF Secrets
    <3>3. req[q].presented \in Int /\ secret["current"] \in Int
      BY <3>2 DEF Secrets
    <3>4. QED
      BY <2>6, <3>1, <3>2, <3>3 DEF OperatorInv
  <2>7. Knows(q)'
    BY <2>1, <2>2, <2>4, <2>l, <2>5, <2>6 DEF Knows, Settled, Grace
  <2>8. QED
    BY <1>3, <2>2, <2>7
<1>8. ASSUME NEW q \in Requests, NEW value, Looks(q, value), Ends(q, value) PROVE LoginInv'
  <2>1. UNCHANGED <<surface, secret, since, until>>
    BY <1>8 DEF Looks, operatorVars
  <2>2. Knows(q)
    BY DEF LoginInv, Knows
  <2>3. \A p \in Requests \ {q} : req'[p] = req[p]
    BY <1>8, EndsShape
  <2>4. CASE /\ req'[q].at \in {"idle", "log_current", "log_previous", "header"}
             /\ req'[q].fetch = "none" /\ req'[q].current \in {req[q].current, NoSecret}
    <3>1. Knows(q)'
      BY <2>1, <2>2, <2>4 DEF Knows
    <3>2. QED
      BY <1>3, <2>3, <3>1
  <2>5. CASE /\ req'[q].fetch = "none"
             /\ req'[q].at = "auth_previous" /\ req[q].at = "auth_current" /\ Authenticated
             /\ req'[q].began = req[q].began /\ req'[q].presented = req[q].presented
             /\ req'[q].sound = Sound(q, value)
             /\ \/ surface # "admin" /\ value # NoSecret /\ req'[q].current = value
                \/ surface = "admin" /\ value # req[q].presented /\ req'[q].current = req[q].current
    <3>1. req'[q].current \in Secrets => req[q].began <= until[req'[q].current] + Grace
      <4>1. (surface = "admin" => req[q].current = NoSecret) /\ NoSecret \notin Secrets
        BY <2>2 DEF Knows, NoSecret, Secrets
      <4>2. QED
        BY <1>8, <2>5, <4>1, LookedUpIsValid
    <3>2. req'[q].current # req[q].presented /\ Settled(req[q]) /\ Sound(q, value) =>
            req[q].presented < secret["current"]
      BY <1>8, <2>5, CurrentIsNewer
    <3>3. req[q].presented \in 1 .. secret["current"] /\ (surface = "admin" => req[q].current = NoSecret)
      BY <2>2, <2>5 DEF Knows
    <3>4. Knows(q)'
      BY <2>1, <2>5, <3>1, <3>2, <3>3 DEF Knows, Settled, Grace
    <3>5. QED
      BY <1>3, <2>3, <3>4
  <2>6. QED
    BY <1>0, <1>8, <2>4, <2>5, EndsShape DEF IdleRequest
<1>9. QED
  BY <1>4, <1>5, <1>6, <1>7, <1>8, WorkerStep DEF SlotNext, OperatorStep

-----------------------------------------------------------------------------
(* The verdicts on credentials. *)

(* Where a decision can come from: a preflight's cached verdict, or the end of
   a lookup. *)
LEMMA DecisionStep ==
  ASSUME SlotBaseInv, [SlotNext]_slotVars
  PROVE  \/ UNCHANGED slotVars
         \/ outcome' = NoOutcome
         \/ \E q \in Requests : arrive(q) /\ surface = "preflight"
         \/ \E q \in Requests : \E value : Looks(q, value) /\ Ends(q, value)
<1>1. CASE SlotTick \/ outage \/ recovery \/ OperatorStep
  BY <1>1 DEF SlotTick, outage, recovery, OperatorStep, set_previous, set_current, remove_previous
<1>2. ASSUME NEW q \in Requests, arrive(q) PROVE outcome' = NoOutcome \/ surface = "preflight"
  BY <1>2, ArriveShape
<1>3. ASSUME NEW q \in Requests, Asks(q) \/ fetch_secret(q) PROVE outcome' = NoOutcome
  BY <1>3 DEF Asks, fetch_secret
<1>4. QED
  BY <1>1, <1>2, <1>3, WorkerStep DEF SlotNext, OperatorStep

(* What the decision at the end of a lookup says. *)
LEMMA DecisionShape ==
  ASSUME NEW q \in Requests, NEW value, Ends(q, value), outcome'.verdict # "none"
  PROVE  /\ req[q].at \in {"auth_current", "auth_previous"}
         /\ outcome'.presented = req[q].presented /\ outcome'.began = req[q].began
         /\ outcome'.sound = Sound(q, value)
         /\ \/ /\ outcome'.verdict = "accepted"
               /\ Authenticated => \/ value = req[q].presented
                                   \/ req[q].at = "auth_previous" /\ req[q].current = req[q].presented
               /\ surface = "preflight" => req[q].at = "auth_current" /\ value # NoSecret
            \/ /\ outcome'.verdict = "denied"
               /\ Authenticated => \/ req[q].at = "auth_current" /\ value = NoSecret
                                   \/ /\ req[q].at = "auth_previous" /\ value # req[q].presented
                                      /\ surface = "admin" \/ req[q].current # req[q].presented
               /\ surface = "preflight" => req[q].at = "auth_current" /\ value = NoSecret
<1> DEFINE sd == Sound(q, value)
<1>1. NoOutcome.verdict = "none"
  BY DEF NoOutcome
<1>2. ~ Finished(q) /\ \A current, lookup : ~ GoesOn(q, current, lookup, sd)
  BY <1>1 DEF Finished, GoesOn
<1>3. CASE Served(q, sd)
  <2>1. /\ req[q].at \in {"auth_current", "auth_previous"} /\ outcome'.verdict = "accepted"
        /\ outcome'.presented = req[q].presented /\ outcome'.began = req[q].began
        /\ outcome'.sound = Sound(q, value)
    BY <1>3 DEF Served
  <2>2. ~ TurnedAway(q, sd)
    BY <2>1 DEF TurnedAway
  <2>3. QED
    BY <1>2, <2>1, <2>2 DEF Ends
<1>4. CASE TurnedAway(q, sd)
  <2>1. /\ req[q].at \in {"auth_current", "auth_previous"} /\ outcome'.verdict = "denied"
        /\ outcome'.presented = req[q].presented /\ outcome'.began = req[q].began
        /\ outcome'.sound = Sound(q, value)
    BY <1>4 DEF TurnedAway
  <2>2. ~ Served(q, sd)
    <3>1. Served(q, sd) => outcome' = [verdict |-> "accepted", presented |-> req[q].presented,
                                   began |-> req[q].began, sound |-> sd]
      BY DEF Served
    <3>2. QED
      BY <2>1, <3>1
  <2>3. QED
    BY <1>2, <2>1, <2>2 DEF Ends
<1>5. QED
  BY <1>2, <1>3, <1>4 DEF Ends

(* A step that accepts a credential accepts one that is valid, or was when a
   cache remembered it. *)
LEMMA RetiredRefusedStep ==
  ASSUME SlotLoginInv, [SlotNext]_slotVars, RetiredRefused
  PROVE  RetiredRefused'
<1> USE SecretSlotsAssumption DEF SlotLoginInv, SlotDatesInv, SlotBaseInv
<1>1. CASE UNCHANGED slotVars
  BY <1>1 DEF slotVars, operatorVars, RetiredRefused, Authenticated
<1>2. CASE outcome' = NoOutcome
  BY <1>2 DEF NoOutcome, RetiredRefused
<1>3. ASSUME NEW q \in Requests, arrive(q), surface = "preflight" PROVE RetiredRefused'
  <2>1. surface' = surface
    BY <1>3 DEF arrive
  <2>2. QED
    BY <1>3, <2>1 DEF RetiredRefused, Authenticated
<1>4. ASSUME NEW q \in Requests, NEW value, Looks(q, value), Ends(q, value) PROVE RetiredRefused'
  <2>1. UNCHANGED <<surface, until>>
    BY <1>4 DEF Looks, operatorVars
  <2>2. SUFFICES ASSUME Authenticated, outcome'.verdict = "accepted"
                 PROVE  outcome'.began <= until[outcome'.presented] + Grace
    BY <2>1 DEF RetiredRefused, Authenticated, Grace
  <2>3. /\ req[q].at \in {"auth_current", "auth_previous"}
        /\ outcome'.presented = req[q].presented /\ outcome'.began = req[q].began
        /\ \/ value = req[q].presented
           \/ req[q].at = "auth_previous" /\ req[q].current = req[q].presented
    BY <1>4, <2>2, DecisionShape
  <2>4. Knows(q)
    BY DEF LoginInv
  <2>5. req[q].presented \in Secrets
    BY <2>3, <2>4 DEF Knows, SlotTypeOK, Secrets
  <2>6. CASE value = req[q].presented
    BY <1>4, <2>3, <2>5, <2>6, LookedUpIsValid
  <2>7. CASE req[q].at = "auth_previous" /\ req[q].current = req[q].presented
    BY <2>3, <2>4, <2>5, <2>7 DEF Knows
  <2>8. QED
    BY <2>3, <2>6, <2>7
<1>5. QED
  BY <1>1, <1>2, <1>3, <1>4, DecisionStep

(* A step that refuses a credential refuses one that is new, retired, or
   could not be read. *)
LEMMA OverlapAcceptedStep ==
  ASSUME SlotLoginInv, [SlotNext]_slotVars, OverlapAccepted, CacheTtl <= Patience
  PROVE  OverlapAccepted'
<1> USE SecretSlotsAssumption DEF SlotLoginInv, SlotDatesInv, SlotBaseInv
<1>1. CASE UNCHANGED slotVars
  BY <1>1 DEF slotVars, operatorVars, OverlapAccepted, Authenticated
<1>2. CASE outcome' = NoOutcome
  BY <1>2 DEF NoOutcome, OverlapAccepted
<1>3. ASSUME NEW q \in Requests, arrive(q), surface = "preflight" PROVE OverlapAccepted'
  <2>1. surface' = surface
    BY <1>3 DEF arrive
  <2>2. QED
    BY <1>3, <2>1 DEF OverlapAccepted, Authenticated
<1>4. ASSUME NEW q \in Requests, NEW value, Looks(q, value), Ends(q, value) PROVE OverlapAccepted'
  <2>1. UNCHANGED <<surface, secret, since, until>>
    BY <1>4 DEF Looks, operatorVars
  <2>2. SUFFICES ASSUME Authenticated, outcome'.verdict = "denied", outcome'.sound,
                        ~ (outcome'.began <= since[outcome'.presented]),
                        ~ (/\ outcome'.presented = secret["current"]
                           /\ outcome'.began < since[outcome'.presented] + CacheTtl)
                 PROVE  FALSE
    BY <2>1 DEF OverlapAccepted, Authenticated
  <2>3. /\ req[q].at \in {"auth_current", "auth_previous"}
        /\ outcome'.presented = req[q].presented /\ outcome'.began = req[q].began
        /\ outcome'.sound = Sound(q, value)
        /\ \/ req[q].at = "auth_current" /\ value = NoSecret
           \/ /\ req[q].at = "auth_previous" /\ value # req[q].presented
              /\ surface = "admin" \/ req[q].current # req[q].presented
    BY <1>4, <2>2, DecisionShape
  <2>4. Knows(q)
    BY DEF LoginInv
  <2>5. req[q].presented \in Secrets /\ req[q].presented # NoSecret /\ req[q].began \in Int
    <3>1. req[q].presented \in 1 .. secret["current"] /\ secret["current"] \in 1 .. MaxSecret
      BY <2>3, <2>4 DEF Knows, SlotTypeOK, Secrets
    <3>2. req[q].began \in Int
      BY SlotTypes DEF SlotRequest
    <3>3. QED
      BY <3>1, <3>2 DEF Secrets, NoSecret
  <2>6. Settled(req[q])
    <3>1. since[req[q].presented] \in Int
      BY <2>5 DEF SlotTypeOK, Never
    <3>2. QED
      BY <2>2, <2>3, <2>5, <3>1 DEF Settled
  <2>7. req[q].at = "auth_previous" /\ req[q].presented \notin {value, req[q].current}
    <3>1. ~ (req[q].at = "auth_current" /\ value = NoSecret)
      BY <1>4, <2>2, <2>3, CurrentIsSet DEF Sound
    <3>2. surface = "admin" => req[q].current = NoSecret
      BY <2>4 DEF Knows
    <3>3. QED
      BY <2>3, <2>5, <3>1, <3>2
  <2>8. until[req[q].presented] # Never
    BY <1>4, <2>2, <2>3, <2>6, <2>7, PreviousIsRetired
  <2>9. since[req[q].presented] = Never
    BY <2>5, <2>8 DEF OperatorInv
  <2>10. Never \in Int /\ req[q].began < Never
    BY SlotTypes DEF SlotRequest, SlotTypeOK
  <2>11. QED
    BY <2>2, <2>3, <2>5, <2>9, <2>10
<1>5. QED
  BY <1>1, <1>2, <1>3, <1>4, DecisionStep

(* Nothing is cached, known or decided initially. *)
LEMMA SlotLoginInit == SlotInit => SlotLoginInv /\ RetiredRefused /\ OverlapAccepted
<1> SUFFICES ASSUME SlotInit PROVE SlotLoginInv /\ RetiredRefused /\ OverlapAccepted
  OBVIOUS
<1> USE SecretSlotsAssumption DEF SlotInit
<1>1. SlotBaseInv
  BY SlotBaseInit
<1>2. \A s \in Slots : cache[s] = NotCached /\ cache[s].value = NoSecret
  BY DEF NotCached
<1>3. \A q \in Requests : req[q] = IdleRequest
  OBVIOUS
<1>4. CacheInv
  <2>1. NoSecret \notin Secrets
    BY DEF NoSecret, Secrets
  <2>2. \A s \in Slots : cache[s].at <= clock
    BY <1>2 DEF NotCached
  <2>3. QED
    BY <1>2, <2>1, <2>2 DEF CacheInv
<1>5. AnswerInv /\ LoginInv
  BY <1>3 DEF AnswerInv, LoginInv, Knows, IdleRequest
<1>6. RetiredRefused /\ OverlapAccepted
  BY DEF RetiredRefused, OverlapAccepted, NoOutcome
<1>7. QED
  BY <1>1, <1>4, <1>5, <1>6 DEF SlotLoginInv, SlotDatesInv

(* The invariant behind the verdicts on credentials is inductive. *)
LEMMA SlotLoginStep == SlotLoginInv /\ [SlotNext]_slotVars => SlotLoginInv'
<1>1. SlotLoginInv => SlotDatesInv /\ SlotBaseInv
  BY DEF SlotLoginInv, SlotDatesInv
<1>2. QED
  BY <1>1, SlotBaseStep, DatesStep, LoginStep DEF SlotLoginInv, SlotDatesInv

(* A retired credential is refused from the end of the cache's TTL on, in
   spite of two slots cached apart and of answers that arrive late. *)
THEOREM RetiredRefusedHolds == SlotSpec => []RetiredRefused
<1> DEFINE Inv == SlotLoginInv /\ RetiredRefused
<1>1. SlotInit => Inv
  BY SlotLoginInit
<1>2. Inv /\ [SlotNext]_slotVars => Inv'
  BY SlotLoginStep, RetiredRefusedStep
<1>3. QED
  BY <1>1, <1>2, PTL DEF SlotSpec

(* A credential that is in a slot, in the previous one since before the request
   began or in the current one for as long as a cache remembers, is not refused
   unless a read or a hashing failed, for an operator who waits at least that
   long between two rotations. *)
THEOREM OverlapAcceptedHolds == SlotSpec => [](CacheTtl <= Patience => OverlapAccepted)
<1> DEFINE Inv == SlotLoginInv /\ (CacheTtl <= Patience => OverlapAccepted)
<1>1. SlotInit => Inv
  BY SlotLoginInit
<1>2. Inv /\ [SlotNext]_slotVars => Inv'
  BY SlotLoginStep, OverlapAcceptedStep
<1>3. QED
  BY <1>1, <1>2, PTL DEF SlotSpec

-----------------------------------------------------------------------------
(* The preflight. *)

SlotPreflightInv == SlotDatesInv /\ PreflightInv

(* What a preflight finds, and how old that is. *)
LEMMA PreflightLookedUp ==
  ASSUME SlotPreflightInv, surface = "preflight", NEW q \in Requests, NEW value, Looks(q, value)
  PROVE  /\ req[q].at = "auth_current" /\ req[q].began <= clock
         /\ ~ up /\ value # NoSecret =>
              /\ req[q].began <= turned + CacheTtl - 1
              /\ clock <= turned + CacheTtl - 1 \/ clock <= turned + Processing
<1> USE SecretSlotsAssumption DEF SlotPreflightInv, SlotDatesInv, SlotBaseInv
<1> DEFINE s == SlotOf(req[q], req[q].at)
<1>1. /\ req[q] \in SlotRequest /\ req[q].at \in Lookups /\ req[q].at = "auth_current" /\ s \in Slots
  <2>1. req[q].at \in Lookups /\ req[q].at \in {"idle", "auth_current"}
    BY DEF Looks, PreflightInv
  <2>2. req[q].at = "auth_current" /\ req[q] \in SlotRequest
    BY <2>1, SlotTypes DEF Lookups
  <2>3. QED
    BY <2>1, <2>2, SlotsOfLookups
<1>2. req[q].began \in Int /\ req[q].now \in Int /\ clock \in Int /\ turned \in Int
  BY <1>1 DEF SlotRequest, SlotTypeOK
<1>3. req[q].began <= clock /\ clock <= req[q].began + Processing
  BY <1>1 DEF AnswerInv
<1>4. CASE Fresh(s) /\ value = cache[s].value
  <2>1. clock - cache[s].at <= CacheTtl - 1 /\ cache[s].at \in Int
    BY <1>1, <1>4 DEF Fresh, SlotTypeOK
  <2>2. value # NoSecret
    BY <1>1, <1>4, FreshIsSet
  <2>3. ~ up => cache[s].at <= turned
    BY <1>1, <1>4, <2>2 DEF PreflightInv
  <2>4. QED
    BY <1>1, <1>2, <1>3, <2>1, <2>2, <2>3
<1>5. CASE req[q].fetch = "answered" /\ (value # NoSecret => req[q].answer # NoSecret)
  <2>1. req[q].began <= req[q].now
    BY <1>5 DEF AnswerInv
  <2>2. /\ ~ up /\ value # NoSecret => req[q].now <= turned
    BY <1>5 DEF PreflightInv
  <2>3. ~ up /\ value # NoSecret => req[q].began <= turned + CacheTtl - 1 /\ clock <= turned + Processing
    BY <1>2, <1>3, <2>1, <2>2
  <2>4. QED
    BY <1>1, <1>3, <2>2, <2>3
<1>6. QED
  BY <1>4, <1>5 DEF Looks

(* One step keeps the preflight's caches behind the store by no more. *)
LEMMA PreflightStep ==
  ASSUME SlotPreflightInv, [SlotNext]_slotVars
  PROVE  PreflightInv'
<1> USE SecretSlotsAssumption DEF SlotPreflightInv, SlotDatesInv, SlotBaseInv
<1>0. /\ clock \in 0 .. LastTime /\ turned \in 0 .. LastTime /\ preflight.at \in Int /\ up \in BOOLEAN
      /\ \A s \in Slots : cache[s].at \in Int
      /\ \A p \in Requests : req[p].began \in Int /\ req[p].now \in Int
      /\ IdleRequest.at = "idle" /\ IdleRequest.fetch = "none"
  BY SlotTypes DEF SlotTypeOK, SlotRequest, IdleRequest
<1>1. surface' = surface
  BY DEF SlotNext, slotVars, SlotTick, outage, recovery, set_previous, set_current, remove_previous, arrive,
         get_or_fetch_hashed, fetch_secret, fetched
<1>2. SUFFICES ASSUME surface = "preflight" PROVE PreflightInv'
  BY <1>1 DEF PreflightInv
<1>3. CASE UNCHANGED slotVars \/ SlotTick \/ OperatorStep
  <2>1. UNCHANGED <<cache, preflight, req>> /\ (clock' = clock \/ clock' = clock + 1)
    BY <1>3 DEF slotVars, SlotTick, OperatorStep, set_previous, set_current, remove_previous
  <2>2. UNCHANGED <<up, turned>>
    BY <1>3 DEF slotVars, storeVars, SlotTick, OperatorStep, set_previous, set_current, remove_previous
  <2>3. turned <= clock' /\ preflight.at <= clock'
    BY <1>0, <1>2, <2>1 DEF PreflightInv
  <2>4. QED
    BY <1>2, <2>1, <2>2, <2>3 DEF PreflightInv
<1>4. CASE outage \/ recovery
  <2>1. turned' = clock /\ clock' = clock /\ UNCHANGED <<cache, preflight, req>>
    BY <1>2, <1>4 DEF outage, recovery
  <2>2. \A s \in Slots : cache[s].value # NoSecret => cache[s].at <= clock
    BY DEF CacheInv
  <2>3. \A p \in Requests : req[p].fetch = "answered" => req[p].now <= clock /\ req[p].began <= clock
    <3> TAKE p \in Requests
    <3>1. req[p].fetch = "answered" => req[p].began <= req[p].now /\ req[p].now <= clock
      BY DEF AnswerInv
    <3>2. QED
      BY <1>0, <3>1
  <2>4. preflight.at <= clock /\ \A p \in Requests : req[p].at \in {"idle", "auth_current"}
    BY <1>2 DEF PreflightInv
  <2>5. preflight.at <= clock + CacheTtl - 1 /\ clock <= clock
    BY <1>0, <2>4
  <2>6. QED
    BY <2>1, <2>2, <2>3, <2>4, <2>5 DEF PreflightInv
<1>5. ASSUME NEW q \in Requests, arrive(q) PROVE PreflightInv'
  <2>1. /\ UNCHANGED <<clock, up, turned, cache, preflight>> /\ \A p \in Requests \ {q} : req'[p] = req[p]
        /\ req'[q].fetch = "none" /\ req'[q].at \in {"idle", "auth_current"}
    BY <1>0, <1>5, ArriveShape DEF storeVars
  <2>2. QED
    BY <1>2, <2>1 DEF PreflightInv
<1>6. ASSUME NEW q \in Requests, Asks(q) PROVE PreflightInv'
  <2>1. UNCHANGED <<clock, up, turned, cache, preflight>>
    BY <1>6 DEF Asks, storeVars
  <2>2. \A p \in Requests \ {q} : req'[p] = req[p]
    BY <1>6, AsksShape
  <2>3. req'[q].at = req[q].at /\ req'[q].fetch = "asked"
    BY <1>6, AsksShape
  <2>4. QED
    BY <1>2, <2>1, <2>2, <2>3 DEF PreflightInv
<1>7. ASSUME NEW q \in Requests, fetch_secret(q) PROVE PreflightInv'
  <2>1. UNCHANGED <<clock, up, turned, cache, preflight>>
    BY <1>7 DEF fetch_secret, storeVars
  <2>2. /\ \A p \in Requests \ {q} : req'[p] = req[p]
        /\ req'[q].at = req[q].at
        /\ req'[q].answer = IF up THEN secret[SlotOf(req[q], req[q].at)] ELSE NoSecret
    BY <1>7, AnswersShape
  <2>3. req[q].at \in {"idle", "auth_current"} /\ req[q].at \in Lookups
    BY <1>2, <1>7 DEF PreflightInv, AskInv, fetch_secret
  <2>4. SlotOf(req[q], req[q].at) = "current"
    BY <2>3, SlotsOfLookups, SlotTypes DEF Lookups
  <2>5. up => req'[q].answer # NoSecret
    BY <2>2, <2>4 DEF SlotTypeOK, Secrets, NoSecret
  <2>6. ~ up => req'[q].answer = NoSecret
    BY <2>2
  <2>7. QED
    BY <1>2, <2>1, <2>2, <2>3, <2>5, <2>6 DEF PreflightInv
<1>8. ASSUME NEW q \in Requests, NEW value, Looks(q, value), Ends(q, value) PROVE PreflightInv'
  <2>1. UNCHANGED <<clock, up, turned>> /\ Probed(q, value)
    BY <1>8 DEF Looks, storeVars
  <2>2. preflight' = [available |-> value # NoSecret, at |-> req[q].began]
    BY <1>2, <2>1 DEF Probed
  <2>3. /\ req[q].at = "auth_current" /\ req[q].began <= clock
        /\ ~ up /\ value # NoSecret => req[q].began <= turned + CacheTtl - 1
    BY <1>2, <1>8, PreflightLookedUp
  <2>4. /\ \A p \in Requests \ {q} : req'[p] = req[p]
        /\ req'[q].fetch = "none" /\ req'[q].at \in {"idle", "auth_current"}
    <3>1. ~ Authenticated
      BY <1>2 DEF Authenticated
    <3>2. QED
      BY <1>0, <1>2, <1>8, <2>3, <3>1, EndsShape
  <2>5. ASSUME ~ up, NEW s \in Slots, cache'[s].value # NoSecret PROVE cache'[s].at <= turned
    <3>1. CASE cache' = cache
      BY <1>2, <2>5, <3>1 DEF PreflightInv
    <3>2. CASE cache' # cache
      <4>1. /\ req[q].fetch = "answered" /\ req[q].answer # NoSecret
            /\ cache' = [cache EXCEPT ![SlotOf(req[q], req[q].at)] = [value |-> value, at |-> req[q].now]]
        BY <1>8, <3>2 DEF Looks
      <4>2. req[q].now <= turned
        BY <1>2, <2>5, <4>1 DEF PreflightInv
      <4>3. \/ cache'[s] = cache[s]
            \/ cache'[s] = [value |-> value, at |-> req[q].now]
        BY <4>1 DEF SlotTypeOK
      <4>4. QED
        BY <1>2, <2>5, <4>2, <4>3 DEF PreflightInv
    <3>3. QED
      BY <3>1, <3>2
  <2>6. turned <= clock
    BY <1>2 DEF PreflightInv
  <2>7. \A p \in Requests :
          /\ req'[p].at \in {"idle", "auth_current"}
          /\ ~ up /\ req'[p].fetch = "answered" /\ req'[p].answer # NoSecret => req'[p].now <= turned
    BY <1>2, <2>4 DEF PreflightInv
  <2>8. preflight'.at = req[q].began /\ preflight'.available = (value # NoSecret)
    BY <2>2
  <2>9. QED
    BY <2>1, <2>3, <2>5, <2>6, <2>7, <2>8 DEF PreflightInv
<1>9. QED
  BY <1>3, <1>4, <1>5, <1>6, <1>7, <1>8, WorkerStep DEF SlotNext, OperatorStep

(* A step answers a preflight with what was true not long ago. *)
LEMMA PreflightExpiresStep ==
  ASSUME SlotPreflightInv, [SlotNext]_slotVars, PreflightExpires, Processing <= CacheTtl + OkTtl - 2
  PROVE  PreflightExpires'
<1> USE SecretSlotsAssumption DEF SlotPreflightInv, SlotDatesInv, SlotBaseInv
<1>0. clock \in Int /\ turned \in Int /\ preflight.at \in Int /\ up \in BOOLEAN
  BY DEF SlotTypeOK
<1>1. CASE UNCHANGED slotVars
  BY <1>1 DEF slotVars, storeVars, PreflightExpires
<1>2. CASE outcome' = NoOutcome
  BY <1>2 DEF NoOutcome, PreflightExpires
<1>3. ASSUME NEW q \in Requests, arrive(q), surface = "preflight" PROVE PreflightExpires'
  <2>1. UNCHANGED <<surface, clock, up, turned>>
    BY <1>3 DEF arrive, storeVars
  <2>2. CASE outcome' = NoOutcome
    BY <1>2, <2>2
  <2>3. CASE /\ preflight_cache_hit
             /\ outcome'.verdict = IF preflight.available THEN "accepted" ELSE "denied"
    <3>1. ASSUME preflight.available, ~ up PROVE clock <= turned + (CacheTtl - 1) + (OkTtl - 1)
      <4>1. clock - preflight.at <= OkTtl - 1
        BY <1>0, <2>3, <3>1 DEF preflight_cache_hit
      <4>2. preflight.at <= turned + CacheTtl - 1
        BY <1>3, <3>1 DEF PreflightInv
      <4>3. QED
        BY <1>0, <4>1, <4>2
    <3>2. outcome'.verdict = "accepted" => preflight.available
      BY <2>3
    <3>3. QED
      BY <2>1, <3>1, <3>2 DEF PreflightExpires
  <2>4. QED
    BY <1>3, <2>2, <2>3, ArriveShape
<1>4. ASSUME NEW q \in Requests, NEW value, Looks(q, value), Ends(q, value) PROVE PreflightExpires'
  <2>1. UNCHANGED <<surface, clock, up, turned>>
    BY <1>4 DEF Looks
  <2>2. CASE surface # "preflight"
    BY <2>1, <2>2 DEF PreflightExpires
  <2>3. CASE surface = "preflight"
    <3>1. ~ up /\ value # NoSecret => clock <= turned + CacheTtl - 1 \/ clock <= turned + Processing
      BY <1>4, <2>3, PreflightLookedUp
    <3>2. outcome'.verdict = "accepted" => value # NoSecret
      BY <1>4, <2>3, DecisionShape
    <3>3. outcome'.verdict = "accepted" /\ ~ up => clock <= turned + (CacheTtl - 1) + (OkTtl - 1)
      BY <1>0, <3>1, <3>2
    <3>4. QED
      BY <2>1, <2>3, <3>3 DEF PreflightExpires
  <2>4. QED
    BY <2>2, <2>3
<1>5. QED
  BY <1>1, <1>2, <1>3, <1>4, DecisionStep

(* The preflight starts without a verdict. *)
LEMMA SlotPreflightInit == SlotInit => SlotPreflightInv /\ PreflightExpires
<1> SUFFICES ASSUME SlotInit PROVE SlotPreflightInv /\ PreflightExpires
  OBVIOUS
<1> USE SecretSlotsAssumption DEF SlotInit
<1>1. SlotDatesInv
  BY SlotLoginInit DEF SlotLoginInv
<1>2. \A q \in Requests : req[q].at = "idle" /\ req[q].fetch = "none"
  BY DEF IdleRequest
<1>3. preflight.at <= 0
  BY DEF NotProbed
<1>4. PreflightInv
  BY <1>2, <1>3 DEF PreflightInv
<1>5. PreflightExpires
  BY DEF PreflightExpires, NoOutcome
<1>6. QED
  BY <1>1, <1>4, <1>5 DEF SlotPreflightInv

(* The invariant behind the preflight is inductive. *)
LEMMA SlotPreflightStep == SlotPreflightInv /\ [SlotNext]_slotVars => SlotPreflightInv'
<1>1. SlotPreflightInv => SlotDatesInv /\ SlotBaseInv
  BY DEF SlotPreflightInv, SlotDatesInv
<1>2. QED
  BY <1>1, SlotBaseStep, DatesStep, PreflightStep DEF SlotPreflightInv, SlotDatesInv

(* A preflight vouches for a KEK that the store no longer yields for no longer
   than the two caches behind it live, one after the other, while no request
   takes longer than that. *)
THEOREM PreflightExpiresHolds ==
  SlotSpec => [](Processing <= CacheTtl + OkTtl - 2 => PreflightExpires)
<1> DEFINE Inv == SlotPreflightInv /\ (Processing <= CacheTtl + OkTtl - 2 => PreflightExpires)
<1>1. SlotInit => Inv
  BY SlotPreflightInit
<1>2. Inv /\ [SlotNext]_slotVars => Inv'
  BY SlotPreflightStep, PreflightExpiresStep
<1>3. QED
  BY <1>1, <1>2, PTL DEF SlotSpec
=============================================================================
