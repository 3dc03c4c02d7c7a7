------------------------------- MODULE Lockout -------------------------------
(***************************************************************************)
(* Brute-force lockout of one actor (an officer at a source IP, or an      *)
(* admin's IP).  Each attempt is a request handler that runs concurrently  *)
(* with the others and awaits between its KV operations; the failure       *)
(* counter is read and rewritten under a lease of LockService.  KV is      *)
(* eventually consistent: for KvLag seconds after a key changes, a read    *)
(* may still return what it held before, whoever holds the lease.          *)
(***************************************************************************)
EXTENDS Integers, FiniteSets

CONSTANTS
    Attempts,         \* authentication attempts
    Threshold,        \* MAX_FAILED_ATTEMPTS
    LeaseTtl,         \* DEFAULT_LOCK_TTL_SECONDS
    LockTtl,          \* LOCKOUT_DURATION_SECONDS
    TrackTtl,         \* LOCKOUT_TRACKING_WINDOW
    InitialCounters,  \* counter values found in KV at the start
    Verdicts,         \* outcomes of verifying a response: TRUE is genuine
    KvLag,            \* how long KV may still return a value that was replaced
    Prompt,           \* whether a lease holder is done before its lease ends
    Faults,           \* whether KV and Durable Object calls may fail
    MaxTime           \* bound: last second considered

ASSUME LockoutAssumption ==
    /\ Threshold \in Nat \ {0, 1}
    /\ LeaseTtl \in Nat \ {0}
    /\ LockTtl \in Nat \ {0}
    /\ TrackTtl \in Nat \ {0}
    /\ KvLag \in Nat
    /\ InitialCounters \subseteq Nat \cup {-1}
    /\ Verdicts \subseteq BOOLEAN
    /\ Prompt \in BOOLEAN
    /\ Faults \in BOOLEAN
    /\ MaxTime \in Nat

VARIABLES
    now,           \* time in seconds
    leases,        \* leases of the auth_failure lock (LockService)
    pc,            \* where each attempt is
    seen,          \* the count an attempt read, then the one it wrote
    counter,       \* KV "lockout:*": failure count, 0 if absent, or Corrupt
    counterUntil,  \* when that key expires
    older,         \* counts it held before, with the time each disappears
    fresh,         \* whether an attempt's read could only return the last count
    lockedUntil,   \* KV "locked:*": when it expires, 0 if absent
    flagLag,       \* until when a read may see that key as it was before
    settled,       \* history: failures counted from a fresh read since then
    total,         \* history: failures ever written to the counter
    lockCalls      \* history: lock_account calls they have led to

vars == <<now, leases, pc, seen, counter, counterUntil, older, fresh,
          lockedUntil, flagLag, settled, total, lockCalls>>

Corrupt == -1
LockKey == "auth_failure"

L == INSTANCE LockService WITH
       Resources <- {}, LockNames <- {LockKey}, Tokens <- Attempts,
       Window <- <<>>, MaxLeaseTtl <- LeaseTtl, Sound <- {LockKey},
       resettable <- FALSE, lastGrant <- <<>>

Stages == {"start", "verify", "acquire", "read", "write", "release", "lock",
           "clear_counter", "clear_flag", "done"}

(* The counter found at the start stands for failures of earlier attempts. *)
Init ==
    /\ now = 0
    /\ leases = {}
    /\ pc = [a \in Attempts |-> "start"]
    /\ seen = [a \in Attempts |-> 0]
    /\ counter \in InitialCounters
    /\ counterUntil = IF counter = 0 THEN 0 ELSE TrackTtl
    /\ older = {}
    /\ fresh = [a \in Attempts |-> FALSE]
    /\ lockedUntil = 0
    /\ flagLag = 0
    /\ settled = 0
    /\ total = IF counter = Corrupt THEN Threshold - 2 ELSE counter
    /\ lockCalls = 0

Goto(a, stage) == pc' = [pc EXCEPT ![a] = stage]

(* The counter key changes to count c, kept until t: what it held can be read
   for KvLag seconds more. *)
PutCounter(c, t) ==
    /\ counter' = c
    /\ counterUntil' = t
    /\ older' = older \cup {[count |-> counter, until |-> now + KvLag]}

(* The counter key is deleted or expires, and the history starts anew. *)
DropCounter ==
    /\ PutCounter(0, 0)
    /\ settled' = 0
    /\ lockCalls' = 0

(* The lock key gets expiry t, or is deleted (t = 0). *)
PutFlag(t) ==
    /\ lockedUntil' = t
    /\ flagLag' = IF (lockedUntil = 0) = (t = 0) THEN flagLag ELSE now + KvLag

counterVars == <<counter, counterUntil, older>>
flagVars == <<lockedUntil, flagLag>>
history == <<settled, total, lockCalls>>

-----------------------------------------------------------------------------

(* The lock flag is read first; a read error counts as "not locked". *)
is_locked_out(a) ==
    /\ pc[a] = "start"
    /\ \/ (lockedUntil # 0 \/ now < flagLag) /\ Goto(a, "done")
       \/ (lockedUntil = 0 \/ now < flagLag \/ Faults) /\ Goto(a, "verify")
    /\ UNCHANGED <<now, leases, seen, fresh, counterVars, flagVars, history>>

(* A used nonce, an unknown challenge or an inactive officer ends the attempt
   uncounted; otherwise the response is checked against the current or the
   previous secret. *)
authenticate_yubikey(a) ==
    /\ pc[a] = "verify"
    /\ \/ Goto(a, "done")
       \/ \E genuine \in Verdicts :
            Goto(a, IF genuine THEN "clear_counter" ELSE "acquire")
    /\ UNCHANGED <<now, leases, seen, fresh, counterVars, flagVars, history>>

(* A wrong response: take the lease.  If another attempt holds it, or the
   call fails (then the lease may have been lent and stays until it ends), the
   failure is not counted and the caller gets 503. *)
acquire_resource_lock(a) ==
    /\ pc[a] = "acquire"
    /\ \/ /\ L!MayLend(LockKey, a, now + LeaseTtl)
          /\ leases' = L!WithLease(LockKey, a, now + LeaseTtl)
          /\ Goto(a, "read") \/ (Faults /\ Goto(a, "done"))
       \/ /\ Faults \/ \E l \in leases : now < l.until
          /\ Goto(a, "done")
          /\ UNCHANGED leases
    /\ UNCHANGED <<now, seen, fresh, counterVars, flagVars, history>>

(* Mutant: a corrupt count is taken as the largest possible one. *)
CountOf_Max(c) == IF c = Corrupt THEN Threshold + 1 ELSE c

(* The count a stored text stands for; a corrupt one is taken as two below
   the threshold. *)
CountOf(c) == IF c = Corrupt THEN Threshold - 2 ELSE c

(* What a read of the counter key may return. *)
Replaced == {o \in older : now < o.until}
Readable == {counter} \cup {o.count : o \in Replaced}

(* Mutant: the lease is returned before the count is written back. *)
read_count_EarlyRelease(a) ==
    /\ pc[a] = "read"
    /\ seen' = [seen EXCEPT ![a] = CountOf(counter)]
    /\ fresh' = [fresh EXCEPT ![a] = Replaced = {}]
    /\ Goto(a, "write")
    /\ leases' = {}
    /\ UNCHANGED <<now, counterVars, flagVars, history>>

read_count(a) ==
    /\ pc[a] = "read"
    /\ \/ /\ \E c \in Readable : seen' = [seen EXCEPT ![a] = CountOf(c)]
          /\ fresh' = [fresh EXCEPT ![a] = Replaced = {}]
          /\ Goto(a, "write")
       \/ Faults /\ Goto(a, "release") /\ UNCHANGED <<seen, fresh>>
    /\ UNCHANGED <<now, leases, counterVars, flagVars, history>>

(* Mutant: the new count is stored but the old one is returned. *)
write_count_ReturnsOld(a) ==
    /\ pc[a] = "write"
    /\ PutCounter(seen[a] + 1, now + TrackTtl)
    /\ settled' = IF fresh[a] THEN settled + 1 ELSE settled
    /\ total' = total + 1
    /\ fresh' = [fresh EXCEPT ![a] = FALSE]
    /\ Goto(a, "release")
    /\ UNCHANGED <<now, leases, seen, flagVars, lockCalls>>

(* The count goes up by one and its tracking window starts anew.  A put that
   reports an error, whether it took effect or not, ends the attempt without
   a count to compare. *)
write_count(a) ==
    /\ pc[a] = "write"
    /\ \/ /\ PutCounter(seen[a] + 1, now + TrackTtl)
          /\ total' = total + 1
          /\ \/ /\ seen' = [seen EXCEPT ![a] = @ + 1]
                /\ settled' = IF fresh[a] THEN settled + 1 ELSE settled
             \/ /\ Faults
                /\ seen' = [seen EXCEPT ![a] = 0]
                /\ UNCHANGED settled
       \/ /\ Faults
          /\ seen' = [seen EXCEPT ![a] = 0]
          /\ UNCHANGED <<counterVars, settled, total>>
    /\ fresh' = [fresh EXCEPT ![a] = FALSE]
    /\ Goto(a, "release")
    /\ UNCHANGED <<now, leases, flagVars, lockCalls>>

(* The lease is returned (best effort), then the new count is compared. *)
release_resource_lock(a) ==
    /\ pc[a] = "release"
    /\ leases' = L!WithoutLease(LockKey, a) \/ (Faults /\ UNCHANGED leases)
    /\ Goto(a, IF seen[a] >= Threshold THEN "lock" ELSE "done")
    /\ UNCHANGED <<now, seen, fresh, counterVars, flagVars, history>>

(* The lock flag is set; a failure to do so is only logged. *)
lock_account(a) ==
    /\ pc[a] = "lock"
    /\ PutFlag(now + LockTtl) \/ (Faults /\ UNCHANGED flagVars)
    /\ lockCalls' = IF settled >= Threshold THEN lockCalls + 1 ELSE lockCalls
    /\ Goto(a, "done")
    /\ UNCHANGED <<now, leases, seen, fresh, counterVars, settled, total>>

(* A genuine response: delete the counter, then the flag, without the lease;
   an error of the first deletion, whether it took effect or not, is returned
   and leaves the flag. *)
clear_counter(a) ==
    /\ pc[a] = "clear_counter"
    /\ \/ DropCounter /\ (Goto(a, "clear_flag") \/ (Faults /\ Goto(a, "done")))
       \/ /\ Faults
          /\ Goto(a, "done")
          /\ UNCHANGED <<counterVars, settled, lockCalls>>
    /\ UNCHANGED <<now, leases, seen, fresh, flagVars, total>>

clear_flag(a) ==
    /\ pc[a] = "clear_flag"
    /\ PutFlag(0) \/ (Faults /\ UNCHANGED flagVars)
    /\ Goto(a, "done")
    /\ UNCHANGED <<now, leases, seen, fresh, counterVars, history>>

(* Attempts reading or writing the counter. *)
Inside == {a \in Attempts : pc[a] \in {"read", "write"}}

(* A second passes; KV drops keys whose time has come. *)
Tick ==
    /\ now < MaxTime
    /\ Prompt => \A l \in leases : l.token \in Inside => now + 1 < l.until
    /\ now' = now + 1
    /\ IF counter # 0 /\ counterUntil <= now + 1
         THEN DropCounter
         ELSE /\ older' = {o \in older : now + 1 < o.until}
              /\ UNCHANGED <<counter, counterUntil, settled, lockCalls>>
    /\ IF lockedUntil # 0 /\ lockedUntil <= now + 1 THEN PutFlag(0)
                                                    ELSE UNCHANGED flagVars
    /\ UNCHANGED <<leases, pc, seen, fresh, total>>

Step(a) ==
    \/ is_locked_out(a)
    \/ authenticate_yubikey(a)
    \/ acquire_resource_lock(a)
    \/ read_count(a)
    \/ write_count(a)
    \/ release_resource_lock(a)
    \/ lock_account(a)
    \/ clear_counter(a)
    \/ clear_flag(a)

Next == (\E a \in Attempts : Step(a)) \/ Tick

Spec == Init /\ [][Next]_vars

-----------------------------------------------------------------------------
(* Properties. *)

(* Every variable has its type. *)
TypeOK ==
    /\ now \in Nat
    /\ leases \subseteq [name : {LockKey}, token : Attempts, until : Nat]
    /\ pc \in [Attempts -> Stages]
    /\ seen \in [Attempts -> Nat]
    /\ counter \in Nat \cup {Corrupt}
    /\ counterUntil \in Nat
    /\ older \subseteq [count : Nat \cup {Corrupt}, until : Nat]
    /\ fresh \in [Attempts -> BOOLEAN]
    /\ lockedUntil \in Nat
    /\ flagLag \in Nat
    /\ settled \in Nat
    /\ total \in Nat
    /\ lockCalls \in Nat

(* No settled failure is forgotten.  A failure counted from a read at least
   KvLag after the counter last changed is in the count for good: until the
   counter is deleted or expires it stays at or above the number of those
   failures, although failures counted in quicker succession start from older
   counts and overwrite it, puts fail after taking effect, and successes delete
   it without holding the lease. *)
FailuresRemembered == counter = Corrupt \/ counter >= settled

(* When the settled failures reach the threshold, lock_account has been called
   for them or the attempt that reached it is on its way there, whatever
   failed, overwrote the count or was deleted in between. *)
LockedWhenCounted ==
    settled >= Threshold =>
      \/ lockCalls > 0
      \/ \E a \in Attempts : pc[a] \in {"release", "lock"} /\ seen[a] >= Threshold

(* A lockout is earned: nobody is locked before Threshold failures in all,
   a corrupt counter standing for Threshold - 2 of them. *)
LockEarned == lockedUntil # 0 => total >= Threshold
==============================================================================
