----------------------------- MODULE LockService -----------------------------
(***************************************************************************)
(* What ResourceLockDO promises its callers, without storage records,      *)
(* alarms or clean-up: a resource is granted at most once per window, and  *)
(* a name is lent to at most one holder at a time.                         *)
(***************************************************************************)
EXTENDS Integers

CONSTANTS
    Resources,    \* one-time resources
    LockNames,    \* names that can be lent
    Tokens,       \* proofs of holding a lease
    Window,       \* seconds a grant of each resource stays exclusive
    MaxLeaseTtl,  \* longest lease
    Sound         \* keys whose storage does not fail: the promise covers these

VARIABLES
    now,         \* time in seconds
    resettable,  \* whether resources may be reset (test deployments)
    lastGrant,   \* when each resource was last granted, or Never
    leases       \* leases lent and not returned

vars == <<now, resettable, lastGrant, leases>>

Never == -1

Init ==
    /\ now = 0
    /\ resettable \in BOOLEAN
    /\ lastGrant = [r \in Resources |-> Never]
    /\ leases = {}

(* Resource r may be granted: at most once per window. *)
MayGrant(r) ==
    (r \in Sound /\ ~resettable) =>
      (lastGrant[r] = Never \/ now >= lastGrant[r] + Window[r])

Grant(r) ==
    /\ MayGrant(r)
    /\ lastGrant' = [lastGrant EXCEPT ![r] = now]
    /\ UNCHANGED <<now, resettable, leases>>

(* n may be lent to the holder of a new token: no lease on n is live. *)
MayLend(n, t, until) ==
    /\ n \in Sound => \A l \in leases : l.name = n => now >= l.until
    /\ \A l \in leases : l.token # t
    /\ now < until /\ until <= now + MaxLeaseTtl

(* The leases after lending n, and after token t returns it: only the leases
   of the presented token end. *)
WithLease(n, t, until) ==
    leases \cup {[name |-> n, token |-> t, until |-> until]}
WithoutLease(n, t) == {l \in leases : l.name # n \/ l.token # t}

Lend(n, t, until) ==
    /\ MayLend(n, t, until)
    /\ leases' = WithLease(n, t, until)
    /\ UNCHANGED <<now, resettable, lastGrant>>

Return(n, t) ==
    /\ leases' = WithoutLease(n, t)
    /\ UNCHANGED <<now, resettable, lastGrant>>

Pass ==
    /\ now' = now + 1
    /\ UNCHANGED <<resettable, lastGrant, leases>>

Next ==
    \/ \E r \in Resources : Grant(r)
    \/ \E n \in LockNames, t \in Tokens :
         Return(n, t) \/ \E until \in now + 1 .. now + MaxLeaseTtl : Lend(n, t, until)
    \/ Pass

Spec == Init /\ [][Next]_vars
=============================================================================
