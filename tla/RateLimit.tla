------------------------------ MODULE RateLimit ------------------------------
(***************************************************************************)
(* The hourly counters kept in KV.  A "plain" cap is one key, read,        *)
(* compared and rewritten; the per-issuer issuance cap is "sharded": all   *)
(* shard keys are read and summed, then one is rewritten; a "quota" is a   *)
(* plain cap whose limit is the caller's tier, looked up through a cache   *)
(* in the isolate; the nonce "tripwire" counts and never refuses.          *)
(* KV has no atomic update: requests interleave between reads and writes.  *)
(* Each hour has keys of its own, which outlive it; hours pass for quotas  *)
(* only, as nothing else remembers anything across them.                   *)
(***************************************************************************)
EXTENDS Integers, FiniteSets

CONSTANTS
    Calls,       \* requests that ask for admission
    Kinds,       \* kinds of counter to consider
    ShardCount,  \* BLIND_SHARD_COUNT
    Isolates,    \* isolates of the worker: a shard cursor and a tier cache each
    Limit,       \* the cap, and the default of a quota
    Tiers,       \* tiers a client may have, each named by its limit
    LastHour,    \* bound: hours are 0..LastHour
    MaxQuota,    \* bound: requests that ask for a quota
    Faults       \* whether KV calls may fail or time out

ASSUME RateLimitAssumption ==
    /\ IsFiniteSet(Calls)
    /\ Kinds \subseteq {"plain", "sharded", "quota", "tripwire"}
    /\ ShardCount \in Nat \ {0}
    /\ Limit \in Nat
    /\ Tiers \subseteq Nat \ {0}
    /\ LastHour \in Nat
    /\ MaxQuota \in Nat
    /\ Faults \in BOOLEAN

VARIABLES
    kind,        \* the kind of the counter
    hour,        \* the hour it is
    tier,        \* RATE_LIMIT_CONFIG: the client's tier, NoTier if it has none
    tierCache,   \* TIER_CACHE of each isolate: the limit cached and its hour
    kv,          \* the count stored under each key, 0 if absent
    cursor,      \* BLIND_SHARD_CURSOR of each isolate
    pc,          \* where each request is
    at,          \* the shard it reads next; of a quota, the tier it read
    in,          \* the isolate that looks up its tier
    sum,         \* the counts it has read so far
    target,      \* the key it rewrites
    cap,         \* the limit it is compared with
    seen,        \* the count it read at its key
    warned,      \* whether the tripwire reported it
    missed,      \* history: requests whose writes landed on that key since then
    met,         \* history: requests in flight at some time while it checked
    overwritten  \* history: counted requests that later writes wiped out

tierVars == <<hour, tier, tierCache, in, cap>>
rateVars == <<kind, tierVars, kv, cursor, pc, at, sum, target, seen, warned, missed, met, overwritten>>

(* A plain cap uses key 0, a quota the key of the hour. *)
Shards == 0 .. ShardCount - 1
Hours == 0 .. LastHour
Keys == Shards \cup Hours

NoTier == 0
NoIsolate == "none"
NotCached == [limit |-> 0, hour |-> -1]

Stages == {"idle", "tier", "limits", "sum", "count", "put", "counted", "uncounted", "refused", "failed"}

InFlight ==
    {q \in Calls : pc[q] \in {"sum", "put"} \/ (kind = "sharded" /\ pc[q] = "count")}

(* The requests that have been, or are certain to be, let through. *)
Admitted ==
    {q \in Calls : \/ pc[q] \in {"put", "counted", "uncounted"}
                   \/ kind = "sharded" /\ pc[q] = "count"}
Uncounted == {q \in Calls : pc[q] = "uncounted"}

RateInit ==
    /\ kind \in Kinds
    /\ hour = 0
    /\ tier = NoTier
    /\ tierCache = [i \in Isolates |-> NotCached]
    /\ kv = [k \in Keys |-> 0]
    /\ cursor = [i \in Isolates |-> 0]
    /\ pc = [q \in Calls |-> "idle"]
    /\ at = [q \in Calls |-> 0]
    /\ in = [q \in Calls |-> NoIsolate]
    /\ sum = [q \in Calls |-> 0]
    /\ target = [q \in Calls |-> 0]
    /\ cap = [q \in Calls |-> Limit]
    /\ seen = [q \in Calls |-> 0]
    /\ warned = [q \in Calls |-> FALSE]
    /\ missed = [q \in Calls |-> {}]
    /\ met = [q \in Calls |-> {}]
    /\ overwritten = {}

Goto(q, stage) == pc' = [pc EXCEPT ![q] = stage]

(* q meets the requests in flight, and those still checking meet q. *)
Meet(q) ==
    met' = [r \in Calls |->
              CASE r = q -> met[q] \cup (InFlight \ {q})
                [] r # q /\ pc[r] = "sum" -> met[r] \cup {q}
                [] OTHER -> met[r]]

(* A KV call fails, or its deadline passes and it is given up. *)
with_timeout_Err == Faults

-----------------------------------------------------------------------------
(* The tier of a quota, looked up before its counter. *)

HourSecs == 3600
TierTtl == 60

(* The entry is younger than the time to live.  Both times are the beginnings
   of hours, so an entry is fresh for the rest of its hour. *)
FreshTier(i) == (hour - tierCache[i].hour) * HourSecs < TierTtl

(* The cached limit, or the two records are read from KV. *)
get_customer_limit(q) ==
    /\ kind = "quota"
    /\ pc[q] = "idle"
    /\ Cardinality({r \in Calls : pc[r] # "idle"}) < MaxQuota
    /\ target' = [target EXCEPT ![q] = hour]
    /\ \E i \in Isolates :
         \/ /\ tierCache[i] # NotCached /\ FreshTier(i)
            /\ cap' = [cap EXCEPT ![q] = tierCache[i].limit]
            /\ Goto(q, "count")
            /\ UNCHANGED in
         \/ /\ ~ (tierCache[i] # NotCached /\ FreshTier(i))
            /\ in' = [in EXCEPT ![q] = i]
            /\ Goto(q, "tier")
            /\ UNCHANGED cap
    /\ UNCHANGED <<kind, hour, tier, tierCache, kv, cursor, at, sum, seen, warned, missed, met,
                   overwritten>>

(* The client's tier; without one, or if the read fails, the default, which
   is not cached. *)
read_client(q) ==
    /\ pc[q] = "tier"
    /\ \/ /\ tier # NoTier
          /\ at' = [at EXCEPT ![q] = tier]
          /\ Goto(q, "limits")
       \/ /\ tier = NoTier \/ Faults
          /\ Goto(q, "count")
          /\ UNCHANGED at
    /\ UNCHANGED <<kind, tierVars, kv, cursor, sum, target, seen, warned, missed, met, overwritten>>

(* The limits of that tier; if the read fails, the default, which is cached.
   The entry bears the hour in which the request began. *)
read_tier(q) ==
    /\ pc[q] = "limits"
    /\ \E limit \in {at[q]} \cup (IF Faults THEN {Limit} ELSE {}) :
         /\ cap' = [cap EXCEPT ![q] = limit]
         /\ tierCache' = [tierCache EXCEPT ![in[q]] = [limit |-> limit, hour |-> target[q]]]
    /\ at' = [at EXCEPT ![q] = 0]
    /\ in' = [in EXCEPT ![q] = NoIsolate]
    /\ Goto(q, "count")
    /\ UNCHANGED <<kind, hour, tier, kv, cursor, sum, target, seen, warned, missed, met, overwritten>>

(* The operator moves the client to another tier. *)
set_tier(t) ==
    /\ kind = "quota"
    /\ tier' = t
    /\ UNCHANGED <<kind, hour, tierCache, in, cap, kv, cursor, pc, at, sum, target, seen, warned, missed, met,
                   overwritten>>

next_hour ==
    /\ kind = "quota"
    /\ hour < LastHour
    /\ hour' = hour + 1
    /\ UNCHANGED <<kind, tier, tierCache, in, cap, kv, cursor, pc, at, sum, target, seen, warned, missed, met,
                   overwritten>>

-----------------------------------------------------------------------------
(* The counters. *)

(* Round robin within an isolate. *)
next_blind_shard(i) == cursor[i] % ShardCount

(* Mutant: the limit is exceeded only above it. *)
AtLimit_Above(q, count) == count > cap[q]

(* Mutant: the request counts itself before it is compared. *)
AtLimit_CountsItself(q, count) == count + 1 >= cap[q]

(* The cap is reached. *)
AtLimit(q, count) == count >= cap[q]

(* A sharded check reads its next shard; any failed read refuses the request.
   After the last one the sum is compared with the limit and, below it, the
   request is admitted and picks the shard to count itself on. *)
check_blind_issuance_sharded(q) ==
    /\ kind = "sharded"
    /\ pc[q] \in {"idle", "sum"}
    /\ Meet(q)
    /\ \/ /\ with_timeout_Err
          /\ Goto(q, "failed")
          /\ UNCHANGED <<cursor, at, sum, target>>
       \/ LET total == sum[q] + kv[at[q]] IN
          /\ sum' = [sum EXCEPT ![q] = total]
          /\ at' = [at EXCEPT ![q] = @ + 1]
          /\ \/ /\ at[q] + 1 < ShardCount
                /\ Goto(q, "sum")
                /\ UNCHANGED <<cursor, target>>
             \/ /\ at[q] + 1 = ShardCount
                /\ AtLimit(q, total)
                /\ Goto(q, "refused")
                /\ UNCHANGED <<cursor, target>>
             \/ /\ at[q] + 1 = ShardCount
                /\ ~ AtLimit(q, total)
                /\ Goto(q, "count")
                /\ \E i \in Isolates :
                     /\ target' = [target EXCEPT ![q] = next_blind_shard(i)]
                     /\ cursor' = [cursor EXCEPT ![i] = @ + 1]
    /\ UNCHANGED <<kind, tierVars, kv, seen, warned, missed, overwritten>>

(* The counter is read.  For a plain cap or a quota this decides: a failed
   read or a count at the limit refuses the request.  A sharded check has
   decided already (its limit here is u32::MAX) and a failed read only leaves
   it uncounted. *)
check_kv_counter(q) ==
    /\ \/ kind = "plain" /\ pc[q] = "idle" /\ Meet(q)
       \/ kind = "quota" /\ pc[q] = "count" /\ Meet(q)
       \/ kind = "sharded" /\ pc[q] = "count" /\ UNCHANGED met
    /\ \/ /\ with_timeout_Err
          /\ Goto(q, IF kind = "sharded" THEN "uncounted" ELSE "failed")
          /\ UNCHANGED seen
       \/ /\ kind # "sharded"
          /\ AtLimit(q, kv[target[q]])
          /\ Goto(q, "refused")
          /\ UNCHANGED seen
       \/ /\ kind # "sharded" => ~ AtLimit(q, kv[target[q]])
          /\ seen' = [seen EXCEPT ![q] = kv[target[q]]]
          /\ Goto(q, "put")
    /\ UNCHANGED <<kind, tierVars, kv, cursor, at, sum, target, warned, missed, overwritten>>

(* The tripwire compares the count with the request included; 0 disables it. *)
nonce_over_limit(count) == Limit # 0 /\ count >= Limit

(* The tripwire reads its counter; a failed read lets the request on,
   uncounted and unreported. *)
check_attestation_nonce_rate(q) ==
    /\ kind = "tripwire"
    /\ pc[q] = "idle"
    /\ \/ /\ with_timeout_Err
          /\ Goto(q, "uncounted")
          /\ UNCHANGED <<seen, warned>>
       \/ /\ seen' = [seen EXCEPT ![q] = kv[target[q]]]
          /\ warned' = [warned EXCEPT ![q] = nonce_over_limit(kv[target[q]] + 1)]
          /\ Goto(q, "put")
    /\ UNCHANGED <<kind, tierVars, kv, cursor, at, sum, target, missed, met, overwritten>>

(* The increment lands, on top of whatever was written since the read; the
   request is answered by then, or when the put fails or times out, in which
   case it may land later or never. *)
put_counter(q) ==
    /\ pc[q] = "put"
    /\ \/ /\ kv' = [kv EXCEPT ![target[q]] = seen[q] + 1]
          /\ overwritten' = overwritten \cup missed[q]
          /\ missed' = [r \in Calls |->
                          IF r # q /\ pc[r] = "put" /\ target[r] = target[q]
                            THEN missed[r] \cup {q} ELSE missed[r]]
          /\ Goto(q, "counted")
       \/ /\ with_timeout_Err
          /\ Goto(q, "uncounted")
          /\ UNCHANGED <<kv, overwritten, missed>>
    /\ UNCHANGED <<kind, tierVars, cursor, at, sum, target, seen, warned, met>>

RateNext ==
    \/ \E q \in Calls :
         \/ get_customer_limit(q) \/ read_client(q) \/ read_tier(q)
         \/ check_blind_issuance_sharded(q) \/ check_kv_counter(q)
         \/ check_attestation_nonce_rate(q) \/ put_counter(q)
    \/ \E t \in Tiers \cup {NoTier} : set_tier(t)
    \/ next_hour

RateSpec == RateInit /\ [][RateNext]_rateVars

(* What a request is told: 503 when its counter could not be read. *)
rate_limit_or_unavailable_response(q) ==
    CASE pc[q] = "refused" -> 429 [] pc[q] = "failed" -> 503 [] OTHER -> 200

-----------------------------------------------------------------------------
(* Properties. *)

(* Every variable has its type. *)
RateTypeOK ==
    /\ kind \in Kinds
    /\ hour \in Hours
    /\ tier \in Tiers \cup {NoTier}
    /\ tierCache \in [Isolates -> [limit : Tiers \cup {Limit}, hour : Hours] \cup {NotCached}]
    /\ kv \in [Keys -> Nat]
    /\ cursor \in [Isolates -> Nat]
    /\ pc \in [Calls -> Stages]
    /\ at \in [Calls -> Nat]
    /\ in \in [Calls -> Isolates \cup {NoIsolate}]
    /\ sum \in [Calls -> Nat]
    /\ target \in [Calls -> IF kind = "quota" THEN Hours ELSE Shards]
    /\ cap \in [Calls -> Tiers \cup {Limit}]
    /\ seen \in [Calls -> Nat]
    /\ warned \in [Calls -> BOOLEAN]
    /\ missed \in [Calls -> SUBSET Calls]
    /\ met \in [Calls -> SUBSET Calls]
    /\ overwritten \subseteq Calls

(* The requests counted together with q. *)
Peers(q) == IF kind = "quota" THEN {r \in Calls : target[r] = target[q]} ELSE Calls

(* How far a cap leaks: whenever check_kv_counter or the sharded check lets a
   request through, the requests let through so far exceed its limit by no
   more than those in flight at some time during its check (the N - 1 of the
   code's comment), plus the increments that failed, plus the requests whose
   increments later writes based on an older read have wiped out. *)
AdmitBound ==
    [][\A q \in Calls :
         (kind # "tripwire" /\ q \notin Admitted /\ q \in Admitted') =>
           Cardinality(Admitted' \cap Peers(q)')
             <= cap[q] + Cardinality(met'[q]) + Cardinality(Uncounted) + Cardinality(overwritten)]_rateVars

(* A refusal is earned: no request is told that the cap is reached before as
   many requests as its limit have been let through, although shards are read
   one by one while others write them, and limits change; nor does the
   tripwire report an issuer before its limit. *)
RefusalEarned ==
    \A q \in Calls :
      rate_limit_or_unavailable_response(q) = 429 \/ warned[q] =>
        Cardinality(Admitted \cap Peers(q)) >= cap[q]
=============================================================================
