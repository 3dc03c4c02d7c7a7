# provii-issuer: a TLA+ verification project

provii-issuer is a Cloudflare Worker that turns an officer's or a client's
statement about a date of birth into an attestation, and an attestation into a
blind, age-proving credential. It has no process of its own that lives longer
than a request: every request is handled by some isolate, awaits storage calls
one after the other, and shares its state with all the others through Workers
KV (eventually consistent, no transactions) and two kinds of Durable Object
(single-threaded per shard, with one alarm). What is hard to test in it is what
happens between the awaits. This project models that, checks it with TLC and
proves the central claims with TLAPS.

Paths below are relative to the repository (`src/routes.rs` is listed in
`PROJECT.json` as `src/src/routes.rs`).

## 1. Inventory

| Part | State | Operations | Talks to |
|---|---|---|---|
| ResourceLockDO (`durable_objects/resource_lock.rs`) | per shard: consumption records, leases, one alarm | `/consume`, `/acquire`, `/release`, `/reset`, alarm | called by challenges, lockout, both rotations |
| NonceDO (`durable_objects/nonce_do.rs`) | per shard: nonce records, one alarm | check-and-set with capacity purge, alarm | called for signed requests and attestations |
| Signed requests (`session.rs`) | none of its own | timestamp window, nonce, HMAC | NonceDO |
| Lockout (`storage.rs`, `session.rs`) | KV: failure counter, lock flag | check, count a failure, lock, clear | a lease of ResourceLockDO |
| YubiKey challenges (`storage.rs`) | KV: the challenge and its used flag | create, consume once | a consumption record of ResourceLockDO |
| Signing keys (`key_rotation.rs`) | KV: one record per version | rotate, select the active key, load it, publish JWKS | two leases of ResourceLockDO |
| Rate limits (`rate_limiting.rs`) | KV: counters per hour, plain, in shards or per client; per isolate: tier cache, shard cursor | check and count, look up the tier, warn | every route |
| Attestations and blind issuance (`routes.rs`, `storage.rs`) | KV: issuer configuration, Ed25519 records | create, present, rotate the attestation key | NonceDO, a lease, signing keys |
| KEK pair (`kek.rs`, `storage.rs`) | per isolate: cached `ISSUER_KEK`, `ISSUER_KEK_PREVIOUS`, verdict of the preflight | preflight, decrypt with fallback | Secrets Store |
| Service credentials (`secret_cache.rs`, `health.rs`, `session.rs`) | per isolate: a hash per slot, each with its age | authenticate against the current, then the previous slot | Secrets Store |
| Key-rotation tool (`tools/key-rotation`) | files, KV | re-encrypt all records under a new KEK, verify | the same KV namespaces |
| Officer, client and key records (`storage.rs`) | KV | look up, rewrite `last_used`, create | authentication, KEK pair |
| Gates and routing (`lib.rs`, `routes.rs`, `cors.rs`) | per isolate: the current Context, the address salt, the audit logger | body gate, prefix gate, Sec-Fetch policy, method tables, per-IP limit, routing, headers | every handler, audit |
| Internal administration (`internal_admin.rs`, `internal_version.rs`) | KV: cap, lockout, fixtures | version, replay probe, manifest, clean-up of fixtures | NonceDO, service credentials |
| Analytics, logging, validation, cryptography, health reports, sandbox credentials | none that a decision depends on | | |

A request to create an attestation runs through a per-IP cap (rate limits), the
timestamp window, the officer's challenge or the client's nonce (challenges,
signed requests), the lockout around both, a quota, and then signs with the
default attestation key. A presentation runs through its caps, the candidate
keys of the configuration, the attestation nonce and the active RedJubjub key.
The two admin rotations move the keys under the feet of both.

What makes each part correct:

- ResourceLockDO: a resource is granted once per window; two live leases on one
  name never coexist; no record is left behind without an alarm.
- NonceDO and signed requests: no nonce is accepted twice while it is promised;
  a signed request is accepted once however it is duplicated and delayed.
- Lockout: failures counted from a settled counter are not lost, the threshold
  of them leads to a lock, nobody is locked early.
- Challenges: verified against once; not lost without a reason.
- Signing keys: one active key, no key overwritten, no signature under a key
  that had been rotated out, as far as a KV that lags and a lease that may run
  out allow; and rotation recovers from a failed one.
- Rate limits: how far a cap without atomic increments can leak; no refusal
  that was not earned.
- Attestations: one credential each; one rotation does not invalidate them.
- KEK rotation: every record is readable while the window is open, none needs
  the old KEK when it is removed, a namespace with a failure is left as it was.
- Service credentials: a retired one is refused once the caches have expired, a
  valid one is not refused.
- Gates: an audited refusal is audited once, by whichever request's Context; the
  method tables agree with the router; headers do not depend on which gate
  answered.
- Internal administration: one service per nonce within its TTL, no nonce spent by a
  caller without the token, a reported clean-up is complete.

The hard behaviours are listed one by one, each at its line and with the
properties that would notice it, in `PROJECT.json` under `hazards`.

## 2. Modules

| Module | Models | Composes |
|---|---|---|
| `LockService` | what ResourceLockDO promises: grants a window apart, exclusive leases | |
| `ResourceLock` | one shard of ResourceLockDO with its alarm | implements `LockService` |
| `NonceDO` | one shard of NonceDO with its alarm | |
| `SignedRequests` | handlers of delivered copies of signed requests | `NonceDO` |
| `Lockout` | attempts against one lockout actor | lease operators of `LockService` |
| `Challenge` | challenges from creation to consumption | grant operators of `LockService` |
| `KeyRotation` | rotations and signers over key records in a KV that lags | |
| `RateLimit` | requests on one cap: plain, sharded, per-client quota with its tier cache, nonce tripwire | |
| `BlindIssuance` | attestations from creation to credential, attestation-key rotation | |
| `KekRotation` | the tool's runs, the operator, cached KEK pairs, requests reading, rewriting and creating records | |
| `SecretSlots` | rotation of a two-slot credential seen through caches; the KEK preflight | |
| `Routes` | the gates, tables and headers as operators on a request | |
| `Gateway` | the requests of one isolate from arrival to handler, and their audit | `Routes` |
| `InternalAdmin` | the internal endpoints behind the gates | `Gateway` |
| `MC*` | the instances TLC checks | |
| `*Proofs` | the theorems; `RequestProofs` has those of the nonces, the signed requests and the rate limits, `AuthenticationProofs` those of the lockout and the two-slot credentials | |

State and actions keep the source's names. The common shape is a program counter per
request (`pc`) whose steps are the stretches between two awaits; what a request read
before an await is a variable of its own (`seen`, `got`, `ver`, `now`), so that it
can be stale when it is used. A Durable Object handler is one action, since the
platform runs it without interleaving. `Faults` (or `FaultyKeys`, `FaultyNonces`)
makes storage calls fail; where an error can come back although the call took
effect, both outcomes are there. Where a lease orders the requests, a read of KV may
return what was replaced less than `KvLag` ago (in `KeyRotation`, what has not
propagated yet): the lease does not make reads current. `Crash` cuts a request off.
Variables marked `history` in the declarations are read by properties only.

Correspondence, module by module:

- **ResourceLock.** `consumed` and `lock` are the object's storage, `alarm` its
  alarm in seconds. `consume`, `acquire`, `release`, `reset` and
  `alarm_handler` are the handlers whole, with their `set_alarm`. A failed read
  is taken for an absent key, as in the code; the properties are about the
  *other* keys of the shard.
- **NonceDO, SignedRequests.** The handler checks expiry with `now <=
  expires_at`, purges when the shard is at capacity and stores anyway, and sets
  the alarm; the alarm deletes what has expired and reschedules itself.
  `SignedRequests` puts the timestamp check and the nonce check of a handler in
  two steps with up to `Processing` seconds between them.
- **Lockout.** check of the flag, verdict, acquisition of the counter's lease,
  read, write, release, `lock_account`; a success deletes counter and flag in
  two steps without the lease. The verdict (HMAC) is a choice. `older` holds the
  counts that a read may still return, `flagLag` does so for the flag; the put of
  the count may take effect and report an error, after which `lock_account` is not
  called. `settled` counts the failures whose read could only return the last
  count and whose put was reported as done.
- **Challenge.** put, grant by the Durable Object, KV read up to `KvLag` old,
  check of `used` and `expires_at`, put of the used flag.
- **KeyRotation.** `acquire_outer`, `acquire_inner`, listing, loading record by
  record, deprecating record by record, storing, two releases. `older` holds what
  KV may still show of each record; `Listings` and `Readable` choose among it, and
  `Propagate` ends it. A lease may run out at any time (`LeaseEnds`). Records carry
  the shape they were last written in (`onboarded`, `rotated`, `stripped`),
  because a record written back by `save_key_metadata` loses fields the loader
  needs. The history `clean` holds the rotations that listed settled records, with
  no other at work, and whose lease has lasted so far; `strays` the keys
  stored by others since the last clean one; `base`, `spread` and `floor` the last
  key of a clean rotation, the last that has propagated, and that at the start of
  a signer.
- **RateLimit.** Reads, comparison and write of a counter are separate steps;
  the sharded variant reads the shards one by one, then its own again. A quota
  request first takes the limit of the client's tier from the isolate's cache or
  reads it; the hour may turn in between. The tripwire counts and warns, and
  never refuses. Two history variables hold what the code has no record of: the
  requests counted on a key since a request read it (`missed`), and those whose
  increment a write based on an older read has wiped out (`overwritten`).
- **KekRotation.** Of a ciphertext the model keeps the KEK it is under. `tool` is
  a run of the command line tool (phase one reads and re-encrypts a namespace in
  memory, phase two writes it, `--verify-only` and `verify-rotation` only read);
  `proc` and `step` are the operator's procedure, one of `Procedures`; `req` are
  worker requests, which fetch the two secrets one after the other into the
  cache of their isolate, decrypt with the current and then the previous KEK,
  and write the record back (`last_used`) or create one. The operator takes only
  steps that the repository names: run the tool, set or remove a secret, deploy,
  verify. `calm` is a history of the verifications that began while no request was
  under way; nothing in the repository asks for that, and section 5 says what
  happens without.
- **SecretSlots.** Each lookup of a slot is: a cached value that is fresh, or a
  question to the store and, later, its answer, stored under the time of the
  question. A value that cannot be hashed is stored all the same (`Unhashed`) and
  matches nothing until it expires. A request looks the current slot up, then the
  previous one if the first does not match, then both again for its log line and
  its header. The operator follows the documented order: the new secret into the
  current slot, then the old one into the previous slot (`rotating` in between),
  later its removal. The preflight's verdict is cached on top of the cached KEK.
- **Routes, Gateway, InternalAdmin.** `main` in its order: the Context is stored and
  the body and prefix gates answer before the first await, then the salt is resolved
  (cached, fetched, or ephemeral after a failed fetch; the logger that finds none
  resolves one itself), the Sec-Fetch policy, OPTIONS and the method tables, the
  per-IP limit, and the handler. A refusal that is audited takes whichever Context
  the isolate holds and emits its event in the background, or emits it inline when
  there is none. `InternalAdmin` continues with the read-then-put cap, the lockout,
  the token, the nonce, which is forgotten when its TTL is over, and the operations;
  a clean-up lists page by page and deletes key by key while fixtures are seeded and
  another clean-up runs. Verdicts of the rate limiter are inputs.
- **BlindIssuance.** `configs` is the list of all issuer configurations
  written; reading returns the last, or one replaced less than `KvLag` ago, to
  creators, presenters and rotations alike; a rotation's lease may end at any
  time. `hurried` is a history of the rotations that read while the last change
  was spreading or outlived their lease, `torn` of the configurations they wrote.
  A presenter reads the configuration, then the clock and the candidate
  kids, then consumes the nonce, then verifies with what it read before. The
  gates in front (caps, authentication, body) and the failures behind (
  commitment, signing key, schema) are early answers that may happen or not;
  what they keep state for is in the modules above. The NonceDO appears as what
  `NoReplay` says of it; the RedJubjub key is `KeyRotation`'s. Ed25519
  verification is external: it accepts what was signed under the kid and is not
  older than the maximum age.

## 3. Runs

Each passing run has one mutant per property: a plausible slip in one
definition under which TLC finds the property violated. Each module's
type invariant documents its variables and is part of the inductive invariants;
only that of `BlindIssuance`, which also says that every configuration's default
kid has its key records, is a property of a run.

| Run | Instance | Shows |
|---|---|---|
| `resource_lock` | 2 resources with different TTLs, 1 lock name, 3 tokens, storage of one resource failing, production and sandbox | one grant per window, exclusive leases, an alarm for every record, refinement of `LockService` |
| `signed_requests` | 1 request stamped ahead, 2 handlers at a time, other traffic on 3 nonces of which one is faulty, capacity 2, TTL = 2·Window + Processing | accepted once, at the exact boundary of the constants; no replay in a shard that overflows; an alarm for every record, and (fair) everything forgotten once requests stop |
| `lockout` | 4 attempts, genuine or not, threshold 2, empty, used and corrupt counters, KV a second late, all calls failing | settled failures remembered, locked when they reach the threshold, locked only when earned |
| `challenge` | 2 challenges, 3 requests, KV a second late, answers lost | used once, not lost without a reason |
| `key_rotation` | 2 rotations, 1 signer, 4 versions, from no key, one, or two active ones; stale listings and reads, failures, cut-offs, leases that run out | one active key, none dropped, none used after rotation, each as far as reads were settled; recovery |
| `rate_limit` | 4 requests, limit 2, one other tier, 2 shards, 2 isolates, 2 hours, failures | the bound on the leak; refusals earned |
| `blind_issuance` | 1 attestation, 2 presenters, 2 rotations, 4 kids with different records, KV lag 1 for all of them, leases that run out, failures | one credential; one rotation tolerated |
| `kek_rotation` | a signing key and an officer with a previous secret, a key and a client to be created, 2 requests, the order the tool prints and the one with the re-encryption last, a re-run, KV and store failing | safe to remove after a calm verification, readable while the window is open, failed namespaces untouched, no mixed record, bounded staleness of the cached pair |
| `secret_slots` | 4 surfaces, 2 requests, two rotations in the documented order, one outage or failed hash, TTL 2, operator's pause 2 | retired credentials refused in time, valid ones accepted once the caches can know them, a KEK that is gone noticed in bounded time |
| `gateway` | 2 requests: every method on every path, flawed requests, browsers of 3 origins, pairs of admin calls on one nonce, at once or after its TTL; sandbox and production | audit once and with one salt, tables agree, CORS and caching headers, nonces, clean-up |

Two runs are expected to fail. Each states what the repository says of itself and
shows the code doing otherwise:

| Run | Says | Does |
|---|---|---|
| `key_rotation_lost_read` | "Get all signing keys (all versions, all statuses)" | a record that cannot be read is left out, its version assigned again and its key overwritten |
| `kek_removal` | "All entries decrypt with the current KEK. Safe to remove ISSUER_KEK_PREVIOUS." | a rewrite of `last_used` that was under way puts an officer's record back under the old KEK after the verification has read it; one request, no failure |

### Bounds

Time is counted in units small against the code's seconds; what matters is the order
of the constants and their boundary cases, so TTLs are 2 to 4 units, equal where the
code has them equal (`Ttl = DoTtl` for challenges), exactly at the margin where it
has a margin (`NonceTtl = 2·Window + Processing`), and each `MaxTime` lets the
longest record expire and something happen after it. `blind_issuance` uses `MaxAge =
Processing = 1`, so that the nonce record (2) outlives the attestation by no more
than the slowest handler needs. Two actors suffice for a race; one more is there
wherever a third can act on what the race left (a third holder, a fourth attempt
after a clear). A limit or threshold of 2 has a value below, at and above it.
`MaxVersion = 4` lets two rotations succeed on top of the two active keys of the
fullest initial store, which stands for what earlier rotations that did not see each
other left behind. `MaxNonceCapacity = 2` with three nonces makes the shard purge
and overflow; the faulty one is listed last. `KvLag = 1` lets a read miss one write.
`MaxReruns = 1` lets a failed run of the tool be repeated once, `CacheTtl =
Processing = 1` in `kek_rotation` lets a request hold a pair that the cache has
dropped, and `MaxTime = 2` lets the caches expire; `Patience = 2` in `secret_slots`
is `CacheTtl`, the least pause with which `OverlapAccepted` holds (with 1, TLC finds
a valid credential refused), and `MaxSecret = 3` lets the previous slot be filled a
second time, which is when the pause matters. `MaxQuota = 3` caps a client's
counter. In `gateway` a cap of 1, a lockout after one failure, a nonce TTL of 1 that
ends before `MaxTime = 2`, 2 fixtures and pages of 1 put both requests at every
limit; the workloads pair every request with one that shares its path, its origin or
its nonce. Symmetry is used for requests and tokens only, which no definition
orders, and not in `signed_requests`, which checks a liveness property.

`CHECK_DEADLOCK FALSE` is set because all requests may be done and time at its
bound; nothing in the system waits for ever: a taken lease is refused, not
awaited.

### Fairness

Only `EventuallyForgotten` needs any (`FairReqSpec`): weak fairness of `Tick` (time
passes) and of `alarm_handler` (the platform delivers an alarm at least once and
retries it). No fairness is assumed of requests, which may stop at any await.

## 4. Proofs

| Theorem | Module | Says, for all constants |
|---|---|---|
| `TypeCorrect` | ResourceLockProofs | types of a shard |
| `SingleUseHolds` | | outside the environments with `/reset`, no resource with sound storage is granted twice in its window |
| `LeaseExclusiveHolds` | | no two live leases on a name |
| `AlarmPendingHolds` | | within the list cap, a sound record has an alarm, whatever fails for others |
| `Refinement` | | the shard implements `LockService` |
| `NoReplayHolds` | RequestProofs | no nonce is stored twice in the window promised |
| `NonceAlarmPendingHolds` | | `WithinCapacity`: a stored nonce with sound storage has an alarm pending |
| `AcceptedOnceHolds` | | a signed request is accepted once |
| `RateLimitTypeCorrect` | | types, the histories included |
| `RefusalEarnedHolds` | | nobody is refused, and the tripwire does not warn, before the limit has been let through |
| `AdmitBoundHolds` | | a cap leaks by at most the requests in flight together, the increments that failed and those wiped out |
| `LockoutTypeCorrect`, `FailuresRememberedHolds` | AuthenticationProofs | types; under `Prompt`, the counter is never below the failures counted from settled reads |
| `LockedWhenCountedHolds` | | under `Prompt`, settled failures that reach the threshold have led to `lock_account`, or are about to |
| `LockEarnedHolds` | | nobody is locked before the threshold; no condition |
| `SecretSlotsTypeCorrect` | | types; no entry dated in the future, the current slot never empty |
| `RetiredRefusedHolds` | | a retired credential is refused from the end of the cache's TTL on; no condition |
| `OverlapAcceptedHolds` | | if `CacheTtl <= Patience`, a credential that was in the previous slot, or in the current one for a TTL, is not refused while it is there, the store answers and hashing succeeds |
| `PreflightExpiresHolds` | | if `Processing <= CacheTtl + OkTtl - 2`, the preflight vouches for a KEK that is gone for no longer than its two caches live |
| `ChallengeSingleUseHolds` | ChallengeProofs | under `Timely`, a challenge is returned to one request |
| `NotBurnedHolds` | | a challenge granted in time is returned unless a call failed or a read was too old; no condition |
| `KeyRotationTypeCorrect` | KeyRotationProofs | types |
| `RotationRecoversHolds` | | a rotation that succeeds repairs what failed ones left; no condition |
| `OneActiveHolds`, `NoKeyDroppedHolds`, `NoRotatedOutKeyHolds` | | under `AllRead`, for rotations that list settled records, alone and under a lease that lasts: one active key from then on, no key overwritten, and once it has propagated no signature under an older one |
| `BlindIssuanceTypeCorrect`, `RedeemedOnceHolds` | BlindIssuanceProofs | types and loaded default kids; one credential per attestation |
| `OneRotationToleratedHolds` | | an attestation in time survives one change of the default kid, unless a hurried rotation wrote in between; no condition |
| `KekRotationTypeCorrect` | KekRotationProofs | types, whatever the records, namespaces and procedure |
| `KekFreshHolds` | | `CacheTtl` after a change of a secret no isolate serves the former value |
| `NamespaceUntouchedHolds` | | the tool writes nothing in a namespace in which an entry failed |
| `FirstFieldSpeaksHolds` | | no record ever mixes the two KEKs |
| `SafeToRemoveHolds` | | in any procedure, no scanned record needs the old KEK when it is removed after a verification that began after the deployment and with no request under way |
| `WindowReadableHolds` | | in any procedure, requests of the worker deployed with both KEKs, that could read them, decrypt every record that was decryptable from the start |
| `GatewayTypeCorrect` | GatewayProofs | types of the gateway and the administration |
| `ContextOnceHolds`, `AuditOnceHolds`, `AuditCorrelatesHolds` | | one event per Context, one per refusal, hashed with the isolate's salt |
| `MethodsAgreeHolds`, `HeadersAgreeHolds` | | OPTIONS names itself and what the 405 names, and neither misses a method of the router; the two header paths with each other, for any request and any allowlist |
| `OneServicePerNonceHolds`, `NonceSpentByHolderHolds` | | two operations with one nonce are more than its TTL apart; only a holder of the token spends it |
| `FixturesClearedHolds` | | a successful clean-up left nothing that was there when it began |

The assumptions are the named `ASSUME`s of the modules, which TLC evaluates in
the runs, and the conditions named in the theorems, each of which the run of the
module satisfies:

- `WithinCapacity` (NonceDO): there are at most `MaxNonceCapacity` nonces, so that
  one listing sees the whole shard. Beyond it the alarm looks at part of the
  shard and may not be set again (section 5).
- `Prompt` (Lockout): a lease holder is done before its lease ends. The code has no
  fencing, so nothing can be said of the counter without it; `LockEarned` is
  proved without it. In `KeyRotation` and `BlindIssuance` leases do run out, and
  the properties say what that costs.
- `Timely` (Challenge): `Processing + KvLag < DoTtl`.
- `AllRead` (KeyRotation): no rotation loses the read of a record. The run
  `key_rotation_lost_read` shows what happens otherwise.
- `CacheTtl <= Patience` (SecretSlots): the operator lets the caches expire between
  two rotations. It is the least pause that will do.
- `Processing <= CacheTtl + OkTtl - 2` (SecretSlots): no request takes longer than
  the two caches behind a preflight live together, which are minutes
  (`CACHE_TTL_MS`, `KEK_PREFLIGHT_OK_TTL_MS`). It is needed for a probe whose
  answer was on its way when the store failed.

`RateLimit` assumes that there are finitely many calls, since its properties count
them. `AcceptedOnceHolds` rests on `2·Window + Processing <= NonceTtl`,
`RedeemedOnceHolds` on `Processing <= MaxAge`; both are assumptions of their
modules. The theorems on `KekRotation` assume that no record mixes KEKs at the
start (`InitialAssumption`): that is how the key tool leaves them. Those on
`KeyRotation` assume of the initial store only that its keys are older than those
generated later (`InitialKvAssumption`); how many of them are active does not
matter.

The arguments:

- *ResourceLock.* `SingleUse` is not inductive: it says nothing of the record
  that prevents a second grant. `GrantRemembered` adds it: a grant still in its
  window has its record, which neither the alarm nor another key's failure
  removes. For leases, `LeaseRemembered` and `LeaseTokensIssued` say that a live
  lease is the stored one and that its token was issued, so a release with an
  old token touches nothing. The refinement maps the record and the lease to the
  service's grant and holder and takes one step per action.
- *Nonces.* `PromiseKept` ties each promise to a record that outlives it;
  `AcceptedHeld` and `HandlingChecked` carry the timestamp of a handler's check
  to the moment it asks for the nonce. Within the capacity the alarm's listing
  is the whole shard (`ScansAll`), so it finds every sound record and sets the
  next alarm for the earliest of those it leaves.
- *RateLimit.* Both properties of the counters are about sets of requests, so the
  invariants compare each number in KV or in hand with the set it stands for. A
  count is never above the requests counted (`NeverAbove`): a write adds one to
  what was read, and its writer was not counted before; a sum over shards read
  one after the other stays below the requests counted on the shards passed.
  Hence a refusal is earned. From the other side (`NeverFarBelow`), a count misses
  at most the requests that were wiped out; what a request read misses in
  addition those counted since on its key (`missed`, which are in flight together
  with it), and a sum those it met. `CounterStep` reduces every action to one of two
  things that can happen to the counters: nothing (`Quiet`) or one increment that
  lands (`Lands`). An earlier version of the model only counted the increments
  wiped out; to be proved about, the histories had to become sets, and since
  an increment wiped out twice is lost once, the bound has become tighter.
- *Lockout.* Every attempt at the counter holds a live lease (`HoldersLive`), so at
  most one is between read and write (`Alone`). `FailuresRemembered` alone is not
  inductive, since a write may start from an older count: no count that can still
  be read is more than one behind the settled failures (`OlderInTime`), and one
  that an attempt read fresh is not behind at all (`ReadInTime`), so that adding
  one brings every write up to them, and a settled one above. The write that makes
  the settled failures reach the threshold has therefore a count at it in hand and
  goes on to lock. `LockEarned` needs none of that: a lost update or an older read
  only lowers the count, and `EarnInv` bounds everything an attempt has in hand by
  the failures there were.
- *SecretSlots.* `OperatorInv` orders the operator's changes: a secret issued is out
  of the slots exactly while it is in neither (between the two steps of a rotation
  the old one is, and comes back), and those of earlier rotations were taken out
  `Patience` before the present one. `Found` says what may be relied on of a value
  that some slot had at a date: the secret was not retired before it, nothing
  newer was in a slot before that date if it is the current slot, and, of the
  previous slot, it is there still or has been taken out. No step undoes this
  (`FoundStays`), so it holds of every cache entry under its date and of every
  answer under the date of its question (`CacheInv`, `AnswerInv`), however late the
  answer arrives. A value that is looked up was therefore found less than a TTL
  before the request began, which is `RetiredRefused`, also for the hash of the
  current slot that a request carries over to the second lookup (`Knows`). For
  `OverlapAccepted`, a credential that is settled and not the current one is older
  than it; if the entry for the previous slot then holds another secret while this
  one is in it, that other one was taken out `Patience` ago and its entry has
  expired. A failed read or hash makes the request unsound (`Sound`), which
  excuses it. `PreflightInv` bounds by `turned`, the store's last failure or
  recovery, the date of every verdict, entry and answer that is out of date.
- *Challenge.* Grants of one challenge are `DoTtl` apart (`GrantInv`), a handler
  marks within `Processing` of its grant (`MarkInv`), and `Timely` makes that
  mark visible before the next grant can read; hence one claim (`ClaimInv`).
  `NotBurned` follows from `BurnInv`: a handler in flight was granted its challenge
  at most `Processing` ago, and only a challenge that was served is marked.
- *KeyRotation.* `OneActive` alone is not inductive: a rotation deprecates what it
  saw in its listing, so the invariant `KeyInv` must say that the listing is right.
  `CleanAlone` gives the inner lease to a clean rotation at work and has no other at
  work next to it; `CleanView` says that its copy agrees with KV up to what it has
  yet to load, and that nothing it has yet to load can be read stale. Hence the
  version it assigns is above all stored ones, and its own writes leave no older
  key active: no active record holds a key older than `base`, and none that can
  still be read one older than `spread` (`ActiveAbove`). A signer that starts then
  cannot get below its `floor` (`SignerAbove`). `RotationRecovers` has an invariant of
  its own, `Recovered`: between rotations the key of the last one to end is usable.
- *BlindIssuance.* The record of a consumed nonce lasts until at least the
  signing time plus `2·MaxAge` (`AttInv`). A presenter that gets the nonce a
  second time does so later than that, but read the clock at most `Processing`
  before, so its attestation is too old (`PresentInv`) and at most one presenter
  of a young attestation is ever past the nonce (`ClaimInv`). `TargetInv` carries
  the check of the new kid across the await before the put. For
  `OneRotationTolerated`, the configurations form a chain (`ChainInv`): each that is
  not torn has as previous kid the default of the one before, because its writer,
  not being hurried, read the newest one and holds the lease still (`Unhurried`), so
  that whatever was written since is torn (`WriterInv`). An attestation is signed
  under the default of the configuration its creator read (`MadeInv`), so a presenter
  with that configuration or the next one tries its kid (`TriedInv`).
- *KekRotation.* `KekInv` dates what is cached and what a request has in hand:
  a value that differs from the secret was fetched before the secret's last
  change (`GoodCache`, `GoodReq`), so it is out of the cache a TTL later. A request
  writes back the record it read with the fields it read, re-encrypted as a
  whole or not at all, and so does the tool (`AllUnmixed` covers what requests and
  the tool hold in memory as well as what is stored). `ToolInPlace` says that the
  tool's writes belong to the namespace it is at, which is not among the bad
  ones, and that it never goes back to an earlier namespace. `SafeInv` adds what a
  verification achieves that began after the deployment and with no request under
  way (`Quiet`): no pair with the old KEK is fresh or will be when stored
  (`Forgotten`), no request has the old KEK in hand (`NewInHand`), and what a request
  will write has the old KEK in it exactly if what it overwrites has (`Agree`), so no
  record falls back; hence the verification has either objected to a record it has
  been through or may rely on it (`RunSpeaks`), and when it passes no record, stored
  or held, has the old KEK in it (`Clean`), which no later step changes. `WindowInv` is
  about the isolates of the last deployment: with no secret changed after it, what
  they cache and their requests hold is what the secrets are, and the records that
  were decryptable from the start (`Good`) remain under one of the two KEKs. That
  the moment without requests has to come before the verification, and cannot be
  replaced by a pause of the longest request, the proof attempt showed: rewrites of
  `last_used` that overlap hand the old record on for longer than any one of them
  lasts (three requests; two do not suffice).
- *Gateway and administration.* One invariant (`GInv`) says of each request, by its
  stage, what its gates established: an answer was made by one of the header
  paths for this very request (`AnswerSafe`), an audited refusal has had exactly
  the events its stage implies (`AuditSafe`), a handler's stage was reached over
  a registered route and, later, with a valid token (`RouteSafe`), a served request
  has its own consumed nonce (`ServeSafe`), and what a clean-up still owes lies on
  its page or past its cursor (`ClearSafe`). Only four things are shared, and
  `SharedStep` lists how a step may change them: nonces are only added, each with
  its time, and not again within its TTL (`Apart`), fixtures
  only removed (except by seeding, which makes the key due to nobody), a Context
  is taken once (`ContextInv`: the stored one carries nothing), and the salt is set
  once. So a step concerns its own request (`LocalStep`) and the others stay safe
  (`SafeMonotone`). A page lists the least keys left (`PageIsLeast`), which is why
  the cursor passes nothing by.

Only model-checked: `EventuallyForgotten`, which is liveness under fairness and out
of this prover's reach. Every other property of the passing runs is a theorem as
well. The runs `key_rotation_lost_read` and `kek_removal` show counterexamples; there
is nothing to prove about them.

## 5. What the models show besides

- In `/consume` a failed storage read counts as "not consumed": the resource with
  the failing storage can be granted twice. `SingleUse` is stated for the others.
- Each `/consume` and `/acquire` moves the shard's one alarm to its own TTL, so
  steady traffic postpones the clean-up of earlier records without bound; and
  with more keys than `MAX_LIST_ENTRIES` the alarm ignores the rest.
- A success deletes the lockout counter and then the flag. A lockout earned by
  others between the two deletions loses its flag.
- In the one second in which a challenge and its consumption record both end, the
  Durable Object can grant again; the KV expiry or the used flag then prevents
  the second use.
- Two attestation rotations within the age of an attestation make it unverifiable,
  although `storage.rs` (1138) speaks of attestations that "continue to verify
  until they expire". The same happens to an attestation made before the first
  of two rotations in quick succession: if the second reads the configuration from
  before the first, it writes a previous kid that is one too old, and the lease,
  which `storage.rs` (1074) relies on, does not prevent it. And it happens to an
  attestation made right after a rotation that is presented where the old
  configuration is still served.
- Rotation requires that the new kid's records exist, not that they are active
  or valid: promoting a retired kid stops creation, or creates attestations that
  no presenter accepts.
- Past the nonce, any failure leaves the holder with a spent attestation.

- A wrong response that finds the lease on the lockout counter taken is rejected
  uncounted, one that reads a count from before the last write overwrites it, and
  one whose put reports an error although it took effect does not lead to
  `lock_account`, while `storage.rs` (280) says that an attacker "still locks at the
  threshold (no amnesty)". `FailuresRemembered` and `LockedWhenCounted` are about the
  failures that are counted `KvLag` apart.
- The comment on the rotation's lock (`key_rotation.rs`, 187) has it that the lock
  keeps two rotations from storing the same version. A rotation that lists before
  the last one has propagated misses the new version and stores it again, and a
  signer may then, and until the rotation has propagated, sign under the key just
  rotated out, although the comment on the listing (139 to 151) calls it always
  correct. The properties of `KeyRotation` begin where the reads have settled.
- JWKS reads the `vk` of the record of `default_kid`. The rotation of the signing
  key leaves `default_kid` alone (the rotation of the attestation key changes it,
  `routes.rs`, 2594), and `save_key_metadata` writes the old record back without
  `vk`, so JWKS fails after the first rotation of the signing key, where
  `routes.rs` (718) has relying parties "immediately pick up the new key". JWKS is not
  in the model.
- `authfail_ip_exceeded` (`session.rs`, 139) reads `authfail_ip:HASH`, the counting
  writes `blind:authfail_ip:HASH|hour`: the fast failure never triggers.
- The tier cache is described as 60 seconds long (`rate_limiting.rs`, 106), but is
  compared with the time truncated to the hour, so that an entry lives until the
  hour ends, and a failed read pins the default until then. The model has
  the cache as it is, by the hour; time within an hour is not modelled.

Keys and credentials:

- After a run of the tool that failed between two writes, "Re-run without
  --verify-only to complete re-encryption" (`tools/key-rotation/src/main.rs`, 1008)
  does not work: the run decrypts with the old KEK only and fails on the
  records it has already rewritten; the namespace then stays as it is.
- "All entries decrypt with the current KEK. Safe to remove ISSUER_KEK_PREVIOUS."
  (`tools/key-rotation/src/main.rs`, 1489) is not so if a request was under way
  between the tool's write and its verification: an update of `last_used` that
  read an officer's record before `rotate-kek` rewrote it (`storage.rs`, 821) puts
  it back under the old KEK after `verify-rotation` has read it, and the removal
  leaves it unreadable. The run `kek_removal` shows it (`VerdictSafe`). `SafeToRemove`
  says when the removal is safe: after a verification that began with no request
  under way. Nothing in the repository asks for that moment. A stale read of KV is
  such a request too, so that it includes the propagation of the tool's writes.
- In the order the tool prints, records are under the new KEK before the worker
  has it: requests fail until the secrets are changed and the worker deployed, and
  the rotation is not "zero-downtime" (`kek.rs`, 286). A request may also read a
  record before it is rewritten and fetch the previous KEK after it was removed.
  `WindowReadable` is about the time in between: the worker is deployed with both
  KEKs, and neither has changed since.
- A sandbox client as the worker mints it (no API key hash) and a signing key as
  the worker rotates it (`private_key_encrypted`) make the tool refuse their
  namespace. Records under keys without the scanned prefix are not re-encrypted.
  The KEK of `--generate` is neither printed nor saved. The 72-hour TTL of a
  sandbox record is lost when `last_used` or the tool writes it back.
- The documented rotation of a dual-slot credential (`routes.rs`, 211) sets the new
  key first and copies the old one to the previous slot second; in between, the old
  one is refused. Callers with the new key are refused until the cached current
  slot expires. Two rotations within a cache TTL refuse the still valid middle
  one; hence `Patience`.
- A secret that cannot be hashed is cached as such (`secret_cache.rs`, 110), so one
  failure refuses a valid credential for a TTL. `SANDBOX_API_KEY` is cached for the
  isolate's life.
- A negative preflight is cached for 30 seconds, so that issuance is refused that
  much longer than the KEK is gone; the comment (`kek.rs`, 145) has it that the check
  "NEVER makes a successful issuance fail". `PreflightExpires` is about the other
  direction only, a positive verdict.

Gateway:

- Of two requests that resolve the salt at once, the comment says "we return
  whichever won", but each goes on with its own: the loser's address falls into
  another rate-limit bucket. A first fetch that fails pins an ephemeral salt for
  the isolate's life. The audit logger does follow the cached salt
  (`AuditCorrelates`).
- The event of a refusal may ride on the Context of another request, even of one
  that has been answered.
- Internal callers share the address "unknown", and so one cap and one lockout.
  The cap is ten, the lockout five failures, so a caller within the cap can lock
  the others out. Reading and writing the cap are two steps, so concurrent
  callers exceed it; a failed read refuses although the comment says "Fail open".
- A nonce is spent when NonceDO's answer is lost; the retry is refused. It is
  forgotten after 300 seconds, and the internal endpoints check no timestamp, so
  that a repeated request is then served again; the comment (`internal_admin.rs`,
  39) promises no more than "within the dedupe TTL", and neither does
  `OneServicePerNonce`.
- `delete_test_fixtures` audits success also for what it answers with 400 or 503.
- OPTIONS advertises DELETE for `/_internal/test-fixtures/a/b`, which the router
  answers with 404. The `Allow` of an OPTIONS answer names OPTIONS, that of the 405
  for the same path does not. Answers of the body, prefix and Sec-Fetch gates carry
  no CORS headers.

## 6. Not modelled, and the plan

Not modelled, with the reason, in `PROJECT.json`: analytics and logging (best
effort), cryptography (its verdicts are inputs), validation and types, health
reports, sandbox credentials, the officer administration tool, the key generator,
and `session_security.rs`, which is not compiled in. Of the key-rotation tool, the
commands for single HMAC secrets and signing keys work on KV keys the worker does
not read. Left out as well: JWKS; time outside the bounds; time within the hour of
the tier cache; the end of the hour of the internal cap; a sandbox record that
expires while it is in use. Stale reads of KV are modelled in `Lockout`, `Challenge`,
`KeyRotation` and `BlindIssuance`. In `RateLimit`, `KekRotation` and the list of
fixtures no lease orders the requests, so that a stale read does what one does that
read earlier and is slow, and "in flight" or "under way" includes the time KV takes
to propagate.

The plan, in order; all its steps are done:

1. `ResourceLock`, `LockService` and their proofs: everything else relies on them.
2. `NonceDO`, `SignedRequests` and their proofs.
3. `Lockout`, `Challenge` on top of `LockService`, and their proofs.
4. `KeyRotation`.
5. `RateLimit`.
6. `BlindIssuance` and its proof.
7. `KekRotation` and its proofs: the tool next to live requests.
8. Quotas, tier cache and tripwire in `RateLimit`; `SecretSlots`.
9. `Routes`, `Gateway`, `InternalAdmin`.
10. Proofs of the gateway, of `KeyRotation`, and of what was left in the lockout, the
    challenges, the nonces and `BlindIssuance`.
11. `SafeToRemove` and `WindowReadable` for all procedures.
12. Proofs of `RateLimit` and `SecretSlots`.

What would come next is listed under `hazards` without a property: a shard beyond
`MAX_LIST_ENTRIES`, and the tier cache within the hour.
