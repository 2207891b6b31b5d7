# TLA+ models of hwhkit-rs

hwhkit-rs is a Rust framework for HTTP services: a configuration loader, a
bootstrap pipeline that brings integrations up, a production server around
axum, opt-in middleware (rate limit, idempotency, circuit breaker, tenancy, JWT)
and a durable background scheduler. This directory holds TLA+ models of the parts
with behaviour over time, the TLC runs that check them on small instances, and
TLAPS proofs of their safety properties for every value of the constants.

Source paths below are relative to `src/crates/`.

## Inventory

| Component | State | Operations | What is hard | What makes it correct |
|---|---|---|---|---|
| Circuit breaker (`hwhkit/src/production/circuit_breaker.rs`) | state, opened_at, event queue under a mutex; probe slot, an atomic outside it | `run`, `record` | the slot is released before `record` locks; the clock is read before the lock; futures are dropped | one slot owner at a time, nothing leaves Open early, half-open is decided |
| Scheduler (`hwhkit-scheduler/src/lib.rs`, `storage.rs`) | job table with leases, worker loops, detached tasks | `schedule`, `run` (reap, claim, spawn), `insert`, `claim_due`, `complete`, `requeue_stale` | crashes, lost replies, slow workers presumed dead, skewed clocks | no job lost, overlap only after expiry, cron jobs move forward, stored jobs end up run |
| Bootstrap and server (`hwhkit-core/src/lib.rs`, `hwhkit/src/production/server.rs`, `shutdown.rs`) | provider lists, token, listener, drain timer | `bootstrap_with`, `run`, `serve`, `drain_providers`, signal task | signals in every phase, hung requests, hung shutdown hooks | enabled means initialised, providers close last and in reverse, exit is bounded and only on request |
| Health (`hwhkit-core/src/health.rs`, `hwhkit/src/production/health.rs`) | registry of checks | `register_arc`, `run_all`, `readiness` | checks registered only by successful inits | 200 means every required integration was probed up |
| Idempotency (`hwhkit/src/production/idempotency.rs`) | cached responses in Redis | `call` | GET, handler and SET are not atomic; futures are dropped; Redis fails | no foreign or mismatched replay, no retry executed while its response is stored |
| Rate limiter (`hwhkit/src/production/rate_limit.rs`) | token buckets in Redis, with stamp and expiry | key extractors, Lua script, `call` | lazy refill, expiry, a clock set back, lost replies, fail-open | never more than capacity plus refill, the storage is a bucket, the retry time is exact |
| JWT verifier and JWKS cache (`hwhkit-core/src/jwt.rs`) | key set with its age, refresh lock | `verify`, `key_for`, `lookup_key`, the two single-flight refreshes, `refresh_jwks` | looks at the cache with awaits between them, rotation, silent provider, dropped futures | one fetch at a time, withdrawn keys forgotten, new keys found, every call returns |
| Cron (`hwhkit-scheduler/src/cron.rs`) | none | `parse`, `matches`, `next_after` | field edges, DOM/DOW rule, search limit | least matching minute strictly after |
| Configuration (`hwhkit-config/src/lib.rs`) | none | sources, `deep_merge`, `set_path`, `filter_patch`, `validate_strict` | order of sources, scalars in the place of sections, forbidden paths | later sources win field by field, none is lost in silence, remote patches stay in their policy |
| Tenancy (`hwhkit-core/src/tenant.rs`) | map per tenant | `get_or_insert_with` | check-then-insert | one value per tenant |
| Integration providers (`hwhkit-integration-*/src/lib.rs`) | client handles, pool, sampler task | `init`, `check`, `shutdown` | silent upstreams at each step, a saturated pool, a hung transaction | bounded boot, readiness and drain, order of the loops, no task left behind |
| LLM integration (`hwhkit-integration-llm/src/`) | buffer of the stream, channel to the caller | `resolve_*`, `chat`, `chat_stream`, `embed`, `pump_sse` | chunk boundaries, slow or vanished readers, stalled bodies | chunks in order and whole, the pump ends |

Interaction: bootstrap puts the `ShutdownToken` and the integration handles into
`AppContext`; the scheduler loop, the signal task and the server observe the same
token; the scheduler's store uses the Postgres pool that `drain_providers` closes. The
rate limiter and the idempotency layer share the Redis handle of its provider, and
readiness asks every provider that came up.

`PROJECT.json` lists the parts that are not modelled and why, and the hazards with
the properties that would catch them.

## Modules

| Module | Contents |
|---|---|
| `Breaker` | what a circuit breaker promises: the abstract specification |
| `CircuitBreaker`, `MCCircuitBreaker`, `CircuitBreakerProofs` | the breaker under concurrent callers, and that it implements `Breaker` |
| `JobQueue` | what a durable job queue promises: the abstract specification |
| `Scheduler`, `MCScheduler`, `SchedulerProofs` | worker processes around the Postgres job table, and that they implement `JobQueue` |
| `ProviderChain` | what the boot and drain loops promise the integrations: the abstract specification |
| `Lifecycle`, `MCLifecycle`, `LifecycleProofs` | one process from config load to exit, with readiness, and that it implements `ProviderChain` |
| `Idempotency`, `MCIdempotency`, `IdempotencyProofs` | requests with an Idempotency-Key around one Redis |
| `TokenBucket` | what a rate limiter promises: the abstract specification |
| `RateLimit`, `MCRateLimit`, `RateLimitProofs` | the limiter's script and requests around one Redis, and that it implements `TokenBucket` |
| `Jwks`, `MCJwks`, `JwksProofs` | concurrent verifications around the key cache and a rotating provider |
| `Providers`, `MCProviders`, `ProvidersProofs` | the steps of every integration provider under boot, readiness and drain, and that they implement `ProviderChain` |
| `Config`, `MCConfig` | one load of the configuration from its sources |
| `Llm`, `MCLlm` | one call of the LLM integration, from the handle to the caller's stream |
| `Cron`, `MCCron`, `CronProofs` | parsing an expression and the walk to its next occurrence |

Each model module also defines *seeded faults* right before the definition they
alter (their comments begin "Seeded fault"): plausible mistakes in the code, used to
check that each property notices them. No specification uses them.

### CircuitBreaker

One step is what the code does atomically. The admission block of `run` is one step
under the mutex (`RunClosed`, `RunOpenRejected`, `RunOpenElapsed`, `RunHalfOpen`);
the wrapped call returns (`CallReturns`); the owner of the probe slot stores 0
(`ReleaseProbe`); `record` reads the clock (`Stamp`) and then, under the mutex,
applies the result (`RecordHalfOpen`, `RecordOpen`, `RecordClosed`). `Cancel` drops
the future at its only await. `call[c]` holds the locals of each call. Of the two
history variables, `period` counts the results recorded in a closed period and
`dropped` says whether the future of a probe was ever dropped: the code has no answer
to that, so the properties about recovery are stated up to it.

Abstractions: the failure ratio is a fraction of integers, so the comparison is
exact; `Instant::checked_sub` is taken to succeed, or when it does not to give a
cutoff no event is older than in these bounds; a panic of the wrapped call is a
`Cancel`; 4xx and 5xx are success and failure. A wrapped future need not resolve, as `run`
puts no timeout around it: `HalfOpenResolves` speaks of the runs in which those that were
let through do.

`Breaker` has no mutex, no slot, no queue of results and no window. A caller is out from
its admission until `record` is done with it (`Out`), and is probing as long as it holds
the slot (`Probing`); it reports in one step, whatever has become of the breaker since it
was let through. What the abstract breaker cannot do is what the code must not: let
anybody through during the pause or beside a probe, close other than by a report, or open
without the results to show for it.

### Scheduler

Each store call is a single SQL statement and one step; SKIP LOCKED only postpones
rows to a later step. A worker goes from its poll sleep (`Wake`, any length) to the
reaper when `ReapInterval` has passed (`Reap`, `ReapFails`) and to the claim
(`Claim`, `ClaimFails`), which spawns a task for each row. A task ends by
`RunnerReturns` or `KindRejected` and then `Complete` or `CompleteFails`, or by
`RunnerPanics`. `Stop` is the shutdown token, `Exit`, `Crash` and `Restart` the
process. `Skew` is how far each worker's `Utc::now()` is off. The clock is read before the
call it is for (`read`, set by `Wake` and at the end of a sweep), and `Asked` is what the
statement is given, however late it gets to the table. `schedule` reads the clock of its
own process, which may be ahead or behind like any worker's, and may be late as well
(`FirstRuns`). A cron expression is the set of instants it matches, of which `next_after`
sees those less than `Horizon` away, the 366 * 4 days of its search; without one, `schedule`
fails and the end of a run deletes the job. `Unknown` gives, for each worker, the jobs whose kind its build
cannot deserialize, as in the middle of a deploy.

A task computes `next` from one reading of the clock and reports `last_run_at` from a
second one just after. Nothing reads `last_run_at`, so the model keeps only the first
reading, as the history field `answered`, also of the run that deletes the job.

`JobQueue` has no workers, polls, sweeps or columns: of each job it knows whether it is
unborn, waiting, leased or gone, since when it is due or until when it is leased, and
which of its runs are out. `Place`, `From`, `Tries` and `Runs` say what the table and the
tasks mean in these terms: a row with a claim is a lease that ends `lease_ttl` after
`claimed_at`, whatever its `next_run_at`, and a task is a run that is out. Most faults are
`Lose` there: a crash or a panic loses runs and nothing else. A claim whose reply is lost
or whose batch cannot be decoded is a `Take` that arrives nowhere, and a `Reschedule` or
`Retire` asks only for a run that has ended, not for one that holds the lease, because
`complete` looks at neither `worker_id` nor `attempts`. Its search for the next firing has
the code's limit (`Limit`): that this loses recurring jobs is the subject of `sched_limit`.

### Lifecycle

`phase` follows the main task: loading, initialising (one step per provider),
routing, binding, serving, draining (the timeout runs), closing (`drain_providers`),
exited. The signal task (`handler`), axum's accept loop (`accepting`) and the
connection tasks (`conn`) interleave with it. A signal without a registered handler
kills the process; that includes the time before the spawned task is first polled,
and a token cancelled by the application before that (`life_signal`). axum is modelled from how
`serve` uses it: its accept loop learns of the cancellation from a task of its own,
connection tasks are detached, and the serve future resolves when no connection is
left. A shutdown hook ends when its remote system answers (`HookReturns`) or when its
`shutdown_timeout` elapses (`HookTimesOut`); hooks that only log have budget 0.

Time: the clock starts with the server, and it does not advance while the main task
is runnable (`Urgent`), so `StopsInTime` counts waiting and not scheduling delay.

### ProviderChain

The promise of `bootstrap_with` and `drain_providers` (core `lib.rs` 342-343), without
configuration, upstreams, server or clock: each provider has its turn once and in order
(`BringUp`, `PassOver`); when the server was asked to stop (`Ask`) and has stopped
(`StopServing`), those that came up are closed one at a time and from the last
(`CloseBegins`, `CloseEnds`), and a normal exit has closed them all (`End`); a failed boot
or a killed process closes none any more (`Abandon`). Two modules implement it, each under
a mapping of its own `Turns` (the providers whose turn is to come), `Held` (those that are
up), `InHook` (the one whose hook runs) and `Custody` (the stage). In `Lifecycle` a whole
process runs around the loops and the request to stop is the token. In `Providers` the
loops run against upstreams, step by step; the request to stop is not part of that module,
and `asked` is TRUE.

### Idempotency

A request goes through `Idempotency::call` one await at a time: `Arrive` and
`ReadBody`, the GET (`Miss` or `Hit`, with `Verdict` comparing fingerprints),
`RunHandler`, `Buffer` and `Store` (SET EX). Each await may fail (`ReadBodyFails`
answers 502, `LookupFails` is taken for a miss, `BufferFails` answers with an empty
body, `StoreFails` is ignored, whether or not Redis executed the SET), and at each the
future may be dropped (`Drop`). A cached response is named by the request whose handler
made it; Redis may also hold a value under the key that does not parse. An operation
stands for method, path and body, which is all the fingerprint covers: requests that
differ only in their query string are the same operation to the code. A tenant id and a
client key are sequences of the segments between their colons, so that the model's
Redis key is the code's: `TenantsApart` speaks of clients with equal keys, since a
request without tenant may choose a key that spells out a tenant's prefix.
Of a request's history, `ran` says that its handler ran (at least in part),
`stored` when its response reached Redis, `prior` whose responses had been stored
when it came in, `looked` when its GET was made and `blind` that it failed.

### RateLimit and TokenBucket

A request gets its key from one of the five extractors or passes unlimited (`Arrive`).
The script is one step on Redis' clock (`Allow`, `Refuse`): it refills from the stored
stamp, takes a token or names the wait, and writes hash and expiry. The reply comes
back (`Serve`, `TooMany`), the call fails before or after the script ran (`FailOpen`,
which lets the request through), or the client goes away (`Drop`). Redis deletes expired
keys (`Expire`), loses keys (`Evict`) and may have its clock set back (`SetBack`). A
token is `Window` units, so the code's floating point division becomes exact; that the
code's doubles round is not modelled.

`TokenBucket` has no storage: buckets fill evenly with time and give a token to each
request let through. Under the mapping `Level` (the hash plus the refill it has not drawn
on, a full bucket where there is none) and `Ahead` (stamped later than the clock), every
step of `RateLimit` is a step of `TokenBucket` or stutters. That an expired key is a full
bucket is the substance of it: the TTL is at least the window, in which a bucket fills.

### Jwks

`verify` is followed from one look at shared state to the next: the staleness check
(`CheckStale`), the lookup (`Lookup`), the stamp a forced refresh is compared with
(`Baseline`), the wait for `refresh_lock`, behind which another's fetch is used
(`PiggyBack`) or an own one made (`StartFetch`, `Respond`, `Apply`, or `FetchFails`,
`FetchTimesOut`), and the second lookup (`LastLookup`). `Drop` drops the future at any
await, the holder of the lock included. `Rotate` is the provider's. Keys are entries of a
document; `Usable` drops those `build_decoding_key` refuses; `lookup_key` takes the first
that fits. Signature and claims checks are jsonwebtoken's and taken by their outcome; it
refuses a token when one of the accepted algorithms is of another family than the key
(`Accepted`, `Family`), so a list of mixed families accepts nothing.
An `Instant` is a time and a counter, as two fetches may end within one unit of the
clock. Of the history variables, `taken` says when the provider answered and `last` when
each document was last published.

### Providers

Each provider is data: the steps of its `init` (a check of the configuration, a call with
its limit and the table that classifies its errors, or a call whose outcome is only
logged), the answers its readiness check accepts, and its shutdown hook. Limits may be 0,
as `ResilienceConfig` lets them; a call then ends at once or with its answer. `spent`, a
history variable, is the time the init at hand has taken, without migrations, which the
code does not bound. One machine runs them: the boot loop of `bootstrap_with`, `run_all` with the limits of
the check and of the registry, and `drain_providers`. An upstream answers, answers oddly, denies, refuses or is
silent, and may change. What a client does meanwhile is its library's (`Mute`): sqlx's pool
and the MongoDB driver try again as long as they are refused, so that a refusal ends as a
timeout. async-nats' `flush` returns when the client's buffer is written, with no answer
from the broker, and waits only while there is no connection. A URL may pass the check of its
prefix and still not parse; with Postgres and NATS that is an error of `connect`. Postgres
also has its pool, a handler's transaction that may hang, migrations and the sampler of pool metrics. `Lifecycle` has the same boot and drain
loops with one step per provider, next to signals, requests and the drain timer; here the
step is opened up.

### Config

JSON values are scalars or objects of keys. A file is absent, hidden (it is there, but
`exists()` says no, as in a directory that may not be searched: `read_toml_patch` takes it
for absent), unreadable, garbage or an object. `LoadFile` (twice), `SetVariable` (one
variable after the other, in any order, as `env::vars()` promises none), `LoadEnv` and
`LoadRemote` are the sources of `ConfigLoader::load`; each ends in `Apply`, the merge.
`Read` is the deserialisation, with the type each field takes and serde's defaults, and
`Validate` is `validate_strict`. A key is the sequence of segments between its dots,
because `filter_patch` compares joined paths. `collect_allowed_leaf_paths` is recursive,
so this module is checked and not proved about.

### Llm

`Resolve` picks backend and model, `split_system` and `build_request` build what is sent,
and the answer is an error, a result or a stream. On the wire an event is a character of
one or two bytes and its line ends; `Chunk` hands over any number of bytes. `Event` cuts
at the empty line, `Line` turns a line into chunks and `Send` puts one into the channel
when it has room; `SendFails` is the dropped receiver, `BodyEnds`, `BodyFails` and
`SendError` the ends of the pump. The Anthropic and the OpenAI pump differ in where an
error of one line leads and in `[DONE]`; both are instances.

### Cron

An expression is given as fields and chunks. `parse_field`, `is_unrestricted`, `matches`
and the walk of `next_after_spec` (`First`, `Walk` minute by minute, `Limit`) are as in
the code; the calendar is chrono's, from the usual formula for days since 1970. An hour
and a day are shorter in the instance, months and years are not. A start is any number of
half minutes, on a minute or within one. The comments give two readings of a day field
that does not restrict the day, a `*` (lines 17-19, and the code) or also a `*/1` (77-81):
`NextIsTheFirst` speaks of the expressions for which they agree (`ReadAlike`).

## Runs

Every run finishes within four minutes on two cores.

| Run | Instance | Shows |
|---|---|---|
| `breaker` | three callers, min volume 2, ratio 1/2, a trip and a recovery, futures dropped at will | refinement of `Breaker`: one slot owner, nobody let through in the pause, no unearned trip; half-open is attended, and decided if the wrapped futures resolve |
| `sched_once` | two workers, one one-shot job, a fault of any kind | overlap only after expiry, stored jobs are run and removed |
| `sched_cron` | two workers one unit of time apart, one unable to decode the job, a cron job whose last firing is further away than the search goes, a fault | nothing removes the job but a run without a next firing in the limit or a failed decoding; refinement of `JobQueue`, so jobs are handed out only when due and not leased, and firings move forward |
| `life` | Postgres and NATS compiled in, Redis only configurable, an OSS provider without its feature, every choice of enabled and required, two connections | serving and ready mean initialised, providers close last, and a request to stop, and only that, ends the process in time; refinement of `ProviderChain` |
| `idem` | three requests, each with or without tenant and key, two operations, a TTL of one unit, a failure | the three safety properties of the cache |
| `rate` | four requests and every kind of key, capacity 2, a window of 3 units, a second of 2, a fault | buckets within the rate, the exact retry time, refinement of `TokenBucket` |
| `jwks` | two callers with five tokens, two documents and a rotation, TTL and fetch timeout of one unit, a fault | single flight, no old key used and no new key missed for long, every call returns in bounded time |
| `providers` | seven pairs of providers, every flaw of their configuration, each required or not, connect limit 2, the others 1, an upstream that changes once, a probe | boot and readiness are bounded, the sampler ends; refinement of `ProviderChain` |
| `config` | two files, each one of eleven things (absent, hidden, unreadable and garbage among them), up to two of eight variables, seven remotes | precedence, with the remote confined to its policy, and nothing that `exists()` sees passed over |
| `llm` | fourteen calls, streams of up to three of seven events, a channel for one chunk | every message sent, chunks in order and complete, the pump ends |
| `cron` | thirty pairs of day fields, leap days and the 30th of February, refused expressions, starts on a minute and within one, days of two hours of two minutes | the first occurrence where the readings agree, and nothing given up that occurs within four years |
| `providers_sampler` | Postgres before Redis | a disagreement, see below |

Bounds. Three callers are a probe, its rival and a call from an earlier period; two
workers and a fault are enough for a claim, its loss and a late completion after
a second claim (which needs no fault, only a slow runner); the clock runs past one lease and the claim of its successor; three requests are the
one that stores, the retry and a slow one that stores in between, and the clock
passes the TTL twice; two
providers show an order, and the clock of `life` reaches past every deadline of a
shutdown requested at `LastCancel`. `CHECK_DEADLOCK FALSE` is set for the breaker,
where the bounds on calls and time run out, for the lifecycle, where the process
exits, and for the other runs, in which every request, call, load or walk ends or the
bounded clock runs out. Symmetry over requests and operations is used in `idem`, over
requests in `rate`. The scheduler never deadlocks.
In `rate` the window is longer than a second and no multiple of a token's refill, so
that rounding, a partial refill and an expiry before the bucket is full can happen; four
requests empty a bucket and meet it again after a refill. In `jwks` two callers are the
one who fetches and the one who waits, and the clock runs past a TTL and the failed
fetches of both. Pairs of providers show one that fails after another came up; the clock
of `providers` runs past the sum of all limits but those of migrations. Two variables and
two files are enough for each source to meet each other one on a field and above it. A
channel of one chunk is full after every send. The starts of `cron` lie before and after a
leap day, at a year's end and before 2100, which has none.

Fairness. Breaker: a call whose wrapped future has resolved is polled; the mutex is
never held across an await. The wrapped futures owe nothing. Scheduler: the poll sleep is a timer, store calls
return, processes are restarted by their supervisor, runners return; failures, whose
number is bounded by `MaxFaults` and time by `FaultsUntil`, owe nothing (the clock of
`sched_once` runs a lease and a sweep past `FaultsUntil`; a second fault late enough
would meet a clock that has stopped at its bound). Lifecycle:
the main task is polled and time passes; clients, handlers and remote systems owe
nothing. Jwks: a call that can run is polled, the lock is handed on and the clock goes on;
the provider owes no answer, as the client's timeout ends the fetch. Providers: tasks are
polled and timers fire; upstreams, transactions and migrations owe nothing. Llm: the pump
is polled, a stalled body is ended by the client's `op_timeout`, and the caller reads on or
drops the receiver: the last is an assumption on the caller, without which the pump
stays blocked in `send`. No run that checks liveness uses symmetry.

### Disagreements between the code and its comments

`providers_sampler` checks what a comment says and ends in a counterexample.
`hwhkit-integration-postgres/src/lib.rs` 327-328 says of the pool's sampler that
"`PgPool::is_closed` lets us shut the sampler down cleanly when the application drops the
pool". Its task holds a clone of the pool, and only `close()` closes it: when bootstrap
fails at a required provider after Postgres came up, `close()` is never called, and the
sampler runs, and keeps the connections, as long as the runtime does.

The other disagreements that a small instance shows are kept as configurations next to the
runs. Each checks one property that states the remark, and TLC answers with a
counterexample, as in `tlc -config breaker_drop.cfg MCCircuitBreaker`:

| Configuration | Module | Property | The remark | What the code does |
|---|---|---|---|---|
| `breaker_probe` | `MCCircuitBreaker` | `OneProbeUntilDecided` | exactly one caller proceeds in `HalfOpen` (`circuit_breaker.rs` 76-78, 110-114) | `run` stores 0 (173) before it records: in between another caller becomes a probe of the same episode |
| `breaker_late` | `MCCircuitBreaker` | `ProbesDecide` | the probe's result closes or re-opens the breaker (`circuit_breaker.rs` 12-13) | any call let through before the trip that returns during the episode decides it (184) |
| `breaker_stamp` | `MCCircuitBreaker` | `TripsCountTheWindow` | failures are counted in a sliding window (`circuit_breaker.rs` 5-8) | the clock is read before the lock (180), so results are queued out of order, and one older than the window stays counted behind a younger one (203-206) |
| `breaker_drop` | `MCCircuitBreaker` | `SlotHasOwner` | the release matches the claim (`circuit_breaker.rs` 170-172) | not when the future is dropped at its await (167): nobody owns the slot then, and the half-open breaker refuses every call for good |
| `sched_limit` | `MCScheduler` | `RecurringStays` | jobs survive (scheduler `lib.rs` 3-4), the search is capped for impossible specs (`cron.rs` 169-170) | a recurring job whose next firing is further away is deleted after its run, by `.ok()` (328): 29 February, in the years before 2100 |
| `sched_late` | `MCScheduler` | `RecurringOverlapOnlyAfterExpiry` | nodes exclude each other (scheduler `lib.rs` 4-5) | `complete` goes by the id alone (`storage.rs` 314): the late report of an evicted run frees its successor's lease, and a third run starts beside it |
| `sched_reaper` | `MCScheduler` | `ReaperSparesTheLiving` | the reaper never fights a live worker, nodes never run a job twice (`storage.rs` 341, 192-193) | nothing renews the lease of a run that takes longer: it is evicted (351) and the job runs twice |
| `cron_step` | `MCCron` | `FullStepsAreUnrestricted` | a day field `*/1` is unrestricted (`cron.rs` 77-81) | only `*` is (83): with `*/1` and a restricted other field, the job runs every day |
| `providers_url` | `MCProviders` | `FlawsNeedAnOperator` | transient is what may succeed without an operator (core `error.rs` 142-143) | a URL that passes the check of its prefix and does not parse becomes `ConnectionRefused`, with Postgres (229-236) and NATS (271-282) |
| `providers_silent` | `MCProviders` | `SilentIsDown` | `flush()` is a round trip and times out on a wedged server (nats `lib.rs` 250-252) | in async-nats 0.38 it waits for the client's buffer to be written, without PING and PONG: a silent broker is up |
| `life_signal` | `MCLifecycle` | `InstalledMeansCaught` | `install` installs handlers and returns (`shutdown.rs` 7-8) | they are installed at the first poll of a spawned task (15-17): a signal before that, or after the task ended on a cancelled token, kills the process |

More remarks in the code and its documents are looser than they sound. They have neither a
run nor a configuration:

* A returned job is the caller's responsibility (`storage.rs` 33): one undecodable schedule
  fails the call after the whole batch was leased, and nobody gets it.
* Handlers are gone before pools close (`server.rs` 139): not after the drain deadline.
* Enabled integrations the binary lacks are refused (core `lib.rs` 135): `oss` and `llm`
  are not checked.
* A key reused for another body gets 409 (`idempotency.rs` 11-16): not when both requests
  are under way; both execute and the last response stays.
* `record` does run in the Open state ("should not happen"), for every call that
  outlasts a trip.
* An optional provider whose init fails registers no health check, so `/readyz` answers
  `degraded: false`, while `doc/2026-02-09-02-golden-path-extreme-performance.md` line
  128 says it shows degraded.
* The idempotency cache key is not "(Idempotency-Key, hash(...))" but the key alone; the
  hash is stored in the entry and compared.
* The rate limiter's `Retry-After` header is the exact time divided by 1000 and rounded
  down (line 352), so a client that goes by the header comes early. Two layers with the
  same namespace and kind of key share their buckets.
* A key may be out and still be missed, when the call waits for a fetch that began before
  the rotation ("trigger a single synchronous refresh", `jwt.rs` 378-381); for this
  `MissesAreRecent` allows a fetch's time. Names of algorithms that are not known are
  dropped from the configured list, and an empty list accepts what the token's header says.
  Fetches that fail are repeated, one after the other, by each call that waited.
* Bootstrap can hang (config `lib.rs` 512-513 says it is prevented) in migrations. There is
  no retry loop, which `error.rs` 142-144 and postgres `lib.rs` 225-228 speak of.
* Most providers call refused credentials `ConnectionRefused`, which is transient. Neo4j
  calls every failure of its first query `AuthFailed`, MongoDB every one of `with_uri_str`
  `InvalidUrl`, NATS those of its flush `Other`. `PermissionDenied` is never built.
* Two environment variables for one place are merged in the order of `env::vars()`. A text
  that looks like a number fails the load where a string is wanted. A scalar in the place of
  a section takes it back to its defaults or fails the load. A remote's dotted keys can
  spell an allowed path. `ConfigPatch::default()` is `Null`, on which `set_path` would
  panic (line 967 says otherwise); the loader never does that. The `llm` section is not
  validated.
* A model without prefix is an `InvalidRequest`, not the default backend's (llm `lib.rs` 15,
  `backend/mod.rs`). A body of more than 1024 bytes in an error is cut with `truncate`, which
  panics inside a character. A timeout while a non-streaming body is read is `Decode`.
* A stream's chunks are decoded one by one, so a character cut in two is garbled; the
  properties look at which chunks arrive and not at this. Events that end in CR LF CR LF are
  not delivered; a body that ends without `Done` closes silently; an error may follow
  `Done`, the "terminal chunk". `embed` does not compare the number of vectors and inputs.
* A configuration file that is there but may not be stat'ed counts as absent, as
  `path.exists()` is false of it (config `lib.rs` 1252): an optional one is passed over.
* The cron search walks minute by minute (`cron.rs` 168-169 says it skips ahead). Day of
  week 7 is dropped in silence.

## Proofs

The proof modules establish each invariant for any number of callers, workers, jobs,
connections, providers, requests, keys, documents, providers' settings and cron expressions and any timeouts, from the assumptions on the constants
(`ConfigAssumption`, `SchedulerAssumption`, `LifecycleAssumption`,
`IdempotencyAssumption`, `RateLimitAssumption`, `JwksAssumption`, `ProvidersAssumption`,
`ChainsAssumption`, `CallsAssumption`).

* `CircuitBreakerProofs`. `SlotInv` says the slot is 1 while some call is between
  claim and release, and that this call is unique: `AtMostOneProbe` alone is not
  inductive because the store of 0 is blind. `ProbeInv` joins `SlotLostOnlyByDrop`
  and `HalfOpenHasProbe`: a caller that turns the breaker half-open and fails to claim
  the slot relies on its owner. `PeriodInv` bounds the queue by the results of the
  closed period, from lemmas that `Prune` gives a suffix and that a suffix has no
  more failures; that a trip has the results to show for it follows with a little arithmetic
  on ratios. `Implements` is the refinement of `Breaker`: `SlotInv` makes a won slot an
  admission beside nobody, the step of `PeriodInv` makes a trip earned, and `StampInv` says
  that no reading of the clock is ahead of it, however long a caller waits for the mutex.
* `SchedulerProofs`. `HistoryInv` ties tasks and rows to `submitted` and `finished`
  for `NoJobLost`, and says of a cron job that is gone what its last run found: no firing
  within the limit of the search, from the clock of that run (`answered`). `CronInv` adds
  that an untouched row has no history. `LeaseInv` says that attempts identify claims and that each unexpired task of a stored
  one-shot job is the one its row's lease belongs to; this is why two tasks on one
  job imply an expired claim. `Implements` is the refinement of `JobQueue`, one lemma for
  each of its actions. It needs that attempts identify tasks (`RunsWithout`: without it the
  end of one task could be the end of two runs), and `RunInv`: a task answers no earlier
  than it was claimed, on one clock, and a job that was never submitted holds no lease. No
  clock is ahead of the most advanced one (`UtcNowBound`), and what a worker gave its
  statement is never ahead of its own, so that the statement may arrive late.
* `LifecycleProofs`. `CloseInv` says that "closing" is entered with the listener gone
  and the requests over or cut short. `TimeInv` gives each phase its share of the time
  bound: nothing elapses before the cancellation is seen, the drain ends by
  `since + MaxDrain`, and hook *n* by *n* more budgets. `BootInv` says what the provider
  loop has dealt with so far, so that at its end every enabled and mapped integration
  is accounted for, and that checks cover the retained providers. `Implements` is the
  refinement of `ProviderChain`, matched action by action. It needs `ChainInv` (nothing is
  closed before "closing", and no turn is left once the loop is over) and
  `StopsOnlyOnRequest`, without which the start of the drain would have no counterpart;
  `HeldWhileClosing` says that the provider the hook is called on is the last one held.
* `IdempotencyProofs`. `CacheInv` has four parts. `StageInv`: the handler runs only
  between its two neighbours, and an answer from the cache is the end of a request.
  `CachedInv`: an entry belongs to a finished request with that key and fingerprint.
  `StoredInv`: once a response was stored its key holds a response that lasts at least
  as long, since a later SET can only move the end. `PriorInv`: a request that went past its GET made
  it after the expiry of everything stored before it came in. `NoReExecution` needs the
  last two together: the entry found missing need not be the one that was stored.

  `TenantsAreApart` rests on a lemma about the key itself, that equal Redis keys and equal
  client keys make equal tenants, whatever the segments of either.
* `RateLimitProofs`. The invariant adds to the types that a request at the script has a key
  (`Keyed`) and that a hash expires a TTL after its stamp (`Expiry`), so that one which has
  expired has refilled to the brim. With it each step is matched with one of `TokenBucket`
  (`Implements`). `Accounts` says that what a bucket gave out and still holds is covered; it
  is inductive over those steps, and `AdmitsWithinRate` follows. For `RetryAfterIsExact`,
  `PromiseKept` ties the time a refusal named to the hash it wrote, or to that hash having
  expired later; the rest is arithmetic on a quotient rounded up.
* `JwksProofs`. `SingleFlight` is inductive only together with the ownership of the lock: who
  fetches holds it. `CacheOK` says that the cache is what the provider published at most a
  fetch before the stamp, and `CacheKnown`, for each stage between two looks at the cache,
  what a call may rely on: at its first lookup a stamp no older than a TTL before it began,
  at its last one a stamp since it began, and while it waits either that or an unchanged
  cache. `PublishedSince` carries these ages over a rotation. `WaitIsBounded` needs no order
  of the waiting calls: time passes for a call only while some call fetches, that call is
  over with its fetch within `FetchTimeout`, and none fetches twice. So `WaitOK` bounds a
  call's age by a fetch for each call that is over (`Finished`) and what the fetch at hand
  has taken, with the lemma `Budgets` for the arithmetic of cardinalities.
* `ProvidersProofs`. The first half goes through the steps of the nine providers: for each
  step which limit it has (`StepOK`) and how long the steps before it may take
  (`Before`, `StepFits`). `Inv` then says, next to the types, that the step at hand is
  within its limit and the steps before it within theirs (`BootOK`), that nothing is there
  of a provider that is still to come or has failed (`ToComeOK`, `FailedOK`), and that a
  probe and a hook are within their time (`ProbeOK`, `DrainOK`). The budget of `BootIsBounded` is that of one provider;
  how many are enabled does not matter to it. `Implements` matches each step with one of
  `ProviderChain`; to `Inv` it adds `PastFirst`, that no hook is under way once the first
  provider is closed.
* `CronProofs`. First the calendar: where a day lies in its year and a month in its days,
  from the bounds of the leap-year quotients, so that what `matches` compares is in the
  range of the fields. Then the parser: every value that a field accepts is in the set of a
  chunk, and `*` sets every value (`FieldCovers`, `StarCovers`). With these the code's
  fields and the reading of lines 17-19 agree at every minute (`MatchesOccurs`), and the
  invariant of the walk (`WalkInv`) is that no minute after the start, which may lie within
  a minute, and passed so far occurs. No induction is needed.

`StopIsRequested` in `LifecycleProofs` shows that the drain timer cannot start by itself.

Only model-checked: the liveness properties (`HalfOpenResolves`, `EventuallyDone`,
`ShutdownCompletes`, `CallsReturn`, `SamplerEnds`, `PumpEnds`), which are out of
the prover's reach, and the properties of `Config` and `Llm`: they compare what the code
did with recursive functions of its whole input (merging, cutting and flattening the
bytes of a stream), and the prover has no induction over data. Only proved, and in no
run: the types (`TypeOK`, in each module with proofs), `CronAdvances` and `OpenIsKept` (the
refinements of `JobQueue` and `Breaker` take their place in the runs), `SlotLostOnlyByDrop`,
`ReverseOrderToTheEnd`, `StopsOnlyOnRequest`, `FailedLeavesNothing` and `HookIsBounded`.

## Plan

1. The merge of `Config` written with recursive functions instead of `RECURSIVE` operators,
   so that what needs no induction over the documents can be proved.
2. The per-tenant map of breakers, as many instances of `CircuitBreaker`.

## Not modelled

Logging, metrics, response envelopes, version and build information, request ids, the
command line tool and code generation: text and I/O without protocol state. `TenantScope`,
whose every operation is one critical section, and the tenant extractor. The JSON and token
counts in the wire formats of the LLM backends. The build without `graceful-shutdown`.
`InMemoryJobStore`, which has the operations of the Postgres store in one process. Schema
migration. The rounding of doubles in the rate limiter. The sections of the configuration
that the loader does not look at.
