------------------------------ MODULE Providers ------------------------------
(***************************************************************************)
(* The integration providers (the crates hwhkit-integration-...): what init, *)
(* the readiness check and shutdown of each one do, run one after the     *)
(* other by bootstrap_with and drain_providers, against upstreams that     *)
(* refuse, deny or say nothing.                                            *)
(*                                                                         *)
(* An init is a list of steps.  A check of the configuration takes no      *)
(* time; a call that asks the upstream ends with its answer, or when its   *)
(* limit has passed, which may be 0.  Time passes only while somebody      *)
(* waits for a silent upstream or for a connection.                        *)
(***************************************************************************)
EXTENDS Integers, Sequences, FiniteSets, SequencesExt

CONSTANTS
  Chains,            (* the enabled providers, in the order of default_providers *)
  connect_timeout, op_timeout, probe_timeout, shutdown_timeout,
                     (* ResilienceConfig                                     *)
  check_timeout,     (* HealthCheck::timeout(): 2 s                          *)
  MaxTime,           (* bound: the last instant of the clock                 *)
  MaxChanges,        (* bound: how often an upstream changes                 *)
  MaxProbes,         (* bound: readiness requests                            *)
  None               (* no limit                                             *)

ASSUME ProvidersAssumption ==
  /\ connect_timeout \in Nat /\ op_timeout \in Nat /\ probe_timeout \in Nat
  /\ shutdown_timeout \in Nat /\ check_timeout \in Nat
  /\ MaxTime \in Nat /\ MaxChanges \in Nat /\ MaxProbes \in Nat /\ None \notin Nat

(* IntegrationFailureKind; PermissionDenied is never built. *)
Kind == {"InvalidUrl", "AuthFailed", "ConnectionRefused", "Timeout", "Misconfigured", "Other"}

is_transient(kind) == kind \in {"ConnectionRefused", "Timeout"}

(* How an upstream behaves: it answers; answers something odd (the bucket   *)
(* does not exist, the reply is not PONG); answers with an error of the     *)
(* service (credentials, permissions); refuses the connection; is silent.   *)
Upstream == {"ok", "odd", "denying", "refusing", "silent"}

-----------------------------------------------------------------------------
(* What each classify function makes of an error. *)

Classified(odd, denying, refusing, silent) ==
  [ok |-> "ok", odd |-> odd, denying |-> denying, refusing |-> refusing, silent |-> silent]

(* Every error has the same kind. *)
Always(kind) == Classified(kind, kind, kind, kind)

(* io::ErrorKind::TimedOut is a timeout, the rest "connection refused". *)
TimedOutOrRefused == Classified("ok", "ConnectionRefused", "ConnectionRefused", "Timeout")

classify_sqlx_error == TimedOutOrRefused
classify_redis_error == TimedOutOrRefused
classify_nats_connect_error == TimedOutOrRefused
classify_neo4j_error == TimedOutOrRefused
classify_mongo_error == TimedOutOrRefused
classify_qdrant_error == TimedOutOrRefused
classify_s3_sdk_error == Classified("ok", "Other", "ConnectionRefused", "Timeout")
classify_oss_error == Classified("Other", "Other", "ConnectionRefused", "Timeout")

-----------------------------------------------------------------------------
(* The providers: the steps of init, and what shutdown waits for.           *)

(* How an upstream behaves while a client has to wait for it.  sqlx's pool  *)
(* and the MongoDB driver try again as long as they are refused; flush of   *)
(* async-nats writes the client's buffer out, without asking for an answer, *)
(* and waits only while the client is not connected.                        *)
Mute(p) ==
  CASE p \in {"postgres", "mongodb"} -> {"refusing", "silent"}
    [] p = "nats" -> {"denying", "refusing"}
    [] OTHER -> {"silent"}

(* A check of the configuration, and the kind of its error. *)
Check(what, kind) ==
  [what |-> what, asks |-> FALSE, limit |-> None, mute |-> {}, error |-> Always(kind),
   late |-> kind]

(* A call to the upstream; an error, or the end of the limit, ends init. *)
Ask(what, limit, mute, error) ==
  [what |-> what, asks |-> TRUE, limit |-> limit, mute |-> mute, error |-> error,
   late |-> "Timeout"]

Call(what, limit, error) == Ask(what, limit, {"silent"}, error)

(* A call whose failure is only logged. *)
Advisory(what, limit) ==
  [what |-> what, asks |-> TRUE, limit |-> limit, mute |-> Upstream \ {"ok", "odd"},
   error |-> Always("ok"), late |-> "ok"]

(* A call on the pool: a connection that is refused to the end of           *)
(* acquire_timeout is PoolTimedOut.                                         *)
Acquire(what, limit) ==
  Ask(what, limit, Mute("postgres"), [classify_sqlx_error EXCEPT !.refusing = "Timeout"])

(* Seeded fault: the smoke test is not wrapped in a timeout. *)
PostgresUnbounded ==
  [init |-> << Check("scheme", "InvalidUrl"), Check("url", "ConnectionRefused"),
               Acquire("connect", connect_timeout), Acquire("select", None) >>,
   hook |-> "close"]

(* PgPoolOptions::connect parses the URL: a failure is classified as every  *)
(* other error of sqlx.                                                     *)
Postgres ==
  [init |-> << Check("scheme", "InvalidUrl"), Check("url", "ConnectionRefused"),
               Acquire("connect", connect_timeout), Acquire("select", op_timeout) >>,
   hook |-> "close"]

(* run_migrations, when the path exists: nothing bounds it. *)
run_migrations == << Check("migrations", "Misconfigured"), Call("migrate", None, Always("Other")) >>

Redis ==
  [init |-> << Check("scheme", "InvalidUrl"), Check("url", "InvalidUrl"),
               Call("connect", connect_timeout, classify_redis_error),
               Call("PING", op_timeout, [classify_redis_error EXCEPT !.odd = "Other"]) >>,
   hook |-> "none"]

MongoDb ==
  [init |-> << Check("scheme", "InvalidUrl"), Check("url", "InvalidUrl"),
               Call("with_uri_str", connect_timeout, [Always("InvalidUrl") EXCEPT !.odd = "ok"]),
               Ask("ping", op_timeout, Mute("mongodb"), classify_mongo_error) >>,
   hook |-> "none"]

(* async_nats::connect parses the URL, and its errors are classified. *)
Nats ==
  [init |-> << Check("scheme", "InvalidUrl"), Check("url", "ConnectionRefused"),
               Call("connect", connect_timeout, classify_nats_connect_error),
               Ask("flush", op_timeout, Mute("nats"), Classified("ok", "Other", "Other", "ok")),
               Advisory("query_account", op_timeout) >>,
   hook |-> "flush"]

Qdrant ==
  [init |-> << Check("scheme", "InvalidUrl"), Check("build", "Misconfigured"),
               Call("list_collections", op_timeout, classify_qdrant_error) >>,
   hook |-> "none"]

Neo4j ==
  [init |-> << Check("scheme", "InvalidUrl"), Check("username", "Misconfigured"),
               Check("build", "Misconfigured"),
               Call("connect", connect_timeout, classify_neo4j_error),
               Call("return", op_timeout, Always("AuthFailed")) >>,
   hook |-> "none"]

S3 ==
  [init |-> << Check("bucket", "Misconfigured"), Check("endpoint", "InvalidUrl"),
               Call("head_bucket", op_timeout, classify_s3_sdk_error) >>,
   hook |-> "none"]

Oss ==
  [init |-> << Check("settings", "Misconfigured"),
               Check("client", "Misconfigured"), Check("handle", "Other"),
               Call("get_info", op_timeout, classify_oss_error) >>,
   hook |-> "none"]

Llm == [init |-> << Check("backends", "Misconfigured") >>, hook |-> "none"]

Provider ==
  [postgres |-> Postgres, redis |-> Redis, mongodb |-> MongoDb, nats |-> Nats,
   qdrant |-> Qdrant, neo4j |-> Neo4j, s3 |-> S3, oss |-> Oss, llm |-> Llm]

(* default_providers lists each provider once, and some are enabled. *)
ASSUME ChainsAssumption ==
  \A c \in Chains : c \in Seq(DOMAIN Provider) /\ \A i, j \in DOMAIN c : c[i] = c[j] => i = j

(* When each readiness check says Ok: on an answer, but NATS on a flush. *)
PostgresHealthCheck == {"ok", "odd"}
RedisHealthCheck == {"ok"}
MongoDbHealthCheck == {"ok", "odd"}
NatsHealthCheck == {"ok", "odd", "silent"}
QdrantHealthCheck == {"ok", "odd"}
Neo4jHealthCheck == {"ok", "odd"}
S3HealthCheck == {"ok", "odd"}
OssHealthCheck == {"ok"}

(* health_check(): the LLM provider has none. *)
HealthCheck ==
  [postgres |-> PostgresHealthCheck, redis |-> RedisHealthCheck, mongodb |-> MongoDbHealthCheck,
   nats |-> NatsHealthCheck, qdrant |-> QdrantHealthCheck, neo4j |-> Neo4jHealthCheck,
   s3 |-> S3HealthCheck, oss |-> OssHealthCheck]

-----------------------------------------------------------------------------

VARIABLES
  chain,      (* the enabled providers                                       *)
  required,   (* those whose failure ends bootstrap                          *)
  flaw,       (* the check that the configuration of a provider fails        *)
  migrate,    (* migrations.run_on_start, and its path: "off", "missing", "on" *)
  upstream,   (* how each upstream behaves                                   *)
  changes,    (* counted for the bound                                       *)
  now,
  phase,      (* "init", "failed", "up", "closing", "down"                   *)
  at,         (* the provider and the step that run, and when the step began *)
  up,         (* initialized_integrations: their handles are in the AppContext *)
  degraded,   (* degraded_integrations: each with its error and its cause    *)
  pool,       (* the Postgres pool: "none", "open", "closed"                 *)
  busy,       (* a transaction holds the pool's connection                   *)
  sampler,    (* the pool's sampler task: "none", "running", "ended"         *)
  probe,      (* the readiness request: when it began, what is pending, Up   *)
  probes,     (* counted for the bound                                       *)
  spent       (* history: time the init at hand took, except in migrations   *)

settings == <<chain, required, flaw, migrate>>
vars == <<settings, upstream, changes, now, phase, at, up, degraded, pool, busy, sampler,
          probe, probes, spent>>

Member == ToSet(chain)

(* The steps of init as configured. *)
Steps(p) ==
  Provider[p].init \o IF p = "postgres" /\ migrate = "on" THEN run_migrations ELSE <<>>

Checks(p) == {Steps(p)[j].what : j \in {i \in DOMAIN Steps(p) : ~Steps(p)[i].asks}}

Behaviours(p) == IF p \in {"redis", "s3", "oss"} THEN Upstream ELSE Upstream \ {"odd"}

Start == [i |-> 1, j |-> 1, since |-> 0]
NoProbe == [since |-> None, pending |-> {}, alive |-> {}]

Init ==
  /\ chain \in Chains
  /\ required \in SUBSET Member
  /\ migrate \in {"off"} \cup (IF "postgres" \in Member THEN {"missing", "on"} ELSE {})
  /\ flaw \in [Member -> {"none"} \cup UNION {Checks(p) : p \in Member}]
  /\ \A p \in Member : flaw[p] \in {"none"} \cup Checks(p)
  /\ upstream \in [Member -> Upstream] /\ \A p \in Member : upstream[p] \in Behaviours(p)
  /\ changes = 0 /\ now = 0 /\ at = Start
  /\ phase = IF chain = <<>> THEN "up" ELSE "init"
  /\ up = <<>> /\ degraded = {} /\ pool = "none" /\ busy = FALSE /\ sampler = "none"
  /\ probe = NoProbe /\ probes = 0 /\ spent = 0

-----------------------------------------------------------------------------
(* bootstrap_with: one provider after the other, one step after the other. *)

Current == chain[at.i]
Step == Steps(Current)[at.j]
Expired == Step.limit # None /\ now >= at.since + Step.limit

Mutes == upstream[Current] \in Step.mute

(* What an answer makes of a call.  A client that waits may give up before  *)
(* the limit, once some time has passed.                                    *)
Answer == IF Mutes /\ now = at.since THEN {} ELSE {Step.error[upstream[Current]]}

(* What the current step may come to now: an answer and the end of the      *)
(* limit may race.                                                          *)
Outcomes ==
  IF Step.asks THEN Answer \cup (IF Expired THEN {Step.late} ELSE {})
  ELSE {IF flaw[Current] = Step.what THEN Step.late ELSE "ok"}

NextStep == [i |-> at.i, j |-> at.j + 1, since |-> now]
NextProvider == [i |-> at.i + 1, j |-> 1, since |-> now]

(* The loop goes on to the next provider, or bootstrap is over. *)
GoOn ==
  /\ at' = NextProvider /\ spent' = 0
  /\ phase' = IF at.i = Len(chain) THEN "up" ELSE "init"

StepPasses ==
  /\ phase = "init" /\ "ok" \in Outcomes /\ at.j < Len(Steps(Current))
  /\ at' = NextStep
  /\ UNCHANGED <<settings, upstream, changes, now, phase, up, degraded, pool, busy, sampler,
                 probe, probes, spent>>

(* The last step of init: the handle is put into the AppContext, and for    *)
(* Postgres the sampler is spawned with a clone of the pool.                *)
InitOk ==
  /\ phase = "init" /\ "ok" \in Outcomes /\ at.j = Len(Steps(Current))
  /\ up' = Append(up, Current)
  /\ IF Current = "postgres" THEN pool' = "open" /\ sampler' = "running"
     ELSE UNCHANGED <<pool, sampler>>
  /\ GoOn
  /\ UNCHANGED <<settings, upstream, changes, now, degraded, busy, probe, probes>>

Cause == IF Step.asks THEN upstream[Current] ELSE "config"

(* init returns an error: the provider is degraded, or bootstrap fails and  *)
(* what came up before is dropped with the AppContext.  No shutdown runs.   *)
InitFails ==
  /\ phase = "init"
  /\ \E kind \in Outcomes \ {"ok"} :
       degraded' = degraded \cup {[key |-> Current, kind |-> kind, cause |-> Cause]}
  /\ IF Current \in required
     THEN phase' = "failed" /\ up' = <<>> /\ UNCHANGED <<at, spent>>
     ELSE GoOn /\ UNCHANGED up
  /\ UNCHANGED <<settings, upstream, changes, now, pool, busy, sampler, probe, probes>>

-----------------------------------------------------------------------------
(* Readiness, while the server runs: run_all asks all checks at once. *)

Registered == ToSet(up) \cap DOMAIN HealthCheck

StartProbe ==
  /\ phase = "up" /\ probe = NoProbe /\ probes < MaxProbes /\ Registered # {}
  /\ probe' = [since |-> now, pending |-> Registered, alive |-> {}]
  /\ probes' = probes + 1
  /\ UNCHANGED <<settings, upstream, changes, now, phase, at, up, degraded, pool, busy,
                 sampler, spent>>

(* The Postgres check first waits for the connection of a saturated pool. *)
Answers(p) == upstream[p] \notin Mute(p) /\ ~(p = "postgres" /\ busy)

SaysOk(p) == Answers(p) /\ upstream[p] \in HealthCheck[p]

(* Seeded fault: only HealthCheck::timeout() bounds the probe. *)
ProbeLimitOuter == check_timeout

(* probe_timeout within the check, HealthCheck::timeout() around it. *)
ProbeLimit == IF probe_timeout < check_timeout THEN probe_timeout ELSE check_timeout

(* A check ends: with its answer, or as Down at the end of its time. *)
CheckEnds(p) ==
  /\ p \in probe.pending
  /\ Answers(p) \/ now >= probe.since + ProbeLimit
  /\ LET rest == probe.pending \ {p} IN
     probe' = [probe EXCEPT !.pending = rest,
                            !.alive = IF SaysOk(p) THEN @ \cup {p} ELSE @]
  /\ UNCHANGED <<settings, upstream, changes, now, phase, at, up, degraded, pool, busy,
                 sampler, probes, spent>>

Respond ==
  /\ probe # NoProbe /\ probe.pending = {}
  /\ probe' = NoProbe
  /\ UNCHANGED <<settings, upstream, changes, now, phase, at, up, degraded, pool, busy,
                 sampler, probes, spent>>

(* A handler takes the connection of the pool, and gives it back when the   *)
(* query is answered.                                                       *)
Begin ==
  /\ phase = "up" /\ pool = "open" /\ ~busy /\ busy' = TRUE
  /\ UNCHANGED <<settings, upstream, changes, now, phase, at, up, degraded, pool, sampler,
                 probe, probes, spent>>

Commit ==
  /\ busy /\ upstream["postgres"] # "silent" /\ busy' = FALSE
  /\ UNCHANGED <<settings, upstream, changes, now, phase, at, up, degraded, pool, sampler,
                 probe, probes, spent>>

-----------------------------------------------------------------------------
(* drain_providers, in the reverse order of init. *)

(* The server has stopped; requests have ended or were given up. *)
Shutdown ==
  /\ phase = "up"
  /\ phase' = "closing" /\ probe' = NoProbe
  /\ at' = [i |-> Len(up), j |-> 0, since |-> now]
  /\ UNCHANGED <<settings, upstream, changes, now, up, degraded, pool, busy, sampler, probes,
                 spent>>

Closing == up[at.i]

(* Seeded fault: the pool counts as closed once it is empty. *)
CloseWhenIdle == IF busy THEN UNCHANGED pool ELSE pool' = "closed"

(* PgPool::close marks the pool closed, then waits for its connections. *)
Close == pool' = "closed"

HookBegins ==
  /\ phase = "closing" /\ at.i > 0 /\ at.j = 0
  /\ at' = NextStep
  /\ IF Provider[Closing].hook = "close" THEN Close ELSE UNCHANGED pool
  /\ UNCHANGED <<settings, upstream, changes, now, phase, up, degraded, busy, sampler, probe,
                 probes, spent>>

(* What the hook waits for has happened. *)
HookDone ==
  CASE Provider[Closing].hook = "close" -> ~busy
    [] Provider[Closing].hook = "flush" -> upstream[Closing] \notin Mute(Closing)
    [] OTHER -> TRUE

HookExpired == now >= at.since + shutdown_timeout

(* Seeded fault: a hook that runs out of time ends the drain. *)
DrainGivesUp == [i |-> IF HookDone THEN at.i - 1 ELSE 0, j |-> 0, since |-> now]

PreviousProvider == [i |-> at.i - 1, j |-> 0, since |-> now]

HookEnds ==
  /\ phase = "closing" /\ at.i > 0 /\ at.j = 1 /\ (HookDone \/ HookExpired)
  /\ at' = PreviousProvider
  /\ UNCHANGED <<settings, upstream, changes, now, phase, up, degraded, pool, busy, sampler,
                 probe, probes, spent>>

(* run_with_listener returns, and the AppContext is dropped. *)
Down ==
  /\ phase = "closing" /\ at.i = 0
  /\ phase' = "down" /\ up' = <<>>
  /\ UNCHANGED <<settings, upstream, changes, now, at, degraded, pool, busy, sampler, probe,
                 probes, spent>>

(* The sampler wakes up and finds the pool closed. *)
SamplerExits ==
  /\ sampler = "running" /\ pool = "closed" /\ sampler' = "ended"
  /\ UNCHANGED <<settings, upstream, changes, now, phase, at, up, degraded, pool, busy, probe,
                 probes, spent>>

-----------------------------------------------------------------------------

(* An upstream begins to behave otherwise. *)
Change ==
  /\ changes < MaxChanges /\ changes' = changes + 1
  /\ \E p \in Member : \E b \in Behaviours(p) \ {upstream[p]} :
       upstream' = [upstream EXCEPT ![p] = b]
  /\ UNCHANGED <<settings, now, phase, at, up, degraded, pool, busy, sampler, probe, probes,
                 spent>>

InMigrations == Step.what = "migrate"

Waits ==
  \/ phase = "init" /\ Step.asks /\ Mutes /\ ~Expired
  \/ probe.pending # {} /\ now < probe.since + ProbeLimit /\ \A p \in probe.pending : ~Answers(p)
  \/ phase = "closing" /\ at.i > 0 /\ at.j = 1 /\ ~HookDone /\ ~HookExpired

Tick ==
  /\ now < MaxTime /\ Waits
  /\ now' = now + 1
  /\ spent' = IF phase = "init" /\ ~InMigrations THEN spent + 1 ELSE spent
  /\ UNCHANGED <<settings, upstream, changes, phase, at, up, degraded, pool, busy, sampler,
                 probe, probes>>

Run == StepPasses \/ InitOk \/ InitFails \/ (\E p \in Member : CheckEnds(p)) \/ Respond
         \/ HookBegins \/ HookEnds \/ Down

Next == Run \/ StartProbe \/ Begin \/ Commit \/ Shutdown \/ SamplerExits \/ Change \/ Tick

(* Tasks that can run are polled, timers fire; no upstream owes an answer. *)
Fairness == WF_vars(Run) /\ WF_vars(Tick) /\ WF_vars(SamplerExits)

Spec == Init /\ [][Next]_vars /\ Fairness

-----------------------------------------------------------------------------

(* The variables keep their types. *)
TypeOK ==
  /\ chain \in Chains /\ required \subseteq Member /\ migrate \in {"off", "missing", "on"}
  /\ upstream \in [Member -> Upstream]
  /\ now \in Nat /\ changes \in Nat /\ probes \in Nat /\ spent \in Nat
  /\ phase \in {"init", "failed", "up", "closing", "down"}
  /\ at \in [i : Nat, j : Nat, since : Nat]
  /\ up \in Seq(Member)
  /\ degraded \subseteq [key : Member, kind : Kind, cause : Upstream \cup {"config"}]
  /\ pool \in {"none", "open", "closed"} /\ sampler \in {"none", "running", "ended"}
  /\ busy \in BOOLEAN
  /\ probe \in [since : Nat \cup {None}, pending : SUBSET Member, alive : SUBSET Member]

InitBudget(p) ==
  CASE p = "llm" -> 0
    [] p = "nats" -> connect_timeout + 2 * op_timeout
    [] OTHER -> connect_timeout + op_timeout

(* "Prevents bootstrap from hanging forever on a misconfigured / unreachable *)
(* backend" (hwhkit-config lib.rs 512-513): whatever the upstreams do, the   *)
(* init of no provider takes longer than its budget, so that boot takes no   *)
(* longer than all of them.  Only the time in migrations is not bounded.     *)
BootIsBounded == phase = "init" => spent <= InitBudget(Current)

(* "Whether retrying the operation has a chance of succeeding without        *)
(* operator intervention" (core error.rs 142-143): a flaw of the             *)
(* configuration is never reported as transient.                             *)
FlawsNeedAnOperator == \A d \in degraded : d.cause = "config" => ~is_transient(d.kind)

(* A provider whose init failed is not asked, not closed and holds nothing:  *)
(* no handle, no pool, no sampler.                                           *)
FailedLeavesNothing ==
  \A d \in degraded :
    /\ d.key \notin ToSet(up) \cup probe.pending
    /\ d.key = "postgres" => pool = "none" /\ sampler = "none"

(* "A reachable server acknowledges the flush immediately; a wedged or       *)
(* partitioned server times out" (nats lib.rs 250-252): no check says Up     *)
(* while its upstream says nothing.                                          *)
SilentIsDown == [][\A p \in probe'.alive \ probe.alive : upstream[p] # "silent"]_vars

(* "A saturated pool can't queue the readiness probe behind real traffic"    *)
(* (postgres lib.rs 279-283): readiness is answered within probe_timeout.    *)
ProbeIsBounded == probe # NoProbe => now <= probe.since + probe_timeout

(* The loops as the promise to the providers; that the server was asked to  *)
(* stop is left to Lifecycle.                                               *)
Turns == IF phase = "init" THEN SubSeq(chain, at.i, Len(chain)) ELSE <<>>
Held == IF phase = "closing" THEN SubSeq(up, 1, at.i) ELSE up
InHook == IF phase = "closing" /\ at.j = 1 THEN <<Closing>> ELSE <<>>
Custody ==
  CASE phase = "closing" -> "closing" [] phase = "down" -> "ended"
    [] phase = "failed" -> "abandoned" [] OTHER -> "open"

Abstract == INSTANCE ProviderChain WITH
  Integration <- DOMAIN Provider, todo <- Turns, up <- Held, closing <- InHook,
  asked <- TRUE, stage <- Custody

(* The steps of the providers keep the promise of the loops around them      *)
(* (core lib.rs 342-343): whichever upstream refuses or hangs, each is       *)
(* brought up at most once and in order, a hook that fails or runs out of    *)
(* time keeps none of the others from being closed, and those are closed one *)
(* at a time and from the last.                                              *)
ImplementsProviderChain == Abstract!Spec

(* "A hung transaction can hold it forever" (postgres lib.rs 203-205): no    *)
(* hook takes longer than shutdown_timeout, so that the drain takes no       *)
(* longer than one of them for each provider that came up.                   *)
HookIsBounded == phase = "closing" => now <= at.since + shutdown_timeout

(* After a shutdown the sampler ends, even if the pool was not idle.         *)
SamplerEnds == phase = "down" ~> sampler # "running"

(* "PgPool::is_closed lets us shut the sampler down cleanly when the         *)
(* application drops the pool" (postgres lib.rs 327-328).                    *)
SamplerNotices == phase = "failed" ~> sampler # "running"
=============================================================================
