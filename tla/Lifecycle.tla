----------------------------- MODULE Lifecycle ------------------------------
(***************************************************************************)
(* The life of one service process: bootstrap_with (hwhkit-core/src/lib.rs)*)
(* brings the integration providers up in order, server::run               *)
(* (hwhkit/src/production/server.rs) binds and serves until the            *)
(* ShutdownToken is cancelled, gives requests in flight up to              *)
(* max_drain_secs, and then closes the providers in reverse order.         *)
(*                                                                         *)
(* Four kinds of task interleave: the main task, the signal task of        *)
(* shutdown::install, axum's accept loop, and one detached task for each   *)
(* connection.  The clock starts when the server does, and the main task   *)
(* does not sleep past a timer that is due (see Urgent).                   *)
(***************************************************************************)
EXTENDS Integers, Sequences, FiniteSets

CONSTANTS
  Providers,     (* the provider chain handed to bootstrap_with, in order    *)
  Features,      (* RuntimeFeatures: what the binary was compiled with       *)
  Configurable,  (* bound: the integrations a config may enable or require   *)
  Connections,   (* bound: the connections clients open                      *)
  MaxDrain,      (* runtime.shutdown.max_drain_secs                          *)
  Budget,        (* how long each provider's shutdown hook waits at most     *)
  MaxBudget,     (* the largest of these, resilience.shutdown_timeout_ms     *)
  LastCancel,    (* bound: the last instant at which shutdown is requested   *)
  MaxTime        (* bound: the last instant of the clock                     *)

(* The integrations that exist, and those validate_feature_mapping knows. *)
Mapped == {"postgres", "redis", "mongodb", "nats", "qdrant", "neo4j", "s3"}
KnownFeatures == Mapped \cup {"oss", "llm"}

(* The providers whose health_check() is not None: an LLM ping costs money. *)
Probed == KnownFeatures \ {"llm"}

(* runtime_features() and default_providers() are built from the same cargo *)
(* features, so a mapped feature comes with its provider.                   *)
ASSUME LifecycleAssumption ==
  /\ Providers \in Seq(KnownFeatures)
  /\ Features \subseteq KnownFeatures /\ Configurable \subseteq KnownFeatures
  /\ \A k \in Mapped \cap Features : \E i \in 1..Len(Providers) : Providers[i] = k
  /\ MaxDrain \in Nat /\ MaxBudget \in Nat /\ Budget \in [KnownFeatures -> Nat]
  /\ \A k \in KnownFeatures : Budget[k] <= MaxBudget
  /\ LastCancel \in Nat /\ MaxTime \in Nat

VARIABLES
  enabled, required,  (* the loaded configuration                            *)
  phase,              (* the main task's place in run_and_serve              *)
  pos,                (* the provider the loop of bootstrap_with is at       *)
  retained,           (* the providers that came up, in init order           *)
  degraded,           (* optional providers whose init failed                *)
  checks,             (* the health registry                                 *)
  token,              (* the ShutdownToken is cancelled                      *)
  handler,            (* the task of shutdown::install                       *)
  accepting,          (* axum's accept loop runs                             *)
  conn,               (* each connection                                     *)
  now,                (* time since the server started                       *)
  since,              (* when the token was cancelled                        *)
  deadline,           (* when timeout(drain, serve_fut) fires                *)
  hook, hookDue,      (* whether a shutdown hook runs, and until when        *)
  closed,             (* the providers drain_providers is done with          *)
  forced,             (* the drain deadline elapsed                          *)
  exit,               (* how the process ended                               *)
  ready               (* the last answer of the readiness endpoint           *)

bootVars  == <<enabled, required, pos, retained, degraded, checks>>
netVars   == <<accepting, conn>>
sigVars   == <<token, handler, since>>
closeVars == <<hook, hookDue, closed>>
drainVars == <<deadline, forced>>
vars == <<bootVars, netVars, sigVars, closeVars, drainVars, phase, now, exit, ready>>

Booting == {"loading", "initialising", "routing", "binding"}
Up == {"serving", "draining", "closing"}
Phase == Booting \cup Up \cup {"exited"}
HandlerState == {"absent", "spawned", "armed", "done", "skipped"}
ConnState == {"new", "running", "done"}
Outcome == {"no", "ok", "config", "mismatch", "init", "router", "bind", "killed"}
Report == [code : {200, 503}, degraded : BOOLEAN, down : SUBSET KnownFeatures]
NoReport == [code |-> 0, degraded |-> FALSE, down |-> {}]

Running == {c \in Connections : conn[c] = "running"}
Elements(s) == {s[i] : i \in 1..Len(s)}

Init ==
  /\ enabled \in SUBSET Configurable /\ required \in SUBSET enabled
  /\ phase = "loading" /\ exit = "no"
  /\ pos = 1 /\ retained = <<>> /\ degraded = {} /\ checks = {}
  /\ token = FALSE /\ handler = "absent"
  /\ accepting = FALSE /\ conn = [c \in Connections |-> "new"]
  /\ now = 0 /\ since = 0 /\ deadline = 0 /\ forced = FALSE
  /\ hook = FALSE /\ hookDue = 0 /\ closed = <<>>
  /\ ready = NoReport
-----------------------------------------------------------------------------
(* Bootstrap.  A failure returns Err and the process ends; the providers that *)
(* came up before it are dropped, not shut down.                              *)
Fail(outcome) ==
  /\ phase' = "exited" /\ exit' = outcome
  /\ UNCHANGED <<bootVars, netVars, sigVars, closeVars, drainVars, now, ready>>

Advance(to) ==
  /\ phase' = to
  /\ UNCHANGED <<bootVars, netVars, sigVars, closeVars, drainVars, now, exit, ready>>

LoadFails == phase = "loading" /\ Fail("config")

(* Seeded fault: the configuration is not compared with the features. *)
ValidateNothing == phase = "loading" /\ Advance("initialising")

(* validate_feature_mapping: an enabled integration needs its cargo feature. *)
ValidateFeatureMapping ==
  /\ phase = "loading"
  /\ IF enabled \cap Mapped \subseteq Features
     THEN Advance("initialising")
     ELSE Fail("mismatch")

(* The provider the loop looks at. *)
AtProvider(k) == phase = "initialising" /\ pos <= Len(Providers) /\ k = Providers[pos]

InitRest == UNCHANGED <<enabled, required, netVars, sigVars, closeVars, drainVars,
                        phase, now, exit, ready>>

SkipDisabled(k) ==
  /\ AtProvider(k) /\ k \notin enabled
  /\ pos' = pos + 1
  /\ UNCHANGED <<retained, degraded, checks>> /\ InitRest

InitMismatch(k) == AtProvider(k) /\ k \in enabled \ Features /\ Fail("mismatch")

(* Seeded fault: the health check of an initialised provider is not kept. *)
InitOkUnchecked(k) ==
  /\ AtProvider(k) /\ k \in enabled \cap Features
  /\ retained' = Append(retained, k) /\ pos' = pos + 1
  /\ UNCHANGED <<degraded, checks>> /\ InitRest

InitOk(k) ==
  /\ AtProvider(k) /\ k \in enabled \cap Features
  /\ checks' = checks \cup ({k} \cap Probed)
  /\ retained' = Append(retained, k) /\ pos' = pos + 1
  /\ UNCHANGED degraded /\ InitRest

InitFailsRequired(k) ==
  /\ AtProvider(k) /\ k \in (enabled \cap Features) \cap required
  /\ Fail("init")

InitFailsOptional(k) ==
  /\ AtProvider(k) /\ k \in (enabled \cap Features) \ required
  /\ degraded' = degraded \cup {k} /\ pos' = pos + 1
  /\ UNCHANGED <<retained, checks>> /\ InitRest

InitDone == phase = "initialising" /\ pos > Len(Providers) /\ Advance("routing")

BuildRouter == phase = "routing" /\ (Fail("router") \/ Advance("binding"))

BindFails == phase = "binding" /\ Fail("bind")

(* bind() succeeds: run_with_listener mounts the endpoints, spawns the signal *)
(* task and polls axum's serve future.                                        *)
Bind ==
  /\ phase = "binding"
  /\ phase' = "serving" /\ accepting' = TRUE /\ handler' = "spawned"
  /\ UNCHANGED <<bootVars, conn, token, since, closeVars, drainVars, now, exit, ready>>
-----------------------------------------------------------------------------
(* Requests to stop. *)
SigRest == UNCHANGED <<bootVars, netVars, closeVars, drainVars, now, ready>>

(* The signal task's first poll registers the handlers; select! polls its arms *)
(* in random order, so a token that is cancelled already may end it first.     *)
PollSignalTask ==
  /\ handler = "spawned" /\ phase \in Up
  /\ handler' \in IF token THEN {"done", "skipped"} ELSE {"armed"}
  /\ UNCHANGED <<token, since, phase, exit>> /\ SigRest

ObserveCancelled ==
  /\ handler = "armed" /\ token /\ phase \in Up
  /\ handler' = "done"
  /\ UNCHANGED <<token, since, phase, exit>> /\ SigRest

CancelToken ==
  /\ ~token /\ now <= LastCancel
  /\ token' = TRUE /\ since' = now

(* SIGTERM or SIGINT with the handlers registered. *)
SignalCaught ==
  /\ handler = "armed" /\ phase \in Up /\ CancelToken
  /\ handler' = "done"
  /\ UNCHANGED <<phase, exit>> /\ SigRest

(* The same signal with no handler registered: the default action. *)
SignalKills ==
  /\ handler \in {"absent", "spawned", "skipped"} /\ phase # "exited"
  /\ phase' = "exited" /\ exit' = "killed"
  /\ UNCHANGED <<token, since, handler>> /\ SigRest

(* Application code cancels the token it found in AppContext. *)
CancelByApp ==
  /\ phase \in {"initialising", "routing", "binding", "serving"} /\ CancelToken
  /\ UNCHANGED <<handler, phase, exit>> /\ SigRest
-----------------------------------------------------------------------------
(* axum.  The accept loop learns of the cancellation from a task of its own,  *)
(* and each connection runs in a detached task until the process ends.        *)
ServerRest == UNCHANGED <<bootVars, sigVars, closeVars, drainVars, phase, now, exit, ready>>

Accept(c) ==
  /\ phase \in {"serving", "draining"} /\ accepting /\ conn[c] = "new"
  /\ conn' = [conn EXCEPT ![c] = "running"]
  /\ UNCHANGED accepting /\ ServerRest

HandlerReturns(c) ==
  /\ phase \in Up /\ conn[c] = "running"
  /\ conn' = [conn EXCEPT ![c] = "done"]
  /\ UNCHANGED accepting /\ ServerRest

StopAccepting ==
  /\ phase \in {"serving", "draining"} /\ accepting /\ token
  /\ accepting' = FALSE
  /\ UNCHANGED conn /\ ServerRest

(* readiness(): run_all probes every registered check, each within its own    *)
(* timeout; any subset of them may be found down.                             *)
Readiness ==
  /\ phase \in {"serving", "draining"}
  /\ \E down \in SUBSET checks :
       ready' = [code     |-> IF down \cap required # {} THEN 503 ELSE 200,
                 degraded |-> down \ required # {},
                 down     |-> down]
  /\ UNCHANGED <<bootVars, netVars, sigVars, closeVars, drainVars, phase, now, exit>>
-----------------------------------------------------------------------------
(* The main task in serve() and drain_providers(). *)
Drained == ~accepting /\ Running = {}

MainRest == UNCHANGED <<bootVars, conn, sigVars, now, exit, ready>>

(* serve_fut resolves, in the select! or inside the timeout. *)
ServeEnds ==
  /\ phase \in {"serving", "draining"} /\ Drained
  /\ phase' = "closing"
  /\ UNCHANGED <<accepting, closeVars, drainVars>> /\ MainRest

(* Seeded fault: requests in flight are not waited for. *)
SeeCancelledAndClose ==
  /\ phase = "serving" /\ token
  /\ phase' = "closing" /\ deadline' = now + MaxDrain
  /\ UNCHANGED <<accepting, closeVars, forced>> /\ MainRest

(* shutdown.cancelled() wins the select!: only now does the timer start. *)
SeeCancelled ==
  /\ phase = "serving" /\ token
  /\ phase' = "draining" /\ deadline' = now + MaxDrain
  /\ UNCHANGED <<accepting, closeVars, forced>> /\ MainRest

(* The timeout fires: serve() returns and drops the listener with serve_fut. *)
DrainDeadline ==
  /\ phase = "draining" /\ now >= deadline
  /\ phase' = "closing" /\ forced' = TRUE /\ accepting' = FALSE
  /\ UNCHANGED <<closeVars, deadline>> /\ MainRest

(* Seeded fault: the providers are closed in the order they came up. *)
HookTargetFirst == retained[Len(closed) + 1]

(* drain_providers iterates over providers().iter().rev(). *)
HookTarget == retained[Len(retained) - Len(closed)]

(* Seeded fault: the hook awaits close() without a timeout. *)
HookDeadlineNever == MaxTime + 1

HookDeadline == now + Budget[HookTarget]

HookStarts ==
  /\ phase = "closing" /\ ~hook /\ Len(closed) < Len(retained)
  /\ hook' = TRUE /\ hookDue' = HookDeadline
  /\ UNCHANGED <<accepting, closed, drainVars, phase>> /\ MainRest

HookEnds ==
  /\ hook' = FALSE /\ closed' = Append(closed, HookTarget)
  /\ UNCHANGED <<accepting, hookDue, drainVars, phase>> /\ MainRest

(* The hook's await finishes; an error is logged and the loop goes on. *)
HookReturns == phase = "closing" /\ hook /\ HookEnds

(* shutdown_timeout elapses first. *)
HookTimesOut == phase = "closing" /\ hook /\ now >= hookDue /\ HookEnds

(* run_and_serve returns; the runtime goes down with every connection task. *)
RunReturns ==
  /\ phase = "closing" /\ ~hook /\ Len(closed) = Len(retained)
  /\ phase' = "exited" /\ exit' = "ok"
  /\ UNCHANGED <<bootVars, netVars, sigVars, closeVars, drainVars, now, ready>>

(* The main task is runnable: only a wait takes time. *)
Urgent ==
  \/ phase = "serving" /\ token
  \/ phase = "draining" /\ now >= deadline
  \/ phase = "closing" /\ (~hook \/ now >= hookDue)

Tick ==
  /\ phase \in Up /\ now < MaxTime /\ ~Urgent
  /\ now' = now + 1
  /\ UNCHANGED <<bootVars, netVars, sigVars, closeVars, drainVars, phase, exit, ready>>
-----------------------------------------------------------------------------
InitProvider ==
  \E k \in KnownFeatures : \/ SkipDisabled(k) \/ InitMismatch(k) \/ InitOk(k)
                           \/ InitFailsRequired(k) \/ InitFailsOptional(k)
Bootstrap == \/ LoadFails \/ ValidateFeatureMapping \/ InitProvider \/ InitDone
             \/ BuildRouter \/ BindFails \/ Bind
Signals == PollSignalTask \/ ObserveCancelled \/ SignalCaught \/ SignalKills \/ CancelByApp
Server == StopAccepting \/ Readiness \/ \E c \in Connections : Accept(c) \/ HandlerReturns(c)
MainTask == \/ ServeEnds \/ SeeCancelled \/ DrainDeadline
            \/ HookStarts \/ HookTimesOut \/ RunReturns

Next == Bootstrap \/ Signals \/ Server \/ MainTask \/ HookReturns \/ Tick

(* The runtime polls the main task when it can go on, and time passes.  No     *)
(* connection, client or remote system is assumed to make progress.            *)
Fairness == WF_vars(MainTask) /\ WF_vars(Tick)

Spec == Init /\ [][Next]_vars
FairSpec == Spec /\ Fairness
-----------------------------------------------------------------------------
(* Type invariant. *)
TypeOK ==
  /\ enabled \subseteq Configurable /\ required \subseteq Configurable
  /\ phase \in Phase /\ exit \in Outcome
  /\ pos \in 1..(Len(Providers) + 1)
  /\ retained \in Seq(KnownFeatures) /\ closed \in Seq(KnownFeatures)
  /\ Len(closed) <= Len(retained) /\ (hook => Len(closed) < Len(retained))
  /\ degraded \subseteq KnownFeatures /\ checks \subseteq Probed
  /\ token \in BOOLEAN /\ handler \in HandlerState
  /\ accepting \in BOOLEAN /\ conn \in [Connections -> ConnState]
  /\ now \in Nat /\ since \in Nat /\ deadline \in Nat
  /\ hook \in BOOLEAN /\ hookDue \in Nat /\ forced \in BOOLEAN
  /\ ready \in Report \cup {NoReport}

(* A server that listens has every integration its configuration enables, of  *)
(* those validate_feature_mapping knows: each is initialised, or it is        *)
(* optional and listed as degraded (lib.rs 386-419).                          *)
ServingMeansInitialised ==
  phase \in Up => \A k \in enabled \cap Mapped :
                    k \in Elements(retained) \/ (k \in degraded /\ k \notin required)

(* Readiness answers 200 only when every required integration that can be     *)
(* probed was probed and found up, whichever way bootstrap got there.         *)
ReadyMeansRequiredUp ==
  ready.code = 200 => \A k \in (enabled \cap required) \cap (Mapped \cap Probed) :
                        k \in checks /\ k \notin ready.down

(* A shutdown hook runs only after the listener is gone and the requests in   *)
(* flight are over, unless the drain deadline cut them short (lib.rs 342-346, *)
(* server.rs 138-141).                                                        *)
ProvidersCloseLast ==
  (hook \/ closed # <<>>) => ~accepting /\ (forced \/ Running = {})

(* drain_providers closes the retained providers from the last initialised to *)
(* the first, and a server that returns Ok has closed every one of them.      *)
ReverseOrderToTheEnd ==
  /\ \A i \in 1..Len(closed) : closed[i] = retained[Len(retained) + 1 - i]
  /\ exit = "ok" => Len(closed) = Len(retained)

(* The main task's loops as the promise to the providers: the turns that are  *)
(* to come, the retained providers that are not closed yet, and the one whose *)
(* hook runs.                                                                 *)
Turns == IF phase = "exited" THEN <<>> ELSE SubSeq(Providers, pos, Len(Providers))
Held ==
  IF phase = "exited" THEN <<>> ELSE SubSeq(retained, 1, Len(retained) - Len(closed))
InHook == IF phase = "closing" /\ hook THEN <<HookTarget>> ELSE <<>>
Custody ==
  CASE phase = "closing" -> "closing"
    [] phase = "exited" -> IF exit = "ok" THEN "ended" ELSE "abandoned"
    [] OTHER -> "open"

Abstract == INSTANCE ProviderChain WITH
  Integration <- KnownFeatures, todo <- Turns, up <- Held, closing <- InHook,
  asked <- token, stage <- Custody

(* "Drain hook invoked in reverse-init order once the HTTP server has stopped *)
(* accepting new connections" (lib.rs 342-343): whatever fails, hangs or      *)
(* kills the process and whenever the request to stop comes, each provider is *)
(* brought up at most once, in order, and a normal exit has closed all that   *)
(* came up, one at a time and from the last; uptime alone closes none.        *)
ImplementsProviderChain == Abstract!Spec

(* Without a request to stop, the server keeps serving: the drain timer does  *)
(* not bound uptime (server.rs 171-177).                                      *)
StopsOnlyOnRequest ==
  (phase \in {"draining", "closing"} \/ exit = "ok") => token

(* However requests and remote systems hang, a server asked to stop is gone   *)
(* after max_drain_secs and one shutdown_timeout for each provider.           *)
StopsInTime ==
  (token /\ phase \in Up) => now <= since + MaxDrain + Len(retained) * MaxBudget

(* "Install platform signal handlers and trip `token` when SIGINT or SIGTERM  *)
(* arrives" (shutdown.rs 7-8): once install() has returned, no signal kills   *)
(* the process.                                                               *)
InstalledMeansCaught == handler # "absent" => exit # "killed"

(* Every request to stop a serving process ends it. *)
ShutdownCompletes == (phase = "serving" /\ token) ~> (phase = "exited")
=============================================================================
