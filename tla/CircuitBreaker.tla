--------------------------- MODULE CircuitBreaker ---------------------------
(***************************************************************************)
(* The circuit breaker of crates/hwhkit/src/production/circuit_breaker.rs: *)
(* CircuitBreaker::run and CircuitBreaker::record, executed concurrently   *)
(* by a set of tasks that share one breaker.                               *)
(*                                                                         *)
(* A step is what the code does atomically: the admission block and the    *)
(* body of record() each run under the mutex, the probe slot is an atomic  *)
(* word released OUTSIDE the mutex, and record() reads the clock before it *)
(* takes the lock.  The only await point of run() is the wrapped call, so  *)
(* that is the only place where its future can be dropped.                 *)
(***************************************************************************)
EXTENDS Integers, Sequences, FiniteSets

CONSTANTS
  Caller,        (* the tasks that call run()                                *)
  MinVolume,     (* BreakerConfig::min_request_volume                        *)
  Window,        (* BreakerConfig::window                                    *)
  OpenDuration,  (* BreakerConfig::open_duration                             *)
  RatioNum,      (* BreakerConfig::failure_ratio, as RatioNum / RatioDen     *)
  RatioDen,
  MaxTime,       (* bound: the last instant of the clock                     *)
  MaxCalls,      (* bound: how many times run() is called in all             *)
  None           (* Option::None                                             *)

ASSUME ConfigAssumption ==
  /\ MinVolume \in Nat /\ Window \in Nat /\ OpenDuration \in Nat
  /\ RatioNum \in Nat /\ RatioDen \in Nat \ {0}
  /\ MaxTime \in Nat /\ MaxCalls \in Nat
  /\ None \notin Int

VARIABLES
  now,               (* the monotonic clock behind Instant::now()            *)
  state,             (* BreakerInner::state                                  *)
  opened_at,         (* BreakerInner::opened_at                              *)
  events,            (* BreakerInner::events, oldest push first              *)
  probes_in_flight,  (* the probe slot, an AtomicUsize                       *)
  call,              (* each task's progress through run(), with its locals  *)
  calls,             (* how many calls of run() were made, for the bound     *)
  period,            (* history: results recorded in this closed period      *)
  dropped            (* history: whether a probe's future was ever dropped   *)

vars == <<now, state, opened_at, events, probes_in_flight, call, calls,
          period, dropped>>

BreakerState == {"Closed", "Open", "HalfOpen"}

(***************************************************************************)
(* idle      not inside run()                                              *)
(* running   awaiting the wrapped call                                     *)
(* release   the call returned to the owner of the probe slot, which it    *)
(*           still holds                                                   *)
(* stamp     about to read the clock in record()                           *)
(* record    holds its reading and waits for the mutex in record()         *)
(***************************************************************************)
Stage == {"idle", "running", "release", "stamp", "record"}

Event == [at : Nat, success : BOOLEAN]

CallState == [stage : Stage, probe_owner : BOOLEAN, success : BOOLEAN, at : Nat]

NotCalling == [stage |-> "idle", probe_owner |-> FALSE, success |-> FALSE, at |-> 0]

-----------------------------------------------------------------------------

(* Whether c holds the probe slot: from its compare_exchange to its store(0). *)
HoldsSlot(c) == call[c].probe_owner /\ call[c].stage \in {"running", "release"}

InFlight(c) == call[c].stage # "idle"

(* failures / total >= failure_ratio, in integers. *)
Failures(evs) == Cardinality({i \in 1..Len(evs) : ~evs[i].success})

TooManyFailures(evs) ==
  /\ Len(evs) >= MinVolume
  /\ Failures(evs) * RatioDen >= RatioNum * Len(evs)

(* Pops the front while it is older than the cutoff; stops at the first     *)
(* event that is not, which exists because the last one is the new one.     *)
Prune(evs, cutoff) ==
  LET first == CHOOSE i \in 1..Len(evs) :
                 /\ evs[i].at >= cutoff
                 /\ \A j \in 1..(i - 1) : evs[j].at < cutoff
  IN  SubSeq(evs, first, Len(evs))

OpenElapsed == opened_at # None /\ now - opened_at >= OpenDuration

-----------------------------------------------------------------------------

Init ==
  /\ now = 0
  /\ state = "Closed"
  /\ opened_at = None
  /\ events = <<>>
  /\ probes_in_flight = 0
  /\ call = [c \in Caller |-> NotCalling]
  /\ calls = 0
  /\ period = [results |-> 0, failures |-> 0]
  /\ dropped = FALSE

(* A call of run() begins; rejected calls are counted as well. *)
EnterRun(c) ==
  /\ call[c].stage = "idle"
  /\ calls < MaxCalls
  /\ calls' = calls + 1

Proceed(c, owner) ==
  call' = [call EXCEPT ![c] = [stage |-> "running", probe_owner |-> owner,
                               success |-> FALSE, at |-> 0]]

(* Closed: every call goes through. *)
RunClosed(c) ==
  /\ EnterRun(c)
  /\ state = "Closed"
  /\ Proceed(c, FALSE)
  /\ UNCHANGED <<now, state, opened_at, events, probes_in_flight, period, dropped>>

(* Open and open_duration not elapsed: fail fast with BreakerError::Open. *)
RunOpenRejected(c) ==
  /\ EnterRun(c)
  /\ state = "Open"
  /\ ~OpenElapsed
  /\ UNCHANGED <<now, state, opened_at, events, probes_in_flight, call, period, dropped>>

(* Seeded fault: the slot is written, the previous value not looked at. *)
ClaimProbeBlindly(c) ==
  /\ probes_in_flight' = 1
  /\ Proceed(c, TRUE)

(* The compare_exchange(0, 1) on the probe slot: the winner proceeds as the *)
(* probe owner, a loser fails fast.                                         *)
ClaimProbe(c) ==
  \/ /\ probes_in_flight = 0
     /\ probes_in_flight' = 1
     /\ Proceed(c, TRUE)
  \/ /\ probes_in_flight # 0
     /\ UNCHANGED <<probes_in_flight, call>>

(* Open and open_duration elapsed: turn half-open, whether or not the slot  *)
(* can be claimed.                                                          *)
RunOpenElapsed(c) ==
  /\ EnterRun(c)
  /\ state = "Open"
  /\ OpenElapsed
  /\ state' = "HalfOpen"
  /\ ClaimProbe(c)
  /\ UNCHANGED <<now, opened_at, events, period, dropped>>

RunHalfOpen(c) ==
  /\ EnterRun(c)
  /\ state = "HalfOpen"
  /\ ClaimProbe(c)
  /\ UNCHANGED <<now, state, opened_at, events, period, dropped>>

(* The wrapped call returns Ok or Err; for CircuitBreakerClient an Err is a *)
(* transport error or a 5xx (check_status).                                 *)
CallReturns(c) ==
  /\ call[c].stage = "running"
  /\ \E ok \in BOOLEAN :
       call' = [call EXCEPT ![c].stage = IF call[c].probe_owner THEN "release" ELSE "stamp",
                            ![c].success = ok]
  /\ UNCHANGED <<now, state, opened_at, events, probes_in_flight, calls, period, dropped>>

(* probes_in_flight.store(0), before record(). *)
ReleaseProbe(c) ==
  /\ call[c].stage = "release"
  /\ probes_in_flight' = 0
  /\ call' = [call EXCEPT ![c].stage = "stamp"]
  /\ UNCHANGED <<now, state, opened_at, events, calls, period, dropped>>

(* record() reads the clock first, then waits for the mutex. *)
Stamp(c) ==
  /\ call[c].stage = "stamp"
  /\ call' = [call EXCEPT ![c].stage = "record", ![c].at = now]
  /\ UNCHANGED <<now, state, opened_at, events, probes_in_flight, calls, period, dropped>>

Return(c) == call' = [call EXCEPT ![c] = NotCalling]

(* Seeded fault: a failed probe does not re-open the breaker. *)
RecordHalfOpenIgnoresFailure(c) ==
  /\ call[c].stage = "record"
  /\ state = "HalfOpen"
  /\ IF call[c].success
     THEN /\ state' = "Closed"
          /\ opened_at' = None
          /\ events' = <<>>
          /\ period' = [results |-> 0, failures |-> 0]
     ELSE UNCHANGED <<state, opened_at, events, period>>
  /\ Return(c)
  /\ UNCHANGED <<now, probes_in_flight, calls, dropped>>

RecordHalfOpen(c) ==
  /\ call[c].stage = "record"
  /\ state = "HalfOpen"
  /\ IF call[c].success
     THEN /\ state' = "Closed"
          /\ opened_at' = None
          /\ events' = <<>>
          /\ period' = [results |-> 0, failures |-> 0]
     ELSE /\ state' = "Open"
          /\ opened_at' = call[c].at
          /\ UNCHANGED <<events, period>>
  /\ Return(c)
  /\ UNCHANGED <<now, probes_in_flight, calls, dropped>>

(* Seeded fault: a late success closes an open breaker. *)
RecordOpenCloses(c) ==
  /\ call[c].stage = "record"
  /\ state = "Open"
  /\ IF call[c].success
     THEN state' = "Closed" /\ opened_at' = None
     ELSE UNCHANGED <<state, opened_at>>
  /\ Return(c)
  /\ UNCHANGED <<now, events, probes_in_flight, calls, period, dropped>>

(* The defensive branch: the result is dropped. *)
RecordOpen(c) ==
  /\ call[c].stage = "record"
  /\ state = "Open"
  /\ Return(c)
  /\ UNCHANGED <<now, state, opened_at, events, probes_in_flight, calls, period, dropped>>

(* The event queue after a result stamped t was pushed and the old ones popped. *)
Pushed(t, ok) == Prune(Append(events, [at |-> t, success |-> ok]), t - Window)

RecordClosed(c) ==
  /\ call[c].stage = "record"
  /\ state = "Closed"
  /\ events' = Pushed(call[c].at, call[c].success)
  /\ period' = [results  |-> period.results + 1,
                failures |-> period.failures + (IF call[c].success THEN 0 ELSE 1)]
  /\ IF TooManyFailures(events')
     THEN state' = "Open" /\ opened_at' = call[c].at
     ELSE UNCHANGED <<state, opened_at>>
  /\ Return(c)
  /\ UNCHANGED <<now, probes_in_flight, calls, dropped>>

(* The future is dropped at its await point (a timeout, a select, a client  *)
(* that went away), or the wrapped call panics: nothing after it runs.      *)
Cancel(c) ==
  /\ call[c].stage = "running"
  /\ Return(c)
  /\ dropped' = (dropped \/ call[c].probe_owner)
  /\ UNCHANGED <<now, state, opened_at, events, probes_in_flight, calls, period>>

Tick ==
  /\ now < MaxTime
  /\ now' = now + 1
  /\ UNCHANGED <<state, opened_at, events, probes_in_flight, call, calls, period, dropped>>

Record(c) == RecordHalfOpen(c) \/ RecordOpen(c) \/ RecordClosed(c)

Next ==
  \/ Tick
  \/ \E c \in Caller :
       \/ RunClosed(c) \/ RunOpenRejected(c) \/ RunOpenElapsed(c) \/ RunHalfOpen(c)
       \/ CallReturns(c) \/ ReleaseProbe(c) \/ Stamp(c) \/ Record(c)
       \/ Cancel(c)

(* A call whose wrapped future has resolved makes progress: a runnable task *)
(* is polled again, and the mutex is only held for bounded, await-free      *)
(* sections.  That the wrapped future resolves is nobody's promise: run()   *)
(* sets no timeout around it, and reqwest has none unless it is configured. *)
(* New calls and the clock owe nothing either.                              *)
Fairness ==
  \A c \in Caller : WF_vars(ReleaseProbe(c) \/ Stamp(c) \/ Record(c))

Spec == Init /\ [][Next]_vars

FairSpec == Spec /\ Fairness

-----------------------------------------------------------------------------

(* The types of the breaker's fields and of the locals of run(). *)
TypeOK ==
  /\ now \in Nat
  /\ state \in BreakerState
  /\ opened_at \in Nat \cup {None}
  /\ events \in Seq(Event)
  /\ probes_in_flight \in {0, 1}
  /\ call \in [Caller -> CallState]
  /\ calls \in Nat
  /\ period \in [results : Nat, failures : Nat]
  /\ dropped \in BOOLEAN

(* "Exactly one probe is admitted at a time" (run(), lines 110-114): no two *)
(* calls that won the compare_exchange are between their claim and their    *)
(* release, even though the release happens outside the mutex and the state *)
(* may change several times while a probe is out.                           *)
AtMostOneProbe ==
  \A c, d \in Caller : HoldsSlot(c) /\ HoldsSlot(d) => c = d

(* A claimed slot has an owner that will release it: the store(0) "matches   *)
(* the claim performed above" (lines 170-172).                              *)
SlotHasOwner == probes_in_flight = 1 => \E c \in Caller : HoldsSlot(c)

(* The slot is left claimed by nobody only if the future of a probe was     *)
(* dropped: on every other path of run() the store(0) "matches the claim    *)
(* performed above" (lines 170-173), whatever the state has become in the   *)
(* meantime.  Otherwise no call can ever become a probe again.              *)
SlotLostOnlyByDrop == ~dropped => SlotHasOwner

(* Unless a probe's future was dropped, a half-open breaker is waiting for  *)
(* somebody: some call that owned the probe slot is still on its way to     *)
(* record().  With nobody on the way and the slot taken the breaker would   *)
(* refuse every call for good.                                              *)
HalfOpenHasProbe ==
  state = "HalfOpen" /\ ~dropped =>
    \E c \in Caller : InFlight(c) /\ call[c].probe_owner

(* The breaker leaves Open only by turning half-open and only after         *)
(* open_duration since the failure that opened it: no late result of an     *)
(* older call closes it or restarts its timer.                              *)
OpenIsKept ==
  [][state = "Open" =>
       \/ state' = "Open" /\ opened_at' = opened_at
       \/ state' = "HalfOpen" /\ now >= opened_at + OpenDuration]_vars

(* "Exactly one caller proceeds while the breaker is in HalfOpen" (lines     *)
(* 76-78), so that no herd hits the upstream "at the moment we're trying to *)
(* decide" (110-114): of the callers that own or owned the slot, one is on  *)
(* its way through run() while the decision is open.                        *)
OneProbeUntilDecided ==
  state = "HalfOpen" =>
    \A c, d \in Caller :
      /\ InFlight(c) /\ call[c].probe_owner
      /\ InFlight(d) /\ call[d].probe_owner
      => c = d

(* "The next request is allowed through as a probe.  Success closes the     *)
(* breaker; failure re-opens it" (module doc, lines 12-13): it is the       *)
(* result of a probe that ends a half-open episode.                         *)
ProbesDecide ==
  [][state = "HalfOpen" /\ state' # "HalfOpen" =>
       \E c \in Caller :
         call[c].probe_owner /\ call[c].stage = "record" /\ call'[c].stage = "idle"]_vars

(* "Failures are counted in a sliding time-window" (module doc, lines 5-8): *)
(* a trip counts no result older than the window before the result that     *)
(* made it.                                                                 *)
TripsCountTheWindow ==
  [][state = "Closed" /\ state' = "Open" =>
       \A i \in 1..Len(events') : events'[i].at >= opened_at' - Window]_vars

(* The breaker, its slot and its callers as the promise to the service: a    *)
(* caller is out until record() is done with it, and probes as long as it    *)
(* holds the slot.                                                           *)
Since == IF state = "Open" THEN opened_at ELSE 0
Out == {c \in Caller : InFlight(c)}
Probing == {c \in Caller : HoldsSlot(c)}

Abstract == INSTANCE Breaker WITH
  Volume <- MinVolume, Num <- RatioNum, Den <- RatioDen, Pause <- OpenDuration,
  mode <- state, since <- Since, tally <- period, out <- Out, probing <- Probing

(* With a slot outside the mutex, clocks read before it, results that come   *)
(* late and futures that are dropped, the callers still meet the breaker of  *)
(* the module doc (lines 5-14): closed until enough failures earned the      *)
(* trip, then nobody for open_duration, then one at a time, and a result     *)
(* decides.                                                                  *)
ImplementsBreaker == Abstract!Spec

(* A breaker stays half-open for good only if a wrapped future never         *)
(* resolves or a probe was dropped: when no caller hangs in the wrapped     *)
(* call, the admitted calls come back and one of them decides (module doc,  *)
(* lines 12-13).                                                            *)
HalfOpenResolves ==
  (\A c \in Caller : []<>(call[c].stage # "running")) =>
    []<>(state # "HalfOpen" \/ dropped)
=============================================================================
