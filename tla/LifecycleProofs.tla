-------------------------- MODULE LifecycleProofs ---------------------------
(* Proofs about Lifecycle, for every provider chain, configuration, number of *)
(* connections and choice of timeouts.                                        *)
EXTENDS Lifecycle, SequenceTheorems, TLAPS

(* Appending a known key. *)
LEMMA AppendTypes ==
  ASSUME NEW S, NEW s \in Seq(S), NEW e \in S
  PROVE  Append(s, e) \in Seq(S) /\ Len(Append(s, e)) = Len(s) + 1
OBVIOUS

(* Bootstrap, one provider at a time, keeps the types: the sequence of        *)
(* retained providers only grows by a known key.                              *)
LEMMA InitProviderTypes ==
  ASSUME TypeOK, InitProvider, ~hook, closed = <<>>
  PROVE  TypeOK'
<1> USE DEF TypeOK, InitRest, closeVars, drainVars, netVars, sigVars, bootVars,
            AtProvider, Fail, Phase, Outcome
<1> PICK k \in KnownFeatures : \/ SkipDisabled(k) \/ InitMismatch(k) \/ InitOk(k)
                               \/ InitFailsRequired(k) \/ InitFailsOptional(k)
  BY DEF InitProvider
<1>1. CASE SkipDisabled(k)
  BY <1>1 DEF SkipDisabled
<1>2. CASE InitMismatch(k)
  BY <1>2 DEF InitMismatch
<1>3. CASE InitOk(k)
  BY <1>3 DEF InitOk
<1>4. CASE InitFailsRequired(k)
  BY <1>4 DEF InitFailsRequired
<1>5. CASE InitFailsOptional(k)
  BY <1>5 DEF InitFailsOptional
<1> QED
  BY <1>1, <1>2, <1>3, <1>4, <1>5

(* Before the main task closes anything no hook runs. *)
NothingClosedYet == phase \in Booting \cup {"serving", "draining"} => ~hook /\ closed = <<>>

(* Every step keeps the types. *)
LEMMA TypeStep ==
  ASSUME TypeOK, NothingClosedYet, [Next]_vars
  PROVE  TypeOK' /\ NothingClosedYet'
<1> USE DEF TypeOK, NothingClosedYet, closeVars, drainVars, netVars, sigVars, bootVars,
            Phase, Booting, Up, Outcome, HandlerState, ConnState
<1>1. CASE Bootstrap
  <2>1. CASE InitProvider
    <3>1. phase = "initialising"
      BY <2>1 DEF InitProvider, SkipDisabled, InitMismatch, InitOk, InitFailsRequired,
                  InitFailsOptional, AtProvider
    <3>2. UNCHANGED closeVars
      BY <2>1 DEF InitProvider, SkipDisabled, InitMismatch, InitOk, InitFailsRequired,
                  InitFailsOptional, InitRest, Fail
    <3>3. TypeOK'
      BY <2>1, <3>1, InitProviderTypes
    <3> QED
      BY <3>1, <3>2, <3>3
  <2>2. CASE LoadFails \/ ValidateFeatureMapping \/ InitDone \/ BuildRouter \/ BindFails
    BY <2>2 DEF LoadFails, ValidateFeatureMapping, InitDone, BuildRouter, BindFails,
                Fail, Advance
  <2>3. CASE Bind
    BY <2>3 DEF Bind
  <2> QED
    BY <1>1, <2>1, <2>2, <2>3 DEF Bootstrap
<1>2. CASE Signals
  <2> USE DEF CancelToken, SigRest
  <2>1. CASE PollSignalTask
    BY <2>1 DEF PollSignalTask
  <2>2. CASE ObserveCancelled
    BY <2>2 DEF ObserveCancelled
  <2>3. CASE SignalCaught
    BY <2>3 DEF SignalCaught
  <2>4. CASE SignalKills
    BY <2>4 DEF SignalKills
  <2>5. CASE CancelByApp
    BY <2>5 DEF CancelByApp
  <2> QED
    BY <1>2, <2>1, <2>2, <2>3, <2>4, <2>5 DEF Signals
<1>3. CASE Server
  <2>1. CASE Readiness
    <3>1. PICK down \in SUBSET checks :
            ready' = [code     |-> IF down \cap required # {} THEN 503 ELSE 200,
                      degraded |-> down \ required # {},
                      down     |-> down]
      BY <2>1 DEF Readiness
    <3>2. ready' \in Report
      <4>1. down \subseteq KnownFeatures
        BY DEF Probed
      <4> QED
        BY <3>1, <4>1 DEF Report
    <3> QED
      BY <2>1, <3>2 DEF Readiness
  <2>2. CASE StopAccepting
    BY <2>2 DEF StopAccepting, ServerRest
  <2>3. ASSUME NEW c \in Connections, Accept(c) \/ HandlerReturns(c)
        PROVE  TypeOK' /\ NothingClosedYet'
    BY <2>3 DEF Accept, HandlerReturns, ServerRest
  <2> QED
    BY <1>3, <2>1, <2>2, <2>3 DEF Server
<1>4. CASE MainTask \/ HookReturns
  <2> USE DEF MainRest
  <2>1. CASE ServeEnds
    BY <2>1 DEF ServeEnds
  <2>5. CASE SeeCancelled
    BY <2>5, LifecycleAssumption DEF SeeCancelled
  <2>6. CASE DrainDeadline
    BY <2>6 DEF DrainDeadline
  <2>2. CASE HookStarts
    <3>1. HookTarget \in KnownFeatures
      BY <2>2 DEF HookStarts, HookTarget
    <3> QED
      BY <2>2, <3>1, LifecycleAssumption DEF HookStarts, HookDeadline
  <2>3. CASE HookTimesOut \/ HookReturns
    <3>1. HookTarget \in KnownFeatures
      BY <2>3 DEF HookTimesOut, HookReturns, HookTarget
    <3>2. Len(closed') = Len(closed) + 1 /\ closed' \in Seq(KnownFeatures)
      <4>1. closed' = Append(closed, HookTarget)
        BY <2>3 DEF HookTimesOut, HookReturns, HookEnds
      <4>2. closed \in Seq(KnownFeatures)
        OBVIOUS
      <4> HIDE DEF TypeOK
      <4> QED
        BY <4>1, <4>2, <3>1, AppendTypes
    <3>3. phase = "closing" /\ Len(closed) < Len(retained) /\ HookEnds
      BY <2>3 DEF HookTimesOut, HookReturns
    <3>4. phase' = "closing" /\ ~hook' /\ hook' \in BOOLEAN /\ Len(closed') <= Len(retained')
      <4>1. phase' = phase /\ retained' = retained /\ hook' = FALSE
        BY <3>3 DEF HookEnds, MainRest
      <4>2. Len(closed) \in Nat /\ Len(retained) \in Nat
        OBVIOUS
      <4>3. Len(closed') <= Len(retained')
        BY <3>2, <3>3, <4>1, <4>2
      <4> QED
        BY <3>3, <4>1, <4>3
    <3> QED
      BY <3>2, <3>3, <3>4 DEF HookEnds
  <2>4. CASE RunReturns
    BY <2>4 DEF RunReturns
  <2> QED
    BY <1>4, <2>1, <2>2, <2>3, <2>4, <2>5, <2>6 DEF MainTask
<1>5. CASE Tick
  BY <1>5 DEF Tick
<1>6. CASE UNCHANGED vars
  BY <1>6 DEF vars
<1> QED
  BY <1>1, <1>2, <1>3, <1>4, <1>5, <1>6 DEF Next

(* The state of a process keeps its types through bootstrap, serving and      *)
(* shutdown.                                                                  *)
THEOREM TypeCorrect == Spec => []TypeOK
<1>1. Init => TypeOK /\ NothingClosedYet
  <2> SUFFICES ASSUME Init PROVE TypeOK /\ NothingClosedYet
    OBVIOUS
  <2>1. pos \in 1..(Len(Providers) + 1)
    BY LifecycleAssumption DEF Init
  <2>2. ready \in Report \cup {NoReport}
    BY DEF Init
  <2>3. conn \in [Connections -> ConnState]
    BY DEF Init, ConnState
  <2>4. retained \in Seq(KnownFeatures) /\ closed \in Seq(KnownFeatures)
          /\ Len(closed) <= Len(retained) /\ (hook => Len(closed) < Len(retained))
    BY DEF Init
  <2> QED
    BY <2>1, <2>2, <2>3, <2>4
       DEF Init, TypeOK, NothingClosedYet, Phase, Booting, Outcome, HandlerState
<1>2. TypeOK /\ NothingClosedYet /\ [Next]_vars => (TypeOK /\ NothingClosedYet)'
  BY TypeStep
<1> QED
  BY <1>1, <1>2, PTL DEF Spec
-----------------------------------------------------------------------------
(* Closing.  Why a hook never starts early: the main task enters "closing"    *)
(* with the listener gone, and without an accept loop no connection starts.   *)
CloseInv ==
  /\ NothingClosedYet
  /\ phase = "closing" => ~accepting /\ (forced \/ Running = {})
  /\ ProvidersCloseLast

(* The steps of bootstrap and of the signal task touch neither connections    *)
(* nor providers being closed, except that bind() opens the listener.         *)
LEMMA BootAndSignalsClose ==
  ASSUME TypeOK, CloseInv, Bootstrap \/ Signals
  PROVE  CloseInv'
<1> USE DEF CloseInv, NothingClosedYet, ProvidersCloseLast, Running, closeVars, drainVars,
            netVars, sigVars, bootVars, Booting, Up
<1>1. CASE Bind
  BY <1>1 DEF Bind
<1>2. CASE Bootstrap /\ ~Bind
  <2>1. phase \in Booting /\ UNCHANGED <<hook, closed, accepting, conn, forced>>
    BY <1>2 DEF Bootstrap, LoadFails, ValidateFeatureMapping, InitProvider, SkipDisabled,
                InitMismatch, InitOk, InitFailsRequired, InitFailsOptional, InitDone,
                BuildRouter, BindFails, Fail, Advance, InitRest, AtProvider
  <2>2. phase' \in Booting \cup {"exited"}
    BY <1>2 DEF Bootstrap, LoadFails, ValidateFeatureMapping, InitProvider, SkipDisabled,
                InitMismatch, InitOk, InitFailsRequired, InitFailsOptional, InitDone,
                BuildRouter, BindFails, Fail, Advance, InitRest, AtProvider
  <2> QED
    BY <2>1, <2>2
<1>3. CASE Signals
  <2>1. UNCHANGED <<hook, closed, accepting, conn, forced>>
    BY <1>3 DEF Signals, PollSignalTask, ObserveCancelled, SignalCaught, SignalKills,
                CancelByApp, SigRest
  <2>2. phase' \in {phase, "exited"}
    BY <1>3 DEF Signals, PollSignalTask, ObserveCancelled, SignalCaught, SignalKills,
                CancelByApp, SigRest
  <2> QED
    BY <2>1, <2>2
<1> QED
  BY <1>1, <1>2, <1>3

(* Every step keeps CloseInv. *)
LEMMA CloseStep ==
  ASSUME TypeOK, CloseInv, [Next]_vars
  PROVE  CloseInv'
<1> USE DEF CloseInv, NothingClosedYet, ProvidersCloseLast, closeVars, drainVars,
            netVars, sigVars, bootVars, Booting, Up
<1>1. CASE Server
  <2>1. CASE Readiness
    BY <2>1 DEF Readiness, Running
  <2>2. CASE StopAccepting
    BY <2>2 DEF StopAccepting, ServerRest, Running
  <2>3. ASSUME NEW c \in Connections, Accept(c)
        PROVE  CloseInv'
    BY <2>3 DEF Accept, ServerRest
  <2>4. ASSUME NEW c \in Connections, HandlerReturns(c)
        PROVE  CloseInv'
    <3>1. Running' \subseteq Running
      BY <2>4 DEF HandlerReturns, Running, TypeOK
    <3> QED
      BY <2>4, <3>1 DEF HandlerReturns, ServerRest
  <2> QED
    BY <1>1, <2>1, <2>2, <2>3, <2>4 DEF Server
<1>2. CASE MainTask \/ HookReturns
  <2> USE DEF MainRest, Running
  <2>1. CASE ServeEnds
    BY <2>1 DEF ServeEnds, Drained
  <2>2. CASE SeeCancelled
    BY <2>2 DEF SeeCancelled
  <2>3. CASE DrainDeadline
    BY <2>3 DEF DrainDeadline
  <2>4. CASE HookStarts
    BY <2>4 DEF HookStarts
  <2>5. CASE HookTimesOut \/ HookReturns
    BY <2>5 DEF HookTimesOut, HookReturns, HookEnds
  <2>6. CASE RunReturns
    BY <2>6 DEF RunReturns
  <2> QED
    BY <1>2, <2>1, <2>2, <2>3, <2>4, <2>5, <2>6 DEF MainTask
<1>3. CASE Tick
  BY <1>3 DEF Tick, Running
<1>4. CASE UNCHANGED vars
  BY <1>4 DEF vars, Running
<1> QED
  BY <1>1, <1>2, <1>3, <1>4, BootAndSignalsClose DEF Next

(* No provider is closed while the server accepts connections or, short of    *)
(* the drain deadline, while a request is in flight.                          *)
THEOREM ProvidersCloseAfterRequests == Spec => []ProvidersCloseLast
<1>1. Init => CloseInv
  BY DEF Init, CloseInv, NothingClosedYet, ProvidersCloseLast, Booting
<1>2. CloseInv => ProvidersCloseLast
  BY DEF CloseInv
<1>3. TypeOK /\ CloseInv /\ [Next]_vars => CloseInv'
  BY CloseStep
<1> QED
  BY <1>1, <1>2, <1>3, TypeCorrect, PTL DEF Spec
-----------------------------------------------------------------------------
(* Stopping.  Until the main task has seen the cancellation no time passes;   *)
(* from then on each wait has its deadline, and each deadline is within the   *)
(* budget of the waits begun so far.                                          *)
Requested == phase \in {"draining", "closing"} \/ exit = "ok" => token

StopTime(n) == since + MaxDrain + n * MaxBudget

TimeInv ==
  /\ Requested
  /\ phase \in {"serving", "draining"} /\ ~accepting => token
  /\ phase \in Booting => exit = "no"
  /\ phase \in Booting \cup {"serving"} /\ token => now = since
  /\ phase = "draining" => now <= deadline /\ deadline = since + MaxDrain
  /\ phase = "closing" /\ ~hook => now <= StopTime(Len(closed))
  /\ phase = "closing" /\ hook => now <= hookDue /\ hookDue <= StopTime(Len(closed) + 1)

(* More providers, more time. *)
LEMMA StopTimeGrows ==
  ASSUME TypeOK, NEW m \in Nat, NEW n \in Nat, m <= n
  PROVE  /\ StopTime(m) \in Nat /\ StopTime(m + 1) = StopTime(m) + MaxBudget
         /\ StopTime(m) <= StopTime(n) /\ since + MaxDrain <= StopTime(m)
<1>1. MaxBudget \in Nat /\ MaxDrain \in Nat /\ since \in Nat
  BY LifecycleAssumption DEF TypeOK
<1>2. m * MaxBudget \in Nat /\ n * MaxBudget \in Nat /\ (m + 1) * MaxBudget = m * MaxBudget + MaxBudget
  BY <1>1
<1>3. m * MaxBudget <= n * MaxBudget
  BY <1>1
<1> QED
  BY <1>1, <1>2, <1>3 DEF StopTime

(* The steps of the main task keep TimeInv: each wait starts from the bound   *)
(* of the one before it.                                                      *)
LEMMA MainTaskTime ==
  ASSUME TypeOK, TimeInv, NothingClosedYet, MainTask \/ HookReturns
  PROVE  TimeInv'
<1> USE DEF MainRest, closeVars, drainVars, netVars, sigVars, bootVars, Booting
<1>1. now \in Nat /\ since \in Nat /\ deadline \in Nat /\ hookDue \in Nat
      /\ MaxDrain \in Nat /\ MaxBudget \in Nat /\ Len(closed) \in Nat
  BY LifecycleAssumption DEF TypeOK
<1>2. StopTime(Len(closed)) \in Nat
      /\ StopTime(Len(closed) + 1) = StopTime(Len(closed)) + MaxBudget
      /\ since + MaxDrain <= StopTime(Len(closed))
  BY <1>1, StopTimeGrows
<1>3. CASE ServeEnds
  <2>1. token /\ ~hook /\ now <= since + MaxDrain
    BY <1>1, <1>3 DEF ServeEnds, Drained, TimeInv, NothingClosedYet
  <2>2. now <= StopTime(Len(closed))
    BY <1>1, <1>2, <2>1
  <2>3. UNCHANGED <<token, hook, now, since, closed, hookDue, exit>> /\ phase' = "closing"
    BY <1>3 DEF ServeEnds
  <2>4. StopTime(Len(closed))' = StopTime(Len(closed))
    BY <2>3 DEF StopTime
  <2> QED
    BY <2>1, <2>2, <2>3, <2>4 DEF TimeInv, Requested
<1>4. CASE SeeCancelled
  <2>1. token /\ now = since
    BY <1>4 DEF SeeCancelled, TimeInv
  <2>2. now <= now + MaxDrain
    BY <1>1
  <2> QED
    BY <1>4, <2>1, <2>2 DEF SeeCancelled, TimeInv, Requested
<1>5. CASE DrainDeadline
  <2>1. token /\ ~hook /\ now <= since + MaxDrain
    BY <1>5 DEF DrainDeadline, TimeInv, Requested, NothingClosedYet
  <2>2. now <= StopTime(Len(closed))
    BY <1>1, <1>2, <2>1
  <2>3. UNCHANGED <<token, hook, now, since, closed, hookDue, exit>> /\ phase' = "closing"
    BY <1>5 DEF DrainDeadline
  <2>4. StopTime(Len(closed))' = StopTime(Len(closed))
    BY <2>3 DEF StopTime
  <2> QED
    BY <2>1, <2>2, <2>3, <2>4 DEF TimeInv, Requested
<1>6. CASE HookStarts
  <2>1. token /\ now <= StopTime(Len(closed))
    BY <1>6 DEF HookStarts, TimeInv, Requested
  <2>2. Budget[HookTarget] \in Nat /\ Budget[HookTarget] <= MaxBudget
    <3>1. HookTarget \in KnownFeatures
      BY <1>6 DEF HookStarts, HookTarget, TypeOK
    <3> QED
      BY <3>1, LifecycleAssumption
  <2>3. now <= HookDeadline /\ HookDeadline <= StopTime(Len(closed) + 1)
    BY <1>1, <1>2, <2>1, <2>2 DEF HookDeadline
  <2>4. UNCHANGED <<token, now, since, closed, exit>> /\ phase' = "closing"
        /\ hook' = TRUE /\ hookDue' = HookDeadline
    BY <1>6 DEF HookStarts
  <2>5. StopTime(Len(closed) + 1)' = StopTime(Len(closed) + 1)
    BY <2>4 DEF StopTime
  <2> QED
    BY <2>1, <2>3, <2>4, <2>5 DEF TimeInv, Requested
<1>7. CASE HookTimesOut \/ HookReturns
  <2>1. token /\ now <= hookDue /\ hookDue <= StopTime(Len(closed) + 1)
    BY <1>7 DEF HookTimesOut, HookReturns, TimeInv, Requested
  <2>2. Len(closed') = Len(closed) + 1
    <3>1. HookTarget \in KnownFeatures
      BY <1>7 DEF HookTimesOut, HookReturns, HookTarget, TypeOK
    <3>2. closed' = Append(closed, HookTarget) /\ closed \in Seq(KnownFeatures)
      BY <1>7 DEF HookTimesOut, HookReturns, HookEnds, TypeOK
    <3> QED
      BY <3>1, <3>2, AppendTypes
  <2>3. UNCHANGED <<token, now, since, exit>> /\ phase' = "closing" /\ hook' = FALSE
    BY <1>7 DEF HookTimesOut, HookReturns, HookEnds
  <2>4. StopTime(Len(closed))' = StopTime(Len(closed) + 1)
    BY <2>2, <2>3 DEF StopTime
  <2>5. now <= StopTime(Len(closed) + 1)
    BY <1>1, <1>2, <2>1
  <2> QED
    BY <2>1, <2>3, <2>4, <2>5 DEF TimeInv, Requested
<1>8. CASE RunReturns
  BY <1>8 DEF RunReturns, TimeInv, Requested
<1> QED
  BY <1>3, <1>4, <1>5, <1>6, <1>7, <1>8 DEF MainTask

(* Every step keeps TimeInv. *)
LEMMA TimeStep ==
  ASSUME TypeOK, TimeInv, NothingClosedYet, [Next]_vars
  PROVE  TimeInv'
<1> USE DEF closeVars, drainVars, netVars, sigVars, bootVars, Booting
<1> DEFINE Still == UNCHANGED <<now, since, token, deadline, hook, hookDue, closed>>
<1>0. Still => StopTime(Len(closed))' = StopTime(Len(closed))
               /\ StopTime(Len(closed) + 1)' = StopTime(Len(closed) + 1)
  BY DEF StopTime
<1>1. CASE Bootstrap
  <2>1. Still /\ phase \in Booting
    BY <1>1 DEF Bootstrap, LoadFails, ValidateFeatureMapping, InitProvider, SkipDisabled,
                InitMismatch, InitOk, InitFailsRequired, InitFailsOptional, InitDone,
                BuildRouter, BindFails, Bind, Fail, Advance, InitRest, AtProvider
  <2>2. \/ phase' \in Booting /\ exit' = exit
        \/ phase' = "exited" /\ exit' \in Outcome \ {"ok"}
        \/ phase' = "serving" /\ exit' = exit /\ accepting' = TRUE
    BY <1>1 DEF Bootstrap, LoadFails, ValidateFeatureMapping, InitProvider, SkipDisabled,
                InitMismatch, InitOk, InitFailsRequired, InitFailsOptional, InitDone,
                BuildRouter, BindFails, Bind, Fail, Advance, InitRest, AtProvider, Outcome
  <2> QED
    BY <2>1, <2>2 DEF TimeInv, Requested
<1>2. CASE Signals
  <2>1. CASE PollSignalTask \/ ObserveCancelled
    <3>1. Still /\ UNCHANGED <<phase, exit, accepting>>
      BY <2>1 DEF PollSignalTask, ObserveCancelled, SigRest
    <3> QED
      BY <1>0, <3>1 DEF TimeInv, Requested
  <2>2. CASE SignalKills
    <3>1. phase' = "exited" /\ exit' = "killed"
      BY <2>2 DEF SignalKills
    <3> QED
      BY <3>1 DEF TimeInv, Requested
  <2>3. CASE SignalCaught \/ CancelByApp
    <3>1. ~token /\ token' /\ since' = now /\ now' = now /\ UNCHANGED <<phase, exit>>
      BY <2>3 DEF SignalCaught, CancelByApp, CancelToken, SigRest
    <3> QED
      BY <3>1 DEF TimeInv, Requested
  <2> QED
    BY <1>2, <2>1, <2>2, <2>3 DEF Signals
<1>3. CASE Server
  <2>1. Still /\ UNCHANGED <<phase, exit>> /\ (accepting' = accepting \/ token)
    BY <1>3 DEF Server, StopAccepting, Readiness, Accept, HandlerReturns, ServerRest
  <2> QED
    BY <1>0, <2>1 DEF TimeInv, Requested
<1>4. CASE MainTask \/ HookReturns
  BY <1>4, MainTaskTime
<1>5. CASE Tick
  <2>1. UNCHANGED <<since, token, deadline, hook, hookDue, closed, phase, exit, accepting>>
        /\ now' = now + 1 /\ ~Urgent /\ phase \in Up
    BY <1>5 DEF Tick
  <2>2. now \in Nat /\ deadline \in Nat /\ hookDue \in Nat
    BY DEF TypeOK
  <2>3. phase = "draining" => now' <= deadline
    BY <2>1, <2>2 DEF Urgent
  <2>4. phase = "closing" => hook /\ now' <= hookDue
    BY <2>1, <2>2 DEF Urgent
  <2>5. phase = "serving" => ~token
    BY <2>1 DEF Urgent
  <2>6. StopTime(Len(closed) + 1)' = StopTime(Len(closed) + 1)
    BY <2>1 DEF StopTime
  <2> QED
    BY <2>1, <2>3, <2>4, <2>5, <2>6 DEF TimeInv, Requested, Up
<1>6. CASE UNCHANGED vars
  <2>1. Still /\ UNCHANGED <<phase, exit, accepting>>
    BY <1>6 DEF vars
  <2> QED
    BY <1>0, <2>1 DEF TimeInv, Requested
<1> QED
  BY <1>1, <1>2, <1>3, <1>4, <1>5, <1>6 DEF Next

(* A server stops serving only when asked to, and once asked it is gone       *)
(* within max_drain_secs and one shutdown timeout for each provider.          *)
THEOREM StopIsRequestedAndBounded == Spec => [](StopsOnlyOnRequest /\ StopsInTime)
<1>1. Init => TimeInv
  BY DEF Init, TimeInv, Requested, Booting
<1>2. TypeOK /\ NothingClosedYet /\ TimeInv /\ [Next]_vars => TimeInv'
  BY TimeStep
<1>3. TypeOK /\ TimeInv => StopsOnlyOnRequest
  BY DEF TimeInv, Requested, StopsOnlyOnRequest
<1>4. TypeOK /\ TimeInv => StopsInTime
  <2> SUFFICES ASSUME TypeOK, TimeInv, token, phase \in Up
               PROVE  now <= StopTime(Len(retained))
    BY DEF StopsInTime, StopTime
  <2>1. /\ now \in Nat /\ since \in Nat /\ deadline \in Nat /\ hookDue \in Nat
        /\ MaxDrain \in Nat /\ Len(closed) \in Nat /\ Len(retained) \in Nat
        /\ Len(closed) <= Len(retained) /\ (hook => Len(closed) + 1 <= Len(retained))
    BY LifecycleAssumption DEF TypeOK
  <2>2. StopTime(Len(retained)) \in Nat /\ since + MaxDrain <= StopTime(Len(retained))
    BY <2>1, StopTimeGrows
  <2>3. CASE phase \in {"serving", "draining"}
    BY <2>1, <2>2, <2>3 DEF TimeInv
  <2>4. CASE phase = "closing" /\ ~hook
    BY <2>1, <2>2, <2>4, StopTimeGrows DEF TimeInv
  <2>5. CASE phase = "closing" /\ hook
    <3>1. StopTime(Len(closed) + 1) <= StopTime(Len(retained)) /\ StopTime(Len(closed) + 1) \in Nat
      BY <2>1, <2>5, StopTimeGrows
    <3> QED
      BY <2>1, <2>2, <2>5, <3>1 DEF TimeInv
  <2> QED
    BY <2>3, <2>4, <2>5 DEF Up
<1>5. Init => NothingClosedYet
  BY DEF Init, NothingClosedYet
<1>6. TypeOK /\ NothingClosedYet /\ [Next]_vars => NothingClosedYet'
  BY TypeStep
<1> QED
  BY <1>1, <1>2, <1>3, <1>4, <1>5, <1>6, TypeCorrect, PTL DEF Spec

(* The first half by itself: uptime alone never ends a server.                *)
THEOREM StopIsRequested == Spec => []StopsOnlyOnRequest
BY StopIsRequestedAndBounded, PTL
-----------------------------------------------------------------------------
(* Bootstrap.  The loop has dealt with every provider before its position,    *)
(* the mapped ones among the enabled are compiled in and so in the chain, and *)
(* each retained provider that can be probed is registered.                   *)
Handled(k) == k \in Elements(retained) \/ (k \in degraded /\ k \notin required)

BootInv ==
  /\ phase = "loading" => pos = 1
  /\ phase \notin {"loading", "exited"} => enabled \cap Mapped \subseteq Features
  /\ phase = "initialising" =>
       \A i \in 1..Len(Providers) :
         i < pos /\ Providers[i] \in enabled => Handled(Providers[i])
  /\ phase \in {"routing", "binding"} \cup Up => \A k \in enabled \cap Mapped : Handled(k)
  /\ \A k \in Elements(retained) : k \in Probed => k \in checks
  /\ phase \in Booting => ready = NoReport

(* The elements of a sequence that grows by one. *)
LEMMA ElementsAppend ==
  ASSUME NEW S, NEW s \in Seq(S), NEW e \in S
  PROVE  Elements(Append(s, e)) = Elements(s) \cup {e}
BY DEF Elements

(* One turn of the loop over the providers. *)
LEMMA InitProviderBoot ==
  ASSUME TypeOK, BootInv, InitProvider
  PROVE  BootInv'
<1> USE DEF InitRest, closeVars, drainVars, netVars, sigVars, bootVars, AtProvider
<1> PICK k \in KnownFeatures : \/ SkipDisabled(k) \/ InitMismatch(k) \/ InitOk(k)
                               \/ InitFailsRequired(k) \/ InitFailsOptional(k)
  BY DEF InitProvider
<1>1. CASE InitMismatch(k) \/ InitFailsRequired(k)
  BY <1>1 DEF InitMismatch, InitFailsRequired, Fail, BootInv, Handled, Booting, Up, Elements
<1>2. CASE SkipDisabled(k) \/ InitOk(k) \/ InitFailsOptional(k)
  <2>1. /\ phase = "initialising" /\ phase' = "initialising" /\ pos' = pos + 1
        /\ pos <= Len(Providers) /\ k = Providers[pos] /\ UNCHANGED <<enabled, required, ready>>
    BY <1>2 DEF SkipDisabled, InitOk, InitFailsOptional
  <2>2. /\ Elements(retained) \subseteq Elements(retained') /\ degraded \subseteq degraded'
        /\ k \in enabled => Handled(k)'
        /\ \A e \in Elements(retained') : e \in Probed => e \in checks'
    <3>1. CASE SkipDisabled(k)
      BY <3>1 DEF SkipDisabled, Handled, BootInv
    <3>2. CASE InitOk(k)
      <4>1. Elements(retained') = Elements(retained) \cup {k}
        BY <3>2, ElementsAppend DEF InitOk, TypeOK
      <4> QED
        BY <3>2, <4>1 DEF InitOk, Handled, BootInv
    <3>3. CASE InitFailsOptional(k)
      BY <3>3 DEF InitFailsOptional, Handled, BootInv
    <3> QED
      BY <1>2, <3>1, <3>2, <3>3
  <2>3. \A i \in 1..Len(Providers) : i < pos' /\ Providers[i] \in enabled' => Handled(Providers[i])'
    <3> SUFFICES ASSUME NEW i \in 1..Len(Providers), i < pos', Providers[i] \in enabled'
                 PROVE  Handled(Providers[i])'
      OBVIOUS
    <3>1. i < pos \/ i = pos
      BY <2>1, LifecycleAssumption DEF TypeOK
    <3>2. CASE i < pos
      <4>1. Handled(Providers[i])
        BY <2>1, <3>2 DEF BootInv
      <4> QED
        BY <2>1, <2>2, <4>1 DEF Handled
    <3>3. CASE i = pos
      BY <2>1, <2>2, <3>3
    <3> QED
      BY <3>1, <3>2, <3>3
  <2> QED
    BY <2>1, <2>2, <2>3 DEF BootInv, Booting, Up
<1> QED
  BY <1>1, <1>2

(* Every step keeps BootInv. *)
LEMMA BootStep ==
  ASSUME TypeOK, BootInv, [Next]_vars
  PROVE  BootInv'
<1> USE DEF closeVars, drainVars, netVars, sigVars, bootVars
<1> DEFINE Kept == UNCHANGED bootVars
<1>0. Kept => /\ Elements(retained)' = Elements(retained)
              /\ \A k : Handled(k)' <=> Handled(k)
  BY DEF Elements, Handled
<1>1. CASE Bootstrap
  <2>1. CASE InitProvider
    BY <2>1, InitProviderBoot
  <2>2. CASE LoadFails \/ BindFails \/ BuildRouter
    BY <1>0, <2>2 DEF LoadFails, BindFails, BuildRouter, Fail, Advance, BootInv, Booting, Up
  <2>3. CASE ValidateFeatureMapping
    <3>1. Kept /\ ready' = ready /\ phase = "loading"
      BY <2>3 DEF ValidateFeatureMapping, Fail, Advance
    <3>2. pos = 1 => \A i \in 1..Len(Providers) : ~(i < pos)
      BY LifecycleAssumption
    <3>3. \/ phase' = "exited"
          \/ phase' = "initialising" /\ enabled \cap Mapped \subseteq Features
      BY <2>3 DEF ValidateFeatureMapping, Fail, Advance
    <3> QED
      BY <1>0, <3>1, <3>2, <3>3 DEF BootInv, Booting, Up
  <2>4. CASE InitDone
    <3>1. Kept /\ ready' = ready /\ phase = "initialising" /\ phase' = "routing"
          /\ pos > Len(Providers)
      BY <2>4 DEF InitDone, Advance
    <3>2. ASSUME NEW k \in enabled \cap Mapped
          PROVE  Handled(k)
      <4>1. PICK i \in 1..Len(Providers) : Providers[i] = k
        BY <3>1, LifecycleAssumption DEF BootInv
      <4>2. i < pos
        BY <3>1, LifecycleAssumption DEF TypeOK
      <4> QED
        BY <3>1, <4>1, <4>2 DEF BootInv
    <3> QED
      BY <1>0, <3>1, <3>2 DEF BootInv, Booting, Up
  <2>5. CASE Bind
    BY <1>0, <2>5 DEF Bind, BootInv, Booting, Up
  <2> QED
    BY <1>1, <2>1, <2>2, <2>3, <2>4, <2>5 DEF Bootstrap
<1>2. CASE Signals
  <2>1. Kept /\ ready' = ready /\ phase' \in {phase, "exited"}
    BY <1>2 DEF Signals, PollSignalTask, ObserveCancelled, SignalCaught, SignalKills,
                CancelByApp, SigRest
  <2> QED
    BY <1>0, <2>1 DEF BootInv, Booting, Up
<1>3. CASE Server
  <2>1. Kept /\ phase' = phase /\ phase \in Up
    BY <1>3 DEF Server, StopAccepting, Readiness, Accept, HandlerReturns, ServerRest, Up
  <2> QED
    BY <1>0, <2>1 DEF BootInv, Booting, Up
<1>4. CASE MainTask \/ HookReturns
  <2>1. Kept /\ phase \in Up /\ phase' \in Up \cup {"exited"}
    BY <1>4 DEF MainTask, ServeEnds, SeeCancelled, DrainDeadline, HookStarts, HookTimesOut,
                HookReturns, HookEnds, RunReturns, MainRest, Up
  <2> QED
    BY <1>0, <2>1 DEF BootInv, Booting, Up
<1>5. CASE Tick \/ UNCHANGED vars
  <2>1. Kept /\ phase' = phase /\ ready' = ready
    BY <1>5 DEF Tick, vars
  <2> QED
    BY <1>0, <2>1 DEF BootInv, Booting, Up
<1> QED
  BY <1>1, <1>2, <1>3, <1>4, <1>5 DEF Next

(* A server that listens has every enabled integration initialised, or        *)
(* optional and degraded.                                                     *)
THEOREM ServedIsInitialised == Spec => []ServingMeansInitialised
<1>1. Init => BootInv
  BY LifecycleAssumption DEF Init, BootInv, Booting, Up, Elements
<1>2. TypeOK /\ BootInv /\ [Next]_vars => BootInv'
  BY BootStep
<1>3. BootInv => ServingMeansInitialised
  BY DEF BootInv, ServingMeansInitialised, Handled
<1> QED
  BY <1>1, <1>2, <1>3, TypeCorrect, PTL DEF Spec

(* Readiness never answers 200 while a required integration was unprobed or   *)
(* down.                                                                      *)
THEOREM ReadinessIsHonest == Spec => []ReadyMeansRequiredUp
<1>1. Init => BootInv /\ ReadyMeansRequiredUp
  BY LifecycleAssumption DEF Init, BootInv, Booting, Up, Elements, ReadyMeansRequiredUp, NoReport
<1>2. TypeOK /\ BootInv /\ [Next]_vars => BootInv'
  BY BootStep
<1>3. TypeOK /\ BootInv /\ ReadyMeansRequiredUp /\ [Next]_vars => ReadyMeansRequiredUp'
  <2> SUFFICES ASSUME TypeOK, BootInv, BootInv', ReadyMeansRequiredUp, [Next]_vars
               PROVE  ReadyMeansRequiredUp'
    BY <1>2
  <2>1. CASE phase' \in Booting
    BY <2>1 DEF BootInv, ReadyMeansRequiredUp, NoReport
  <2>2. CASE Readiness
    <3>1. PICK down \in SUBSET checks :
            ready' = [code     |-> IF down \cap required # {} THEN 503 ELSE 200,
                      degraded |-> down \ required # {},
                      down     |-> down]
      BY <2>2 DEF Readiness
    <3>2. phase \in Up /\ UNCHANGED <<enabled, required, checks>>
      BY <2>2 DEF Readiness, Up, bootVars
    <3> SUFFICES ASSUME ready'.code = 200,
                        NEW k \in (enabled \cap required) \cap (Mapped \cap Probed)
                 PROVE  k \in checks /\ k \notin down
      BY <3>1, <3>2 DEF ReadyMeansRequiredUp
    <3>3. Handled(k) /\ k \in required
      BY <3>2 DEF BootInv
    <3> QED
      BY <3>1, <3>3 DEF Handled, BootInv
  <2>3. CASE ~Readiness /\ phase' \notin Booting
    <3>1. UNCHANGED <<enabled, required, checks, ready>>
      BY <2>3 DEF Next, vars, Bootstrap, LoadFails, ValidateFeatureMapping, InitProvider,
                  SkipDisabled, InitMismatch, InitOk, InitFailsRequired, InitFailsOptional,
                  InitDone, BuildRouter, BindFails, Bind, Fail, Advance, InitRest, AtProvider,
                  Signals, PollSignalTask, ObserveCancelled, SignalCaught, SignalKills,
                  CancelByApp, SigRest, Server, StopAccepting, Accept, HandlerReturns,
                  ServerRest, MainTask, ServeEnds, SeeCancelled, DrainDeadline, HookStarts,
                  HookTimesOut, HookReturns, HookEnds, RunReturns, MainRest, Tick,
                  bootVars, Booting
    <3> QED
      BY <3>1 DEF ReadyMeansRequiredUp
  <2> QED
    BY <2>1, <2>2, <2>3
<1> QED
  BY <1>1, <1>2, <1>3, TypeCorrect, PTL DEF Spec
-----------------------------------------------------------------------------
(* A position counted from the end moves by one with each provider closed. *)
OrderInv == /\ NothingClosedYet /\ ReverseOrderToTheEnd
            /\ exit = "ok" => phase = "exited"

(* The hook that ends is the one of the last provider not closed yet. *)
LEMMA HookEndsInOrder ==
  ASSUME TypeOK, OrderInv, HookTimesOut \/ HookReturns
  PROVE  OrderInv'
<1>1. /\ phase = "closing" /\ phase' = phase /\ hook /\ ~hook' /\ UNCHANGED <<retained, exit>>
      /\ closed' = Append(closed, HookTarget)
  BY DEF HookTimesOut, HookReturns, HookEnds, MainRest, bootVars
<1>2. Len(closed) \in Nat /\ Len(retained) \in Nat /\ Len(closed) < Len(retained)
  BY <1>1 DEF TypeOK
<1>3. HookTarget \in KnownFeatures
  BY <1>2 DEF HookTarget, TypeOK
<1>4. /\ Len(closed') = Len(closed) + 1 /\ closed'[Len(closed) + 1] = HookTarget
      /\ \A i \in 1..Len(closed) : closed'[i] = closed[i]
  BY <1>1, <1>2, <1>3 DEF TypeOK
<1>5. \A i \in 1..Len(closed') : closed'[i] = retained'[Len(retained') + 1 - i]
  <2> SUFFICES ASSUME NEW i \in 1..(Len(closed) + 1)
               PROVE  closed'[i] = retained[Len(retained) + 1 - i]
    BY <1>1, <1>4
  <2>1. CASE i \in 1..Len(closed)
    BY <2>1, <1>4 DEF OrderInv, ReverseOrderToTheEnd
  <2>2. CASE i = Len(closed) + 1
    <3>1. Len(retained) + 1 - i = Len(retained) - Len(closed)
      BY <1>2, <2>2
    <3> QED
      BY <1>4, <2>2, <3>1 DEF HookTarget
  <2> QED
    BY <1>2, <2>1, <2>2
<1>6. exit # "ok"
  BY <1>1 DEF OrderInv
<1> QED
  BY <1>1, <1>5, <1>6 DEF OrderInv, ReverseOrderToTheEnd, NothingClosedYet, Booting

(* The providers are closed in the reverse of the order they came up in, and  *)
(* a server that ends normally leaves none open.                              *)
THEOREM ClosesInReverse == Spec => []ReverseOrderToTheEnd
<1>1. Init => OrderInv
  BY DEF Init, OrderInv, ReverseOrderToTheEnd, NothingClosedYet
<1>2. TypeOK /\ OrderInv /\ [Next]_vars => OrderInv'
  <2> SUFFICES ASSUME TypeOK, OrderInv, [Next]_vars
               PROVE  OrderInv'
    OBVIOUS
  <2>1. NothingClosedYet'
    BY TypeStep DEF OrderInv
  <2>2. CASE HookTimesOut \/ HookReturns
    BY <2>2, HookEndsInOrder
  <2>3. CASE InitProvider
    <3>1. phase = "initialising" /\ UNCHANGED closed /\ exit' \in {exit, "mismatch", "init"}
      BY <2>3 DEF InitProvider, SkipDisabled, InitMismatch, InitOk, InitFailsRequired,
                  InitFailsOptional, AtProvider, InitRest, Fail, closeVars
    <3>2. closed = <<>> /\ closed' = <<>> /\ Len(closed) = 0
      BY <3>1 DEF OrderInv, NothingClosedYet, Booting
    <3>3. exit' # "ok"
      BY <3>1 DEF OrderInv
    <3> QED
      BY <2>1, <3>2, <3>3 DEF OrderInv, ReverseOrderToTheEnd
  <2>4. CASE RunReturns
    BY <2>1, <2>4 DEF RunReturns, OrderInv, ReverseOrderToTheEnd, bootVars, closeVars
  <2>5. CASE ~InitProvider /\ ~HookTimesOut /\ ~HookReturns /\ ~RunReturns
    <3>1. UNCHANGED <<retained, closed>> /\ (exit' = exit \/ exit' # "ok")
          /\ (phase # "exited" \/ phase' = phase)
      BY <2>5 DEF Next, vars, Bootstrap, LoadFails, ValidateFeatureMapping, InitDone,
                  BuildRouter, BindFails, Bind, Fail, Advance, Signals, PollSignalTask,
                  ObserveCancelled, SignalCaught, SignalKills, CancelByApp, SigRest, Server,
                  StopAccepting, Readiness, Accept, HandlerReturns, ServerRest, MainTask,
                  ServeEnds, SeeCancelled, DrainDeadline, HookStarts, MainRest, Tick,
                  bootVars, closeVars, Up
    <3> QED
      BY <2>1, <3>1 DEF OrderInv, ReverseOrderToTheEnd
  <2> QED
    BY <2>2, <2>3, <2>4, <2>5
<1>3. OrderInv => ReverseOrderToTheEnd
  BY DEF OrderInv
<1> QED
  BY <1>1, <1>2, <1>3, TypeCorrect, PTL DEF Spec
-----------------------------------------------------------------------------
(* The promise to the providers.  When the loop over them is left, no turn is *)
(* to come; and the providers still to be closed are a prefix of the retained *)
(* ones, whose last is the hook's target.                                     *)
ChainInv ==
  /\ NothingClosedYet
  /\ phase \in {"routing", "binding"} \cup Up => pos > Len(Providers)

LEMMA ChainStep ==
  ASSUME TypeOK, ChainInv, [Next]_vars
  PROVE  ChainInv'
<1>1. NothingClosedYet'
  BY TypeStep DEF ChainInv
<1>2. CASE InitDone
  BY <1>1, <1>2 DEF InitDone, Advance, ChainInv, bootVars
<1>3. CASE InitProvider
  <2>1. phase' \in {"initialising", "exited"}
    BY <1>3 DEF InitProvider, SkipDisabled, InitMismatch, InitOk, InitFailsRequired,
                InitFailsOptional, AtProvider, InitRest, Fail
  <2> QED BY <1>1, <2>1 DEF ChainInv, Up
<1>4. CASE ~InitDone /\ ~InitProvider
  <2>1. /\ pos' = pos
        /\ \/ phase' \in {"loading", "initialising", "exited"}
           \/ phase \in {"routing", "binding"} \cup Up
    BY <1>4 DEF Next, vars, Bootstrap, LoadFails, ValidateFeatureMapping, BuildRouter, BindFails,
                Bind, Fail, Advance, Signals, PollSignalTask, ObserveCancelled, SignalCaught,
                SignalKills, CancelByApp, SigRest, Server, StopAccepting, Readiness, Accept,
                HandlerReturns, ServerRest, MainTask, ServeEnds, SeeCancelled, DrainDeadline,
                HookStarts, HookTimesOut, HookReturns, HookEnds, RunReturns, MainRest, Tick,
                bootVars, Up, TypeOK, Phase, Booting
  <2> QED BY <1>1, <2>1 DEF ChainInv, Up
<1> QED BY <1>2, <1>3, <1>4

(* What is left to close, and the provider whose hook is next. *)
LEMMA HeldWhileClosing ==
  ASSUME TypeOK, phase = "closing"
  PROVE  /\ Held = SubSeq(retained, 1, Len(retained) - Len(closed))
         /\ Held \in Seq(KnownFeatures) /\ Len(Held) = Len(retained) - Len(closed)
         /\ Len(closed) < Len(retained) => Held # <<>> /\ Held[Len(Held)] = HookTarget
         /\ Len(closed) = Len(retained) => Held = <<>>
<1>1. /\ retained \in Seq(KnownFeatures) /\ Len(retained) \in Nat /\ Len(closed) \in Nat
      /\ Len(closed) <= Len(retained)
  BY DEF TypeOK
<1> DEFINE n == Len(retained) - Len(closed)
<1>2. n \in Nat /\ n <= Len(retained)
  BY <1>1
<1>3. Held = SubSeq(retained, 1, n)
  BY DEF Held
<1>4. \A i \in 1..n : retained[i] \in KnownFeatures
  BY <1>1, <1>2
<1>5. /\ Held \in Seq(KnownFeatures) /\ Len(Held) = n
      /\ \A i \in 1..n : Held[i] = retained[i]
  <2> HIDE DEF n
  <2>1. /\ SubSeq(retained, 1, n) \in Seq(KnownFeatures)
        /\ Len(SubSeq(retained, 1, n)) = IF 1 <= n THEN n - 1 + 1 ELSE 0
        /\ \A i \in 1..(n - 1 + 1) : SubSeq(retained, 1, n)[i] = retained[1 + i - 1]
    BY <1>2, <1>4, SubSeqProperties
  <2> QED BY <1>2, <1>3, <2>1
<1>6. ASSUME Len(closed) < Len(retained) PROVE Held # <<>> /\ Held[Len(Held)] = HookTarget
  <2>1. n \in 1..n
    BY <1>1, <1>6
  <2>2. Held[n] = retained[n]
    BY <1>5, <2>1
  <2> QED BY <1>5, <2>1, <2>2 DEF HookTarget
<1>7. ASSUME Len(closed) = Len(retained) PROVE Held = <<>>
  BY <1>1, <1>3, <1>7, SubSeqEmpty
<1> QED BY <1>3, <1>5, <1>6, <1>7

AbstractStep == [Abstract!Next]_(Abstract!vars)

(* Boot fails, or the process is killed. *)
LEMMA AbandonStep ==
  ASSUME phase # "exited", phase' = "exited", exit' # "ok", UNCHANGED token
  PROVE  AbstractStep
BY DEF AbstractStep, Abstract!Next, Abstract!Abandon, Turns, Held, InHook, Custody

(* One turn of the loop over the providers. *)
LEMMA TurnStep ==
  ASSUME TypeOK, ChainInv, InitProvider
  PROVE  AbstractStep
<1> USE DEF InitRest, closeVars, drainVars, netVars, sigVars, bootVars, AtProvider
<1> PICK k \in KnownFeatures : \/ SkipDisabled(k) \/ InitMismatch(k) \/ InitOk(k)
                               \/ InitFailsRequired(k) \/ InitFailsOptional(k)
  BY DEF InitProvider
<1>1. CASE InitMismatch(k) \/ InitFailsRequired(k)
  BY <1>1, AbandonStep DEF InitMismatch, InitFailsRequired, Fail
<1>2. CASE SkipDisabled(k) \/ InitOk(k) \/ InitFailsOptional(k)
  <2>1. /\ phase = "initialising" /\ phase' = "initialising" /\ pos' = pos + 1
        /\ pos \in 1..Len(Providers) /\ k = Providers[pos] /\ UNCHANGED <<token, hook, closed, exit>>
    BY <1>2, LifecycleAssumption DEF SkipDisabled, InitOk, InitFailsOptional, TypeOK
  <2>2. /\ Turns = SubSeq(Providers, pos, Len(Providers))
        /\ Turns' = SubSeq(Providers, pos + 1, Len(Providers))
        /\ InHook = <<>> /\ InHook' = <<>> /\ Custody = "open" /\ Custody' = "open"
    BY <2>1 DEF Turns, InHook, Custody
  <2>3. Turns # <<>> /\ Head(Turns) = k /\ Tail(Turns) = Turns'
    <3>1. Providers \in Seq(KnownFeatures) /\ Len(Providers) \in pos..Len(Providers)
      BY <2>1, LifecycleAssumption
    <3>2. Head(Turns) = k /\ Tail(Turns) = Turns'
      BY <2>1, <2>2, <3>1, HeadTailOfSubSeq
    <3>3. Len(Turns) = Len(Providers) - pos + 1
      <4>1. pos \in Int /\ Len(Providers) \in Int /\ pos <= Len(Providers)
            /\ \A i \in pos..Len(Providers) : Providers[i] \in KnownFeatures
        BY <2>1, <3>1
      <4> QED BY <2>2, <4>1, SubSeqProperties
    <3> QED BY <2>1, <3>1, <3>2, <3>3
  <2>4. Held = retained /\ Held' = retained'
    <3>1. closed = <<>> /\ Len(closed) = 0 /\ closed' = <<>> /\ Len(closed') = 0
      BY <2>1 DEF ChainInv, NothingClosedYet, Booting
    <3>2. retained \in Seq(KnownFeatures) /\ retained' \in Seq(KnownFeatures)
      <4>1. retained' = retained \/ retained' = Append(retained, k)
        BY <1>2 DEF SkipDisabled, InitOk, InitFailsOptional
      <4> QED BY <4>1 DEF TypeOK
    <3>3. SubSeq(retained, 1, Len(retained)) = retained
          /\ SubSeq(retained', 1, Len(retained')) = retained'
      BY <3>2, SubSeqFull
    <3> QED BY <2>1, <3>1, <3>2, <3>3 DEF Held
  <2>5. CASE InitOk(k)
    <3>1. Held' = Append(Held, Head(Turns))
      BY <2>3, <2>4, <2>5 DEF InitOk
    <3>2. Abstract!BringUp
      BY <2>1, <2>2, <2>3, <3>1 DEF Abstract!BringUp
    <3> QED BY <3>2 DEF AbstractStep, Abstract!Next
  <2>6. CASE SkipDisabled(k) \/ InitFailsOptional(k)
    <3>1. Held' = Held
      BY <2>4, <2>6 DEF SkipDisabled, InitFailsOptional
    <3>2. Abstract!PassOver
      BY <2>1, <2>2, <2>3, <3>1 DEF Abstract!PassOver
    <3> QED BY <3>2 DEF AbstractStep, Abstract!Next
  <2> QED BY <1>2, <2>5, <2>6
<1> QED BY <1>1, <1>2

(* The main task leaves the server, closes one provider, or returns. *)
LEMMA DrainStep ==
  ASSUME TypeOK, ChainInv, phase' = "closing" => token,
         ServeEnds \/ DrainDeadline \/ HookStarts \/ HookTimesOut \/ HookReturns \/ RunReturns
  PROVE  AbstractStep
<1> USE DEF MainRest, closeVars, drainVars, netVars, sigVars, bootVars
<1>0. Len(retained) \in Nat /\ Len(closed) \in Nat
  BY DEF TypeOK
<1>1. CASE ServeEnds \/ DrainDeadline
  <2>1. /\ phase \in {"serving", "draining"} /\ phase' = "closing" /\ token
        /\ UNCHANGED <<pos, retained, closed, hook, token>>
    BY <1>1 DEF ServeEnds, DrainDeadline
  <2>2. ~hook /\ pos > Len(Providers) /\ pos \in Int /\ Len(Providers) \in Int
    BY <2>1, LifecycleAssumption DEF ChainInv, NothingClosedYet, Up, TypeOK
  <2>3. Turns = <<>>
    BY <2>1, <2>2, SubSeqEmpty DEF Turns
  <2>4. Abstract!StopServing
    BY <2>1, <2>2, <2>3 DEF Abstract!StopServing, Turns, Held, InHook, Custody
  <2> QED BY <2>4 DEF AbstractStep, Abstract!Next
<1>2. CASE HookStarts
  <2>1. /\ phase = "closing" /\ phase' = "closing" /\ ~hook /\ hook' /\ Len(closed) < Len(retained)
        /\ UNCHANGED <<pos, retained, closed, token>>
    BY <1>2 DEF HookStarts
  <2>2. Held # <<>> /\ Held[Len(Held)] = HookTarget
    BY <2>1, HeldWhileClosing
  <2>3. Turns' = Turns /\ Held' = Held /\ HookTarget' = HookTarget
    BY <2>1 DEF Turns, Held, HookTarget
  <2>4. Abstract!CloseBegins
    BY <2>1, <2>2, <2>3 DEF Abstract!CloseBegins, InHook, Custody
  <2> QED BY <2>4 DEF AbstractStep, Abstract!Next
<1>3. CASE HookTimesOut \/ HookReturns
  <2>1. /\ phase = "closing" /\ phase' = "closing" /\ hook /\ ~hook' /\ Len(closed) < Len(retained)
        /\ closed' = Append(closed, HookTarget) /\ UNCHANGED <<pos, retained, token>>
    BY <1>3 DEF HookTimesOut, HookReturns, HookEnds, TypeOK
  <2> DEFINE n == Len(retained) - Len(closed)
  <2>2. n \in 1..Len(retained) /\ Held = SubSeq(retained, 1, n) /\ Len(Held) = n
    BY <1>0, <2>1, HeldWhileClosing
  <2>3. Held' = SubSeq(retained, 1, n - 1)
    <3>1. HookTarget \in KnownFeatures
      BY <1>0, <2>1 DEF HookTarget, TypeOK
    <3>2. Len(closed') = Len(closed) + 1
      BY <2>1, <3>1 DEF TypeOK
    <3>3. Len(retained) - Len(closed') = n - 1
      BY <1>0, <3>2
    <3> QED BY <2>1, <3>3 DEF Held
  <2>4. SubSeq(Held, 1, n - 1) = SubSeq(retained, 1, n - 1)
    <3> HIDE DEF n
    <3>1. CASE n = 1
      BY <2>2, <3>1, SubSeqEmpty
    <3>2. CASE n > 1
      <4>1. retained \in Seq(KnownFeatures) /\ Held \in Seq(KnownFeatures)
        BY <2>1, HeldWhileClosing DEF TypeOK
      <4>2. /\ 1 \in 1..Len(retained) /\ 1 \in 1..(n - 1 + 1) /\ n - 1 \in 1..(n - 1 + 1)
            /\ 1 + 1 - 1 = 1 /\ 1 + (n - 1) - 1 = n - 1
        BY <1>0, <2>2, <3>2
      <4>3. SubSeq(SubSeq(retained, 1, n), 1, n - 1) = SubSeq(retained, 1 + 1 - 1, 1 + (n - 1) - 1)
        BY <2>2, <4>1, <4>2, SubSeqOfSubSeq
      <4> QED BY <2>2, <4>2, <4>3
    <3> QED BY <1>0, <2>2, <3>1, <3>2
  <2>5. Abstract!CloseEnds
    BY <2>1, <2>2, <2>3, <2>4 DEF Abstract!CloseEnds, Turns, InHook, Custody
  <2> QED BY <2>5 DEF AbstractStep, Abstract!Next
<1>4. CASE RunReturns
  <2>1. /\ phase = "closing" /\ phase' = "exited" /\ exit' = "ok" /\ ~hook
        /\ Len(closed) = Len(retained) /\ UNCHANGED token
    BY <1>4 DEF RunReturns
  <2>2. pos > Len(Providers) /\ pos \in Int /\ Len(Providers) \in Int
    BY <2>1, LifecycleAssumption DEF ChainInv, Up, TypeOK
  <2>3. Turns = <<>> /\ Held = <<>>
    BY <2>1, <2>2, SubSeqEmpty, HeldWhileClosing DEF Turns
  <2>4. Abstract!End
    BY <2>1, <2>3 DEF Abstract!End, Turns, Held, InHook, Custody
  <2> QED BY <2>4 DEF AbstractStep, Abstract!Next
<1> QED BY <1>1, <1>2, <1>3, <1>4

(* All other steps change nothing of it, but that somebody asks. *)
LEMMA OtherStep ==
  ASSUME TypeOK, ChainInv, [Next]_vars, ~InitProvider, ~MainTask, ~HookReturns
  PROVE  AbstractStep
<1> USE DEF closeVars, drainVars, netVars, sigVars, bootVars
<1> DEFINE Kept == UNCHANGED <<pos, retained, closed, hook, exit>> /\ Custody' = Custody
                   /\ (phase = "exited" <=> phase' = "exited")
<1>1. ASSUME Kept, UNCHANGED token \/ token' = TRUE PROVE AbstractStep
  <2>1. Turns' = Turns /\ Held' = Held
    BY <1>1 DEF Turns, Held
  <2>2. InHook' = InHook
    BY <1>1 DEF InHook, HookTarget, Custody
  <2>3. CASE UNCHANGED token
    BY <1>1, <2>1, <2>2, <2>3 DEF AbstractStep, Abstract!vars
  <2>4. CASE token' = TRUE
    BY <1>1, <2>1, <2>2, <2>4 DEF AbstractStep, Abstract!Next, Abstract!Ask
  <2> QED BY <1>1, <2>3, <2>4
<1>2. CASE LoadFails \/ ValidateFeatureMapping \/ BuildRouter \/ BindFails \/ SignalKills
  <2>1. \/ phase # "exited" /\ phase' = "exited" /\ exit' # "ok" /\ UNCHANGED token
        \/ Kept /\ UNCHANGED token
    BY <1>2 DEF LoadFails, ValidateFeatureMapping, BuildRouter, BindFails, SignalKills, SigRest,
                Fail, Advance, Custody
  <2> QED BY <1>1, <2>1, AbandonStep
<1>3. CASE InitDone \/ Bind \/ Server \/ Tick \/ UNCHANGED vars
  <2>1. Kept /\ UNCHANGED token
    BY <1>3 DEF InitDone, Advance, Bind, Server, StopAccepting, Readiness, Accept, HandlerReturns,
                ServerRest, Tick, vars, Custody
  <2> QED BY <1>1, <2>1
<1>4. CASE PollSignalTask \/ ObserveCancelled \/ SignalCaught \/ CancelByApp
  <2>1. Kept /\ (UNCHANGED token \/ token' = TRUE)
    BY <1>4 DEF PollSignalTask, ObserveCancelled, SignalCaught, CancelByApp, CancelToken, SigRest,
                Custody
  <2> QED BY <1>1, <2>1
<1> QED BY <1>2, <1>3, <1>4 DEF Next, Bootstrap, Signals

LEMMA SeeCancelledStep ==
  ASSUME SeeCancelled
  PROVE  AbstractStep
BY DEF SeeCancelled, MainRest, closeVars, drainVars, sigVars, bootVars, AbstractStep, Abstract!vars,
       Turns, Held, InHook, Custody

(* The process keeps the promise: whatever fails, hangs or kills it, each     *)
(* provider is brought up at most once and in order, and closed at most once, *)
(* from the last, after the server was asked to stop; a normal exit has       *)
(* closed them all.                                                           *)
THEOREM Implements == Spec => ImplementsProviderChain
<1>1. Init => ChainInv
  BY LifecycleAssumption DEF Init, ChainInv, NothingClosedYet, Up
<1>2. TypeOK /\ ChainInv /\ [Next]_vars => ChainInv'
  BY ChainStep
<1>3. Init => Abstract!Init
  <2> SUFFICES ASSUME Init PROVE Abstract!Init
    OBVIOUS
  <2>1. /\ Turns = SubSeq(Providers, 1, Len(Providers)) /\ InHook = <<>> /\ Custody = "open"
        /\ token \in BOOLEAN
    BY DEF Init, Turns, InHook, Custody
  <2>2. Turns \in Seq(KnownFeatures)
    BY <2>1, LifecycleAssumption, SubSeqFull
  <2>3. Held = <<>>
    <3>1. retained = <<>> /\ closed = <<>> /\ phase # "exited"
      BY DEF Init
    <3>2. Held = SubSeq(<<>>, 1, 0 - 0)
      BY <3>1 DEF Held
    <3> QED BY <3>2, SubSeqEmpty
  <2> QED BY <2>1, <2>2, <2>3 DEF Abstract!Init
<1>4. TypeOK /\ ChainInv /\ StopsOnlyOnRequest' /\ [Next]_vars => AbstractStep
  <2> SUFFICES ASSUME TypeOK, ChainInv, StopsOnlyOnRequest', [Next]_vars
               PROVE  AbstractStep
    OBVIOUS
  <2>1. CASE ServeEnds \/ DrainDeadline \/ HookStarts \/ HookTimesOut \/ HookReturns \/ RunReturns
    <3>1. phase' = "closing" => token
      BY <2>1 DEF StopsOnlyOnRequest, ServeEnds, DrainDeadline, HookStarts, HookTimesOut,
                  HookReturns, HookEnds, RunReturns, MainRest, sigVars
    <3> QED BY <2>1, <3>1, DrainStep
  <2>2. CASE ~MainTask /\ ~HookReturns
    BY <2>2, TurnStep, OtherStep
  <2> QED BY <2>1, <2>2, SeeCancelledStep DEF MainTask
<1> QED BY <1>1, <1>2, <1>3, <1>4, TypeCorrect, StopIsRequested, PTL
        DEF Spec, ImplementsProviderChain, Abstract!Spec, AbstractStep
=============================================================================
