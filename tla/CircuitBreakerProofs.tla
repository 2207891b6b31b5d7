------------------------ MODULE CircuitBreakerProofs ------------------------
(***************************************************************************)
(* Proofs about CircuitBreaker, for any number of callers, any             *)
(* configuration and any value of the bounds.                              *)
(***************************************************************************)
EXTENDS CircuitBreaker, SequenceTheorems, FiniteSetTheorems,
        WellFoundedInduction, TLAPS

(* A non-empty set of naturals has a least element. *)
LEMMA LeastNatural ==
  ASSUME NEW T \in SUBSET Nat, T # {}
  PROVE  \E n \in T : \A m \in T : n <= m
<1>1. PICK n \in T : \A m \in T : ~(<<m, n>> \in OpToRel(<, Nat))
  BY NatLessThanWellFounded, WFMin
<1>2. ASSUME NEW m \in T PROVE n <= m
  <2>1. <<m, n>> \in Nat \X Nat /\ <<m, n>>[1] = m /\ <<m, n>>[2] = n
    OBVIOUS
  <2>2. ~(m < n)
    BY <1>1, <2>1 DEF OpToRel
  <2> QED BY <2>2
<1> QED BY <1>2

(* Pruning a queue whose last event is fresh keeps a suffix of it. *)
LEMMA PruneIsSuffix ==
  ASSUME NEW evs \in Seq(Event), NEW cutoff \in Int, Len(evs) > 0,
         evs[Len(evs)].at >= cutoff
  PROVE  \E k \in 1..Len(evs) : Prune(evs, cutoff) = SubSeq(evs, k, Len(evs))
<1> DEFINE S == {i \in 1..Len(evs) : evs[i].at >= cutoff}
<1>1. Len(evs) \in Nat /\ \A i \in 1..Len(evs) : evs[i].at \in Nat
  <2>1. Len(evs) \in Nat /\ \A i \in 1..Len(evs) : evs[i] \in Event
    BY ElementOfSeq, LenProperties
  <2> QED BY <2>1 DEF Event
<1>2. S \in SUBSET Nat /\ S # {}
  BY <1>1
<1>3. PICK i \in S : \A j \in S : i <= j
  BY <1>2, LeastNatural
<1>4. /\ i \in 1..Len(evs)
      /\ evs[i].at >= cutoff
      /\ \A j \in 1..(i - 1) : evs[j].at < cutoff
  BY <1>1, <1>3
<1> QED BY <1>4 DEF Prune

(* A suffix holds no more failures than the whole queue. *)
LEMMA SuffixFailures ==
  ASSUME NEW evs \in Seq(Event), NEW k \in 1..Len(evs)
  PROVE  LET suffix == SubSeq(evs, k, Len(evs))
         IN  /\ suffix \in Seq(Event)
             /\ Len(suffix) <= Len(evs)
             /\ Failures(evs) \in Nat /\ Failures(suffix) \in Nat
             /\ Failures(suffix) <= Failures(evs)
<1> DEFINE n == Len(evs)
           suffix == SubSeq(evs, k, n)
           F == {i \in 1..n : ~evs[i].success}
           G == {i \in 1..Len(suffix) : ~suffix[i].success}
           f == [i \in G |-> i + k - 1]
<1>1. n \in Nat /\ \A i \in k..n : evs[i] \in Event
  OBVIOUS
<1>2. /\ suffix \in Seq(Event)
      /\ Len(suffix) = n - k + 1
      /\ \A i \in 1..(n - k + 1) : suffix[i] = evs[k + i - 1]
  BY <1>1, SubSeqProperties
<1>3. IsFiniteSet(1..n) /\ F \in SUBSET (1..n)
  BY <1>1, FS_Interval
<1>4. IsFiniteSet(F) /\ Cardinality(F) \in Nat
  BY <1>3, FS_Subset, FS_CardinalityType
<1>5. \A i \in G : i + k - 1 \in F
  BY <1>1, <1>2
<1>6. f \in Injection(G, F)
  BY <1>5, <1>2 DEF Injection, IsInjective
<1>7. IsFiniteSet(G) /\ Cardinality(G) <= Cardinality(F)
  BY <1>4, <1>6, FS_Injection
<1>8. Cardinality(G) \in Nat
  BY <1>7, FS_CardinalityType
<1>9. Failures(evs) = Cardinality(F) /\ Failures(suffix) = Cardinality(G)
  BY DEF Failures
<1>10. Len(suffix) <= n
  BY <1>1, <1>2
<1> HIDE DEF n, suffix, F, G
<1>11. /\ suffix \in Seq(Event)
       /\ Len(suffix) <= n
       /\ Failures(evs) \in Nat /\ Failures(suffix) \in Nat
       /\ Failures(suffix) <= Failures(evs)
  BY <1>2, <1>4, <1>7, <1>8, <1>9, <1>10
<1> QED BY <1>11 DEF n, suffix

(* Pushing a result adds at most one failure, and none if it is a success. *)
LEMMA AppendFailures ==
  ASSUME NEW evs \in Seq(Event), NEW e \in Event
  PROVE  /\ Append(evs, e) \in Seq(Event)
         /\ Len(Append(evs, e)) = Len(evs) + 1
         /\ Append(evs, e)[Len(evs) + 1] = e
         /\ Failures(evs) \in Nat
         /\ Failures(Append(evs, e)) = Failures(evs) + (IF e.success THEN 0 ELSE 1)
<1> DEFINE n == Len(evs)
           new == Append(evs, e)
           F == {i \in 1..n : ~evs[i].success}
           G == {i \in 1..Len(new) : ~new[i].success}
<1>1. /\ n \in Nat /\ new \in Seq(Event) /\ Len(new) = n + 1
      /\ \A i \in 1..n : new[i] = evs[i]
      /\ new[n + 1] = e
  BY AppendProperties
<1>2. IsFiniteSet(F) /\ Cardinality(F) \in Nat
  <2>1. IsFiniteSet(1..n) /\ F \in SUBSET (1..n) BY <1>1, FS_Interval
  <2> QED BY <2>1, FS_Subset, FS_CardinalityType
<1>3. Failures(evs) = Cardinality(F) /\ Failures(new) = Cardinality(G)
  BY DEF Failures
<1>4. Cardinality(G) = Cardinality(F) + (IF e.success THEN 0 ELSE 1)
  <2>1. CASE e.success
    <3>1. G = F BY <1>1, <2>1
    <3> HIDE DEF F, G
    <3> QED BY <1>2, <2>1, <3>1
  <2>2. CASE ~e.success
    <3>1. G = F \cup {n + 1} /\ n + 1 \notin F BY <1>1, <2>2
    <3>2. Cardinality(G) = Cardinality(F) + 1 BY <1>2, <3>1, FS_AddElement
    <3> QED BY <2>2, <3>2
  <2> QED BY <2>1, <2>2
<1> HIDE DEF F, G
<1> QED BY <1>1, <1>2, <1>3, <1>4

(* The queue after recording a result: what it can hold at most. *)
LEMMA PushedBounds ==
  ASSUME TypeOK, NEW t \in Nat, NEW ok \in BOOLEAN
  PROVE  /\ Pushed(t, ok) \in Seq(Event)
         /\ Len(Pushed(t, ok)) <= Len(events) + 1
         /\ Failures(events) \in Nat /\ Failures(Pushed(t, ok)) \in Nat
         /\ Failures(Pushed(t, ok)) <= Failures(events) + (IF ok THEN 0 ELSE 1)
<1> DEFINE e == [at |-> t, success |-> ok]
           new == Append(events, e)
<1>1. events \in Seq(Event) /\ e \in Event /\ t - Window \in Int
  BY ConfigAssumption DEF TypeOK, Event
<1>2. /\ new \in Seq(Event) /\ Len(new) = Len(events) + 1 /\ Len(events) \in Nat
      /\ new[Len(new)] = e
      /\ Failures(events) \in Nat
      /\ Failures(new) = Failures(events) + (IF ok THEN 0 ELSE 1)
  BY <1>1, AppendFailures
<1>3. Len(new) > 0 /\ new[Len(new)].at >= t - Window
  BY <1>2, ConfigAssumption
<1>4. PICK k \in 1..Len(new) : Prune(new, t - Window) = SubSeq(new, k, Len(new))
  BY <1>1, <1>2, <1>3, PruneIsSuffix
<1>5. Pushed(t, ok) = SubSeq(new, k, Len(new))
  BY <1>4 DEF Pushed
<1> QED BY <1>2, <1>5, SuffixFailures

-----------------------------------------------------------------------------

(* The compare_exchange leaves the slot 0 or 1. *)
LEMMA ClaimProbeTypes ==
  ASSUME TypeOK, NEW c \in Caller, ClaimProbe(c)
  PROVE  /\ call' \in [Caller -> CallState]
         /\ probes_in_flight' \in {0, 1}
<1>1. CASE probes_in_flight = 0
  <2>1. probes_in_flight' = 1 /\ Proceed(c, TRUE)
    BY <1>1 DEF ClaimProbe
  <2>2. [stage |-> "running", probe_owner |-> TRUE, success |-> FALSE, at |-> 0] \in CallState
    BY DEF CallState, Stage
  <2> QED BY <2>1, <2>2 DEF Proceed, TypeOK
<1>2. CASE probes_in_flight # 0
  BY <1>2 DEF ClaimProbe, TypeOK
<1> QED BY <1>1, <1>2

(* A call that has returned keeps its result, and its probe until release. *)
LEMMA ReturnedTypes ==
  ASSUME TypeOK, NEW c \in Caller, NEW ok \in BOOLEAN,
         call' = [call EXCEPT ![c].stage = IF call[c].probe_owner THEN "release" ELSE "stamp",
                              ![c].success = ok]
  PROVE  call' \in [Caller -> CallState]
<1>1. call \in [Caller -> CallState] /\ call[c] \in CallState
  BY DEF TypeOK
<1>2. ASSUME NEW r \in CallState, NEW s \in {"release", "stamp"}
      PROVE  [r EXCEPT !.stage = s, !.success = ok] \in CallState
  BY DEF CallState, Stage
<1> DEFINE s == IF call[c].probe_owner THEN "release" ELSE "stamp"
           v == [call[c] EXCEPT !.stage = s, !.success = ok]
<1>3. s \in {"release", "stamp"}
  OBVIOUS
<1>4. call' = [call EXCEPT ![c] = v]
  OBVIOUS
<1> HIDE DEF s
<1>5. v \in CallState
  BY <1>1, <1>2, <1>3
<1> HIDE DEF v
<1> QED BY <1>1, <1>4, <1>5

(* The stamp of a call that has returned is the time. *)
LEMMA StampedTypes ==
  ASSUME TypeOK, NEW c \in Caller,
         call' = [call EXCEPT ![c].stage = "record", ![c].at = now]
  PROVE  call' \in [Caller -> CallState]
<1>1. call \in [Caller -> CallState] /\ call[c] \in CallState /\ now \in Nat
  BY DEF TypeOK
<1>2. ASSUME NEW r \in CallState
      PROVE  [r EXCEPT !.stage = "record", !.at = now] \in CallState
  BY <1>1 DEF CallState, Stage
<1> DEFINE v == [call[c] EXCEPT !.stage = "record", !.at = now]
<1>3. v \in CallState
  BY <1>1, <1>2
<1>4. call' = [call EXCEPT ![c] = v]
  OBVIOUS
<1> HIDE DEF v
<1> QED BY <1>1, <1>3, <1>4

(* Every step keeps the fields of the breaker and the locals of run()       *)
(* within their types.                                                      *)
LEMMA TypeStep == TypeOK /\ [Next]_vars => TypeOK'
<1> SUFFICES ASSUME TypeOK, [Next]_vars PROVE TypeOK'
  OBVIOUS
<1> USE ConfigAssumption DEF TypeOK, BreakerState, CallState, Stage, NotCalling
<1>1. CASE Tick
  BY <1>1 DEF Tick
<1>2. ASSUME NEW c \in Caller, RunClosed(c) PROVE TypeOK'
  BY <1>2 DEF RunClosed, EnterRun, Proceed
<1>3. ASSUME NEW c \in Caller, RunOpenRejected(c) PROVE TypeOK'
  BY <1>3 DEF RunOpenRejected, EnterRun
<1>4. ASSUME NEW c \in Caller, RunOpenElapsed(c) PROVE TypeOK'
  <2>1. call' \in [Caller -> CallState] /\ probes_in_flight' \in {0, 1}
    BY <1>4, ClaimProbeTypes DEF RunOpenElapsed
  <2> QED BY <1>4, <2>1 DEF RunOpenElapsed, EnterRun
<1>5. ASSUME NEW c \in Caller, RunHalfOpen(c) PROVE TypeOK'
  <2>1. call' \in [Caller -> CallState] /\ probes_in_flight' \in {0, 1}
    BY <1>5, ClaimProbeTypes DEF RunHalfOpen
  <2> QED BY <1>5, <2>1 DEF RunHalfOpen, EnterRun
<1>6. ASSUME NEW c \in Caller, CallReturns(c) PROVE TypeOK'
  <2>1. PICK ok \in BOOLEAN :
          call' = [call EXCEPT ![c].stage = IF call[c].probe_owner THEN "release" ELSE "stamp",
                               ![c].success = ok]
    BY <1>6 DEF CallReturns
  <2>2. call' \in [Caller -> CallState]
    BY <2>1, ReturnedTypes
  <2> QED BY <1>6, <2>2 DEF CallReturns
<1>7. ASSUME NEW c \in Caller, ReleaseProbe(c) PROVE TypeOK'
  BY <1>7 DEF ReleaseProbe
<1>8. ASSUME NEW c \in Caller, Stamp(c) PROVE TypeOK'
  <2>1. call' \in [Caller -> CallState]
    BY <1>8, StampedTypes DEF Stamp
  <2> QED BY <1>8, <2>1 DEF Stamp
<1>9. ASSUME NEW c \in Caller, RecordHalfOpen(c) PROVE TypeOK'
  <2>1. call' \in [Caller -> CallState] /\ call[c].at \in Nat
    BY <1>9 DEF RecordHalfOpen, Return
  <2>2. CASE call[c].success
    BY <1>9, <2>1, <2>2 DEF RecordHalfOpen
  <2>3. CASE ~call[c].success
    BY <1>9, <2>1, <2>3 DEF RecordHalfOpen
  <2> QED BY <2>2, <2>3
<1>10. ASSUME NEW c \in Caller, RecordOpen(c) PROVE TypeOK'
  BY <1>10 DEF RecordOpen, Return
<1>11. ASSUME NEW c \in Caller, RecordClosed(c) PROVE TypeOK'
  <2>1. call[c].at \in Nat /\ call[c].success \in BOOLEAN
    OBVIOUS
  <2>2. events' \in Seq(Event)
    BY <1>11, <2>1, PushedBounds DEF RecordClosed
  <2> QED BY <1>11, <2>1, <2>2 DEF RecordClosed, Return
<1>12. ASSUME NEW c \in Caller, Cancel(c) PROVE TypeOK'
  BY <1>12 DEF Cancel, Return
<1>13. CASE UNCHANGED vars
  BY <1>13 DEF vars
<1> QED
  BY <1>1, <1>2, <1>3, <1>4, <1>5, <1>6, <1>7, <1>8, <1>9, <1>10, <1>11, <1>12, <1>13
     DEF Next, Record

(* run() and record() keep their types in every reachable state. *)
THEOREM TypeCorrect == Spec => []TypeOK
<1>1. Init => TypeOK
  <2> SUFFICES ASSUME Init PROVE TypeOK
    OBVIOUS
  <2>1. NotCalling \in CallState
    BY DEF NotCalling, CallState, Stage
  <2>2. call \in [Caller -> CallState]
    BY <2>1 DEF Init
  <2>3. dropped \in BOOLEAN
    BY DEF Init
  <2> QED BY <2>2, <2>3, ConfigAssumption DEF Init, TypeOK, BreakerState
<1>2. TypeOK /\ [Next]_vars => TypeOK'
  BY TypeStep
<1> QED BY <1>1, <1>2, PTL DEF Spec

-----------------------------------------------------------------------------

(* The slot is 1 from a successful compare_exchange to the store(0) of the  *)
(* task that won it, and only that task reaches the store(0).               *)
SlotInv ==
  /\ \A c \in Caller : call[c].stage = "release" => call[c].probe_owner
  /\ \A c \in Caller : HoldsSlot(c) => probes_in_flight = 1
  /\ AtMostOneProbe

(* Winning the compare_exchange makes the winner the only owner of the slot. *)
LEMMA ClaimKeepsSlotInv ==
  ASSUME TypeOK, SlotInv, NEW c \in Caller, call[c].stage = "idle", ClaimProbe(c)
  PROVE  SlotInv'
<1> USE DEF TypeOK, SlotInv, HoldsSlot, AtMostOneProbe
<1>1. CASE probes_in_flight = 0
  BY <1>1 DEF ClaimProbe, Proceed
<1>2. CASE probes_in_flight # 0
  BY <1>2 DEF ClaimProbe
<1> QED BY <1>1, <1>2

(* Every step keeps the correspondence between the slot and its owner. *)
LEMMA SlotStep == TypeOK /\ SlotInv /\ [Next]_vars => SlotInv'
<1> SUFFICES ASSUME TypeOK, SlotInv, [Next]_vars PROVE SlotInv'
  OBVIOUS
<1> USE DEF TypeOK, SlotInv, HoldsSlot, AtMostOneProbe
<1>1. CASE Tick
  BY <1>1 DEF Tick
<1>2. ASSUME NEW c \in Caller, RunClosed(c) PROVE SlotInv'
  BY <1>2 DEF RunClosed, Proceed
<1>3. ASSUME NEW c \in Caller, RunOpenRejected(c) PROVE SlotInv'
  BY <1>3 DEF RunOpenRejected
<1>4. ASSUME NEW c \in Caller, RunOpenElapsed(c) PROVE SlotInv'
  BY <1>4, ClaimKeepsSlotInv DEF RunOpenElapsed, EnterRun
<1>5. ASSUME NEW c \in Caller, RunHalfOpen(c) PROVE SlotInv'
  BY <1>5, ClaimKeepsSlotInv DEF RunHalfOpen, EnterRun
<1>6. ASSUME NEW c \in Caller, CallReturns(c) PROVE SlotInv'
  <2>1. /\ \A d \in Caller : d # c => call'[d] = call[d]
        /\ call'[c].probe_owner = call[c].probe_owner
        /\ call[c].stage = "running"
        /\ call'[c].stage = IF call[c].probe_owner THEN "release" ELSE "stamp"
        /\ probes_in_flight' = probes_in_flight
    BY <1>6 DEF CallReturns, CallState
  <2>2. CASE call[c].probe_owner
    BY <2>1, <2>2
  <2>3. CASE ~call[c].probe_owner
    BY <2>1, <2>3
  <2> QED BY <2>2, <2>3
<1>7. ASSUME NEW c \in Caller, ReleaseProbe(c) PROVE SlotInv'
  <2>1. /\ \A d \in Caller : d # c => call'[d] = call[d]
        /\ call'[c].stage = "stamp"
        /\ HoldsSlot(c)
    BY <1>7 DEF ReleaseProbe, CallState
  <2> QED BY <2>1
<1>8. ASSUME NEW c \in Caller, Stamp(c) PROVE SlotInv'
  BY <1>8 DEF Stamp, CallState
<1>9. ASSUME NEW c \in Caller, Record(c) \/ Cancel(c) PROVE SlotInv'
  <2>1. call' = [call EXCEPT ![c] = NotCalling] /\ probes_in_flight' = probes_in_flight
    BY <1>9 DEF Record, RecordHalfOpen, RecordOpen, RecordClosed, Cancel, Return
  <2> QED BY <2>1 DEF NotCalling
<1>10. CASE UNCHANGED vars
  BY <1>10 DEF vars
<1> QED
  BY <1>1, <1>2, <1>3, <1>4, <1>5, <1>6, <1>7, <1>8, <1>9, <1>10 DEF Next

(* The slot and its owners, from the first state on. *)
LEMMA SlotHolds == Spec => []SlotInv
<1>1. Init => SlotInv
  BY DEF Init, SlotInv, HoldsSlot, AtMostOneProbe, NotCalling
<1>2. TypeOK /\ SlotInv /\ [Next]_vars => SlotInv'
  BY SlotStep
<1> QED BY <1>1, <1>2, TypeCorrect, PTL DEF Spec

(* At most one probe is out at any time, cancellations included: the slot   *)
(* may be lost by a dropped future, never shared.                           *)
THEOREM OneProbe == Spec => []AtMostOneProbe
<1>1. SlotInv => AtMostOneProbe
  BY DEF SlotInv
<1> QED BY <1>1, SlotHolds, PTL

(* Unless a probe was dropped, the slot has an owner, and a half-open       *)
(* breaker has a probe on its way to record().  The second needs the first: the call    *)
(* that turns the breaker half-open and loses the compare_exchange relies   *)
(* on the current owner.                                                    *)
ProbeInv == SlotLostOnlyByDrop /\ HalfOpenHasProbe

(* Claiming the slot, or failing to, leaves a probe on its way. *)
LEMMA ClaimKeepsProbeInv ==
  ASSUME TypeOK, SlotHasOwner, NEW c \in Caller, call[c].stage = "idle", ClaimProbe(c)
  PROVE  /\ SlotHasOwner'
         /\ (\E d \in Caller : InFlight(d) /\ call[d].probe_owner)'
<1> USE DEF TypeOK, SlotHasOwner, HoldsSlot, InFlight
<1>1. CASE probes_in_flight = 0
  BY <1>1 DEF ClaimProbe, Proceed
<1>2. CASE probes_in_flight # 0
  <2>1. probes_in_flight = 1 /\ UNCHANGED <<probes_in_flight, call>>
    BY <1>2 DEF ClaimProbe
  <2> QED BY <2>1
<1> QED BY <1>1, <1>2

(* Every step but dropping a probe keeps a half-open breaker attended, and  *)
(* dropping a call that is not a probe does too.                            *)
LEMMA ProbeStep == TypeOK /\ SlotInv /\ ProbeInv /\ [Next]_vars => ProbeInv'
<1> SUFFICES ASSUME TypeOK, SlotInv, ProbeInv, [Next]_vars, ~dropped' PROVE ProbeInv'
  BY DEF ProbeInv, SlotLostOnlyByDrop, HalfOpenHasProbe
<1> USE DEF TypeOK, ProbeInv, SlotLostOnlyByDrop, SlotHasOwner, HalfOpenHasProbe,
            HoldsSlot, InFlight
<1>0. ~dropped
  BY DEF Next, Tick, RunClosed, RunOpenRejected, RunOpenElapsed, RunHalfOpen, CallReturns,
         ReleaseProbe, Stamp, Record, RecordHalfOpen, RecordOpen, RecordClosed, Cancel, vars
<1>1. CASE Tick
  BY <1>0, <1>1 DEF Tick
<1>2. ASSUME NEW c \in Caller, RunClosed(c) PROVE ProbeInv'
  BY <1>0, <1>2 DEF RunClosed, EnterRun, Proceed
<1>3. ASSUME NEW c \in Caller, RunOpenRejected(c) PROVE ProbeInv'
  BY <1>0, <1>3 DEF RunOpenRejected
<1>4. ASSUME NEW c \in Caller, RunOpenElapsed(c) PROVE ProbeInv'
  BY <1>0, <1>4, ClaimKeepsProbeInv DEF RunOpenElapsed, EnterRun
<1>5. ASSUME NEW c \in Caller, RunHalfOpen(c) PROVE ProbeInv'
  BY <1>0, <1>5, ClaimKeepsProbeInv DEF RunHalfOpen, EnterRun
<1>6. ASSUME NEW c \in Caller, CallReturns(c) PROVE ProbeInv'
  <2>1. /\ \A d \in Caller : d # c => call'[d] = call[d]
        /\ call'[c].probe_owner = call[c].probe_owner
        /\ call'[c].stage = IF call[c].probe_owner THEN "release" ELSE "stamp"
        /\ UNCHANGED <<probes_in_flight, state>>
    BY <1>0, <1>6 DEF CallReturns, CallState
  <2> QED BY <1>0, <2>1
<1>7. ASSUME NEW c \in Caller, ReleaseProbe(c) PROVE ProbeInv'
  <2>1. /\ \A d \in Caller : d # c => call'[d] = call[d]
        /\ call'[c].probe_owner = call[c].probe_owner
        /\ call'[c].stage = "stamp"
        /\ probes_in_flight' = 0 /\ state' = state
    BY <1>0, <1>7 DEF ReleaseProbe, CallState
  <2> QED BY <1>0, <2>1
<1>8. ASSUME NEW c \in Caller, Stamp(c) PROVE ProbeInv'
  <2>1. /\ \A d \in Caller : d # c => call'[d] = call[d]
        /\ call'[c].probe_owner = call[c].probe_owner
        /\ call[c].stage = "stamp" /\ call'[c].stage = "record"
        /\ UNCHANGED <<probes_in_flight, state>>
    BY <1>0, <1>8 DEF Stamp, CallState
  <2> QED BY <1>0, <2>1
<1>9. ASSUME NEW c \in Caller, Record(c) PROVE ProbeInv'
  <2>1. /\ \A d \in Caller : d # c => call'[d] = call[d]
        /\ call[c].stage = "record"
        /\ probes_in_flight' = probes_in_flight
        /\ state' # "HalfOpen"
    BY <1>0, <1>9 DEF Record, RecordHalfOpen, RecordOpen, RecordClosed, Return, BreakerState
  <2> QED BY <1>0, <2>1
<1>10. ASSUME NEW c \in Caller, Cancel(c) PROVE ProbeInv'
  <2>1. /\ \A d \in Caller : d # c => call'[d] = call[d]
        /\ ~call[c].probe_owner
        /\ UNCHANGED <<probes_in_flight, state>>
    BY <1>10 DEF Cancel, Return
  <2> QED BY <1>0, <2>1
<1>11. CASE UNCHANGED vars
  BY <1>0, <1>11 DEF vars
<1> QED
  BY <1>1, <1>2, <1>3, <1>4, <1>5, <1>6, <1>7, <1>8, <1>9, <1>10, <1>11 DEF Next

(* The probe slot is lost only when the future of a probe is dropped. *)
THEOREM SlotSurvives == Spec => []SlotLostOnlyByDrop
<1>1. Init => SlotInv /\ ProbeInv
  BY DEF Init, SlotInv, ProbeInv, SlotLostOnlyByDrop, SlotHasOwner,
         HalfOpenHasProbe, HoldsSlot, AtMostOneProbe, NotCalling
<1>2. TypeOK /\ SlotInv /\ ProbeInv /\ [Next]_vars => SlotInv' /\ ProbeInv'
  BY SlotStep, ProbeStep
<1>3. ProbeInv => SlotLostOnlyByDrop
  BY DEF ProbeInv
<1> QED BY <1>1, <1>2, <1>3, TypeCorrect, PTL DEF Spec

(* Unless the future of a probe was dropped, a half-open breaker has a      *)
(* probe on its way to record(), which will end the episode.                *)
THEOREM HalfOpenIsAttended == Spec => []HalfOpenHasProbe
<1>1. Init => SlotInv /\ ProbeInv
  BY DEF Init, SlotInv, ProbeInv, SlotLostOnlyByDrop, SlotHasOwner,
         HalfOpenHasProbe, HoldsSlot, AtMostOneProbe, NotCalling
<1>2. TypeOK /\ SlotInv /\ ProbeInv /\ [Next]_vars => SlotInv' /\ ProbeInv'
  BY SlotStep, ProbeStep
<1>3. ProbeInv => HalfOpenHasProbe
  BY DEF ProbeInv
<1> QED BY <1>1, <1>2, <1>3, TypeCorrect, PTL DEF Spec

-----------------------------------------------------------------------------

(* What one step may do to an open breaker. *)
OpenStep ==
  state = "Open" =>
    \/ state' = "Open" /\ opened_at' = opened_at
    \/ state' = "HalfOpen" /\ now >= opened_at + OpenDuration

(* An open breaker stays open, with the same opened_at, until               *)
(* open_duration has elapsed, and then can only turn half-open.             *)
THEOREM OpenIsKeptAlways == Spec => OpenIsKept
<1>1. TypeOK /\ [Next]_vars => [OpenStep]_vars
  <2> SUFFICES ASSUME TypeOK, Next, state = "Open"
               PROVE  \/ state' = "Open" /\ opened_at' = opened_at
                      \/ state' = "HalfOpen" /\ now >= opened_at + OpenDuration
    BY DEF OpenStep
  <2>1. ASSUME NEW c \in Caller, RunOpenElapsed(c)
        PROVE  state' = "HalfOpen" /\ now >= opened_at + OpenDuration
    BY <2>1, ConfigAssumption DEF RunOpenElapsed, OpenElapsed, TypeOK
  <2> QED
    BY <2>1 DEF Next, Tick, RunClosed, RunOpenRejected, RunHalfOpen, CallReturns,
       ReleaseProbe, Stamp, Record, RecordHalfOpen, RecordOpen, RecordClosed, Cancel
<1> QED BY <1>1, TypeCorrect, PTL DEF Spec, OpenIsKept, OpenStep

-----------------------------------------------------------------------------

(* While the breaker is closed its queue holds no more results, and no more *)
(* failures, than were recorded since it last closed.                       *)
PeriodInv ==
  state = "Closed" => /\ Len(events) <= period.results
                      /\ Failures(events) <= period.failures

(* What one step may do when it trips the breaker. *)
TripStep ==
  state = "Closed" /\ state' = "Open" =>
    /\ period'.results >= MinVolume
    /\ period'.failures * RatioDen >= RatioNum * MinVolume

(* The arithmetic of a trip. *)
LEMMA RatioBound ==
  ASSUME NEW f \in Nat, NEW l \in Nat, NEW pf \in Nat, f <= pf, MinVolume <= l,
         f * RatioDen >= RatioNum * l
  PROVE  pf * RatioDen >= RatioNum * MinVolume
<1> USE ConfigAssumption
<1>1. pf * RatioDen >= f * RatioDen
  OBVIOUS
<1>2. RatioNum * l >= RatioNum * MinVolume
  OBVIOUS
<1>3. /\ pf * RatioDen \in Nat /\ f * RatioDen \in Nat
      /\ RatioNum * l \in Nat /\ RatioNum * MinVolume \in Nat
  OBVIOUS
<1> QED BY <1>1, <1>2, <1>3

(* Every step keeps the event queue within the closed period, and a trip has  *)
(* the volume and the failures of that period behind it.                      *)
LEMMA PeriodStep ==
  TypeOK /\ PeriodInv /\ [Next]_vars => PeriodInv' /\ [TripStep]_vars
<1> SUFFICES ASSUME TypeOK, PeriodInv, [Next]_vars PROVE PeriodInv' /\ [TripStep]_vars
  OBVIOUS
<1> USE DEF TypeOK
<1>1. ASSUME NEW c \in Caller, RecordClosed(c) PROVE PeriodInv' /\ TripStep
  <2> DEFINE t == call[c].at
             ok == call[c].success
  <2>1. t \in Nat /\ ok \in BOOLEAN
    BY DEF CallState
  <2>2. /\ events' = Pushed(t, ok)
        /\ period'.results = period.results + 1
        /\ period'.failures = period.failures + (IF ok THEN 0 ELSE 1)
        /\ state = "Closed"
        /\ state' = "Open" => TooManyFailures(events')
    BY <1>1 DEF RecordClosed
  <2>3. /\ events' \in Seq(Event) /\ events \in Seq(Event)
        /\ Len(events') <= Len(events) + 1
        /\ Failures(events) \in Nat /\ Failures(events') \in Nat
        /\ Failures(events') <= Failures(events) + (IF ok THEN 0 ELSE 1)
    BY <2>1, <2>2, PushedBounds
  <2>4. Len(events) \in Nat /\ Len(events') \in Nat
    BY <2>3, LenProperties
  <2>5. /\ period.results \in Nat /\ period.failures \in Nat
        /\ Len(events) <= period.results /\ Failures(events) <= period.failures
    BY <2>2 DEF PeriodInv
  <2> HIDE DEF t, ok
  <2>6. (IF ok THEN 0 ELSE 1) \in Nat
    OBVIOUS
  <2>7. /\ Len(events') <= period'.results
        /\ Failures(events') <= period'.failures
        /\ period'.results \in Nat /\ period'.failures \in Nat
    BY <2>2, <2>3, <2>4, <2>5, <2>6
  <2>8. TripStep
    <3> SUFFICES ASSUME state' = "Open"
                 PROVE  /\ period'.results >= MinVolume
                        /\ period'.failures * RatioDen >= RatioNum * MinVolume
      BY DEF TripStep
    <3>1. /\ Len(events') >= MinVolume
          /\ Failures(events') * RatioDen >= RatioNum * Len(events')
      BY <2>2 DEF TooManyFailures
    <3>2. period'.results >= MinVolume
      BY <2>4, <2>7, <3>1, ConfigAssumption
    <3>3. period'.failures * RatioDen >= RatioNum * MinVolume
      BY <2>3, <2>4, <2>7, <3>1, RatioBound
    <3> QED BY <3>2, <3>3
  <2> QED BY <2>7, <2>8 DEF PeriodInv
<1>2. ASSUME NEW c \in Caller, RecordHalfOpen(c) PROVE PeriodInv' /\ TripStep
  <2>1. CASE call[c].success
    <3>1. events' = <<>> /\ period' = [results |-> 0, failures |-> 0] /\ state = "HalfOpen"
      BY <1>2, <2>1 DEF RecordHalfOpen
    <3>2. Len(events') = 0 /\ Failures(events') = 0
      <4>1. {i \in 1..Len(<<>>) : ~(<<>>[i].success)} = {}
        OBVIOUS
      <4> QED BY <3>1, <4>1, FS_EmptySet DEF Failures
    <3> QED BY <3>1, <3>2 DEF PeriodInv, TripStep
  <2>2. CASE ~call[c].success
    BY <1>2, <2>2 DEF RecordHalfOpen, PeriodInv, TripStep
  <2> QED BY <2>1, <2>2
<1>3. ASSUME NEW c \in Caller,
             \/ RunClosed(c) \/ RunOpenRejected(c) \/ RunOpenElapsed(c) \/ RunHalfOpen(c)
             \/ CallReturns(c) \/ ReleaseProbe(c) \/ Stamp(c) \/ RecordOpen(c) \/ Cancel(c)
      PROVE  PeriodInv' /\ TripStep
  <2>1. /\ UNCHANGED <<events, period>>
        /\ state' = state \/ state' = "HalfOpen"
    BY <1>3 DEF RunClosed, RunOpenRejected, RunOpenElapsed, RunHalfOpen, CallReturns,
                ReleaseProbe, Stamp, RecordOpen, Cancel
  <2> QED BY <2>1 DEF PeriodInv, TripStep, Failures
<1>4. CASE Tick
  BY <1>4 DEF Tick, PeriodInv, TripStep, Failures
<1>5. CASE UNCHANGED vars
  BY <1>5 DEF vars, PeriodInv, Failures
<1> QED BY <1>1, <1>2, <1>3, <1>4, <1>5 DEF Next, Record

(* The queue and the closed period, from the first state on. *)
LEMMA PeriodHolds == Spec => [](PeriodInv /\ TypeOK)
<1>1. Init => PeriodInv
  <2>1. {i \in 1..Len(<<>>) : ~(<<>>[i].success)} = {}
    OBVIOUS
  <2> QED BY <2>1, FS_EmptySet DEF Init, PeriodInv, Failures
<1>2. TypeOK /\ PeriodInv /\ [Next]_vars => PeriodInv'
  BY PeriodStep
<1> QED BY <1>1, <1>2, TypeCorrect, PTL DEF Spec

-----------------------------------------------------------------------------

(* No reading of the clock is ahead of it, in a call or in opened_at. *)
StampInv ==
  /\ \A c \in Caller : call[c].at <= now
  /\ state = "Open" => opened_at \in 0..now

(* Every step keeps the readings behind the clock. *)
LEMMA StampStep == TypeOK /\ StampInv /\ [Next]_vars => StampInv'
<1> SUFFICES ASSUME TypeOK, StampInv, [Next]_vars PROVE StampInv'
  OBVIOUS
<1>1. now \in Nat /\ \A c \in Caller : call[c].at \in Nat
  BY DEF TypeOK, CallState
<1>2. CASE Tick
  BY <1>1, <1>2 DEF Tick, StampInv
<1>3. ASSUME NEW c \in Caller, RunClosed(c) \/ RunOpenElapsed(c) \/ RunHalfOpen(c) PROVE StampInv'
  <2>1. /\ \A d \in Caller \ {c} : call'[d] = call[d]
        /\ call'[c] = call[c] \/ call'[c].at = 0
        /\ now' = now /\ state' # "Open"
    BY <1>3 DEF RunClosed, RunOpenElapsed, RunHalfOpen, ClaimProbe, Proceed, TypeOK
  <2> QED BY <1>1, <2>1 DEF StampInv
<1>4. ASSUME NEW c \in Caller, CallReturns(c) \/ ReleaseProbe(c) \/ Stamp(c) PROVE StampInv'
  <2>1. /\ \A d \in Caller \ {c} : call'[d] = call[d]
        /\ call'[c].at \in {call[c].at, now}
        /\ UNCHANGED <<now, state, opened_at>>
    BY <1>4 DEF CallReturns, ReleaseProbe, Stamp, TypeOK, CallState
  <2> QED BY <1>1, <2>1 DEF StampInv
<1>5. ASSUME NEW c \in Caller, Record(c) \/ Cancel(c) PROVE StampInv'
  <2>1. /\ \A d \in Caller \ {c} : call'[d] = call[d]
        /\ call'[c].at = 0 /\ now' = now
    BY <1>5 DEF Record, RecordHalfOpen, RecordOpen, RecordClosed, Cancel, Return, TypeOK, NotCalling
  <2>2. state' = "Open" => opened_at' \in {opened_at, call[c].at} /\ (state = "Open" \/ opened_at' = call[c].at)
    BY <1>5 DEF Record, RecordHalfOpen, RecordOpen, RecordClosed, Cancel, BreakerState, TypeOK
  <2> QED BY <1>1, <2>1, <2>2 DEF StampInv
<1>6. ASSUME NEW c \in Caller, RunOpenRejected(c) PROVE StampInv'
  BY <1>6 DEF RunOpenRejected, StampInv
<1>7. CASE UNCHANGED vars
  BY <1>7 DEF vars, StampInv
<1> QED BY <1>2, <1>3, <1>4, <1>5, <1>6, <1>7 DEF Next

AbstractStep == [Abstract!Next]_(Abstract!vars)

(* A step in which no call is admitted, ends or gives its slot back. *)
LEMMA SameCallers ==
  ASSUME TypeOK, NEW c \in Caller, \A d \in Caller \ {c} : call'[d] = call[d],
         InFlight(c)' <=> InFlight(c), HoldsSlot(c)' <=> HoldsSlot(c)
  PROVE  Out' = Out /\ Probing' = Probing
BY DEF Out, Probing, InFlight, HoldsSlot

(* Winning the slot is being let through; losing it is being refused. *)
LEMMA ClaimIsProbe ==
  ASSUME TypeOK, SlotInv, NEW c \in Caller, call[c].stage = "idle", ClaimProbe(c),
         Abstract!Over, state' = "HalfOpen", UNCHANGED <<now, period>>
  PROVE  AbstractStep
<1>1. c \notin Out /\ c \notin Probing
  BY DEF Out, InFlight, Probing, HoldsSlot
<1>2. Since' = 0
  BY DEF Since
<1>3. CASE probes_in_flight = 0
  <2>1. /\ \A d \in Caller \ {c} : call'[d] = call[d]
        /\ call'[c].stage = "running" /\ call'[c].probe_owner
    BY <1>3 DEF ClaimProbe, Proceed, TypeOK
  <2>2. Probing = {}
    BY <1>3 DEF SlotInv, Probing
  <2>3. Out' = Out \cup {c} /\ Probing' = {c}
    BY <2>1, <2>2 DEF Out, Probing, InFlight, HoldsSlot
  <2> QED BY <1>1, <1>2, <2>2, <2>3 DEF AbstractStep, Abstract!Next, Abstract!Probe
<1>4. CASE probes_in_flight # 0
  <2>1. Out' = Out /\ Probing' = Probing
    BY <1>4 DEF ClaimProbe, Out, Probing, InFlight, HoldsSlot
  <2> QED BY <1>1, <1>2, <2>1 DEF AbstractStep, Abstract!Next, Abstract!Probe
<1> QED BY <1>3, <1>4

(* What record() makes of a result is a report. *)
LEMMA RecordIsReport ==
  ASSUME TypeOK, StampInv, PeriodInv, TripStep, NEW c \in Caller, Record(c)
  PROVE  AbstractStep
<1> DEFINE ok == call[c].success
<1>1. /\ call[c].stage = "record" /\ now' = now /\ ok \in BOOLEAN
      /\ \A d \in Caller \ {c} : call'[d] = call[d]
      /\ call'[c] = NotCalling
  BY DEF Record, RecordHalfOpen, RecordOpen, RecordClosed, Return, TypeOK, CallState
<1>2. c \in Out \ Probing /\ Out' = Out \ {c} /\ Probing' = Probing
  BY <1>1 DEF Out, Probing, InFlight, HoldsSlot, NotCalling
<1>3. call[c].at \in 0..now
  BY DEF StampInv, TypeOK, CallState
<1>4. CASE RecordHalfOpen(c)
  <2>1. /\ state = "HalfOpen"
        /\ IF ok THEN state' = "Closed" /\ period' = Abstract!Blank
                 ELSE state' = "Open" /\ opened_at' = call[c].at /\ period' = period
    BY <1>4 DEF RecordHalfOpen, Abstract!Blank
  <2>2. Abstract!Report(c, ok)
    BY <1>1, <1>2, <1>3, <2>1 DEF Abstract!Report, Abstract!Opens, Since
  <2> QED BY <1>1, <2>2 DEF AbstractStep, Abstract!Next
<1>5. CASE RecordOpen(c)
  <2>1. Abstract!Report(c, ok)
    BY <1>1, <1>2, <1>5 DEF RecordOpen, Abstract!Report, Since
  <2> QED BY <1>1, <2>1 DEF AbstractStep, Abstract!Next
<1>6. CASE RecordClosed(c)
  <2>1. /\ state = "Closed"
        /\ period' = [results  |-> period.results + 1,
                      failures |-> period.failures + (IF ok THEN 0 ELSE 1)]
    BY <1>6 DEF RecordClosed
  <2>2. CASE UNCHANGED <<state, opened_at>>
    <3>1. Abstract!Report(c, ok)
      BY <1>1, <1>2, <2>1, <2>2 DEF Abstract!Report, Since
    <3> QED BY <1>1, <3>1 DEF AbstractStep, Abstract!Next
  <2>3. CASE state' = "Open" /\ opened_at' = call[c].at
    <3>1. Abstract!Earned
      BY <2>1, <2>3 DEF TripStep, Abstract!Earned
    <3>2. Abstract!Opens
      BY <1>3, <2>3 DEF Abstract!Opens, Since
    <3>3. Abstract!Report(c, ok)
      BY <1>1, <1>2, <2>1, <3>1, <3>2 DEF Abstract!Report
    <3> QED BY <1>1, <3>3 DEF AbstractStep, Abstract!Next
  <2> QED BY <1>6, <2>2, <2>3 DEF RecordClosed
<1> QED BY <1>4, <1>5, <1>6 DEF Record

(* The breaker keeps the promise, for any number of callers: the slot is      *)
(* held by the one caller that is let through, whatever the state has become, *)
(* and late results only do to it what a report may.                          *)
THEOREM Implements == Spec => ImplementsBreaker
<1>1. Init => StampInv
  BY DEF Init, StampInv, NotCalling
<1>2. TypeOK /\ StampInv /\ [Next]_vars => StampInv'
  BY StampStep
<1>3. Init => Abstract!Init
  BY DEF Init, Abstract!Init, Abstract!Blank, Since, Out, Probing, InFlight, HoldsSlot, NotCalling
<1>4. TypeOK /\ SlotInv /\ PeriodInv /\ StampInv /\ [Next]_vars => AbstractStep
  <2> SUFFICES ASSUME TypeOK, SlotInv, PeriodInv, StampInv, [Next]_vars
               PROVE  AbstractStep
    OBVIOUS
  <2>1. CASE Tick
    <3>1. now' = now + 1 /\ Since' = Since /\ Out' = Out /\ Probing' = Probing
      BY <2>1 DEF Tick, Since, Out, Probing, InFlight, HoldsSlot
    <3> QED BY <2>1, <3>1 DEF Tick, AbstractStep, Abstract!Next, Abstract!Tick
  <2>2. ASSUME NEW c \in Caller, RunClosed(c) PROVE AbstractStep
    <3>1. /\ state = "Closed" /\ UNCHANGED <<now, state, opened_at, period>>
          /\ call[c].stage = "idle"
          /\ \A d \in Caller \ {c} : call'[d] = call[d]
          /\ call'[c].stage = "running" /\ ~call'[c].probe_owner
      BY <2>2 DEF RunClosed, EnterRun, Proceed, TypeOK
    <3>2. c \notin Out /\ Out' = Out \cup {c} /\ Probing' = Probing /\ Since' = Since
      BY <3>1 DEF Out, Probing, Since, InFlight, HoldsSlot
    <3> QED BY <3>1, <3>2 DEF AbstractStep, Abstract!Next, Abstract!Pass
  <2>3. ASSUME NEW c \in Caller, RunOpenElapsed(c) PROVE AbstractStep
    <3>1. Abstract!Over
      BY <2>3, ConfigAssumption DEF RunOpenElapsed, OpenElapsed, Abstract!Over, Since, TypeOK
    <3> QED BY <2>3, <3>1, ClaimIsProbe DEF RunOpenElapsed, EnterRun
  <2>4. ASSUME NEW c \in Caller, RunHalfOpen(c) PROVE AbstractStep
    BY <2>4, ClaimIsProbe DEF RunHalfOpen, EnterRun, Abstract!Over
  <2>5. ASSUME NEW c \in Caller, CallReturns(c) \/ Stamp(c) PROVE AbstractStep
    <3>1. /\ \A d \in Caller \ {c} : call'[d] = call[d]
          /\ call'[c].probe_owner = call[c].probe_owner
          /\ UNCHANGED <<now, state, opened_at, period>>
          /\ \/ /\ call[c].stage = "running"
                /\ call'[c].stage = IF call[c].probe_owner THEN "release" ELSE "stamp"
             \/ call[c].stage = "stamp" /\ call'[c].stage = "record"
      BY <2>5 DEF CallReturns, Stamp, TypeOK, CallState
    <3>2. Out' = Out /\ Probing' = Probing
      BY <3>1, SameCallers DEF InFlight, HoldsSlot
    <3> QED BY <3>1, <3>2 DEF AbstractStep, Abstract!vars, Since
  <2>6. ASSUME NEW c \in Caller, ReleaseProbe(c) PROVE AbstractStep
    <3>1. /\ \A d \in Caller \ {c} : call'[d] = call[d]
          /\ call[c].stage = "release" /\ call[c].probe_owner /\ call'[c].stage = "stamp"
          /\ UNCHANGED <<now, state, opened_at, period>>
      BY <2>6 DEF ReleaseProbe, TypeOK, CallState, SlotInv
    <3>2. c \in Probing /\ Probing = {c}
      BY <3>1 DEF Probing, HoldsSlot, SlotInv, AtMostOneProbe
    <3>3. Out' = Out /\ Probing' = {} /\ Since' = Since
      BY <3>1, <3>2 DEF Out, Probing, InFlight, HoldsSlot, Since
    <3> QED BY <3>1, <3>2, <3>3 DEF AbstractStep, Abstract!Next, Abstract!Result
  <2>7. ASSUME NEW c \in Caller, Record(c) PROVE AbstractStep
    <3>1. CASE TripStep
      BY <2>7, <3>1, RecordIsReport
    <3>2. CASE UNCHANGED vars
      BY <2>7, <3>2 DEF Record, RecordHalfOpen, RecordOpen, RecordClosed, Return, vars, TypeOK, NotCalling
    <3> QED BY <3>1, <3>2, PeriodStep
  <2>8. ASSUME NEW c \in Caller, Cancel(c) PROVE AbstractStep
    <3>1. /\ \A d \in Caller \ {c} : call'[d] = call[d]
          /\ call[c].stage = "running" /\ call'[c].stage = "idle"
          /\ UNCHANGED <<now, state, opened_at, period>>
      BY <2>8 DEF Cancel, Return, NotCalling, TypeOK
    <3>2. /\ c \in Out /\ Out' = Out \ {c} /\ Probing' = Probing \ {c}
          /\ Since' = Since
      BY <3>1 DEF Out, Probing, InFlight, HoldsSlot, Since
    <3> QED BY <3>1, <3>2 DEF AbstractStep, Abstract!Next, Abstract!Leave
  <2>9. CASE UNCHANGED <<now, state, opened_at, period, call>>
    BY <2>9 DEF AbstractStep, Abstract!vars, Since, Out, Probing, InFlight, HoldsSlot
  <2> QED
    BY <2>1, <2>2, <2>3, <2>4, <2>5, <2>6, <2>7, <2>8, <2>9 DEF Next, RunOpenRejected, vars
<1> QED BY <1>1, <1>2, <1>3, <1>4, SlotHolds, PeriodHolds, PTL
        DEF Spec, ImplementsBreaker, Abstract!Spec, AbstractStep

=============================================================================
