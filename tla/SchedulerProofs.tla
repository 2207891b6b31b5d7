-------------------------- MODULE SchedulerProofs ---------------------------
(***************************************************************************)
(* Proofs about Scheduler, for any number of workers and jobs, any clock   *)
(* skew, any cron expressions and any pattern of failures.                 *)
(***************************************************************************)
EXTENDS Scheduler, WellFoundedInduction, TLAPS

(* A non-empty set of integers that lie above t has a least element. *)
LEMMA LeastAbove ==
  ASSUME NEW t \in Int, NEW T \in SUBSET Int, T # {}, \A x \in T : x > t
  PROVE  \E n \in T : \A m \in T : n <= m
<1> DEFINE D == {x - t : x \in T}
<1>1. D \subseteq Nat /\ D # {}
  <2>1. \A x \in T : x - t \in Nat
    OBVIOUS
  <2>2. PICK x \in T : TRUE
    OBVIOUS
  <2>3. x - t \in D
    BY <2>2
  <2> QED BY <2>1, <2>3
<1>2. PICK d \in D : \A e \in D : ~(<<e, d>> \in OpToRel(<, Nat))
  BY <1>1, NatLessThanWellFounded, WFMin
<1>3. PICK n \in T : d = n - t
  OBVIOUS
<1>4. ASSUME NEW m \in T PROVE n <= m
  <2>1. m - t \in D /\ m - t \in Nat /\ d \in Nat
    BY <1>1
  <2>2. <<m - t, d>> \in Nat \X Nat /\ <<m - t, d>>[1] = m - t /\ <<m - t, d>>[2] = d
    BY <2>1
  <2>3. ~(m - t < d)
    BY <1>2, <2>1, <2>2 DEF OpToRel
  <2> QED BY <1>3, <2>1, <2>3
<1> QED BY <1>4

(* The next firing lies strictly after the instant it is computed from, and *)
(* before the limit.                                                        *)
LEMMA NextCronAfter ==
  ASSUME NEW j \in Cron, NEW t \in Int
  PROVE  \/ NextCron(j, t) = None /\ FiringsAfter(j, t) = {}
         \/ NextCron(j, t) \in Int /\ NextCron(j, t) > t /\ NextCron(j, t) < t + Horizon
<1>1. /\ FiringsAfter(j, t) \in SUBSET Int
      /\ \A f \in FiringsAfter(j, t) : f > t /\ f < t + Horizon
  BY SchedulerAssumption DEF FiringsAfter
<1>2. CASE FiringsAfter(j, t) = {}
  BY <1>2 DEF NextCron
<1>3. CASE FiringsAfter(j, t) # {}
  <2>1. \E f \in FiringsAfter(j, t) : \A g \in FiringsAfter(j, t) : f <= g
    BY <1>1, <1>3, LeastAbove
  <2>2. NextCron(j, t) \in FiringsAfter(j, t)
    BY <1>3, <2>1 DEF NextCron
  <2> QED BY <1>1, <2>2
<1> QED BY <1>2, <1>3

(* A cron job is first run at the soonest firing after some clock reading   *)
(* that is at most SkewMax ahead; a one-shot at any instant.                *)
LEMMA FirstRunsType ==
  ASSUME now \in Nat, NEW j \in Job, NEW next \in FirstRuns(j)
  PROVE  /\ next = None \/ next \in Int
         /\ j \in Cron => \E t \in Int : t <= now + SkewMax /\ next = NextCron(j, t)
<1> USE SchedulerAssumption
<1>1. CASE j \in Once
  BY <1>1 DEF FirstRuns
<1>2. CASE j \notin Once
  <2>1. PICK at \in 0..now, w \in Worker : next = NextCron(j, at + Skew[w])
    BY <1>2 DEF FirstRuns
  <2>2. at + Skew[w] \in Int /\ at + Skew[w] <= now + SkewMax
    BY <2>1
  <2>3. j \in Cron
    BY <1>2 DEF Job
  <2> QED BY <2>1, <2>2, <2>3, NextCronAfter
<1> QED BY <1>1, <1>2

(* What complete() is asked to write. *)
LEMMA NextRunType ==
  ASSUME NEW t, t.job \in Job, t.done \in Int
  PROVE  \/ /\ NextRun(t) = None
            /\ t.job \in Once \/ ~Decodes(t) \/ FiringsAfter(t.job, t.done) = {}
         \/ /\ NextRun(t) \in Int /\ NextRun(t) > t.done
            /\ t.job \in Cron
  BY NextCronAfter DEF NextRun, Job

(* The wall clocks read integers, at most SkewMax ahead of true time. *)
LEMMA UtcNowBound ==
  ASSUME TypeOK, NEW w \in Worker
  PROVE  /\ UtcNow(w) \in Int /\ UtcNow(w) <= now + SkewMax
         /\ Asked(w) \in Int /\ Asked(w) <= now + SkewMax
         /\ now \in Int
<1>1. /\ now \in Nat /\ worker[w].read \in Nat /\ worker[w].read <= now
      /\ Skew[w] \in Int /\ Skew[w] <= SkewMax /\ SkewMax \in Int
  BY SchedulerAssumption DEF TypeOK, WorkerState
<1> QED BY <1>1 DEF UtcNow, Asked

-----------------------------------------------------------------------------

(* A claim keeps the types of the rows and of the tasks. *)
LEMMA ClaimTypes ==
  ASSUME TypeOK, NEW w \in Worker, NEW S \in SUBSET Due(w)
  PROVE  Claimed(w, S) \in [Job -> Row] /\ Spawned(w, S) \in SUBSET Task
<1>1. Asked(w) \in Int /\ Asked(w) + Hold \in Int
  BY UtcNowBound, SchedulerAssumption
<1>2. S \subseteq Job /\ \A j \in Job : row[j] \in Row /\ row[j].attempts \in Nat
  BY DEF Due, TypeOK, Row
<1>3. ASSUME NEW j \in Job
      PROVE  [row[j] EXCEPT !.next_run_at = Asked(w) + Hold, !.claimed_at = Asked(w),
                            !.worker_id = w, !.attempts = row[j].attempts + 1] \in Row
  <2> DEFINE r == row[j]
  <2>1. r \in Row /\ r.attempts + 1 \in Nat /\ Asked(w) \in Instant
        /\ w \in Worker \cup {None}
    BY <1>1, <1>2 DEF Instant
  <2> HIDE DEF r
  <2>2. [r EXCEPT !.next_run_at = Asked(w) + Hold, !.claimed_at = Asked(w),
                  !.worker_id = w, !.attempts = r.attempts + 1] \in Row
    BY <1>1, <2>1 DEF Row
  <2> QED BY <2>2 DEF r
<1>4. Claimed(w, S) \in [Job -> Row]
  BY <1>2, <1>3 DEF Claimed
<1>5. ASSUME NEW j \in S
      PROVE  [job |-> j, attempt |-> row[j].attempts + 1, worker |-> w, at |-> Asked(w),
              stage |-> "running", done |-> 0] \in Task
  BY <1>1, <1>2 DEF Task
<1>6. Spawned(w, S) \in SUBSET Task
  BY <1>5 DEF Spawned
<1> QED BY <1>4, <1>6

(* A sweep keeps the types of the rows. *)
LEMMA RequeueTypes ==
  ASSUME TypeOK, NEW w \in Worker
  PROVE  Requeued(w) \in [Job -> Row]
<1>1. Asked(w) \in Int
  BY UtcNowBound
<1>2. \A j \in Job : row[j] \in Row
  BY DEF TypeOK
<1>3. \A j \in Job : [row[j] EXCEPT !.claimed_at = None, !.worker_id = None,
                                    !.next_run_at = Asked(w)] \in Row
  BY <1>1, <1>2 DEF Row, Instant
<1> QED BY <1>2, <1>3 DEF Requeued

(* What a claim writes in a row. *)
LEMMA ClaimWrites ==
  \A r \in Row : \A x, c, w, a :
    LET s == [r EXCEPT !.next_run_at = x, !.claimed_at = c, !.worker_id = w, !.attempts = a]
    IN  s.claimed_at = c /\ s.attempts = a /\ s.answered = r.answered
BY DEF Row

(* What a sweep writes in a row. *)
LEMMA SweepWrites ==
  \A r \in Row : \A x :
    LET s == [r EXCEPT !.claimed_at = None, !.worker_id = None, !.next_run_at = x]
    IN  /\ s.claimed_at = None /\ s.next_run_at = x
        /\ s.attempts = r.attempts /\ s.answered = r.answered
BY DEF Row

(* What a submission writes in a row. *)
LEMMA ScheduleWrites ==
  ASSUME NEW r \in Row, NEW x
  PROVE  LET s == [r EXCEPT !.next_run_at = x]
         IN  /\ s.next_run_at = x /\ s.claimed_at = r.claimed_at
             /\ s.attempts = r.attempts /\ s.answered = r.answered
             /\ x \in Int => s \in Row
BY DEF Row

(* What a completion writes in a row that it deletes. *)
LEMMA DropWrites ==
  ASSUME NEW r \in Row, NEW d \in Int
  PROVE  LET s == [r EXCEPT !.answered = d]
         IN  /\ s.answered = d /\ s.next_run_at = r.next_run_at
             /\ s.claimed_at = r.claimed_at /\ s.attempts = r.attempts
             /\ s \in Row
BY DEF Row, Instant

(* What a completion writes in a row that stays. *)
Reported(r, d, x) ==
  [r EXCEPT !.answered = d, !.next_run_at = x, !.claimed_at = None, !.worker_id = None]

(* Its fields. *)
LEMMA ReportWrites ==
  ASSUME NEW r \in Row, NEW d, NEW x
  PROVE  /\ Reported(r, d, x).answered = d /\ Reported(r, d, x).next_run_at = x
         /\ Reported(r, d, x).claimed_at = None
         /\ d \in Int /\ x \in Int => Reported(r, d, x) \in Row
<1>1. /\ Reported(r, d, x).answered = d /\ Reported(r, d, x).next_run_at = x
      /\ Reported(r, d, x).claimed_at = None
  BY DEF Reported, Row
<1>2. ASSUME d \in Int, x \in Int PROVE Reported(r, d, x) \in Row
  BY <1>2 DEF Reported, Row, Instant
<1> QED BY <1>1, <1>2

(* A claim stamps and counts the rows it takes, and leaves the others alone. *)
LEMMA ClaimedRows ==
  ASSUME TypeOK, NEW w \in Worker, NEW S \in SUBSET Due(w)
  PROVE  /\ \A j \in S : /\ Claimed(w, S)[j].claimed_at = Asked(w)
                         /\ Claimed(w, S)[j].attempts = row[j].attempts + 1
                         /\ Claimed(w, S)[j].answered = row[j].answered
         /\ \A j \in Job \ S : Claimed(w, S)[j] = row[j]
<1>1. S \subseteq Job
  BY DEF Due, TypeOK
<1>2. ASSUME NEW j \in S
      PROVE  /\ Claimed(w, S)[j].claimed_at = Asked(w)
             /\ Claimed(w, S)[j].attempts = row[j].attempts + 1
             /\ Claimed(w, S)[j].answered = row[j].answered
  <2> DEFINE x == Asked(w) + Hold
             c == Asked(w)
             a == row[j].attempts + 1
             v == [row[j] EXCEPT !.next_run_at = x, !.claimed_at = c, !.worker_id = w,
                                 !.attempts = a]
  <2>1. row[j] \in Row
    BY <1>1 DEF TypeOK
  <2>2. Claimed(w, S)[j] = v
    BY <1>1, Zenon DEF Claimed
  <2> HIDE DEF x, c, a
  <2>3. v.claimed_at = c /\ v.attempts = a /\ v.answered = row[j].answered
    BY <2>1, ClaimWrites
  <2> HIDE DEF v
  <2>4. /\ Claimed(w, S)[j].claimed_at = c /\ Claimed(w, S)[j].attempts = a
        /\ Claimed(w, S)[j].answered = row[j].answered
    BY <2>2, <2>3, Zenon
  <2> QED BY <2>4 DEF c, a
<1>3. \A j \in Job \ S : Claimed(w, S)[j] = row[j]
  BY Zenon DEF Claimed
<1> QED BY <1>2, <1>3, Zenon

(* A sweep takes the stale leases, and leaves the other rows alone. *)
LEMMA RequeuedRows ==
  ASSUME TypeOK, NEW w \in Worker
  PROVE  /\ \A j \in Stale(w) : /\ Requeued(w)[j].claimed_at = None
                                /\ Requeued(w)[j].next_run_at = Asked(w)
                                /\ Requeued(w)[j].answered = row[j].answered
         /\ \A j \in Job \ Stale(w) : Requeued(w)[j] = row[j]
         /\ \A j \in Job : Requeued(w)[j].attempts = row[j].attempts
<1>1. Stale(w) \subseteq Job
  BY DEF Stale, TypeOK
<1>2. ASSUME NEW j \in Stale(w)
      PROVE  /\ Requeued(w)[j].claimed_at = None
             /\ Requeued(w)[j].next_run_at = Asked(w)
             /\ Requeued(w)[j].answered = row[j].answered
             /\ Requeued(w)[j].attempts = row[j].attempts
  <2> DEFINE x == Asked(w)
             v == [row[j] EXCEPT !.claimed_at = None, !.worker_id = None, !.next_run_at = x]
  <2>1. row[j] \in Row
    BY <1>1 DEF TypeOK
  <2>2. Requeued(w)[j] = v
    BY <1>1, Zenon DEF Requeued
  <2> HIDE DEF x
  <2>3. /\ v.claimed_at = None /\ v.next_run_at = x
        /\ v.answered = row[j].answered /\ v.attempts = row[j].attempts
    BY <2>1, SweepWrites
  <2> HIDE DEF v
  <2>4. /\ Requeued(w)[j].claimed_at = None /\ Requeued(w)[j].next_run_at = x
        /\ Requeued(w)[j].answered = row[j].answered
        /\ Requeued(w)[j].attempts = row[j].attempts
    BY <2>2, <2>3, Zenon
  <2> QED BY <2>4 DEF x
<1>3. \A j \in Job \ Stale(w) : Requeued(w)[j] = row[j]
  BY Zenon DEF Requeued
<1> QED BY <1>2, <1>3, Zenon

(* A submission writes the next firing of one row. *)
LEMMA ScheduledRows ==
  ASSUME TypeOK, NEW j \in Job, NEW next, row' = [row EXCEPT ![j].next_run_at = next]
  PROVE  /\ row'[j].next_run_at = next
         /\ \A k \in Job : /\ row'[k].claimed_at = row[k].claimed_at
                           /\ row'[k].attempts = row[k].attempts
                           /\ row'[k].answered = row[k].answered
         /\ \A k \in Job \ {j} : row'[k] = row[k]
         /\ next \in Int => row' \in [Job -> Row]
<1>1. row \in [Job -> Row] /\ row[j] \in Row
  BY DEF TypeOK
<1> DEFINE v == [row[j] EXCEPT !.next_run_at = next]
<1>2. /\ v.next_run_at = next /\ v.claimed_at = row[j].claimed_at
      /\ v.attempts = row[j].attempts /\ v.answered = row[j].answered
      /\ next \in Int => v \in Row
  BY <1>1, ScheduleWrites, Zenon
<1>3. row' = [row EXCEPT ![j] = v]
  OBVIOUS
<1> HIDE DEF v
<1>4. row'[j] = v /\ \A k \in Job \ {j} : row'[k] = row[k]
  BY <1>1, <1>3
<1>5. v \in Row => [row EXCEPT ![j] = v] \in [Job -> Row]
  BY <1>1
<1>6. v \in Row => row' \in [Job -> Row]
  BY <1>3, <1>5, Zenon
<1>7. ASSUME NEW k \in Job
      PROVE  /\ row'[k].claimed_at = row[k].claimed_at
             /\ row'[k].attempts = row[k].attempts
             /\ row'[k].answered = row[k].answered
  BY <1>2, <1>4, Zenon
<1> QED BY <1>2, <1>4, <1>6, <1>7, Zenon

(* A completion that finds its row writes the next firing and frees it. *)
LEMMA CompletedRow ==
  ASSUME TypeOK, NEW t \in tasks, Complete(t), row' # row, NextRun(t) # None
  PROVE  /\ row'[t.job].claimed_at = None /\ row'[t.job].answered = t.done
         /\ row'[t.job].next_run_at = NextRun(t)
         /\ \A k \in Job \ {t.job} : row'[k] = row[k]
         /\ NextRun(t) \in Int => row' \in [Job -> Row]
<1> DEFINE j == t.job
           done == t.done
           next == NextRun(t)
           v == Reported(row[j], done, next)
<1>1. row \in [Job -> Row] /\ j \in Job /\ done \in Int
  BY DEF TypeOK, Task
<1>2. row' = [row EXCEPT ![j].answered = done, ![j].next_run_at = next,
                         ![j].claimed_at = None, ![j].worker_id = None]
  BY DEF Complete
<1> HIDE DEF j, done, next
<1>3. row' = [row EXCEPT ![j] = v]
  BY <1>1, <1>2 DEF Reported
<1>4. /\ v.answered = done /\ v.next_run_at = next /\ v.claimed_at = None
      /\ done \in Int /\ next \in Int => v \in Row
  <2>1. row[j] \in Row
    BY <1>1
  <2> QED BY <2>1, ReportWrites
<1> HIDE DEF v
<1>5. row'[j] = v /\ \A k \in Job \ {j} : row'[k] = row[k]
  BY <1>1, <1>3
<1>6. v \in Row => [row EXCEPT ![j] = v] \in [Job -> Row]
  BY <1>1
<1>7. /\ row'[j].claimed_at = None /\ row'[j].answered = done
      /\ row'[j].next_run_at = next
      /\ \A k \in Job \ {j} : row'[k] = row[k]
      /\ next \in Int => row' \in [Job -> Row]
  BY <1>1, <1>3, <1>4, <1>5, <1>6, Zenon
<1> QED BY <1>7 DEF j, done, next

(* A completion that passes no firing deletes the row, and the history      *)
(* keeps when.                                                              *)
LEMMA DroppedRow ==
  ASSUME TypeOK, NEW t \in tasks, Complete(t), NextRun(t) = None
  PROVE  /\ stored' = stored \ {t.job}
         /\ t.job \in stored => row'[t.job].answered = t.done
         /\ t.job \notin stored => row' = row
         /\ \A k \in Job : /\ row'[k].claimed_at = row[k].claimed_at
                           /\ row'[k].next_run_at = row[k].next_run_at
                           /\ row'[k].attempts = row[k].attempts
         /\ \A k \in Job \ {t.job} : row'[k] = row[k]
         /\ row' \in [Job -> Row]
<1> DEFINE j == t.job
           done == t.done
           v == [row[j] EXCEPT !.answered = done]
<1>1. row \in [Job -> Row] /\ j \in Job /\ done \in Int /\ row[j] \in Row
  BY DEF TypeOK, Task
<1>2. /\ stored' = stored \ {j}
      /\ row' = IF j \in stored THEN [row EXCEPT ![j].answered = done] ELSE row
  BY DEF Complete
<1> HIDE DEF j, done
<1>3. j \in stored => row' = [row EXCEPT ![j] = v]
  BY <1>1, <1>2
<1>4. /\ v.answered = done /\ v.next_run_at = row[j].next_run_at
      /\ v.claimed_at = row[j].claimed_at /\ v.attempts = row[j].attempts
      /\ v \in Row
  BY <1>1, DropWrites, Zenon
<1> HIDE DEF v
<1>5. CASE j \in stored
  <2>1. row'[j] = v /\ \A k \in Job \ {j} : row'[k] = row[k]
    BY <1>1, <1>3, <1>5
  <2>2. row' \in [Job -> Row]
    BY <1>1, <1>3, <1>4, <1>5
  <2>3. ASSUME NEW k \in Job
        PROVE  /\ row'[k].claimed_at = row[k].claimed_at
               /\ row'[k].next_run_at = row[k].next_run_at
               /\ row'[k].attempts = row[k].attempts
    BY <1>4, <2>1, Zenon
  <2> QED BY <1>2, <1>4, <1>5, <2>1, <2>2, <2>3, Zenon DEF j, done
<1>6. CASE j \notin stored
  <2>1. row' = row
    BY <1>2, <1>6
  <2> QED BY <1>1, <1>2, <1>6, <2>1, Zenon DEF j, done
<1> QED BY <1>5, <1>6

(* Every worker is at some step of its loop, with a clock reading from the past. *)
WorkersOK ==
  worker \in [Worker -> WorkerState] /\ \A w \in Worker : worker[w].read <= now

(* Every step of a worker leaves it at a step of its loop. *)
LEMMA WorkersStep ==
  ASSUME TypeOK, [Next]_vars
  PROVE  WorkersOK'
<1> USE SchedulerAssumption
<1>1. /\ worker \in [Worker -> WorkerState] /\ now \in Nat
      /\ \A w \in Worker : worker[w] \in WorkerState /\ worker[w].read <= now
  BY DEF TypeOK
<1>2. ASSUME UNCHANGED worker, now' = now \/ now' = now + 1
      PROVE  WorkersOK'
  BY <1>1, <1>2 DEF WorkersOK, WorkerState
<1>3. ASSUME NEW w \in Worker, NEW v \in WorkerState, v.read <= now,
             worker' = [worker EXCEPT ![w] = v], now' = now
      PROVE  WorkersOK'
  BY <1>1, <1>3 DEF WorkersOK
<1> DEFINE Looked == {r \in WorkerState : r.read <= now}
<1>4. ASSUME NEW r \in WorkerState, r.read <= now
      PROVE  /\ [r EXCEPT !.step = "reap", !.read = now, !.last_reap = now] \in Looked
             /\ [r EXCEPT !.step = "claim", !.read = now] \in Looked
             /\ [r EXCEPT !.step = "sleep", !.read = 0] \in Looked
             /\ \A m \in {"stopped", "down"} : [r EXCEPT !.mode = m] \in Looked
  <2>1. now \in Nat
    BY <1>1
  <2> HIDE DEF Looked
  <2>2. /\ [r EXCEPT !.step = "reap", !.read = now, !.last_reap = now] \in WorkerState
        /\ [r EXCEPT !.step = "claim", !.read = now] \in WorkerState
        /\ [r EXCEPT !.step = "sleep", !.read = 0] \in WorkerState
        /\ \A m \in {"stopped", "down"} : [r EXCEPT !.mode = m] \in WorkerState
    BY <2>1 DEF WorkerState
  <2>3. /\ [r EXCEPT !.step = "reap", !.read = now, !.last_reap = now].read <= now
        /\ [r EXCEPT !.step = "claim", !.read = now].read <= now
        /\ [r EXCEPT !.step = "sleep", !.read = 0].read <= now
        /\ \A m \in {"stopped", "down"} : [r EXCEPT !.mode = m].read <= now
    BY <1>4, <2>1 DEF WorkerState
  <2> QED BY <2>2, <2>3 DEF Looked
<1>5. ASSUME NEW w \in Worker, Wake(w) PROVE WorkersOK'
  <2>1. CASE now - worker[w].last_reap >= ReapInterval
    <3> DEFINE v == [worker[w] EXCEPT !.step = "reap", !.read = now, !.last_reap = now]
    <3>1. v \in Looked
      BY <1>1, <1>4
    <3>2. worker' = [worker EXCEPT ![w] = v] /\ now' = now
      BY <1>1, <1>5, <2>1 DEF Wake
    <3> QED BY <1>3, <3>1, <3>2
  <2>2. CASE ~(now - worker[w].last_reap >= ReapInterval)
    <3> DEFINE v == [worker[w] EXCEPT !.step = "claim", !.read = now]
    <3>1. v \in Looked
      BY <1>1, <1>4
    <3>2. worker' = [worker EXCEPT ![w] = v] /\ now' = now
      BY <1>1, <1>5, <2>2 DEF Wake
    <3> QED BY <1>3, <3>1, <3>2
  <2> QED BY <2>1, <2>2
<1>6. ASSUME NEW w \in Worker, Reap(w) \/ ReapFails(w) PROVE WorkersOK'
  <2> DEFINE v == [worker[w] EXCEPT !.step = "claim", !.read = now]
  <2>1. v \in Looked
    BY <1>1, <1>4
  <2>2. worker' = [worker EXCEPT ![w] = v] /\ now' = now
    BY <1>1, <1>6 DEF Reap, ReapFails, ToClaim
  <2> QED BY <1>3, <2>1, <2>2
<1>7. ASSUME NEW w \in Worker, Claim(w) \/ ClaimFails(w) PROVE WorkersOK'
  <2> DEFINE v == [worker[w] EXCEPT !.step = "sleep", !.read = 0]
  <2>1. v \in Looked
    BY <1>1, <1>4
  <2>2. worker' = [worker EXCEPT ![w] = v] /\ now' = now
    BY <1>1, <1>7 DEF Claim, ClaimFails
  <2> QED BY <1>3, <2>1, <2>2
<1>8. ASSUME NEW w \in Worker, Stop(w) \/ Exit(w) \/ Crash(w) PROVE WorkersOK'
  <2>1. PICK m \in {"stopped", "down"} : worker' = [worker EXCEPT ![w].mode = m]
    BY <1>8 DEF Stop, Exit, Crash, ProcessGone
  <2> DEFINE v == [worker[w] EXCEPT !.mode = m]
  <2>2. v \in Looked
    BY <1>1, <1>4
  <2>3. worker' = [worker EXCEPT ![w] = v] /\ now' = now
    BY <1>1, <1>8, <2>1 DEF Stop, Exit, Crash, ProcessGone
  <2> QED BY <1>3, <2>2, <2>3
<1>9. ASSUME NEW w \in Worker, Restart(w) PROVE WorkersOK'
  <2> DEFINE v == [mode |-> "up", step |-> "sleep", read |-> 0, last_reap |-> now]
  <2>1. v \in Looked
    BY <1>1 DEF WorkerState
  <2>2. worker' = [worker EXCEPT ![w] = v] /\ now' = now
    BY <1>1, <1>9 DEF Restart
  <2> QED BY <1>3, <2>1, <2>2
<1> QED
  BY <1>2, <1>5, <1>6, <1>7, <1>8, <1>9
  DEF Next, WorkerStep, TaskStep, Tick, Schedule, RunnerReturns, KindRejected,
      RunnerPanics, Complete, CompleteFails, vars

(* Every step keeps the job table, the workers and the tasks well typed. *)
LEMMA TypeStep == TypeOK /\ [Next]_vars => TypeOK'
<1> SUFFICES ASSUME TypeOK, [Next]_vars PROVE TypeOK'
  OBVIOUS
<1>0. WorkersOK'
  BY WorkersStep
<1> USE SchedulerAssumption, <1>0 DEF WorkersOK
<1>1. CASE Tick
  BY <1>1 DEF Tick, TypeOK
<1>2. ASSUME NEW j \in Job, Schedule(j) PROVE TypeOK'
  <2>1. PICK next : next \in Int /\ row' = [row EXCEPT ![j].next_run_at = next]
    <3>1. \A next \in FirstRuns(j) : next = None \/ next \in Int
      BY FirstRunsType DEF TypeOK
    <3> QED BY <1>2, <3>1 DEF Schedule
  <2>2. row' \in [Job -> Row]
    BY <2>1, ScheduledRows
  <2> QED BY <1>2, <2>2 DEF Schedule, TypeOK
<1>3. ASSUME NEW w \in Worker, Wake(w) PROVE TypeOK'
  BY <1>3 DEF Wake, TypeOK
<1>4. ASSUME NEW w \in Worker, Reap(w) PROVE TypeOK'
  BY <1>4, RequeueTypes DEF Reap, TypeOK
<1>5. ASSUME NEW w \in Worker, ReapFails(w) PROVE TypeOK'
  BY <1>5 DEF ReapFails, Fault, TypeOK
<1>6. ASSUME NEW w \in Worker, Claim(w) PROVE TypeOK'
  <2>1. PICK S \in SUBSET Due(w) :
          /\ row' = Claimed(w, S)
          /\ tasks' = IF S \cap BadSchedule = {} THEN tasks \cup Spawned(w, S) ELSE tasks
    BY <1>6 DEF Claim
  <2>2. row' \in [Job -> Row] /\ tasks' \in SUBSET Task
    BY <2>1, ClaimTypes DEF TypeOK
  <2> QED BY <1>6, <2>2 DEF Claim, TypeOK
<1>7. ASSUME NEW w \in Worker, ClaimFails(w) PROVE TypeOK'
  <2>1. row' \in [Job -> Row]
    BY <1>7, ClaimTypes DEF ClaimFails, TypeOK
  <2> QED BY <1>7, <2>1 DEF ClaimFails, Fault, TypeOK
<1>8. ASSUME NEW t \in tasks, RunnerReturns(t) \/ KindRejected(t) PROVE TypeOK'
  <2>1. t \in Task /\ UtcNow(t.worker) \in Int
    BY UtcNowBound DEF TypeOK, Task
  <2>2. [t EXCEPT !.stage = "completing", !.done = UtcNow(t.worker)] \in Task
    BY <2>1 DEF Task
  <2> QED BY <1>8, <2>1, <2>2 DEF RunnerReturns, KindRejected, TypeOK, Task
<1>9. ASSUME NEW t \in tasks, RunnerPanics(t) \/ CompleteFails(t) PROVE TypeOK'
  BY <1>9 DEF RunnerPanics, CompleteFails, Fault, TypeOK
<1>10. ASSUME NEW t \in tasks, Complete(t) PROVE TypeOK'
  <2>1. t.job \in Job /\ t.done \in Int
    BY DEF TypeOK, Task
  <2>2. row' \in [Job -> Row] /\ stored' \in SUBSET Job
    <3>1. CASE NextRun(t) = None
      BY <1>10, <3>1, DroppedRow DEF TypeOK
    <3>2. CASE NextRun(t) # None
      <4>1. NextRun(t) \in Int
        BY <2>1, <3>2, NextRunType
      <4>2. row' # row => row' \in [Job -> Row]
        BY <1>10, <3>2, <4>1, CompletedRow, Zenon
      <4>3. stored' = stored
        BY <1>10, <3>2 DEF Complete
      <4> QED BY <4>2, <4>3 DEF TypeOK
    <3> QED BY <3>1, <3>2
  <2> QED BY <1>10, <2>2 DEF Complete, TypeOK
<1>11. ASSUME NEW w \in Worker, Stop(w) \/ Exit(w) \/ Crash(w) PROVE TypeOK'
  BY <1>11 DEF Stop, Exit, Crash, ProcessGone, Fault, TypeOK
<1>12. ASSUME NEW w \in Worker, Restart(w) PROVE TypeOK'
  BY <1>12 DEF Restart, TypeOK
<1>13. CASE UNCHANGED vars
  BY <1>13 DEF vars, TypeOK
<1> QED
  BY <1>1, <1>2, <1>3, <1>4, <1>5, <1>6, <1>7, <1>8, <1>9, <1>10, <1>11, <1>12, <1>13
     DEF Next, WorkerStep, TaskStep

(* The job table, the workers and the tasks are well typed in every         *)
(* reachable state; in particular no row is left without a next_run_at.     *)
THEOREM TypeCorrect == Spec => []TypeOK
<1>1. Init => TypeOK
  BY SchedulerAssumption DEF Init, TypeOK, Row, Instant, WorkerState
<1>2. TypeOK /\ [Next]_vars => TypeOK'
  BY TypeStep
<1> QED BY <1>1, <1>2, PTL DEF Spec

-----------------------------------------------------------------------------

(* Only submitted jobs are stored or worked on.  A task that is about to    *)
(* call complete() ran its job, or could not decode it, and read its clock  *)
(* in the past.                                                             *)
HistoryInv ==
  /\ stored \subseteq submitted
  /\ \A t \in tasks :
       t.stage = "completing" =>
         /\ IF Decodes(t) THEN t.job \in finished ELSE t.job \in rejected
         /\ t.done <= now + SkewMax
  /\ NoJobLost

(* What NoJobLost says of one job that is gone. *)
Gone(j) ==
  \/ j \in rejected
  \/ /\ j \in finished
     /\ j \in Cron => /\ row[j].answered # None /\ row[j].answered <= now + SkewMax
                      /\ FiringsAfter(j, row[j].answered) = {}

(* A job that was gone stays so while its answer is kept. *)
LEMMA GoneStays ==
  ASSUME TypeOK, NoJobLost, now' = now \/ now' = now + 1,
         finished \subseteq finished', rejected \subseteq rejected',
         NEW j \in submitted \ stored, row'[j].answered = row[j].answered
  PROVE  Gone(j)'
<1>1. Gone(j)
  BY DEF NoJobLost, Gone
<1>2. now \in Nat /\ SkewMax \in Int /\ j \in Job /\ row[j].answered \in Instant
  BY SchedulerAssumption DEF TypeOK, Row
<1>3. row[j].answered # None /\ row[j].answered <= now + SkewMax => row[j].answered <= now' + SkewMax'
  BY <1>2 DEF Instant
<1>4. FiringsAfter(j, row[j].answered)' = FiringsAfter(j, row[j].answered)
  BY DEF FiringsAfter
<1> QED BY <1>1, <1>3, <1>4, Zenon DEF Gone

(* Every step keeps the history behind NoJobLost. *)
LEMMA HistoryStep == TypeOK /\ HistoryInv /\ [Next]_vars => HistoryInv'
<1> SUFFICES ASSUME TypeOK, HistoryInv, [Next]_vars PROVE HistoryInv'
  OBVIOUS
<1> USE SchedulerAssumption
<1> DEFINE TaskOK(t) == t.stage = "completing" =>
                          /\ IF Decodes(t) THEN t.job \in finished ELSE t.job \in rejected
                          /\ t.done <= now + SkewMax
<1>0. stored \subseteq submitted /\ (\A t \in tasks : TaskOK(t)) /\ NoJobLost
  BY DEF HistoryInv
<1>a. ASSUME stored' \subseteq submitted', \A t \in tasks' : TaskOK(t)',
             \A j \in submitted' \ stored' : Gone(j)'
      PROVE  HistoryInv'
  BY <1>a DEF HistoryInv, NoJobLost, Gone
<1>b. ASSUME now' = now \/ now' = now + 1, finished \subseteq finished', rejected \subseteq rejected',
             NEW t \in tasks
      PROVE  TaskOK(t)'
  <2>1. now \in Nat /\ t.done \in Int
    BY DEF TypeOK, Task
  <2> QED BY <1>0, <1>b, <2>1 DEF Decodes
<1> HIDE DEF TaskOK
<1>1. ASSUME UNCHANGED <<stored, submitted>>, now' = now \/ now' = now + 1, tasks' \subseteq tasks,
             finished \subseteq finished', rejected \subseteq rejected',
             \A j \in Job : row'[j].answered = row[j].answered
      PROVE  HistoryInv'
  <2>1. \A j \in submitted \ stored : Gone(j)'
    BY <1>0, <1>1, GoneStays DEF TypeOK
  <2> QED BY <1>0, <1>1, <1>a, <1>b, <2>1
<1>2. ASSUME NEW j \in Job, Schedule(j) PROVE HistoryInv'
  <2>1. PICK next : row' = [row EXCEPT ![j].next_run_at = next]
    BY <1>2 DEF Schedule
  <2>2. \A k \in Job : row'[k].answered = row[k].answered
    BY <2>1, ScheduledRows
  <2>3. /\ stored' = stored \cup {j} /\ submitted' = submitted \cup {j}
        /\ UNCHANGED <<now, tasks, finished, rejected>>
    BY <1>2 DEF Schedule
  <2>4. \A k \in submitted' \ stored' : k \in submitted \ stored
    BY <2>3
  <2>5. \A k \in submitted \ stored : Gone(k)'
    BY <1>0, <2>2, <2>3, GoneStays DEF TypeOK
  <2> QED BY <1>0, <1>a, <1>b, <2>3, <2>4, <2>5
<1>3. ASSUME NEW w \in Worker, Claim(w) PROVE HistoryInv'
  <2>1. PICK S \in SUBSET Due(w) :
          /\ row' = Claimed(w, S)
          /\ tasks' = IF S \cap BadSchedule = {} THEN tasks \cup Spawned(w, S) ELSE tasks
    BY <1>3 DEF Claim
  <2>2. \A j \in Job : row'[j].answered = row[j].answered
    BY <2>1, ClaimedRows
  <2>3. \A t \in tasks' : t \in tasks \/ t.stage = "running"
    BY <2>1 DEF Spawned
  <2>4. UNCHANGED <<now, stored, submitted, finished, rejected>>
    BY <1>3 DEF Claim
  <2>5. \A t \in tasks' : TaskOK(t)'
    BY <1>b, <2>3, <2>4 DEF TaskOK
  <2>6. \A j \in submitted \ stored : Gone(j)'
    BY <1>0, <2>2, <2>4, GoneStays DEF TypeOK
  <2> QED BY <1>0, <1>a, <2>4, <2>5, <2>6
<1>4. ASSUME NEW w \in Worker, ClaimFails(w) PROVE HistoryInv'
  <2>1. \A j \in Job : row'[j].answered = row[j].answered
    <3>1. CASE row' = row
      BY <3>1
    <3>2. CASE \E S \in SUBSET Due(w) : row' = Claimed(w, S)
      BY <3>2, ClaimedRows
    <3> QED BY <1>4, <3>1, <3>2 DEF ClaimFails
  <2> QED BY <1>1, <1>4, <2>1 DEF ClaimFails
<1>5. ASSUME NEW w \in Worker, Reap(w) PROVE HistoryInv'
  <2>1. \A j \in Job : row'[j].answered = row[j].answered
    BY <1>5, RequeuedRows DEF Reap
  <2> QED BY <1>1, <1>5, <2>1 DEF Reap
<1>6. ASSUME NEW t \in tasks, RunnerReturns(t) \/ KindRejected(t) PROVE HistoryInv'
  <2>1. t \in Task /\ UtcNow(t.worker) <= now + SkewMax
    BY UtcNowBound DEF TypeOK, Task
  <2>2. PICK u : /\ u = [t EXCEPT !.stage = "completing", !.done = UtcNow(t.worker)]
                 /\ u.job = t.job /\ u.done = UtcNow(t.worker) /\ u.worker = t.worker
    <3> DEFINE v == [t EXCEPT !.stage = "completing", !.done = UtcNow(t.worker)]
    <3>1. v.job = t.job /\ v.done = UtcNow(t.worker) /\ v.worker = t.worker
      BY <2>1 DEF Task
    <3> QED BY <3>1, Zenon
  <2>3. /\ tasks' = (tasks \ {t}) \cup {u}
        /\ UNCHANGED <<now, stored, row, submitted>>
        /\ finished \subseteq finished' /\ rejected \subseteq rejected'
        /\ IF Decodes(t) THEN t.job \in finished' ELSE t.job \in rejected'
    BY <1>6, <2>2 DEF RunnerReturns, KindRejected
  <2>4. TaskOK(u)'
    <3>1. Decodes(u)' <=> Decodes(t)
      BY <2>2 DEF Decodes
    <3>2. u.done <= (now + SkewMax)'
      BY <2>1, <2>2, <2>3
    <3> QED BY <2>2, <2>3, <3>1, <3>2 DEF TaskOK
  <2>5. ASSUME NEW x \in tasks' PROVE TaskOK(x)'
    <3>1. CASE x = u
      BY <2>4, <3>1
    <3>2. CASE x # u
      BY <1>b, <2>3, <3>2
    <3> QED BY <3>1, <3>2
  <2>6. \A j \in submitted \ stored : Gone(j)'
    BY <1>0, <2>3, GoneStays DEF TypeOK
  <2> QED BY <1>0, <1>a, <2>3, <2>5, <2>6
<1>7. ASSUME NEW t \in tasks, Complete(t) PROVE HistoryInv'
  <2>1. /\ t.stage = "completing" /\ t.job \in Job /\ t.done \in Int /\ now \in Nat
        /\ tasks' = tasks \ {t} /\ UNCHANGED <<now, submitted, finished, rejected>>
    BY <1>7 DEF Complete, TypeOK, Task
  <2>2. CASE NextRun(t) = None
    <3>1. /\ stored' = stored \ {t.job}
          /\ t.job \in stored => row'[t.job].answered = t.done
          /\ t.job \notin stored => row' = row
          /\ \A k \in Job \ {t.job} : row'[k] = row[k]
      BY <1>7, <2>2, DroppedRow
    <3>2. t.job \in Once \/ ~Decodes(t) \/ FiringsAfter(t.job, t.done) = {}
      BY <2>1, <2>2, NextRunType
    <3>3. TaskOK(t)
      BY <1>0
    <3>4. ASSUME t.job \in stored PROVE Gone(t.job)'
      <4>1. row'[t.job].answered = t.done /\ t.done # None /\ t.done <= now' + SkewMax'
        BY <2>1, <3>1, <3>3, <3>4 DEF TaskOK
      <4>2. FiringsAfter(t.job, t.done)' = FiringsAfter(t.job, t.done)
        BY DEF FiringsAfter
      <4>3. t.job \in Cron => t.job \notin Once
        OBVIOUS
      <4>4. IF Decodes(t) THEN t.job \in finished' ELSE t.job \in rejected'
        BY <2>1, <3>3 DEF TaskOK
      <4> QED BY <3>2, <4>1, <4>2, <4>3, <4>4, Zenon DEF Gone
    <3>5. ASSUME NEW k \in submitted \ stored PROVE Gone(k)'
      <4>1. row'[k].answered = row[k].answered
        BY <3>1, <3>5 DEF TypeOK
      <4> QED BY <1>0, <2>1, <4>1, GoneStays
    <3> QED BY <1>0, <1>a, <1>b, <2>1, <3>1, <3>4, <3>5
  <2>3. CASE NextRun(t) # None
    <3>1. stored' = stored
      BY <1>7, <2>3 DEF Complete
    <3>2. ASSUME NEW k \in submitted \ stored PROVE row'[k].answered = row[k].answered
      <4>1. CASE row' = row
        BY <4>1
      <4>2. CASE row' # row
        <5>1. t.job \in stored
          BY <1>7, <2>3, <4>2 DEF Complete
        <5>2. \A m \in Job \ {t.job} : row'[m] = row[m]
          BY <1>7, <2>3, <4>2, CompletedRow, Zenon
        <5> QED BY <3>2, <5>1, <5>2 DEF TypeOK
      <4> QED BY <4>1, <4>2
    <3>3. \A k \in submitted \ stored : Gone(k)'
      BY <1>0, <2>1, <3>2, GoneStays
    <3> QED BY <1>0, <1>a, <1>b, <2>1, <3>1, <3>3
  <2> QED BY <2>2, <2>3
<1>8. CASE /\ UNCHANGED <<stored, submitted, row, finished, rejected>>
           /\ now' = now \/ now' = now + 1
           /\ tasks' \subseteq tasks
  BY <1>1, <1>8
<1> QED
  BY <1>2, <1>3, <1>4, <1>5, <1>6, <1>7, <1>8
  DEF Next, WorkerStep, TaskStep, Tick, Wake, ReapFails, Stop, Exit, Crash, Restart,
      ProcessGone, RunnerPanics, CompleteFails, vars

(* The history of submitted and finished jobs, in every reachable state. *)
LEMMA HistoryHolds == Spec => []HistoryInv
<1>1. Init => HistoryInv
  BY DEF Init, HistoryInv, NoJobLost
<1>2. TypeOK /\ HistoryInv /\ [Next]_vars => HistoryInv'
  BY HistoryStep
<1> QED BY <1>1, <1>2, TypeCorrect, PTL DEF Spec

(* No job is lost: whatever crashes, panics or fails, a job leaves the      *)
(* table only once its runner returned, or a worker could not decode it, and *)
(* a cron job only when no firing lies between the clock reading of the run  *)
(* that was reported and the limit of the search.                           *)
THEOREM JobsAreNotLost == Spec => []NoJobLost
<1>1. HistoryInv => NoJobLost
  BY DEF HistoryInv
<1> QED BY <1>1, HistoryHolds, PTL

-----------------------------------------------------------------------------

(* A job that was never submitted has never run and holds no lease. *)
CronInv ==
  /\ stored \subseteq submitted
  /\ \A j \in Job \ submitted : row[j].answered = None /\ ~Leased(j)
  /\ CronAdvances

(* A claim is later than the run last reported. *)
LEMMA ClaimKeepsCronInv ==
  ASSUME TypeOK, CronInv, NEW w \in Worker, NEW S \in SUBSET Due(w),
         row' = Claimed(w, S), UNCHANGED <<stored, submitted>>
  PROVE  CronInv'
<1> USE SchedulerAssumption DEF CronInv, CronAdvances, Leased
<1>1. Asked(w) \in Int
  BY UtcNowBound
<1>2. \A j \in Job : row[j].next_run_at \in Int /\ row[j].answered \in Instant
  BY DEF TypeOK, Row
<1>3. S \subseteq stored /\ \A j \in S : row[j].next_run_at <= Asked(w) /\ ~Leased(j)
  BY DEF Due
<1>4. ASSUME NEW j \in S
      PROVE  row'[j].claimed_at = Asked(w) /\ row'[j].answered = row[j].answered
  BY ClaimedRows
<1>5. \A j \in Job \ S : row'[j] = row[j]
  BY ClaimedRows
<1>6. stored \subseteq Job /\ Cron \subseteq Job
  BY DEF TypeOK, Job
<1>7. ASSUME NEW j \in Cron \cap stored, row'[j].answered # None
      PROVE  IF row'[j].claimed_at # None THEN row'[j].claimed_at > row'[j].answered
                                          ELSE row'[j].next_run_at > row'[j].answered
  <2>1. CASE j \in S
    <3>1. row[j].next_run_at > row[j].answered /\ row[j].answered \in Int
      BY <1>2, <1>3, <1>4, <1>6, <1>7, <2>1 DEF Instant
    <3> QED BY <1>1, <1>2, <1>3, <1>4, <1>6, <2>1, <3>1
  <2>2. CASE j \notin S
    BY <1>5, <1>6, <1>7, <2>2
  <2> QED BY <2>1, <2>2
<1> QED BY <1>3, <1>5, <1>6, <1>7

(* Every step keeps a cron job moving forward. *)
LEMMA CronStep == TypeOK /\ CronInv /\ [Next]_vars => CronInv'
<1> SUFFICES ASSUME TypeOK, CronInv, [Next]_vars PROVE CronInv'
  OBVIOUS
<1> USE SchedulerAssumption DEF CronInv, CronAdvances, Leased
<1>1. ASSUME NEW j \in Job, Schedule(j) PROVE CronInv'
  <2>1. PICK next : row' = [row EXCEPT ![j].next_run_at = next]
    BY <1>1 DEF Schedule
  <2>2. /\ row'[j].answered = row[j].answered /\ row'[j].claimed_at = row[j].claimed_at
        /\ \A k \in Job \ {j} : row'[k] = row[k]
    BY <2>1, ScheduledRows
  <2>3. j \notin submitted /\ stored' = stored \cup {j} /\ submitted' = submitted \cup {j}
    BY <1>1 DEF Schedule
  <2>4. stored \subseteq Job /\ Cron \subseteq Job
    BY DEF TypeOK, Job
  <2> QED BY <2>2, <2>3, <2>4
<1>2. ASSUME NEW w \in Worker, Claim(w) \/ ClaimFails(w) PROVE CronInv'
  <2>1. CASE row' = row
    BY <1>2, <2>1 DEF Claim, ClaimFails
  <2>2. CASE \E S \in SUBSET Due(w) : row' = Claimed(w, S)
    BY <1>2, <2>2, ClaimKeepsCronInv DEF Claim, ClaimFails
  <2> QED BY <1>2, <2>1, <2>2 DEF Claim, ClaimFails
<1>3. ASSUME NEW w \in Worker, Reap(w) PROVE CronInv'
  <2>1. Asked(w) \in Int
    BY UtcNowBound
  <2>2. \A j \in Job : row[j].claimed_at \in Instant /\ row[j].answered \in Instant
    BY DEF TypeOK, Row
  <2>3. stored \subseteq Job /\ Cron \subseteq Job
    BY DEF TypeOK, Job
  <2>4. row' = Requeued(w) /\ UNCHANGED <<stored, submitted>>
    BY <1>3 DEF Reap
  <2>5. \A j \in Stale(w) : j \in stored /\ row[j].claimed_at \in Int
                             /\ row[j].claimed_at < Asked(w)
    BY <2>1, <2>2, <2>3 DEF Stale, Instant
  <2>6. ASSUME NEW j \in Stale(w)
        PROVE  /\ row'[j].claimed_at = None /\ row'[j].next_run_at = Asked(w)
               /\ row'[j].answered = row[j].answered
    BY <2>4, RequeuedRows
  <2>7. \A j \in Job \ Stale(w) : row'[j] = row[j]
    BY <2>4, RequeuedRows
  <2>8. ASSUME NEW j \in Cron \cap stored, row'[j].answered # None
        PROVE  IF row'[j].claimed_at # None THEN row'[j].claimed_at > row'[j].answered
                                            ELSE row'[j].next_run_at > row'[j].answered
    <3>1. CASE j \in Stale(w)
      <4>1. /\ row[j].answered \in Int
            /\ row[j].claimed_at > row[j].answered
        BY <2>2, <2>3, <2>5, <2>6, <2>8, <3>1 DEF Instant
      <4> QED BY <2>1, <2>5, <2>6, <3>1, <4>1
    <3>2. CASE j \notin Stale(w)
      BY <2>3, <2>7, <2>8, <3>2
    <3> QED BY <3>1, <3>2
  <2> QED BY <2>3, <2>4, <2>5, <2>7, <2>8
<1>4. ASSUME NEW t \in tasks, Complete(t) PROVE CronInv'
  <2>1. t.job \in Job /\ t.done \in Int /\ submitted' = submitted
    BY <1>4 DEF Complete, TypeOK, Task
  <2>2. CASE row' = row
    <3>1. stored' \subseteq stored
      BY <1>4 DEF Complete
    <3> QED BY <2>1, <2>2, <3>1
  <2>4. CASE row' # row /\ NextRun(t) = None
    <3>1. /\ stored' = stored \ {t.job} /\ t.job \in stored
          /\ \A k \in Job \ {t.job} : row'[k] = row[k]
      BY <1>4, <2>4, DroppedRow
    <3>2. stored \subseteq Job /\ Cron \subseteq Job /\ t.job \in submitted
      BY <3>1 DEF TypeOK, Job
    <3> QED BY <2>1, <3>1, <3>2
  <2>3. CASE row' # row /\ NextRun(t) # None
    <3>1. /\ NextRun(t) # None
          /\ t.job \in stored /\ stored' = stored
      BY <1>4, <2>3 DEF Complete
    <3>2. NextRun(t) > t.done
      BY <2>1, <3>1, NextRunType
    <3>3. /\ row'[t.job].claimed_at = None /\ row'[t.job].answered = t.done
          /\ row'[t.job].next_run_at = NextRun(t)
          /\ \A k \in Job \ {t.job} : row'[k] = row[k]
      BY <1>4, <2>3, CompletedRow, Zenon
    <3>4. stored \subseteq Job /\ Cron \subseteq Job /\ t.job \in submitted
      BY <3>1 DEF TypeOK, Job
    <3>5. ASSUME NEW k \in Cron \cap stored, row'[k].answered # None
          PROVE  IF row'[k].claimed_at # None THEN row'[k].claimed_at > row'[k].answered
                                              ELSE row'[k].next_run_at > row'[k].answered
      <4>1. CASE k = t.job
        BY <3>2, <3>3, <4>1
      <4>2. CASE k # t.job
        BY <3>3, <3>4, <3>5, <4>2
      <4> QED BY <4>1, <4>2
    <3>6. \A k \in Job \ submitted : row'[k] = row[k]
      BY <3>3, <3>4
    <3> QED BY <2>1, <3>1, <3>5, <3>6
  <2> QED BY <2>2, <2>3, <2>4
<1>5. CASE UNCHANGED <<row, stored, submitted>>
  BY <1>5
<1> QED
  BY <1>1, <1>2, <1>3, <1>4, <1>5
  DEF Next, WorkerStep, TaskStep, Tick, Wake, ReapFails, Stop, Exit, Crash, Restart,
      ProcessGone, RunnerReturns, KindRejected, RunnerPanics, CompleteFails, vars

(* The firings that were answered, in every reachable state. *)
LEMMA CronHolds == Spec => []CronInv
<1>1. Init => CronInv
  BY SchedulerAssumption DEF Init, CronInv, CronAdvances, Leased
<1>2. TypeOK /\ CronInv /\ [Next]_vars => CronInv'
  BY CronStep
<1> QED BY <1>1, <1>2, TypeCorrect, PTL DEF Spec

(* A cron job moves strictly forward, under any clock skew between the      *)
(* workers and however late a completion arrives.                           *)
THEOREM CronMovesForward == Spec => []CronAdvances
<1>1. CronInv => CronAdvances
  BY DEF CronInv
<1> QED BY <1>1, CronHolds, PTL

-----------------------------------------------------------------------------

(* The task that the row's lease was written for. *)
HoldsLease(t) ==
  /\ row[t.job].claimed_at = t.at
  /\ row[t.job].attempts = t.attempt

(* `attempts` numbers the claims of a job, so it identifies its tasks; and  *)
(* while a one-shot job is stored, a task on it either holds the lease or   *)
(* is past it.  Nobody but the reaper takes a lease from a one-shot job,    *)
(* because any completion deletes the row.                                  *)
LeaseInv ==
  /\ stored \subseteq submitted /\ \A t \in tasks : t.job \in submitted
  /\ \A t \in tasks : t.attempt <= row[t.job].attempts
  /\ \A t, u \in tasks : t.job = u.job /\ t.attempt = u.attempt => t = u
  /\ \A t \in tasks : t.job \in Once \cap stored => Expired(t) \/ HoldsLease(t)
  /\ OverlapOnlyAfterExpiry

(* The times compared by the lease argument are integers. *)
LEMMA LeaseTypes ==
  ASSUME TypeOK
  PROVE  /\ \A t \in tasks : t.job \in Job /\ t.attempt \in Nat /\ t.at \in Int
         /\ \A j \in Job : row[j].attempts \in Nat /\ row[j].claimed_at \in Instant
         /\ now \in Int /\ SkewMax \in Int /\ LeaseTtl \in Int
  BY SchedulerAssumption DEF TypeOK, Task, Row

(* A claim by w of the unleased rows S, with or without its tasks. *)
LEMMA ClaimKeepsLeaseInv ==
  ASSUME TypeOK, LeaseInv, NEW w \in Worker, NEW S \in SUBSET Due(w),
         row' = Claimed(w, S), UNCHANGED <<now, stored, submitted>>,
         tasks' = tasks \/ tasks' = tasks \cup Spawned(w, S)
  PROVE  LeaseInv'
<1> USE SchedulerAssumption
<1>1. Asked(w) \in Int
  BY UtcNowBound
<1>2. S \subseteq stored /\ stored \subseteq Job /\ \A j \in S : row[j].claimed_at = None
  BY DEF Due, Leased, TypeOK
<1>3. ASSUME NEW j \in S
      PROVE  row'[j].claimed_at = Asked(w) /\ row'[j].attempts = row[j].attempts + 1
  BY ClaimedRows
<1>4. \A j \in Job \ S : row'[j] = row[j]
  BY ClaimedRows
<1>5. \A t \in tasks : t.job \in Once /\ t.job \in S => Expired(t)
  BY <1>2, LeaseTypes DEF LeaseInv, HoldsLease
<1>6. \A t \in tasks' :
        \/ t \in tasks
        \/ /\ t.job \in S /\ t.attempt = row[t.job].attempts + 1 /\ t.at = Asked(w)
           /\ t = [job |-> t.job, attempt |-> row[t.job].attempts + 1, worker |-> w,
                   at |-> Asked(w), stage |-> "running", done |-> 0]
  BY DEF Spawned
<1>7. \A t : Expired(t)' <=> Expired(t)
  BY DEF Expired
<1>8. \A t \in tasks' : t.job \in Job
  BY <1>2, <1>6, LeaseTypes
<1>9. ASSUME NEW t \in tasks' PROVE t.attempt <= row'[t.job].attempts
  BY <1>2, <1>3, <1>4, <1>6, <1>8, LeaseTypes DEF LeaseInv
<1>10. ASSUME NEW t \in tasks', NEW u \in tasks', t.job = u.job, t.attempt = u.attempt
       PROVE  t = u
  <2>1. CASE t \in tasks /\ u \in tasks
    BY <1>10, <2>1 DEF LeaseInv
  <2>2. CASE t \notin tasks /\ u \notin tasks
    BY <1>6, <1>10, <2>2
  <2>3. CASE t \in tasks /\ u \notin tasks
    BY <1>2, <1>6, <1>10, <2>3, LeaseTypes DEF LeaseInv
  <2>4. CASE t \notin tasks /\ u \in tasks
    BY <1>2, <1>6, <1>10, <2>4, LeaseTypes DEF LeaseInv
  <2> QED BY <2>1, <2>2, <2>3, <2>4
<1>11. ASSUME NEW t \in tasks', t.job \in Once \cap stored'
       PROVE  Expired(t)' \/ HoldsLease(t)'
  <2>1. CASE t \notin tasks
    BY <1>3, <1>6, <2>1 DEF HoldsLease
  <2>2. CASE t \in tasks /\ t.job \in S
    BY <1>5, <1>7, <1>11, <2>2
  <2>3. CASE t \in tasks /\ t.job \notin S
    BY <1>4, <1>7, <1>8, <1>11, <2>3 DEF LeaseInv, HoldsLease
  <2> QED BY <2>1, <2>2, <2>3
<1>12. ASSUME NEW t \in tasks', NEW u \in tasks', t # u, t.job = u.job, t.job \in Once
       PROVE  Expired(t)' \/ Expired(u)'
  <2>1. CASE t \in tasks /\ u \in tasks
    BY <1>7, <1>12, <2>1 DEF LeaseInv, OverlapOnlyAfterExpiry
  <2>2. CASE t \notin tasks /\ u \notin tasks
    BY <1>6, <1>12, <2>2
  <2>3. CASE t \in tasks /\ u \notin tasks
    BY <1>5, <1>6, <1>7, <1>12, <2>3
  <2>4. CASE t \notin tasks /\ u \in tasks
    BY <1>5, <1>6, <1>7, <1>12, <2>4
  <2> QED BY <2>1, <2>2, <2>3, <2>4
<1>13. stored' \subseteq submitted' /\ \A t \in tasks' : t.job \in submitted'
  BY <1>2, <1>6 DEF LeaseInv
<1> QED BY <1>9, <1>10, <1>11, <1>12, <1>13 DEF LeaseInv, OverlapOnlyAfterExpiry

(* Every step keeps the correspondence between leases and unexpired tasks. *)
LEMMA LeaseStep == TypeOK /\ LeaseInv /\ [Next]_vars => LeaseInv'
<1> SUFFICES ASSUME TypeOK, LeaseInv, [Next]_vars PROVE LeaseInv'
  OBVIOUS
<1> USE SchedulerAssumption
<1>1. CASE Tick
  <2>1. now' = now + 1 /\ UNCHANGED <<stored, row, tasks, submitted>>
    BY <1>1 DEF Tick
  <2>2. \A t \in tasks : Expired(t) => Expired(t)'
    BY <2>1, LeaseTypes DEF Expired
  <2> QED BY <2>1, <2>2 DEF LeaseInv, HoldsLease, OverlapOnlyAfterExpiry
<1>2. ASSUME NEW j \in Job, Schedule(j) PROVE LeaseInv'
  <2>1. PICK next : row' = [row EXCEPT ![j].next_run_at = next]
    BY <1>2 DEF Schedule
  <2>2. \A k \in Job : row'[k].claimed_at = row[k].claimed_at /\ row'[k].attempts = row[k].attempts
    BY <2>1, ScheduledRows
  <2>3. /\ UNCHANGED <<now, tasks>>
        /\ stored' = stored \cup {j} /\ submitted' = submitted \cup {j}
        /\ \A t \in tasks : t.job # j
    BY <1>2 DEF Schedule, LeaseInv
  <2>4. \A t \in tasks : (Expired(t)' <=> Expired(t)) /\ (HoldsLease(t)' <=> HoldsLease(t))
    BY <2>2, <2>3, LeaseTypes DEF Expired, HoldsLease
  <2>5. \A t \in tasks : t.attempt <= row'[t.job].attempts
    BY <2>2, LeaseTypes DEF LeaseInv
  <2> QED BY <2>3, <2>4, <2>5 DEF LeaseInv, OverlapOnlyAfterExpiry
<1>3. ASSUME NEW w \in Worker, Claim(w) PROVE LeaseInv'
  BY <1>3, ClaimKeepsLeaseInv DEF Claim
<1>4. ASSUME NEW w \in Worker, ClaimFails(w) PROVE LeaseInv'
  <2>1. CASE row' = row
    BY <1>4, <2>1 DEF ClaimFails, LeaseInv, HoldsLease, OverlapOnlyAfterExpiry, Expired
  <2>2. CASE \E S \in SUBSET Due(w) : row' = Claimed(w, S)
    BY <1>4, <2>2, ClaimKeepsLeaseInv DEF ClaimFails
  <2> QED BY <1>4, <2>1, <2>2 DEF ClaimFails
<1>5. ASSUME NEW w \in Worker, Reap(w) PROVE LeaseInv'
  <2>1. row' = Requeued(w) /\ UNCHANGED <<now, stored, tasks, submitted>>
    BY <1>5 DEF Reap
  <2>2. Asked(w) \in Int /\ Asked(w) <= now + SkewMax
    BY UtcNowBound
  <2>3. \A k \in Job : row'[k].attempts = row[k].attempts
    BY <2>1, RequeuedRows
  <2>4. \A k \in Job : row'[k] = row[k] \/ k \in Stale(w)
    BY <2>1, RequeuedRows
  <2>5. ASSUME NEW t \in tasks, t.job \in Stale(w), HoldsLease(t) PROVE Expired(t)
    BY <2>2, <2>5, LeaseTypes DEF Stale, HoldsLease, Expired
  <2> QED BY <2>1, <2>3, <2>4, <2>5, LeaseTypes
          DEF LeaseInv, HoldsLease, OverlapOnlyAfterExpiry, Expired
<1>6. ASSUME NEW t \in tasks, RunnerReturns(t) \/ KindRejected(t) PROVE LeaseInv'
  <2> DEFINE v == [t EXCEPT !.stage = "completing", !.done = UtcNow(t.worker)]
  <2>1. v.job = t.job /\ v.attempt = t.attempt /\ v.at = t.at
    BY DEF TypeOK, Task
  <2>2. tasks' = (tasks \ {t}) \cup {v} /\ UNCHANGED <<now, stored, row, submitted>>
    BY <1>6 DEF RunnerReturns, KindRejected
  <2> HIDE DEF v
  <2>3. \A u \in tasks' : u = v \/ (u \in tasks /\ u # t)
    BY <2>2
  <2>4. ASSUME NEW x \in tasks'
        PROVE  \E y \in tasks : /\ x.job = y.job /\ x.attempt = y.attempt /\ x.at = y.at
                                /\ x = IF y = t THEN v ELSE y
    BY <2>1, <2>3, <2>4
  <2>5. \A x, y : x.at = y.at /\ x.job = y.job /\ x.attempt = y.attempt =>
                    /\ Expired(x)' <=> Expired(y)
                    /\ HoldsLease(x)' <=> HoldsLease(y)
    BY <2>2 DEF Expired, HoldsLease
  <2>6. ASSUME NEW x \in tasks', NEW u \in tasks', x.job = u.job, x.attempt = u.attempt
        PROVE  x = u
    BY <2>1, <2>3, <2>6 DEF LeaseInv
  <2>7. ASSUME NEW x \in tasks', NEW u \in tasks', x # u, x.job = u.job, x.job \in Once
        PROVE  Expired(x)' \/ Expired(u)'
    <3>1. PICK y \in tasks : /\ x.job = y.job /\ x.attempt = y.attempt /\ x.at = y.at
                             /\ x = IF y = t THEN v ELSE y
      BY <2>4
    <3>2. PICK z \in tasks : /\ u.job = z.job /\ u.attempt = z.attempt /\ u.at = z.at
                             /\ u = IF z = t THEN v ELSE z
      BY <2>4
    <3>3. y # z /\ y.job = z.job /\ y.job \in Once
      BY <2>7, <3>1, <3>2
    <3>4. Expired(y) \/ Expired(z)
      BY <3>3 DEF LeaseInv, OverlapOnlyAfterExpiry
    <3> QED BY <2>5, <3>1, <3>2, <3>4
  <2>8. ASSUME NEW x \in tasks'
        PROVE  /\ x.attempt <= row'[x.job].attempts /\ x.job \in submitted'
               /\ x.job \in Once \cap stored' => Expired(x)' \/ HoldsLease(x)'
    <3>1. PICK y \in tasks : x.job = y.job /\ x.attempt = y.attempt /\ x.at = y.at
      BY <2>4
    <3>2. /\ y.attempt <= row[y.job].attempts /\ y.job \in submitted
          /\ y.job \in Once \cap stored => Expired(y) \/ HoldsLease(y)
      BY DEF LeaseInv
    <3> QED BY <2>2, <2>5, <3>1, <3>2
  <2>9. stored' \subseteq submitted'
    BY <2>2 DEF LeaseInv
  <2> QED BY <2>6, <2>7, <2>8, <2>9 DEF LeaseInv, OverlapOnlyAfterExpiry
<1>7. ASSUME NEW t \in tasks, Complete(t) PROVE LeaseInv'
  <2>1. t.job \in Job /\ t.done \in Int
    BY DEF TypeOK, Task
  <2>2. tasks' = tasks \ {t} /\ UNCHANGED <<now, submitted>>
    BY <1>7 DEF Complete
  <2>3. CASE NextRun(t) = None
    <3>1. /\ stored' = stored \ {t.job}
          /\ \A k \in Job : /\ row'[k].claimed_at = row[k].claimed_at
                            /\ row'[k].attempts = row[k].attempts
      BY <1>7, <2>3, DroppedRow
    <3> QED BY <2>2, <3>1, LeaseTypes DEF LeaseInv, HoldsLease, OverlapOnlyAfterExpiry, Expired
  <2>4. CASE NextRun(t) # None
    <3>1. t.job \notin Once
      BY <2>4 DEF NextRun
    <3>2. /\ stored' = stored
          /\ \A k \in Job : row'[k].attempts = row[k].attempts
          /\ \A k \in Job \ {t.job} : row'[k] = row[k]
      BY <1>7, <2>1, <2>4 DEF Complete, TypeOK, Row
    <3> QED BY <2>2, <3>1, <3>2, LeaseTypes
            DEF LeaseInv, HoldsLease, OverlapOnlyAfterExpiry, Expired
  <2> QED BY <2>3, <2>4
<1>8. CASE tasks' \subseteq tasks /\ UNCHANGED <<now, stored, row, submitted>>
  BY <1>8 DEF LeaseInv, HoldsLease, OverlapOnlyAfterExpiry, Expired
<1> QED
  BY <1>1, <1>2, <1>3, <1>4, <1>5, <1>6, <1>7, <1>8
  DEF Next, WorkerStep, TaskStep, Wake, ReapFails, Stop, Exit, Crash, Restart,
      ProcessGone, RunnerPanics, CompleteFails, vars

(* Leases and the tasks that have them, in every reachable state. *)
LEMMA LeaseHolds == Spec => []LeaseInv
<1>1. Init => LeaseInv
  BY DEF Init, LeaseInv, OverlapOnlyAfterExpiry
<1>2. TypeOK /\ LeaseInv /\ [Next]_vars => LeaseInv'
  BY LeaseStep
<1> QED BY <1>1, <1>2, TypeCorrect, PTL DEF Spec

(* Mutual exclusion of one-shot jobs up to the lease: two tasks work on the *)
(* same job only if the claim of one is older than lease_ttl on the most    *)
(* advanced clock.                                                          *)
THEOREM OverlapNeedsExpiry == Spec => []OverlapOnlyAfterExpiry
<1>1. LeaseInv => OverlapOnlyAfterExpiry
  BY DEF LeaseInv
<1> QED BY <1>1, LeaseHolds, PTL

-----------------------------------------------------------------------------

(* A task ended on the clock on which it was claimed, and no earlier; and a   *)
(* job that was never submitted holds no lease.                               *)
RunInv ==
  /\ \A t \in tasks :
       /\ t.at <= UtcNow(t.worker)
       /\ t.stage = "completing" => t.at <= t.done /\ t.done <= now + SkewMax
  /\ \A j \in Job \ submitted : ~Leased(j)

(* Every step keeps what is known of the clocks. *)
LEMMA RunStep ==
  ASSUME TypeOK, HistoryInv', CronInv', RunInv, [Next]_vars
  PROVE  RunInv'
<1> USE SchedulerAssumption
<1>1. \A j \in Job \ submitted' : ~Leased(j)'
  BY DEF CronInv
<1>2. \A t \in tasks' : t.stage = "completing" => t.done <= now' + SkewMax'
  BY DEF HistoryInv
<1>3. now \in Nat /\ (now' = now \/ now' = now + 1)
  BY DEF TypeOK, Next, WorkerStep, TaskStep, Tick, Schedule, Wake, Reap, ReapFails, Claim,
         ClaimFails, Stop, Exit, Crash, Restart, ProcessGone, RunnerReturns, KindRejected,
         RunnerPanics, Complete, CompleteFails, vars
<1>4. ASSUME NEW t \in tasks PROVE t.at <= UtcNow(t.worker)'
  <2>1. t.at \in Int /\ t.worker \in Worker /\ Skew[t.worker] \in Int
    BY DEF TypeOK, Task
  <2> QED BY <1>3, <2>1 DEF RunInv, UtcNow
<1>5. ASSUME tasks' \subseteq tasks PROVE RunInv'
  BY <1>1, <1>2, <1>4, <1>5 DEF RunInv
<1>6. ASSUME NEW w \in Worker, Claim(w) PROVE RunInv'
  <2>1. PICK S : tasks' = tasks \/ tasks' = tasks \cup Spawned(w, S)
    BY <1>6 DEF Claim
  <2>2. Asked(w) <= UtcNow(w) /\ UtcNow(w)' = UtcNow(w)
    <3>1. worker[w].read \in Nat /\ worker[w].read <= now /\ Skew[w] \in Int
      BY DEF TypeOK, WorkerState
    <3> QED BY <1>3, <1>6, <3>1 DEF Asked, UtcNow, Claim
  <2>3. \A t \in tasks' : t \in tasks \/ (t.at = Asked(w) /\ t.worker = w /\ t.stage = "running")
    BY <2>1 DEF Spawned
  <2>4. \A t \in tasks' : t.at <= UtcNow(t.worker)'
    BY <1>4, <2>2, <2>3
  <2>5. \A t \in tasks' : t.stage = "completing" => t.at <= t.done
    BY <2>3 DEF RunInv
  <2> QED BY <1>1, <1>2, <2>4, <2>5 DEF RunInv
<1>7. ASSUME NEW t \in tasks, RunnerReturns(t) \/ KindRejected(t) PROVE RunInv'
  <2> DEFINE v == [t EXCEPT !.stage = "completing", !.done = UtcNow(t.worker)]
  <2>1. v.at = t.at /\ v.done = UtcNow(t.worker) /\ v.worker = t.worker
    BY DEF TypeOK, Task
  <2>2. tasks' = (tasks \ {t}) \cup {v}
    BY <1>7 DEF RunnerReturns, KindRejected
  <2> HIDE DEF v
  <2>3. \A u \in tasks' : u = v \/ u \in tasks
    BY <2>2
  <2>4. \A u \in tasks' : u.at <= UtcNow(u.worker)'
    BY <1>4, <2>1, <2>3
  <2>5. \A u \in tasks' : u.stage = "completing" => u.at <= u.done
    BY <2>1, <2>3 DEF RunInv
  <2> QED BY <1>1, <1>2, <2>4, <2>5 DEF RunInv
<1> QED
  BY <1>5, <1>6, <1>7
  DEF Next, WorkerStep, TaskStep, Tick, Schedule, Wake, Reap, ReapFails, ClaimFails, Stop,
      Exit, Crash, Restart, ProcessGone, RunnerPanics, Complete, CompleteFails, vars

AbstractStep == [Abstract!Next]_(Abstract!vars)

(* The instants of the mapping are integers. *)
LEMMA FromType ==
  ASSUME TypeOK
  PROVE  From \in [Job -> Int]
<1>1. \A j \in Job : row[j].next_run_at \in Int /\ row[j].claimed_at \in Instant
  BY DEF TypeOK, Row
<1>2. \A j \in Job : Leased(j) => row[j].claimed_at + LeaseTtl \in Int
  BY <1>1, SchedulerAssumption DEF Leased, Instant
<1> QED BY <1>1, <1>2 DEF From

(* And so they are after a step, where each says what its row does. *)
LEMMA FromAfter ==
  ASSUME TypeOK'
  PROVE  /\ From' \in [Job -> Int]
         /\ \A j \in Job :
              From'[j] = IF j \notin stored' THEN 0
                         ELSE IF Leased(j)' THEN row'[j].claimed_at + LeaseTtl
                                            ELSE row'[j].next_run_at
<1>1. \A j \in Job : row'[j].next_run_at \in Int /\ row'[j].claimed_at \in Instant
  BY DEF TypeOK, Row
<1>2. \A j \in Job : Leased(j)' => row'[j].claimed_at + LeaseTtl \in Int
  BY <1>1, SchedulerAssumption DEF Leased, Instant
<1> QED BY <1>1, <1>2 DEF From

(* What a task passes to complete() is the soonest firing that follows its    *)
(* run, and nothing is passed when its job does not come again.               *)
LEMMA NextIsSoonest ==
  ASSUME NEW j \in Cron, NEW t \in Int
  PROVE  /\ FiringsAfter(j, t) = Abstract!Following(j, t)
         /\ FiringsAfter(j, t) = {} => NextCron(j, t) = None
         /\ FiringsAfter(j, t) # {} =>
              NextCron(j, t) = Abstract!Soonest(Abstract!Following(j, t)) /\ NextCron(j, t) # None
<1>1. FiringsAfter(j, t) = Abstract!Following(j, t)
  BY DEF FiringsAfter, Abstract!Following
<1>2. FiringsAfter(j, t) = {} => NextCron(j, t) = None
  BY DEF NextCron
<1>3. ASSUME FiringsAfter(j, t) # {}
      PROVE  NextCron(j, t) = Abstract!Soonest(Abstract!Following(j, t)) /\ NextCron(j, t) # None
  <2>1. NextCron(j, t) \in Int
    BY <1>3, NextCronAfter
  <2>2. NextCron(j, t) = Abstract!Soonest(FiringsAfter(j, t))
    BY <1>3 DEF NextCron, Abstract!Soonest
  <2> QED BY <1>1, <2>1, <2>2, SchedulerAssumption
<1> QED BY <1>1, <1>2, <1>3

(* The runs of all tasks but one are all runs but its own. *)
LEMMA RunsWithout ==
  ASSUME LeaseInv, NEW t \in tasks
  PROVE  {RunOf(u) : u \in tasks \ {t}} = Runs \ {RunOf(t)}
<1>1. \A u \in tasks : RunOf(u) = RunOf(t) => u.job = t.job /\ u.attempt = t.attempt
  BY DEF RunOf
<1> QED BY <1>1 DEF LeaseInv, Runs

LEMMA SubmitStep ==
  ASSUME TypeOK, TypeOK', RunInv, NEW j \in Job, Schedule(j)
  PROVE  AbstractStep
<1> USE SchedulerAssumption
<1>1. PICK next \in FirstRuns(j) :
        next # None /\ row' = [row EXCEPT ![j].next_run_at = next]
  BY DEF Schedule
<1>2. /\ j \notin submitted /\ stored' = stored \cup {j} /\ submitted' = submitted \cup {j}
      /\ UNCHANGED <<now, tasks>>
  BY DEF Schedule
<1>3. /\ row'[j].next_run_at = next
      /\ \A k \in Job : row'[k].claimed_at = row[k].claimed_at /\ row'[k].attempts = row[k].attempts
      /\ \A k \in Job \ {j} : row'[k] = row[k]
  BY <1>1, ScheduledRows
<1>4. \A k \in Job : Leased(k)' <=> Leased(k)
  BY <1>3 DEF Leased
<1>5. ~Leased(j)
  BY <1>2 DEF RunInv
<1>6. Tries' = Tries /\ Runs' = Runs
  BY <1>2, <1>3 DEF Tries, Runs, RunOf, Decodes
<1>7. From' \in [Job -> Int] /\ From'[j] = next /\ \A k \in Job \ {j} : From'[k] = From[k]
  <2>1. next \in Int
    BY <1>1, FirstRunsType DEF TypeOK
  <2> QED BY <1>2, <1>3, <1>4, <1>5, <2>1, FromType DEF From
<1>8. Place' = [k \in Job |-> IF k \in {j} THEN "waiting" ELSE Place[k]]
  BY <1>2, <1>4, <1>5 DEF Place
<1>9. Place[j] = "unborn"
  BY <1>2 DEF Place
<1>10. ASSUME j \in Cron
       PROVE  \E t \in (next - Horizon)..(now + SkewMax) :
                /\ Abstract!Following(j, t) # {}
                /\ next = Abstract!Soonest(Abstract!Following(j, t))
  <2>1. now \in Nat
    BY DEF TypeOK
  <2>2. PICK t \in Int : t <= now + SkewMax /\ next = NextCron(j, t)
    BY <1>1, <1>10, <2>1, FirstRunsType
  <2>3. next \in Int /\ next < t + Horizon
    BY <1>1, <1>10, <2>2, NextCronAfter
  <2>4. t \in (next - Horizon)..(now + SkewMax)
    BY <2>1, <2>2, <2>3
  <2> QED BY <1>1, <1>10, <2>2, <2>4, NextIsSoonest
<1>11. Abstract!Submit(j)
  BY <1>2, <1>6, <1>7, <1>8, <1>9, <1>10 DEF Abstract!Submit, Abstract!Moved
<1> QED BY <1>11 DEF AbstractStep, Abstract!Next

(* A step that leaves the rows alone leaves their jobs where they are. *)
LEMMA Kept ==
  ASSUME UNCHANGED <<stored, row, submitted>>
  PROVE  Place' = Place /\ From' = From /\ Tries' = Tries
BY DEF Place, From, Tries, Leased

(* A claim of the rows S, whether or not its tasks come to be. *)
LEMMA TakeStep ==
  ASSUME TypeOK, TypeOK', LeaseInv, NEW w \in Worker, NEW S \in SUBSET Due(w),
         row' = Claimed(w, S), UNCHANGED <<now, stored, submitted>>,
         tasks' = tasks \/ tasks' = tasks \cup Spawned(w, S)
  PROVE  AbstractStep
<1> USE SchedulerAssumption
<1>1. Asked(w) \in Int /\ Asked(w) <= now + SkewMax
  BY UtcNowBound
<1>2. /\ S \subseteq Job /\ S \subseteq submitted /\ S \subseteq stored
      /\ \A j \in S : row[j].next_run_at <= Asked(w) /\ ~Leased(j)
  BY DEF Due, TypeOK, LeaseInv
<1>3. ASSUME NEW j \in S
      PROVE  row'[j].claimed_at = Asked(w) /\ row'[j].attempts = row[j].attempts + 1
  BY ClaimedRows
<1>4. \A j \in Job \ S : row'[j] = row[j]
  BY ClaimedRows
<1>5. CASE S = {}
  <2>1. row' = row
    BY <1>4, <1>5 DEF TypeOK
  <2>2. tasks' = tasks
    BY <1>5 DEF Spawned
  <2> QED BY <2>1, <2>2, Kept DEF AbstractStep, Abstract!vars, Runs, RunOf, Decodes
<1>6. CASE S # {}
  <2>1. \A j \in S : Leased(j)'
    BY <1>1, <1>3 DEF Leased
  <2>2. \A j \in Job \ S : Leased(j)' <=> Leased(j)
    BY <1>4 DEF Leased
  <2>3. Place' = [j \in Job |-> IF j \in S THEN "leased" ELSE Place[j]]
    BY <1>2, <2>1, <2>2 DEF Place
  <2>4. \A j \in S : Place[j] = "waiting" /\ From[j] <= Asked(w)
    BY <1>2 DEF Place, From
  <2>5. /\ From' \in [Job -> Int]
        /\ \A j \in S : From'[j] = Asked(w) + LeaseTtl
        /\ \A j \in Job \ S : From'[j] = From[j]
    BY <1>1, <1>2, <1>3, <1>4, <2>1, <2>2, FromAfter DEF From
  <2>6. Tries' = [j \in Job |-> IF j \in S THEN Tries[j] + 1 ELSE Tries[j]]
    BY <1>3, <1>4 DEF Tries
  <2>7. Runs' \in {Runs, Runs \cup {Abstract!Run(j, Asked(w)) : j \in S}}
    <3>1. CASE tasks' = tasks
      BY <3>1 DEF Runs, RunOf, Decodes
    <3>2. CASE tasks' = tasks \cup Spawned(w, S)
      <4>1. Runs' = Runs \cup {RunOf(t) : t \in Spawned(w, S)}
        BY <3>2 DEF Runs, RunOf, Decodes
      <4> DEFINE New(j) == [job |-> j, attempt |-> row[j].attempts + 1, worker |-> w,
                            at |-> Asked(w), stage |-> "running", done |-> 0]
      <4>2. \A j \in S : RunOf(New(j)) = Abstract!Run(j, Asked(w))
        BY <1>2 DEF RunOf, Abstract!Run, Tries
      <4>3. Spawned(w, S) = {New(j) : j \in S}
        BY DEF Spawned
      <4> HIDE DEF New
      <4>4. {RunOf(t) : t \in Spawned(w, S)} = {Abstract!Run(j, Asked(w)) : j \in S}
        BY <4>2, <4>3
      <4> QED BY <4>1, <4>4
    <3> QED BY <3>1, <3>2
  <2>8. Abstract!Take(S, Asked(w))
    BY <1>1, <2>3, <2>4, <2>5, <2>6, <2>7 DEF Abstract!Take, Abstract!Moved
  <2>9. Asked(w) \in {From'[j] - LeaseTtl : j \in S}
    <3>1. PICK j \in S : TRUE
      BY <1>6
    <3>2. From'[j] - LeaseTtl = Asked(w)
      BY <1>1, <2>5
    <3> QED BY <3>2
  <2> QED BY <1>2, <2>8, <2>9 DEF AbstractStep, Abstract!Next
<1> QED BY <1>5, <1>6

(* A sweep takes away leases that are over on the sweeper's clock. *)
LEMMA EvictStep ==
  ASSUME TypeOK, TypeOK', LeaseInv, NEW w \in Worker, Reap(w)
  PROVE  AbstractStep
<1> USE SchedulerAssumption
<1> DEFINE S == Stale(w)
<1>1. Asked(w) \in Int /\ Asked(w) <= now + SkewMax
  BY UtcNowBound
<1>2. row' = Requeued(w) /\ UNCHANGED <<now, stored, submitted, tasks>>
  BY DEF Reap
<1>3. /\ S \subseteq Job /\ S \subseteq submitted /\ S \subseteq stored
      /\ \A j \in S : Leased(j) /\ row[j].claimed_at \in Int
                     /\ row[j].claimed_at + LeaseTtl < Asked(w)
  <2>1. \A j \in Job : Leased(j) => row[j].claimed_at \in Int
    BY DEF TypeOK, Row, Instant, Leased
  <2>2. \A j \in S : Leased(j) /\ row[j].claimed_at < Asked(w) - LeaseTtl /\ j \in Job
    BY DEF Stale, TypeOK
  <2> QED BY <1>1, <2>1, <2>2 DEF Stale, LeaseInv
<1>4. \A j \in Job : row'[j].attempts = row[j].attempts
  BY <1>2, RequeuedRows
<1>5. \A j \in S : row'[j].claimed_at = None /\ row'[j].next_run_at = Asked(w)
  BY <1>2, RequeuedRows
<1>6. \A j \in Job \ S : row'[j] = row[j]
  BY <1>2, RequeuedRows
<1> HIDE DEF S
<1>7. \A j \in S : ~Leased(j)'
  BY <1>5 DEF Leased
<1>8. \A j \in Job \ S : Leased(j)' <=> Leased(j)
  BY <1>6 DEF Leased
<1>9. Place' = [j \in Job |-> IF j \in S THEN "waiting" ELSE Place[j]]
  BY <1>2, <1>3, <1>7, <1>8 DEF Place
<1>10. /\ From' \in [Job -> Int]
       /\ \A j \in S : From'[j] = Asked(w) /\ From[j] = row[j].claimed_at + LeaseTtl
       /\ \A j \in Job \ S : From'[j] = From[j]
  BY <1>1, <1>2, <1>3, <1>5, <1>6, <1>7, <1>8, FromAfter DEF From
<1>11. \A j \in S : Place[j] = "leased"
  BY <1>3 DEF Place
<1>12. Tries' = Tries /\ Runs' = Runs
  BY <1>2, <1>4 DEF Tries, Runs, RunOf, Decodes
<1>13. \A j \in S : From[j] < From'[j] /\ From'[j] <= now + SkewMax
  BY <1>1, <1>3, <1>10
<1>14. Abstract!Evict(S)
  BY <1>2, <1>9, <1>10, <1>11, <1>12, <1>13 DEF Abstract!Evict, Abstract!Moved
<1> QED BY <1>3, <1>14 DEF AbstractStep, Abstract!Next

(* A runner returns, or the job's kind is refused. *)
LEMMA AnswerStep ==
  ASSUME TypeOK, LeaseInv, RunInv, NEW t \in tasks, RunnerReturns(t) \/ KindRejected(t)
  PROVE  AbstractStep
<1> DEFINE v == [t EXCEPT !.stage = "completing", !.done = UtcNow(t.worker)]
<1>1. /\ v.job = t.job /\ v.attempt = t.attempt /\ v.at = t.at /\ v.worker = t.worker
      /\ v.stage = "completing" /\ v.done = UtcNow(t.worker)
  BY DEF TypeOK, Task
<1>2. /\ tasks' = (tasks \ {t}) \cup {v} /\ t.stage = "running"
      /\ UNCHANGED <<now, stored, row, submitted>>
  BY DEF RunnerReturns, KindRejected
<1> HIDE DEF v
<1> DEFINE r == RunOf(t)
           s == RunOf(v)
<1>3. /\ r.end = "none" /\ s.end \in {"ran", "refused"} /\ s.at = UtcNow(t.worker)
      /\ r.since = t.at
  BY <1>1, <1>2 DEF RunOf
<1>4. s \in [job : {r.job}, try : {r.try}, since : {r.since}, end : {"ran", "refused"}, at : Int]
  <2>1. UtcNow(t.worker) \in Int
    BY UtcNowBound DEF TypeOK, Task
  <2> QED BY <1>1, <2>1 DEF RunOf
<1>5. r.since <= s.at /\ s.at <= now + SkewMax
  <2>1. UtcNow(t.worker) <= now + SkewMax
    BY UtcNowBound DEF TypeOK, Task
  <2> QED BY <1>3, <2>1 DEF RunInv
<1>6. Runs' = (Runs \ {r}) \cup {s}
  <2>1. Runs' = {RunOf(u) : u \in tasks \ {t}} \cup {RunOf(v)}
    BY <1>2 DEF Runs, RunOf, Decodes
  <2> QED BY <2>1, RunsWithout
<1>7. r \in Runs /\ s \in Runs'
  BY <1>6 DEF Runs
<1> HIDE DEF r, s
<1>8. Abstract!Answer(r, s)
  BY <1>2, <1>3, <1>4, <1>5, <1>6, Kept DEF Abstract!Answer
<1> QED BY <1>7, <1>8 DEF AbstractStep, Abstract!Next

(* complete() writes the next firing, or deletes the row. *)
LEMMA ReportStep ==
  ASSUME TypeOK, TypeOK', LeaseInv, NEW t \in tasks, Complete(t)
  PROVE  AbstractStep
<1> USE SchedulerAssumption
<1> DEFINE r == RunOf(t)
<1>1. /\ t.stage = "completing" /\ tasks' = tasks \ {t} /\ UNCHANGED <<now, submitted>>
  BY DEF Complete
<1>2. t.job \in Job /\ t.job \in submitted /\ t.done \in Int /\ stored \subseteq submitted
  BY DEF TypeOK, Task, LeaseInv
<1>3. /\ r.job = t.job /\ r.at = t.done /\ r.end # "none" /\ r \in Runs
      /\ r.end = "ran" <=> Decodes(t)
  BY <1>1 DEF RunOf, Runs
<1>4. Runs' = Runs \ {r}
  <2>1. Runs' = {RunOf(u) : u \in tasks \ {t}}
    BY <1>1 DEF Runs, RunOf, Decodes
  <2> QED BY <2>1, RunsWithout
<1>5. /\ NextRun(t) # None <=> Abstract!Again(r)
      /\ NextRun(t) # None => NextRun(t) = Abstract!Soonest(Abstract!Following(t.job, t.done))
  BY <1>2, <1>3, NextIsSoonest DEF NextRun, Abstract!Again
<1> HIDE DEF r
<1>6. CASE NextRun(t) = None
  <2>1. /\ stored' = stored \ {t.job}
        /\ \A k \in Job : /\ row'[k].claimed_at = row[k].claimed_at
                          /\ row'[k].next_run_at = row[k].next_run_at
                          /\ row'[k].attempts = row[k].attempts
    BY <1>6, DroppedRow
  <2>2. Place' = [Place EXCEPT ![t.job] = "gone"]
    BY <1>1, <1>2, <2>1 DEF Place, Leased
  <2>3. From' = [From EXCEPT ![t.job] = 0]
    BY <1>2, <2>1 DEF From, Leased
  <2>4. Tries' = Tries
    BY <2>1 DEF Tries
  <2>5. Abstract!Retire(r)
    BY <1>1, <1>3, <1>4, <1>5, <1>6, <2>2, <2>3, <2>4 DEF Abstract!Retire, Abstract!Reported
  <2> QED BY <1>3, <2>5 DEF AbstractStep, Abstract!Next
<1>7. CASE NextRun(t) # None /\ t.job \notin stored
  <2>1. UNCHANGED <<stored, row, submitted>>
    BY <1>7 DEF Complete
  <2>2. Place[t.job] = "gone"
    BY <1>2, <1>7 DEF Place
  <2>3. Abstract!Reschedule(r)
    BY <1>1, <1>3, <1>4, <1>5, <1>7, <2>1, <2>2, Kept DEF Abstract!Reschedule, Abstract!Reported
  <2> QED BY <1>3, <2>3 DEF AbstractStep, Abstract!Next
<1>8. CASE NextRun(t) # None /\ t.job \in stored
  <2>1. /\ stored' = stored
        /\ row' = [row EXCEPT ![t.job].answered = t.done, ![t.job].next_run_at = NextRun(t),
                              ![t.job].claimed_at = None, ![t.job].worker_id = None]
    BY <1>8 DEF Complete
  <2>2. /\ row'[t.job].claimed_at = None /\ row'[t.job].next_run_at = NextRun(t)
        /\ \A k \in Job : row'[k].attempts = row[k].attempts
        /\ \A k \in Job \ {t.job} : row'[k] = row[k]
    BY <1>2, <2>1 DEF TypeOK, Row
  <2>3. ~Leased(t.job)' /\ \A k \in Job \ {t.job} : Leased(k)' <=> Leased(k)
    BY <2>2 DEF Leased
  <2>4. Place' = [k \in Job |-> IF k \in {t.job} THEN "waiting" ELSE Place[k]] /\ Place[t.job] # "gone"
    BY <1>1, <1>2, <1>8, <2>1, <2>3 DEF Place
  <2>5. /\ From' \in [Job -> Int] /\ From'[t.job] = NextRun(t)
        /\ \A k \in Job \ {t.job} : From'[k] = From[k]
    <3>1. stored' = stored
      BY <2>1
    <3> QED BY <1>2, <1>8, <2>2, <2>3, <3>1, FromAfter DEF From
  <2>6. Tries' = Tries
    BY <2>2 DEF Tries
  <2>7. Abstract!Reschedule(r)
    BY <1>1, <1>3, <1>4, <1>5, <1>8, <2>4, <2>5, <2>6
       DEF Abstract!Reschedule, Abstract!Reported, Abstract!Moved
  <2> QED BY <1>3, <2>7 DEF AbstractStep, Abstract!Next
<1> QED BY <1>6, <1>7, <1>8

(* Tasks that end unheard are runs that are lost. *)
LEMMA LoseStep ==
  ASSUME tasks' \subseteq tasks, UNCHANGED <<now, stored, row, submitted>>
  PROVE  AbstractStep
<1>1. Runs' \subseteq Runs
  BY DEF Runs, RunOf, Decodes
<1>2. Abstract!Lose
  BY <1>1, Kept DEF Abstract!Lose
<1> QED BY <1>2 DEF AbstractStep, Abstract!Next

(* The scheduler keeps the promise of the queue: whatever crashes, is slow or *)
(* fails and however the clocks disagree, a job is handed out only when it is *)
(* due and nobody holds a lease on it, a lease ends only when it has expired  *)
(* or a run is reported, and a job goes only when a run of it has ended.      *)
THEOREM Implements == Spec => ImplementsJobQueue
<1>1. Init => RunInv
  BY DEF Init, RunInv, Leased
<1>2. TypeOK /\ HistoryInv' /\ CronInv' /\ RunInv /\ [Next]_vars => RunInv'
  BY RunStep
<1>3. Init => Abstract!Init
  BY DEF Init, Abstract!Init, Place, From, Tries, Runs
<1>4. TypeOK /\ TypeOK' /\ LeaseInv /\ RunInv /\ [Next]_vars => AbstractStep
  <2> SUFFICES ASSUME TypeOK, TypeOK', LeaseInv, RunInv, [Next]_vars
               PROVE  AbstractStep
    OBVIOUS
  <2>1. CASE Tick
    <3>1. Runs' = Runs /\ now' = now + 1
      BY <2>1 DEF Tick, Runs, RunOf, Decodes
    <3> QED BY <2>1, <3>1, Kept DEF Tick, AbstractStep, Abstract!Next, Abstract!Tick
  <2>2. ASSUME NEW j \in Job, Schedule(j) PROVE AbstractStep
    BY <2>2, SubmitStep
  <2>3. ASSUME NEW w \in Worker, Claim(w) PROVE AbstractStep
    BY <2>3, TakeStep DEF Claim
  <2>4. ASSUME NEW w \in Worker, ClaimFails(w) PROVE AbstractStep
    <3>1. CASE row' = row
      BY <2>4, <3>1, LoseStep DEF ClaimFails
    <3>2. CASE \E S \in SUBSET Due(w) : row' = Claimed(w, S)
      BY <2>4, <3>2, TakeStep DEF ClaimFails
    <3> QED BY <2>4, <3>1, <3>2 DEF ClaimFails
  <2>5. ASSUME NEW w \in Worker, Reap(w) PROVE AbstractStep
    BY <2>5, EvictStep
  <2>6. ASSUME NEW t \in tasks, RunnerReturns(t) \/ KindRejected(t) PROVE AbstractStep
    BY <2>6, AnswerStep
  <2>7. ASSUME NEW t \in tasks, Complete(t) PROVE AbstractStep
    BY <2>7, ReportStep
  <2>8. CASE tasks' \subseteq tasks /\ UNCHANGED <<now, stored, row, submitted>>
    BY <2>8, LoseStep
  <2> QED
    BY <2>1, <2>2, <2>3, <2>4, <2>5, <2>6, <2>7, <2>8
    DEF Next, WorkerStep, TaskStep, Wake, ReapFails, Stop, Exit, Crash, Restart, ProcessGone,
        RunnerPanics, CompleteFails, vars
<1> QED BY <1>1, <1>2, <1>3, <1>4, TypeCorrect, HistoryHolds, CronHolds, LeaseHolds, PTL
        DEF Spec, ImplementsJobQueue, Abstract!Spec, AbstractStep

=============================================================================
