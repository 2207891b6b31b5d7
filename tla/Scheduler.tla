----------------------------- MODULE Scheduler ------------------------------
(***************************************************************************)
(* The background scheduler of crates/hwhkit-scheduler: a durable job      *)
(* table (storage.rs, PostgresJobStore) shared by several worker processes *)
(* that run Scheduler::run (lib.rs), and the detached task each claimed    *)
(* job gets.                                                               *)
(*                                                                         *)
(* One store call is one step: each is a single SQL statement.  A worker   *)
(* stamps rows with its OWN wall clock, read before the call, and neither  *)
(* complete() nor requeue_stale() looks at worker_id, so late calls act on *)
(* whatever is in the row by then.                                         *)
(***************************************************************************)
EXTENDS Integers, FiniteSets

CONSTANTS
  Worker,        (* the scheduler processes                                  *)
  Once, Cron,    (* the jobs, by the kind of their Schedule                  *)
  Unknown,       (* for each worker, the jobs whose kind its build rejects   *)
  BadSchedule,   (* jobs whose schedule column no longer deserializes        *)
  OnceTimes,     (* the instants a one-shot job may be scheduled for         *)
  Firings,       (* for each cron job, the instants its expression matches   *)
  Horizon,       (* how far cron::next_after searches: 366 * 4 days          *)
  LeaseTtl,      (* Scheduler::lease_ttl                                     *)
  ReapInterval,  (* max(lease_ttl / 2, 1s)                                   *)
  Hold,          (* how far a claim pushes next_run_at: 1 day                *)
  BatchSize,     (* the `max` of claim_due: 16                               *)
  Skew,          (* how far each worker's wall clock is off                  *)
  SkewMax,       (* an upper bound on Skew                                   *)
  MaxTime,       (* bound: the last instant of the clock                     *)
  FaultsUntil,   (* bound: the last instant at which something may fail      *)
  MaxFaults,     (* bound: how many failures happen in all                   *)
  None           (* Option::None and SQL NULL                                *)

Job == Once \cup Cron

ASSUME SchedulerAssumption ==
  /\ Once \cap Cron = {}
  /\ Unknown \in [Worker -> SUBSET Job] /\ BadSchedule \subseteq Job
  /\ OnceTimes \subseteq Int
  /\ Firings \in [Cron -> SUBSET Int] /\ Horizon \in Nat
  /\ LeaseTtl \in Nat /\ ReapInterval \in Nat /\ Hold \in Nat
  /\ BatchSize \in Nat \ {0}
  /\ Skew \in [Worker -> Int] /\ SkewMax \in Int
  /\ \A w \in Worker : Skew[w] <= SkewMax
  /\ MaxTime \in Nat /\ FaultsUntil \in Nat /\ MaxFaults \in Nat
  /\ None \notin Int /\ None \notin Worker

VARIABLES
  now,        (* true time                                                   *)
  stored,     (* the ids of the rows of the job table                        *)
  row,        (* the columns of each row                                     *)
  worker,     (* each process and its place in the loop of run()             *)
  tasks,      (* the spawned tasks that have not ended                       *)
  faults,     (* how many failures happened, for the bound                   *)
  submitted,  (* history: the jobs schedule() persisted                      *)
  finished,   (* history: the jobs whose runner returned at least once       *)
  rejected    (* history: the jobs some worker could not decode              *)

vars == <<now, stored, row, worker, tasks, faults, submitted,
          finished, rejected>>

Instant == Int \cup {None}

(* The columns that steer the scheduler, and a history field: answered is the *)
(* clock reading from which the last complete() that found the row computed   *)
(* its next firing; it outlives the row.                                      *)
(* (last_run_at, which nothing reads, is a second reading taken just after.)  *)
Row == [next_run_at : Int, answered : Instant, claimed_at : Instant,
        worker_id : Worker \cup {None}, attempts : Nat]

(* mode: in the loop; left it on shutdown; no process.                      *)
(* step: in the select with the poll sleep; in the call that reaps; in the  *)
(* one that claims.  read: when the clock was read for that call, which its *)
(* statement may reach the table long after.                                *)
WorkerState == [mode : {"up", "stopped", "down"}, step : {"sleep", "reap", "claim"},
                read : Nat, last_reap : Nat]

(* A task is identified by its job and the claim that created it.  It runs  *)
(* the job, reads the clock (done), then calls complete().                  *)
Task == [job : Job, attempt : Nat, worker : Worker, at : Int,
         stage : {"running", "completing"}, done : Int]

-----------------------------------------------------------------------------

(* Utc::now() as worker w reads it. *)
UtcNow(w) == now + Skew[w]

(* What it read for the store call it is in. *)
Asked(w) == worker[w].read + Skew[w]

(* Seeded fault: the first match at or after t. *)
FiringsNotBefore(j, t) == {f \in Firings[j] : f >= t /\ f < t + Horizon}

(* cron::next_after_spec: the matches strictly after t, and before its limit. *)
FiringsAfter(j, t) == {f \in Firings[j] : f > t /\ f < t + Horizon}

(* next_cron: the first of them, or an error, which `.ok()` makes a None. *)
NextCron(j, t) ==
  IF FiringsAfter(j, t) = {} THEN None
  ELSE CHOOSE f \in FiringsAfter(j, t) : \A g \in FiringsAfter(j, t) : f <= g

(* Whether from_value::<K> understands the kind: during a deploy that adds, *)
(* removes or renames a variant the workers differ.                         *)
Decodes(t) == t.job \notin Unknown[t.worker]

(* Seeded fault: a recurring job is treated like a one-shot. *)
NextRunForgotten(t) == None

(* The `next` a task passes to complete(). *)
NextRun(t) == IF t.job \in Cron /\ Decodes(t) THEN NextCron(t.job, t.done) ELSE None

(* The `next` schedule() may insert: the instant of a one-shot job, or the  *)
(* first firing after some process's clock, read some time ago.             *)
FirstRuns(j) ==
  IF j \in Once THEN OnceTimes
  ELSE {NextCron(j, at + Skew[w]) : at \in 0..now, w \in Worker}

Leased(j) == row[j].claimed_at # None

(* The rows `claim_due` may lock, and the ones it does: the earliest        *)
(* BatchSize of them.                                                       *)
Due(w) == {j \in stored : row[j].next_run_at <= Asked(w) /\ ~Leased(j)}

IsBatch(S, due) ==
  /\ Cardinality(S) = IF Cardinality(due) < BatchSize THEN Cardinality(due) ELSE BatchSize
  /\ \A a \in S, b \in due \ S : row[a].next_run_at <= row[b].next_run_at

(* The rows after w claimed S. *)
Claimed(w, S) ==
  [j \in Job |->
     IF j \in S
     THEN [row[j] EXCEPT !.next_run_at = Asked(w) + Hold, !.claimed_at = Asked(w),
                         !.worker_id = w, !.attempts = row[j].attempts + 1]
     ELSE row[j]]

(* The tasks spawned for S, one for each returned job. *)
Spawned(w, S) ==
  {[job |-> j, attempt |-> row[j].attempts + 1, worker |-> w, at |-> Asked(w),
    stage |-> "running", done |-> 0] : j \in S}

Stale(w) == {j \in stored : Leased(j) /\ row[j].claimed_at < Asked(w) - LeaseTtl}

(* The rows after w's requeue_stale. *)
Requeued(w) ==
  [j \in Job |->
     IF j \in Stale(w)
     THEN [row[j] EXCEPT !.claimed_at = None, !.worker_id = None, !.next_run_at = Asked(w)]
     ELSE row[j]]

(* One more failure, within the bounds. *)
Fault == faults < MaxFaults /\ now <= FaultsUntil /\ faults' = faults + 1

-----------------------------------------------------------------------------

Init ==
  /\ now = 0
  /\ stored = {}
  /\ row = [j \in Job |-> [next_run_at |-> 0, answered |-> None, claimed_at |-> None,
                           worker_id |-> None, attempts |-> 0]]
  /\ worker = [w \in Worker |-> [mode |-> "up", step |-> "sleep", read |-> 0, last_reap |-> 0]]
  /\ tasks = {}
  /\ faults = 0
  /\ submitted = {}
  /\ finished = {} /\ rejected = {}

(* Scheduler::schedule, called in one of the processes: reads the clock      *)
(* there, computes the first firing and later inserts the row.  A cron      *)
(* expression without a firing before the limit is refused.                 *)
Schedule(j) ==
  /\ j \notin submitted
  /\ \E next \in FirstRuns(j) :
       /\ next # None
       /\ row' = [row EXCEPT ![j].next_run_at = next]
  /\ stored' = stored \cup {j}
  /\ submitted' = submitted \cup {j}
  /\ UNCHANGED <<now, worker, tasks, faults, finished, rejected>>

(* The poll sleep ends (its length is left open).  The reaper is due every  *)
(* ReapInterval of the process's monotonic clock; last_reap is set before   *)
(* the sweep, and so is the clock of either call.                           *)
Wake(w) ==
  /\ worker[w].mode = "up" /\ worker[w].step = "sleep"
  /\ IF now - worker[w].last_reap >= ReapInterval
     THEN worker' = [worker EXCEPT ![w].step = "reap", ![w].read = now, ![w].last_reap = now]
     ELSE worker' = [worker EXCEPT ![w].step = "claim", ![w].read = now]
  /\ UNCHANGED <<now, stored, row, tasks, faults, submitted, finished, rejected>>

AtStep(w, s) == worker[w].mode = "up" /\ worker[w].step = s

(* The sweep is over, and the clock is read again for the claim. *)
ToClaim(w) == [worker EXCEPT ![w].step = "claim", ![w].read = now]

(* Seeded fault: the sweep forgets the lease TTL. *)
ReapAnyLease(w) ==
  /\ AtStep(w, "reap")
  /\ row' = [j \in Job |->
               IF j \in stored /\ Leased(j)
               THEN [row[j] EXCEPT !.claimed_at = None, !.worker_id = None,
                                   !.next_run_at = Asked(w)]
               ELSE row[j]]
  /\ worker' = ToClaim(w)
  /\ UNCHANGED <<now, stored, tasks, faults, submitted, finished, rejected>>

(* Seeded fault: the sweep clears the lease but leaves next_run_at pushed out. *)
ReapWithoutRequeue(w) ==
  /\ AtStep(w, "reap")
  /\ row' = [j \in Job |->
               IF j \in Stale(w)
               THEN [row[j] EXCEPT !.claimed_at = None, !.worker_id = None]
               ELSE row[j]]
  /\ worker' = ToClaim(w)
  /\ UNCHANGED <<now, stored, tasks, faults, submitted, finished, rejected>>

(* requeue_stale(Utc::now(), lease_ttl). *)
Reap(w) ==
  /\ AtStep(w, "reap")
  /\ row' = Requeued(w)
  /\ worker' = ToClaim(w)
  /\ UNCHANGED <<now, stored, tasks, faults, submitted, finished, rejected>>

(* The sweep fails; that is logged, and the next one is a whole interval away. *)
ReapFails(w) ==
  /\ AtStep(w, "reap")
  /\ Fault
  /\ worker' = ToClaim(w)
  /\ UNCHANGED <<now, stored, row, tasks, submitted, finished, rejected>>

(* claim_due and the spawn loop.  Postgres commits the claim before the     *)
(* rows are decoded: one undecodable schedule makes the whole call an       *)
(* error, and run() continues without a task for any row of the batch.      *)
Claim(w) ==
  /\ AtStep(w, "claim")
  /\ \E S \in SUBSET Due(w) :
       /\ IsBatch(S, Due(w))
       /\ row' = Claimed(w, S)
       /\ tasks' = IF S \cap BadSchedule = {} THEN tasks \cup Spawned(w, S) ELSE tasks
  /\ worker' = [worker EXCEPT ![w].step = "sleep", ![w].read = 0]
  /\ UNCHANGED <<now, stored, faults, submitted, finished, rejected>>

(* claim_due fails before it commits, or the reply of a committed claim is lost. *)
ClaimFails(w) ==
  /\ AtStep(w, "claim")
  /\ Fault
  /\ \/ row' = row
     \/ \E S \in SUBSET Due(w) : IsBatch(S, Due(w)) /\ row' = Claimed(w, S)
  /\ worker' = [worker EXCEPT ![w].step = "sleep", ![w].read = 0]
  /\ UNCHANGED <<now, stored, tasks, submitted, finished, rejected>>

(* runner(k).await returns and the task reads the clock. *)
RunnerReturns(t) ==
  /\ t.stage = "running" /\ Decodes(t)
  /\ tasks' = (tasks \ {t}) \cup {[t EXCEPT !.stage = "completing", !.done = UtcNow(t.worker)]}
  /\ finished' = finished \cup {t.job}
  /\ UNCHANGED <<now, stored, row, worker, faults, submitted, rejected>>

(* from_value::<K> fails: the job is never run, complete(.., None) follows. *)
KindRejected(t) ==
  /\ t.stage = "running" /\ ~Decodes(t)
  /\ tasks' = (tasks \ {t}) \cup {[t EXCEPT !.stage = "completing", !.done = UtcNow(t.worker)]}
  /\ rejected' = rejected \cup {t.job}
  /\ UNCHANGED <<now, stored, row, worker, faults, submitted, finished>>

(* The runner panics: the task ends, the lease stays. *)
RunnerPanics(t) ==
  /\ t.stage = "running" /\ Decodes(t)
  /\ Fault
  /\ tasks' = tasks \ {t}
  /\ UNCHANGED <<now, stored, row, worker, submitted, finished, rejected>>

(* complete(id, done, next): reschedules the row or deletes it, whoever     *)
(* holds its lease; a row that is gone is left alone.                       *)
Complete(t) ==
  /\ t.stage = "completing"
  /\ LET next == NextRun(t)
     IN  IF next = None
         THEN /\ stored' = stored \ {t.job}
              /\ row' = IF t.job \in stored THEN [row EXCEPT ![t.job].answered = t.done]
                                            ELSE row
         ELSE /\ row' = IF t.job \in stored
                        THEN [row EXCEPT ![t.job].answered = t.done,
                                         ![t.job].next_run_at = next,
                                         ![t.job].claimed_at = None,
                                         ![t.job].worker_id = None]
                        ELSE row
              /\ stored' = stored
  /\ tasks' = tasks \ {t}
  /\ UNCHANGED <<now, worker, faults, submitted, finished, rejected>>

(* complete() fails: logged, not retried. *)
CompleteFails(t) ==
  /\ t.stage = "completing"
  /\ Fault
  /\ tasks' = tasks \ {t}
  /\ UNCHANGED <<now, stored, row, worker, submitted, finished, rejected>>

(* The shutdown token fires while the loop sleeps: run() returns, its       *)
(* detached tasks go on as long as the process lives.                       *)
Stop(w) ==
  /\ AtStep(w, "sleep")
  /\ Fault
  /\ worker' = [worker EXCEPT ![w].mode = "stopped"]
  /\ UNCHANGED <<now, stored, row, tasks, submitted, finished, rejected>>

ProcessGone(w) ==
  /\ worker' = [worker EXCEPT ![w].mode = "down"]
  /\ tasks' = {t \in tasks : t.worker # w}
  /\ UNCHANGED <<now, stored, row, submitted, finished, rejected>>

(* The stopped process exits; tasks it still runs are dropped. *)
Exit(w) ==
  /\ worker[w].mode = "stopped"
  /\ ProcessGone(w)
  /\ UNCHANGED faults

Crash(w) ==
  /\ worker[w].mode # "down"
  /\ Fault
  /\ ProcessGone(w)

(* A new process takes the place of one that is gone. *)
Restart(w) ==
  /\ worker[w].mode = "down"
  /\ worker' = [worker EXCEPT ![w] = [mode |-> "up", step |-> "sleep", read |-> 0,
                                           last_reap |-> now]]
  /\ UNCHANGED <<now, stored, row, tasks, faults, submitted, finished, rejected>>

Tick ==
  /\ now < MaxTime
  /\ now' = now + 1
  /\ UNCHANGED <<stored, row, worker, tasks, faults, submitted, finished, rejected>>

WorkerStep(w) ==
  \/ Wake(w) \/ Reap(w) \/ ReapFails(w) \/ Claim(w) \/ ClaimFails(w)
  \/ Stop(w) \/ Exit(w) \/ Crash(w) \/ Restart(w)

TaskStep(t) ==
  \/ RunnerReturns(t) \/ KindRejected(t) \/ RunnerPanics(t)
  \/ Complete(t) \/ CompleteFails(t)

Next ==
  \/ Tick
  \/ \E j \in Job : Schedule(j)
  \/ \E w \in Worker : WorkerStep(w)
  \/ \E t \in tasks : TaskStep(t)

(* The clock advances; a process that is up keeps polling (the poll sleep   *)
(* is a timer and store calls return), a stopped one exits and a dead one   *)
(* is replaced; a task that was spawned is polled until it ends, which      *)
(* takes a runner that returns.  Failures owe nothing.                      *)
Fairness ==
  /\ WF_vars(Tick)
  /\ \A w \in Worker : WF_vars(Wake(w) \/ Reap(w) \/ Claim(w) \/ Exit(w) \/ Restart(w))
  /\ \A j \in Job, w \in Worker :
       WF_vars(\E t \in tasks : /\ t.job = j /\ t.worker = w
                                /\ RunnerReturns(t) \/ KindRejected(t) \/ Complete(t))

Spec == Init /\ [][Next]_vars

FairSpec == Spec /\ Fairness

-----------------------------------------------------------------------------

(* The types of the job table, the workers and the tasks. *)
TypeOK ==
  /\ now \in Nat
  /\ stored \in SUBSET Job
  /\ row \in [Job -> Row]
  /\ worker \in [Worker -> WorkerState] /\ \A w \in Worker : worker[w].read <= now
  /\ tasks \in SUBSET Task
  /\ faults \in Nat
  /\ submitted \in SUBSET Job
  /\ finished \in SUBSET Job /\ rejected \in SUBSET Job

(* "Jobs survive": through crashes, panics, lost replies and failed         *)
(* completions a job leaves the table only after its runner returned, or    *)
(* after a worker could not decode it, and a cron job only when the search  *)
(* found no firing between the clock reading of the run it reported last    *)
(* and its limit.  (That there may be firings past the limit is the subject *)
(* of RecurringStays.)                                                      *)
NoJobLost ==
  \A j \in submitted \ stored :
    \/ j \in rejected
    \/ /\ j \in finished
       /\ j \in Cron => /\ row[j].answered # None /\ row[j].answered <= now + SkewMax
                        /\ FiringsAfter(j, row[j].answered) = {}

(* "Durable storage so jobs survive" (lib.rs 3-4), the search being capped   *)
(* only "to guarantee termination on impossible specs" (cron.rs 169-170): a *)
(* recurring job whose expression still has firings stays stored, unless a  *)
(* worker could not decode it.                                              *)
RecurringStays ==
  \A j \in Cron \cap submitted :
    (\E f \in Firings[j] : f > now + SkewMax) => j \in stored \cup rejected

(* A cron job moves forward: its next firing, or the claim that is serving  *)
(* it, lies strictly after the end of the run it last reported, whoever     *)
(* reported that run and however late.                                      *)
CronAdvances ==
  \A j \in Cron \cap stored :
    row[j].answered # None =>
      IF Leased(j) THEN row[j].claimed_at > row[j].answered
                   ELSE row[j].next_run_at > row[j].answered

(* A claim that the reaper may take away, on some worker's clock. *)
Expired(t) == t.at < now + SkewMax - LeaseTtl

(* Mutual exclusion up to the lease: when two tasks work on the same        *)
(* one-shot job, the claim of one of them is older than lease_ttl.          *)
OverlapOnlyAfterExpiry ==
  \A t, u \in tasks :
    t # u /\ t.job = u.job /\ t.job \in Once => Expired(t) \/ Expired(u)

(* "Designed to run on multiple nodes with mutual exclusion" (lib.rs 4-5):   *)
(* the same of recurring jobs, which the report of a run that lost its      *)
(* lease long ago does not end.                                             *)
RecurringOverlapOnlyAfterExpiry ==
  \A t, u \in tasks :
    t # u /\ t.job = u.job /\ t.job \in Cron => Expired(t) \/ Expired(u)

(* "The reaper must never fight a live worker" (storage.rs 341), so that     *)
(* "multiple scheduler nodes never run the same job twice" (192-193): a     *)
(* one-shot job has one running task, as long as no worker is gone.         *)
ReaperSparesTheLiving ==
  (\A w \in Worker : worker[w].mode = "up") =>
    \A t, u \in tasks : t.job = u.job /\ t.job \in Once => t = u

(* The table, the tasks and their jobs as the promise to those who submit    *)
(* them: a row without a lease waits until next_run_at, the lease of one     *)
(* that was claimed ends lease_ttl later, and a task is a run that is out.   *)
Place ==
  [j \in Job |-> CASE j \notin submitted -> "unborn"
                   [] j \in submitted \ stored -> "gone"
                   [] OTHER -> IF Leased(j) THEN "leased" ELSE "waiting"]
From ==
  [j \in Job |-> IF j \notin stored THEN 0
                 ELSE IF Leased(j) THEN row[j].claimed_at + LeaseTtl ELSE row[j].next_run_at]
RunOf(t) ==
  [job |-> t.job, try |-> t.attempt, since |-> t.at, at |-> t.done,
   end |-> IF t.stage = "running" THEN "none" ELSE IF Decodes(t) THEN "ran" ELSE "refused"]
Tries == [j \in Job |-> row[j].attempts]
Runs == {RunOf(t) : t \in tasks}

Abstract == INSTANCE JobQueue WITH
  Recurring <- Cron, Firing <- Firings, Limit <- Horizon, Lease <- LeaseTtl, Ahead <- SkewMax,
  place <- Place, from <- From, tries <- Tries, runs <- Runs

(* "Each returned job becomes the caller's responsibility" and the reaper is *)
(* "the safety net" (storage.rs 33, 54-56): through crashes, lost replies,   *)
(* late sweeps and late completions each job is handed out when it is due    *)
(* and not while it is leased, a lease ends by expiry or by a report only,   *)
(* and the job goes only by the report of a run that was handed out.         *)
ImplementsJobQueue == Abstract!Spec

(* "Dead workers don't take their pending work to the grave" (run(), lines  *)
(* 268-270): once failures stop, every one-shot job that is stored is run   *)
(* and removed.                                                             *)
EventuallyDone == \A j \in Once : j \in stored ~> j \notin stored
=============================================================================
