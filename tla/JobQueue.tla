------------------------------ MODULE JobQueue -------------------------------
(***************************************************************************)
(* What a durable job queue promises those who submit jobs and those who   *)
(* work on them.  A job is handed out only when it is due, together with a *)
(* lease; the lease ends when it has expired or when somebody reports a    *)
(* run of the job; and the job leaves the queue only by such a report, a   *)
(* recurring one only if no firing follows within the limit.               *)
(*                                                                         *)
(* There are no workers here, no polling and no sweeps, no columns and no  *)
(* failures: of the clocks of those who work on the jobs only how far they *)
(* may be ahead is known.                                                  *)
(***************************************************************************)
EXTENDS Integers

CONSTANTS
  Job,
  Recurring,  (* the jobs that have firings                                  *)
  Firing,     (* for each of them, the instants it is to be run at           *)
  Limit,      (* how far after a run its next firing may be                  *)
  Lease,      (* how long a job is handed out for                            *)
  Ahead       (* how far a clock may be ahead of true time                   *)

VARIABLES
  now,     (* true time                                                      *)
  place,   (* of each job: "unborn", "waiting", "leased" or "gone"           *)
  from,    (* when a waiting job is due, and when a lease ends               *)
  tries,   (* how often each job was handed out                              *)
  runs     (* what was handed out and not yet reported or lost               *)

vars == <<now, place, from, tries, runs>>

(* A run that was handed out at `since`.  It has ended at `at` when its end is *)
(* "ran", or "refused" because whoever got it did not know the job.            *)
Run(j, since) ==
  [job |-> j, try |-> tries[j] + 1, since |-> since, end |-> "none", at |-> 0]

Following(j, t) == {f \in Firing[j] : t < f /\ f < t + Limit}
Soonest(T) == CHOOSE f \in T : \A g \in T : f <= g

-----------------------------------------------------------------------------

Init ==
  /\ now = 0
  /\ place = [j \in Job |-> "unborn"] /\ from = [j \in Job |-> 0]
  /\ tries = [j \in Job |-> 0] /\ runs = {}

Tick == now' = now + 1 /\ UNCHANGED <<place, from, tries, runs>>

(* The jobs of S change their place and their instant, and no others. *)
Moved(S, to) ==
  /\ place' = [j \in Job |-> IF j \in S THEN to ELSE place[j]]
  /\ from' \in [Job -> Int]
  /\ \A j \in Job \ S : from'[j] = from[j]

(* A new job waits for its instant; a recurring one for the firing that     *)
(* follows what some clock showed, which may be behind by any amount.       *)
Submit(j) ==
  /\ place[j] = "unborn"
  /\ Moved({j}, "waiting")
  /\ j \in Recurring =>
       \E t \in (from'[j] - Limit)..(now + Ahead) :
         Following(j, t) # {} /\ from'[j] = Soonest(Following(j, t))
  /\ UNCHANGED <<now, tries, runs>>

(* Due jobs are handed out, at an instant of the taker's clock that may lie *)
(* in the past, but not before they were due.  They may not arrive.         *)
Take(S, since) ==
  /\ since <= now + Ahead
  /\ \A j \in S : place[j] = "waiting" /\ from[j] <= since
  /\ Moved(S, "leased") /\ \A j \in S : from'[j] = since + Lease
  /\ tries' = [j \in Job |-> IF j \in S THEN tries[j] + 1 ELSE tries[j]]
  /\ runs' \in {runs, runs \cup {Run(j, since) : j \in S}}
  /\ UNCHANGED now

(* Leases that are over on some clock are taken away, and the jobs are due. *)
Evict(S) ==
  /\ \A j \in S : place[j] = "leased"
  /\ Moved(S, "waiting")
  /\ \A j \in S : from[j] < from'[j] /\ from'[j] <= now + Ahead
  /\ UNCHANGED <<now, tries, runs>>

(* A run ends, on the clock of the one who ran it. *)
Answer(r, s) ==
  /\ r.end = "none"
  /\ s \in [job : {r.job}, try : {r.try}, since : {r.since}, end : {"ran", "refused"}, at : Int]
  /\ r.since <= s.at /\ s.at <= now + Ahead
  /\ runs' = (runs \ {r}) \cup {s}
  /\ UNCHANGED <<now, place, from, tries>>

Lose == runs' \subseteq runs /\ UNCHANGED <<now, place, from, tries>>

(* What a run that has ended means for its job. *)
Again(r) == r.end = "ran" /\ r.job \in Recurring /\ Following(r.job, r.at) # {}

Reported(r) == r.end # "none" /\ runs' = runs \ {r} /\ UNCHANGED <<now, tries>>

(* The job waits for its next firing, whoever holds its lease by then. *)
Reschedule(r) ==
  /\ Reported(r) /\ Again(r)
  /\ IF place[r.job] = "gone"
     THEN UNCHANGED <<place, from>>
     ELSE /\ Moved({r.job}, "waiting")
          /\ from'[r.job] = Soonest(Following(r.job, r.at))

Retire(r) ==
  /\ Reported(r) /\ ~Again(r)
  /\ place' = [place EXCEPT ![r.job] = "gone"] /\ from' = [from EXCEPT ![r.job] = 0]

Next ==
  \/ Tick
  \/ \E j \in Job : Submit(j)
  \/ \E S \in SUBSET Job :
       \/ \E since \in {from'[j] - Lease : j \in S} : Take(S, since)
       \/ Evict(S)
  \/ \E r \in runs : Reschedule(r) \/ Retire(r) \/ \E s \in runs' : Answer(r, s)
  \/ Lose

Spec == Init /\ [][Next]_vars
=============================================================================
