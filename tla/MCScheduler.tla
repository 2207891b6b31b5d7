---------------------------- MODULE MCScheduler -----------------------------
(* Instances of Scheduler for TLC. *)
EXTENDS Scheduler, TLC

CONSTANTS w1, w2

(* Every clock agrees. *)
NoSkew == [w \in Worker |-> 0]

(* The second worker's wall clock runs one unit ahead. *)
AheadSkew == [w \in Worker |-> IF w = w2 THEN 1 ELSE 0]

(* Fires at every second instant, beyond the bound of the clock. *)
EveryOther == [j \in Cron |-> {2 * i : i \in 0..(MaxTime + Hold)}]

(* Fires at 1 and 3, and then not before 9: beyond the search limit of an    *)
(* early run, and within that of a late one.                                *)
ThenMuchLater == [j \in Cron |-> {1, 3, 9}]

(* Every build knows every kind. *)
AllKnown == [w \in Worker |-> {}]

(* In the middle of a deploy: the second worker's build lacks the kind. *)
SecondLacks == [w \in Worker |-> IF w = w2 THEN Job ELSE {}]

Symmetry == Permutations(Worker)
=============================================================================
