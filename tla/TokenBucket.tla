---------------------------- MODULE TokenBucket -----------------------------
(***************************************************************************)
(* What the rate limiter of crates/hwhkit/src/production/rate_limit.rs     *)
(* promises: one bucket of tokens per key, full at first, that fills       *)
(* evenly with time and gives one token to each request it lets through.   *)
(* There is no storage here, no expiry and no time stamp.                  *)
(*                                                                         *)
(* A token is Window units of level and a unit of time adds Capacity of    *)
(* them, so a bucket fills up in exactly Window units of time.             *)
(***************************************************************************)
EXTENDS Integers

CONSTANTS Key, Capacity, Window

VARIABLES
  level,    (* what each bucket holds                                        *)
  behind,   (* whether it was filled up to a time the clock is yet to reach  *)
  taken,    (* tokens given out, per bucket                                  *)
  elapsed,  (* time that passed                                              *)
  lost      (* how often a bucket was lost and replaced by a full one        *)

vars == <<level, behind, taken, elapsed, lost>>

Full == Capacity * Window

AtMostFull(x) == IF x > Full THEN Full ELSE x

Init ==
  /\ level = [k \in Key |-> Full] /\ behind = [k \in Key |-> FALSE]
  /\ taken = [k \in Key |-> 0] /\ elapsed = 0 /\ lost = [k \in Key |-> 0]

(* A bucket that is behind catches up sooner or later. *)
Behind == behind' \in [Key -> BOOLEAN] /\ \A k \in Key : behind'[k] => behind[k]

CatchUp == Behind /\ UNCHANGED <<level, taken, elapsed, lost>>

Take(k) ==
  /\ Behind
  /\ level[k] >= Window
  /\ level' = [level EXCEPT ![k] = @ - Window] /\ taken' = [taken EXCEPT ![k] = @ + 1]
  /\ UNCHANGED <<elapsed, lost>>

(* A unit of time fills each bucket, but one that is behind. *)
Fill ==
  /\ Behind /\ elapsed' = elapsed + 1
  /\ level' = [k \in Key |-> IF behind[k] THEN level[k] ELSE AtMostFull(level[k] + Capacity)]
  /\ UNCHANGED <<taken, lost>>

(* The clock is set back: what was not drawn on yet may be forgotten. *)
Forget ==
  /\ behind' \in [Key -> BOOLEAN]
  /\ level' \in [Key -> 0..Full] /\ \A k \in Key : level'[k] <= level[k]
  /\ UNCHANGED <<taken, elapsed, lost>>

Lose(k) ==
  /\ Behind
  /\ level' = [level EXCEPT ![k] = Full] /\ lost' = [lost EXCEPT ![k] = @ + 1]
  /\ UNCHANGED <<taken, elapsed>>

Next == Fill \/ Forget \/ CatchUp \/ \E k \in Key : Take(k) \/ Lose(k)

Spec == Init /\ [][Next]_vars

(* What a bucket gave out and still holds is covered by the buckets it      *)
(* started from and by the time that passed.                                *)
Accounts ==
  \A k \in Key :
    taken[k] * Window + level[k] <= Full + Full * lost[k] + Capacity * elapsed
=============================================================================
