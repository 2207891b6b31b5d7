------------------------------ MODULE Breaker -------------------------------
(***************************************************************************)
(* What a circuit breaker promises its callers and the service behind it.  *)
(* It opens when it has earned it, by enough results and enough failures   *)
(* since it last closed; then nobody is let through for a time; and after  *)
(* that one caller at a time, until one that comes back decides.           *)
(*                                                                         *)
(* There is no lock and no slot here, no queue of results and no window,   *)
(* and a caller reports in one step.                                       *)
(***************************************************************************)
EXTENDS Integers

CONSTANTS
  Caller,
  Volume,   (* how many results it takes to open                             *)
  Num, Den, (* and which part of that many have to be failures               *)
  Pause     (* how long an open breaker lets nobody through                  *)

VARIABLES
  now,
  mode,     (* "Closed", "Open" or "HalfOpen"                                *)
  since,    (* of an open breaker, when the failure was that opened it       *)
  tally,    (* the results reported since it last closed                     *)
  out,      (* the callers that were let through and did not report          *)
  probing   (* and of them, the one nobody else may be let through beside    *)

vars == <<now, mode, since, tally, out, probing>>

Blank == [results |-> 0, failures |-> 0]

Init ==
  /\ now = 0
  /\ mode = "Closed" /\ since = 0 /\ tally = Blank
  /\ out = {} /\ probing = {}

Tick == now' = now + 1 /\ UNCHANGED <<mode, since, tally, out, probing>>

Pass(c) ==
  /\ mode = "Closed" /\ c \notin out
  /\ out' = out \cup {c}
  /\ UNCHANGED <<now, mode, since, tally, probing>>

(* The pause is over: a caller may be let through if nobody is probing, and *)
(* is refused otherwise.                                                    *)
Over == mode = "HalfOpen" \/ (mode = "Open" /\ now >= since + Pause)

Probe(c) ==
  /\ Over /\ c \notin out
  /\ mode' = "HalfOpen" /\ since' = 0
  /\ \/ probing = {} /\ probing' = {c} /\ out' = out \cup {c}
     \/ UNCHANGED <<probing, out>>
  /\ UNCHANGED <<now, tally>>

(* A probe has its result, and another one may follow it before it reports. *)
Result(c) == c \in probing /\ probing' = {} /\ UNCHANGED <<now, mode, since, tally, out>>

Opens == mode' = "Open" /\ since' \in 0..now

Earned ==
  tally'.results >= Volume /\ tally'.failures * Den >= Num * Volume

(* A caller reports, whatever has become of the breaker since it was let *)
(* through.                                                              *)
Report(c, ok) ==
  /\ c \in out \ probing /\ out' = out \ {c}
  /\ \/ /\ mode = "Closed"
        /\ tally' = [results  |-> tally.results + 1,
                     failures |-> tally.failures + IF ok THEN 0 ELSE 1]
        /\ UNCHANGED <<mode, since>> \/ (Opens /\ Earned)
     \/ /\ mode = "HalfOpen"
        /\ IF ok THEN mode' = "Closed" /\ since' = 0 /\ tally' = Blank
                 ELSE Opens /\ tally' = tally
     \/ mode = "Open" /\ UNCHANGED <<mode, since, tally>>
  /\ UNCHANGED <<now, probing>>

(* A caller goes away without a result. *)
Leave(c) ==
  /\ c \in out /\ out' = out \ {c} /\ probing' = probing \ {c}
  /\ UNCHANGED <<now, mode, since, tally>>

Next ==
  \/ Tick
  \/ \E c \in Caller :
       Pass(c) \/ Probe(c) \/ Result(c) \/ Leave(c) \/ \E ok \in BOOLEAN : Report(c, ok)

Spec == Init /\ [][Next]_vars
=============================================================================
