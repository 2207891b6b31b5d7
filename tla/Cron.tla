--------------------------------- MODULE Cron ---------------------------------
(***************************************************************************)
(* Cron expressions (crates/hwhkit-scheduler/src/cron.rs): parsing the     *)
(* five fields, and the walk from minute to minute to the next occurrence. *)
(*                                                                         *)
(* An expression is a sequence of fields, and a field a sequence of chunks *)
(* (what is between commas).                                               *)
(* The calendar is the real one.  The minutes of an hour and the hours of  *)
(* a day are parameters, so that a walk of years has few steps.            *)
(***************************************************************************)
EXTENDS Integers, Sequences, FiniteSets

CONSTANTS
  Exprs,           (* the expressions                                        *)
  Starts,          (* the instants walks start from, in half minutes          *)
  MinutesPerHour,  (* 60 in the code                                         *)
  HoursPerDay      (* 24 in the code                                         *)

(* What parse_field tells apart: "*", a step, a range, a value, the rest. *)
Chunk == [is : {"*", "bad"}] \cup [is : {"*/", "value"}, n : Nat]
           \cup [is : {"-"}, a : Nat, b : Nat]

ASSUME ClockAssumption == MinutesPerHour \in Nat \ {0} /\ HoursPerDay \in Nat \ {0}

ASSUME CallsAssumption == Exprs \subseteq Seq(Seq(Chunk)) /\ Starts \subseteq Int

MinutesPerDay == MinutesPerHour * HoursPerDay

-----------------------------------------------------------------------------
(* The calendar. *)

weekday(day) == (day + 4) % 7

(* Month and day of month of a day: years are counted from 1 March 0000 in  *)
(* cycles of 400, so that the leap day is the last of its year.             *)
MonthDay(day) ==
  LET z == (day + 719468) % 146097
      year == (z - z \div 1460 + z \div 36524 - z \div 146096) \div 365
      doy == z - (365 * year + year \div 4 - year \div 100)
      m == (5 * doy + 2) \div 153
  IN [month |-> IF m < 10 THEN m + 3 ELSE m - 9, day |-> doy - (153 * m + 2) \div 5 + 1]

(* Instants are minutes since 1970-01-01. *)
Day(t) == t \div MinutesPerDay
Hour(t) == (t % MinutesPerDay) \div MinutesPerHour
Minute(t) == t % MinutesPerHour

-----------------------------------------------------------------------------
(* Parsing. *)

is_unrestricted(field) == \A i \in DOMAIN field : field[i].is = "*"

(* What a chunk pushes.  The one step whose addition overflows a u32 adds   *)
(* at most a 0, which is no day and no month.                               *)
Pushed(chunk, lo, hi) ==
  CASE chunk.is = "*" -> lo..hi
    [] chunk.is = "*/" -> {v \in lo..hi : (v - lo) % chunk.n = 0}
    [] chunk.is = "-" -> (chunk.a)..(chunk.b) \cap lo..hi
    [] chunk.is = "value" -> {chunk.n} \cap lo..hi

Malformed(chunk) == chunk.is = "bad" \/ (chunk.is = "*/" /\ chunk.n = 0)

(* The values of a field; none if it is refused. *)
parse_field(field, lo, hi) ==
  IF \E i \in DOMAIN field : Malformed(field[i]) THEN {}
  ELSE UNION {Pushed(field[i], lo, hi) : i \in DOMAIN field}

parse(expr) ==
  [minutes |-> parse_field(expr[1], 0, MinutesPerHour - 1),
   hours |-> parse_field(expr[2], 0, HoursPerDay - 1),
   doms |-> parse_field(expr[3], 1, 31),
   months |-> parse_field(expr[4], 1, 12),
   dows |-> parse_field(expr[5], 0, 6),
   dom_unrestricted |-> is_unrestricted(expr[3]),
   dow_unrestricted |-> is_unrestricted(expr[5])]

Refused(expr) ==
  \/ Len(expr) # 5
  \/ \E f \in {"minutes", "hours", "doms", "months", "dows"} : parse(expr)[f] = {}

-----------------------------------------------------------------------------
(* Matching. *)

(* Seeded fault: both day fields must match. *)
MatchesBoth(spec, t) ==
  /\ Minute(t) \in spec.minutes /\ Hour(t) \in spec.hours
  /\ MonthDay(Day(t)).month \in spec.months
  /\ MonthDay(Day(t)).day \in spec.doms /\ weekday(Day(t)) \in spec.dows

matches(spec, t) ==
  /\ Minute(t) \in spec.minutes /\ Hour(t) \in spec.hours
  /\ MonthDay(Day(t)).month \in spec.months
  /\ LET dom_match == MonthDay(Day(t)).day \in spec.doms
         dow_match == weekday(Day(t)) \in spec.dows
     IN CASE spec.dom_unrestricted /\ spec.dow_unrestricted -> TRUE
          [] spec.dom_unrestricted /\ ~spec.dow_unrestricted -> dow_match
          [] ~spec.dom_unrestricted /\ spec.dow_unrestricted -> dom_match
          [] OTHER -> dom_match \/ dow_match

-----------------------------------------------------------------------------

VARIABLES
  expr, start,  (* the arguments; start counts half minutes                  *)
  spec,         (* the parsed expression                                     *)
  t,            (* the minute of the walk                                    *)
  result        (* "parsing", "walking", "ok", "refused", "none"             *)

vars == <<expr, start, spec, t, result>>

(* A start lies on a minute or between two. *)
Init ==
  /\ expr \in Exprs /\ start \in Starts
  /\ spec = <<>> /\ t = 0 /\ result = "parsing"

(* start + 1 minute, without its seconds. *)
First == (start + 2) \div 2

(* Seeded fault: four years have no leap day. *)
LimitShort == start + 2 * 365 * 4 * MinutesPerDay

Limit == start + 2 * 366 * 4 * MinutesPerDay

(* next_after *)
Parse ==
  /\ result = "parsing"
  /\ IF Refused(expr) THEN result' = "refused" /\ UNCHANGED <<spec, t>>
     ELSE result' = "walking" /\ spec' = parse(expr) /\ t' = First
  /\ UNCHANGED <<expr, start>>

(* One turn of next_after_spec's loop. *)
Walk ==
  /\ result = "walking"
  /\ CASE 2 * t >= Limit -> result' = "none" /\ UNCHANGED t
       [] 2 * t < Limit /\ matches(spec, t) -> result' = "ok" /\ UNCHANGED t
       [] OTHER -> t' = t + 1 /\ UNCHANGED result
  /\ UNCHANGED <<expr, start, spec>>

Next == Parse \/ Walk

Spec == Init /\ [][Next]_vars

-----------------------------------------------------------------------------

(* What the module's documentation says of an expression (cron.rs:3-28).    *)
Covers(field, v, lo, hi) ==
  \E i \in DOMAIN field :
    \/ field[i].is = "*"
    \/ field[i].is = "*/" /\ \E k \in 0..hi : v = lo + k * field[i].n
    \/ field[i].is = "-" /\ field[i].a <= v /\ v <= field[i].b
    \/ field[i].is = "value" /\ field[i].n = v

(* An instant of which the day fields say so: both, if one of them does not *)
(* restrict the day, and else one.                                          *)
OccursIf(m, free) ==
  LET dom == Covers(expr[3], MonthDay(Day(m)).day, 1, 31)
      dow == Covers(expr[5], weekday(Day(m)), 0, 6)
  IN /\ Covers(expr[1], Minute(m), 0, MinutesPerHour - 1)
     /\ Covers(expr[2], Hour(m), 0, HoursPerDay - 1)
     /\ Covers(expr[4], MonthDay(Day(m)).month, 1, 12)
     /\ IF free THEN dom /\ dow ELSE dom \/ dow

(* Two readings of "restricted".  "If both fields are restricted (i.e.,     *)
(* aren't `*`), the command will be run when either field matches"          *)
(* (cron.rs:17-19).  "Every comma-separated chunk is a `*` or a `*/N` step  *)
(* that yields the full range.  The simple cases (`*`, `*/1`)" (77-81).     *)
Star(field) == \A i \in DOMAIN field : field[i] = [is |-> "*"]
Full(field) == \A i \in DOMAIN field : field[i] \in {[is |-> "*"], [is |-> "*/", n |-> 1]}

Occurs(m) == OccursIf(m, Star(expr[3]) \/ Star(expr[5]))

(* The readings agree on the day fields of the expression. *)
ReadAlike == \A f \in {3, 5} : Full(expr[f]) => Star(expr[f])

(* "Compute the next time after `start` (exclusive) that matches" (line     *)
(* 166): the result is an occurrence after the start, and the first, of an  *)
(* expression that has no `*/1` for a day field.                            *)
NextIsTheFirst ==
  result = "ok" /\ ReadAlike =>
    2 * t > start /\ Occurs(t) /\ \A m \in (start \div 2 + 1)..(t - 1) : ~Occurs(m)

(* The comment on is_unrestricted (77-81) holds of `*/1`: such a day field  *)
(* leaves the choice to the other one.                                      *)
FullStepsAreUnrestricted ==
  result = "ok" => OccursIf(t, Full(expr[3]) \/ Full(expr[5]))

(* An expression that is given up does not occur in the four years (1461    *)
(* days) after the start.  (Where the readings differ, the comment on       *)
(* is_unrestricted has fewer occurrences than this.)                        *)
GivenUpIsFar ==
  result = "none" => \A m \in (start \div 2 + 1)..(start \div 2 + 1461 * MinutesPerDay) : ~Occurs(m)
=============================================================================
