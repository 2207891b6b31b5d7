------------------------------- MODULE MCCron -------------------------------
(* An instance of Cron for TLC: days of four minutes. *)
EXTENDS Cron

Every == [is |-> "*"]
Step(n) == [is |-> "*/", n |-> n]
Span(a, b) == [is |-> "-", a |-> a, b |-> b]
Value(n) == [is |-> "value", n |-> n]
Bad == [is |-> "bad"]

(* Short walks: every pair of day fields. *)
DayExprs ==
  {<< <<Value(1)>>, <<Every>>, dom, <<Every>>, dow>> :
     dom \in {<<Every>>, <<Every, Every>>, <<Step(1)>>, <<Step(7)>>, <<Value(1), Value(15)>>, <<Span(30, 40)>>},
     dow \in {<<Every>>, <<Span(1, 5)>>, <<Value(0), Value(7)>>, <<Step(2)>>, <<Span(5, 2)>>}}

(* Long walks: leap days and days that do not exist. *)
YearExprs ==
  {<< <<Every>>, <<Step(2)>>, <<Value(dom)>>, <<Value(2)>>, <<Every>> >> : dom \in {28, 29, 30}}

(* Expressions that are refused. *)
BadExprs ==
  {<< <<Every>>, <<Every>>, <<Every>>, <<Every>> >>,
   << <<Step(0)>>, <<Every>>, <<Every>>, <<Every>>, <<Every>> >>,
   << <<Every>>, <<Every>>, <<Value(32)>>, <<Every>>, <<Every>> >>,
   << <<Every>>, <<Every>>, <<Every>>, <<Value(1), Bad>>, <<Every>> >>}

AllExprs == DayExprs \cup YearExprs \cup BadExprs

(* 2024-02-28, 2024-03-01, 2026-05-08, 2026-12-31, 2096-03-01; at midnight,  *)
(* half a minute later, and in the middle of the last minute but one of the *)
(* day.                                                                     *)
AllStarts ==
  {2 * day * MinutesPerDay + half :
     day \in {19781, 19783, 20581, 20818, 46081}, half \in {0, 1, 5}}
=============================================================================
