---------------------------- MODULE ProviderChain ---------------------------
(***************************************************************************)
(* What bootstrap_with and drain_providers promise the integration         *)
(* providers: each one's turn comes once, in the order of the chain; those *)
(* that came up are shut down one at a time, the last one first, once the  *)
(* server was asked to stop and has stopped; and when boot fails or the    *)
(* process is killed, none of them is shut down any more.                  *)
(*                                                                         *)
(* There is no configuration here, no upstream, no server and no clock.    *)
(***************************************************************************)
EXTENDS Naturals, Sequences

CONSTANT Integration

VARIABLES
  todo,     (* the providers whose turn is yet to come                       *)
  up,       (* those that came up and were not shut down, in init order      *)
  closing,  (* the one whose shutdown hook runs: <<>> or <<k>>               *)
  asked,    (* somebody asked the server to stop                             *)
  stage     (* "open", "closing", "ended", "abandoned"                       *)

vars == <<todo, up, closing, asked, stage>>

Init ==
  /\ todo \in Seq(Integration) /\ up = <<>> /\ closing = <<>>
  /\ asked \in BOOLEAN /\ stage = "open"

BringUp ==
  /\ stage = "open" /\ todo # <<>>
  /\ up' = Append(up, Head(todo)) /\ todo' = Tail(todo)
  /\ UNCHANGED <<closing, asked, stage>>

(* It is disabled, or optional and its init fails. *)
PassOver ==
  /\ stage = "open" /\ todo # <<>>
  /\ todo' = Tail(todo)
  /\ UNCHANGED <<up, closing, asked, stage>>

Ask ==
  /\ asked' = TRUE
  /\ UNCHANGED <<todo, up, closing, stage>>

StopServing ==
  /\ stage = "open" /\ todo = <<>> /\ asked
  /\ stage' = "closing"
  /\ UNCHANGED <<todo, up, closing, asked>>

CloseBegins ==
  /\ stage = "closing" /\ closing = <<>> /\ up # <<>>
  /\ closing' = <<up[Len(up)]>>
  /\ UNCHANGED <<todo, up, asked, stage>>

CloseEnds ==
  /\ stage = "closing" /\ closing # <<>>
  /\ up' = SubSeq(up, 1, Len(up) - 1) /\ closing' = <<>>
  /\ UNCHANGED <<todo, asked, stage>>

End ==
  /\ stage = "closing" /\ closing = <<>> /\ up = <<>>
  /\ stage' = "ended"
  /\ UNCHANGED <<todo, up, closing, asked>>

Abandon ==
  /\ stage \in {"open", "closing"}
  /\ stage' = "abandoned" /\ todo' = <<>> /\ up' = <<>> /\ closing' = <<>>
  /\ UNCHANGED asked

Next ==
  \/ BringUp \/ PassOver \/ Ask \/ StopServing \/ CloseBegins \/ CloseEnds \/ End \/ Abandon

Spec == Init /\ [][Next]_vars
=============================================================================
