--------------------------------- MODULE Llm ---------------------------------
(***************************************************************************)
(* One call of the LLM integration (crates/hwhkit-integration-llm/src):    *)
(* the handle picks a backend by the model's prefix, the backend builds    *)
(* the request and sends it, and a streaming answer is pumped from the     *)
(* HTTP body into a bounded channel while the caller reads or drops it.    *)
(*                                                                         *)
(* The body of a stream is a sequence of events.  On the wire an event is  *)
(* a character, of one or two bytes, and the line ends that close it; the  *)
(* network cuts the bytes into chunks anywhere.                            *)
(***************************************************************************)
EXTENDS Integers, Sequences, FiniteSets, FiniteSetsExt, SequencesExt

CONSTANTS
  Backends,      (* the keys of the backends that are configured             *)
  Calls,         (* the calls an application makes: [op, model, input]       *)
  DefaultModel,  (* default_chat_model and default_embedding_model           *)
  Streams,       (* the event sequences a server may stream                  *)
  Cap            (* the capacity of the channel, 64 in the code              *)

ASSUME CapAssumption == Cap \in Nat \ {0}

VARIABLES
  call,      (* the caller's request                                         *)
  phase,     (* "resolve", "send", "body", "returned"                        *)
  request,   (* what is sent to the backend                                  *)
  result,    (* what the call returns: "none" until then                     *)
  events,    (* the stream the server sends                                  *)
  incoming,  (* its bytes that are still to come                             *)
  buf,       (* pump_sse's buffer                                            *)
  lines,     (* the lines of the event at hand that are still to be handled  *)
  out,       (* the chunks of the line at hand that are still to be sent     *)
  pump,      (* "off", "reading", "failing", "gone"                          *)
  chan, consumer, got  (* the channel, the caller's end of it, what it read  *)

handle == <<call, phase, request, result>>
body == <<events, incoming, buf>>
channel == <<chan, consumer, got>>
vars == <<handle, body, lines, out, pump, channel>>

-----------------------------------------------------------------------------
(* Resolving the model and building the request. *)

(* A model id is the sequence of its parts between slashes. *)
split_model(full) == [prefix |-> Head(full), name |-> Tail(full)]
HasPrefix(full) == Len(full) >= 2

(* The caller's model is an option: <<>> or <<id>>. *)
Model(c) == IF c.model = <<>> THEN DefaultModel[c.op] ELSE c.model[1]

(* resolve_chat, resolve_embed, and the checks of embed around it. *)
ResolveError(c) ==
  CASE c.op = "embed" /\ c.input = <<>> -> "InvalidRequest"
    [] Model(c) = <<>> \/ ~HasPrefix(Model(c)) -> "InvalidRequest"
    [] split_model(Model(c)).prefix \notin Backends -> "UnknownProvider"
    [] c.op = "embed" /\ split_model(Model(c)).prefix = "anthropic" -> "InvalidRequest"
    [] OTHER -> "none"

(* Seeded fault: the last system prompt replaces the ones before it. *)
LastSystem(messages) ==
  LET isSystem(m) == m.role = "system" IN
  [system |-> IF \E i \in DOMAIN messages : isSystem(messages[i])
              THEN <<Last(SelectSeq(messages, isSystem)).content>> ELSE <<>>,
   messages |-> SelectSeq(messages, LAMBDA m : ~isSystem(m))]

(* Anthropic takes the system prompts, joined in order, apart from the     *)
(* turns, and knows a tool's message as the user's.                        *)
split_system(messages) ==
  FoldLeft(LAMBDA acc, m :
             IF m.role = "system" THEN [acc EXCEPT !.system = Append(@, m.content)]
             ELSE [acc EXCEPT !.messages =
                     Append(@, [m EXCEPT !.role = IF @ = "assistant" THEN @ ELSE "user"])],
           [system |-> <<>>, messages |-> <<>>], messages)

build_request(backend, messages) ==
  IF backend = "anthropic" THEN split_system(messages)
  ELSE [system |-> <<>>, messages |-> messages]

-----------------------------------------------------------------------------
(* The bytes of a stream, and what the pump makes of them. *)

Unit(i, at) == [event |-> i, at |-> at]

(* An event with its line ends: LF LF, or CR LF CR LF, which holds no LF LF *)
(* but ends lines all the same.                                             *)
Bytes(i, e) ==
  (IF e.wide THEN <<Unit(i, "lead"), Unit(i, "trail")>> ELSE <<Unit(i, "ascii")>>)
    \o (IF e.crlf THEN <<Unit(i, "crlf")>> ELSE <<Unit(i, "lf"), Unit(i, "lf")>>)

Wire(es) == FlattenSeq([i \in DOMAIN es |-> Bytes(i, es[i])])

(* from_utf8_lossy on a chunk: a character that the chunk cuts is replaced. *)
Decoded(chunk) ==
  [i \in DOMAIN chunk |->
     IF \/ chunk[i].at = "lead" /\ i = Len(chunk)
        \/ chunk[i].at = "trail" /\ i = 1
     THEN Unit(chunk[i].event, "replaced") ELSE chunk[i]]

(* The first "\n\n" of the buffer, if there is one. *)
Ends(b) == {i \in 2..Len(b) : b[i].at = "lf" /\ b[i - 1] = b[i]}
HasEvent(b) == Ends(b) # {}

(* Seeded fault: the buffer is cleared after an event. *)
RestCleared(b) == <<>>

Rest(b) == SubSeq(b, Min(Ends(b)) + 1, Len(b))

(* The lines of an event: which event of the stream each is, and whether    *)
(* its character came through.                                              *)
LinesOf(b) ==
  LET part == SubSeq(b, 1, Min(Ends(b)))
      ids == {part[i].event : i \in DOMAIN part}
  IN [k \in 1..Cardinality(ids) |->
        LET i == Min(ids) + k - 1 IN
        [event |-> i, garbled |-> \E j \in DOMAIN part : part[j] = Unit(i, "replaced")]]

Text(line) == [chunk |-> "text", event |-> line.event, garbled |-> line.garbled]
Done(line) == [chunk |-> "done", event |-> line.event, garbled |-> FALSE]
Err == [chunk |-> "error", event |-> 0, garbled |-> FALSE]

(* The chunks of a line.  Lines without data, with bad JSON or of another   *)
(* type give none; an OpenAI choice may carry text and a finish reason.     *)
ChunksOf(line) ==
  CASE events[line.event].kind = "text" -> <<Text(line)>>
    [] events[line.event].kind = "finish" -> <<Done(line)>>
    [] events[line.event].kind = "text and finish" -> <<Text(line), Done(line)>>
    [] OTHER -> <<>>

-----------------------------------------------------------------------------

Init ==
  /\ call \in Calls /\ events \in Streams
  /\ \A i \in DOMAIN events :
       events[i].kind = "text and finish" => HasPrefix(Model(call)) /\ Model(call)[1] # "anthropic"
  /\ phase = "resolve" /\ request = [system |-> <<>>, messages |-> <<>>] /\ result = "none"
  /\ incoming = Wire(events) /\ buf = <<>> /\ lines = <<>> /\ out = <<>>
  /\ pump = "off" /\ chan = <<>> /\ consumer = "none" /\ got = <<>>

Return(r) == phase' = "returned" /\ result' = r

Resolve ==
  /\ phase = "resolve"
  /\ IF ResolveError(call) # "none" THEN Return(ResolveError(call)) /\ UNCHANGED request
     ELSE /\ phase' = "send" /\ UNCHANGED result
          /\ request' = build_request(split_model(Model(call)).prefix, call.input)
  /\ UNCHANGED <<call, body, lines, out, pump, channel>>

(* send() fails, or a status that is not 2xx comes back with a body.  The   *)
(* body is cut at 1024 bytes: truncate panics inside a character.           *)
Refused ==
  /\ phase = "send"
  /\ \E r \in {"Timeout", "Transport", "BadStatus", "panic"} : Return(r)
  /\ UNCHANGED <<call, request, body, lines, out, pump, channel>>

(* A 2xx status.  A stream's receiver is returned while the pump, a task of *)
(* its own, goes on; the other calls read the whole body.                   *)
Accepted ==
  /\ phase = "send"
  /\ IF call.op = "chat_stream"
     THEN Return("ok") /\ pump' = "reading" /\ consumer' = "reading"
     ELSE phase' = "body" /\ UNCHANGED <<result, pump, consumer>>
  /\ UNCHANGED <<call, request, body, lines, out, chan, got>>

(* json(): every failure, a timeout too, is a Decode error, and so is an    *)
(* answer without choices.                                                  *)
Answered ==
  /\ phase = "body"
  /\ \E r \in {"ok", "Decode"} : Return(r)
  /\ UNCHANGED <<call, request, body, lines, out, pump, channel>>

Idle == pump = "reading" /\ lines = <<>> /\ out = <<>>

(* Seeded fault: one event is taken of each chunk. *)
AwaitsAnyway(b) == TRUE

(* The inner loop takes all events before the next chunk is awaited. *)
Awaits(b) == ~HasEvent(b)

(* stream.next() yields a chunk. *)
Chunk ==
  /\ Idle /\ Awaits(buf) /\ incoming # <<>>
  /\ \E n \in 1..Len(incoming) :
       /\ buf' = buf \o Decoded(SubSeq(incoming, 1, n))
       /\ incoming' = SubSeq(incoming, n + 1, Len(incoming))
  /\ UNCHANGED <<handle, events, lines, out, pump, channel>>

(* The first event is drained from the buffer. *)
Event ==
  /\ Idle /\ HasEvent(buf)
  /\ lines' = LinesOf(buf) /\ buf' = Rest(buf)
  /\ UNCHANGED <<handle, events, incoming, out, pump, channel>>

(* The next line of the event; "[DONE]" ends the pump. *)
Line ==
  /\ pump = "reading" /\ out = <<>> /\ lines # <<>>
  /\ IF events[Head(lines).event].kind = "[DONE]"
     THEN pump' = "gone" /\ lines' = <<>> /\ UNCHANGED out
     ELSE out' = ChunksOf(Head(lines)) /\ lines' = Tail(lines) /\ UNCHANGED pump
  /\ UNCHANGED <<handle, body, channel>>

(* tx.send: there is room. *)
Send ==
  /\ pump = "reading" /\ out # <<>> /\ consumer = "reading" /\ Len(chan) < Cap
  /\ chan' = Append(chan, Head(out)) /\ out' = Tail(out)
  /\ UNCHANGED <<handle, body, lines, pump, consumer, got>>

(* tx.send: the receiver is dropped.  The loss of a text ends the pump, the *)
(* loss of a finish reason does not.                                        *)
SendFails ==
  /\ pump = "reading" /\ out # <<>> /\ consumer = "dropped"
  /\ IF Head(out).chunk = "text"
     THEN pump' = "gone" /\ out' = <<>> /\ lines' = <<>>
     ELSE out' = Tail(out) /\ UNCHANGED <<pump, lines>>
  /\ UNCHANGED <<handle, body, channel>>

(* The body is over. *)
BodyEnds ==
  /\ Idle /\ Awaits(buf) /\ incoming = <<>>
  /\ pump' = "gone"
  /\ UNCHANGED <<handle, body, lines, out, channel>>

(* Seeded fault: the client has no timeout. *)
NeverFails == FALSE

(* The client's op_timeout runs until the body has been read, and the       *)
(* connection may break.                                                    *)
BodyFails ==
  /\ Idle /\ Awaits(buf)
  /\ pump' = "failing"
  /\ UNCHANGED <<handle, body, lines, out, channel>>

(* The task sends the error; without a receiver it is lost. *)
SendError ==
  /\ pump = "failing" /\ (consumer = "dropped" \/ Len(chan) < Cap)
  /\ pump' = "gone"
  /\ chan' = IF consumer = "dropped" THEN chan ELSE Append(chan, Err)
  /\ UNCHANGED <<handle, body, lines, out, consumer, got>>

(* The caller: recv(), or the receiver is dropped with what is in it. *)
Recv ==
  /\ consumer = "reading" /\ chan # <<>>
  /\ got' = Append(got, Head(chan)) /\ chan' = Tail(chan)
  /\ UNCHANGED <<handle, body, lines, out, pump, consumer>>

DropReceiver ==
  /\ consumer = "reading"
  /\ consumer' = "dropped" /\ chan' = <<>>
  /\ UNCHANGED <<handle, body, lines, out, pump, got>>

PumpStep == Event \/ Line \/ Send \/ SendFails \/ BodyEnds \/ SendError

Next ==
  Resolve \/ Refused \/ Accepted \/ Answered \/ Chunk \/ BodyFails \/ PumpStep \/ Recv \/ DropReceiver

(* The pump is a task that runs when it can, the op_timeout ends a body     *)
(* that stalls, and the caller reads what is there or drops the receiver.   *)
Fairness == WF_vars(PumpStep) /\ WF_vars(BodyFails) /\ WF_vars(Recv)

Spec == Init /\ [][Next]_vars /\ Fairness

-----------------------------------------------------------------------------

(* Every message reaches the backend once, and the turns and the system     *)
(* prompts each keep their order, whichever backend it is.                  *)
EveryMessageIsSent ==
  phase = "body" \/ pump # "off" =>
    LET system == SelectSeq(call.input, LAMBDA m : m.role = "system")
        turns == SelectSeq(call.input, LAMBDA m : m.role # "system")
        Contents(s) == [i \in DOMAIN s |-> s[i].content]
    IN IF request.messages = call.input THEN request.system = <<>>
       ELSE request.system = Contents(system) /\ Contents(request.messages) = Contents(turns)

(* The chunks the events up to the n-th stand for. *)
Meaning(n) ==
  FlattenSeq([i \in 1..n |-> ChunksOf([event |-> i, garbled |-> FALSE])])
Clear(s) == [i \in DOMAIN s |-> [s[i] EXCEPT !.garbled = FALSE]]
Delivered == SelectSeq(got \o chan, LAMBDA c : c # Err)

(* "Yields content deltas as they arrive" (lib.rs:82): however the network  *)
(* cuts the stream and however slow the caller is, it is given the chunks   *)
(* of the stream in order, none twice and none left out, and an error is    *)
(* the last thing it is given.                                              *)
DeliveredInOrder ==
  /\ IsPrefix(Clear(Delivered), Meaning(Len(events)))
  /\ \A i \in 1..(Len(got \o chan) - 1) : (got \o chan)[i] # Err

(* The events before "[DONE]" up to the last that ends in an empty line.    *)
Complete ==
  LET before == {i \in 1..Len(events) : \A j \in 1..i : events[j].kind # "[DONE]"}
      closed == {i \in 1..Len(events) : ~events[i].crlf}
  IN Cardinality({i \in before : \E j \in closed : j >= i})

(* A stream that closes without an error was delivered whole, up to the     *)
(* last event that ends in LF LF: what follows it, and a stream whose lines *)
(* all end in CR LF, is silently dropped (anthropic.rs:236,                 *)
(* openai_compat.rs:294).                                                   *)
ClosedIsComplete ==
  pump = "gone" /\ consumer = "reading" /\ Err \notin ToSet(got \o chan) =>
    Clear(got \o chan) = Meaning(Complete)

(* The pump's task does not outlive its use: it ends, whether the caller    *)
(* reads to the end, drops the receiver or the server stalls.               *)
PumpEnds == pump = "reading" ~> pump = "gone"
=============================================================================
