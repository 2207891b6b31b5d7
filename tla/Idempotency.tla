---------------------------- MODULE Idempotency -----------------------------
(***************************************************************************)
(* The idempotency layer of crates/hwhkit/src/production/idempotency.rs:   *)
(* Idempotency::call run by several requests against one Redis.            *)
(*                                                                         *)
(* A step ends at an await: reading the body, GET, the inner handler,      *)
(* reading the response, SET EX.  Nothing spans GET and SET, and the       *)
(* request's future may be dropped at any await.                           *)
(***************************************************************************)
EXTENDS Integers, Sequences

CONSTANTS
  Request,    (* the requests                                                *)
  Tenant,     (* tenant ids, as sequences of segments between colons         *)
  ClientKey,  (* Idempotency-Key values, likewise                            *)
  Operation,  (* what is fingerprinted: method, path and body                *)
  Ttl,        (* how long a cached response lives: max(ttl, 1s)              *)
  MaxTime,    (* bound: the last instant of the clock                        *)
  MaxFaults,  (* bound: how many failures happen in all                      *)
  None        (* Option::None                                                *)

(* The text between two colons; "t" is the tag of a tenant's prefix. *)
Segment == STRING \cup {"t"}

ASSUME IdempotencyAssumption ==
  /\ Ttl \in Nat \ {0} /\ MaxTime \in Nat /\ MaxFaults \in Nat
  /\ None \notin Nat /\ None \notin Tenant /\ None \notin ClientKey
  /\ None \notin Request /\ None \notin Operation
  /\ \A x \in Tenant \cup ClientKey : x \in Seq(Segment)

VARIABLES
  now,     (* the clock of Redis                                             *)
  redis,   (* what Redis holds under each key                                *)
  req,     (* each request: what it asks for and how far call() got          *)
  faults   (* how many failures happened, for the bound                      *)

vars == <<now, redis, req, faults>>

(* The parts of a request the layer looks at.  key is None when there is no *)
(* usable header, or when the verb does not mutate.                         *)
Input == [tenant : Tenant \cup {None}, key : ClientKey \cup {None}, op : Operation]

(* Seeded fault: the tenant is left out of the key. *)
RedisKeyUnprefixed(i) == i.key

(* format!("{}:{}{}"): the namespace is the same for all and left out.      *)
RedisKey(i) == IF i.tenant = None THEN i.key ELSE <<"t">> \o i.tenant \o i.key

RedisKeys == {RedisKey(i) : i \in {j \in Input : j.key # None}}

(* fingerprint_request: SHA-256, taken to tell operations apart. *)
Fingerprint(i) == i.op

(* What a key holds: a CachedResponse, named by the request whose handler   *)
(* made it; a value that does not parse; or nothing.                        *)
CachedResponse == [kind : {"response"}, of : Request, fingerprint : Operation, until : Nat]
Nothing == [kind |-> "none"]
Garbage == [kind |-> "garbage"]

Stage == {"new", "reading", "lookup", "handler", "buffering", "storing", "done", "gone"}
Answer == {"none", "own", "replay", "conflict", "bad_gateway", "empty"}

(* input, stage and answer, and history: of whom the answer is; whether the *)
(* handler ran; whether the GET failed; when the response got into Redis;   *)
(* when the GET was made; and which responses were in Redis when the        *)
(* request came in.                                                         *)
RequestState == [input : Input, stage : Stage, answer : Answer, of : Request \cup {None},
                 ran : BOOLEAN, blind : BOOLEAN, stored : Nat \cup {None},
                 looked : Nat, prior : SUBSET Request]

-----------------------------------------------------------------------------

Init ==
  /\ now = 0
  /\ redis \in [RedisKeys -> {Nothing, Garbage}]
  /\ req \in [Request -> {[input |-> i, stage |-> "new", answer |-> "none", of |-> None,
                           ran |-> FALSE, blind |-> FALSE, stored |-> None,
                           looked |-> 0, prior |-> {}] : i \in Input}]
  /\ faults = 0

Key(r) == RedisKey(req[r].input)

Fault == faults < MaxFaults /\ faults' = faults + 1

At(r, stage) == req[r].stage = stage

(* Requests whose response is in Redis, or was until it expired. *)
StoredSoFar == {s \in Request : req[s].stored # None}

Become(r, v) == req' = [req EXCEPT ![r] = v]

(* A request with a key comes in: its body is read first. *)
Arrive(r) ==
  /\ At(r, "new") /\ req[r].input.key # None
  /\ Become(r, [req[r] EXCEPT !.stage = "reading", !.prior = StoredSoFar])
  /\ UNCHANGED <<now, redis, faults>>

(* Any other request goes straight to the handler, and its response back. *)
PassThrough(r) ==
  /\ At(r, "new") /\ req[r].input.key = None
  /\ Become(r, [req[r] EXCEPT !.stage = "done", !.answer = "own", !.of = r, !.ran = TRUE])
  /\ UNCHANGED <<now, redis, faults>>

ReadBody(r) ==
  /\ At(r, "reading")
  /\ Become(r, [req[r] EXCEPT !.stage = "lookup"])
  /\ UNCHANGED <<now, redis, faults>>

ReadBodyFails(r) ==
  /\ At(r, "reading") /\ Fault
  /\ Become(r, [req[r] EXCEPT !.stage = "done", !.answer = "bad_gateway"])
  /\ UNCHANGED <<now, redis>>

(* What GET returns: expired entries are gone. *)
Found(k) == IF redis[k].kind = "response" /\ now >= redis[k].until THEN Nothing ELSE redis[k]

(* GET finds nothing, or a value that does not parse. *)
Miss(r) ==
  /\ At(r, "lookup") /\ Found(Key(r)).kind # "response"
  /\ Become(r, [req[r] EXCEPT !.stage = "handler", !.looked = now])
  /\ UNCHANGED <<now, redis, faults>>

(* Seeded fault: the fingerprint is not compared. *)
VerdictAlwaysReplay(r) == "replay"

Verdict(r) ==
  IF redis[Key(r)].fingerprint = Fingerprint(req[r].input) THEN "replay" ELSE "conflict"

(* GET finds a response: replay it, or answer 409 on another fingerprint. *)
Hit(r) ==
  /\ At(r, "lookup") /\ Found(Key(r)).kind = "response"
  /\ Become(r, [req[r] EXCEPT !.stage = "done", !.looked = now,
                              !.of = redis[Key(r)].of, !.answer = Verdict(r)])
  /\ UNCHANGED <<now, redis, faults>>

(* GET fails: unwrap_or(None) makes it a miss. *)
LookupFails(r) ==
  /\ At(r, "lookup") /\ Fault
  /\ Become(r, [req[r] EXCEPT !.stage = "handler", !.looked = now, !.blind = TRUE])
  /\ UNCHANGED <<now, redis>>

(* inner.call: whatever the request asks for is done. *)
RunHandler(r) ==
  /\ At(r, "handler")
  /\ Become(r, [req[r] EXCEPT !.stage = "buffering", !.ran = TRUE])
  /\ UNCHANGED <<now, redis, faults>>

Buffer(r) ==
  /\ At(r, "buffering")
  /\ Become(r, [req[r] EXCEPT !.stage = "storing"])
  /\ UNCHANGED <<now, redis, faults>>

(* The body of the response breaks off: an empty one is sent, none is kept. *)
BufferFails(r) ==
  /\ At(r, "buffering") /\ Fault
  /\ Become(r, [req[r] EXCEPT !.stage = "done", !.answer = "empty", !.of = r])
  /\ UNCHANGED <<now, redis>>

(* Seeded fault: SETNX, which leaves a value that does not parse in place. *)
SetIfAbsent(r) ==
  redis' = [redis EXCEPT ![Key(r)] =
              IF Found(Key(r)).kind # "none" THEN @
              ELSE [kind |-> "response", of |-> r,
                    fingerprint |-> Fingerprint(req[r].input), until |-> now + Ttl]]

(* SET EX of the response, whatever is there by now. *)
Set(r) ==
  redis' = [redis EXCEPT ![Key(r)] =
              [kind |-> "response", of |-> r,
               fingerprint |-> Fingerprint(req[r].input), until |-> now + Ttl]]

Store(r) ==
  /\ At(r, "storing")
  /\ Set(r)
  /\ Become(r, [req[r] EXCEPT !.stage = "done", !.answer = "own", !.of = r, !.stored = now])
  /\ UNCHANGED <<now, faults>>

(* SET fails, which is ignored; its reply may be all that was lost. *)
StoreFails(r) ==
  /\ At(r, "storing") /\ Fault
  /\ \/ /\ Set(r)
        /\ Become(r, [req[r] EXCEPT !.stage = "done", !.answer = "own", !.of = r,
                                    !.stored = now])
     \/ /\ redis' = redis
        /\ Become(r, [req[r] EXCEPT !.stage = "done", !.answer = "own", !.of = r])
  /\ UNCHANGED now

(* The client goes away and the future is dropped at its await; a SET that  *)
(* was already sent is still executed.                                      *)
Drop(r) ==
  /\ req[r].stage \notin {"new", "done", "gone"}
  /\ \/ /\ redis' = redis
        /\ \E ran \in IF At(r, "handler") THEN BOOLEAN ELSE {req[r].ran} :
             Become(r, [req[r] EXCEPT !.stage = "gone", !.ran = ran])
     \/ /\ At(r, "storing") /\ Set(r)
        /\ Become(r, [req[r] EXCEPT !.stage = "gone", !.stored = now])
  /\ UNCHANGED <<now, faults>>

Tick ==
  /\ now < MaxTime
  /\ now' = now + 1
  /\ UNCHANGED <<redis, req, faults>>

Call(r) ==
  \/ Arrive(r) \/ PassThrough(r) \/ ReadBody(r) \/ ReadBodyFails(r)
  \/ Miss(r) \/ Hit(r) \/ LookupFails(r) \/ RunHandler(r) \/ Buffer(r) \/ BufferFails(r)
  \/ Store(r) \/ StoreFails(r) \/ Drop(r)

Next == Tick \/ \E r \in Request : Call(r)

Spec == Init /\ [][Next]_vars

-----------------------------------------------------------------------------

(* The types of Redis and of the requests. *)
TypeOK ==
  /\ now \in Nat /\ faults \in Nat
  /\ redis \in [RedisKeys -> CachedResponse \cup {Nothing, Garbage}]
  /\ req \in [Request -> RequestState]

(* "Replays are required to match this fingerprint exactly" (lines 115-116):*)
(* a replayed response was made by a completed run of the handler for the   *)
(* same operation under the same Redis key, and a 409 is given only because *)
(* another operation ran under that key.                                    *)
AnswersAreHonest ==
  \A r \in Request :
    req[r].answer \in {"replay", "conflict"} =>
      \E s \in Request :
        /\ s = req[r].of /\ s # r /\ req[s].ran /\ req[s].stored # None
        /\ Key(s) = Key(r)
        /\ req[r].answer = "replay" <=> req[s].input.op = req[r].input.op

(* "different tenants reusing the same client id never collide" (lines      *)
(* 22-23): the response or conflict a request gets from another request     *)
(* with the same client key comes from its own tenant.                      *)
TenantsApart ==
  \A r, s \in Request :
    /\ req[r].answer \in {"replay", "conflict"} /\ req[r].of = s
    /\ req[s].input.key = req[r].input.key
    => req[s].input.tenant = req[r].input.tenant

(* A retry is not executed again: a request that comes in after the         *)
(* response to another one with its key was stored does not reach the       *)
(* handler, unless its own GET fails or that response has expired.  Later   *)
(* responses, late SETs of slower requests and dropped futures do not       *)
(* change that.                                                             *)
NoReExecution ==
  \A r, s \in Request :
    s \in req[r].prior /\ Key(s) = Key(r) /\ req[r].ran /\ ~req[r].blind =>
      req[r].looked >= req[s].stored + Ttl
=============================================================================
