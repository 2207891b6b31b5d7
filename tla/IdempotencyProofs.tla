------------------------- MODULE IdempotencyProofs --------------------------
(***************************************************************************)
(* Proofs about Idempotency, for any number of requests, tenants, keys and *)
(* operations and any TTL.                                                 *)
(***************************************************************************)
EXTENDS Idempotency, SequenceTheorems, TLAPS

(* Only a request with an Idempotency-Key gets past "new", but for the end. *)
KeyInv ==
  \A r \in Request : req[r].stage \in Stage \ {"new", "done"} => req[r].input.key # None

TypeInv == TypeOK /\ KeyInv

(* What GET finds: nothing, a value that does not parse, or a response. *)
LEMMA FoundType ==
  ASSUME TypeInv, NEW r \in Request, At(r, "lookup")
  PROVE  /\ Key(r) \in RedisKeys
         /\ Found(Key(r)).kind = "response" =>
              /\ Found(Key(r)) = redis[Key(r)]
              /\ redis[Key(r)] \in CachedResponse /\ now < redis[Key(r)].until
<1>1. Key(r) \in RedisKeys
  BY DEF TypeInv, TypeOK, KeyInv, RequestState, At, Stage, Key, RedisKeys
<1>2. redis[Key(r)] \in CachedResponse \cup {Nothing, Garbage}
  BY <1>1 DEF TypeInv, TypeOK
<1>3. redis[Key(r)].kind = "response" =>
        redis[Key(r)] \in CachedResponse /\ redis[Key(r)].until \in Nat /\ now \in Nat
  BY <1>2 DEF Nothing, Garbage, CachedResponse, TypeInv, TypeOK
<1> QED BY <1>1, <1>3 DEF Found, Nothing

(* SET EX keeps the types of Redis. *)
LEMMA SetType ==
  ASSUME TypeOK, NEW r \in Request, Set(r)
  PROVE  redis' \in [RedisKeys -> CachedResponse \cup {Nothing, Garbage}]
<1> DEFINE e == [kind |-> "response", of |-> r,
                 fingerprint |-> Fingerprint(req[r].input), until |-> now + Ttl]
<1>1. e \in CachedResponse
  BY IdempotencyAssumption DEF TypeOK, RequestState, Input, Fingerprint, CachedResponse
<1>2. redis' = [redis EXCEPT ![Key(r)] = e]
  BY DEF Set
<1> HIDE DEF e
<1> QED BY <1>1, <1>2 DEF TypeOK

(* One request moves on: the types and KeyInv only depend on its new state. *)
LEMMA BecomeType ==
  ASSUME TypeInv, NEW r \in Request, NEW v \in RequestState, Become(r, v),
         v.stage \in Stage \ {"new", "done"} => v.input.key # None
  PROVE  req' \in [Request -> RequestState] /\ KeyInv'
  BY DEF TypeInv, TypeOK, KeyInv, Become

(* Every step keeps the types of Redis and of the requests. *)
LEMMA TypeStep == TypeInv /\ [Next]_vars => TypeInv'
<1> SUFFICES ASSUME TypeInv, [Next]_vars PROVE TypeInv'
  OBVIOUS
<1>1. CASE Tick
  BY <1>1 DEF Tick, TypeInv, TypeOK, KeyInv
<1>2. ASSUME NEW r \in Request, Call(r) PROVE TypeInv'
  <2> DEFINE q == req[r]
  <2>1. /\ q \in RequestState /\ now \in Nat /\ r \in Request \cup {None}
        /\ q.stage \in Stage \ {"new", "done"} => q.input.key # None
        /\ faults \in Nat /\ StoredSoFar \in SUBSET Request
    BY DEF TypeInv, TypeOK, KeyInv, StoredSoFar
  <2>2. \E v \in RequestState :
          Become(r, v) /\ (v.stage \in Stage \ {"new", "done"} => v.input.key # None)
    <3> USE DEF Stage, Answer, At
    <3>1. CASE Arrive(r)
      <4> DEFINE v == [q EXCEPT !.stage = "reading", !.prior = StoredSoFar]
      <4>1. Become(r, v) /\ q.input.key # None BY <3>1 DEF Arrive
      <4> HIDE DEF q
      <4>2. v \in RequestState /\ v.input = q.input BY <2>1 DEF RequestState
      <4> QED BY <4>1, <4>2
    <3>2. CASE PassThrough(r)
      <4> DEFINE v == [q EXCEPT !.stage = "done", !.answer = "own", !.of = r, !.ran = TRUE]
      <4>1. Become(r, v) BY <3>2 DEF PassThrough
      <4> HIDE DEF q
      <4>2. v \in RequestState /\ v.stage = "done" BY <2>1 DEF RequestState
      <4> QED BY <4>1, <4>2
    <3>3. CASE ReadBody(r)
      <4> DEFINE v == [q EXCEPT !.stage = "lookup"]
      <4>1. Become(r, v) /\ q.stage = "reading" BY <3>3 DEF ReadBody
      <4> HIDE DEF q
      <4>2. v \in RequestState /\ v.input = q.input BY <2>1 DEF RequestState
      <4> QED BY <2>1, <4>1, <4>2
    <3>4. CASE ReadBodyFails(r)
      <4> DEFINE v == [q EXCEPT !.stage = "done", !.answer = "bad_gateway"]
      <4>1. Become(r, v) BY <3>4 DEF ReadBodyFails
      <4> HIDE DEF q
      <4>2. v \in RequestState /\ v.stage = "done" BY <2>1 DEF RequestState
      <4> QED BY <4>1, <4>2
    <3>5. CASE Miss(r) \/ LookupFails(r)
      <4> DEFINE v(b) == [q EXCEPT !.stage = "handler", !.looked = now, !.blind = b]
                 u == [q EXCEPT !.stage = "handler", !.looked = now]
      <4>1. (Become(r, u) \/ Become(r, v(TRUE))) /\ q.stage = "lookup"
        BY <3>5 DEF Miss, LookupFails
      <4> HIDE DEF q
      <4>2. /\ u \in RequestState /\ u.input = q.input
            /\ v(TRUE) \in RequestState /\ v(TRUE).input = q.input
        BY <2>1 DEF RequestState
      <4> QED BY <2>1, <4>1, <4>2
    <3>6. CASE Hit(r)
      <4> DEFINE o == redis[Key(r)].of
                 a == Verdict(r)
                 v == [q EXCEPT !.stage = "done", !.looked = now, !.of = o, !.answer = a]
      <4>1. Become(r, v) /\ q.stage = "lookup" BY <3>6 DEF Hit
      <4>2. o \in Request /\ a \in Answer
        <5>1. redis[Key(r)] \in CachedResponse
          BY <3>6, FoundType DEF Hit
        <5> QED BY <5>1 DEF CachedResponse, Verdict
      <4> HIDE DEF q, o, a
      <4>3. v \in RequestState /\ v.stage = "done" BY <2>1, <4>2 DEF RequestState
      <4> QED BY <4>1, <4>3
    <3>7. CASE RunHandler(r)
      <4> DEFINE v == [q EXCEPT !.stage = "buffering", !.ran = TRUE]
      <4>1. Become(r, v) /\ q.stage = "handler" BY <3>7 DEF RunHandler
      <4> HIDE DEF q
      <4>2. v \in RequestState /\ v.input = q.input BY <2>1 DEF RequestState
      <4> QED BY <2>1, <4>1, <4>2
    <3>8. CASE Buffer(r)
      <4> DEFINE v == [q EXCEPT !.stage = "storing"]
      <4>1. Become(r, v) /\ q.stage = "buffering" BY <3>8 DEF Buffer
      <4> HIDE DEF q
      <4>2. v \in RequestState /\ v.input = q.input BY <2>1 DEF RequestState
      <4> QED BY <2>1, <4>1, <4>2
    <3>9. CASE BufferFails(r)
      <4> DEFINE v == [q EXCEPT !.stage = "done", !.answer = "empty", !.of = r]
      <4>1. Become(r, v) BY <3>9 DEF BufferFails
      <4> HIDE DEF q
      <4>2. v \in RequestState /\ v.stage = "done" BY <2>1 DEF RequestState
      <4> QED BY <4>1, <4>2
    <3>10. CASE Store(r) \/ StoreFails(r)
      <4> DEFINE u == [q EXCEPT !.stage = "done", !.answer = "own", !.of = r]
                 v == [q EXCEPT !.stage = "done", !.answer = "own", !.of = r, !.stored = now]
      <4>1. Become(r, u) \/ Become(r, v) BY <3>10 DEF Store, StoreFails
      <4> HIDE DEF q
      <4>2. /\ u \in RequestState /\ u.stage = "done"
            /\ v \in RequestState /\ v.stage = "done"
        BY <2>1 DEF RequestState
      <4> QED BY <4>1, <4>2
    <3>11. CASE Drop(r)
      <4> DEFINE u(b) == [q EXCEPT !.stage = "gone", !.ran = b]
                 v == [q EXCEPT !.stage = "gone", !.stored = now]
      <4>1. q.ran \in BOOLEAN /\ q.stage \in Stage \ {"new", "done"}
        BY <2>1, <3>11 DEF Drop, RequestState
      <4>2. (\E b \in BOOLEAN : Become(r, u(b))) \/ Become(r, v)
        BY <3>11, <4>1 DEF Drop
      <4> HIDE DEF q
      <4>3. /\ \A b \in BOOLEAN : u(b) \in RequestState /\ u(b).input = q.input
            /\ v \in RequestState /\ v.input = q.input
        BY <2>1 DEF RequestState
      <4> QED BY <2>1, <4>1, <4>2, <4>3
    <3> QED BY <1>2, <3>1, <3>2, <3>3, <3>4, <3>5, <3>6, <3>7, <3>8, <3>9, <3>10, <3>11 DEF Call
  <2>3. req' \in [Request -> RequestState] /\ KeyInv'
    BY <2>2, BecomeType
  <2>4. /\ redis' = redis \/ Set(r)
        /\ now' = now /\ (faults' = faults \/ faults' = faults + 1)
    BY <1>2 DEF Call, Arrive, PassThrough, ReadBody, ReadBodyFails, Miss, Hit, LookupFails,
       RunHandler, Buffer, BufferFails, Store, StoreFails, Drop, Fault
  <2>5. redis' \in [RedisKeys -> CachedResponse \cup {Nothing, Garbage}]
    BY <2>4, SetType DEF TypeInv, TypeOK
  <2> QED BY <2>1, <2>3, <2>4, <2>5 DEF TypeInv, TypeOK
<1>3. CASE UNCHANGED vars
  BY <1>3 DEF vars, TypeInv, TypeOK, KeyInv
<1> QED BY <1>1, <1>2, <1>3 DEF Next

(* Redis and the requests keep their types in every reachable state. *)
LEMMA TypeInvariant == Spec => []TypeInv
<1>1. Init => TypeInv
  <2> SUFFICES ASSUME Init PROVE TypeInv
    OBVIOUS
  <2> DEFINE v(i) == [input |-> i, stage |-> "new", answer |-> "none", of |-> None,
                      ran |-> FALSE, blind |-> FALSE, stored |-> None,
                      looked |-> 0, prior |-> {}]
  <2>1. \A i \in Input : v(i) \in RequestState /\ v(i).stage = "new"
    BY DEF RequestState, Stage, Answer
  <2>2. \A r \in Request : \E i \in Input : req[r] = v(i)
    BY DEF Init
  <2>3. req \in [Request -> {v(i) : i \in Input}]
    BY DEF Init
  <2> HIDE DEF v
  <2>4. req \in [Request -> RequestState] /\ KeyInv
    BY <2>1, <2>2, <2>3 DEF KeyInv
  <2> QED BY <2>4 DEF Init, TypeInv, TypeOK
<1>2. TypeInv /\ [Next]_vars => TypeInv'
  BY TypeStep
<1> QED BY <1>1, <1>2, PTL DEF Spec

(* The part of it that TLC checks. *)
THEOREM TypeCorrect == Spec => []TypeOK
<1>1. TypeInv => TypeOK
  BY DEF TypeInv
<1> QED BY <1>1, TypeInvariant, PTL

-----------------------------------------------------------------------------
(* The inductive invariant behind what the cache promises.                 *)

Ended == {"done", "gone"}

(* The request got past its GET. *)
Past(x) == x.stage \in {"handler", "buffering", "storing"} \/ x.ran

(* What each stage knows: the handler runs between its two neighbours, and  *)
(* an answer from the cache ends the request.                               *)
StageInv ==
  \A r \in Request :
    /\ req[r].stage \in {"buffering", "storing"} => req[r].ran
    /\ req[r].stage \in {"new", "reading", "lookup"} => ~req[r].ran
    /\ req[r].stage = "new" => req[r].prior = {}
    /\ req[r].stage # "done" => req[r].answer \notin {"replay", "conflict"}

(* A response in Redis is that of a finished request under that key. *)
CachedInv ==
  \A k \in RedisKeys :
    redis[k].kind = "response" =>
      /\ req[redis[k].of].stored # None /\ Key(redis[k].of) = k
      /\ redis[k].fingerprint = Fingerprint(req[redis[k].of].input)

(* Once stored, a key keeps a response, and it lasts the TTL at least: a    *)
(* later SET can only move the end.                                         *)
StoredInv ==
  \A s \in Request :
    req[s].stored # None =>
      /\ req[s].stored \in Nat /\ req[s].stored <= now
      /\ req[s].stage \in Ended /\ req[s].ran /\ req[s].input.key # None
      /\ redis[Key(s)].kind = "response" /\ redis[Key(s)].until >= req[s].stored + Ttl

(* A request that found nothing came too late for what was stored before.   *)
PriorInv ==
  \A r \in Request : \A s \in req[r].prior :
    /\ req[s].stored # None
    /\ Key(s) = Key(r) /\ Past(req[r]) /\ ~req[r].blind =>
         req[r].looked >= req[s].stored + Ttl

CacheInv == StageInv /\ CachedInv /\ StoredInv /\ PriorInv

(* What any step of call() does to its request and to Redis. *)
LEMMA CallShape ==
  ASSUME TypeInv, StageInv, NEW r \in Request, Call(r)
  PROVE  /\ now' = now /\ req[r].stage \notin Ended
         /\ \A s \in Request \ {r} : req'[s] = req[s]
         /\ req'[r].input = req[r].input
         /\ \/ redis' = redis /\ req'[r].stored = req[r].stored
            \/ /\ Set(r) /\ req'[r].stored = now /\ req[r].stage = "storing"
               /\ req'[r].stage \in Ended /\ req'[r].ran
         /\ \/ req'[r].prior = req[r].prior
            \/ req[r].stage = "new" /\ req'[r].prior = StoredSoFar /\ ~Past(req'[r])
         /\ req'[r].stage \in {"buffering", "storing"} => req'[r].ran
         /\ req'[r].stage \in {"new", "reading", "lookup"} => ~req'[r].ran
         /\ req'[r].stage # "new"
         /\ req'[r].answer \in {"replay", "conflict"} => Hit(r) /\ req'[r].stage = "done"
         /\ Past(req'[r]) /\ ~req'[r].blind =>
              \/ Miss(r) /\ req'[r].looked = now
              \/ req[r].stage = "new" /\ req'[r].prior = {}
              \/ Past(req[r]) /\ ~req[r].blind /\ req'[r].looked = req[r].looked
<1> DEFINE q == req[r]
<1>1. /\ q \in RequestState /\ req \in [Request -> RequestState]
      /\ q.stage \in {"buffering", "storing"} => q.ran
      /\ q.stage \in {"new", "reading", "lookup"} => ~q.ran
      /\ q.stage = "new" => q.prior = {}
      /\ q.stage # "done" => q.answer \notin {"replay", "conflict"}
  BY DEF TypeInv, TypeOK, StageInv
<1> USE DEF RequestState, Ended, Past, At, Become
<1>2. CASE Arrive(r) BY <1>1, <1>2 DEF Arrive
<1>3. CASE PassThrough(r) BY <1>1, <1>3 DEF PassThrough
<1>4. CASE ReadBody(r) BY <1>1, <1>4 DEF ReadBody
<1>5. CASE ReadBodyFails(r) BY <1>1, <1>5 DEF ReadBodyFails
<1>6. CASE Miss(r) BY <1>1, <1>6 DEF Miss
<1>7. CASE Hit(r) BY <1>1, <1>7 DEF Hit
<1>8. CASE LookupFails(r) BY <1>1, <1>8 DEF LookupFails
<1>9. CASE RunHandler(r) BY <1>1, <1>9 DEF RunHandler
<1>10. CASE Buffer(r) BY <1>1, <1>10 DEF Buffer
<1>11. CASE BufferFails(r) BY <1>1, <1>11 DEF BufferFails
<1>12. CASE Store(r) BY <1>1, <1>12 DEF Store
<1>13. CASE StoreFails(r)
  <2> DEFINE u == [q EXCEPT !.stage = "done", !.answer = "own", !.of = r]
             v == [q EXCEPT !.stage = "done", !.answer = "own", !.of = r, !.stored = now]
  <2>1. q.stage = "storing" /\ now' = now
    BY <1>13 DEF StoreFails
  <2>2. CASE Set(r) /\ Become(r, v) BY <1>1, <2>1, <2>2
  <2>3. CASE redis' = redis /\ Become(r, u) BY <1>1, <2>1, <2>3
  <2> QED BY <1>13, <2>2, <2>3 DEF StoreFails
<1>14. CASE Drop(r)
  <2> DEFINE u(b) == [q EXCEPT !.stage = "gone", !.ran = b]
             v == [q EXCEPT !.stage = "gone", !.stored = now]
  <2>1. q.stage \notin {"new", "done", "gone"} /\ now' = now
    BY <1>14 DEF Drop
  <2>2. CASE q.stage = "storing" /\ Set(r) /\ Become(r, v) BY <1>1, <2>2, <2>1
  <2> DEFINE Unstored == /\ redis' = redis /\ (Past(req'[r]) => Past(q))
                         /\ req'[r].input = q.input /\ req'[r].stored = q.stored
                         /\ req'[r].prior = q.prior /\ req'[r].stage = "gone"
                         /\ req'[r].answer = q.answer /\ req'[r].blind = q.blind
                         /\ req'[r].looked = q.looked
                         /\ \A s \in Request \ {r} : req'[s] = req[s]
  <2>3. ASSUME NEW b \in BOOLEAN, redis' = redis, Become(r, u(b)),
               q.stage = "handler" \/ b = q.ran
        PROVE  Unstored
    <3>1. /\ req'[r].input = q.input /\ req'[r].stored = q.stored
          /\ req'[r].prior = q.prior /\ req'[r].stage = "gone"
          /\ req'[r].answer = q.answer /\ req'[r].blind = q.blind
          /\ req'[r].looked = q.looked /\ req'[r].ran = b
          /\ \A s \in Request \ {r} : req'[s] = req[s]
      BY <1>1, <2>3
    <3>2. Past(req'[r]) => Past(q)
      BY <2>3, <3>1
    <3> QED BY <2>3, <3>1, <3>2
  <2>4. (q.stage = "storing" /\ Set(r) /\ Become(r, v)) \/ Unstored
    <3> HIDE DEF Unstored
    <3> QED BY <1>1, <1>14, <2>3 DEF Drop
  <2>5. CASE Unstored
    BY <1>1, <2>1, <2>5
  <2> QED BY <2>2, <2>4, <2>5
<1> QED BY <1>2, <1>3, <1>4, <1>5, <1>6, <1>7, <1>8, <1>9, <1>10, <1>11, <1>12, <1>13, <1>14
       DEF Call

(* Every step of a request keeps the invariant. *)
LEMMA CacheCall ==
  ASSUME TypeInv, TypeInv', CacheInv, NEW r \in Request, Call(r)
  PROVE  CacheInv'
<1> USE DEF CacheInv
<1>1. /\ now' = now /\ req[r].stage \notin Ended
      /\ \A s \in Request \ {r} : req'[s] = req[s]
      /\ \A s \in Request : req'[s].input = req[s].input
      /\ \/ redis' = redis /\ req'[r].stored = req[r].stored
         \/ /\ Set(r) /\ req'[r].stored = now /\ req[r].stage = "storing"
            /\ req'[r].stage \in Ended /\ req'[r].ran
      /\ \/ req'[r].prior = req[r].prior
         \/ req[r].stage = "new" /\ req'[r].prior = StoredSoFar /\ ~Past(req'[r])
      /\ Past(req'[r]) /\ ~req'[r].blind =>
           \/ Miss(r) /\ req'[r].looked = now
           \/ req[r].stage = "new" /\ req'[r].prior = {}
           \/ Past(req[r]) /\ ~req[r].blind /\ req'[r].looked = req[r].looked
  BY CallShape
<1>2. \A s \in Request : Key(s)' = Key(s)
  BY <1>1 DEF Key
<1>3. req[r].stored = None
  BY <1>1 DEF StoredInv
<1>4. StageInv'
  BY CallShape DEF StageInv
<1>5. \A s \in Request : req[s].stored # None => req'[s] = req[s]
  BY <1>1, <1>3
<1>6. ASSUME Set(r), req'[r].stored = now, req[r].stage = "storing"
      PROVE  /\ Key(r) \in RedisKeys /\ req[r].input.key # None
             /\ redis'[Key(r)].kind = "response" /\ redis'[Key(r)].of = r
             /\ redis'[Key(r)].fingerprint = Fingerprint(req[r].input)
             /\ redis'[Key(r)].until = now + Ttl
             /\ \A k \in RedisKeys \ {Key(r)} : redis'[k] = redis[k]
  <2>1. Key(r) \in RedisKeys /\ req[r].input.key # None
    BY <1>6 DEF TypeInv, TypeOK, KeyInv, RequestState, Stage, Key, RedisKeys
  <2> QED BY <1>6, <2>1 DEF Set, TypeInv, TypeOK
<1>7. CachedInv'
  <2> SUFFICES ASSUME NEW k \in RedisKeys, redis'[k].kind = "response"
               PROVE  LET s == redis'[k].of
                      IN  /\ req'[s].stored # None /\ RedisKey(req'[s].input) = k
                          /\ redis'[k].fingerprint = Fingerprint(req'[s].input)
    BY DEF CachedInv, Key
  <2>1. CASE redis'[k] = redis[k]
    <3>1. redis[k].of \in Request
      BY <2>1 DEF TypeInv, TypeOK, CachedResponse, Nothing, Garbage
    <3> QED BY <1>5, <2>1, <3>1 DEF CachedInv, Key
  <2>2. CASE redis'[k] # redis[k]
    <3>1. Set(r) /\ req'[r].stored = now /\ req[r].stage = "storing" /\ k = Key(r)
      BY <1>1, <1>6, <2>2
    <3>2. now # None
      BY IdempotencyAssumption DEF TypeInv, TypeOK
    <3> QED BY <1>1, <1>6, <3>1, <3>2 DEF Key
  <2> QED BY <2>1, <2>2
<1>8. StoredInv'
  <2> SUFFICES ASSUME NEW s \in Request, req'[s].stored # None
               PROVE  /\ req'[s].stored \in Nat /\ req'[s].stored <= now
                      /\ req'[s].stage \in Ended /\ req'[s].ran /\ req'[s].input.key # None
                      /\ redis'[Key(s)].kind = "response"
                      /\ redis'[Key(s)].until >= req'[s].stored + Ttl
    BY <1>1, <1>2 DEF StoredInv
  <2>1. now \in Nat /\ Ttl \in Nat
    BY IdempotencyAssumption DEF TypeInv, TypeOK
  <2>2. CASE req[s].stored # None
    <3>1. /\ req'[s] = req[s] /\ req[s].stored \in Nat /\ req[s].stored <= now
          /\ req[s].stage \in Ended /\ req[s].ran /\ req[s].input.key # None
          /\ redis[Key(s)].kind = "response" /\ redis[Key(s)].until >= req[s].stored + Ttl
      BY <1>5, <2>2 DEF StoredInv
    <3>2. Key(s) \in RedisKeys
      BY <3>1 DEF TypeInv, TypeOK, RequestState, Key, RedisKeys
    <3> QED BY <1>1, <1>6, <2>1, <3>1, <3>2
  <2>3. CASE req[s].stored = None
    <3>1. s = r /\ Set(r) /\ req'[r].stored = now /\ req[r].stage = "storing"
          /\ req'[r].stage \in Ended /\ req'[r].ran
      BY <1>1, <2>3
    <3> QED BY <1>1, <1>6, <2>1, <3>1
  <2> QED BY <2>2, <2>3
<1>9. PriorInv'
  <2> SUFFICES ASSUME NEW t \in Request, NEW s \in req'[t].prior
               PROVE  /\ req'[s].stored # None
                      /\ Key(s) = Key(t) /\ Past(req'[t]) /\ ~req'[t].blind =>
                           req'[t].looked >= req'[s].stored + Ttl
    <3>1. \A t \in Request : req'[t].prior \subseteq Request
      BY DEF TypeInv, TypeOK, RequestState
    <3> QED BY <1>2, <3>1 DEF PriorInv, Past
  <2>1. s \in Request /\ req[s].stored # None
    BY <1>1 DEF PriorInv, StoredSoFar, TypeInv, TypeOK, RequestState
  <2>2. req'[s] = req[s]
    BY <1>5, <2>1
  <2>3. CASE t # r
    BY <1>1, <2>1, <2>2, <2>3 DEF PriorInv
  <2>4. CASE t = r
    <3> SUFFICES ASSUME Key(s) = Key(r), Past(req'[r]), ~req'[r].blind
                 PROVE  req'[r].looked >= req[s].stored + Ttl
      BY <2>1, <2>2, <2>4
    <3>1. req'[r].prior = req[r].prior /\ s \in req[r].prior
      BY <1>1, <2>4
    <3>2. CASE Miss(r) /\ req'[r].looked = now
      <4>1. /\ redis[Key(r)].kind = "response" /\ redis[Key(r)].until >= req[s].stored + Ttl
            /\ req[s].stored \in Nat /\ req[s].input.key # None
        BY <2>1 DEF StoredInv
      <4>2. Key(r) \in RedisKeys
        BY <2>1, <4>1 DEF TypeInv, TypeOK, RequestState, Key, RedisKeys
      <4>3. redis[Key(r)].until \in Nat /\ now \in Nat /\ Ttl \in Nat
        BY <4>1, <4>2, IdempotencyAssumption
           DEF TypeInv, TypeOK, CachedResponse, Nothing, Garbage
      <4>4. now >= redis[Key(r)].until
        BY <3>2, <4>1 DEF Miss, Found
      <4> QED BY <3>2, <4>1, <4>3, <4>4
    <3>3. CASE Past(req[r]) /\ ~req[r].blind /\ req'[r].looked = req[r].looked
      BY <3>1, <3>3 DEF PriorInv
    <3> QED BY <1>1, <3>1, <3>2, <3>3
  <2> QED BY <2>3, <2>4
<1> QED BY <1>4, <1>7, <1>8, <1>9

(* The cache invariant holds in every reachable state. *)
LEMMA CacheInvariant == Spec => [](TypeInv /\ CacheInv)
<1>1. Init => CacheInv
  <2> SUFFICES ASSUME Init PROVE CacheInv
    OBVIOUS
  <2>1. \A r \in Request : /\ req[r].stage = "new" /\ req[r].answer = "none"
                           /\ ~req[r].ran /\ req[r].stored = None /\ req[r].prior = {}
    BY DEF Init
  <2>2. \A k \in RedisKeys : redis[k].kind # "response"
    BY DEF Init, Nothing, Garbage
  <2> QED BY <2>1, <2>2 DEF CacheInv, StageInv, CachedInv, StoredInv, PriorInv
<1>2. TypeInv /\ TypeInv' /\ CacheInv /\ [Next]_vars => CacheInv'
  <2> SUFFICES ASSUME TypeInv, TypeInv', CacheInv, [Next]_vars PROVE CacheInv'
    OBVIOUS
  <2>1. CASE Tick
    <3>1. now \in Nat /\ now' = now + 1 /\ redis' = redis /\ req' = req
      BY <2>1 DEF Tick, TypeInv, TypeOK
    <3>2. StoredInv'
      BY <3>1 DEF CacheInv, StoredInv, Key
    <3> QED BY <3>1, <3>2 DEF CacheInv, StageInv, CachedInv, PriorInv, Key, Past
  <2>2. ASSUME NEW r \in Request, Call(r) PROVE CacheInv'
    BY <2>2, CacheCall
  <2>3. CASE UNCHANGED vars
    BY <2>3 DEF vars, CacheInv, StageInv, CachedInv, StoredInv, PriorInv, Key, Past
  <2> QED BY <2>1, <2>2, <2>3 DEF Next
<1> QED BY <1>1, <1>2, TypeInvariant, PTL DEF Spec

(* A retry that comes in after the response was stored does not reach the   *)
(* handler, unless its GET fails or the response expired: for any number of *)
(* requests, whichever of them are slow, dropped or fail.                   *)
THEOREM RetriesAreNotReExecuted == Spec => []NoReExecution
<1>1. TypeInv /\ CacheInv => NoReExecution
  BY DEF CacheInv, PriorInv, NoReExecution, Past
<1> QED BY <1>1, CacheInvariant, PTL

(* A request that is answered from the cache is answered from a completed   *)
(* run of the handler under its key, with its own fingerprint for a replay  *)
(* and with another one for a 409: for any number of requests.              *)
THEOREM CacheAnswersHonestly == Spec => []AnswersAreHonest
<1>1. Init => AnswersAreHonest
  BY DEF Init, AnswersAreHonest
<1>2. TypeInv /\ CacheInv /\ AnswersAreHonest /\ [Next]_vars => AnswersAreHonest'
  <2> SUFFICES ASSUME TypeInv, CacheInv, AnswersAreHonest, [Next]_vars
               PROVE  AnswersAreHonest'
    OBVIOUS
  <2>1. CASE Tick \/ UNCHANGED vars
    BY <2>1 DEF Tick, vars, AnswersAreHonest, Key
  <2>2. ASSUME NEW r \in Request, Call(r) PROVE AnswersAreHonest'
    <3>1. /\ req[r].stage \notin Ended
          /\ \A s \in Request \ {r} : req'[s] = req[s]
          /\ \A s \in Request : req'[s].input = req[s].input
          /\ req'[r].answer \in {"replay", "conflict"} => Hit(r)
      BY <2>2, CallShape DEF CacheInv
    <3>2. \A s \in Request : req[s].stored # None => req'[s] = req[s] /\ s # r
      BY <3>1 DEF CacheInv, StoredInv
    <3>3. \A s \in Request : Key(s)' = Key(s)
      BY <3>1 DEF Key
    <3> SUFFICES ASSUME NEW t \in Request, req'[t].answer \in {"replay", "conflict"}
                 PROVE  LET s == req'[t].of
                        IN  /\ s \in Request /\ s # t /\ req'[s].ran /\ req'[s].stored # None
                            /\ Key(s) = Key(t)
                            /\ req'[t].answer = "replay" <=> req'[s].input.op = req'[t].input.op
      BY <3>3 DEF AnswersAreHonest
    <3>4. CASE t # r
      BY <3>1, <3>2, <3>4 DEF AnswersAreHonest
    <3>5. CASE t = r
      <4> DEFINE s == redis[Key(r)].of
      <4>1. Hit(r) /\ At(r, "lookup")
        BY <3>1, <3>5 DEF Hit
      <4>2. /\ Key(r) \in RedisKeys /\ redis[Key(r)] \in CachedResponse
            /\ redis[Key(r)].kind = "response"
        BY <4>1, FoundType DEF Hit
      <4>3. s \in Request
        BY <4>2 DEF CachedResponse
      <4>4. /\ req[s].stored # None /\ Key(s) = Key(r)
            /\ redis[Key(r)].fingerprint = Fingerprint(req[s].input)
        BY <4>2 DEF CacheInv, CachedInv
      <4>5. req'[s] = req[s] /\ s # r /\ req[s].ran
        BY <3>2, <4>3, <4>4 DEF CacheInv, StoredInv
      <4>6. req'[r].of = s /\ req'[r].answer = Verdict(r)
        BY <4>1 DEF Hit, Become, TypeInv, TypeOK, RequestState
      <4>7. Verdict(r) = "replay" <=> req[s].input.op = req[r].input.op
        BY <4>4 DEF Verdict, Fingerprint
      <4> QED BY <3>1, <3>5, <4>3, <4>4, <4>5, <4>6, <4>7
    <3> QED BY <3>4, <3>5
  <2> QED BY <2>1, <2>2 DEF Next
<1> QED BY <1>1, <1>2, CacheInvariant, PTL DEF Spec

(* With the same client key, the Redis keys of two requests tell whether    *)
(* their tenants are the same: the prefix is as long as the tenant's id.    *)
LEMMA SameKeySameTenant ==
  ASSUME NEW i \in Input, NEW j \in Input, i.key # None, j.key = i.key,
         RedisKey(i) = RedisKey(j)
  PROVE  i.tenant = j.tenant
<1>1. i.key \in Seq(Segment) /\ <<"t">> \in Seq(Segment)
  <2>1. i.key \in ClientKey
    BY DEF Input
  <2>2. <<"t">> \in Seq(Segment)
    <3>1. "t" \in Segment
      BY DEF Segment
    <3> QED BY <3>1
  <2> QED BY <2>1, <2>2, IdempotencyAssumption
<1>2. ASSUME NEW t \in Tenant PROVE t \in Seq(Segment) /\ <<"t">> \o t \in Seq(Segment)
  BY <1>1, IdempotencyAssumption, ConcatProperties
<1>3. CASE i.tenant = None \/ j.tenant = None
  <2>1. ASSUME NEW t \in Tenant PROVE <<"t">> \o t \o i.key # i.key
    <3> DEFINE p == <<"t">> \o t
    <3>1. p # <<>> /\ p \in Seq(Segment)
      BY <1>1, <1>2, ConcatEqualIffEmpty
    <3> HIDE DEF p
    <3>2. p \o i.key # i.key
      BY <1>1, <3>1, ConcatEqualIffEmpty
    <3> QED BY <3>2 DEF p
  <2> QED BY <1>3, <2>1 DEF RedisKey, Input
<1>4. CASE i.tenant # None /\ j.tenant # None
  <2>1. i.tenant \in Tenant /\ j.tenant \in Tenant
    BY <1>4 DEF Input
  <2>2. <<"t">> \o i.tenant \o i.key = <<"t">> \o j.tenant \o i.key
    BY <1>4 DEF RedisKey
  <2>3. <<"t">> \o i.tenant = <<"t">> \o j.tenant
    <3> DEFINE p == <<"t">> \o i.tenant
               q == <<"t">> \o j.tenant
    <3>1. p \in Seq(Segment) /\ q \in Seq(Segment) /\ p \o i.key = q \o i.key
      BY <1>2, <2>1, <2>2
    <3> HIDE DEF p, q
    <3>2. p = q
      BY <1>1, <3>1, ConcatSimplifications
    <3> QED BY <3>2 DEF p, q
  <2> QED BY <1>1, <1>2, <2>1, <2>3, ConcatSimplifications
<1> QED BY <1>3, <1>4

(* A request is answered from a response of its own tenant, if the client   *)
(* keys are the same: for any tenant ids and keys, colons in them or not.   *)
THEOREM TenantsAreApart == Spec => []TenantsApart
<1>1. TypeInv /\ CacheInv /\ AnswersAreHonest => TenantsApart
  <2> SUFFICES ASSUME TypeInv, CacheInv, AnswersAreHonest, NEW r \in Request, NEW s \in Request,
                      req[r].answer \in {"replay", "conflict"}, req[r].of = s,
                      req[s].input.key = req[r].input.key
               PROVE  req[s].input.tenant = req[r].input.tenant
    BY DEF TenantsApart
  <2>1. Key(s) = Key(r) /\ req[s].stored # None
    BY DEF AnswersAreHonest
  <2>2. req[s].input.key # None
    BY <2>1 DEF CacheInv, StoredInv
  <2>3. req[s].input \in Input /\ req[r].input \in Input
    BY DEF TypeInv, TypeOK, RequestState
  <2> QED BY <2>1, <2>2, <2>3, SameKeySameTenant DEF Key
<1> QED BY <1>1, CacheInvariant, CacheAnswersHonestly, PTL
=============================================================================
