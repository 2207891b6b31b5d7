-------------------------- MODULE RateLimitProofs ---------------------------
(* Proofs about RateLimit, for every value of the constants. *)
EXTENDS RateLimit, TLAPS

USE RateLimitAssumption

-----------------------------------------------------------------------------
(* Arithmetic of capacity and window. *)

(* What the constants derived from capacity and window satisfy: a key       *)
(* outlives the time its bucket takes to fill.                              *)
LEMMA Constants ==
  /\ Window \in Nat /\ Window > 0 /\ Ttl \in Nat /\ Ttl >= Window
  /\ Full \in Nat /\ Abstract!Full = Full
<1>1. Window \in Nat /\ Window > 0 /\ Ttl \in Nat /\ Ttl >= Window
  BY DEF Window, Ttl, AtLeast
<1>2. Full \in Nat
  BY <1>1 DEF Full
<1> QED BY <1>1, <1>2 DEF Full, Abstract!Full

(* A whole window fills a bucket. *)
LEMMA WindowFills ==
  ASSUME NEW d \in Nat, d >= Window PROVE Capacity * d >= Full
  BY Constants DEF Full

(* A bucket that refills at all has room for a token. *)
LEMMA RoomForOne == Capacity > 0 => Full >= Window
  BY Constants DEF Full

(* What a division that rounds up computes. *)
LEMMA RoundedUp ==
  ASSUME NEW a \in Nat, NEW c \in Nat, c > 0, NEW d \in Nat
  PROVE  /\ (a + c - 1) \div c \in Nat
         /\ d >= (a + c - 1) \div c <=> c * d >= a
<1> DEFINE q == (a + c - 1) \div c
<1>1. a + c - 1 \in Nat
  OBVIOUS
<1>2. q \in Nat /\ c * q <= a + c - 1 /\ a + c - 1 < c * q + c
  BY <1>1
<1> HIDE DEF q
<1>3. ASSUME d >= q PROVE c * d >= a
  <2>1. c * d >= c * q
    BY <1>2, <1>3
  <2> QED BY <1>2, <2>1
<1>4. ASSUME d < q PROVE c * d < a
  <2>1. c * d + c <= c * q
    BY <1>2, <1>4
  <2>2. c * d \in Nat /\ c * q \in Nat
    BY <1>2
  <2> QED BY <1>2, <2>1, <2>2
<1>5. c * d \in Nat
  OBVIOUS
<1>6. q \in Nat /\ (d >= q <=> c * d >= a)
  BY <1>2, <1>3, <1>4, <1>5
<1> QED BY <1>6 DEF q

-----------------------------------------------------------------------------
(* The inductive invariant. *)

(* A hash expires a TTL after it was written. *)
Expiry == \A k \in Key : bucket[k] # None => bucket[k].until = bucket[k].ts + Ttl

(* A promise is about the hash the refusal wrote, or that hash expired      *)
(* after the promised time.                                                 *)
PromiseKept ==
  \A k \in Key : promise[k] # None =>
    /\ Capacity > 0
    /\ \/ /\ bucket[k] # None /\ bucket[k].ts <= now /\ bucket[k].tokens < Window
          /\ promise[k] = bucket[k].ts + RetryAfter(bucket[k].tokens)
       \/ bucket[k] = None /\ now >= promise[k]

(* A request that waits for the script has a key. *)
Keyed == \A r \in Request : req[r].stage = "asking" => req[r].key \in Key

Inv == TypeOK /\ Expiry /\ PromiseKept /\ Keyed

(* The value of a refilled hash. *)
LEMMA RefilledValue ==
  ASSUME NEW h \in Hash, now \in Nat
  PROVE  /\ Refilled(h) \in 0..Full
         /\ now >= h.ts => Refilled(h) = AtMost(h.tokens + Capacity * (now - h.ts), Full)
         /\ now <= h.ts => Refilled(h) = h.tokens
<1>1. h.tokens \in Nat /\ h.tokens <= Full /\ h.ts \in Nat /\ Full \in Nat
  BY Constants DEF Hash
<1>2. ASSUME now >= h.ts PROVE AtLeast(now - h.ts, 0) = now - h.ts
  BY <1>1, <1>2 DEF AtLeast
<1>3. ASSUME now <= h.ts PROVE AtLeast(now - h.ts, 0) = 0
  BY <1>1, <1>3 DEF AtLeast
<1>4. ASSUME now >= h.ts
      PROVE  Refilled(h) = AtMost(h.tokens + Capacity * (now - h.ts), Full)
  BY <1>2, <1>4 DEF Refilled
<1>5. ASSUME now <= h.ts PROVE Refilled(h) = h.tokens
  <2>1. h.tokens + Capacity * 0 = h.tokens
    BY <1>1
  <2> QED BY <1>1, <1>3, <1>5, <2>1 DEF Refilled, AtMost
<1>6. Refilled(h) \in 0..Full
  <2>1. CASE now >= h.ts
    <3>1. Capacity * (now - h.ts) \in Nat
      BY <1>1, <2>1
    <3> QED BY <1>1, <1>4, <2>1, <3>1 DEF AtMost
  <2>2. CASE now <= h.ts
    BY <1>1, <1>5, <2>2
  <2> QED BY <1>1, <2>1, <2>2
<1> QED BY <1>4, <1>5, <1>6

(* An expired hash would be full, so the script sees what Level says.       *)
LEMMA TokensAreLevel ==
  ASSUME TypeOK, Expiry, NEW k \in Key
  PROVE  Tokens(k) = Level[k] /\ Tokens(k) \in 0..Full
<1>1. CASE bucket[k] = None
  BY <1>1, Constants DEF Tokens, Found, Level
<1>2. CASE bucket[k] # None /\ now < bucket[k].until
  <2>1. bucket[k] \in Hash /\ now \in Nat
    BY <1>2 DEF TypeOK
  <2>2. Found(k) = bucket[k] /\ Found(k) # None
    BY <1>2 DEF Found
  <2> QED BY <1>2, <2>1, <2>2, RefilledValue DEF Tokens, Level
<1>3. CASE bucket[k] # None /\ now >= bucket[k].until
  <2>1. bucket[k] \in Hash /\ now \in Nat
    BY <1>3 DEF TypeOK
  <2>2. bucket[k].ts \in Nat /\ bucket[k].tokens \in Nat /\ bucket[k].tokens <= Full
    BY <2>1, Constants DEF Hash
  <2>3. now - bucket[k].ts \in Nat /\ now - bucket[k].ts >= Window
    BY <1>3, <2>1, <2>2, Constants DEF Expiry
  <2>4. Capacity * (now - bucket[k].ts) >= Full
    BY <2>3, WindowFills
  <2>5. Refilled(bucket[k]) = AtMost(bucket[k].tokens + Capacity * (now - bucket[k].ts), Full)
    BY <2>1, <2>2, <2>3, RefilledValue
  <2>6. Refilled(bucket[k]) = Full
    <3>1. Capacity * (now - bucket[k].ts) \in Nat
      BY <2>3
    <3> QED BY <2>2, <2>4, <2>5, <3>1, Constants DEF AtMost
  <2>7. Found(k) = None
    BY <1>3, <2>1, <2>2, Constants DEF Found, Expiry, Hash
  <2> QED BY <1>3, <2>6, <2>7, Constants DEF Tokens, Level
<1>4. now \in Nat /\ (bucket[k] # None => bucket[k].until \in Nat)
  BY DEF TypeOK, Hash
<1> QED BY <1>1, <1>2, <1>3, <1>4

-----------------------------------------------------------------------------
(* Effects of the script. *)

(* What the buckets hold is between nothing and full. *)
LEMMA LevelType ==
  ASSUME TypeOK PROVE Level \in [Key -> 0..Full] /\ Ahead \in [Key -> BOOLEAN]
<1>1. ASSUME NEW k \in Key PROVE Level[k] \in 0..Full
  <2>1. CASE bucket[k] = None
    BY <2>1, Constants DEF Level
  <2>2. CASE bucket[k] # None
    <3>1. bucket[k] \in Hash /\ now \in Nat
      BY <2>2 DEF TypeOK
    <3> QED BY <2>2, <3>1, RefilledValue DEF Level
  <2> QED BY <2>1, <2>2
<1> QED BY <1>1 DEF Level, Ahead

(* A step that leaves Redis alone leaves the abstract buckets alone. *)
LEMMA SameBuckets ==
  ASSUME Inv, UNCHANGED <<now, bucket, promise>>
  PROVE  Expiry' /\ PromiseKept' /\ UNCHANGED <<Level, Ahead>>
  BY DEF Inv, Expiry, PromiseKept, Level, Ahead, Refilled, RetryAfter

(* Writing a hash sets the level of its bucket and leaves no arrears. *)
LEMMA WriteStep ==
  ASSUME Inv, NEW k \in Key, NEW t \in 0..Full, Write(k, t), now' = now
  PROVE  /\ bucket' \in [Key -> Hash \cup {None}] /\ Expiry'
         /\ bucket'[k] # None /\ bucket'[k].ts = now /\ bucket'[k].tokens = t
         /\ \A j \in Key \ {k} : bucket'[j] = bucket[j]
         /\ Level' = [Level EXCEPT ![k] = t]
         /\ Ahead' \in [Key -> BOOLEAN] /\ \A j \in Key : Ahead'[j] => Ahead[j]
<1> DEFINE h == [tokens |-> t, ts |-> now, until |-> now + Ttl]
<1>1. h \in Hash /\ now \in Nat
  BY Constants DEF Inv, TypeOK, Hash
<1>2. bucket \in [Key -> Hash \cup {None}] /\ bucket' = [bucket EXCEPT ![k] = h]
  BY DEF Inv, TypeOK, Write
<1>3. h # None
  <2>1. h \in [tokens : Nat, ts : Nat, until : Nat]
    BY <1>1, Constants DEF Hash
  <2> QED BY <2>1
<1>4. bucket' \in [Key -> Hash \cup {None}]
  BY <1>1, <1>2
<1>5. bucket'[k] = h /\ \A j \in Key \ {k} : bucket'[j] = bucket[j]
  BY <1>2
<1>6. Expiry'
  <2>1. h.until = h.ts + Ttl
    OBVIOUS
  <2> QED BY <1>5, <2>1 DEF Inv, Expiry
<1>7. Level' = [Level EXCEPT ![k] = t]
  <2>1. Level'[k] = t
    <3>1. Refilled(h) = t
      BY <1>1, RefilledValue
    <3> QED BY <1>3, <1>5, <3>1 DEF Level, Refilled
  <2>2. ASSUME NEW j \in Key \ {k} PROVE Level'[j] = Level[j]
    BY <1>5 DEF Level, Refilled
  <2>3. Level' = [j \in Key |-> Level'[j]] /\ Level = [j \in Key |-> Level[j]]
    BY DEF Level
  <2> QED BY <2>1, <2>2, <2>3
<1>8. Ahead' \in [Key -> BOOLEAN] /\ \A j \in Key : Ahead'[j] => Ahead[j]
  <2>1. ~(now < h.ts)
    BY <1>1
  <2> QED BY <1>5, <2>1 DEF Ahead
<1> QED BY <1>3, <1>4, <1>5, <1>6, <1>7, <1>8

(* A request that is let through takes a token of the abstract bucket. *)
LEMMA AllowStep ==
  ASSUME Inv, NEW k \in Key, Allow(k), now' = now
  PROVE  /\ bucket' \in [Key -> Hash \cup {None}] /\ Expiry' /\ PromiseKept'
         /\ taken' \in [Key -> Nat] /\ promise' \in [Key -> Nat \cup {None}]
         /\ UNCHANGED <<elapsed, lost>> => Abstract!Take(k)
<1> DEFINE t == Tokens(k) - Window
<1>1. t \in 0..Full /\ Level[k] = Tokens(k)
  BY TokensAreLevel, Constants DEF Inv, Allow
<1>2. Write(k, t) /\ Level[k] >= Window
  BY <1>1 DEF Allow
<1> HIDE DEF t
<1>3. /\ bucket' \in [Key -> Hash \cup {None}] /\ Expiry'
      /\ \A j \in Key \ {k} : bucket'[j] = bucket[j]
      /\ Level' = [Level EXCEPT ![k] = t]
      /\ Ahead' \in [Key -> BOOLEAN] /\ \A j \in Key : Ahead'[j] => Ahead[j]
  BY <1>1, <1>2, WriteStep
<1>4. taken' \in [Key -> Nat] /\ promise' \in [Key -> Nat \cup {None}]
  BY DEF Inv, TypeOK, Allow
<1>5. PromiseKept'
  <2>1. promise' = [promise EXCEPT ![k] = None] /\ promise \in [Key -> Nat \cup {None}]
    BY DEF Allow, Inv, TypeOK
  <2> QED BY <1>3, <2>1 DEF Inv, PromiseKept, RetryAfter
<1>6. ASSUME UNCHANGED <<elapsed, lost>> PROVE Abstract!Take(k)
  <2>1. Level' = [Level EXCEPT ![k] = Level[k] - Window]
    BY <1>1, <1>3 DEF t
  <2> QED BY <1>2, <1>3, <1>6, <2>1 DEF Allow, Abstract!Take, Abstract!Behind
<1> QED BY <1>3, <1>4, <1>5, <1>6

(* A refused request takes nothing, and its promise is about what it wrote. *)
LEMMA RefuseStep ==
  ASSUME Inv, NEW k \in Key, Refuse(k), now' = now
  PROVE  /\ bucket' \in [Key -> Hash \cup {None}] /\ Expiry' /\ PromiseKept'
         /\ taken' \in [Key -> Nat] /\ promise' \in [Key -> Nat \cup {None}]
         /\ UNCHANGED <<elapsed, lost>> => Abstract!CatchUp
<1> DEFINE t == Tokens(k)
<1>1. t \in 0..Full /\ Level[k] = t /\ t < Window
  BY TokensAreLevel DEF Inv, Refuse
<1>2. Write(k, t)
  BY DEF Refuse
<1>3. promise' = [promise EXCEPT ![k] = IF Capacity > 0 THEN now + RetryAfter(t) ELSE None]
  BY DEF Refuse
<1> HIDE DEF t
<1>4. /\ bucket' \in [Key -> Hash \cup {None}] /\ Expiry'
      /\ bucket'[k] # None /\ bucket'[k].ts = now /\ bucket'[k].tokens = t
      /\ \A j \in Key \ {k} : bucket'[j] = bucket[j]
      /\ Level' = [Level EXCEPT ![k] = t]
      /\ Ahead' \in [Key -> BOOLEAN] /\ \A j \in Key : Ahead'[j] => Ahead[j]
  BY <1>1, <1>2, WriteStep
<1>5. now \in Nat /\ promise \in [Key -> Nat \cup {None}]
  BY DEF Inv, TypeOK
<1>6. Capacity > 0 => RetryAfter(t) \in Nat
  <2>1. Window - t \in Nat
    BY <1>1, Constants
  <2> QED BY <2>1, RoundedUp DEF RetryAfter
<1>7. promise' \in [Key -> Nat \cup {None}]
  BY <1>3, <1>5, <1>6
<1>8. PromiseKept'
  <2>1. ASSUME NEW j \in Key, promise'[j] # None
        PROVE  /\ Capacity > 0
               /\ \/ /\ bucket'[j] # None /\ bucket'[j].ts <= now' /\ bucket'[j].tokens < Window
                     /\ promise'[j] = bucket'[j].ts + RetryAfter(bucket'[j].tokens)
                  \/ bucket'[j] = None /\ now' >= promise'[j]
    <3>1. CASE j = k
      BY <1>1, <1>3, <1>4, <1>5, <2>1, <3>1
    <3>2. CASE j # k
      <4>1. promise'[j] = promise[j] /\ bucket'[j] = bucket[j]
        BY <1>3, <1>4, <1>5, <3>2
      <4> QED BY <2>1, <4>1 DEF Inv, PromiseKept
    <3> QED BY <3>1, <3>2
  <2> QED BY <2>1 DEF PromiseKept, RetryAfter
<1>9. ASSUME UNCHANGED <<elapsed, lost>> PROVE Abstract!CatchUp
  <2>1. Level' = Level
    BY <1>1, <1>4 DEF Level
  <2> QED BY <1>4, <1>9, <2>1 DEF Refuse, Abstract!CatchUp, Abstract!Behind
<1>10. taken' \in [Key -> Nat]
  BY DEF Refuse, Inv, TypeOK
<1> QED BY <1>4, <1>7, <1>8, <1>9, <1>10

-----------------------------------------------------------------------------
(* The steps of the specification. *)

AbstractStep == Abstract!Next \/ UNCHANGED <<Level, Ahead, taken, elapsed, lost>>

(* The states of the requests stay in their types. *)
LEMMA FinishType ==
  ASSUME TypeOK, Keyed, NEW r \in Request, NEW a \in Answer, Finish(r, a)
  PROVE  /\ req' \in [Request -> [stage : {"new", "asking", "done"}, key : Key \cup {None},
                                  answer : Answer]]
         /\ Keyed'
<1>1. req \in [Request -> [stage : {"new", "asking", "done"}, key : Key \cup {None},
                           answer : Answer]]
  BY DEF TypeOK
<1>2. req' = [req EXCEPT ![r] = [req[r] EXCEPT !.stage = "done", !.answer = a]]
  BY <1>1 DEF Finish
<1>3. req'[r].stage = "done" /\ \A s \in Request \ {r} : req'[s] = req[s]
  BY <1>1, <1>2
<1>4. Keyed'
  BY <1>3 DEF Keyed
<1> QED BY <1>1, <1>2, <1>4

(* key_fn names a bucket or nothing. *)
LEMMA KeyType ==
  ASSUME NEW kk \in Kind, NEW i \in Input PROVE key_fn(kk, i) \in Key \cup {None}
<1>1. per_ip(i) \in Key \cup {None}
  BY DEF per_ip, Named, Input, Key
<1>2. per_route(i) \in Key \cup {None} /\ per_user(i) \in Key \cup {None}
  BY DEF per_route, per_user, Named, Input, Key
<1>3. per_tenant_strict(i) \in Key \cup {None} /\ per_tenant(i) \in Key \cup {None}
  BY <1>1 DEF per_tenant_strict, per_tenant, Named, Input, Key
<1> QED BY <1>1, <1>2, <1>3 DEF key_fn, Kind

LEMMA InitInv == Init => Inv /\ Abstract!Init
<1> SUFFICES ASSUME Init PROVE Inv /\ Abstract!Init
  OBVIOUS
<1>1. TypeOK
  BY DEF Init, TypeOK, Answer
<1>2. Expiry /\ PromiseKept /\ Keyed
  BY DEF Init, Expiry, PromiseKept, Keyed
<1>3. Level = [k \in Key |-> Full] /\ Ahead = [k \in Key |-> FALSE]
  BY DEF Init, Level, Ahead
<1> QED BY <1>1, <1>2, <1>3, Constants DEF Init, Inv, Abstract!Init

LEMMA ArriveStep ==
  ASSUME Inv, NEW r \in Request, Arrive(r) PROVE Inv' /\ AbstractStep
<1>1. PICK i \in Input :
        LET k == key_fn(kind, i) IN
        IF k = None THEN Finish(r, "unlimited")
        ELSE req' = [req EXCEPT ![r].stage = "asking", ![r].key = k]
  BY DEF Arrive
<1>2. key_fn(kind, i) \in Key \cup {None}
  BY KeyType DEF Inv, TypeOK
<1>3. /\ req' \in [Request -> [stage : {"new", "asking", "done"}, key : Key \cup {None},
                               answer : Answer]]
      /\ Keyed'
  <2>1. CASE key_fn(kind, i) = None
    BY <1>1, <2>1, FinishType DEF Inv, Answer
  <2>2. CASE key_fn(kind, i) # None
    BY <1>1, <1>2, <2>2 DEF Inv, TypeOK, Keyed
  <2> QED BY <2>1, <2>2
<1>4. TypeOK'
  BY <1>3 DEF Arrive, Inv, TypeOK
<1> QED BY <1>3, <1>4, SameBuckets DEF Arrive, Inv, AbstractStep

(* The four ways a call of the script ends. *)
LEMMA AskingStep ==
  ASSUME Inv, NEW r \in Request, Serve(r) \/ TooMany(r) \/ FailOpen(r) \/ Drop(r)
  PROVE  Inv' /\ AbstractStep
<1> DEFINE k == req[r].key
<1>1. Asking(r) /\ faults' \in Nat /\ UNCHANGED <<kind, now, elapsed, lost>>
  BY DEF Serve, TooMany, FailOpen, Drop, Asking, Fault, Inv, TypeOK
<1>2. PICK a \in Answer : Finish(r, a)
  BY DEF Serve, TooMany, FailOpen, Drop, Answer
<1>3. /\ req' \in [Request -> [stage : {"new", "asking", "done"}, key : Key \cup {None},
                               answer : Answer]]
      /\ Keyed'
  BY <1>2, FinishType DEF Inv
<1>4. UNCHANGED <<bucket, taken, promise>> \/ Allow(k) \/ Refuse(k)
  BY DEF Serve, TooMany, FailOpen, Drop
<1>5. CASE UNCHANGED <<bucket, taken, promise>>
  <2>1. TypeOK'
    BY <1>1, <1>3, <1>5 DEF Inv, TypeOK
  <2> QED BY <1>1, <1>3, <1>5, <2>1, SameBuckets DEF Inv, AbstractStep
<1>6. CASE k \in Key /\ (Allow(k) \/ Refuse(k))
  <2>1. /\ bucket' \in [Key -> Hash \cup {None}] /\ Expiry' /\ PromiseKept'
        /\ taken' \in [Key -> Nat] /\ promise' \in [Key -> Nat \cup {None}]
    BY <1>1, <1>6, AllowStep, RefuseStep
  <2>2. TypeOK'
    BY <1>1, <1>3, <2>1 DEF Inv, TypeOK
  <2>3. Abstract!Take(k) \/ Abstract!CatchUp
    BY <1>1, <1>6, AllowStep, RefuseStep
  <2> QED BY <1>3, <1>6, <2>1, <2>2, <2>3 DEF Inv, AbstractStep, Abstract!Next
<1>7. k \in Key
  BY <1>1 DEF Asking, Inv, Keyed
<1> QED BY <1>4, <1>5, <1>6, <1>7

LEMMA TickStep == ASSUME Inv, Tick PROVE Inv' /\ AbstractStep
<1>1. now \in Nat /\ now' = now + 1 /\ bucket' = bucket /\ promise' = promise
  BY DEF Inv, TypeOK, Tick
<1>2. TypeOK' /\ Keyed'
  BY DEF Inv, TypeOK, Keyed, Tick
<1>3. Expiry'
  BY <1>1 DEF Inv, Expiry
<1>4. PromiseKept'
  <2>1. \A k \in Key : promise[k] # None => promise[k] \in Nat
    BY DEF Inv, TypeOK
  <2>2. \A k \in Key : bucket[k] # None => bucket[k].ts \in Nat
    BY DEF Inv, TypeOK, Hash
  <2> QED BY <1>1, <2>1, <2>2 DEF Inv, PromiseKept, RetryAfter
<1>5. ASSUME NEW k \in Key
      PROVE  /\ Level'[k] = IF Ahead[k] THEN Level[k] ELSE Abstract!AtMostFull(Level[k] + Capacity)
             /\ Ahead'[k] => Ahead[k]
  <2>1. CASE bucket[k] = None
    BY <1>1, <2>1, Constants DEF Level, Ahead, Abstract!AtMostFull
  <2>2. CASE bucket[k] # None
    <3> DEFINE h == bucket[k]
    <3>1. h \in Hash
      BY <2>2 DEF Inv, TypeOK
    <3>2. h.ts \in Nat /\ h.tokens \in Nat /\ h.tokens <= Full
      BY <3>1, Constants DEF Hash
    <3>3. Level[k] = Refilled(h) /\ Level'[k] = AtMost(h.tokens + Capacity * AtLeast(now + 1 - h.ts, 0), Full)
      <4>1. Level'[k] = AtMost(bucket'[k].tokens + Capacity * AtLeast(now' - bucket'[k].ts, 0), Full)
        BY <1>1, <2>2 DEF Level, Refilled
      <4>2. bucket'[k] = h
        BY <1>1
      <4>4. now' - h.ts = now + 1 - h.ts
        <5> HIDE DEF h
        <5> QED BY <1>1, <3>2
      <4>3. Level[k] = Refilled(h)
        BY <2>2 DEF Level
      <4> QED BY <4>1, <4>2, <4>3, <4>4
    <3>4. Ahead[k] = (now < h.ts) /\ Ahead'[k] = (now + 1 < h.ts)
      BY <1>1, <2>2 DEF Ahead
    <3> HIDE DEF h
    <3>5. CASE now < h.ts
      <4>1. AtLeast(now + 1 - h.ts, 0) = 0
        BY <1>1, <3>2, <3>5 DEF AtLeast
      <4>2. Level'[k] = h.tokens
        BY <3>2, <3>3, <4>1, Constants DEF AtMost
      <4>3. Level[k] = h.tokens
        BY <1>1, <3>1, <3>2, <3>3, <3>5, RefilledValue
      <4> QED BY <3>4, <3>5, <4>2, <4>3
    <3>6. CASE now >= h.ts
      <4> DEFINE x == Capacity * (now - h.ts)
      <4>1. x \in Nat /\ Capacity * (now + 1 - h.ts) = x + Capacity
        BY <1>1, <3>2, <3>6
      <4>2. AtLeast(now + 1 - h.ts, 0) = now + 1 - h.ts
        BY <1>1, <3>2, <3>6 DEF AtLeast
      <4>3. Level'[k] = AtMost(h.tokens + x + Capacity, Full)
        BY <3>2, <3>3, <4>1, <4>2
      <4>4. Level[k] = AtMost(h.tokens + x, Full)
        BY <1>1, <3>1, <3>2, <3>3, <3>6, RefilledValue
      <4> HIDE DEF x
      <4>5. Level'[k] = Abstract!AtMostFull(Level[k] + Capacity)
        BY <3>2, <4>1, <4>3, <4>4, Constants DEF AtMost, Abstract!AtMostFull
      <4>6. ~(now < h.ts) /\ ~(now + 1 < h.ts)
        BY <1>1, <3>2, <3>6
      <4>7. ~Ahead[k] /\ ~Ahead'[k]
        BY <3>4, <4>6, Zenon
      <4> QED BY <4>5, <4>7
    <3> QED BY <1>1, <3>2, <3>5, <3>6
  <2> QED BY <2>1, <2>2
<1>6. Abstract!Fill
  <2>1. Level' = [k \in Key |-> IF Ahead[k] THEN Level[k]
                               ELSE Abstract!AtMostFull(Level[k] + Capacity)]
    BY <1>5 DEF Level
  <2>2. Ahead' \in [Key -> BOOLEAN]
    BY <1>2, LevelType DEF Ahead
  <2> QED BY <1>5, <2>1, <2>2 DEF Tick, Abstract!Fill, Abstract!Behind
<1> QED BY <1>2, <1>3, <1>4, <1>6 DEF Inv, AbstractStep, Abstract!Next

LEMMA SetBackStep == ASSUME Inv, SetBack PROVE Inv' /\ AbstractStep
<1>1. now \in Nat /\ now' \in Nat /\ now' < now /\ bucket' = bucket
  BY DEF Inv, TypeOK, SetBack
<1>2. TypeOK' /\ Keyed'
  BY <1>1 DEF Inv, TypeOK, Keyed, SetBack, Fault
<1>3. Expiry' /\ PromiseKept'
  BY DEF Inv, Expiry, PromiseKept, SetBack
<1>4. Level' \in [Key -> 0..Full] /\ Ahead' \in [Key -> BOOLEAN]
  <2>1. ASSUME NEW k \in Key PROVE Level'[k] \in 0..Full
    <3>1. CASE bucket[k] = None
      BY <1>1, <3>1, Constants DEF Level
    <3>2. CASE bucket[k] # None
      <4>1. bucket[k] \in Hash
        BY <3>2 DEF Inv, TypeOK
      <4>2. bucket[k].ts \in Nat /\ bucket[k].tokens \in Nat /\ bucket[k].tokens <= Full
        BY <4>1, Constants DEF Hash
      <4>3. Capacity * AtLeast(now' - bucket[k].ts, 0) \in Nat
        BY <1>1, <4>2 DEF AtLeast
      <4>4. Level'[k] = AtMost(bucket[k].tokens + Capacity * AtLeast(now' - bucket[k].ts, 0), Full)
        BY <1>1, <3>2 DEF Level, Refilled
      <4> QED BY <4>2, <4>3, <4>4, Constants DEF AtMost
    <3> QED BY <3>1, <3>2
  <2> QED BY <2>1 DEF Level, Ahead
<1>5. ASSUME NEW k \in Key PROVE Level'[k] <= Level[k]
  <2>1. CASE bucket[k] = None
    BY <1>1, <2>1, Constants DEF Level
  <2>2. CASE bucket[k] # None
    <3>1. bucket[k] \in Hash
      BY <2>2 DEF Inv, TypeOK
    <3>2. bucket[k].ts \in Nat /\ bucket[k].tokens \in Nat /\ bucket[k].tokens <= Full
      BY <3>1, Constants DEF Hash
    <3> DEFINE a == AtLeast(now - bucket[k].ts, 0)
               b == AtLeast(now' - bucket[k].ts, 0)
    <3>3. a \in Nat /\ b \in Nat /\ b <= a
      BY <1>1, <3>2 DEF AtLeast
    <3>4. /\ Level[k] = AtMost(bucket[k].tokens + Capacity * a, Full)
          /\ Level'[k] = AtMost(bucket[k].tokens + Capacity * b, Full)
      BY <1>1, <2>2 DEF Level, Refilled
    <3> HIDE DEF a, b
    <3>5. Capacity * a \in Nat /\ Capacity * b \in Nat /\ Capacity * b <= Capacity * a
      BY <3>3
    <3> QED BY <3>2, <3>4, <3>5, Constants DEF AtMost
  <2> QED BY <2>1, <2>2
<1>6. Abstract!Forget
  BY <1>4, <1>5, Constants DEF SetBack, Abstract!Forget
<1> QED BY <1>2, <1>3, <1>6 DEF Inv, AbstractStep, Abstract!Next

(* A key that expires was full: nothing is owed on it any more. *)
LEMMA ExpireStep ==
  ASSUME Inv, NEW k \in Key, Expire(k) PROVE Inv' /\ AbstractStep
<1> DEFINE h == bucket[k]
<1>1. h \in Hash /\ h # None /\ now \in Nat /\ now' = now /\ now >= h.until
  BY DEF Inv, TypeOK, Expire
<1>2. h.ts \in Nat /\ h.tokens \in Nat /\ h.until = h.ts + Ttl
  BY <1>1, Constants DEF Hash, Inv, Expiry
<1>3. bucket \in [Key -> Hash \cup {None}] /\ bucket' = [bucket EXCEPT ![k] = None]
  BY DEF Inv, TypeOK, Expire
<1>4. bucket'[k] = None /\ \A j \in Key \ {k} : bucket'[j] = bucket[j]
  BY <1>3
<1>5. TypeOK' /\ Keyed'
  BY <1>3 DEF Inv, TypeOK, Keyed, Expire
<1>6. Expiry'
  BY <1>4 DEF Inv, Expiry
<1>7. PromiseKept'
  <2>1. promise' = promise /\ (promise[k] # None => promise[k] \in Nat)
    BY DEF Inv, TypeOK, Expire
  <2>2. ASSUME promise[k] # None PROVE Capacity > 0 /\ now >= promise[k]
    <3>1. Capacity > 0 /\ h.tokens < Window /\ promise[k] = h.ts + RetryAfter(h.tokens)
      BY <1>1, <2>2 DEF Inv, PromiseKept
    <3> HIDE DEF h
    <3>2. Window - h.tokens \in Nat /\ Capacity * Window >= Window - h.tokens
      BY <1>2, <3>1, Constants
    <3>3. RetryAfter(h.tokens) \in Nat /\ Window >= RetryAfter(h.tokens)
      BY <3>1, <3>2, Constants, RoundedUp DEF RetryAfter
    <3> QED BY <1>1, <1>2, <3>1, <3>3, Constants
  <2> QED BY <1>1, <1>4, <2>1, <2>2 DEF Inv, PromiseKept, RetryAfter
<1>8. Level' = Level
  <2>1. Level[k] = Full
    <3>1. Found(k) = None
      BY <1>1, <1>2, Constants DEF Found
    <3> QED BY <3>1, TokensAreLevel DEF Inv, Tokens
  <2>2. ASSUME NEW j \in Key PROVE Level'[j] = Level[j]
    BY <1>1, <1>4, <2>1 DEF Level, Refilled
  <2> QED BY <2>2 DEF Level
<1>9. Ahead' = Ahead
  <2>1. ~(now < h.ts)
    BY <1>1, <1>2, Constants
  <2>2. ASSUME NEW j \in Key PROVE Ahead'[j] = Ahead[j]
    BY <1>1, <1>4, <2>1 DEF Ahead
  <2> QED BY <2>2 DEF Ahead
<1> QED BY <1>5, <1>6, <1>7, <1>8, <1>9 DEF Inv, AbstractStep, Expire

LEMMA EvictStep ==
  ASSUME Inv, NEW k \in Key, Evict(k) PROVE Inv' /\ AbstractStep
<1>1. bucket \in [Key -> Hash \cup {None}] /\ bucket' = [bucket EXCEPT ![k] = None]
  BY DEF Inv, TypeOK, Evict
<1>2. bucket'[k] = None /\ \A j \in Key \ {k} : bucket'[j] = bucket[j]
  BY <1>1
<1>3. promise \in [Key -> Nat \cup {None}] /\ promise' = [promise EXCEPT ![k] = None]
  BY DEF Inv, TypeOK, Evict
<1>4. TypeOK' /\ Keyed'
  BY <1>1, <1>3 DEF Inv, TypeOK, Keyed, Evict, Fault
<1>5. Expiry'
  BY <1>2 DEF Inv, Expiry
<1>6. PromiseKept'
  BY <1>2, <1>3 DEF Inv, PromiseKept, RetryAfter, Evict
<1>7. Level' = [Level EXCEPT ![k] = Full]
  <2>1. Level'[k] = Full
    BY <1>2 DEF Level
  <2>2. ASSUME NEW j \in Key \ {k} PROVE Level'[j] = Level[j]
    BY <1>2 DEF Level, Refilled, Evict
  <2>3. Level' = [j \in Key |-> Level'[j]] /\ Level = [j \in Key |-> Level[j]]
    BY DEF Level
  <2> QED BY <2>1, <2>2, <2>3
<1>8. Ahead' \in [Key -> BOOLEAN] /\ \A j \in Key : Ahead'[j] => Ahead[j]
  BY <1>2 DEF Ahead, Evict
<1>9. Abstract!Lose(k)
  BY <1>7, <1>8, Constants DEF Evict, Abstract!Lose, Abstract!Behind
<1> QED BY <1>4, <1>5, <1>6, <1>9 DEF Inv, AbstractStep, Abstract!Next

(* Every step keeps the invariant and is a step of the abstract buckets, or *)
(* none.                                                                    *)
LEMMA Step == Inv /\ [Next]_vars => Inv' /\ AbstractStep
<1> SUFFICES ASSUME Inv, [Next]_vars PROVE Inv' /\ AbstractStep
  OBVIOUS
<1>1. CASE Tick
  BY <1>1, TickStep
<1>2. CASE SetBack
  BY <1>2, SetBackStep
<1>3. CASE \E k \in Key : Expire(k) \/ Evict(k)
  BY <1>3, ExpireStep, EvictStep
<1>4. CASE \E r \in Request : Arrive(r)
  BY <1>4, ArriveStep
<1>5. CASE \E r \in Request : Serve(r) \/ TooMany(r) \/ FailOpen(r) \/ Drop(r)
  BY <1>5, AskingStep
<1>6. CASE UNCHANGED vars
  <2>1. TypeOK' /\ Keyed'
    BY <1>6 DEF Inv, TypeOK, Keyed, vars
  <2> QED BY <1>6, <2>1, SameBuckets DEF Inv, AbstractStep, vars
<1> QED BY <1>1, <1>2, <1>3, <1>4, <1>5, <1>6 DEF Next

-----------------------------------------------------------------------------
(* The theorems. *)

LEMMA Invariance == Spec => []Inv
<1>1. Init => Inv
  BY InitInv
<1>2. Inv /\ [Next]_vars => Inv'
  BY Step
<1> QED BY <1>1, <1>2, PTL DEF Spec

(* The buckets and the requests keep their types: a bucket never holds less *)
(* than nothing or more than its capacity, whatever the clock does.         *)
THEOREM TypeCorrect == Spec => []TypeOK
<1>1. Inv => TypeOK
  BY DEF Inv
<1> QED BY <1>1, Invariance, PTL

(* The script with its lazy refill and expiring keys implements buckets     *)
(* that fill evenly and never expire.                                       *)
THEOREM Implements == Spec => ImplementsTokenBucket
<1>1. Init => Abstract!Init
  BY InitInv
<1>2. Inv /\ [Next]_vars => [Abstract!Next]_(Abstract!vars)
  BY Step DEF AbstractStep, Abstract!vars
<1> QED BY <1>1, <1>2, Invariance, PTL DEF Spec, ImplementsTokenBucket, Abstract!Spec

(* What the abstract buckets account for, they go on accounting for. *)
LEMMA AccountsStep == Inv /\ Inv' /\ Abstract!Accounts /\ AbstractStep => Abstract!Accounts'
<1> SUFFICES ASSUME Inv, Inv', Abstract!Accounts, AbstractStep, NEW k \in Key
             PROVE  taken'[k] * Window + Level'[k] <= Full + Full * lost'[k] + Capacity * elapsed'
  BY Constants DEF Abstract!Accounts
<1>1. /\ taken[k] \in Nat /\ lost[k] \in Nat /\ elapsed \in Nat
      /\ taken \in [Key -> Nat] /\ lost \in [Key -> Nat]
  BY DEF Inv, TypeOK
<1>2. Level \in [Key -> 0..Full] /\ Level[k] \in Nat /\ Level[k] <= Full
  BY LevelType, Constants DEF Inv
<1>3. taken[k] * Window + Level[k] <= Full + Full * lost[k] + Capacity * elapsed
  BY Constants DEF Abstract!Accounts
<1>4. taken[k] * Window \in Nat /\ Full * lost[k] \in Nat /\ Capacity * elapsed \in Nat
  BY <1>1, Constants
<1>5. CASE Abstract!Fill
  <2>1. Capacity * elapsed' = Capacity * elapsed + Capacity
    BY <1>1, <1>5 DEF Abstract!Fill
  <2>2. Level'[k] \in Nat /\ Level'[k] <= Level[k] + Capacity
    BY <1>2, <1>5, Constants DEF Abstract!Fill, Abstract!AtMostFull
  <2>3. taken' = taken /\ lost' = lost
    BY <1>5 DEF Abstract!Fill
  <2> QED BY <1>2, <1>3, <1>4, <2>1, <2>2, <2>3, Constants
<1>6. CASE Abstract!Forget
  <2>1. Level'[k] \in Nat /\ Level'[k] <= Level[k]
    BY <1>6, Constants DEF Abstract!Forget
  <2>2. taken' = taken /\ lost' = lost /\ elapsed' = elapsed
    BY <1>6 DEF Abstract!Forget
  <2> QED BY <1>2, <1>3, <1>4, <2>1, <2>2, Constants
<1>7. CASE Abstract!CatchUp
  BY <1>3, <1>7 DEF Abstract!CatchUp
<1>8. ASSUME NEW j \in Key, Abstract!Take(j)
      PROVE  taken'[k] * Window + Level'[k] <= Full + Full * lost'[k] + Capacity * elapsed'
  <2>1. lost' = lost /\ elapsed' = elapsed
    BY <1>8 DEF Abstract!Take
  <2>2. CASE j = k
    <3>1. taken'[k] = taken[k] + 1 /\ Level'[k] = Level[k] - Window
      BY <1>1, <1>2, <1>8, <2>2 DEF Abstract!Take
    <3>2. taken'[k] * Window = taken[k] * Window + Window
      BY <1>1, <3>1, Constants
    <3> QED BY <1>2, <1>3, <1>4, <2>1, <3>1, <3>2, Constants
  <2>3. CASE j # k
    <3>1. taken'[k] = taken[k] /\ Level'[k] = Level[k]
      BY <1>1, <1>2, <1>8, <2>3 DEF Abstract!Take
    <3> QED BY <1>3, <2>1, <3>1
  <2> QED BY <2>2, <2>3
<1>9. ASSUME NEW j \in Key, Abstract!Lose(j)
      PROVE  taken'[k] * Window + Level'[k] <= Full + Full * lost'[k] + Capacity * elapsed'
  <2>1. taken' = taken /\ elapsed' = elapsed
    BY <1>9 DEF Abstract!Lose
  <2>2. CASE j = k
    <3>1. lost'[k] = lost[k] + 1 /\ Level'[k] = Full
      BY <1>1, <1>2, <1>9, <2>2, Constants DEF Abstract!Lose
    <3>2. Full * lost'[k] = Full * lost[k] + Full
      BY <1>1, <3>1, Constants
    <3> QED BY <1>2, <1>3, <1>4, <2>1, <3>1, <3>2, Constants
  <2>3. CASE j # k
    <3>1. lost'[k] = lost[k] /\ Level'[k] = Level[k]
      BY <1>1, <1>2, <1>9, <2>3 DEF Abstract!Lose
    <3> QED BY <1>3, <2>1, <3>1
  <2> QED BY <2>2, <2>3
<1>10. CASE UNCHANGED <<Level, Ahead, taken, elapsed, lost>>
  BY <1>3, <1>10
<1> QED BY <1>5, <1>6, <1>7, <1>8, <1>9, <1>10 DEF AbstractStep, Abstract!Next

(* The limiter never lets more through than the bucket and its refill: the  *)
(* accounts of the abstract bucket hold along every behaviour.              *)
THEOREM Admits == Spec => []AdmitsWithinRate
<1>1. Inv /\ Abstract!Init => Abstract!Accounts
  <2> SUFFICES ASSUME Inv, Abstract!Init PROVE Abstract!Accounts
    OBVIOUS
  <2> QED BY Constants DEF Abstract!Init, Abstract!Accounts
<1>2. Inv /\ Inv' /\ Abstract!Accounts /\ [Next]_vars => Abstract!Accounts'
  BY Step, AccountsStep
<1>3. Inv /\ Abstract!Accounts => AdmitsWithinRate
  <2> SUFFICES ASSUME Inv, Abstract!Accounts, NEW k \in Key
               PROVE  taken[k] * Window <= Full + Full * lost[k] + Capacity * elapsed
    BY DEF AdmitsWithinRate
  <2>1. taken[k] * Window + Level[k] <= Full + Full * lost[k] + Capacity * elapsed
    BY Constants DEF Abstract!Accounts
  <2>2. taken[k] \in Nat /\ lost[k] \in Nat /\ elapsed \in Nat /\ Level[k] \in Nat
    BY LevelType, Constants DEF Inv, TypeOK
  <2>3. taken[k] * Window \in Nat /\ Full * lost[k] \in Nat /\ Capacity * elapsed \in Nat
    BY <2>2, Constants
  <2> QED BY <2>1, <2>2, <2>3, Constants
<1>4. Init => Inv /\ Abstract!Init
  BY InitInv
<1> QED BY <1>1, <1>2, <1>3, <1>4, Invariance, PTL DEF Spec

(* The wait that a refused request is told is exactly the time until the    *)
(* next token, at every later moment at which nobody else came first.       *)
THEOREM RetryIsExact == Spec => []RetryAfterIsExact
<1>1. Inv => RetryAfterIsExact
  <2> SUFFICES ASSUME Inv, NEW k \in Key, promise[k] # None
               PROVE  now >= promise[k] <=> Tokens(k) >= Window
    BY DEF RetryAfterIsExact
  <2>1. Capacity > 0 /\ Full >= Window /\ Tokens(k) = Level[k]
    BY RoomForOne, TokensAreLevel DEF Inv, PromiseKept
  <2>2. CASE bucket[k] = None
    BY <2>1, <2>2 DEF Inv, PromiseKept, Level
  <2>3. CASE bucket[k] # None
    <3> DEFINE h == bucket[k]
    <3>1. /\ h.ts <= now /\ h.tokens < Window /\ promise[k] = h.ts + RetryAfter(h.tokens)
          /\ h \in Hash /\ now \in Nat /\ Level[k] = Refilled(h)
      BY <2>3 DEF Inv, TypeOK, PromiseKept, Level
    <3> HIDE DEF h
    <3>2. h.ts \in Nat /\ h.tokens \in Nat
      BY <3>1, Constants DEF Hash
    <3>3. Level[k] = AtMost(h.tokens + Capacity * (now - h.ts), Full)
      BY <3>1, <3>2, RefilledValue
    <3>4. now - h.ts \in Nat /\ Window - h.tokens \in Nat
      BY <3>1, <3>2, Constants
    <3>5. /\ RetryAfter(h.tokens) \in Nat
          /\ now - h.ts >= RetryAfter(h.tokens) <=> Capacity * (now - h.ts) >= Window - h.tokens
      BY <2>1, <3>4, RoundedUp DEF RetryAfter
    <3>6. Capacity * (now - h.ts) \in Nat
      BY <3>4
    <3>7. Level[k] >= Window <=> Capacity * (now - h.ts) >= Window - h.tokens
      BY <2>1, <3>2, <3>3, <3>6, Constants DEF AtMost
    <3>8. now >= promise[k] <=> now - h.ts >= RetryAfter(h.tokens)
      BY <3>1, <3>2, <3>5
    <3> QED BY <2>1, <3>5, <3>7, <3>8
  <2> QED BY <2>2, <2>3
<1> QED BY <1>1, Invariance, PTL
=============================================================================
