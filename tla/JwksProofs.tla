----------------------------- MODULE JwksProofs -----------------------------
(* Proofs about Jwks, for every value of the constants. *)
EXTENDS Jwks, FiniteSetTheorems, WellFoundedInduction, TLAPS

-----------------------------------------------------------------------------
(* Looking a key up. *)

(* Every non-empty set of naturals has a least element. *)
LEMMA Least ==
  ASSUME NEW S, S \subseteq Nat, S # {}
  PROVE  \E i \in S : \A j \in S : i <= j
<1>1. PICK i \in S : \A j \in S : ~(<<j, i>> \in OpToRel(<, Nat))
  BY NatLessThanWellFounded, WFMin
<1>2. ASSUME NEW j \in S PROVE i <= j
  <2>1. <<j, i>> \in OpToRel(<, Nat) <=> j < i
    BY DEF OpToRel
  <2>2. i \in Nat /\ j \in Nat /\ ~(j < i)
    BY <1>1, <2>1
  <2> QED BY <2>2
<1> QED BY <1>2

(* A document is a sequence of entries. *)
LEMMA Documents ==
  ASSUME NEW d \in Document PROVE DOMAIN d \subseteq Nat /\ \A i \in DOMAIN d : d[i] \in Entry
<1>1. d \in Seq([kid : STRING \cup {None}, alg : STRING \cup {None},
                 kty : STRING, whole : BOOLEAN, key : STRING])
  BY JwksAssumption
<1>2. DOMAIN d = 1..Len(d) /\ Len(d) \in Nat
  BY <1>1
<1>3. DOMAIN d \subseteq Nat
  BY <1>2
<1> QED BY <1>3 DEF Entry

(* A key that is found is one of the usable entries of the document. *)
LEMMA LookupFinds ==
  ASSUME NEW keys \in Cached, NEW t, lookup_key(keys, t) # None
  PROVE  /\ \E i \in DOMAIN keys : keys[i] = lookup_key(keys, t)
         /\ lookup_key(keys, t) \in Entry
<1> DEFINE fitting == {i \in DOMAIN keys : Fits(t, keys[i])}
<1>1. DOMAIN keys \subseteq Nat /\ \A i \in DOMAIN keys : keys[i] \in Entry
  <2>1. CASE keys = <<>>
    BY <2>1
  <2>2. ASSUME NEW d \in Document, keys = Usable(d)
        PROVE  DOMAIN keys \subseteq Nat /\ \A i \in DOMAIN keys : keys[i] \in Entry
    BY <2>2, Documents DEF Usable
  <2> QED BY <2>1, <2>2 DEF Cached
<1>2. lookup_key(keys, t) = IF fitting = {} THEN None
                            ELSE keys[CHOOSE i \in fitting : \A j \in fitting : i <= j]
  BY DEF lookup_key
<1>3. fitting # {} /\ fitting \subseteq Nat
  BY <1>1, <1>2
<1>4. \E i \in fitting : \A j \in fitting : i <= j
  BY <1>3, Least
<1> DEFINE m == CHOOSE i \in fitting : \A j \in fitting : i <= j
<1>5. m \in fitting
  BY <1>4
<1> QED BY <1>1, <1>2, <1>3, <1>5

-----------------------------------------------------------------------------
(* The inductive invariant. *)

Working == {"fetching", "fetched"}

(* Nothing is known about a call that has not begun. *)
Begun(c) ==
  IF call[c].stage = "idle" THEN call[c].entry = None /\ call[c].result # "no_key"
  ELSE call[c].started \in Nat /\ call[c].started <= now

(* Who fetches holds the lock, within the timeout of the client. *)
FetchOK(c) ==
  call[c].stage \in Working =>
    /\ holder = c /\ call[c].since \in Nat
    /\ call[c].since <= now /\ now <= call[c].since + FetchTimeout

(* What was fetched was published when the provider answered. *)
BodyOK(c) ==
  call[c].stage = "fetched" =>
    /\ call[c].body \in Document /\ call[c].taken \in Nat
    /\ call[c].since <= call[c].taken /\ call[c].taken <= now
    /\ call[c].body \in PublishedSince(call[c].taken)

FilledSince(t) == cache.fetched_at # None /\ cache.fetched_at.at >= t

(* What a call knows of the cache between its looks at it. *)
CacheKnown(c) ==
  /\ call[c].stage = "stale?" => ~call[c].forced
  /\ call[c].stage = "lookup" => FilledSince(call[c].started - Ttl)
  /\ call[c].stage = "last_lookup" => FilledSince(call[c].started)
  /\ call[c].stage = "waiting" =>
       \/ FilledSince(call[c].started)
       \/ ~call[c].forced /\ cache_is_stale
       \/ call[c].forced /\ cache.fetched_at = call[c].baseline

EntryOK(c) ==
  call[c].entry # None =>
    \E d \in PublishedSince(call[c].started - Ttl - FetchTimeout) :
      \E i \in DOMAIN Usable(d) : Usable(d)[i] = call[c].entry

MissOK(c) ==
  call[c].result = "no_key" =>
    \E d \in PublishedSince(call[c].started - FetchTimeout) :
      lookup_key(Usable(d), call[c].token) = None

CallOK(c) ==
  Begun(c) /\ FetchOK(c) /\ BodyOK(c) /\ CacheKnown(c) /\ EntryOK(c) /\ MissOK(c)

(* The cache is what the provider published at most a fetch before the stamp. *)
CacheOK ==
  cache.fetched_at # None =>
    /\ cache.fetched_at.at <= now /\ cache.taken \in Nat /\ cache.taken <= now
    /\ cache.fetched_at.at <= cache.taken + FetchTimeout
    /\ \E d \in PublishedSince(cache.taken) : cache.keys = Usable(d)

HistoryOK == \A d \in Document : last[d] # None => last[d] <= now

Inv == TypeOK /\ CacheOK /\ HistoryOK /\ \A c \in Caller : CallOK(c)

(* How the shared state may move on under a call that does not move. *)
Later ==
  /\ now' \in Nat /\ now <= now'
  /\ \A t \in Int : t <= now => PublishedSince(t) \subseteq PublishedSince(t)'
  /\ \/ cache' = cache
     \/ cache'.fetched_at # None /\ cache'.fetched_at.at = now /\ now' = now

(* What was published since then stays so. *)
LEMMA StillPublished ==
  ASSUME Inv, now' \in Nat, now <= now',
         UNCHANGED <<document, last>> \/ Rotate, NEW t \in Int, t <= now
  PROVE  PublishedSince(t) \subseteq PublishedSince(t)'
<1>1. now \in Nat /\ document \in Document /\ last \in [Document -> Nat \cup {None}]
  BY DEF Inv, TypeOK
<1>2. CASE UNCHANGED <<document, last>>
  BY <1>2 DEF PublishedSince
<1>3. CASE Rotate
  <2>1. last' = [last EXCEPT ![document] = now] /\ now # None
    BY <1>1, <1>3, JwksAssumption DEF Rotate
  <2>2. last'[document] = now /\ \A d \in Document \ {document} : last'[d] = last[d]
    BY <1>1, <2>1
  <2> QED BY <1>1, <2>1, <2>2 DEF PublishedSince
<1> QED BY <1>2, <1>3

(* A call that does not move keeps its part of the invariant. *)
LEMMA Stable ==
  ASSUME Inv, Later, NEW c \in Caller, call'[c] = call[c],
         holder = c => holder' = holder,
         call[c].stage \in Working => now' <= call[c].since + FetchTimeout
  PROVE  CallOK(c)'
<1>1. CallOK(c) /\ now \in Nat /\ now' \in Nat /\ now <= now'
  BY DEF Inv, TypeOK, Later
<1>2. call[c].stage # "idle" => call[c].started \in Nat /\ call[c].started <= now
  BY <1>1 DEF CallOK, Begun
<1>3. Begun(c)'
  <2>1. CASE call[c].stage = "idle"
    BY <1>1, <2>1 DEF CallOK, Begun
  <2>2. CASE call[c].stage # "idle"
    BY <1>1, <1>2, <2>2 DEF Begun
  <2> QED BY <2>1, <2>2
<1>4. FetchOK(c)'
  <2> SUFFICES ASSUME call[c].stage \in Working PROVE FetchOK(c)'
    BY DEF FetchOK
  <2>1. holder = c /\ call[c].since \in Nat /\ call[c].since <= now
    BY <1>1 DEF CallOK, FetchOK
  <2> QED BY <1>1, <2>1 DEF FetchOK
<1>5. BodyOK(c)'
  <2> SUFFICES ASSUME call[c].stage = "fetched" PROVE BodyOK(c)'
    BY DEF BodyOK
  <2>1. /\ call[c].body \in Document /\ call[c].taken \in Nat
        /\ call[c].since <= call[c].taken /\ call[c].taken <= now
        /\ call[c].body \in PublishedSince(call[c].taken)
    BY <1>1 DEF CallOK, BodyOK
  <2>2. call[c].taken \in Int
    BY <2>1
  <2>3. PICK t \in Int : t = call[c].taken
    BY <2>2
  <2>4. PublishedSince(t) \subseteq PublishedSince(t)'
    BY <2>1, <2>3 DEF Later
  <2>5. (call[c].body \in PublishedSince(call[c].taken))'
    BY <2>1, <2>3, <2>4 DEF PublishedSince
  <2>6. call'[c].taken <= now'
    BY <1>1, <2>1
  <2> QED BY <2>1, <2>5, <2>6 DEF BodyOK
<1>6. CacheKnown(c)'
  <2>1. CacheKnown(c)
    BY <1>1 DEF CallOK
  <2>2. CASE cache' = cache
    <3>1. cache_is_stale => cache_is_stale'
      <4>1. cache.fetched_at # None => cache.fetched_at.at \in Nat
        BY DEF Inv, TypeOK
      <4>2. Ttl \in Nat
        BY JwksAssumption
      <4> QED BY <1>1, <2>2, <4>1, <4>2 DEF cache_is_stale
    <3>2. \A t : FilledSince(t) => FilledSince(t)'
      BY <2>2 DEF FilledSince
    <3> QED BY <2>1, <2>2, <3>1, <3>2 DEF CacheKnown, FilledSince
  <2>3. CASE cache'.fetched_at # None /\ cache'.fetched_at.at = now
    <3>1. call[c].stage # "idle" => now >= call[c].started /\ now >= call[c].started - Ttl
      BY <1>1, <1>2, JwksAssumption
    <3>2. call[c].stage = "stale?" => ~call[c].forced
      BY <2>1 DEF CacheKnown
    <3> QED BY <2>3, <3>1, <3>2 DEF CacheKnown, FilledSince
  <2> QED BY <2>2, <2>3 DEF Later
<1>7. EntryOK(c)'
  <2> SUFFICES ASSUME call[c].entry # None PROVE EntryOK(c)'
    BY DEF EntryOK
  <2>1. call[c].started \in Nat /\ call[c].started <= now
    BY <1>1 DEF CallOK, Begun
  <2>2. PICK t \in Int : t = call[c].started - Ttl - FetchTimeout
    BY <2>1, JwksAssumption
  <2>3. t <= now
    BY <1>1, <2>1, <2>2, JwksAssumption
  <2>4. PublishedSince(t) \subseteq PublishedSince(t)'
    BY <2>3 DEF Later
  <2>5. PICK d \in PublishedSince(t) : \E i \in DOMAIN Usable(d) : Usable(d)[i] = call[c].entry
    BY <1>1, <2>2 DEF CallOK, EntryOK
  <2>6. (d \in PublishedSince(call[c].started - Ttl - FetchTimeout))'
    BY <2>2, <2>4, <2>5 DEF PublishedSince
  <2> QED BY <2>5, <2>6 DEF EntryOK, Usable
<1>8. MissOK(c)'
  <2> SUFFICES ASSUME call[c].result = "no_key" PROVE MissOK(c)'
    BY DEF MissOK
  <2>1. call[c].started \in Nat /\ call[c].started <= now
    BY <1>1 DEF CallOK, Begun
  <2>2. PICK t \in Int : t = call[c].started - FetchTimeout
    BY <2>1, JwksAssumption
  <2>3. t <= now
    BY <1>1, <2>1, <2>2, JwksAssumption
  <2>4. PublishedSince(t) \subseteq PublishedSince(t)'
    BY <2>3 DEF Later
  <2>5. PICK d \in PublishedSince(t) : lookup_key(Usable(d), call[c].token) = None
    BY <1>1, <2>2 DEF CallOK, MissOK
  <2>6. (d \in PublishedSince(call[c].started - FetchTimeout))'
    BY <2>2, <2>4, <2>5 DEF PublishedSince
  <2> QED BY <2>5, <2>6 DEF MissOK
<1> QED BY <1>3, <1>4, <1>5, <1>6, <1>7, <1>8 DEF CallOK

-----------------------------------------------------------------------------
(* The steps. *)

CallType == [stage : Stage, token : Token \cup {None}, forced : BOOLEAN,
             baseline : [at : Nat, nth : Nat] \cup {None},
             since : Nat \cup {None}, body : Document \cup {None},
             taken : Nat \cup {None}, result : Result,
             entry : Entry \cup {None}, started : Nat \cup {None}]

LEMMA FreshType == Fresh \in CallType
  BY DEF Fresh, CallType, Stage, Result

(* The types of a call that begins, of one that ends, and of one whose fetch *)
(* was applied.                                                             *)
LEMMA BegunType ==
  ASSUME NEW t \in Token \cup {None}, NEW n \in Nat, NEW r \in Result, NEW s \in Stage
  PROVE  [Fresh EXCEPT !.token = t, !.started = n, !.result = r, !.stage = s] \in CallType
BY DEF Fresh, CallType

LEMMA EndedType ==
  ASSUME NEW s \in Stage, NEW r \in Result, NEW e \in Entry \cup {None},
         NEW t \in Token \cup {None}, NEW n \in Nat
  PROVE  [Fresh EXCEPT !.stage = s, !.result = r, !.entry = e, !.token = t,
                       !.started = n] \in CallType
BY DEF Fresh, CallType

LEMMA AppliedType ==
  ASSUME NEW v \in CallType
  PROVE  [v EXCEPT !.stage = "last_lookup", !.since = None, !.body = None,
                   !.taken = None] \in CallType
BY DEF CallType, Stage

(* A step of one call that leaves clock, provider and cache alone: what is  *)
(* left to show is the part of that call.                                   *)
LEMMA OneCall ==
  ASSUME Inv, NEW c \in Caller, NEW v \in CallType, Become(c, v),
         UNCHANGED <<mode, now, document, cache, rotations, last>>,
         faults' \in Nat, holder' \in Caller \cup {None},
         holder # c /\ holder # None => holder' = holder,
         CallOK(c)'
  PROVE  Inv'
<1>1. call \in [Caller -> CallType]
  BY DEF Inv, TypeOK, CallType
<1>2. call' = [call EXCEPT ![c] = v] /\ call' \in [Caller -> CallType]
  BY <1>1 DEF Become
<1>3. TypeOK'
  BY <1>2 DEF Inv, TypeOK, CallType
<1>4. CacheOK' /\ HistoryOK'
  BY DEF Inv, CacheOK, HistoryOK, PublishedSince
<1>5. Later
  <2>1. now \in Nat
    BY DEF Inv, TypeOK
  <2> QED BY <2>1 DEF Later, PublishedSince
<1>6. ASSUME NEW d \in Caller, d # c PROVE CallOK(d)'
  <2>1. call'[d] = call[d]
    BY <1>1, <1>2, <1>6
  <2>2. holder = d => holder' = holder
    <3>1. d # None
      BY JwksAssumption
    <3> QED BY <1>6, <3>1
  <2>3. call[d].stage \in Working => now' <= call[d].since + FetchTimeout
    BY DEF Inv, CallOK, FetchOK
  <2> QED BY <1>5, <2>1, <2>2, <2>3, Stable
<1> QED BY <1>3, <1>4, <1>6 DEF Inv

(* What is in the cache was published since then. *)
LEMMA CacheIsRecent ==
  ASSUME Inv, NEW t \in Int, FilledSince(t)
  PROVE  \E d \in PublishedSince(t - FetchTimeout) : cache.keys = Usable(d)
<1>1. /\ cache.fetched_at # None /\ cache.fetched_at.at >= t /\ cache.taken \in Nat
      /\ cache.fetched_at.at <= cache.taken + FetchTimeout
  BY DEF Inv, CacheOK, FilledSince
<1>2. cache.fetched_at.at \in Nat /\ FetchTimeout \in Nat
  BY <1>1, JwksAssumption DEF Inv, TypeOK
<1>3. cache.taken >= t - FetchTimeout
  BY <1>1, <1>2
<1>4. PICK d \in PublishedSince(cache.taken) : cache.keys = Usable(d)
  BY <1>1 DEF Inv, CacheOK
<1>5. last[d] # None => last[d] \in Nat
  BY <1>4 DEF Inv, TypeOK, PublishedSince
<1>6. d \in PublishedSince(t - FetchTimeout)
  BY <1>1, <1>2, <1>3, <1>4, <1>5 DEF PublishedSince
<1> QED BY <1>4, <1>6

(* A call ends. *)
LEMMA EndStep ==
  ASSUME Inv, NEW c \in Caller, call[c].stage # "idle",
         NEW s \in {"done", "gone"}, NEW r \in Result, NEW e \in Entry \cup {None},
         End(c, s, r, e),
         UNCHANGED <<mode, now, document, cache, rotations, last>>,
         faults' \in Nat, holder' \in Caller \cup {None},
         holder # c /\ holder # None => holder' = holder,
         e # None => \E d \in PublishedSince(call[c].started - Ttl - FetchTimeout) :
                       \E i \in DOMAIN Usable(d) : Usable(d)[i] = e,
         r = "no_key" => \E d \in PublishedSince(call[c].started - FetchTimeout) :
                           lookup_key(Usable(d), call[c].token) = None
  PROVE  Inv'
<1> DEFINE v == [Fresh EXCEPT !.stage = s, !.result = r, !.entry = e,
                              !.token = call[c].token, !.started = call[c].started]
<1>1. call \in [Caller -> CallType] /\ now \in Nat
  BY DEF Inv, TypeOK, CallType
<1>2. call[c] \in CallType /\ call[c].started \in Nat /\ call[c].started <= now
  BY <1>1 DEF Inv, CallOK, Begun
<1>3. v \in CallType
  <2>1. call[c].token \in Token \cup {None}
    BY <1>2 DEF CallType
  <2>2. s \in Stage
    BY DEF Stage
  <2> QED BY <1>2, <2>1, <2>2, EndedType, Zenon
<1>4. Become(c, v)
  BY DEF End
<1>5. /\ v.stage = s /\ v.result = r /\ v.entry = e
      /\ v.token = call[c].token /\ v.started = call[c].started
  BY FreshType DEF Fresh
<1> HIDE DEF v
<1>6. call'[c] = v
  BY <1>1, <1>4 DEF Become
<1>7. Begun(c)' /\ FetchOK(c)' /\ BodyOK(c)' /\ CacheKnown(c)'
  BY <1>2, <1>5, <1>6 DEF Begun, FetchOK, BodyOK, CacheKnown, Working
<1>8. EntryOK(c)' /\ MissOK(c)'
  BY <1>5, <1>6 DEF EntryOK, MissOK, PublishedSince
<1> QED BY <1>3, <1>4, <1>7, <1>8, OneCall DEF CallOK

LEMMA StartStep == ASSUME Inv, NEW c \in Caller, Start(c) PROVE Inv'
<1>1. PICK t \in Token :
        Become(c, [Fresh EXCEPT !.token = t, !.started = now, !.result = AtOnce(t),
                                !.stage = IF AtOnce(t) = "none" THEN "stale?" ELSE "done"])
  BY DEF Start
<1> DEFINE v == [Fresh EXCEPT !.token = t, !.started = now, !.result = AtOnce(t),
                              !.stage = IF AtOnce(t) = "none" THEN "stale?" ELSE "done"]
<1>2. AtOnce(t) \in Result \ {"no_key"}
  BY DEF AtOnce, Result
<1>3. call \in [Caller -> CallType] /\ now \in Nat
  BY DEF Inv, TypeOK, CallType
<1>4. v \in CallType
  <2> DEFINE r == AtOnce(t)
             s == IF r = "none" THEN "stale?" ELSE "done"
  <2>1. r \in Result /\ s \in Stage /\ t \in Token \cup {None} /\ now \in Nat
    BY <1>2, <1>3 DEF Stage
  <2> HIDE DEF r, s
  <2>2. [Fresh EXCEPT !.token = t, !.started = now, !.result = r, !.stage = s] \in CallType
    BY <2>1, BegunType, Zenon
  <2> QED BY <2>2 DEF r, s
<1>5. /\ v.stage \in {"stale?", "done"} /\ v.started = now /\ v.entry = None
      /\ v.result # "no_key" /\ v.forced = FALSE
  BY <1>2 DEF Fresh
<1> HIDE DEF v
<1>6. call'[c] = v
  BY <1>1, <1>3 DEF Become, v
<1>7. CallOK(c)'
  <2>1. UNCHANGED now
    BY DEF Start
  <2>2. v.stage # "idle" /\ v.stage \notin Working
    BY <1>5 DEF Working
  <2>3. Begun(c)'
    BY <1>3, <1>5, <1>6, <2>1, <2>2 DEF Begun
  <2>4. FetchOK(c)'
    BY <1>6, <2>2 DEF FetchOK
  <2>5. BodyOK(c)'
    BY <1>6, <1>5 DEF BodyOK
  <2>6. CacheKnown(c)'
    BY <1>5, <1>6 DEF CacheKnown
  <2>7. EntryOK(c)' /\ MissOK(c)'
    BY <1>5, <1>6 DEF EntryOK, MissOK
  <2> QED BY <2>3, <2>4, <2>5, <2>6, <2>7 DEF CallOK
<1>8. Become(c, v)
  BY <1>1 DEF v
<1> QED BY <1>4, <1>7, <1>8, OneCall DEF Start, Inv, TypeOK

(* A call that moves between two looks at the cache. *)
LEMMA MoveStep ==
  ASSUME Inv, NEW c \in Caller, call[c].stage \in {"stale?", "lookup", "baseline", "waiting"},
         NEW v \in CallType, Become(c, v),
         v.stage \in {"lookup", "baseline", "waiting", "last_lookup"},
         v.token = call[c].token, v.started = call[c].started,
         v.result = call[c].result, v.entry = call[c].entry,
         UNCHANGED <<mode, now, document, cache, holder, rotations, faults, last>>,
         v.stage = "lookup" => FilledSince(v.started - Ttl),
         v.stage = "last_lookup" => FilledSince(v.started),
         v.stage = "waiting" => \/ FilledSince(v.started)
                                \/ ~v.forced /\ cache_is_stale
                                \/ v.forced /\ cache.fetched_at = v.baseline
  PROVE  Inv'
<1>1. call \in [Caller -> CallType] /\ CallOK(c)
  BY DEF Inv, TypeOK, CallType
<1>2. call'[c] = v
  BY <1>1 DEF Become
<1>3. Begun(c)' /\ FetchOK(c)' /\ BodyOK(c)'
  BY <1>1, <1>2 DEF CallOK, Begun, FetchOK, BodyOK, Working
<1>4. CacheKnown(c)'
  BY <1>2 DEF CacheKnown, FilledSince, cache_is_stale
<1>5. EntryOK(c)' /\ MissOK(c)'
  BY <1>1, <1>2 DEF CallOK, EntryOK, MissOK, PublishedSince
<1> QED BY <1>3, <1>4, <1>5, OneCall DEF CallOK, Inv, TypeOK

LEMMA CheckStaleStep == ASSUME Inv, NEW c \in Caller, CheckStale(c) PROVE Inv'
<1> DEFINE v == [call[c] EXCEPT !.stage = IF cache_is_stale THEN "waiting" ELSE "lookup"]
<1>1. call[c] \in CallType /\ CallOK(c) /\ call[c].stage = "stale?"
  BY DEF Inv, TypeOK, CallType, CheckStale, At
<1>2. v \in CallType /\ Become(c, v)
  BY <1>1 DEF CheckStale, CallType, Stage
<1>3. /\ v.stage = IF cache_is_stale THEN "waiting" ELSE "lookup"
      /\ v.token = call[c].token /\ v.started = call[c].started
      /\ v.result = call[c].result /\ v.entry = call[c].entry /\ v.forced = call[c].forced
  BY <1>1 DEF CallType
<1> HIDE DEF v
<1>4. ~v.forced
  BY <1>1, <1>3 DEF CallOK, CacheKnown
<1>5. ~cache_is_stale => FilledSince(v.started - Ttl)
  <2>1. v.started \in Nat /\ v.started <= now /\ now \in Nat /\ Ttl \in Nat
    BY <1>1, <1>3, JwksAssumption DEF CallOK, Begun, Inv, TypeOK
  <2>2. cache.fetched_at # None => cache.fetched_at.at \in Nat
    BY DEF Inv, TypeOK
  <2> QED BY <2>1, <2>2 DEF cache_is_stale, FilledSince
<1> QED BY <1>1, <1>2, <1>3, <1>4, <1>5, MoveStep DEF CheckStale

(* The cache was filled a TTL before any instant it was filled since. *)
LEMMA FilledEarlier ==
  ASSUME Inv, NEW s \in Nat
  PROVE  s - Ttl \in Int /\ (FilledSince(s) => FilledSince(s - Ttl))
<1>1. cache.fetched_at # None => cache.fetched_at.at \in Nat
  BY DEF Inv, TypeOK
<1> QED BY <1>1, JwksAssumption DEF FilledSince

(* A call decodes with a key out of the cache. *)
LEMMA DecodeStep ==
  ASSUME Inv, NEW c \in Caller, call[c].stage \in {"lookup", "last_lookup"},
         lookup_key(cache.keys, call[c].token) # None,
         Decode(c, lookup_key(cache.keys, call[c].token)),
         UNCHANGED <<mode, now, document, cache, holder, rotations, faults, last>>
  PROVE  Inv'
<1> DEFINE e == lookup_key(cache.keys, call[c].token)
<1> DEFINE t == call[c].started - Ttl
<1>1. call[c].started \in Nat
  BY DEF Inv, CallOK, Begun
<1>2. FilledSince(t) \/ FilledSince(call[c].started)
  BY DEF Inv, CallOK, CacheKnown
<1>3. t \in Int /\ FilledSince(t)
  BY <1>1, <1>2, FilledEarlier, Zenon
<1>4. PICK d \in PublishedSince(t - FetchTimeout) : cache.keys = Usable(d)
  BY <1>3, CacheIsRecent
<1>5. cache.keys \in Cached
  BY DEF Inv, TypeOK
<1>6. e \in Entry /\ \E i \in DOMAIN Usable(d) : Usable(d)[i] = e
  BY <1>4, <1>5, LookupFinds
<1> HIDE DEF e
<1>7. PICK r \in {"ok", "rejected"} : End(c, "done", r, e)
  BY DEF Decode, e
<1>8. \E x \in PublishedSince(call[c].started - Ttl - FetchTimeout) :
         \E i \in DOMAIN Usable(x) : Usable(x)[i] = e
  BY <1>4, <1>6
<1>9. holder \in Caller \cup {None} /\ faults \in Nat
  BY DEF Inv, TypeOK
<1>10. r \in Result /\ r # "no_key"
  BY <1>7 DEF Result
<1> QED BY <1>6, <1>7, <1>8, <1>9, <1>10, EndStep

LEMMA LookupStep == ASSUME Inv, NEW c \in Caller, Lookup(c) PROVE Inv'
<1>1. call[c] \in CallType /\ CallOK(c) /\ call[c].stage = "lookup"
  BY DEF Inv, TypeOK, CallType, Lookup, At
<1>2. CASE lookup_key(cache.keys, call[c].token) # None
  BY <1>1, <1>2, DecodeStep DEF Lookup
<1>3. CASE lookup_key(cache.keys, call[c].token) = None
  <2> DEFINE v == [call[c] EXCEPT !.stage = "baseline"]
  <2>1. v \in CallType /\ Become(c, v)
    BY <1>1, <1>3 DEF Lookup, CallType, Stage
  <2>2. /\ v.stage = "baseline" /\ v.token = call[c].token /\ v.started = call[c].started
        /\ v.result = call[c].result /\ v.entry = call[c].entry
    BY <1>1 DEF CallType
  <2> HIDE DEF v
  <2> QED BY <1>1, <2>1, <2>2, MoveStep DEF Lookup
<1> QED BY <1>2, <1>3

LEMMA BaselineStep == ASSUME Inv, NEW c \in Caller, Baseline(c) PROVE Inv'
<1> DEFINE v == [call[c] EXCEPT !.stage = "waiting", !.forced = TRUE,
                                !.baseline = cache.fetched_at]
<1>1. call[c] \in CallType /\ call[c].stage = "baseline"
  BY DEF Inv, TypeOK, CallType, Baseline, At
<1>2. cache.fetched_at \in [at : Nat, nth : Nat] \cup {None}
  BY DEF Inv, TypeOK
<1>3. v \in CallType /\ Become(c, v)
  BY <1>1, <1>2 DEF Baseline, CallType, Stage
<1>4. /\ v.stage = "waiting" /\ v.token = call[c].token /\ v.started = call[c].started
      /\ v.result = call[c].result /\ v.entry = call[c].entry
      /\ v.forced = TRUE /\ v.baseline = cache.fetched_at
  BY <1>1 DEF CallType
<1> HIDE DEF v
<1> QED BY <1>1, <1>3, <1>4, MoveStep DEF Baseline

LEMMA PiggyBackStep == ASSUME Inv, NEW c \in Caller, PiggyBack(c) PROVE Inv'
<1> DEFINE v == [call[c] EXCEPT !.stage = "last_lookup"]
<1>1. call[c] \in CallType /\ CallOK(c) /\ call[c].stage = "waiting"
  BY DEF Inv, TypeOK, CallType, PiggyBack, At
<1>2. v \in CallType /\ Become(c, v)
  BY <1>1 DEF PiggyBack, CallType, Stage
<1>3. /\ v.stage = "last_lookup" /\ v.token = call[c].token /\ v.started = call[c].started
      /\ v.result = call[c].result /\ v.entry = call[c].entry
  BY <1>1 DEF CallType
<1> HIDE DEF v
<1>4. FilledSince(call[c].started)
  BY <1>1 DEF CallOK, CacheKnown, PiggyBack, Refreshed
<1> QED BY <1>1, <1>2, <1>3, <1>4, MoveStep DEF PiggyBack

(* A call that holds the lock goes on. *)
LEMMA HolderStep ==
  ASSUME Inv, NEW c \in Caller, call[c].stage # "idle",
         NEW v \in CallType, Become(c, v), v.stage \in Working,
         v.started = call[c].started, v.token = call[c].token,
         v.result = call[c].result, v.entry = call[c].entry,
         UNCHANGED <<mode, now, document, cache, rotations, faults, last>>,
         holder \in {c, None}, holder' = c,
         v.since \in Nat, v.since <= now, now <= v.since + FetchTimeout,
         v.stage = "fetched" =>
           v.body = document /\ v.taken = now
  PROVE  Inv'
<1>1. call \in [Caller -> CallType] /\ CallOK(c) /\ now \in Nat /\ document \in Document
  BY DEF Inv, TypeOK, CallType
<1>2. call'[c] = v
  BY <1>1 DEF Become
<1>3. Begun(c)'
  BY <1>1, <1>2 DEF CallOK, Begun, Working
<1>4. FetchOK(c)'
  BY <1>2 DEF FetchOK
<1>5. BodyOK(c)'
  BY <1>1, <1>2 DEF BodyOK, PublishedSince
<1>6. CacheKnown(c)'
  BY <1>2 DEF CacheKnown, Working
<1>7. EntryOK(c)' /\ MissOK(c)'
  BY <1>1, <1>2 DEF CallOK, EntryOK, MissOK, PublishedSince
<1> QED BY <1>3, <1>4, <1>5, <1>6, <1>7, OneCall DEF CallOK, Inv, TypeOK

LEMMA StartFetchStep == ASSUME Inv, NEW c \in Caller, StartFetch(c) PROVE Inv'
<1>1. /\ call[c] \in CallType /\ CallOK(c) /\ call[c].stage = "waiting" /\ holder = None
      /\ now \in Nat /\ faults \in Nat
  BY DEF Inv, TypeOK, CallType, StartFetch, At
<1>2. CASE mode = "no_url"
  <2>1. End(c, "done", "no_url", None) /\ holder' = holder
    BY <1>2 DEF StartFetch, Return
  <2> QED BY <1>1, <2>1, EndStep DEF StartFetch, Result
<1>3. CASE mode # "no_url"
  <2> DEFINE v == [call[c] EXCEPT !.stage = "fetching", !.since = now]
  <2>1. v \in CallType /\ Become(c, v) /\ holder' = c
    BY <1>1, <1>3 DEF StartFetch, CallType, Stage, Hold
  <2>2. /\ v.stage = "fetching" /\ v.since = now /\ v.token = call[c].token
        /\ v.started = call[c].started /\ v.result = call[c].result /\ v.entry = call[c].entry
    BY <1>1 DEF CallType
  <2> HIDE DEF v
  <2>3. now <= now + FetchTimeout
    BY <1>1, JwksAssumption
  <2> QED BY <1>1, <2>1, <2>2, <2>3, HolderStep DEF StartFetch, Working
<1> QED BY <1>2, <1>3

LEMMA RespondStep == ASSUME Inv, NEW c \in Caller, Respond(c) PROVE Inv'
<1>1. /\ call[c] \in CallType /\ CallOK(c) /\ call[c].stage = "fetching"
      /\ now \in Nat /\ document \in Document
  BY DEF Inv, TypeOK, CallType, Respond, At
<1>2. /\ holder = c /\ call[c].since \in Nat
      /\ call[c].since <= now /\ now <= call[c].since + FetchTimeout
  BY <1>1 DEF CallOK, FetchOK, Working
<1> DEFINE v == [call[c] EXCEPT !.stage = "fetched", !.body = document, !.taken = now]
<1>3. v \in CallType /\ Become(c, v)
  BY <1>1 DEF Respond, CallType, Stage
<1>4. /\ v.stage = "fetched" /\ v.since = call[c].since /\ v.body = document /\ v.taken = now
      /\ v.token = call[c].token /\ v.started = call[c].started
      /\ v.result = call[c].result /\ v.entry = call[c].entry
  BY <1>1 DEF CallType
<1> HIDE DEF v
<1> QED BY <1>1, <1>2, <1>3, <1>4, HolderStep DEF Respond, Working

LEMMA FailStep ==
  ASSUME Inv, NEW c \in Caller, FetchFails(c) \/ FetchTimesOut(c) PROVE Inv'
<1>1. call[c].stage \in Working /\ CallOK(c) /\ faults \in Nat
  BY DEF Inv, TypeOK, FetchFails, FetchTimesOut, Working
<1>2. holder = c /\ holder' = None
  BY <1>1 DEF CallOK, FetchOK, FetchFails, FetchTimesOut, Release
<1>3. End(c, "done", "fetch_failed", None) /\ faults' \in Nat
  BY <1>1 DEF FetchFails, FetchTimesOut, Return, Fault
<1>4. UNCHANGED <<mode, now, document, cache, rotations, last>>
  BY DEF FetchFails, FetchTimesOut
<1>5. call[c].stage # "idle" /\ "fetch_failed" \in Result
  BY <1>1 DEF Working, Result
<1> QED BY <1>2, <1>3, <1>4, <1>5, EndStep

LEMMA LastLookupStep == ASSUME Inv, NEW c \in Caller, LastLookup(c) PROVE Inv'
<1>1. /\ call[c] \in CallType /\ CallOK(c) /\ call[c].stage = "last_lookup"
      /\ faults \in Nat /\ holder \in Caller \cup {None}
  BY DEF Inv, TypeOK, CallType, LastLookup, At
<1>2. CASE lookup_key(cache.keys, call[c].token) # None
  BY <1>1, <1>2, DecodeStep DEF LastLookup
<1>3. CASE lookup_key(cache.keys, call[c].token) = None
  <2>1. End(c, "done", "no_key", None)
    BY <1>3 DEF LastLookup, Return
  <2>2. call[c].started \in Int /\ FilledSince(call[c].started)
    <3>1. FilledSince(call[c].started)
      BY <1>1 DEF CallOK, CacheKnown
    <3>2. call[c].started \in Nat
      BY <1>1 DEF CallOK, Begun
    <3> QED BY <3>1, <3>2
  <2>3. PICK d \in PublishedSince(call[c].started - FetchTimeout) : cache.keys = Usable(d)
    BY <2>2, CacheIsRecent
  <2>4. \E x \in PublishedSince(call[c].started - FetchTimeout) :
          lookup_key(Usable(x), call[c].token) = None
    BY <1>3, <2>3
  <2>5. "no_key" \in Result
    BY DEF Result
  <2>6. UNCHANGED <<mode, now, document, cache, holder, rotations, faults, last>>
    BY DEF LastLookup
  <2> QED BY <1>1, <2>1, <2>4, <2>5, <2>6, EndStep
<1> QED BY <1>2, <1>3

LEMMA DropStep == ASSUME Inv, NEW c \in Caller, Drop(c) PROVE Inv'
<1>1. call[c].stage # "idle" /\ faults \in Nat /\ holder \in Caller \cup {None}
  BY DEF Inv, TypeOK, Drop
<1>2. End(c, "gone", "none", None) /\ "none" \in Result
  BY DEF Drop, Result
<1>3. /\ UNCHANGED <<mode, now, document, cache, rotations, last>> /\ faults' \in Nat
      /\ holder' = IF holder = c THEN None ELSE holder
  BY <1>1 DEF Drop, Fault
<1> QED BY <1>1, <1>2, <1>3, EndStep

-----------------------------------------------------------------------------
(* The steps that change what the calls share. *)

LEMMA ApplyStep == ASSUME Inv, NEW c \in Caller, Apply(c) PROVE Inv'
<1>1. /\ call \in [Caller -> CallType] /\ CallOK(c) /\ call[c].stage = "fetched"
      /\ now \in Nat /\ document \in Document /\ FetchTimeout \in Nat
  BY JwksAssumption DEF Inv, TypeOK, CallType, Apply, At
<1>2. /\ holder = c /\ call[c].since \in Nat
      /\ call[c].since <= now /\ now <= call[c].since + FetchTimeout
  BY <1>1 DEF CallOK, FetchOK, Working
<1>3. /\ call[c].body \in Document /\ call[c].taken \in Nat
      /\ call[c].since <= call[c].taken /\ call[c].taken <= now
      /\ call[c].body \in PublishedSince(call[c].taken)
  BY <1>1 DEF CallOK, BodyOK
<1>4. UNCHANGED <<mode, now, document, rotations, faults, last>> /\ holder' = None
  BY DEF Apply
<1>5. cache' = [keys |-> Usable(call[c].body), fetched_at |-> Stamp, taken |-> call[c].taken]
  BY DEF Apply, NewKeys
<1>6. Stamp \in [at : Nat, nth : Nat] /\ Stamp.at = now /\ Stamp # None
  <2>1. cache.fetched_at # None => cache.fetched_at.nth \in Nat
    BY DEF Inv, TypeOK
  <2>2. Stamp \in [at : Nat, nth : Nat] /\ Stamp.at = now
    BY <1>1, <2>1 DEF Stamp
  <2> QED BY <2>2, JwksAssumption
<1> DEFINE v == [call[c] EXCEPT !.stage = "last_lookup", !.since = None, !.body = None,
                                !.taken = None]
<1>7. v \in CallType /\ call' = [call EXCEPT ![c] = v]
  <2>1. call[c] \in CallType
    BY <1>1
  <2>2. v \in CallType
    BY <2>1, AppliedType, Zenon
  <2>3. call' = [call EXCEPT ![c] = v]
    BY DEF Apply, Become
  <2> QED BY <2>2, <2>3
<1>8. /\ v.stage = "last_lookup" /\ v.token = call[c].token /\ v.started = call[c].started
      /\ v.result = call[c].result /\ v.entry = call[c].entry
  BY <1>1 DEF CallType
<1> HIDE DEF v
<1>9. call'[c] = v /\ call' \in [Caller -> CallType]
  BY <1>1, <1>7
<1>10. cache' \in [keys : Cached, fetched_at : [at : Nat, nth : Nat] \cup {None},
                   taken : Nat \cup {None}]
  BY <1>3, <1>5, <1>6 DEF Cached
<1>11. TypeOK'
  BY <1>4, <1>9, <1>10 DEF Inv, TypeOK, CallType
<1>12. CacheOK'
  <2>1. cache'.fetched_at.at = now /\ cache'.taken = call[c].taken
        /\ cache'.keys = Usable(call[c].body)
    BY <1>5, <1>6
  <2>3. \E d \in PublishedSince(cache.taken)' : cache'.keys = Usable(d)
    <3>1. PublishedSince(cache.taken)' = PublishedSince(call[c].taken)
      BY <1>4, <2>1 DEF PublishedSince
    <3> QED BY <1>3, <2>1, <3>1
  <2>4. now <= call[c].taken + FetchTimeout
    BY <1>1, <1>2, <1>3
  <2> QED BY <1>1, <1>3, <1>4, <2>1, <2>3, <2>4 DEF CacheOK, Usable
<1>13. HistoryOK'
  BY <1>4 DEF Inv, HistoryOK
<1>14. Later
  <2>1. cache'.fetched_at # None /\ cache'.fetched_at.at = now
    BY <1>5, <1>6
  <2> QED BY <1>1, <1>4, <2>1 DEF Later, PublishedSince
<1>15. ASSUME NEW d \in Caller, d # c PROVE CallOK(d)'
  <2>1. call'[d] = call[d] /\ holder # d
    BY <1>1, <1>2, <1>7, <1>15
  <2>2. call[d].stage \in Working => now' <= call[d].since + FetchTimeout
    BY <1>4 DEF Inv, CallOK, FetchOK
  <2> QED BY <1>14, <2>1, <2>2, Stable
<1>16. CallOK(c)'
  <2>1. Begun(c)'
    BY <1>1, <1>4, <1>8, <1>9 DEF CallOK, Begun
  <2>2. FetchOK(c)' /\ BodyOK(c)'
    BY <1>8, <1>9 DEF FetchOK, BodyOK, Working
  <2>3. CacheKnown(c)'
    <3>1. call[c].started \in Nat /\ call[c].started <= now
      BY <1>1 DEF CallOK, Begun
    <3>2. cache'.fetched_at # None /\ cache'.fetched_at.at = now
      BY <1>5, <1>6
    <3> QED BY <1>1, <1>8, <1>9, <3>1, <3>2 DEF CacheKnown, FilledSince
  <2>4. EntryOK(c)' /\ MissOK(c)'
    BY <1>1, <1>4, <1>8, <1>9 DEF CallOK, EntryOK, MissOK, PublishedSince
  <2> QED BY <2>1, <2>2, <2>3, <2>4 DEF CallOK
<1> QED BY <1>11, <1>12, <1>13, <1>15, <1>16 DEF Inv

(* The clock and the provider move on, and no call does. *)
LEMMA WorldStep ==
  ASSUME Inv, UNCHANGED <<mode, cache, holder, call, faults>>,
         now' \in Nat, now <= now', rotations' \in Nat, document' \in Document,
         last' \in [Document -> Nat \cup {None}],
         \A d \in Document : last'[d] # None => last'[d] <= now',
         UNCHANGED <<document, last>> \/ Rotate,
         \A c \in Caller : call[c].stage \in Working => now' <= call[c].since + FetchTimeout
  PROVE  Inv'
<1>1. now \in Nat
  BY DEF Inv, TypeOK
<1>2. TypeOK' /\ HistoryOK'
  BY DEF Inv, TypeOK, HistoryOK
<1>3. \A t \in Int : t <= now => PublishedSince(t) \subseteq PublishedSince(t)'
  BY StillPublished
<1>4. Later
  BY <1>3 DEF Later
<1>5. \A c \in Caller : CallOK(c)'
  BY <1>4, Stable
<1>6. CacheOK'
  <2> SUFFICES ASSUME cache.fetched_at # None PROVE CacheOK'
    BY DEF CacheOK
  <2>1. /\ cache.fetched_at.at \in Nat /\ cache.fetched_at.at <= now
        /\ cache.taken \in Nat /\ cache.taken <= now
        /\ cache.fetched_at.at <= cache.taken + FetchTimeout
    BY DEF Inv, TypeOK, CacheOK
  <2>2. PICK t \in Int : t = cache.taken
    BY <2>1
  <2>3. PICK d \in PublishedSince(t) : cache.keys = Usable(d)
    BY <2>2 DEF Inv, CacheOK
  <2>4. d \in PublishedSince(t)'
    BY <1>3, <2>1, <2>2, <2>3
  <2>5. (d \in PublishedSince(cache.taken))'
    BY <2>2, <2>4 DEF PublishedSince
  <2>6. cache.fetched_at.at <= now' /\ cache.taken <= now'
    BY <1>1, <2>1
  <2> QED BY <2>1, <2>3, <2>5, <2>6 DEF CacheOK, Usable
<1> QED BY <1>2, <1>5, <1>6 DEF Inv

LEMMA RotateStep == ASSUME Inv, Rotate PROVE Inv'
<1>1. /\ now \in Nat /\ last \in [Document -> Nat \cup {None}]
      /\ document \in Document /\ rotations \in Nat /\ HistoryOK
  BY DEF Inv, TypeOK
<1>2. /\ UNCHANGED <<mode, now, cache, holder, call, faults>> /\ document' \in Document
      /\ last' = [last EXCEPT ![document] = now] /\ rotations' \in Nat
  BY <1>1 DEF Rotate
<1>3. /\ last' \in [Document -> Nat \cup {None}]
      /\ \A d \in Document : last'[d] # None => last'[d] <= now'
  BY <1>1, <1>2 DEF HistoryOK
<1>4. \A c \in Caller : call[c].stage \in Working => now' <= call[c].since + FetchTimeout
  BY <1>2 DEF Inv, CallOK, FetchOK
<1>5. now' \in Nat /\ now <= now'
  BY <1>1, <1>2
<1> QED BY <1>2, <1>3, <1>4, <1>5, WorldStep

LEMMA TickStep == ASSUME Inv, Tick PROVE Inv'
<1>1. /\ now \in Nat /\ last \in [Document -> Nat \cup {None}] /\ HistoryOK
      /\ document \in Document /\ rotations \in Nat
  BY DEF Inv, TypeOK
<1>2. /\ now' = now + 1 /\ now' \in Nat /\ now <= now'
      /\ UNCHANGED <<mode, document, cache, holder, call, rotations, faults, last>>
  BY <1>1 DEF Tick
<1>3. \A d \in Document : last'[d] # None => last'[d] <= now'
  BY <1>1, <1>2 DEF HistoryOK
<1>4. ASSUME NEW c \in Caller, call[c].stage \in Working
      PROVE  now' <= call[c].since + FetchTimeout
  <2>1. call[c].since \in Nat /\ FetchTimeout \in Nat
    BY <1>4, JwksAssumption DEF Inv, CallOK, FetchOK
  <2>2. now < Deadline(c)
    BY <1>4 DEF Tick, Waits, At, Working
  <2> QED BY <1>1, <1>2, <2>1, <2>2 DEF Deadline
<1> QED BY <1>1, <1>2, <1>3, <1>4, WorldStep

LEMMA StutterStep == ASSUME Inv, UNCHANGED vars PROVE Inv'
<1>1. UNCHANGED <<mode, now, document, cache, holder, call, rotations, faults, last>>
  BY DEF vars
<1>2. /\ now \in Nat /\ rotations \in Nat /\ document \in Document
      /\ last \in [Document -> Nat \cup {None}] /\ HistoryOK
  BY DEF Inv, TypeOK
<1>3. \A c \in Caller : call[c].stage \in Working => now' <= call[c].since + FetchTimeout
  BY <1>1 DEF Inv, CallOK, FetchOK
<1>4. now' \in Nat /\ now <= now'
  BY <1>1, <1>2
<1> QED BY <1>1, <1>2, <1>3, <1>4, WorldStep DEF HistoryOK

LEMMA InitInv == ASSUME Init PROVE Inv
<1>1. call = [c \in Caller |-> Fresh] /\ holder = None /\ now = 0
      /\ last = [d \in Document |-> None]
  BY DEF Init
<1>2. call \in [Caller -> CallType]
  BY <1>1, FreshType
<1>3. cache \in [keys : Cached, fetched_at : [at : Nat, nth : Nat] \cup {None},
                 taken : Nat \cup {None}]
  BY DEF Init, Cached
<1>4. TypeOK
  BY <1>1, <1>2, <1>3 DEF Init, TypeOK, CallType
<1>5. HistoryOK
  BY <1>1 DEF HistoryOK
<1>6. CacheOK
  <2>1. CASE cache = [keys |-> <<>>, fetched_at |-> None, taken |-> None]
    BY <2>1 DEF CacheOK
  <2>2. CASE cache = [keys |-> Usable(document), fetched_at |-> [at |-> 0, nth |-> 0], taken |-> 0]
    <3>1. document \in PublishedSince(cache.taken)
      BY DEF PublishedSince, Init
    <3>2. 0 <= 0 + FetchTimeout
      BY JwksAssumption
    <3> QED BY <1>1, <2>2, <3>1, <3>2 DEF CacheOK
  <2> QED BY <2>1, <2>2 DEF Init
<1>7. ASSUME NEW c \in Caller PROVE CallOK(c)
  <2>1. call[c].stage = "idle" /\ call[c].entry = None /\ call[c].result = "none"
    BY <1>1 DEF Fresh
  <2> QED BY <2>1 DEF CallOK, Begun, FetchOK, BodyOK, CacheKnown, EntryOK, MissOK, Working
<1> QED BY <1>4, <1>5, <1>6, <1>7 DEF Inv

LEMMA Invariance == Spec => []Inv
<1>1. Init => Inv
  BY InitInv
<1>2. Inv /\ [Next]_vars => Inv'
  <2> SUFFICES ASSUME Inv, [Next]_vars PROVE Inv'
    OBVIOUS
  <2>1. CASE UNCHANGED vars
    BY <2>1, StutterStep
  <2>2. CASE Rotate
    BY <2>2, RotateStep
  <2>3. CASE Tick
    BY <2>3, TickStep
  <2>4. ASSUME NEW c \in Caller, Run(c) PROVE Inv'
    BY <2>4, CheckStaleStep, LookupStep, BaselineStep, PiggyBackStep, StartFetchStep,
       ApplyStep, FailStep, LastLookupStep DEF Run
  <2>5. ASSUME NEW c \in Caller, Start(c) \/ Respond(c) \/ FetchFails(c) \/ Drop(c) PROVE Inv'
    BY <2>5, StartStep, RespondStep, FailStep, DropStep
  <2> QED BY <2>1, <2>2, <2>3, <2>4, <2>5 DEF Next
<1> QED BY <1>1, <1>2, PTL DEF Spec

-----------------------------------------------------------------------------
(* How long a call waits. *)

Finished == {c \in Caller : call[c].stage \in {"last_lookup", "done", "gone"}}

Active(c) == call[c].stage \notin {"idle", "done", "gone"}

(* The lock is held for a fetch, and for nothing else. *)
HolderOK == holder # None => call[holder].stage \in Working

(* The time that a number of fetches may take. *)
Budget(S) == FetchTimeout * Cardinality(S)

(* The fetches that are over, and what the one at hand has taken. *)
Allowance == Budget(Finished) + IF holder = None THEN 0 ELSE now - call[holder].since

WaitOK == \A c \in Caller : Active(c) => now <= call[c].started + Allowance

LEMMA Budgets ==
  ASSUME NEW S \in SUBSET Caller
  PROVE  /\ Budget(S) \in Nat
         /\ \A T \in SUBSET S : Budget(T) \in Nat /\ Budget(T) <= Budget(S)
         /\ \A c \in Caller \ S : Budget(S \cup {c}) = Budget(S) + FetchTimeout
<1>1. IsFiniteSet(S) /\ FetchTimeout \in Nat
  BY FS_Subset, JwksAssumption
<1>2. Cardinality(S) \in Nat
  BY <1>1, FS_CardinalityType
<1>3. Budget(S) \in Nat
  BY <1>1, <1>2 DEF Budget
<1>4. ASSUME NEW T \in SUBSET S PROVE Budget(T) \in Nat /\ Budget(T) <= Budget(S)
  <2>1. IsFiniteSet(T) /\ Cardinality(T) <= Cardinality(S)
    BY <1>1, FS_Subset
  <2>2. Cardinality(T) \in Nat
    BY <2>1, FS_CardinalityType
  <2>3. PICK n \in Nat : Cardinality(S) = Cardinality(T) + n
    <3>1. Cardinality(S) - Cardinality(T) \in Nat
      BY <1>2, <2>1, <2>2
    <3>2. Cardinality(S) = Cardinality(T) + (Cardinality(S) - Cardinality(T))
      BY <1>2, <2>2
    <3> QED BY <3>1, <3>2
  <2>4. Budget(S) = Budget(T) + FetchTimeout * n /\ FetchTimeout * n \in Nat
    BY <1>1, <2>2, <2>3 DEF Budget
  <2>5. Budget(T) \in Nat
    BY <1>1, <2>2 DEF Budget
  <2> QED BY <2>4, <2>5
<1>5. ASSUME NEW c \in Caller \ S PROVE Budget(S \cup {c}) = Budget(S) + FetchTimeout
  <2>1. Cardinality(S \cup {c}) = Cardinality(S) + 1
    BY <1>1, FS_AddElement
  <2> QED BY <1>1, <1>2, <2>1 DEF Budget
<1> QED BY <1>3, <1>4, <1>5

(* Who does not fetch does not hold the lock. *)
LEMMA NotHolder ==
  ASSUME HolderOK, NEW c \in Caller, call[c].stage \notin Working
  PROVE  holder # c
BY JwksAssumption DEF HolderOK

(* What a step of a call does to the lock: nothing, if it has not got it;   *)
(* it goes on, begins or is over with its fetch.                            *)
LockStep(c) ==
  \/ holder # c /\ holder' = holder
  \/ holder = c /\ holder' = c /\ call'[c].since = call[c].since /\ call'[c].stage \in Working
  \/ holder = None /\ holder' = c /\ call'[c].since = now /\ call'[c].stage \in Working
  \/ holder = c /\ holder' = None /\ c \in Finished'

(* A step of one call takes nothing from what the others may wait.          *)
LEMMA WaitStep ==
  ASSUME Inv, HolderOK, WaitOK, NEW c \in Caller, UNCHANGED now,
         \A d \in Caller \ {c} : call'[d] = call[d],
         c \in Finished => c \in Finished',
         Active(c)' => \/ call'[c].started = now
                       \/ Active(c) /\ call'[c].started = call[c].started,
         LockStep(c)
  PROVE  HolderOK' /\ WaitOK'
<1>1. now \in Nat /\ c # None /\ holder \in Caller \cup {None} /\ FetchTimeout \in Nat
  BY JwksAssumption DEF Inv, TypeOK
<1>2. Finished \subseteq Finished' /\ Finished \in SUBSET Caller /\ Finished' \in SUBSET Caller
  BY DEF Finished
<1>3. /\ Budget(Finished) \in Nat /\ Budget(Finished)' \in Nat
      /\ Budget(Finished) <= Budget(Finished)'
  <2>1. PICK S \in SUBSET Caller : S = Finished'
    BY <1>2
  <2>2. Budget(Finished)' = Budget(S)
    BY <2>1 DEF Budget
  <2>3. Budget(Finished) \in Nat /\ Budget(Finished) <= Budget(S) /\ Budget(S) \in Nat
    BY <1>2, <2>1, Budgets
  <2> QED BY <2>2, <2>3
<1>4. HolderOK'
  BY <1>1 DEF HolderOK, LockStep
<1>5. holder # None => /\ call[holder].since \in Nat /\ call[holder].since <= now
                       /\ now <= call[holder].since + FetchTimeout
  BY <1>1 DEF Inv, CallOK, FetchOK, HolderOK
<1>6. Allowance \in Nat
  BY <1>1, <1>3, <1>5 DEF Allowance
<1>7. Allowance' \in Nat /\ Allowance <= Allowance'
  <2>1. CASE holder # c /\ holder' = holder
    <3>1. holder # None => call'[holder].since = call[holder].since
      BY <1>1, <2>1
    <3> QED BY <1>1, <1>3, <1>5, <2>1, <3>1 DEF Allowance
  <2>2. CASE holder = c /\ holder' = c /\ call'[c].since = call[c].since
    BY <1>1, <1>3, <1>5, <2>2 DEF Allowance
  <2>3. CASE holder = None /\ holder' = c /\ call'[c].since = now
    BY <1>1, <1>3, <2>3 DEF Allowance
  <2>4. CASE holder = c /\ holder' = None /\ c \in Finished'
    <3>1. c \notin Finished
      BY <1>1, <2>4 DEF HolderOK, Finished, Working
    <3>2. PICK S \in SUBSET Caller : S = Finished'
      BY <1>2
    <3>3. Finished \cup {c} \in SUBSET S
      BY <1>2, <2>4, <3>2
    <3>4. Budget(Finished \cup {c}) = Budget(Finished) + FetchTimeout
      BY <1>2, <3>1, Budgets
    <3>5. Budget(Finished \cup {c}) <= Budget(S) /\ Budget(S) \in Nat
      BY <3>3, Budgets
    <3>6. Allowance' = Budget(S)
      BY <2>4, <3>2, <3>5 DEF Allowance, Budget
    <3>7. Allowance = Budget(Finished) + (now - call[c].since)
      BY <1>1, <2>4 DEF Allowance
    <3>8. now - call[c].since <= FetchTimeout /\ now - call[c].since \in Int
      BY <1>1, <1>5, <2>4
    <3> QED BY <1>1, <1>3, <3>4, <3>5, <3>6, <3>7, <3>8
  <2> QED BY <2>1, <2>2, <2>3, <2>4 DEF LockStep
<1>8. WaitOK'
  <2> SUFFICES ASSUME NEW d \in Caller, Active(d)'
               PROVE  now <= call'[d].started + Allowance'
    BY DEF WaitOK
  <2>1. CASE call'[d].started = now
    <3>1. PICK a \in Nat : a = Allowance'
      BY <1>7
    <3>2. now <= now + a
      BY <1>1
    <3> QED BY <2>1, <3>1, <3>2, Zenon
  <2>2. CASE Active(d) /\ call'[d].started = call[d].started
    <3>1. call[d].started \in Nat
      BY <2>2 DEF Inv, CallOK, Begun, Active
    <3>2. now <= call[d].started + Allowance
      BY <2>2 DEF WaitOK
    <3> QED BY <1>1, <1>6, <1>7, <2>2, <3>1, <3>2
  <2>3. d # c => Active(d) /\ call'[d].started = call[d].started
    BY DEF Active
  <2> QED BY <2>1, <2>2, <2>3
<1> QED BY <1>4, <1>8

(* The record of a call after a step, and after its last one. *)
LEMMA Became ==
  ASSUME Inv, NEW c \in Caller, NEW v, Become(c, v)
  PROVE  call'[c] = v /\ \A d \in Caller \ {c} : call'[d] = call[d]
<1>1. call \in [Caller -> CallType]
  BY DEF Inv, TypeOK, CallType
<1> QED BY <1>1 DEF Become

LEMMA Ended ==
  ASSUME Inv, NEW c \in Caller, NEW s \in {"done", "gone"}, NEW r, NEW e, End(c, s, r, e)
  PROVE  /\ c \in Finished' /\ ~Active(c)'
         /\ \A d \in Caller \ {c} : call'[d] = call[d]
<1> DEFINE v == [Fresh EXCEPT !.stage = s, !.result = r, !.entry = e,
                              !.token = call[c].token, !.started = call[c].started]
<1>1. Become(c, v)
  BY DEF End
<1>2. v.stage = s
  BY FreshType DEF Fresh
<1> HIDE DEF v
<1>3. call'[c].stage = s /\ \A d \in Caller \ {c} : call'[d] = call[d]
  BY <1>1, <1>2, Became
<1> QED BY <1>3 DEF Finished, Active

(* A call that is not over moves on: its clock is the same. *)
LEMMA WaitGoesOn ==
  ASSUME Inv, HolderOK, WaitOK, NEW c \in Caller, UNCHANGED now, c \notin Finished, Active(c),
         NEW v, Become(c, v), v.started = call[c].started, LockStep(c)
  PROVE  HolderOK' /\ WaitOK'
<1>1. call'[c].started = call[c].started /\ \A d \in Caller \ {c} : call'[d] = call[d]
  BY Became, Zenon
<1>2. Active(c)' => \/ call'[c].started = now
                    \/ Active(c) /\ call'[c].started = call[c].started
  BY <1>1, Zenon
<1>3. c \in Finished => c \in Finished'
  OBVIOUS
<1> QED BY <1>1, <1>2, <1>3, WaitStep

LEMMA WaitEnds ==
  ASSUME Inv, HolderOK, WaitOK, NEW c \in Caller, UNCHANGED now,
         NEW s \in {"done", "gone"}, NEW r, NEW e, End(c, s, r, e),
         c \in Finished' => LockStep(c)
  PROVE  HolderOK' /\ WaitOK'
<1>1. c \in Finished' /\ ~Active(c)' /\ \A d \in Caller \ {c} : call'[d] = call[d]
  BY Ended
<1> QED BY <1>1, WaitStep

LEMMA WaitStart ==
  ASSUME Inv, HolderOK, WaitOK, NEW c \in Caller, Start(c)
  PROVE  HolderOK' /\ WaitOK'
<1>1. call[c].stage = "idle" /\ now' = now /\ holder' = holder
  BY DEF Start, At
<1>2. PICK t \in Token :
        Become(c, [Fresh EXCEPT !.token = t, !.started = now, !.result = AtOnce(t),
                                !.stage = IF AtOnce(t) = "none" THEN "stale?" ELSE "done"])
  BY DEF Start
<1> DEFINE v == [Fresh EXCEPT !.token = t, !.started = now, !.result = AtOnce(t),
                              !.stage = IF AtOnce(t) = "none" THEN "stale?" ELSE "done"]
<1>3. call'[c].started = now /\ \A d \in Caller \ {c} : call'[d] = call[d]
  <2>1. Become(c, v)
    BY <1>2
  <2>2. v.started = now
    BY DEF Fresh
  <2> HIDE DEF v
  <2> QED BY <2>1, <2>2, Became, Zenon
<1>4. LockStep(c) /\ c \notin Finished
  BY <1>1, NotHolder DEF Working, LockStep, Finished
<1>5. Active(c)' => \/ call'[c].started = now
                    \/ Active(c) /\ call'[c].started = call[c].started
  BY <1>3, Zenon
<1> QED BY <1>1, <1>3, <1>4, <1>5, WaitStep

(* A call that has not got the lock goes on, or is over. *)
LEMMA WaitMove ==
  ASSUME Inv, HolderOK, WaitOK, NEW c \in Caller,
         CheckStale(c) \/ Lookup(c) \/ Baseline(c) \/ PiggyBack(c) \/ LastLookup(c)
  PROVE  HolderOK' /\ WaitOK'
<1>1. /\ call[c].stage \in {"stale?", "lookup", "baseline", "waiting", "last_lookup"}
      /\ now' = now /\ holder' = holder
  BY DEF CheckStale, Lookup, Baseline, PiggyBack, LastLookup, At
<1>2. call[c] \in CallType
  BY DEF Inv, TypeOK, CallType
<1>3. LockStep(c) /\ Active(c)
  BY <1>1, NotHolder DEF Working, LockStep, Active
<1>4. CASE CheckStale(c)
  <2> DEFINE v == [call[c] EXCEPT !.stage = IF cache_is_stale THEN "waiting" ELSE "lookup"]
  <2>1. Become(c, v) /\ v.started = call[c].started /\ c \notin Finished
    BY <1>2, <1>4 DEF CheckStale, At, CallType, Finished
  <2> QED BY <1>1, <1>3, <2>1, WaitGoesOn
<1>5. CASE Baseline(c)
  <2> DEFINE v == [call[c] EXCEPT !.stage = "waiting", !.forced = TRUE,
                                  !.baseline = cache.fetched_at]
  <2>1. Become(c, v) /\ v.started = call[c].started /\ c \notin Finished
    BY <1>2, <1>5 DEF Baseline, At, CallType, Finished
  <2> QED BY <1>1, <1>3, <2>1, WaitGoesOn
<1>6. CASE PiggyBack(c)
  <2> DEFINE v == [call[c] EXCEPT !.stage = "last_lookup"]
  <2>1. Become(c, v) /\ v.started = call[c].started /\ c \notin Finished
    BY <1>2, <1>6 DEF PiggyBack, At, CallType, Finished
  <2> QED BY <1>1, <1>3, <2>1, WaitGoesOn
<1>7. CASE Lookup(c) /\ lookup_key(cache.keys, call[c].token) = None
  <2> DEFINE v == [call[c] EXCEPT !.stage = "baseline"]
  <2>1. Become(c, v) /\ v.started = call[c].started /\ c \notin Finished
    BY <1>2, <1>7 DEF Lookup, At, CallType, Finished
  <2> QED BY <1>1, <1>3, <2>1, WaitGoesOn
<1>8. ASSUME NEW r, NEW e, End(c, "done", r, e) PROVE HolderOK' /\ WaitOK'
  BY <1>1, <1>3, <1>8, WaitEnds
<1>9. CASE LastLookup(c) \/ (Lookup(c) /\ lookup_key(cache.keys, call[c].token) # None)
  <2>1. PICK r, e : End(c, "done", r, e)
    BY <1>9 DEF LastLookup, Lookup, Decode, Return
  <2> QED BY <1>8, <2>1
<1> QED BY <1>4, <1>5, <1>6, <1>7, <1>9

(* The fetch: begun, answered, over. *)
LEMMA WaitFetch ==
  ASSUME Inv, HolderOK, WaitOK, NEW c \in Caller,
         StartFetch(c) \/ Respond(c) \/ Apply(c) \/ FetchFails(c) \/ FetchTimesOut(c) \/ Drop(c)
  PROVE  HolderOK' /\ WaitOK'
<1>1. call[c].stage \in {"waiting", "fetching", "fetched"} /\ now' = now
  BY DEF StartFetch, Respond, Apply, FetchFails, FetchTimesOut, Drop, At
<1>2. call[c] \in CallType
  BY DEF Inv, TypeOK, CallType
<1>3. c \notin Finished /\ Active(c) /\ c # None
  BY <1>1, JwksAssumption DEF Finished, Active
<1>4. call[c].stage \in Working => holder = c
  BY DEF Inv, CallOK, FetchOK
<1>5. CASE StartFetch(c) /\ mode = "no_url"
  <2>1. End(c, "done", "no_url", None) /\ holder' = holder /\ holder = None
    BY <1>5 DEF StartFetch, Return
  <2> QED BY <1>1, <1>3, <2>1, WaitEnds DEF LockStep
<1>6. CASE FetchFails(c) \/ FetchTimesOut(c)
  <2>1. End(c, "done", "fetch_failed", None) /\ holder' = None /\ holder = c
    BY <1>4, <1>6 DEF FetchFails, FetchTimesOut, Return, Release, Working
  <2> QED BY <1>1, <2>1, WaitEnds DEF LockStep
<1>7. CASE Drop(c)
  <2>1. End(c, "gone", "none", None) /\ holder' = IF holder = c THEN None ELSE holder
    BY <1>7 DEF Drop
  <2> QED BY <1>1, <2>1, WaitEnds DEF LockStep
<1>8. CASE StartFetch(c) /\ mode # "no_url"
  <2> DEFINE v == [call[c] EXCEPT !.stage = "fetching", !.since = now]
  <2>1. Become(c, v) /\ holder' = c /\ holder = None
    BY <1>8 DEF StartFetch, Hold
  <2>2. v.started = call[c].started /\ v.stage = "fetching" /\ v.since = now
    BY <1>2 DEF CallType
  <2> HIDE DEF v
  <2>3. call'[c].stage = "fetching" /\ call'[c].since = now
    BY <2>1, <2>2, Became, Zenon
  <2>4. LockStep(c)
    BY <2>1, <2>3 DEF LockStep, Working
  <2> QED BY <1>1, <1>3, <2>1, <2>2, <2>4, WaitGoesOn
<1>9. CASE Respond(c)
  <2> DEFINE v == [call[c] EXCEPT !.stage = "fetched", !.body = document, !.taken = now]
  <2>1. Become(c, v) /\ holder' = holder /\ holder = c
    BY <1>4, <1>9 DEF Respond, At, Working
  <2>2. v.started = call[c].started /\ v.stage = "fetched" /\ v.since = call[c].since
    BY <1>2 DEF CallType
  <2> HIDE DEF v
  <2>3. call'[c].stage = "fetched" /\ call'[c].since = call[c].since
    BY <2>1, <2>2, Became, Zenon
  <2>4. LockStep(c)
    BY <2>1, <2>3 DEF LockStep, Working
  <2> QED BY <1>1, <1>3, <2>1, <2>2, <2>4, WaitGoesOn
<1>10. CASE Apply(c)
  <2> DEFINE v == [call[c] EXCEPT !.stage = "last_lookup", !.since = None, !.body = None,
                                  !.taken = None]
  <2>1. Become(c, v) /\ holder' = None /\ holder = c
    BY <1>4, <1>10 DEF Apply, At, Working
  <2>2. v.started = call[c].started /\ v.stage = "last_lookup"
    BY <1>2 DEF CallType
  <2> HIDE DEF v
  <2>3. call'[c].stage = "last_lookup"
    BY <2>1, <2>2, Became, Zenon
  <2>4. LockStep(c)
    BY <2>1, <2>3 DEF LockStep, Finished
  <2> QED BY <1>1, <1>3, <2>1, <2>2, <2>4, WaitGoesOn
<1> QED BY <1>5, <1>6, <1>7, <1>8, <1>9, <1>10

(* Time passes for a call only while somebody fetches. *)
LEMMA WaitTick == ASSUME Inv, HolderOK, WaitOK, Tick PROVE HolderOK' /\ WaitOK'
<1>1. /\ now \in Nat /\ now' = now + 1 /\ UNCHANGED <<holder, call>>
      /\ holder \in Caller \cup {None} /\ None \notin Caller
  BY JwksAssumption DEF Inv, TypeOK, Tick
<1>2. HolderOK'
  BY <1>1 DEF HolderOK
<1>3. ASSUME NEW c \in Caller, Active(c)' PROVE now' <= call'[c].started + Allowance'
  <2>1. Active(c) /\ Waits(c)
    BY <1>1, <1>3 DEF Active, Tick
  <2>2. holder # None
    BY <1>1, <2>1 DEF Active, Waits, At, Inv, CallOK, FetchOK, Working
  <2>3. call[holder].since \in Nat /\ call[holder].since <= now
    BY <1>1, <2>2 DEF HolderOK, Inv, CallOK, FetchOK
  <2>4. Budget(Finished)' = Budget(Finished) /\ Budget(Finished) \in Nat
    BY <1>1, Budgets DEF Budget, Finished
  <2>5. /\ Allowance = Budget(Finished) + (now - call[holder].since)
        /\ Allowance' = Budget(Finished)' + (now' - call'[holder'].since)
    BY <1>1, <2>2 DEF Allowance
  <2>6. Allowance' = Allowance + 1 /\ Allowance \in Nat
    BY <1>1, <2>3, <2>4, <2>5
  <2>7. call[c].started \in Nat
    BY <2>1 DEF Inv, CallOK, Begun, Active
  <2>8. now <= call[c].started + Allowance
    BY <2>1 DEF WaitOK
  <2> QED BY <1>1, <2>6, <2>7, <2>8
<1> QED BY <1>2, <1>3 DEF WaitOK

LEMMA WaitInvariance == Spec => [](HolderOK /\ WaitOK)
<1>1. Init => HolderOK /\ WaitOK
  BY DEF Init, HolderOK, WaitOK, Active, Fresh
<1>2. Inv /\ HolderOK /\ WaitOK /\ [Next]_vars => (HolderOK /\ WaitOK)'
  <2> SUFFICES ASSUME Inv, HolderOK, WaitOK, [Next]_vars PROVE HolderOK' /\ WaitOK'
    OBVIOUS
  <2>1. CASE UNCHANGED vars \/ Rotate
    BY <2>1 DEF vars, Rotate, HolderOK, WaitOK, Active, Allowance, Budget, Finished
  <2>2. CASE Tick
    BY <2>2, WaitTick
  <2>3. ASSUME NEW c \in Caller, Start(c) \/ Run(c) \/ Respond(c) \/ FetchFails(c) \/ Drop(c)
        PROVE  HolderOK' /\ WaitOK'
    BY <2>3, WaitStart, WaitMove, WaitFetch DEF Run
  <2> QED BY <2>1, <2>2, <2>3 DEF Next
<1> QED BY <1>1, <1>2, Invariance, PTL DEF Spec

-----------------------------------------------------------------------------

(* The cache, the lock and the calls keep their types (jwt.rs).             *)
THEOREM TypeCorrect == Spec => []TypeOK
<1>1. Inv => TypeOK
  BY DEF Inv
<1> QED BY <1>1, Invariance, PTL

(* One fetch at a time, whoever fails, times out or is dropped: the guard   *)
(* of refresh_lock lives exactly as long as the fetch.                      *)
THEOREM OneFetch == Spec => []SingleFlight
<1>1. Inv => SingleFlight
  BY DEF Inv, SingleFlight, CallOK, FetchOK, Working
<1> QED BY <1>1, Invariance, PTL

(* A withdrawn key is used by no call that begins more than cache_ttl and   *)
(* one fetch later, for any number of callers, documents and rotations.     *)
THEOREM Forgets == Spec => []WithdrawnKeysAreForgotten
<1>1. Inv => WithdrawnKeysAreForgotten
  BY DEF Inv, WithdrawnKeysAreForgotten, CallOK, EntryOK
<1> QED BY <1>1, Invariance, PTL

(* NoMatchingKey is only ever the answer of a document published no longer  *)
(* than one fetch before the call began.                                    *)
THEOREM Misses == Spec => []MissesAreRecent
<1>1. Inv => MissesAreRecent
  BY DEF Inv, MissesAreRecent, CallOK, MissOK
<1> QED BY <1>1, Invariance, PTL

(* However many calls wait in line behind fetches that fail, no call takes   *)
(* longer than one FetchTimeout for itself and one for each other caller.    *)
THEOREM WaitBounded == Spec => []WaitIsBounded
<1>1. Inv /\ HolderOK /\ WaitOK => WaitIsBounded
  <2> SUFFICES ASSUME Inv, HolderOK, WaitOK, NEW c \in Caller, Active(c)
               PROVE  now <= call[c].started + FetchTimeout * Cardinality(Caller)
    BY DEF WaitIsBounded, Active
  <2>1. /\ now \in Nat /\ call[c].started \in Nat /\ FetchTimeout \in Nat
        /\ holder \in Caller \cup {None} /\ now <= call[c].started + Allowance
    BY JwksAssumption DEF Inv, TypeOK, CallOK, Begun, WaitOK, Active
  <2>2. Finished \in SUBSET Caller
    BY DEF Finished
  <2>3. Budget(Finished) \in Nat /\ Budget(Caller) \in Nat /\ Budget(Finished) <= Budget(Caller)
    BY <2>2, Budgets
  <2>4. Allowance \in Int /\ Allowance <= Budget(Caller)
    <3>1. CASE holder = None
      BY <2>3, <3>1 DEF Allowance
    <3>2. CASE holder # None
      <4>1. /\ call[holder].since \in Nat /\ now <= call[holder].since + FetchTimeout
            /\ holder \in Caller \ Finished
        BY <2>1, <3>2 DEF HolderOK, Inv, CallOK, FetchOK, Finished, Working
      <4>2. Budget(Finished \cup {holder}) = Budget(Finished) + FetchTimeout
        BY <2>2, <4>1, Budgets
      <4>3. Budget(Finished \cup {holder}) <= Budget(Caller)
        BY <2>2, <4>1, Budgets
      <4> QED BY <2>1, <2>3, <3>2, <4>1, <4>2, <4>3 DEF Allowance
    <3> QED BY <3>1, <3>2
  <2>5. now <= call[c].started + Budget(Caller)
    BY <2>1, <2>3, <2>4
  <2> QED BY <2>5 DEF Budget
<1> QED BY <1>1, Invariance, WaitInvariance, PTL
=============================================================================
