-------------------------------- MODULE Jwks --------------------------------
(***************************************************************************)
(* The JWT verifier of crates/hwhkit-core/src/jwt.rs: concurrent calls of  *)
(* verify() around one key cache, one refresh lock and a provider that     *)
(* changes its key set.                                                    *)
(*                                                                         *)
(* Each look at the cache is a step of its own, under its own read lock;   *)
(* the refresh lock is held across the fetch, which reqwest ends after     *)
(* FetchTimeout.  Time passes only while nobody can run: waiting for the   *)
(* provider, or for the one who does.                                      *)
(***************************************************************************)
EXTENDS Integers, Sequences, FiniteSets

CONSTANTS
  Caller,        (* the calls of verify()                                    *)
  Token,         (* the tokens they bring                                    *)
  Document,      (* the key sets the provider publishes: sequences of JwkEntry *)
  Allowed,       (* cfg.algorithms                                           *)
  CheckIssuer, CheckAudience,  (* whether cfg has an issuer, an audience     *)
  Ttl,           (* cfg.cache_ttl                                            *)
  FetchTimeout,  (* the timeout of the HTTP client: 10 s                     *)
  LastStart,     (* bound: when the last call begins                         *)
  MaxTime,       (* bound: the last instant of the clock                     *)
  MaxRotations,  (* bound: how often the provider changes its keys           *)
  MaxFaults,     (* bound: failed fetches and dropped futures                *)
  None           (* Option::None                                             *)

ASSUME JwksAssumption ==
  /\ Ttl \in Nat /\ FetchTimeout \in Nat \ {0} /\ IsFiniteSet(Caller)
  /\ LastStart \in Nat /\ MaxTime \in Nat /\ MaxRotations \in Nat /\ MaxFaults \in Nat
  /\ None \notin Nat /\ None \notin Caller /\ None \notin [at : Nat, nth : Nat]
  /\ \A d \in Document : d \in Seq([kid : STRING \cup {None}, alg : STRING \cup {None},
                                    kty : STRING, whole : BOOLEAN, key : STRING])
  /\ \A t \in Token : t \in [bearer : BOOLEAN, kid : STRING \cup {None}, alg : STRING,
                             signer : STRING, claims : STRING]

VARIABLES
  mode,       (* "jwks", "no_url" (from_jwks without a URL), "hmac" or       *)
              (* "absent": no verifier in the AppContext                     *)
  now,        (* Instant::now()                                              *)
  document,   (* what the provider publishes                                 *)
  cache,      (* JwksCache; taken is history: when the provider answered     *)
  holder,     (* who holds refresh_lock                                      *)
  call,       (* each call: its token, how far it got, its locals            *)
  rotations, faults,  (* counted for the bounds                              *)
  last        (* history: when each document was last seen published         *)

vars == <<mode, now, document, cache, holder, call, rotations, faults, last>>

-----------------------------------------------------------------------------
(* Keys and tokens. *)

(* build_decoding_key: an entry of a known type that has all its parts. *)
build_decoding_key(e) == e.kty \in {"RSA", "EC", "oct"} /\ e.whole

(* The usable entries of a document, each at its place. *)
Usable(d) == [i \in {j \in DOMAIN d : build_decoding_key(d[j])} |-> d[i]]

(* parse_alg, and the filter in algorithms(). *)
KnownAlg == {"HS256", "HS384", "HS512", "RS256", "RS384", "RS512", "ES256", "ES384",
             "PS256", "PS384", "PS512", "EdDSA"}
algorithms == Allowed \cap KnownAlg

(* The predicate of lookup_key. *)
Fits(t, e) ==
  IF t.kid = None THEN e.alg \in {t.alg, None} ELSE e.kid = t.kid

(* lookup_key: the first entry that fits. *)
lookup_key(keys, t) ==
  LET fitting == {i \in DOMAIN keys : Fits(t, keys[i])} IN
  IF fitting = {} THEN None ELSE keys[CHOOSE i \in fitting : \A j \in fitting : i <= j]

(* The type of the keys that an algorithm goes with. *)
Family(alg) ==
  CASE alg \in {"HS256", "HS384", "HS512"} -> "oct"
    [] alg \in {"RS256", "RS384", "RS512", "PS256", "PS384", "PS512"} -> "RSA"
    [] alg \in {"ES256", "ES384"} -> "EC"
    [] OTHER -> "OKP"

(* Validation::algorithms: that of the token, if none is configured. *)
Accepted(t) == IF algorithms = {} THEN {t.alg} ELSE algorithms

(* decode() of the library: the signature under this key, an accepted       *)
(* algorithm, and the claims that the Validation asks for.  It refuses      *)
(* every token when one of the accepted algorithms is not for this key.     *)
decode(t, key, kty) ==
  /\ t.signer = key /\ t.alg \in Accepted(t)
  /\ \A alg \in Accepted(t) : Family(alg) = kty
  /\ t.claims \in {"ok"} \cup (IF CheckIssuer THEN {} ELSE {"other_issuer"})
                         \cup (IF CheckAudience THEN {} ELSE {"other_audience"})

-----------------------------------------------------------------------------

Stage == {"idle", "stale?", "lookup", "baseline", "waiting", "fetching", "fetched",
          "last_lookup", "done", "gone"}
Result == {"none", "ok", "internal", "no_bearer", "rejected", "no_key", "fetch_failed",
           "no_url"}

(* forced: the refresh is for an unknown kid.  baseline, body and since     *)
(* (when the fetch began) are locals; started, taken (when the provider     *)
(* answered) and entry (the key that was used) are history.                 *)
Fresh == [stage |-> "idle", token |-> None, forced |-> FALSE, baseline |-> None,
          since |-> None, body |-> None, taken |-> None, result |-> "none",
          entry |-> None, started |-> None]

(* The first of the calls meets a new cache, or one that was just filled.   *)
Init ==
  /\ mode \in {"jwks", "no_url", "hmac", "absent"}
  /\ now = 0 /\ document \in Document
  /\ \/ cache = [keys |-> <<>>, fetched_at |-> None, taken |-> None]
     \/ /\ mode = "jwks"
        /\ cache = [keys |-> Usable(document), fetched_at |-> [at |-> 0, nth |-> 0], taken |-> 0]
  /\ holder = None
  /\ call = [c \in Caller |-> Fresh]
  /\ rotations = 0 /\ faults = 0
  /\ last = [d \in Document |-> None]

At(c, stage) == call[c].stage = stage
Become(c, v) == call' = [call EXCEPT ![c] = v]

(* The call ends, and its locals with it. *)
End(c, stage, result, entry) ==
  Become(c, [Fresh EXCEPT !.stage = stage, !.result = result, !.entry = entry,
                          !.token = call[c].token, !.started = call[c].started])
Return(c, result) == End(c, "done", result, None)
Fault == faults < MaxFaults /\ faults' = faults + 1

(* decode() with the key that was found. *)
Decode(c, entry) ==
  End(c, "done", IF decode(call[c].token, entry.key, entry.kty) THEN "ok" ELSE "rejected", entry)

(* The extractors, and verify() up to key_for: without a verifier, without  *)
(* a bearer token that parses, or with the shared secret, the answer is     *)
(* there at once.                                                           *)
AtOnce(t) ==
  CASE mode = "absent" -> "internal"
    [] mode # "absent" /\ ~t.bearer -> "no_bearer"
    [] mode = "hmac" /\ t.bearer -> IF decode(t, "secret", "oct") THEN "ok" ELSE "rejected"
    [] OTHER -> "none"

Start(c) ==
  /\ At(c, "idle") /\ now <= LastStart
  /\ \E t \in Token :
       Become(c, [Fresh EXCEPT !.token = t, !.started = now, !.result = AtOnce(t),
                               !.stage = IF AtOnce(t) = "none" THEN "stale?" ELSE "done"])
  /\ UNCHANGED <<mode, now, document, cache, holder, rotations, faults, last>>

cache_is_stale == cache.fetched_at = None \/ now - cache.fetched_at.at > Ttl

(* key_for, line 369 *)
CheckStale(c) ==
  /\ At(c, "stale?")
  /\ Become(c, [call[c] EXCEPT !.stage = IF cache_is_stale THEN "waiting" ELSE "lookup"])
  /\ UNCHANGED <<mode, now, document, cache, holder, rotations, faults, last>>

(* key_for, line 374, when no refresh was needed. *)
Lookup(c) ==
  /\ At(c, "lookup")
  /\ LET e == lookup_key(cache.keys, call[c].token) IN
     IF e # None THEN Decode(c, e)
     ELSE Become(c, [call[c] EXCEPT !.stage = "baseline"])
  /\ UNCHANGED <<mode, now, document, cache, holder, rotations, faults, last>>

(* key_for, line 383: cache_fetched_at(), before waiting for the lock. *)
Baseline(c) ==
  /\ At(c, "baseline")
  /\ Become(c, [call[c] EXCEPT !.stage = "waiting", !.forced = TRUE,
                               !.baseline = cache.fetched_at])
  /\ UNCHANGED <<mode, now, document, cache, holder, rotations, faults, last>>

(* Seeded fault: the forced refresh is skipped when the cache is fresh. *)
RefreshedIfFresh(c) == ~cache_is_stale

(* Whether a peer refreshed while this call waited: what the two            *)
(* *_singleflight functions ask once they hold the lock.                    *)
Refreshed(c) ==
  IF call[c].forced THEN cache.fetched_at # call[c].baseline ELSE ~cache_is_stale

(* The lock is taken and given back at once. *)
PiggyBack(c) ==
  /\ At(c, "waiting") /\ holder = None /\ Refreshed(c)
  /\ Become(c, [call[c] EXCEPT !.stage = "last_lookup"])
  /\ UNCHANGED <<mode, now, document, cache, holder, rotations, faults, last>>

(* Seeded fault: "let _ =" in place of "let _guard =" drops the guard. *)
HoldForgotten(c) == UNCHANGED holder

(* _guard lives to the end of the *_singleflight function. *)
Hold(c) == holder' = c

(* refresh_jwks begins, with the lock held; without a URL it ends there. *)
StartFetch(c) ==
  /\ At(c, "waiting") /\ holder = None /\ ~Refreshed(c)
  /\ IF mode = "no_url"
     THEN Return(c, "no_url") /\ UNCHANGED holder
     ELSE /\ Become(c, [call[c] EXCEPT !.stage = "fetching", !.since = now])
          /\ Hold(c)
  /\ UNCHANGED <<mode, now, document, cache, rotations, faults, last>>

(* The provider reads its document; the answer is on its way. *)
Respond(c) ==
  /\ At(c, "fetching")
  /\ Become(c, [call[c] EXCEPT !.stage = "fetched", !.body = document, !.taken = now])
  /\ UNCHANGED <<mode, now, document, cache, holder, rotations, faults, last>>

(* Seeded fault: keys are added to those that are there. *)
MergedKeys(c) ==
  LET new == Usable(call[c].body) IN
  [i \in DOMAIN new \cup DOMAIN cache.keys |-> IF i \in DOMAIN new THEN new[i] ELSE cache.keys[i]]

NewKeys(c) == Usable(call[c].body)

(* fetched_at is an Instant: no two writes get the same. *)
Stamp == [at |-> now, nth |-> IF cache.fetched_at = None THEN 1 ELSE cache.fetched_at.nth + 1]

(* refresh_jwks ends: the cache is replaced and the lock released. *)
Apply(c) ==
  /\ At(c, "fetched")
  /\ cache' = [keys |-> NewKeys(c), fetched_at |-> Stamp, taken |-> call[c].taken]
  /\ holder' = None
  /\ Become(c, [call[c] EXCEPT !.stage = "last_lookup", !.since = None, !.body = None,
                               !.taken = None])
  /\ UNCHANGED <<mode, now, document, rotations, faults, last>>

(* Seeded fault: the lock is kept when the fetch ends with an error. *)
ReleaseForgotten == UNCHANGED holder

(* _guard is dropped. *)
Release == holder' = None

(* An error status, a broken connection, a body that does not parse: the    *)
(* cache stays as it is.                                                    *)
FetchFails(c) ==
  /\ call[c].stage \in {"fetching", "fetched"} /\ Fault
  /\ Release /\ Return(c, "fetch_failed")
  /\ UNCHANGED <<mode, now, document, cache, rotations, last>>

(* Seeded fault: the timeout is one for each read, not for the request. *)
DeadlineOfRead(c) == (IF At(c, "fetched") THEN call[c].taken ELSE call[c].since) + FetchTimeout

Deadline(c) == call[c].since + FetchTimeout

FetchTimesOut(c) ==
  /\ call[c].stage \in {"fetching", "fetched"} /\ now >= Deadline(c)
  /\ Release /\ Return(c, "fetch_failed")
  /\ UNCHANGED <<mode, now, document, cache, rotations, faults, last>>

(* key_for, line 374 after a refresh, or line 385. *)
LastLookup(c) ==
  /\ At(c, "last_lookup")
  /\ LET e == lookup_key(cache.keys, call[c].token) IN
     IF e # None THEN Decode(c, e) ELSE Return(c, "no_key")
  /\ UNCHANGED <<mode, now, document, cache, holder, rotations, faults, last>>

(* The request is dropped at an await, and the guard with it. *)
Drop(c) ==
  /\ call[c].stage \in {"waiting", "fetching", "fetched"} /\ Fault
  /\ End(c, "gone", "none", None)
  /\ holder' = IF holder = c THEN None ELSE holder
  /\ UNCHANGED <<mode, now, document, cache, rotations, last>>

(* The provider publishes another document. *)
Rotate ==
  /\ rotations < MaxRotations /\ rotations' = rotations + 1
  /\ document' \in Document \ {document}
  /\ last' = [last EXCEPT ![document] = now]
  /\ UNCHANGED <<mode, now, cache, holder, call, faults>>

(* Whether a call waits for somebody: for the provider, or for the lock. *)
Waits(c) ==
  \/ call[c].stage \in {"idle", "done", "gone"}
  \/ call[c].stage \in {"fetching", "fetched"} /\ now < Deadline(c)
  \/ At(c, "waiting") /\ holder # None

Tick ==
  /\ now < MaxTime /\ \A c \in Caller : Waits(c)
  /\ now' = now + 1
  /\ UNCHANGED <<mode, document, cache, holder, call, rotations, faults, last>>

Run(c) ==
  \/ CheckStale(c) \/ Lookup(c) \/ Baseline(c) \/ PiggyBack(c) \/ StartFetch(c)
  \/ Apply(c) \/ FetchTimesOut(c) \/ LastLookup(c)

Next ==
  \/ Rotate \/ Tick
  \/ \E c \in Caller : Start(c) \/ Run(c) \/ Respond(c) \/ FetchFails(c) \/ Drop(c)

(* A call that can run is polled, the lock is handed on and the clock goes  *)
(* on; the provider owes no answer.                                         *)
Fairness == WF_vars(Tick) /\ \A c \in Caller : WF_vars(Run(c))

Spec == Init /\ [][Next]_vars /\ Fairness

-----------------------------------------------------------------------------

Entry == UNION {{d[i] : i \in DOMAIN d} : d \in Document}
Cached == {<<>>} \cup {Usable(d) : d \in Document}

(* The types of the cache and of the calls. *)
TypeOK ==
  /\ mode \in {"jwks", "no_url", "hmac", "absent"}
  /\ now \in Nat /\ document \in Document /\ holder \in Caller \cup {None}
  /\ cache \in [keys : Cached, fetched_at : [at : Nat, nth : Nat] \cup {None},
                taken : Nat \cup {None}]
  /\ call \in [Caller -> [stage : Stage, token : Token \cup {None}, forced : BOOLEAN,
                          baseline : [at : Nat, nth : Nat] \cup {None},
                          since : Nat \cup {None}, body : Document \cup {None},
                          taken : Nat \cup {None}, result : Result,
                          entry : Entry \cup {None}, started : Nat \cup {None}]]
  /\ rotations \in Nat /\ faults \in Nat
  /\ last \in [Document -> Nat \cup {None}]

(* "Guarantees that only one JWKS HTTP fetch is in flight at any moment,    *)
(* even when many verifies race a cache expiry" (lines 51-53), through      *)
(* failures, timeouts and dropped requests.                                 *)
SingleFlight ==
  \A c, d \in Caller :
    call[c].stage \in {"fetching", "fetched"} /\ call[d].stage \in {"fetching", "fetched"}
      => c = d

(* Documents that were published at or after an instant. *)
PublishedSince(t) == {d \in Document : d = document \/ (last[d] # None /\ last[d] >= t)}

(* "refresh after cache_ttl" (lines 134-135): a key the provider withdrew   *)
(* is not used for long.  Whatever the calls do at the same time, the key   *)
(* a call uses was still published a TTL and a fetch before it began.       *)
WithdrawnKeysAreForgotten ==
  \A c \in Caller :
    call[c].entry # None =>
      \E d \in PublishedSince(call[c].started - Ttl - FetchTimeout) :
        \E i \in DOMAIN Usable(d) : Usable(d)[i] = call[c].entry

(* "The provider may have rotated its key; trigger a single synchronous     *)
(* refresh [...] and try again" (lines 378-381): NoMatchingKey means that   *)
(* a document without a fitting key was published no longer than a fetch    *)
(* before the call began.  A key that has been out for longer is found.     *)
MissesAreRecent ==
  \A c \in Caller :
    call[c].result = "no_key" =>
      \E d \in PublishedSince(call[c].started - FetchTimeout) :
        lookup_key(Usable(d), call[c].token) = None

(* A call waits for its own fetch and at most once for each other call's:   *)
(* fetches that fail are repeated one after the other by all who waited.    *)
WaitIsBounded ==
  \A c \in Caller :
    call[c].stage \notin {"idle", "done", "gone"} =>
      now <= call[c].started + FetchTimeout * Cardinality(Caller)

(* Every call returns, even from a provider that never answers.             *)
CallsReturn ==
  \A c \in Caller : ~At(c, "idle") ~> call[c].stage \in {"done", "gone"}
=============================================================================
