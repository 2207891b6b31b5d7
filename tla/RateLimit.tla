----------------------------- MODULE RateLimit ------------------------------
(***************************************************************************)
(* The token bucket rate limiter of                                        *)
(* crates/hwhkit/src/production/rate_limit.rs: requests to any number of   *)
(* replicas, each of which runs LUA_TOKEN_BUCKET on one Redis.             *)
(*                                                                         *)
(* The script is atomic and uses the clock of Redis.  The code divides     *)
(* capacity by window in floating point; here a token is Window units, so  *)
(* that a unit of time refills Capacity of them and all is exact.          *)
(***************************************************************************)
EXTENDS Integers

CONSTANTS
  Request,      (* the requests                                              *)
  Ip, User, Tenant, Route,  (* what buckets are named after                  *)
  Capacity,     (* tokens in a full bucket                                   *)
  WindowMs,     (* window, in units of the clock (milliseconds)              *)
  Second,       (* units of the clock in a second: 1000                      *)
  MaxTime,      (* bound: the last instant of the clock                      *)
  MaxFaults,    (* bound: failed calls, lost keys and clock setbacks in all  *)
  None          (* Option::None                                              *)

ASSUME RateLimitAssumption ==
  /\ Capacity \in Nat /\ WindowMs \in Nat /\ Second \in Nat \ {0}
  /\ MaxTime \in Nat /\ MaxFaults \in Nat
  /\ None \notin Ip \cup User \cup Tenant \cup Nat
  /\ None \notin [tokens : Nat, ts : Nat, until : Nat]

AtLeast(x, y) == IF x < y THEN y ELSE x
AtMost(x, y) == IF x > y THEN y ELSE x

(* window.as_secs_f64().max(0.001) *)
Window == AtLeast(WindowMs, 1)
Full == Capacity * Window

(* Seeded fault: keys live for a second whatever the window. *)
TtlOneSecond == Second

(* ttl_ms: window.as_millis().max(1000) *)
Ttl == AtLeast(WindowMs, Second)

-----------------------------------------------------------------------------
(* The key extractors.  xff is the leftmost entry of X-Forwarded-For, which *)
(* may be empty; addr is the socket address, which axum may not provide.    *)

Kind == {"ip", "route", "user", "tenant", "tenant_strict"}
Input == [xff : Ip \cup {None, "empty"}, addr : Ip \cup {None},
          user : User \cup {None}, tenant : Tenant \cup {None}, route : Route]

Named(tag, x) == IF x = None THEN None ELSE <<tag, x>>

per_ip(i) == Named("ip", IF i.xff \notin {None, "empty"} THEN i.xff ELSE i.addr)
per_route(i) == Named("route", i.route)
per_user(i) == Named("user", i.user)
per_tenant(i) == IF i.tenant # None THEN Named("tenant", i.tenant) ELSE per_ip(i)
per_tenant_strict(i) == Named("tenant", i.tenant)

key_fn(kind, i) ==
  CASE kind = "ip" -> per_ip(i)
    [] kind = "route" -> per_route(i)
    [] kind = "user" -> per_user(i)
    [] kind = "tenant" -> per_tenant(i)
    [] kind = "tenant_strict" -> per_tenant_strict(i)

Key == ({"ip"} \X Ip) \cup ({"route"} \X Route) \cup ({"user"} \X User)
         \cup ({"tenant"} \X Tenant)

-----------------------------------------------------------------------------

VARIABLES
  kind,     (* which constructor made the layer                              *)
  now,      (* redis.call('TIME')                                            *)
  bucket,   (* the hash under each key: tokens, ts and its PEXPIRE time      *)
  req,      (* how far call() got with each request, its key and the answer  *)
  faults,   (* how many faults happened, for the bound                       *)
  (* History:                                                                *)
  taken,    (* tokens taken from each bucket                                 *)
  elapsed,  (* how far the clock went forward in all                         *)
  lost,     (* how often Redis lost a bucket                                 *)
  promise   (* when the last refusal said a token would be there, or None    *)

vars == <<kind, now, bucket, req, faults, taken, elapsed, lost, promise>>

Hash == [tokens : 0..Full, ts : Nat, until : Nat]

Answer == {"none", "served", "refused", "unlimited"}

Init ==
  /\ kind \in Kind /\ now = 0 /\ faults = 0 /\ elapsed = 0
  /\ bucket = [k \in Key |-> None]
  /\ req = [r \in Request |-> [stage |-> "new", key |-> None, answer |-> "none"]]
  /\ taken = [k \in Key |-> 0] /\ lost = [k \in Key |-> 0]
  /\ promise = [k \in Key |-> None]

Fault == faults < MaxFaults /\ faults' = faults + 1

Finish(r, answer) == req' = [req EXCEPT ![r].stage = "done", ![r].answer = answer]

(* key_fn on a request: without a key it is not limited. *)
Arrive(r) ==
  /\ req[r].stage = "new"
  /\ \E i \in Input :
       LET k == key_fn(kind, i) IN
       IF k = None THEN Finish(r, "unlimited")
       ELSE req' = [req EXCEPT ![r].stage = "asking", ![r].key = k]
  /\ UNCHANGED <<kind, now, bucket, faults, taken, elapsed, lost, promise>>

-----------------------------------------------------------------------------
(* The script. *)

(* math.min(capacity, tokens + elapsed * refill) *)
Refilled(h) == AtMost(h.tokens + Capacity * AtLeast(now - h.ts, 0), Full)

(* HMGET: an expired key is not there. *)
Found(k) == IF bucket[k] # None /\ now < bucket[k].until THEN bucket[k] ELSE None

(* Seeded fault: a bucket without a hash gives out its first token free. *)
TokensFirstFree(k) == IF Found(k) = None THEN Full + Window ELSE Refilled(Found(k))

Tokens(k) == IF Found(k) = None THEN Full ELSE Refilled(Found(k))

(* HMSET and PEXPIRE *)
Write(k, tokens) ==
  bucket' = [bucket EXCEPT ![k] = [tokens |-> tokens, ts |-> now, until |-> now + Ttl]]

(* Seeded fault: the wait is rounded down. *)
RetryAfterRoundedDown(tokens) ==
  IF Capacity > 0 THEN (Window - tokens) \div Capacity ELSE Ttl

(* math.ceil((1 - tokens) / refill * 1000) *)
RetryAfter(tokens) ==
  IF Capacity > 0 THEN (Window - tokens + Capacity - 1) \div Capacity ELSE Ttl

Allow(k) ==
  /\ Tokens(k) >= Window
  /\ Write(k, Tokens(k) - Window)
  /\ taken' = [taken EXCEPT ![k] = @ + 1]
  /\ promise' = [promise EXCEPT ![k] = None]

Refuse(k) ==
  /\ Tokens(k) < Window
  /\ Write(k, Tokens(k))
  /\ promise' = [promise EXCEPT ![k] = IF Capacity > 0 THEN now + RetryAfter(Tokens(k))
                                       ELSE None]
  /\ UNCHANGED taken

-----------------------------------------------------------------------------
(* The reply in call(). *)

Asking(r) == req[r].stage = "asking" /\ UNCHANGED <<kind, now, elapsed, lost>>

Serve(r) == Asking(r) /\ Allow(req[r].key) /\ Finish(r, "served") /\ UNCHANGED faults

(* too_many_requests *)
TooMany(r) == Asking(r) /\ Refuse(req[r].key) /\ Finish(r, "refused") /\ UNCHANGED faults

(* The call fails, before or after the script ran: the request goes through. *)
FailOpen(r) ==
  /\ Asking(r) /\ Fault /\ Finish(r, "unlimited")
  /\ \/ UNCHANGED <<bucket, taken, promise>>
     \/ Allow(req[r].key)
     \/ Refuse(req[r].key)

(* The client goes away while the script is on its way. *)
Drop(r) ==
  /\ Asking(r) /\ Finish(r, "none") /\ UNCHANGED faults
  /\ \/ UNCHANGED <<bucket, taken, promise>>
     \/ Allow(req[r].key)
     \/ Refuse(req[r].key)

-----------------------------------------------------------------------------
(* Redis. *)

Tick ==
  /\ now < MaxTime /\ now' = now + 1 /\ elapsed' = elapsed + 1
  /\ UNCHANGED <<kind, bucket, req, faults, taken, lost, promise>>

(* The clock of the Redis host is set back, or a replica with a slower one  *)
(* is promoted.                                                             *)
SetBack ==
  /\ Fault /\ now > 0
  /\ now' \in 0..(now - 1)
  /\ promise' = [k \in Key |-> None]
  /\ UNCHANGED <<kind, bucket, req, taken, elapsed, lost>>

(* An expired key is deleted; a later setback does not bring it back. *)
Expire(k) ==
  /\ bucket[k] # None /\ now >= bucket[k].until
  /\ bucket' = [bucket EXCEPT ![k] = None]
  /\ UNCHANGED <<kind, now, req, faults, taken, elapsed, lost, promise>>

(* A key is evicted, or lost in a failover. *)
Evict(k) ==
  /\ Fault /\ bucket[k] # None
  /\ bucket' = [bucket EXCEPT ![k] = None]
  /\ lost' = [lost EXCEPT ![k] = @ + 1]
  /\ promise' = [promise EXCEPT ![k] = None]
  /\ UNCHANGED <<kind, now, req, taken, elapsed>>

Next ==
  \/ Tick \/ SetBack
  \/ \E k \in Key : Expire(k) \/ Evict(k)
  \/ \E r \in Request : Arrive(r) \/ Serve(r) \/ TooMany(r) \/ FailOpen(r) \/ Drop(r)

Spec == Init /\ [][Next]_vars

-----------------------------------------------------------------------------

(* The types of the buckets and of the requests: a bucket never holds more  *)
(* than its capacity nor less than nothing.                                 *)
TypeOK ==
  /\ kind \in Kind /\ now \in Nat /\ faults \in Nat /\ elapsed \in Nat
  /\ bucket \in [Key -> Hash \cup {None}]
  /\ req \in [Request -> [stage : {"new", "asking", "done"}, key : Key \cup {None},
                          answer : Answer]]
  /\ taken \in [Key -> Nat] /\ lost \in [Key -> Nat]
  /\ promise \in [Key -> Nat \cup {None}]

(* What the abstract bucket holds: the hash with the refill it has not      *)
(* drawn on yet, as if expiry did not exist.                                *)
Level == [k \in Key |-> IF bucket[k] = None THEN Full ELSE Refilled(bucket[k])]

(* The hash is stamped with a time the clock is yet to reach. *)
Ahead == [k \in Key |-> bucket[k] # None /\ now < bucket[k].ts]

Abstract == INSTANCE TokenBucket WITH level <- Level, behind <- Ahead

(* The hashes with their lazy refill, time stamps and expiry are buckets    *)
(* that fill evenly and give a token to each request let through (the       *)
(* script, lines 46-91): letting a key expire forgets no debt, a refused    *)
(* request costs nothing, and neither do calls that fail.                   *)
ImplementsTokenBucket == Abstract!Spec

(* "Token bucket": over any stretch of time no more tokens are taken than a *)
(* full bucket plus the refill, for each bucket Redis loses one full bucket *)
(* more, and with a clock that is set back only the time it goes forward    *)
(* again.                                                                   *)
AdmitsWithinRate ==
  \A k \in Key : taken[k] * Window <= Full + Full * lost[k] + Capacity * elapsed

(* "ms until one token regenerates" (line 79): from the moment the script   *)
(* names on, and not before, a request would be let through, as long as     *)
(* nobody else takes the token and the clock is not set back.               *)
RetryAfterIsExact ==
  \A k \in Key :
    promise[k] # None => (now >= promise[k] <=> Tokens(k) >= Window)
=============================================================================
