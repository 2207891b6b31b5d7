---------------------------- MODULE ProvidersProofs ----------------------------
(* Proofs about Providers: boot, readiness and drain are bounded for any      *)
(* timeouts and any upstreams.                                                *)
EXTENDS Providers, SequenceTheorems, TLAPS

-----------------------------------------------------------------------------
(* The steps of init, one provider at a time. *)

(* An error is a kind or is passed over. *)
ErrorOK(error) == \A u \in Upstream : error[u] \in Kind \cup {"ok"}

(* Only migrations ask without a limit. *)
StepOK(step) ==
  /\ step.asks \in BOOLEAN /\ step.limit \in Nat \cup {None}
  /\ step.late \in Kind \cup {"ok"} /\ ErrorOK(step.error)
  /\ step.asks => (step.limit = None <=> step.what = "migrate")

(* How long a step may wait; migrations are not counted. *)
Cost(step) == IF step.asks /\ step.limit # None THEN step.limit ELSE 0

(* How long the steps of an init before each of them may wait. *)
Before ==
  [postgres |-> <<0, 0, 0, connect_timeout, connect_timeout + op_timeout,
                 connect_timeout + op_timeout>>,
   redis |-> <<0, 0, 0, connect_timeout>>,
   mongodb |-> <<0, 0, 0, connect_timeout>>,
   nats |-> <<0, 0, 0, connect_timeout, connect_timeout + op_timeout>>,
   qdrant |-> <<0, 0, 0>>,
   neo4j |-> <<0, 0, 0, 0, connect_timeout>>,
   s3 |-> <<0, 0, 0>>,
   oss |-> <<0, 0, 0, 0>>,
   llm |-> <<0>>]

StepFits(p, j) ==
  /\ StepOK(Steps(p)[j])
  /\ Before[p][j] \in Nat /\ Cost(Steps(p)[j]) \in Nat
  /\ Before[p][j] + Cost(Steps(p)[j]) <= InitBudget(p)
  /\ j # Len(Steps(p)) => Before[p][j + 1] = Before[p][j] + Cost(Steps(p)[j])

ProviderOK(p) ==
  /\ Len(Steps(p)) \in Nat \ {0} /\ Before[p][1] = 0
  /\ \A j \in 1..Len(Steps(p)) : StepFits(p, j)

LEMMA Errors ==
  /\ ErrorOK(TimedOutOrRefused) /\ ErrorOK(classify_s3_sdk_error) /\ ErrorOK(classify_oss_error)
  /\ \A kind \in Kind \cup {"ok"} : ErrorOK(Always(kind))
  /\ ErrorOK([TimedOutOrRefused EXCEPT !.odd = "Other"])
  /\ ErrorOK([TimedOutOrRefused EXCEPT !.refusing = "Timeout"])
  /\ ErrorOK([Always("InvalidUrl") EXCEPT !.odd = "ok"])
  /\ ErrorOK(Classified("ok", "Other", "Other", "ok"))
BY DEF ErrorOK, TimedOutOrRefused, classify_s3_sdk_error, classify_oss_error, Always,
       Classified, Kind, Upstream

LEMMA CheckStep ==
  ASSUME NEW what, NEW kind \in Kind
  PROVE  StepOK(Check(what, kind)) /\ Cost(Check(what, kind)) = 0
<1>1. ErrorOK(Always(kind))
  BY Errors
<1> QED BY <1>1 DEF StepOK, Cost, Check

LEMMA AskStep ==
  ASSUME NEW what, what # "migrate", NEW limit \in Nat, NEW mute, NEW error, ErrorOK(error)
  PROVE  /\ StepOK(Ask(what, limit, mute, error))
         /\ Cost(Ask(what, limit, mute, error)) = limit
BY ProvidersAssumption DEF StepOK, Cost, Ask, Kind

LEMMA CallStep ==
  ASSUME NEW what, what # "migrate", NEW limit \in Nat, NEW error, ErrorOK(error)
  PROVE  StepOK(Call(what, limit, error)) /\ Cost(Call(what, limit, error)) = limit
BY AskStep DEF Call

LEMMA AcquireStep ==
  ASSUME NEW what, what # "migrate", NEW limit \in Nat
  PROVE  StepOK(Acquire(what, limit)) /\ Cost(Acquire(what, limit)) = limit
<1>1. ErrorOK([classify_sqlx_error EXCEPT !.refusing = "Timeout"])
  BY Errors DEF classify_sqlx_error
<1> QED BY <1>1, AskStep DEF Acquire

LEMMA AdvisoryStep ==
  ASSUME NEW what, what # "migrate", NEW limit \in Nat
  PROVE  StepOK(Advisory(what, limit)) /\ Cost(Advisory(what, limit)) = limit
<1>1. ErrorOK(Always("ok"))
  BY Errors DEF Kind
<1> QED BY <1>1, ProvidersAssumption DEF StepOK, Cost, Advisory

LEMMA MigrateStep ==
  LET step == Call("migrate", None, Always("Other")) IN StepOK(step) /\ Cost(step) = 0
<1>1. ErrorOK(Always("Other"))
  BY Errors DEF Kind
<1> QED BY <1>1 DEF StepOK, Cost, Call, Ask, Kind

LEMMA Upto ==
  /\ 1..1 = {1} /\ 1..3 = {1, 2, 3} /\ 1..4 = {1, 2, 3, 4} /\ 1..5 = {1, 2, 3, 4, 5}
  /\ 1..6 = {1, 2, 3, 4, 5, 6} /\ \A n \in {1, 3, 4, 5, 6} : n \in Nat \ {0}
OBVIOUS

LEMMA Timeouts == connect_timeout \in Nat /\ op_timeout \in Nat
BY ProvidersAssumption

LEMMA PostgresInit == ProviderOK("postgres")
<1> DEFINE s1 == Check("scheme", "InvalidUrl")
           s2 == Check("url", "ConnectionRefused")
           s3 == Acquire("connect", connect_timeout)
           s4 == Acquire("select", op_timeout)
<1>1. StepOK(s1) /\ Cost(s1) = 0
  <2>1. "InvalidUrl" \in Kind
    BY DEF Kind
  <2> QED BY <2>1, CheckStep
<1>2. StepOK(s2) /\ Cost(s2) = 0
  <2>1. "ConnectionRefused" \in Kind
    BY DEF Kind
  <2> QED BY <2>1, CheckStep
<1>3. StepOK(s3) /\ Cost(s3) = connect_timeout
  BY AcquireStep, Timeouts
<1>4. StepOK(s4) /\ Cost(s4) = op_timeout
  BY AcquireStep, Timeouts
<1>5. Provider["postgres"].init = <<s1, s2, s3, s4>>
  <2>1. Provider["postgres"] = Postgres
    BY DEF Provider
  <2>2. Postgres.init = <<s1, s2, s3, s4>>
    BY DEF Postgres
  <2> QED BY <2>1, <2>2
<1> DEFINE m == Check("migrations", "Misconfigured")
           r == Call("migrate", None, Always("Other"))
<1>6. StepOK(m) /\ Cost(m) = 0 /\ StepOK(r) /\ Cost(r) = 0
  <2>1. "Misconfigured" \in Kind
    BY DEF Kind
  <2> QED BY <2>1, CheckStep, MigrateStep
<1>7. run_migrations = <<m, r>>
  BY DEF run_migrations
<1> HIDE DEF s1, s2, s3, s4, m, r
<1>8. /\ Steps("postgres")[1] = s1 /\ Steps("postgres")[2] = s2
      /\ Steps("postgres")[3] = s3 /\ Steps("postgres")[4] = s4
      /\ \/ Len(Steps("postgres")) = 4
         \/ /\ Len(Steps("postgres")) = 6
            /\ Steps("postgres")[5] = m /\ Steps("postgres")[6] = r
  <2>1. \/ Steps("postgres") = <<s1, s2, s3, s4>> \o <<>>
        \/ Steps("postgres") = <<s1, s2, s3, s4>> \o <<m, r>>
    BY <1>5, <1>7 DEF Steps
  <2>2. <<s1, s2, s3, s4>> \o <<>> = <<s1, s2, s3, s4>>
    OBVIOUS
  <2>3. LET all == <<s1, s2, s3, s4>> \o <<m, r>>
        IN  /\ Len(all) = 6
            /\ all[1] = s1 /\ all[2] = s2 /\ all[3] = s3 /\ all[4] = s4 /\ all[5] = m /\ all[6] = r
    OBVIOUS
  <2> QED BY <2>1, <2>2, <2>3
<1>9. /\ Before["postgres"][1] = 0
      /\ Before["postgres"][2] = 0
      /\ Before["postgres"][3] = 0
      /\ Before["postgres"][4] = connect_timeout
      /\ Before["postgres"][5] = connect_timeout + op_timeout
      /\ Before["postgres"][6] = connect_timeout + op_timeout
  BY DEF Before
<1>10. InitBudget("postgres") = connect_timeout + op_timeout
  BY DEF InitBudget
<1>11. StepFits("postgres", 1)
  BY <1>1, <1>8, <1>9, <1>10, Timeouts DEF StepFits
<1>12. StepFits("postgres", 2)
  BY <1>2, <1>8, <1>9, <1>10, Timeouts DEF StepFits
<1>13. StepFits("postgres", 3)
  BY <1>3, <1>8, <1>9, <1>10, Timeouts DEF StepFits
<1>14. StepFits("postgres", 4)
  BY <1>4, <1>8, <1>9, <1>10, Timeouts DEF StepFits
<1>15. CASE Len(Steps("postgres")) = 4
  <2>1. 1..Len(Steps("postgres")) = {1, 2, 3, 4} /\ Len(Steps("postgres")) \in Nat \ {0}
    BY <1>15, Upto, Zenon
  <2> QED BY <2>1, <1>9, <1>11, <1>12, <1>13, <1>14 DEF ProviderOK
<1>16. CASE Len(Steps("postgres")) = 6
  <2>1. 1..Len(Steps("postgres")) = {1, 2, 3, 4, 5, 6} /\ Len(Steps("postgres")) \in Nat \ {0}
    BY <1>16, Upto, Zenon
  <2>2. Steps("postgres")[5] = m /\ Steps("postgres")[6] = r
    BY <1>8, <1>16
  <2>3. StepFits("postgres", 5)
    BY <1>6, <1>9, <1>10, <1>16, <2>2, Timeouts DEF StepFits
  <2>4. StepFits("postgres", 6)
    BY <1>6, <1>9, <1>10, <1>16, <2>2, Timeouts DEF StepFits
  <2> QED BY <2>1, <2>3, <2>4, <1>9, <1>11, <1>12, <1>13, <1>14 DEF ProviderOK
<1> QED BY <1>8, <1>15, <1>16

LEMMA RedisInit == ProviderOK("redis")
<1> DEFINE s1 == Check("scheme", "InvalidUrl")
           s2 == Check("url", "InvalidUrl")
           s3 == Call("connect", connect_timeout, classify_redis_error)
           s4 == Call("PING", op_timeout, [classify_redis_error EXCEPT !.odd = "Other"])
<1>1. StepOK(s1) /\ Cost(s1) = 0
  <2>1. "InvalidUrl" \in Kind
    BY DEF Kind
  <2> QED BY <2>1, CheckStep
<1>2. StepOK(s2) /\ Cost(s2) = 0
  <2>1. "InvalidUrl" \in Kind
    BY DEF Kind
  <2> QED BY <2>1, CheckStep
<1>3. StepOK(s3) /\ Cost(s3) = connect_timeout
  <2>1. ErrorOK(classify_redis_error)
    BY Errors DEF classify_redis_error
  <2> QED BY <2>1, CallStep, Timeouts
<1>4. StepOK(s4) /\ Cost(s4) = op_timeout
  <2>1. ErrorOK([classify_redis_error EXCEPT !.odd = "Other"])
    BY Errors DEF classify_redis_error
  <2> QED BY <2>1, CallStep, Timeouts
<1>5. Provider["redis"].init = <<s1, s2, s3, s4>>
  <2>1. Provider["redis"] = Redis
    BY DEF Provider
  <2>2. Redis.init = <<s1, s2, s3, s4>>
    BY DEF Redis
  <2> QED BY <2>1, <2>2
<1> HIDE DEF s1, s2, s3, s4
<1>6. /\ Len(Steps("redis")) = 4
      /\ Steps("redis")[1] = s1 /\ Steps("redis")[2] = s2 /\ Steps("redis")[3] = s3
      /\ Steps("redis")[4] = s4
  <2>1. Steps("redis") = <<s1, s2, s3, s4>> \o <<>>
    BY <1>5 DEF Steps
  <2>2. <<s1, s2, s3, s4>> \o <<>> = <<s1, s2, s3, s4>>
    OBVIOUS
  <2> QED BY <2>1, <2>2
<1>7. /\ Before["redis"][1] = 0
      /\ Before["redis"][2] = 0
      /\ Before["redis"][3] = 0
      /\ Before["redis"][4] = connect_timeout
  BY DEF Before
<1>8. InitBudget("redis") = connect_timeout + op_timeout
  BY DEF InitBudget
<1>9. StepFits("redis", 1)
  BY <1>1, <1>6, <1>7, <1>8, Timeouts DEF StepFits
<1>10. StepFits("redis", 2)
  BY <1>2, <1>6, <1>7, <1>8, Timeouts DEF StepFits
<1>11. StepFits("redis", 3)
  BY <1>3, <1>6, <1>7, <1>8, Timeouts DEF StepFits
<1>12. StepFits("redis", 4)
  BY <1>4, <1>6, <1>7, <1>8, Timeouts DEF StepFits
<1>13. 1..Len(Steps("redis")) = {1, 2, 3, 4} /\ Len(Steps("redis")) \in Nat \ {0}
  BY <1>6, Upto, Zenon
<1> QED BY <1>13, <1>7, <1>9, <1>10, <1>11, <1>12 DEF ProviderOK

LEMMA MongoDbInit == ProviderOK("mongodb")
<1> DEFINE s1 == Check("scheme", "InvalidUrl")
           s2 == Check("url", "InvalidUrl")
           s3 == Call("with_uri_str", connect_timeout, [Always("InvalidUrl") EXCEPT !.odd = "ok"])
           s4 == Ask("ping", op_timeout, Mute("mongodb"), classify_mongo_error)
<1>1. StepOK(s1) /\ Cost(s1) = 0
  <2>1. "InvalidUrl" \in Kind
    BY DEF Kind
  <2> QED BY <2>1, CheckStep
<1>2. StepOK(s2) /\ Cost(s2) = 0
  <2>1. "InvalidUrl" \in Kind
    BY DEF Kind
  <2> QED BY <2>1, CheckStep
<1>3. StepOK(s3) /\ Cost(s3) = connect_timeout
  <2>1. ErrorOK([Always("InvalidUrl") EXCEPT !.odd = "ok"])
    BY Errors
  <2> QED BY <2>1, CallStep, Timeouts
<1>4. StepOK(s4) /\ Cost(s4) = op_timeout
  <2>1. ErrorOK(classify_mongo_error)
    BY Errors DEF classify_mongo_error
  <2> QED BY <2>1, AskStep, Timeouts
<1>5. Provider["mongodb"].init = <<s1, s2, s3, s4>>
  <2>1. Provider["mongodb"] = MongoDb
    BY DEF Provider
  <2>2. MongoDb.init = <<s1, s2, s3, s4>>
    BY DEF MongoDb
  <2> QED BY <2>1, <2>2
<1> HIDE DEF s1, s2, s3, s4
<1>6. /\ Len(Steps("mongodb")) = 4
      /\ Steps("mongodb")[1] = s1 /\ Steps("mongodb")[2] = s2 /\ Steps("mongodb")[3] = s3
      /\ Steps("mongodb")[4] = s4
  <2>1. Steps("mongodb") = <<s1, s2, s3, s4>> \o <<>>
    BY <1>5 DEF Steps
  <2>2. <<s1, s2, s3, s4>> \o <<>> = <<s1, s2, s3, s4>>
    OBVIOUS
  <2> QED BY <2>1, <2>2
<1>7. /\ Before["mongodb"][1] = 0
      /\ Before["mongodb"][2] = 0
      /\ Before["mongodb"][3] = 0
      /\ Before["mongodb"][4] = connect_timeout
  BY DEF Before
<1>8. InitBudget("mongodb") = connect_timeout + op_timeout
  BY DEF InitBudget
<1>9. StepFits("mongodb", 1)
  BY <1>1, <1>6, <1>7, <1>8, Timeouts DEF StepFits
<1>10. StepFits("mongodb", 2)
  BY <1>2, <1>6, <1>7, <1>8, Timeouts DEF StepFits
<1>11. StepFits("mongodb", 3)
  BY <1>3, <1>6, <1>7, <1>8, Timeouts DEF StepFits
<1>12. StepFits("mongodb", 4)
  BY <1>4, <1>6, <1>7, <1>8, Timeouts DEF StepFits
<1>13. 1..Len(Steps("mongodb")) = {1, 2, 3, 4} /\ Len(Steps("mongodb")) \in Nat \ {0}
  BY <1>6, Upto, Zenon
<1> QED BY <1>13, <1>7, <1>9, <1>10, <1>11, <1>12 DEF ProviderOK

LEMMA NatsInit == ProviderOK("nats")
<1> DEFINE s1 == Check("scheme", "InvalidUrl")
           s2 == Check("url", "ConnectionRefused")
           s3 == Call("connect", connect_timeout, classify_nats_connect_error)
           s4 == Ask("flush", op_timeout, Mute("nats"), Classified("ok", "Other", "Other", "ok"))
           s5 == Advisory("query_account", op_timeout)
<1>1. StepOK(s1) /\ Cost(s1) = 0
  <2>1. "InvalidUrl" \in Kind
    BY DEF Kind
  <2> QED BY <2>1, CheckStep
<1>2. StepOK(s2) /\ Cost(s2) = 0
  <2>1. "ConnectionRefused" \in Kind
    BY DEF Kind
  <2> QED BY <2>1, CheckStep
<1>3. StepOK(s3) /\ Cost(s3) = connect_timeout
  <2>1. ErrorOK(classify_nats_connect_error)
    BY Errors DEF classify_nats_connect_error
  <2> QED BY <2>1, CallStep, Timeouts
<1>4. StepOK(s4) /\ Cost(s4) = op_timeout
  BY Errors, AskStep, Timeouts
<1>5. StepOK(s5) /\ Cost(s5) = op_timeout
  BY AdvisoryStep, Timeouts
<1>6. Provider["nats"].init = <<s1, s2, s3, s4, s5>>
  <2>1. Provider["nats"] = Nats
    BY DEF Provider
  <2>2. Nats.init = <<s1, s2, s3, s4, s5>>
    BY DEF Nats
  <2> QED BY <2>1, <2>2
<1> HIDE DEF s1, s2, s3, s4, s5
<1>7. /\ Len(Steps("nats")) = 5
      /\ Steps("nats")[1] = s1 /\ Steps("nats")[2] = s2 /\ Steps("nats")[3] = s3
      /\ Steps("nats")[4] = s4 /\ Steps("nats")[5] = s5
  <2>1. Steps("nats") = <<s1, s2, s3, s4, s5>> \o <<>>
    BY <1>6 DEF Steps
  <2>2. <<s1, s2, s3, s4, s5>> \o <<>> = <<s1, s2, s3, s4, s5>>
    OBVIOUS
  <2> QED BY <2>1, <2>2
<1>8. /\ Before["nats"][1] = 0
      /\ Before["nats"][2] = 0
      /\ Before["nats"][3] = 0
      /\ Before["nats"][4] = connect_timeout
      /\ Before["nats"][5] = connect_timeout + op_timeout
  BY DEF Before
<1>9. InitBudget("nats") = connect_timeout + 2 * op_timeout
  BY DEF InitBudget
<1>10. StepFits("nats", 1)
  BY <1>1, <1>7, <1>8, <1>9, Timeouts DEF StepFits
<1>11. StepFits("nats", 2)
  BY <1>2, <1>7, <1>8, <1>9, Timeouts DEF StepFits
<1>12. StepFits("nats", 3)
  BY <1>3, <1>7, <1>8, <1>9, Timeouts DEF StepFits
<1>13. StepFits("nats", 4)
  BY <1>4, <1>7, <1>8, <1>9, Timeouts DEF StepFits
<1>14. StepFits("nats", 5)
  BY <1>5, <1>7, <1>8, <1>9, Timeouts DEF StepFits
<1>15. 1..Len(Steps("nats")) = {1, 2, 3, 4, 5} /\ Len(Steps("nats")) \in Nat \ {0}
  BY <1>7, Upto, Zenon
<1> QED BY <1>15, <1>8, <1>10, <1>11, <1>12, <1>13, <1>14 DEF ProviderOK

LEMMA QdrantInit == ProviderOK("qdrant")
<1> DEFINE s1 == Check("scheme", "InvalidUrl")
           s2 == Check("build", "Misconfigured")
           s3 == Call("list_collections", op_timeout, classify_qdrant_error)
<1>1. StepOK(s1) /\ Cost(s1) = 0
  <2>1. "InvalidUrl" \in Kind
    BY DEF Kind
  <2> QED BY <2>1, CheckStep
<1>2. StepOK(s2) /\ Cost(s2) = 0
  <2>1. "Misconfigured" \in Kind
    BY DEF Kind
  <2> QED BY <2>1, CheckStep
<1>3. StepOK(s3) /\ Cost(s3) = op_timeout
  <2>1. ErrorOK(classify_qdrant_error)
    BY Errors DEF classify_qdrant_error
  <2> QED BY <2>1, CallStep, Timeouts
<1>4. Provider["qdrant"].init = <<s1, s2, s3>>
  <2>1. Provider["qdrant"] = Qdrant
    BY DEF Provider
  <2>2. Qdrant.init = <<s1, s2, s3>>
    BY DEF Qdrant
  <2> QED BY <2>1, <2>2
<1> HIDE DEF s1, s2, s3
<1>5. /\ Len(Steps("qdrant")) = 3
      /\ Steps("qdrant")[1] = s1 /\ Steps("qdrant")[2] = s2 /\ Steps("qdrant")[3] = s3
  <2>1. Steps("qdrant") = <<s1, s2, s3>> \o <<>>
    BY <1>4 DEF Steps
  <2>2. <<s1, s2, s3>> \o <<>> = <<s1, s2, s3>>
    OBVIOUS
  <2> QED BY <2>1, <2>2
<1>6. /\ Before["qdrant"][1] = 0
      /\ Before["qdrant"][2] = 0
      /\ Before["qdrant"][3] = 0
  BY DEF Before
<1>7. InitBudget("qdrant") = connect_timeout + op_timeout
  BY DEF InitBudget
<1>8. StepFits("qdrant", 1)
  BY <1>1, <1>5, <1>6, <1>7, Timeouts DEF StepFits
<1>9. StepFits("qdrant", 2)
  BY <1>2, <1>5, <1>6, <1>7, Timeouts DEF StepFits
<1>10. StepFits("qdrant", 3)
  BY <1>3, <1>5, <1>6, <1>7, Timeouts DEF StepFits
<1>11. 1..Len(Steps("qdrant")) = {1, 2, 3} /\ Len(Steps("qdrant")) \in Nat \ {0}
  BY <1>5, Upto, Zenon
<1> QED BY <1>11, <1>6, <1>8, <1>9, <1>10 DEF ProviderOK

LEMMA Neo4jInit == ProviderOK("neo4j")
<1> DEFINE s1 == Check("scheme", "InvalidUrl")
           s2 == Check("username", "Misconfigured")
           s3 == Check("build", "Misconfigured")
           s4 == Call("connect", connect_timeout, classify_neo4j_error)
           s5 == Call("return", op_timeout, Always("AuthFailed"))
<1>1. StepOK(s1) /\ Cost(s1) = 0
  <2>1. "InvalidUrl" \in Kind
    BY DEF Kind
  <2> QED BY <2>1, CheckStep
<1>2. StepOK(s2) /\ Cost(s2) = 0
  <2>1. "Misconfigured" \in Kind
    BY DEF Kind
  <2> QED BY <2>1, CheckStep
<1>3. StepOK(s3) /\ Cost(s3) = 0
  <2>1. "Misconfigured" \in Kind
    BY DEF Kind
  <2> QED BY <2>1, CheckStep
<1>4. StepOK(s4) /\ Cost(s4) = connect_timeout
  <2>1. ErrorOK(classify_neo4j_error)
    BY Errors DEF classify_neo4j_error
  <2> QED BY <2>1, CallStep, Timeouts
<1>5. StepOK(s5) /\ Cost(s5) = op_timeout
  <2>1. ErrorOK(Always("AuthFailed"))
    BY Errors DEF Kind
  <2> QED BY <2>1, CallStep, Timeouts
<1>6. Provider["neo4j"].init = <<s1, s2, s3, s4, s5>>
  <2>1. Provider["neo4j"] = Neo4j
    BY DEF Provider
  <2>2. Neo4j.init = <<s1, s2, s3, s4, s5>>
    BY DEF Neo4j
  <2> QED BY <2>1, <2>2
<1> HIDE DEF s1, s2, s3, s4, s5
<1>7. /\ Len(Steps("neo4j")) = 5
      /\ Steps("neo4j")[1] = s1 /\ Steps("neo4j")[2] = s2 /\ Steps("neo4j")[3] = s3
      /\ Steps("neo4j")[4] = s4 /\ Steps("neo4j")[5] = s5
  <2>1. Steps("neo4j") = <<s1, s2, s3, s4, s5>> \o <<>>
    BY <1>6 DEF Steps
  <2>2. <<s1, s2, s3, s4, s5>> \o <<>> = <<s1, s2, s3, s4, s5>>
    OBVIOUS
  <2> QED BY <2>1, <2>2
<1>8. /\ Before["neo4j"][1] = 0
      /\ Before["neo4j"][2] = 0
      /\ Before["neo4j"][3] = 0
      /\ Before["neo4j"][4] = 0
      /\ Before["neo4j"][5] = connect_timeout
  BY DEF Before
<1>9. InitBudget("neo4j") = connect_timeout + op_timeout
  BY DEF InitBudget
<1>10. StepFits("neo4j", 1)
  BY <1>1, <1>7, <1>8, <1>9, Timeouts DEF StepFits
<1>11. StepFits("neo4j", 2)
  BY <1>2, <1>7, <1>8, <1>9, Timeouts DEF StepFits
<1>12. StepFits("neo4j", 3)
  BY <1>3, <1>7, <1>8, <1>9, Timeouts DEF StepFits
<1>13. StepFits("neo4j", 4)
  BY <1>4, <1>7, <1>8, <1>9, Timeouts DEF StepFits
<1>14. StepFits("neo4j", 5)
  BY <1>5, <1>7, <1>8, <1>9, Timeouts DEF StepFits
<1>15. 1..Len(Steps("neo4j")) = {1, 2, 3, 4, 5} /\ Len(Steps("neo4j")) \in Nat \ {0}
  BY <1>7, Upto, Zenon
<1> QED BY <1>15, <1>8, <1>10, <1>11, <1>12, <1>13, <1>14 DEF ProviderOK

LEMMA S3Init == ProviderOK("s3")
<1> DEFINE s1 == Check("bucket", "Misconfigured")
           s2 == Check("endpoint", "InvalidUrl")
           s3 == Call("head_bucket", op_timeout, classify_s3_sdk_error)
<1>1. StepOK(s1) /\ Cost(s1) = 0
  <2>1. "Misconfigured" \in Kind
    BY DEF Kind
  <2> QED BY <2>1, CheckStep
<1>2. StepOK(s2) /\ Cost(s2) = 0
  <2>1. "InvalidUrl" \in Kind
    BY DEF Kind
  <2> QED BY <2>1, CheckStep
<1>3. StepOK(s3) /\ Cost(s3) = op_timeout
  <2>1. ErrorOK(classify_s3_sdk_error)
    BY Errors
  <2> QED BY <2>1, CallStep, Timeouts
<1>4. Provider["s3"].init = <<s1, s2, s3>>
  <2>1. Provider["s3"] = S3
    BY DEF Provider
  <2>2. S3.init = <<s1, s2, s3>>
    BY DEF S3
  <2> QED BY <2>1, <2>2
<1> HIDE DEF s1, s2, s3
<1>5. /\ Len(Steps("s3")) = 3
      /\ Steps("s3")[1] = s1 /\ Steps("s3")[2] = s2 /\ Steps("s3")[3] = s3
  <2>1. Steps("s3") = <<s1, s2, s3>> \o <<>>
    BY <1>4 DEF Steps
  <2>2. <<s1, s2, s3>> \o <<>> = <<s1, s2, s3>>
    OBVIOUS
  <2> QED BY <2>1, <2>2
<1>6. /\ Before["s3"][1] = 0
      /\ Before["s3"][2] = 0
      /\ Before["s3"][3] = 0
  BY DEF Before
<1>7. InitBudget("s3") = connect_timeout + op_timeout
  BY DEF InitBudget
<1>8. StepFits("s3", 1)
  BY <1>1, <1>5, <1>6, <1>7, Timeouts DEF StepFits
<1>9. StepFits("s3", 2)
  BY <1>2, <1>5, <1>6, <1>7, Timeouts DEF StepFits
<1>10. StepFits("s3", 3)
  BY <1>3, <1>5, <1>6, <1>7, Timeouts DEF StepFits
<1>11. 1..Len(Steps("s3")) = {1, 2, 3} /\ Len(Steps("s3")) \in Nat \ {0}
  BY <1>5, Upto, Zenon
<1> QED BY <1>11, <1>6, <1>8, <1>9, <1>10 DEF ProviderOK

LEMMA OssInit == ProviderOK("oss")
<1> DEFINE s1 == Check("settings", "Misconfigured")
           s2 == Check("client", "Misconfigured")
           s3 == Check("handle", "Other")
           s4 == Call("get_info", op_timeout, classify_oss_error)
<1>1. StepOK(s1) /\ Cost(s1) = 0
  <2>1. "Misconfigured" \in Kind
    BY DEF Kind
  <2> QED BY <2>1, CheckStep
<1>2. StepOK(s2) /\ Cost(s2) = 0
  <2>1. "Misconfigured" \in Kind
    BY DEF Kind
  <2> QED BY <2>1, CheckStep
<1>3. StepOK(s3) /\ Cost(s3) = 0
  <2>1. "Other" \in Kind
    BY DEF Kind
  <2> QED BY <2>1, CheckStep
<1>4. StepOK(s4) /\ Cost(s4) = op_timeout
  <2>1. ErrorOK(classify_oss_error)
    BY Errors
  <2> QED BY <2>1, CallStep, Timeouts
<1>5. Provider["oss"].init = <<s1, s2, s3, s4>>
  <2>1. Provider["oss"] = Oss
    BY DEF Provider
  <2>2. Oss.init = <<s1, s2, s3, s4>>
    BY DEF Oss
  <2> QED BY <2>1, <2>2
<1> HIDE DEF s1, s2, s3, s4
<1>6. /\ Len(Steps("oss")) = 4
      /\ Steps("oss")[1] = s1 /\ Steps("oss")[2] = s2 /\ Steps("oss")[3] = s3
      /\ Steps("oss")[4] = s4
  <2>1. Steps("oss") = <<s1, s2, s3, s4>> \o <<>>
    BY <1>5 DEF Steps
  <2>2. <<s1, s2, s3, s4>> \o <<>> = <<s1, s2, s3, s4>>
    OBVIOUS
  <2> QED BY <2>1, <2>2
<1>7. /\ Before["oss"][1] = 0
      /\ Before["oss"][2] = 0
      /\ Before["oss"][3] = 0
      /\ Before["oss"][4] = 0
  BY DEF Before
<1>8. InitBudget("oss") = connect_timeout + op_timeout
  BY DEF InitBudget
<1>9. StepFits("oss", 1)
  BY <1>1, <1>6, <1>7, <1>8, Timeouts DEF StepFits
<1>10. StepFits("oss", 2)
  BY <1>2, <1>6, <1>7, <1>8, Timeouts DEF StepFits
<1>11. StepFits("oss", 3)
  BY <1>3, <1>6, <1>7, <1>8, Timeouts DEF StepFits
<1>12. StepFits("oss", 4)
  BY <1>4, <1>6, <1>7, <1>8, Timeouts DEF StepFits
<1>13. 1..Len(Steps("oss")) = {1, 2, 3, 4} /\ Len(Steps("oss")) \in Nat \ {0}
  BY <1>6, Upto, Zenon
<1> QED BY <1>13, <1>7, <1>9, <1>10, <1>11, <1>12 DEF ProviderOK

LEMMA LlmInit == ProviderOK("llm")
<1> DEFINE s1 == Check("backends", "Misconfigured")
<1>1. StepOK(s1) /\ Cost(s1) = 0
  <2>1. "Misconfigured" \in Kind
    BY DEF Kind
  <2> QED BY <2>1, CheckStep
<1>2. Provider["llm"].init = <<s1>>
  <2>1. Provider["llm"] = Llm
    BY DEF Provider
  <2>2. Llm.init = <<s1>>
    BY DEF Llm
  <2> QED BY <2>1, <2>2
<1> HIDE DEF s1
<1>3. /\ Len(Steps("llm")) = 1
      /\ Steps("llm")[1] = s1
  <2>1. Steps("llm") = <<s1>> \o <<>>
    BY <1>2 DEF Steps
  <2>2. <<s1>> \o <<>> = <<s1>>
    OBVIOUS
  <2> QED BY <2>1, <2>2
<1>4. Before["llm"][1] = 0
  BY DEF Before
<1>5. InitBudget("llm") = 0
  BY DEF InitBudget
<1>6. StepFits("llm", 1)
  BY <1>1, <1>3, <1>4, <1>5, Timeouts DEF StepFits
<1>7. 1..Len(Steps("llm")) = {1} /\ Len(Steps("llm")) \in Nat \ {0}
  BY <1>3, Upto, Zenon
<1> QED BY <1>7, <1>4, <1>6 DEF ProviderOK

LEMMA EveryProvider == ASSUME NEW p \in DOMAIN Provider PROVE ProviderOK(p)
<1>1. DOMAIN Provider = {"postgres", "redis", "mongodb", "nats", "qdrant", "neo4j", "s3", "oss", "llm"}
  BY DEF Provider
<1> QED BY <1>1, PostgresInit, RedisInit, MongoDbInit, NatsInit, QdrantInit, Neo4jInit, S3Init,
           OssInit, LlmInit

-----------------------------------------------------------------------------
(* The inductive invariant. *)

(* How long the step at hand has waited, as far as it counts. *)
Waited == IF Step.asks /\ Step.limit # None THEN now - at.since ELSE 0

(* The init at hand has taken what its steps so far may take. *)
BootOK ==
  phase = "init" =>
    /\ at.i \in 1..Len(chain) /\ at.j \in 1..Len(Steps(Current)) /\ at.since <= now
    /\ Waited <= Cost(Step) /\ spent <= Before[Current][at.j] + Waited

(* Nothing is there of a provider that is still to come. *)
ToComeOK ==
  phase = "init" =>
    \A k \in at.i..Len(chain) :
      /\ chain[k] \notin ToSet(up) /\ \A d \in degraded : d.key # chain[k]
      /\ chain[k] = "postgres" => pool = "none" /\ sampler = "none"

(* Nothing is there of one whose init failed. *)
FailedOK ==
  \A d \in degraded :
    /\ d.key \notin ToSet(up)
    /\ d.key = "postgres" => pool = "none" /\ sampler = "none"

(* A probe asks those that came up, and has not run out of time. *)
ProbeOK ==
  probe # NoProbe =>
    /\ phase = "up" /\ probe.since \in Nat /\ probe.since <= now
    /\ now <= probe.since + ProbeLimit
    /\ probe.pending \subseteq Registered /\ probe.alive \subseteq Registered

(* The drain is at one of those that came up, and its hook in time. *)
DrainOK ==
  phase = "closing" =>
    /\ at.i \in 0..Len(up) /\ at.since <= now /\ now <= at.since + shutdown_timeout

Inv == TypeOK /\ BootOK /\ ToComeOK /\ FailedOK /\ ProbeOK /\ DrainOK

LEMMA Settings ==
  ASSUME UNCHANGED settings
  PROVE  /\ chain' = chain /\ required' = required /\ migrate' = migrate /\ Member' = Member
         /\ \A p : Steps(p)' = Steps(p)
BY DEF settings, Member, Steps, ToSet

LEMMA ChainType ==
  ASSUME TypeOK
  PROVE  /\ chain \in Seq(DOMAIN Provider) /\ Len(chain) \in Nat
         /\ \A i \in 1..Len(chain) : chain[i] \in Member
         /\ \A i, j \in 1..Len(chain) : chain[i] = chain[j] => i = j
         /\ \A p \in Member : p \in DOMAIN Provider /\ ProviderOK(p)
<1>1. chain \in Seq(DOMAIN Provider) /\ Len(chain) \in Nat /\ DOMAIN chain = 1..Len(chain)
  BY ChainsAssumption DEF TypeOK
<1>2. \A i, j \in 1..Len(chain) : chain[i] = chain[j] => i = j
  BY <1>1, ChainsAssumption DEF TypeOK
<1>3. \A i \in 1..Len(chain) : chain[i] \in Member /\ chain[i] \in DOMAIN Provider
  BY <1>1 DEF Member, ToSet
<1>4. \A p \in Member : \E i \in 1..Len(chain) : p = chain[i]
  BY <1>1 DEF Member, ToSet
<1>5. \A p \in Member : p \in DOMAIN Provider
  BY <1>3, <1>4
<1> QED BY <1>1, <1>2, <1>3, <1>5, EveryProvider

(* The step at hand while boot runs. *)
LEMMA StepType ==
  ASSUME TypeOK, BootOK, phase = "init"
  PROVE  /\ at.i \in 1..Len(chain) /\ Current \in Member /\ Current \in DOMAIN Provider
         /\ Len(Steps(Current)) \in Nat \ {0} /\ at.j \in 1..Len(Steps(Current))
         /\ StepOK(Step) /\ StepFits(Current, at.j)
<1>1. at.i \in 1..Len(chain) /\ at.j \in 1..Len(Steps(Current))
  BY DEF BootOK
<1>2. Current \in Member /\ Current \in DOMAIN Provider /\ ProviderOK(Current)
  BY <1>1, ChainType DEF Current
<1> QED BY <1>1, <1>2 DEF ProviderOK, StepFits, Step

-----------------------------------------------------------------------------
(* What the steps leave alone. *)

LEMMA SameBoot ==
  ASSUME BootOK, UNCHANGED <<settings, now, phase, at, spent>>
  PROVE  BootOK'
<1>1. Current' = Current /\ Steps(Current)' = Steps(Current) /\ Step' = Step /\ chain' = chain
  BY Settings DEF Current, Step
<1>2. Waited' = Waited /\ Cost(Step)' = Cost(Step) /\ Before[Current]' = Before[Current]
  BY <1>1 DEF Waited, Cost, Before
<1> QED BY <1>1, <1>2 DEF BootOK

LEMMA SameParts ==
  ASSUME Inv, UNCHANGED <<settings, phase, at, up, degraded>>,
         pool = "none" => pool' = "none", sampler = "none" => sampler' = "none"
  PROVE  ToComeOK' /\ FailedOK'
<1>1. chain' = chain
  BY Settings
<1>2. ToComeOK'
  BY <1>1 DEF Inv, ToComeOK
<1> QED BY <1>2 DEF Inv, FailedOK

LEMMA SameProbe ==
  ASSUME Inv, UNCHANGED <<now, phase, up, probe>>
  PROVE  ProbeOK'
BY DEF Inv, ProbeOK, Registered, ProbeLimit

(* Without a probe there is nothing to bound. *)
LEMMA NoProbeNow ==
  ASSUME probe' = NoProbe
  PROVE  ProbeOK'
BY DEF ProbeOK

LEMMA SameDrain ==
  ASSUME Inv, UNCHANGED <<now, phase, at, up>>
  PROVE  DrainOK'
BY DEF Inv, DrainOK

-----------------------------------------------------------------------------
(* Boot. *)

LEMMA StepPassesInv == ASSUME Inv, StepPasses PROVE Inv'
<1>1. /\ TypeOK /\ BootOK /\ phase = "init" /\ at.j < Len(Steps(Current))
      /\ at' = NextStep
      /\ UNCHANGED <<settings, upstream, changes, now, phase, up, degraded, pool, busy,
                     sampler, probe, probes, spent>>
  BY DEF Inv, StepPasses
<1>2. at.i \in Nat /\ at.j \in Nat /\ now \in Nat /\ at \in [i : Nat, j : Nat, since : Nat]
  BY <1>1 DEF TypeOK
<1>3. at'.i = at.i /\ at'.j = at.j + 1 /\ at'.since = now /\ at' \in [i : Nat, j : Nat, since : Nat]
  BY <1>1, <1>2 DEF NextStep
<1>4. TypeOK'
  BY <1>1, <1>3, Settings DEF TypeOK
<1>5. BootOK'
  <2>1. /\ at.i \in 1..Len(chain) /\ StepFits(Current, at.j) /\ Len(Steps(Current)) \in Nat
        /\ at.j \in 1..Len(Steps(Current)) /\ ProviderOK(Current)
    BY <1>1, StepType, ChainType
  <2>2. Current' = Current /\ Steps(Current)' = Steps(Current) /\ chain' = chain
    BY <1>1, <1>3, Settings DEF Current
  <2>3. at.j + 1 \in 1..Len(Steps(Current))
    BY <1>1, <2>1
  <2>4. StepFits(Current, at.j + 1)
    BY <2>1, <2>3 DEF ProviderOK
  <2>5. Step' = Steps(Current)[at.j + 1]
    BY <1>3, <2>2 DEF Step
  <2>6. Cost(Step') \in Nat /\ Before[Current][at.j + 1] = Before[Current][at.j] + Cost(Step)
    <3>1. at.j # Len(Steps(Current))
      BY <1>1, <1>2, <2>1
    <3> QED BY <2>1, <2>4, <2>5, <3>1 DEF StepFits, Step
  <2>7. Waited' = 0
    <3>1. now' - at'.since = 0
      BY <1>1, <1>2, <1>3
    <3> QED BY <3>1 DEF Waited
  <2>8. spent <= Before[Current][at.j] + Waited /\ Waited <= Cost(Step)
    BY <1>1 DEF BootOK
  <2>9. spent \in Nat /\ Before[Current][at.j] \in Nat /\ Cost(Step) \in Nat /\ Waited \in Int
    <3>1. at.since \in Nat
      BY <1>2
    <3> QED BY <1>1, <1>2, <2>1, <3>1 DEF StepFits, Step, TypeOK, Waited
  <2>10. spent <= Before[Current][at.j + 1]
    BY <2>6, <2>8, <2>9
  <2>11. Before[Current]' = Before[Current]
    BY <2>2 DEF Before
  <2>12. Cost(Step)' = Cost(Step') /\ 0 <= Cost(Step')
    BY <2>6 DEF Cost
  <2>13. spent' <= Before[Current]'[at'.j] + Waited'
    BY <1>1, <1>3, <2>6, <2>7, <2>9, <2>10, <2>11
  <2> QED BY <1>1, <1>2, <1>3, <2>1, <2>2, <2>3, <2>7, <2>12, <2>13 DEF BootOK
<1>6. ToComeOK' /\ FailedOK'
  <2>1. chain' = chain
    BY <1>1, Settings
  <2> QED BY <1>1, <1>3, <2>1 DEF Inv, ToComeOK, FailedOK
<1>7. ProbeOK'
  BY <1>1, SameProbe
<1>8. DrainOK'
  BY <1>1 DEF DrainOK
<1> QED BY <1>4, <1>5, <1>6, <1>7, <1>8 DEF Inv

LEMMA ToSetAppend ==
  ASSUME NEW S, NEW s \in Seq(S), NEW e
  PROVE  ToSet(Append(s, e)) = ToSet(s) \cup {e}
<1>1. DOMAIN s = 1..Len(s) /\ Len(s) \in Nat /\ DOMAIN Append(s, e) = 1..(Len(s) + 1)
  OBVIOUS
<1>2. Append(s, e)[Len(s) + 1] = e /\ \A k \in 1..Len(s) : Append(s, e)[k] = s[k]
  OBVIOUS
<1>3. \A k \in 1..(Len(s) + 1) : k \in 1..Len(s) \/ k = Len(s) + 1
  BY <1>1
<1>4. Len(s) + 1 \in 1..(Len(s) + 1) /\ 1..Len(s) \subseteq 1..(Len(s) + 1)
  BY <1>1
<1> QED BY <1>1, <1>2, <1>3, <1>4 DEF ToSet

LEMMA ToSetMember ==
  ASSUME TypeOK
  PROVE  ToSet(up) \subseteq Member /\ ToSet(<<>>) = {} /\ Len(up) \in Nat
         /\ \A k \in 1..Len(up) : up[k] \in ToSet(up)
<1>1. up \in Seq(Member)
  BY DEF TypeOK
<1>2. DOMAIN up = 1..Len(up) /\ \A k \in 1..Len(up) : up[k] \in Member
  BY <1>1
<1> QED BY <1>1, <1>2 DEF ToSet

(* The loop has gone on: the next init begins, or none is left. *)
LEMMA GoOnBoot ==
  ASSUME TypeOK, BootOK, phase = "init", GoOn, UNCHANGED <<settings, now>>
  PROVE  /\ BootOK' /\ phase' \in {"init", "up"} /\ spent' = 0
         /\ at' \in [i : Nat, j : Nat, since : Nat] /\ at'.i = at.i + 1
<1>1. /\ at' = [i |-> at.i + 1, j |-> 1, since |-> now] /\ spent' = 0
      /\ phase' = IF at.i = Len(chain) THEN "up" ELSE "init"
  BY DEF GoOn, NextProvider
<1>2. at.i \in Nat /\ at.j \in Nat /\ now \in Nat
  BY DEF TypeOK
<1>3. at'.i = at.i + 1 /\ at'.j = 1 /\ at'.since = now /\ at' \in [i : Nat, j : Nat, since : Nat]
  BY <1>1, <1>2
<1>4. chain' = chain /\ \A p : Steps(p)' = Steps(p)
  BY Settings
<1>5. ASSUME phase' = "init" PROVE BootOK'
  <2>1. at.i \in 1..Len(chain) /\ at.i # Len(chain) /\ Len(chain) \in Nat
    BY <1>1, <1>5, ChainType DEF BootOK
  <2>2. at.i + 1 \in 1..Len(chain)
    BY <2>1
  <2> DEFINE q == chain[at.i + 1]
  <2>3. ProviderOK(q)
    BY <2>2, ChainType
  <2>4. Len(Steps(q)) \in Nat \ {0} /\ Before[q][1] = 0 /\ StepFits(q, 1)
    BY <2>3 DEF ProviderOK
  <2>5. Current' = q
    BY <1>3, <1>4 DEF Current
  <2> HIDE DEF q
  <2>6. Steps(Current)' = Steps(q) /\ Step' = Steps(q)[1]
    BY <1>3, <1>4, <2>5 DEF Step
  <2>7. Waited' = 0
    <3>1. now' - at'.since = 0
      BY <1>2, <1>3
    <3> QED BY <3>1 DEF Waited
  <2>8. Cost(Step)' \in Nat
    BY <2>4, <2>6 DEF StepFits, Cost
  <2>9. Before[Current]'[1] = 0
    BY <2>4, <2>5 DEF Before
  <2>10. /\ at'.i \in 1..Len(chain)' /\ at'.j \in 1..Len(Steps(Current))' /\ at'.since <= now'
    BY <1>2, <1>3, <1>4, <2>2, <2>4, <2>6
  <2>11. Waited' <= Cost(Step)' /\ spent' <= Before[Current]'[at'.j] + Waited'
    BY <1>1, <1>3, <2>7, <2>8, <2>9
  <2> QED BY <2>10, <2>11 DEF BootOK
<1>6. ASSUME phase' # "init" PROVE BootOK'
  BY <1>6 DEF BootOK
<1> QED BY <1>1, <1>3, <1>5, <1>6

LEMMA InitOkInv == ASSUME Inv, InitOk PROVE Inv'
<1>1. /\ TypeOK /\ BootOK /\ phase = "init" /\ GoOn /\ up' = Append(up, Current)
      /\ IF Current = "postgres" THEN pool' = "open" /\ sampler' = "running"
         ELSE UNCHANGED <<pool, sampler>>
      /\ UNCHANGED <<settings, upstream, changes, now, degraded, busy, probe, probes>>
  BY DEF Inv, InitOk
<1>2. /\ BootOK' /\ phase' \in {"init", "up"} /\ spent' = 0
      /\ at' \in [i : Nat, j : Nat, since : Nat] /\ at'.i = at.i + 1
  BY <1>1, GoOnBoot
<1>3. at.i \in 1..Len(chain) /\ Current \in Member /\ Len(chain) \in Nat /\ chain' = chain
  BY <1>1, StepType, ChainType, Settings
<1>4. ToSet(up)' = ToSet(up) \cup {Current}
  BY <1>1, ToSetAppend DEF TypeOK
<1>5. TypeOK'
  <2>1. up' \in Seq(Member)
    BY <1>1, <1>3 DEF TypeOK
  <2>2. pool' \in {"none", "open", "closed"} /\ sampler' \in {"none", "running", "ended"}
    BY <1>1 DEF TypeOK
  <2> QED BY <1>1, <1>2, <2>1, <2>2, Settings DEF TypeOK
<1>6. ToComeOK /\ FailedOK
  BY DEF Inv
<1>7. at.i \in at.i..Len(chain) /\ chain[at.i] = Current
  BY <1>3 DEF Current
<1>8. ToComeOK'
  <2> SUFFICES ASSUME phase' = "init", NEW k \in at'.i..Len(chain)
               PROVE  /\ chain[k] \notin ToSet(up)' /\ \A d \in degraded : d.key # chain[k]
                      /\ chain[k] = "postgres" => pool' = "none" /\ sampler' = "none"
    BY <1>1, <1>3 DEF ToComeOK
  <2>1. k \in at.i..Len(chain) /\ k # at.i /\ k \in 1..Len(chain)
    BY <1>2, <1>3
  <2>2. chain[k] # Current
    BY <1>1, <1>3, <1>7, <2>1, ChainType
  <2> QED BY <1>1, <1>4, <1>6, <2>1, <2>2 DEF ToComeOK
<1>9. FailedOK'
  <2>1. \A d \in degraded : d.key # Current
    BY <1>1, <1>6, <1>7 DEF ToComeOK
  <2> QED BY <1>1, <1>4, <1>6, <2>1 DEF FailedOK
<1>10. ProbeOK'
  <2>1. probe' = NoProbe
    BY <1>1 DEF Inv, ProbeOK
  <2> QED BY <1>1, <2>1, NoProbeNow DEF Inv
<1>11. DrainOK'
  BY <1>2 DEF DrainOK
<1> QED BY <1>2, <1>5, <1>8, <1>9, <1>10, <1>11 DEF Inv

LEMMA KindType ==
  ASSUME Inv, phase = "init", NEW kind \in Outcomes \ {"ok"}
  PROVE  kind \in Kind /\ Cause \in Upstream \cup {"config"}
<1>1. Current \in Member /\ StepOK(Step) /\ upstream[Current] \in Upstream
  BY StepType DEF Inv, TypeOK
<1>2. kind \in {Step.late, Step.error[upstream[Current]]}
  BY DEF Outcomes, Answer
<1> QED BY <1>1, <1>2 DEF StepOK, ErrorOK, Cause

LEMMA InitFailsInv == ASSUME Inv, InitFails PROVE Inv'
<1>1. /\ TypeOK /\ BootOK /\ ToComeOK /\ FailedOK /\ phase = "init"
      /\ IF Current \in required
         THEN phase' = "failed" /\ up' = <<>> /\ UNCHANGED <<at, spent>>
         ELSE GoOn /\ UNCHANGED up
      /\ UNCHANGED <<settings, upstream, changes, now, pool, busy, sampler, probe, probes>>
  BY DEF Inv, InitFails
<1>2. PICK kind \in Outcomes \ {"ok"} :
        degraded' = degraded \cup {[key |-> Current, kind |-> kind, cause |-> Cause]}
  BY DEF InitFails
<1> DEFINE e == [key |-> Current, kind |-> kind, cause |-> Cause]
<1>3. at.i \in 1..Len(chain) /\ Current \in Member /\ Len(chain) \in Nat /\ chain' = chain
  BY <1>1, StepType, ChainType, Settings
<1>4. at.i \in at.i..Len(chain) /\ chain[at.i] = Current
  BY <1>3 DEF Current
<1>5. kind \in Kind /\ Cause \in Upstream \cup {"config"}
  BY <1>1, KindType
<1>6. e.key = Current /\ e \in [key : Member, kind : Kind, cause : Upstream \cup {"config"}]
  BY <1>3, <1>5
<1>7. degraded' = degraded \cup {e}
  BY <1>2
<1> HIDE DEF e
<1>8. /\ BootOK' /\ phase' \in {"init", "up", "failed"} /\ spent' \in Nat
      /\ at' \in [i : Nat, j : Nat, since : Nat]
      /\ phase' = "init" => at'.i = at.i + 1
      /\ ToSet(up)' \subseteq ToSet(up) /\ up' \in Seq(Member)
  <2>1. CASE Current \in required
    <3>1. phase' = "failed" /\ up' = <<>> /\ at' = at /\ spent' = spent
      BY <1>1, <2>1
    <3>2. BootOK'
      BY <3>1 DEF BootOK
    <3>3. ToSet(up)' = {}
      BY <1>1, <3>1, ToSetMember
    <3> QED BY <1>1, <3>1, <3>2, <3>3 DEF TypeOK
  <2>2. CASE Current \notin required
    <3>1. GoOn /\ up' = up
      BY <1>1, <2>2
    <3>2. /\ BootOK' /\ phase' \in {"init", "up"} /\ spent' = 0
          /\ at' \in [i : Nat, j : Nat, since : Nat] /\ at'.i = at.i + 1
      BY <1>1, <3>1, GoOnBoot
    <3> QED BY <1>1, <3>1, <3>2 DEF TypeOK
  <2> QED BY <2>1, <2>2
<1>9. TypeOK'
  <2>1. degraded' \subseteq [key : Member, kind : Kind, cause : Upstream \cup {"config"}]
    BY <1>1, <1>6, <1>7 DEF TypeOK
  <2> QED BY <1>1, <1>8, <2>1, Settings DEF TypeOK
<1>10. ToComeOK'
  <2> SUFFICES ASSUME phase' = "init", NEW k \in at'.i..Len(chain)
               PROVE  /\ chain[k] \notin ToSet(up)' /\ \A d \in degraded' : d.key # chain[k]
                      /\ chain[k] = "postgres" => pool' = "none" /\ sampler' = "none"
    BY <1>3 DEF ToComeOK
  <2>1. k \in at.i..Len(chain) /\ k # at.i /\ k \in 1..Len(chain)
    BY <1>3, <1>8
  <2>2. chain[k] # Current
    BY <1>1, <1>3, <1>4, <2>1, ChainType
  <2> QED BY <1>1, <1>6, <1>7, <1>8, <2>1, <2>2 DEF ToComeOK
<1>11. FailedOK'
  <2>1. /\ Current \notin ToSet(up)
        /\ Current = "postgres" => pool = "none" /\ sampler = "none"
    BY <1>1, <1>4 DEF ToComeOK
  <2> QED BY <1>1, <1>6, <1>7, <1>8, <2>1 DEF FailedOK
<1>12. ProbeOK'
  <2>1. probe' = NoProbe
    BY <1>1 DEF Inv, ProbeOK
  <2> QED BY <1>1, <2>1, NoProbeNow DEF Inv
<1>13. DrainOK'
  BY <1>8 DEF DrainOK
<1> QED BY <1>8, <1>9, <1>10, <1>11, <1>12, <1>13 DEF Inv

-----------------------------------------------------------------------------
(* Readiness and the pool. *)

LEMMA ProbeLimitType == ProbeLimit \in Nat /\ ProbeLimit <= probe_timeout
BY ProvidersAssumption DEF ProbeLimit

LEMMA StartProbeInv == ASSUME Inv, StartProbe PROVE Inv'
<1>1. /\ TypeOK /\ BootOK /\ phase = "up"
      /\ probe' = [since |-> now, pending |-> Registered, alive |-> {}] /\ probes' = probes + 1
      /\ UNCHANGED <<settings, upstream, changes, now, phase, at, up, degraded, pool, busy,
                     sampler, spent>>
  BY DEF Inv, StartProbe
<1>2. Registered \subseteq Member /\ Registered' = Registered
  BY <1>1, ToSetMember DEF Registered
<1>3. now \in Nat
  BY <1>1 DEF TypeOK
<1>4. TypeOK'
  <2>1. probe' \in [since : Nat \cup {None}, pending : SUBSET Member, alive : SUBSET Member]
    BY <1>1, <1>2, <1>3
  <2>2. probes' \in Nat
    BY <1>1 DEF TypeOK
  <2> QED BY <1>1, <2>1, <2>2, Settings DEF TypeOK
<1>5. BootOK' /\ ToComeOK' /\ FailedOK' /\ DrainOK'
  BY <1>1, SameBoot, SameParts, SameDrain DEF Inv
<1>6. ProbeOK'
  <2>1. probe'.since = now /\ probe'.pending = Registered /\ probe'.alive = {}
    BY <1>1
  <2>2. now' = now /\ now <= now + ProbeLimit
    BY <1>1, <1>3, ProbeLimitType
  <2> QED BY <1>1, <1>2, <1>3, <2>1, <2>2 DEF ProbeOK, ProbeLimit
<1> QED BY <1>4, <1>5, <1>6 DEF Inv

LEMMA CheckEndsInv == ASSUME Inv, NEW p \in Member, CheckEnds(p) PROVE Inv'
<1>1. /\ TypeOK /\ BootOK /\ p \in probe.pending
      /\ probe' = [probe EXCEPT !.pending = probe.pending \ {p},
                               !.alive = IF SaysOk(p) THEN @ \cup {p} ELSE @]
      /\ UNCHANGED <<settings, upstream, changes, now, phase, at, up, degraded, pool, busy,
                     sampler, probes, spent>>
  BY DEF Inv, CheckEnds
<1>2. probe \in [since : Nat \cup {None}, pending : SUBSET Member, alive : SUBSET Member]
  BY <1>1 DEF TypeOK
<1>3. /\ probe'.since = probe.since /\ probe'.pending = probe.pending \ {p}
      /\ probe'.alive = IF SaysOk(p) THEN probe.alive \cup {p} ELSE probe.alive
      /\ probe' \in [since : Nat \cup {None}, pending : SUBSET Member, alive : SUBSET Member]
  BY <1>1, <1>2
<1>4. probe # NoProbe
  BY <1>1 DEF NoProbe
<1>5. /\ phase = "up" /\ probe.since \in Nat /\ probe.since <= now
      /\ now <= probe.since + ProbeLimit
      /\ probe.pending \subseteq Registered /\ probe.alive \subseteq Registered
  BY <1>4 DEF Inv, ProbeOK
<1>6. TypeOK'
  BY <1>1, <1>3, Settings DEF TypeOK
<1>7. BootOK' /\ ToComeOK' /\ FailedOK' /\ DrainOK'
  BY <1>1, SameBoot, SameParts, SameDrain DEF Inv
<1>8. ProbeOK'
  <2>1. Registered' = Registered /\ ProbeLimit' = ProbeLimit
    BY <1>1 DEF Registered, ProbeLimit
  <2>2. probe'.pending \subseteq Registered /\ probe'.alive \subseteq Registered
    BY <1>1, <1>3, <1>5
  <2> QED BY <1>1, <1>3, <1>5, <2>1, <2>2 DEF ProbeOK
<1> QED BY <1>6, <1>7, <1>8 DEF Inv

LEMMA RespondInv == ASSUME Inv, Respond PROVE Inv'
<1>1. /\ TypeOK /\ BootOK /\ probe' = NoProbe
      /\ UNCHANGED <<settings, upstream, changes, now, phase, at, up, degraded, pool, busy,
                     sampler, probes, spent>>
  BY DEF Inv, Respond
<1>2. TypeOK'
  BY <1>1, Settings DEF TypeOK, NoProbe
<1>3. BootOK' /\ ToComeOK' /\ FailedOK' /\ DrainOK'
  BY <1>1, SameBoot, SameParts, SameDrain DEF Inv
<1> QED BY <1>1, <1>2, <1>3, NoProbeNow DEF Inv

(* A connection is taken and given back. *)
LEMMA PoolInv == ASSUME Inv, Begin \/ Commit PROVE Inv'
<1>1. /\ TypeOK /\ BootOK /\ busy' \in BOOLEAN
      /\ UNCHANGED <<settings, upstream, changes, now, phase, at, up, degraded, pool, sampler,
                     probe, probes, spent>>
  BY DEF Inv, Begin, Commit
<1>2. TypeOK'
  BY <1>1, Settings DEF TypeOK
<1>3. BootOK' /\ ToComeOK' /\ FailedOK' /\ DrainOK'
  BY <1>1, SameBoot, SameParts, SameDrain
<1>4. ProbeOK'
  BY <1>1, SameProbe
<1> QED BY <1>2, <1>3, <1>4 DEF Inv

-----------------------------------------------------------------------------
(* The drain. *)

LEMMA ShutdownInv == ASSUME Inv, Shutdown PROVE Inv'
<1>1. /\ TypeOK /\ phase' = "closing" /\ probe' = NoProbe
      /\ at' = [i |-> Len(up), j |-> 0, since |-> now]
      /\ UNCHANGED <<settings, upstream, changes, now, up, degraded, pool, busy, sampler,
                     probes, spent>>
  BY DEF Inv, Shutdown
<1>2. now \in Nat /\ Len(up) \in Nat
  BY <1>1, ToSetMember DEF TypeOK
<1>3. at'.i = Len(up) /\ at'.since = now /\ at' \in [i : Nat, j : Nat, since : Nat]
  BY <1>1, <1>2
<1>4. TypeOK'
  BY <1>1, <1>3, Settings DEF TypeOK, NoProbe
<1>5. BootOK' /\ ToComeOK' /\ FailedOK'
  BY <1>1 DEF Inv, BootOK, ToComeOK, FailedOK
<1>6. DrainOK'
  BY <1>1, <1>2, <1>3, ProvidersAssumption DEF DrainOK
<1> QED BY <1>1, <1>4, <1>5, <1>6, NoProbeNow DEF Inv

(* Only Postgres closes its pool, and only if it came up. *)
LEMMA HookBeginsInv == ASSUME Inv, HookBegins PROVE Inv'
<1>1. /\ TypeOK /\ FailedOK /\ phase = "closing" /\ at.i > 0 /\ at' = NextStep
      /\ IF Provider[Closing].hook = "close" THEN pool' = "closed" ELSE pool' = pool
      /\ UNCHANGED <<settings, upstream, changes, now, phase, up, degraded, busy, sampler,
                     probe, probes, spent>>
  BY DEF Inv, HookBegins, Close
<1>2. now \in Nat /\ at.i \in Nat /\ at.j \in Nat /\ Len(up) \in Nat
  BY <1>1, ToSetMember DEF TypeOK
<1>3. at'.i = at.i /\ at'.since = now /\ at' \in [i : Nat, j : Nat, since : Nat]
  BY <1>1, <1>2 DEF NextStep
<1>4. at.i \in 1..Len(up)
  BY <1>1, <1>2 DEF Inv, DrainOK
<1>5. TypeOK'
  BY <1>1, <1>3, Settings DEF TypeOK
<1>6. BootOK' /\ ToComeOK'
  BY <1>1 DEF Inv, BootOK, ToComeOK
<1>7. FailedOK'
  <2>1. Closing \in ToSet(up) /\ Closing \in DOMAIN Provider
    BY <1>1, <1>4, ToSetMember, ChainType DEF Closing
  <2>2. Provider[Closing].hook = "close" => Closing = "postgres"
    BY <2>1 DEF Provider, Postgres, Redis, MongoDb, Nats, Qdrant, Neo4j, S3, Oss, Llm
  <2> QED BY <1>1, <2>1, <2>2 DEF FailedOK
<1>8. ProbeOK'
  BY <1>1, SameProbe
<1>9. DrainOK'
  BY <1>1, <1>2, <1>3, <1>4, ProvidersAssumption DEF DrainOK
<1> QED BY <1>5, <1>6, <1>7, <1>8, <1>9 DEF Inv

LEMMA HookEndsInv == ASSUME Inv, HookEnds PROVE Inv'
<1>1. /\ TypeOK /\ phase = "closing" /\ at.i > 0 /\ at' = PreviousProvider
      /\ UNCHANGED <<settings, upstream, changes, now, phase, up, degraded, pool, busy,
                     sampler, probe, probes, spent>>
  BY DEF Inv, HookEnds
<1>2. now \in Nat /\ at.i \in Nat /\ Len(up) \in Nat
  BY <1>1, ToSetMember DEF TypeOK
<1>3. at'.i = at.i - 1 /\ at'.since = now /\ at' \in [i : Nat, j : Nat, since : Nat]
  BY <1>1, <1>2 DEF PreviousProvider
<1>4. at.i \in 0..Len(up)
  BY <1>1 DEF Inv, DrainOK
<1>5. TypeOK'
  BY <1>1, <1>3, Settings DEF TypeOK
<1>6. BootOK' /\ ToComeOK' /\ FailedOK'
  BY <1>1 DEF Inv, BootOK, ToComeOK, FailedOK
<1>7. ProbeOK'
  BY <1>1, SameProbe
<1>8. DrainOK'
  BY <1>1, <1>2, <1>3, <1>4, ProvidersAssumption DEF DrainOK
<1> QED BY <1>5, <1>6, <1>7, <1>8 DEF Inv

LEMMA DownInv == ASSUME Inv, Down PROVE Inv'
<1>1. /\ TypeOK /\ phase = "closing" /\ phase' = "down" /\ up' = <<>>
      /\ UNCHANGED <<settings, upstream, changes, now, at, degraded, pool, busy, sampler, probe,
                     probes, spent>>
  BY DEF Inv, Down
<1>2. ToSet(up)' = {}
  BY <1>1, ToSetMember
<1>3. TypeOK'
  BY <1>1, Settings DEF TypeOK
<1>4. BootOK' /\ ToComeOK' /\ FailedOK' /\ DrainOK'
  BY <1>1, <1>2 DEF Inv, BootOK, ToComeOK, FailedOK, DrainOK
<1>5. probe' = NoProbe
  BY <1>1 DEF Inv, ProbeOK
<1> QED BY <1>1, <1>3, <1>4, <1>5, NoProbeNow DEF Inv

LEMMA SamplerExitsInv == ASSUME Inv, SamplerExits PROVE Inv'
<1>1. /\ TypeOK /\ BootOK /\ sampler = "running" /\ sampler' = "ended"
      /\ UNCHANGED <<settings, upstream, changes, now, phase, at, up, degraded, pool, busy,
                     probe, probes, spent>>
  BY DEF Inv, SamplerExits
<1>2. TypeOK'
  BY <1>1, Settings DEF TypeOK
<1>3. BootOK' /\ ToComeOK' /\ FailedOK' /\ DrainOK'
  BY <1>1, SameBoot, SameParts, SameDrain
<1>4. ProbeOK'
  BY <1>1, SameProbe
<1> QED BY <1>2, <1>3, <1>4 DEF Inv

-----------------------------------------------------------------------------
(* The upstreams and the clock. *)

LEMMA ChangeInv == ASSUME Inv, Change PROVE Inv'
<1>1. /\ TypeOK /\ BootOK /\ changes' = changes + 1
      /\ UNCHANGED <<settings, now, phase, at, up, degraded, pool, busy, sampler, probe,
                     probes, spent>>
  BY DEF Inv, Change
<1>2. PICK p \in Member, b \in Upstream :
        upstream' = [upstream EXCEPT ![p] = b]
  BY DEF Change, Behaviours
<1>3. upstream \in [Member -> Upstream]
  BY <1>1 DEF TypeOK
<1>4. Member' = Member
  BY <1>1, Settings
<1>5. upstream' \in [Member -> Upstream]
  BY <1>2, <1>3
<1>6. TypeOK'
  <2>1. changes' \in Nat
    BY <1>1 DEF TypeOK
  <2> QED BY <1>1, <1>5, <2>1, Settings DEF TypeOK
<1>7. BootOK' /\ ToComeOK' /\ FailedOK' /\ DrainOK'
  BY <1>1, SameBoot, SameParts, SameDrain
<1>8. ProbeOK'
  BY <1>1 DEF Inv, ProbeOK, Registered, ProbeLimit
<1> QED BY <1>6, <1>7, <1>8 DEF Inv

(* Time passes only for the one who waits. *)
LEMMA TickInv == ASSUME Inv, Tick PROVE Inv'
<1>1. /\ TypeOK /\ BootOK /\ ProbeOK /\ DrainOK /\ Waits
      /\ now' = now + 1
      /\ spent' = IF phase = "init" /\ ~InMigrations THEN spent + 1 ELSE spent
      /\ UNCHANGED <<settings, upstream, changes, phase, at, up, degraded, pool, busy, sampler,
                     probe, probes>>
  BY DEF Inv, Tick
<1>2. /\ now \in Nat /\ spent \in Nat /\ at.since \in Nat /\ at.i \in Nat
      /\ now + 1 \in Nat
  BY <1>1 DEF TypeOK
<1>3. Member' = Member /\ None \notin Nat
  BY <1>1, Settings, ProvidersAssumption
<1>4. TypeOK'
  <2>1. now' \in Nat /\ spent' \in Nat
    BY <1>1, <1>2
  <2> QED BY <1>1, <1>3, <2>1, Settings DEF TypeOK
<1>5. BootOK'
  <2> SUFFICES ASSUME phase = "init" PROVE BootOK'
    BY <1>1 DEF BootOK
  <2>1. /\ at.i \in 1..Len(chain) /\ at.j \in 1..Len(Steps(Current)) /\ at.since <= now
        /\ Waited <= Cost(Step) /\ spent <= Before[Current][at.j] + Waited
    BY <1>1 DEF BootOK
  <2>2. StepOK(Step) /\ StepFits(Current, at.j)
    BY <1>1, StepType
  <2>3. Step.asks /\ ~Expired
    <3>1. probe.pending = {}
      BY <1>1 DEF ProbeOK, NoProbe
    <3> QED BY <1>1, <3>1 DEF Waits
  <2>4. Current' = Current /\ Steps(Current)' = Steps(Current) /\ Step' = Step /\ chain' = chain
    BY <1>1, Settings DEF Current, Step
  <2>5. Cost(Step)' = Cost(Step) /\ Before[Current]' = Before[Current]
    BY <2>4 DEF Cost, Before
  <2>6. Before[Current][at.j] \in Nat
    BY <2>2 DEF StepFits
  <2>7. CASE Step.limit = None
    <3>1. InMigrations /\ Waited = 0 /\ Waited' = 0
      BY <2>2, <2>3, <2>4, <2>7 DEF StepOK, InMigrations, Waited
    <3>2. spent' = spent
      BY <1>1, <3>1
    <3> QED BY <1>1, <1>2, <2>1, <2>4, <2>5, <3>1, <3>2 DEF BootOK
  <2>8. CASE Step.limit # None
    <3>1. ~InMigrations /\ Step.limit \in Nat
      BY <2>2, <2>3, <2>8 DEF StepOK, InMigrations
    <3>2. Waited = now - at.since /\ Waited' = Waited + 1 /\ Cost(Step) = Step.limit
      <4>1. now' - at'.since = (now - at.since) + 1
        BY <1>1, <1>2
      <4>2. Waited = now - at.since /\ Waited' = now' - at'.since
        BY <2>3, <2>4, <2>8 DEF Waited
      <4> QED BY <2>3, <2>8, <4>1, <4>2 DEF Cost
    <3>3. now < at.since + Step.limit
      BY <1>2, <2>3, <2>8, <3>1 DEF Expired
    <3>4. spent' = spent + 1
      BY <1>1, <3>1
    <3>5. Waited' <= Cost(Step) /\ Waited \in Int
      BY <1>2, <3>1, <3>2, <3>3
    <3>6. spent' <= Before[Current][at.j] + Waited'
      <4>1. spent <= Before[Current][at.j] + Waited
        BY <2>1
      <4> QED BY <1>2, <2>6, <3>2, <3>4, <3>5, <4>1
    <3> QED BY <1>1, <1>2, <2>1, <2>4, <2>5, <3>5, <3>6 DEF BootOK
  <2> QED BY <2>7, <2>8
<1>6. ToComeOK' /\ FailedOK'
  BY <1>1, SameParts
<1>7. ProbeOK'
  <2> SUFFICES ASSUME probe # NoProbe PROVE ProbeOK'
    BY <1>1 DEF ProbeOK
  <2>1. phase = "up" /\ probe.since \in Nat
    BY <1>1 DEF ProbeOK
  <2>2. now < probe.since + ProbeLimit
    BY <1>1, <2>1 DEF Waits
  <2>3. now + 1 <= probe.since + ProbeLimit /\ probe.since <= now + 1
    BY <1>1, <1>2, <2>1, <2>2, ProbeLimitType DEF ProbeOK
  <2> QED BY <1>1, <2>1, <2>3 DEF ProbeOK, Registered, ProbeLimit
<1>8. DrainOK'
  <2> SUFFICES ASSUME phase = "closing" PROVE DrainOK'
    BY <1>1 DEF DrainOK
  <2>1. probe.pending = {}
    BY <1>1 DEF ProbeOK, NoProbe
  <2>2. now < at.since + shutdown_timeout
    BY <1>1, <1>2, <2>1, ProvidersAssumption DEF Waits, HookExpired
  <2> QED BY <1>1, <1>2, <2>2, ProvidersAssumption DEF DrainOK
<1> QED BY <1>4, <1>5, <1>6, <1>7, <1>8 DEF Inv

-----------------------------------------------------------------------------

LEMMA InitInv == ASSUME Init PROVE Inv
<1>1. /\ chain \in Chains /\ required \subseteq Member /\ changes = 0 /\ now = 0 /\ at = Start
      /\ migrate \in {"off", "missing", "on"} /\ upstream \in [Member -> Upstream]
      /\ phase = IF chain = <<>> THEN "up" ELSE "init"
      /\ up = <<>> /\ degraded = {} /\ pool = "none" /\ busy = FALSE /\ sampler = "none"
      /\ probe = NoProbe /\ probes = 0 /\ spent = 0
  BY DEF Init
<1>2. TypeOK
  <2>1. at \in [i : Nat, j : Nat, since : Nat] /\ up \in Seq(Member)
    BY <1>1 DEF Start
  <2>2. probe \in [since : Nat \cup {None}, pending : SUBSET Member, alive : SUBSET Member]
    BY <1>1 DEF NoProbe
  <2> QED BY <1>1, <2>1, <2>2 DEF TypeOK
<1>3. BootOK
  <2> SUFFICES ASSUME phase = "init" PROVE BootOK
    BY DEF BootOK
  <2>1. at.i = 1 /\ at.j = 1 /\ at.since = 0
    BY <1>1 DEF Start
  <2>2. chain # <<>> /\ chain \in Seq(DOMAIN Provider) /\ Len(chain) \in Nat
    BY <1>1, <1>2, ChainType
  <2>3. 1 \in 1..Len(chain)
    BY <2>2
  <2>4. ProviderOK(Current) /\ Current = chain[1]
    BY <1>2, <2>1, <2>3, ChainType DEF Current
  <2>5. Len(Steps(Current)) \in Nat \ {0} /\ Before[Current][1] = 0 /\ StepFits(Current, 1)
    BY <2>4 DEF ProviderOK
  <2>6. Waited = 0
    BY <1>1, <2>1 DEF Waited
  <2>7. Cost(Step) \in Nat
    BY <2>1, <2>5 DEF StepFits, Step
  <2> QED BY <1>1, <2>1, <2>3, <2>5, <2>6, <2>7 DEF BootOK
<1>4. ToSet(up) = {}
  BY <1>1, <1>2, ToSetMember
<1>5. ToComeOK /\ FailedOK
  BY <1>1, <1>4 DEF ToComeOK, FailedOK
<1>6. ProbeOK /\ DrainOK
  BY <1>1 DEF ProbeOK, DrainOK, NoProbe
<1> QED BY <1>2, <1>3, <1>5, <1>6 DEF Inv

LEMMA StutterInv == ASSUME Inv, UNCHANGED vars PROVE Inv'
<1>1. /\ TypeOK /\ BootOK
      /\ UNCHANGED <<settings, upstream, changes, now, phase, at, up, degraded, pool, busy,
                     sampler, probe, probes, spent>>
  BY DEF Inv, vars
<1>2. TypeOK'
  BY <1>1, Settings DEF TypeOK
<1>3. BootOK' /\ ToComeOK' /\ FailedOK' /\ DrainOK'
  BY <1>1, SameBoot, SameParts, SameDrain
<1>4. ProbeOK'
  BY <1>1, SameProbe
<1> QED BY <1>2, <1>3, <1>4 DEF Inv

LEMMA Invariance == Spec => []Inv
<1>1. Init => Inv
  BY InitInv
<1>2. Inv /\ [Next]_vars => Inv'
  BY StepPassesInv, InitOkInv, InitFailsInv, StartProbeInv, CheckEndsInv, RespondInv, PoolInv,
     ShutdownInv, HookBeginsInv, HookEndsInv, DownInv, SamplerExitsInv, ChangeInv, TickInv,
     StutterInv
     DEF Next, Run
<1> QED BY <1>1, <1>2, PTL DEF Spec

(* The settings, the handles and the records of failures keep their types.   *)
THEOREM TypeCorrect == Spec => []TypeOK
<1>1. Inv => TypeOK
  BY DEF Inv
<1> QED BY <1>1, Invariance, PTL

(* However the upstreams behave and whatever the timeouts are, the init of   *)
(* each provider ends within its own budget of connect and operation         *)
(* timeouts; the time in migrations is not counted.                          *)
THEOREM BootBounded == Spec => []BootIsBounded
<1>1. Inv => BootIsBounded
  <2> SUFFICES ASSUME Inv, phase = "init" PROVE spent <= InitBudget(Current)
    BY DEF BootIsBounded
  <2>1. /\ Current \in DOMAIN Provider /\ Current \in Member /\ StepOK(Step)
        /\ StepFits(Current, at.j)
    BY StepType DEF Inv
  <2>2. Waited <= Cost(Step) /\ spent <= Before[Current][at.j] + Waited
    BY DEF Inv, BootOK
  <2>3. /\ Before[Current][at.j] \in Nat /\ Cost(Step) \in Nat
        /\ Before[Current][at.j] + Cost(Step) <= InitBudget(Current)
    BY <2>1 DEF StepFits, Step
  <2>4. InitBudget(Current) \in Nat
    BY ProvidersAssumption DEF InitBudget
  <2>5. spent \in Nat /\ Waited \in Int
    BY DEF Inv, TypeOK, Waited
  <2> QED BY <2>2, <2>3, <2>4, <2>5
<1> QED BY <1>1, Invariance, PTL

(* No readiness probe is older than probe_timeout, saturated pool or not.    *)
THEOREM ProbeBounded == Spec => []ProbeIsBounded
<1>1. Inv => ProbeIsBounded
  <2> SUFFICES ASSUME Inv, probe # NoProbe PROVE now <= probe.since + probe_timeout
    BY DEF ProbeIsBounded
  <2>1. now \in Nat /\ probe.since \in Nat /\ now <= probe.since + ProbeLimit
    BY DEF Inv, TypeOK, ProbeOK
  <2> QED BY <2>1, ProbeLimitType, ProvidersAssumption
<1> QED BY <1>1, Invariance, PTL

(* A provider whose init failed leaves no handle, no check that is pending,  *)
(* no pool and no sampler.                                                   *)
THEOREM FailureLeavesNothing == Spec => []FailedLeavesNothing
<1>1. Inv => FailedLeavesNothing
  <2> SUFFICES ASSUME Inv, NEW d \in degraded
               PROVE  /\ d.key \notin ToSet(up) \cup probe.pending
                      /\ d.key = "postgres" => pool = "none" /\ sampler = "none"
    BY DEF FailedLeavesNothing
  <2>1. probe.pending \subseteq ToSet(up)
    BY DEF Inv, ProbeOK, NoProbe, Registered
  <2> QED BY <2>1 DEF Inv, FailedOK
<1> QED BY <1>1, Invariance, PTL

(* No hook of the drain runs longer than shutdown_timeout, whatever holds    *)
(* the pool's connection.                                                    *)
THEOREM HookBounded == Spec => []HookIsBounded
<1>1. Inv => HookIsBounded
  BY DEF Inv, DrainOK, HookIsBounded
<1> QED BY <1>1, Invariance, PTL

-----------------------------------------------------------------------------
(* The promise of the loops.  The drain that has passed the first provider    *)
(* has no hook running.                                                       *)
PastFirst == phase = "closing" /\ at.i = 0 => at.j = 0

AbstractStep == [Abstract!Next]_(Abstract!vars)

LEMMA PastFirstStep ==
  ASSUME Inv, PastFirst, [Next]_vars
  PROVE  PastFirst'
<1>1. CASE HookBegins
  BY <1>1 DEF HookBegins, NextStep, PastFirst
<1>2. CASE HookEnds
  BY <1>2 DEF HookEnds, PreviousProvider, PastFirst
<1>3. CASE Shutdown
  BY <1>3 DEF Shutdown, PastFirst
<1>4. CASE InitOk \/ InitFails \/ StepPasses \/ Down
  <2>1. phase' # "closing"
    BY <1>4 DEF InitOk, InitFails, StepPasses, Down, GoOn
  <2> QED BY <2>1 DEF PastFirst
<1>5. CASE ~Shutdown /\ ~HookBegins /\ ~HookEnds /\ ~InitOk /\ ~InitFails /\ ~StepPasses /\ ~Down
  <2>1. UNCHANGED <<phase, at>>
    BY <1>5 DEF Next, Run, vars, CheckEnds, Respond, StartProbe, Begin, Commit, SamplerExits,
                Change, Tick
  <2> QED BY <2>1 DEF PastFirst
<1> QED BY <1>1, <1>2, <1>3, <1>4, <1>5

(* The provider at hand is the first of those to come. *)
LEMMA AtHand ==
  ASSUME Inv, phase = "init"
  PROVE  /\ Turns # <<>> /\ Head(Turns) = Current
         /\ Tail(Turns) = SubSeq(chain, at.i + 1, Len(chain))
<1>1. chain \in Seq(DOMAIN Provider) /\ Len(chain) \in Nat /\ at.i \in 1..Len(chain)
  BY ChainType, StepType DEF Inv
<1>2. Turns = SubSeq(chain, at.i, Len(chain)) /\ Len(chain) \in at.i..Len(chain)
  BY <1>1 DEF Turns
<1>3. Head(Turns) = Current /\ Tail(Turns) = SubSeq(chain, at.i + 1, Len(chain))
  BY <1>1, <1>2, HeadTailOfSubSeq DEF Current
<1>4. Len(Turns) = Len(chain) - at.i + 1
  <2>1. at.i \in Int /\ Len(chain) \in Int /\ at.i <= Len(chain)
        /\ \A k \in at.i..Len(chain) : chain[k] \in DOMAIN Provider
    BY <1>1
  <2> QED BY <1>2, <2>1, SubSeqProperties
<1>5. Len(Turns) > 0
  BY <1>1, <1>4
<1>6. Turns # <<>>
  BY <1>5
<1> QED BY <1>3, <1>6

(* The loop goes on. *)
LEMMA TurnEnds ==
  ASSUME Inv, phase = "init", GoOn, UNCHANGED settings
  PROVE  /\ Turns' = Tail(Turns) /\ Held = up /\ Held' = up'
         /\ InHook = <<>> /\ InHook' = <<>> /\ Custody = "open" /\ Custody' = "open"
<1>1. chain' = chain /\ at.i \in Nat /\ Len(chain) \in Nat /\ at.i \in 1..Len(chain)
  BY Settings, ChainType, StepType DEF Inv
<1>2. phase' = IF at.i = Len(chain) THEN "up" ELSE "init"
  BY DEF GoOn
<1>3. at'.i = at.i + 1
  BY DEF GoOn, NextProvider
<1>4. Turns' = SubSeq(chain, at.i + 1, Len(chain))
  <2>1. CASE at.i = Len(chain)
    BY <1>1, <1>2, <2>1, SubSeqEmpty DEF Turns
  <2>2. CASE at.i # Len(chain)
    BY <1>1, <1>2, <1>3, <2>2 DEF Turns
  <2> QED BY <2>1, <2>2
<1> QED BY <1>2, <1>4, AtHand DEF Held, InHook, Custody

LEMMA BootStep ==
  ASSUME Inv, StepPasses \/ InitOk \/ InitFails
  PROVE  AbstractStep
<1>1. CASE StepPasses
  <2>1. /\ phase = "init" /\ phase' = "init" /\ UNCHANGED <<settings, up>> /\ at'.i = at.i
    BY <1>1 DEF StepPasses, NextStep
  <2>2. Turns' = Turns
    BY <2>1, Settings DEF Turns
  <2> QED BY <2>1, <2>2 DEF AbstractStep, Abstract!vars, Held, InHook, Custody
<1>2. CASE InitOk
  <2>1. phase = "init" /\ GoOn /\ UNCHANGED settings /\ up' = Append(up, Current)
    BY <1>2 DEF InitOk
  <2>2. Abstract!BringUp
    BY <2>1, TurnEnds, AtHand DEF Abstract!BringUp
  <2> QED BY <2>2 DEF AbstractStep, Abstract!Next
<1>3. CASE InitFails
  <2>1. CASE Current \in required
    <3>1. phase = "init" /\ phase' = "failed" /\ up' = <<>>
      BY <1>3, <2>1 DEF InitFails
    <3>2. Abstract!Abandon
      BY <3>1 DEF Abstract!Abandon, Turns, Held, InHook, Custody
    <3> QED BY <3>2 DEF AbstractStep, Abstract!Next
  <2>2. CASE Current \notin required
    <3>1. phase = "init" /\ GoOn /\ UNCHANGED settings /\ up' = up
      BY <1>3, <2>2 DEF InitFails
    <3>2. Abstract!PassOver
      BY <3>1, TurnEnds, AtHand DEF Abstract!PassOver
    <3> QED BY <3>2 DEF AbstractStep, Abstract!Next
  <2> QED BY <2>1, <2>2
<1> QED BY <1>1, <1>2, <1>3

(* The provider being closed is the last of those that are up. *)
LEMMA LastUp ==
  ASSUME Inv, phase = "closing", at.i > 0
  PROVE  /\ at.i \in 1..Len(up) /\ Len(up) \in Nat /\ up \in Seq(Member)
         /\ Held = SubSeq(up, 1, at.i) /\ Held \in Seq(Member) /\ Len(Held) = at.i
         /\ Held # <<>> /\ Held[Len(Held)] = Closing
<1>1. /\ at.i \in 1..Len(up) /\ Len(up) \in Nat /\ up \in Seq(Member)
      /\ \A k \in 1..at.i : up[k] \in Member
  BY DEF Inv, DrainOK, TypeOK
<1>2. Held = SubSeq(up, 1, at.i)
  BY DEF Held
<1>3. /\ SubSeq(up, 1, at.i) \in Seq(Member)
      /\ Len(SubSeq(up, 1, at.i)) = IF 1 <= at.i THEN at.i - 1 + 1 ELSE 0
      /\ \A k \in 1..(at.i - 1 + 1) : SubSeq(up, 1, at.i)[k] = up[1 + k - 1]
  BY <1>1, SubSeqProperties
<1>4. Len(Held) = at.i /\ Held[at.i] = up[at.i]
  BY <1>1, <1>2, <1>3
<1> QED BY <1>1, <1>2, <1>3, <1>4 DEF Closing

LEMMA DrainStep ==
  ASSUME Inv, PastFirst, Shutdown \/ HookBegins \/ HookEnds \/ Down
  PROVE  AbstractStep
<1>1. CASE Shutdown
  <2>1. /\ phase = "up" /\ phase' = "closing" /\ at'.i = Len(up) /\ at'.j = 0 /\ up' = up
    BY <1>1 DEF Shutdown
  <2>2. Held = up /\ Held' = up
    <3>1. up \in Seq(Member)
      BY DEF Inv, TypeOK
    <3> QED BY <2>1, <3>1, SubSeqFull DEF Held
  <2>3. Abstract!StopServing
    BY <2>1, <2>2 DEF Abstract!StopServing, Turns, InHook, Custody
  <2> QED BY <2>3 DEF AbstractStep, Abstract!Next
<1>2. CASE HookBegins
  <2>1. /\ phase = "closing" /\ phase' = "closing" /\ at.i > 0 /\ at.j = 0
        /\ at'.i = at.i /\ at'.j = 1 /\ up' = up
    <3>1. at' = NextStep /\ at.j = 0
      BY <1>2 DEF HookBegins
    <3>2. at'.i = at.i /\ at'.j = 1
      BY <3>1 DEF NextStep
    <3> QED BY <1>2, <3>2 DEF HookBegins
  <2>2. Held' = Held /\ Closing' = Closing
    BY <2>1 DEF Held, Closing
  <2>3. Abstract!CloseBegins
    BY <2>1, <2>2, LastUp DEF Abstract!CloseBegins, Turns, InHook, Custody
  <2> QED BY <2>3 DEF AbstractStep, Abstract!Next
<1>3. CASE HookEnds
  <2>1. /\ phase = "closing" /\ phase' = "closing" /\ at.i > 0 /\ at.j = 1
        /\ at'.i = at.i - 1 /\ at'.j = 0 /\ up' = up
    BY <1>3 DEF HookEnds, PreviousProvider
  <2> DEFINE n == at.i
  <2>2. /\ n \in 1..Len(up) /\ Len(up) \in Nat /\ up \in Seq(Member) /\ Held \in Seq(Member)
        /\ Held = SubSeq(up, 1, n) /\ Len(Held) = n
    BY <2>1, LastUp
  <2>3. Held' = SubSeq(up, 1, n - 1)
    BY <2>1 DEF Held
  <2>4. SubSeq(Held, 1, n - 1) = SubSeq(up, 1, n - 1)
    <3> HIDE DEF n
    <3>1. CASE n = 1
      BY <2>2, <3>1, SubSeqEmpty
    <3>2. CASE n > 1
      <4>1. /\ 1 \in 1..Len(up) /\ 1 \in 1..(n - 1 + 1) /\ n - 1 \in 1..(n - 1 + 1)
            /\ 1 + 1 - 1 = 1 /\ 1 + (n - 1) - 1 = n - 1
        BY <2>2, <3>2
      <4>2. SubSeq(SubSeq(up, 1, n), 1, n - 1) = SubSeq(up, 1 + 1 - 1, 1 + (n - 1) - 1)
        BY <2>2, <4>1, SubSeqOfSubSeq
      <4> QED BY <2>2, <4>1, <4>2
    <3> QED BY <2>2, <3>1, <3>2
  <2>5. Abstract!CloseEnds
    BY <2>1, <2>2, <2>3, <2>4 DEF Abstract!CloseEnds, Turns, InHook, Custody
  <2> QED BY <2>5 DEF AbstractStep, Abstract!Next
<1>4. CASE Down
  <2>1. phase = "closing" /\ phase' = "down" /\ at.i = 0 /\ at.j = 0 /\ up' = <<>>
    BY <1>4 DEF Down, PastFirst
  <2>2. Held = <<>>
    BY <2>1, SubSeqEmpty DEF Held
  <2>3. Abstract!End
    BY <2>1, <2>2 DEF Abstract!End, Turns, Held, InHook, Custody
  <2> QED BY <2>3 DEF AbstractStep, Abstract!Next
<1> QED BY <1>1, <1>2, <1>3, <1>4

(* Whatever the upstreams do, the providers are brought up in order, each at  *)
(* most once, and those that came up are closed from the last, each hook over *)
(* before the next one begins.                                                *)
THEOREM Implements == Spec => ImplementsProviderChain
<1>1. Init => PastFirst
  BY DEF Init, PastFirst
<1>2. Inv /\ PastFirst /\ [Next]_vars => PastFirst'
  BY PastFirstStep
<1>3. Init => Abstract!Init
  <2> SUFFICES ASSUME Init PROVE Abstract!Init
    OBVIOUS
  <2>1. Inv /\ up = <<>> /\ phase \in {"init", "up"} /\ at.i = 1
    BY InitInv DEF Init, Start
  <2>2. chain \in Seq(DOMAIN Provider)
    BY <2>1, ChainType DEF Inv
  <2>3. Turns \in Seq(DOMAIN Provider)
    <3>1. SubSeq(chain, 1, Len(chain)) = chain
      BY <2>2, SubSeqFull
    <3>2. CASE phase = "init"
      BY <2>1, <2>2, <3>1, <3>2 DEF Turns
    <3>3. CASE phase = "up"
      BY <3>3 DEF Turns
    <3> QED BY <2>1, <3>2, <3>3
  <2> QED BY <2>1, <2>3 DEF Abstract!Init, Held, InHook, Custody
<1>4. Inv /\ PastFirst /\ [Next]_vars => AbstractStep
  <2> SUFFICES ASSUME Inv, PastFirst, [Next]_vars
               PROVE  AbstractStep
    OBVIOUS
  <2>1. CASE StepPasses \/ InitOk \/ InitFails
    BY <2>1, BootStep
  <2>2. CASE Shutdown \/ HookBegins \/ HookEnds \/ Down
    BY <2>2, DrainStep
  <2>3. CASE ~Shutdown /\ ~HookBegins /\ ~HookEnds /\ ~InitOk /\ ~InitFails /\ ~StepPasses /\ ~Down
    <3>1. UNCHANGED <<settings, phase, at, up>>
      BY <2>3 DEF Next, Run, vars, CheckEnds, Respond, StartProbe, Begin, Commit, SamplerExits,
                  Change, Tick
    <3>2. Turns' = Turns
      BY <3>1, Settings DEF Turns
    <3> QED BY <3>1, <3>2 DEF AbstractStep, Abstract!vars, Held, InHook, Closing, Custody
  <2> QED BY <2>1, <2>2, <2>3
<1> QED BY <1>1, <1>2, <1>3, <1>4, Invariance, PTL
        DEF Spec, ImplementsProviderChain, Abstract!Spec, AbstractStep
=============================================================================
