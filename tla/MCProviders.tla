----------------------------- MODULE MCProviders -----------------------------
(* Instances of Providers for TLC. *)
EXTENDS Providers

(* Every provider, next to Postgres or to its neighbour in the list. *)
Pairs ==
  {<<"postgres", "redis">>, <<"postgres", "nats">>, <<"postgres", "s3">>, <<"mongodb", "nats">>,
   <<"redis", "qdrant">>, <<"neo4j", "oss">>, <<"s3", "llm">>}

(* Postgres comes up before a provider that may fail. *)
PostgresFirst == {<<"postgres", "redis">>}

(* The two whose client parses the URL. *)
Parsers == {<<"postgres", "nats">>}
=============================================================================
