------------------------------ MODULE MCConfig ------------------------------
(* An instance of Config for TLC. *)
EXTENDS Config

Doc(leaves) == FoldSet(LAMBDA l, x : set_path(x, l[1], l[2]), Empty, leaves)

Port == <<"server", "port">>
Level == <<"observability", "logging", "level">>
RedisOn == <<"integrations", "redis", "enabled">>
RedisUrl == <<"integrations", "redis", "url">>
OssOn == <<"integrations", "storage", "oss", "enabled">>
OssBucket == <<"integrations", "storage", "oss", "bucket">>
S3On == <<"integrations", "storage", "s3", "enabled">>

(* Files: overlapping sections, switches without addresses, and sections    *)
(* that are a scalar or empty.                                              *)
Files ==
  {Absent, Hidden, Unreadable, Garbage, Empty,
   Doc({<<Port, Number(8081)>>, <<RedisOn, Bool(TRUE)>>, <<RedisUrl, String("redis://a")>>}),
   Doc({<<RedisOn, Bool(TRUE)>>, <<Level, String("debug")>>}),
   Doc({<<RedisUrl, String(" ")>>, <<OssOn, Bool(TRUE)>>}),
   Doc({<<OssBucket, String("b")>>, <<Port, Number(0)>>}),
   Doc({<< <<"integrations">>, String("x")>>}),
   Doc({<< <<"integrations", "storage">>, Empty>>, <<S3On, Bool(TRUE)>>})}

Variables ==
  {[path |-> Port, raw |-> "8081"], [path |-> Port, raw |-> "70000"],
   [path |-> <<"server">>, raw |-> "{}"],
   [path |-> <<"observability", "service_name">>, raw |-> "0"],
   [path |-> Level, raw |-> "inf"], [path |-> RedisOn, raw |-> "true"],
   [path |-> RedisUrl, raw |-> "redis://b"], [path |-> <<"integrations">>, raw |-> "false"]}

UpToTwo == {s \in SUBSET Variables : Cardinality(s) <= 2}

(* Remote patches: an allowed leaf, one that is not, a dotted key that      *)
(* spells an allowed path, a scalar where a section is, and no object.      *)
Remotes ==
  {NoRemote, Failing, String("x"),
   Doc({<<Level, String("warn")>>, <<Port, Number(0)>>}),
   Object(<<"observability">> :> Object(<<"logging", "level">> :> String("error"))),
   Doc({<< <<"observability">>, String("x")>>}),
   Doc({<<RedisOn, Bool(FALSE)>>, <<RedisUrl, String("")>>})}

Policy == {Level, <<"observability", "tracing", "enabled">>}
=============================================================================
