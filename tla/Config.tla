-------------------------------- MODULE Config --------------------------------
(***************************************************************************)
(* Loading the configuration (crates/hwhkit-config/src/lib.rs): the        *)
(* defaults, two TOML files, environment variables and a filtered remote   *)
(* patch are merged in this order, read back as an AppConfig and           *)
(* validated.                                                              *)
(*                                                                         *)
(* A JSON value is a scalar or an object.  A key is the sequence of the    *)
(* segments between its dots, so that the path of a leaf is the            *)
(* concatenation of the keys above it, as in filter_patch.                 *)
(***************************************************************************)
EXTENDS Integers, Sequences, FiniteSets, FiniteSetsExt, SequencesExt, TLC

CONSTANTS
  File,          (* what a TOML file may be: an object, Absent, Hidden, Unreadable or Garbage *)
  Environments,  (* the sets of variables under the prefix: records [path, raw] *)
  Remote,        (* what fetch_patch may return: a value, NoRemote or Failing *)
  Allowed        (* the paths of the RemotePatchPolicy                       *)

-----------------------------------------------------------------------------
(* JSON values. *)

Null == [is |-> "null", v |-> <<>>]
Bool(b) == [is |-> "bool", v |-> b]
Number(n) == [is |-> "number", v |-> n]
String(s) == [is |-> "string", v |-> s]
Object(f) == [is |-> "object", v |-> f]
Empty == Object(<<>>)
IsObject(x) == x.is = "object"

(* A file or a remote that gives no value.  A hidden file is there, but its *)
(* metadata cannot be read (a directory that may not be searched, a loop of *)
(* links), so that exists() is false.                                       *)
Absent == [is |-> "absent"]
Hidden == [is |-> "hidden"]
Unreadable == [is |-> "unreadable"]
Garbage == [is |-> "garbage"]
NoRemote == [is |-> "no remote"]
Failing == [is |-> "failing"]

(* What an environment variable's text is read as.  Other texts, also those *)
(* that are a float but no JSON number ("inf"), stay strings.               *)
parse_env_value(raw) ==
  CASE raw = "true" -> Bool(TRUE)
    [] raw = "false" -> Bool(FALSE)
    [] raw \in {"0", "8081", "70000"} -> Number(CHOOSE n \in {0, 8081, 70000} : ToString(n) = raw)
    [] raw = "{}" -> Empty
    [] OTHER -> String(raw)

(* Seeded fault: sections are replaced as a whole. *)
ShallowMerge(base, patch) ==
  IF IsObject(base) /\ IsObject(patch)
  THEN Object([k \in DOMAIN base.v \cup DOMAIN patch.v |->
                 IF k \in DOMAIN patch.v THEN patch.v[k] ELSE base.v[k]])
  ELSE patch

RECURSIVE deep_merge(_, _)
deep_merge(base, patch) ==
  IF IsObject(base) /\ IsObject(patch)
  THEN Object([k \in DOMAIN base.v \cup DOMAIN patch.v |->
                 CASE k \notin DOMAIN patch.v -> base.v[k]
                   [] k \notin DOMAIN base.v -> deep_merge(Null, patch.v[k])
                   [] OTHER -> deep_merge(base.v[k], patch.v[k])])
  ELSE patch

(* ConfigPatch::set_path: what is in the way becomes an object. *)
RECURSIVE set_path(_, _, _)
set_path(x, path, value) ==
  IF path = <<>> THEN x
  ELSE LET here == IF IsObject(x) THEN x.v ELSE <<>>
           key == <<Head(path)>>
           below == IF key \in DOMAIN here THEN here[key] ELSE Empty
       IN Object([k \in DOMAIN here \cup {key} |->
                    IF k # key THEN here[k]
                    ELSE IF Len(path) = 1 THEN value
                    ELSE set_path(below, Tail(path), value)])

(* collect_allowed_leaf_paths: the leaves of a value with their paths. *)
RECURSIVE LeavesOf(_, _)
LeavesOf(prefix, x) ==
  IF IsObject(x) THEN UNION {LeavesOf(prefix \o k, x.v[k]) : k \in DOMAIN x.v}
  ELSE {[path |-> prefix, value |-> x]}

allows(path) == path \in Allowed

filter_patch(x) ==
  FoldSet(LAMBDA leaf, patch : set_path(patch, leaf.path, leaf.value), Empty,
          {leaf \in LeavesOf(<<>>, x) : allows(leaf.path)})

from_value(x) == IF IsObject(x) THEN x ELSE Empty
is_empty(p) == IsObject(p) => DOMAIN p.v = {}

-----------------------------------------------------------------------------
(* AppConfig: the sections and the fields each must have, with their        *)
(* defaults.  Sections that nothing here reads (llm, runtime, resilience,   *)
(* otel, migrations) are left out: all of them may be absent.               *)

Section(at, fields) == [at |-> at, fields |-> fields]

ServerConfig == Section(<<"server">>, [host |-> String("0.0.0.0"), port |-> Number(3000)])
ObservabilityConfig ==
  Section(<<"observability">>,
          [service_name |-> String("hwhkit-service"), environment |-> String("dev")])
LoggingConfig ==
  Section(<<"observability", "logging">>, [level |-> String("info"), format |-> String("pretty")])
TracingConfig ==
  Section(<<"observability", "tracing">>, [enabled |-> Bool(TRUE), sample_ratio |-> Number(1)])

(* A section with a switch and an address. *)
Toggle(required) == [enabled |-> Bool(FALSE), required |-> Bool(required), url |-> String("")]

PostgresConfig ==
  Section(<<"integrations", "sql", "postgres">>, Toggle(TRUE) @@ [max_connections |-> Number(20)])
RedisConfig == Section(<<"integrations", "redis">>, Toggle(FALSE))
MongoDbConfig ==
  Section(<<"integrations", "mongodb">>, Toggle(FALSE) @@ [database |-> String("app")])
NatsConfig == Section(<<"integrations", "messaging", "nats">>, Toggle(FALSE))
QdrantConfig ==
  Section(<<"integrations", "vector", "qdrant">>, Toggle(FALSE) @@ [api_key |-> String("")])
Neo4jConfig ==
  Section(<<"integrations", "neo4j">>,
          Toggle(FALSE) @@ [username |-> String("neo4j"), password |-> String("")])
S3Config ==
  Section(<<"integrations", "storage", "s3">>,
          [enabled |-> Bool(FALSE), required |-> Bool(FALSE), endpoint |-> String(""),
           region |-> String("us-east-1"), bucket |-> String(""), access_key_id |-> String(""),
           secret_access_key |-> String(""), force_path_style |-> Bool(TRUE)])
OssConfig ==
  Section(<<"integrations", "storage", "oss">>,
          [enabled |-> Bool(FALSE), required |-> Bool(FALSE), endpoint |-> String(""),
           bucket |-> String(""), access_key_id |-> String(""), access_key_secret |-> String("")])

UrlSections == {PostgresConfig, RedisConfig, MongoDbConfig, NatsConfig, QdrantConfig, Neo4jConfig}
AppConfig ==
  {ServerConfig, ObservabilityConfig, LoggingConfig, TracingConfig, S3Config, OssConfig}
    \cup UrlSections

(* The paths of the fields, and their defaults. *)
Field == UNION {{s.at \o <<f>> : f \in DOMAIN s.fields} : s \in AppConfig}
SectionOf(p) == CHOOSE s \in AppConfig : s.at = Front(p)
Default(p) == SectionOf(p).fields[Last(p)]

RECURSIVE DefaultBelow(_)
DefaultBelow(at) ==
  IF at \in Field THEN Default(at)
  ELSE Object([k \in {<<p[Len(at) + 1]>> : p \in {q \in Field : IsPrefix(at, q)}} |->
                 DefaultBelow(at \o k)])
Defaults == DefaultBelow(<<>>)

(* The value at a path: "absent" below an object that lacks the key,        *)
(* "blocked" below a scalar.                                                *)
RECURSIVE At(_, _)
At(x, path) ==
  CASE path = <<>> -> x
    [] path # <<>> /\ ~IsObject(x) -> [is |-> "blocked"]
    [] path # <<>> /\ IsObject(x) /\ <<Head(path)>> \notin DOMAIN x.v -> Absent
    [] OTHER -> At(x.v[<<Head(path)>>], Tail(path))

(* Deserialize for the type of a field; port is a u16. *)
Reads(p, x) ==
  /\ x.is = Default(p).is
  /\ Last(p) = "port" => x.v \in 0..65535
  /\ Last(p) = "environment" => x.v \in {"dev", "test", "prod"}

(* A section that is absent has its defaults; one that is there must be an  *)
(* object with all its fields.                                              *)
Deserializes(x) ==
  \A s \in AppConfig :
    \/ At(x, s.at).is = "absent"
    \/ IsObject(At(x, s.at)) /\ \A f \in DOMAIN s.fields : Reads(s.at \o <<f>>, At(x, s.at \o <<f>>))

Deserialized(x) ==
  [p \in Field |-> IF At(x, Front(p)).is = "absent" THEN Default(p) ELSE At(x, p)]

(* trim().is_empty() *)
Blank(x) == x.v \in {"", " "}

validate_strict(cfg) ==
  /\ ~Blank(cfg[<<"server", "host">>]) /\ cfg[<<"server", "port">>].v # 0
  /\ ~Blank(cfg[<<"observability", "service_name">>])
  /\ \A s \in UrlSections : cfg[s.at \o <<"enabled">>].v => ~Blank(cfg[s.at \o <<"url">>])
  /\ cfg[S3Config.at \o <<"enabled">>].v =>
       \A f \in {"bucket", "region"} : ~Blank(cfg[S3Config.at \o <<f>>])
  /\ cfg[OssConfig.at \o <<"enabled">>].v =>
       \A f \in {"endpoint", "bucket", "access_key_id", "access_key_secret"} :
         ~Blank(cfg[OssConfig.at \o <<f>>])

-----------------------------------------------------------------------------

VARIABLES
  default_file, env_file, env, remote,  (* the inputs                        *)
  stage,     (* the source that is next, then "read", "validate", "done"     *)
  unset,     (* the variables env::vars() has yet to yield                   *)
  patch,     (* the patch of the current source                              *)
  merged,
  applied_sources,
  config,    (* the AppConfig that was read                                  *)
  result     (* "loading", "ok", "io", "parse", "remote", "invalid"          *)

inputs == <<default_file, env_file, env, remote>>
vars == <<inputs, stage, unset, patch, merged, applied_sources, config, result>>

Init ==
  /\ default_file \in File /\ env_file \in File /\ env \in Environments /\ remote \in Remote
  /\ stage = "file:default" /\ unset = env /\ patch = Empty
  /\ merged = Defaults /\ applied_sources = <<>>
  /\ config = <<>> /\ result = "loading"

Fails(kind) == result' = kind /\ stage' = "done" /\ UNCHANGED <<merged, applied_sources>>

exists(f) == f \notin {Absent, Hidden}

(* Seeded fault: a file that cannot be parsed is skipped. *)
FileErrorIgnored(f) == "none"

(* read_toml_patch, with required = false: no file that exists() is false   *)
(* of is an error.                                                          *)
FileError(f) ==
  CASE ~exists(f) -> "none"
    [] f = Unreadable -> "io" [] f = Garbage -> "parse" [] OTHER -> "none"

(* The patch of a source goes in; an empty one leaves no trace. *)
Apply(source, p, next) ==
  /\ merged' = IF is_empty(p) THEN merged ELSE deep_merge(merged, p)
  /\ applied_sources' = IF is_empty(p) THEN applied_sources ELSE Append(applied_sources, source)
  /\ stage' = next /\ UNCHANGED result

(* FileDefaultSource, FileEnvironmentSource and read_toml_patch. *)
LoadFile(source, f, next) ==
  /\ stage = source
  /\ IF FileError(f) # "none" THEN Fails(FileError(f))
     ELSE Apply(source, from_value(f), next)
  /\ UNCHANGED <<inputs, unset, patch, config>>

(* EnvConfigSource: the variables in the order in which they come. *)
SetVariable ==
  /\ stage = "env"
  /\ \E var \in unset :
       /\ unset' = unset \ {var}
       /\ patch' = set_path(patch, var.path, parse_env_value(var.raw))
  /\ UNCHANGED <<inputs, stage, merged, applied_sources, config, result>>

LoadEnv ==
  /\ stage = "env" /\ unset = {}
  /\ Apply("env", patch, "remote")
  /\ UNCHANGED <<inputs, unset, patch, config>>

(* RemoteConfigSource, if the application added one. *)
LoadRemote ==
  /\ stage = "remote"
  /\ CASE remote = NoRemote -> stage' = "read" /\ UNCHANGED <<merged, applied_sources, result, patch>>
       [] remote = Failing -> Fails("remote") /\ UNCHANGED patch
       [] OTHER -> /\ patch' = filter_patch(from_value(remote))
                   /\ Apply("remote", patch', "read")
  /\ UNCHANGED <<inputs, unset, config>>

Read ==
  /\ stage = "read"
  /\ IF Deserializes(merged)
     THEN config' = Deserialized(merged) /\ stage' = "validate" /\ UNCHANGED result
     ELSE result' = "parse" /\ stage' = "done" /\ UNCHANGED config
  /\ UNCHANGED <<inputs, unset, patch, merged, applied_sources>>

Validate ==
  /\ stage = "validate"
  /\ result' = IF validate_strict(config) THEN "ok" ELSE "invalid"
  /\ stage' = "done"
  /\ UNCHANGED <<inputs, unset, patch, merged, applied_sources, config>>

Next ==
  \/ LoadFile("file:default", default_file, "file:environment")
  \/ LoadFile("file:environment", env_file, "env")
  \/ SetVariable \/ LoadEnv \/ LoadRemote \/ Read \/ Validate

Spec == Init /\ [][Next]_vars

-----------------------------------------------------------------------------

(* What a source says of a field, read off the source itself.               *)
FileSays(f, p) == IF IsObject(f) THEN At(f, p) ELSE Absent
EnvSays(p) ==
  LET vs == {v \in env : IsPrefix(v.path, p)}
      v == CHOOSE v \in vs : TRUE
  IN IF vs = {} THEN Absent ELSE At(parse_env_value(v.raw), SubSeq(p, Len(v.path) + 1, Len(p)))
RemoteSays(p) ==
  LET ls == {l \in LeavesOf(<<>>, remote) : l.path = p} IN
  IF p \notin Allowed \/ ls = {} THEN Absent
  ELSE (CHOOSE l \in ls : TRUE).value

(* Two variables speak of one place; env::vars() decides between them.      *)
Clashing == \E v, w \in env : v # w /\ IsPrefix(v.path, w.path)

(* "Merged onto the running config (last write wins per leaf field)" (lines *)
(* 993-994): every field has the value of the last source that says         *)
(* something of it, whatever the order of the variables.  A source that     *)
(* has a scalar in the place of a section takes the section back to its     *)
(* defaults (or the load fails).                                            *)
LastWriteWins ==
  config # <<>> /\ ~Clashing =>
    \A p \in Field :
      LET said == SelectSeq(<<RemoteSays(p), EnvSays(p), FileSays(env_file, p),
                              FileSays(default_file, p), Default(p)>>,
                            LAMBDA x : x.is # "absent")
      IN config[p] = IF said[1].is = "blocked" THEN Default(p) ELSE said[1]

(* No source is passed over in silence: a configuration that loads is made  *)
(* of all the sources that are there, and applied_sources names, in their   *)
(* order, those that said something (lines 1230-1232, 1245-1246).  A file   *)
(* is there if exists() says so: a hidden one counts as absent.             *)
NoSourceIsPassedOver ==
  result = "ok" =>
    /\ {default_file.is, env_file.is} \cap {"unreadable", "garbage"} = {} /\ remote # Failing
    /\ applied_sources =
         SelectSeq(<<"file:default", "file:environment", "env", "remote">>,
                   LAMBDA source :
                     CASE source = "file:default" -> IsObject(default_file) /\ default_file # Empty
                       [] source = "file:environment" -> IsObject(env_file) /\ env_file # Empty
                       [] source = "env" -> env # {}
                       [] OTHER -> \E p \in Allowed : RemoteSays(p).is # "absent")
=============================================================================
