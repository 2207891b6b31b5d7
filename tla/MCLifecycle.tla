---------------------------- MODULE MCLifecycle -----------------------------
(* Instances of Lifecycle for TLC. *)
EXTENDS Lifecycle

(* What default_providers() builds for these cargo features, followed by a   *)
(* provider the application added without its feature.                        *)
PgNatsOss == <<"postgres", "nats", "oss">>

(* Postgres waits for its pool to close and NATS for a flush, each within its *)
(* timeout; the other hooks only log.                                         *)
Waits == [k \in KnownFeatures |->
            CASE k = "postgres" -> 2 [] k = "nats" -> 1 [] OTHER -> 0]
=============================================================================
