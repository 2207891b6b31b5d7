--------------------------- MODULE MCIdempotency ----------------------------
(* Instances of Idempotency for TLC. *)
EXTENDS Idempotency, TLC

(* One segment each; requests without a tenant are the second namespace. *)
OneTenant == {<<"a">>}
OneKey == {<<"k">>}

Symmetry == Permutations(Request) \cup Permutations(Operation)
=============================================================================
