------------------------------- MODULE MCJwks -------------------------------
(* Instances of Jwks for TLC. *)
EXTENDS Jwks, TLC

Jwk(kid, alg, kty, whole, key) ==
  [kid |-> kid, alg |-> alg, kty |-> kty, whole |-> whole, key |-> key]

(* An old and a new key; the new one beside one that cannot be used.        *)
OldKey == Jwk("a", "RS256", "RSA", TRUE, "A")
NewKey == Jwk("b", None, "RSA", TRUE, "B")
TwoDocuments == {<<OldKey>>, <<Jwk("a", "RS256", "RSA", FALSE, "A"), NewKey>>}

Jwt(bearer, kid, alg, signer, claims) ==
  [bearer |-> bearer, kid |-> kid, alg |-> alg, signer |-> signer, claims |-> claims]

Tokens == {Jwt(TRUE, "a", "RS256", "A", "ok"), Jwt(TRUE, "b", "RS256", "B", "ok"),
           Jwt(TRUE, None, "RS256", "A", "other_issuer"), Jwt(TRUE, None, "HS256", "secret", "ok"),
           Jwt(FALSE, None, "RS256", "A", "ok")}
=============================================================================
