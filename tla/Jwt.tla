-------------------------------- MODULE Jwt ---------------------------------
(***************************************************************************)
(* jwt_auth.py: what is checked of the token of a request.                 *)
(*                                                                         *)
(* A token is its claims and the key that signed it: a signature verifies  *)
(* under the key that made it and no other, and a body hash tells bodies   *)
(* apart (both external).  Times are in seconds, and a token says whether  *)
(* its iat and exp are both JSON numbers: PyJWT reads them with int(), so  *)
(* it takes a string of digits as well.                                    *)
(***************************************************************************)
EXTENDS Integers

CONSTANTS
    JWT_MAX_AGE,    \* 0: no cap on the lifetime of incoming tokens
    JWT_LEEWAY

ASSUME AgeAssumption == JWT_MAX_AGE \in Nat /\ JWT_LEEWAY \in Nat

ALG == "EdDSA"
NoTime == -1    \* a claim that is missing

\* PyJWT's own checks (external): the signature, under the pinned algorithm and
\* the given key; the claims that are required; the audience; the time window.
PyJWTAccepts(token, key, audience, now) ==
    /\ token.alg = ALG /\ token.key = key
    /\ token.exp # NoTime /\ token.iat # NoTime
    /\ token.aud = audience
    /\ token.iat <= now + JWT_LEEWAY
    /\ token.exp > now - JWT_LEEWAY

\* A plausible slip: the lifetime is left to the signer.
MutDecodeNoCap(token, keys, audience, now) ==
    /\ token.iss \in DOMAIN keys
    /\ PyJWTAccepts(token, keys[token.iss], audience, now)

\* A plausible slip: the age is measured against the clock, with no leeway.
MutDecodeAgeFromNow(token, keys, audience, now) ==
    /\ token.iss \in DOMAIN keys
    /\ PyJWTAccepts(token, keys[token.iss], audience, now)
    /\ JWT_MAX_AGE > 0 /\ token.numeric => token.iat \in now - JWT_MAX_AGE .. now

\* decode: the issuer selects the key, and the lifetime is capped if it is a difference
\* of numbers.
decode(token, keys, audience, now) ==
    /\ token.iss \in DOMAIN keys
    /\ PyJWTAccepts(token, keys[token.iss], audience, now)
    /\ JWT_MAX_AGE > 0 /\ token.numeric => token.exp - token.iat <= JWT_MAX_AGE

\* request_target: the path, and the query when there is one.
request_target(request) ==
    IF request.query = "" THEN <<request.path>> ELSE <<request.path, request.query>>

\* A plausible slip: the target is bound without its query.
MutCheckBindingPathOnly(token, method, htu, body, require_body) ==
    /\ token.htm = method
    /\ token.htu[1] = htu[1]
    /\ require_body => token.bh = body

\* check_binding.
check_binding(token, method, htu, body, require_body) ==
    /\ token.htm = method
    /\ token.htu = htu
    /\ require_body => token.bh = body
=============================================================================
