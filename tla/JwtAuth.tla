------------------------------ MODULE JwtAuth -------------------------------
(***************************************************************************)
(* The authentication of incoming requests (app.py, _authenticate), over   *)
(* time: tokens may be presented early, late, twice, and with requests     *)
(* they were not made for.                                                 *)
(***************************************************************************)
EXTENDS Jwt, FiniteSets

CONSTANTS
    Tokens,             \* tokens presented
    Requests,           \* [method, path, query, body, length, declared]
    AsyncPath,          \* the path of scan-async, whose body is bound
    ISSUER_KEYS,        \* JWT_ISSUER_KEYS
    JWT_AUDIENCE,
    JSON_MAX_BODY_SIZE,
    MaxTime,            \* bound on the clock
    MaxServed           \* bound on the requests

\* What the comparisons of the code need: times and sizes are numbers.
ASSUME TokensAssumption == \A t \in Tokens : t.iat \in Int /\ t.exp \in Int
ASSUME SizesAssumption ==
    /\ JSON_MAX_BODY_SIZE \in Nat
    /\ \A r \in Requests : r.length \in Nat /\ r.declared \in Nat

VARIABLES now, served   \* served: the requests answered, [token, request, at, code]

authVars == <<now, served>>

AuthInit == now = 0 /\ served = {}

Tick == now < MaxTime /\ now' = now + 1 /\ UNCHANGED served

\* No Authorization header, or one that is not a bearer token.
NoToken == [iss |-> "none", key |-> "none", alg |-> "none", aud |-> "none", iat |-> NoTime,
            exp |-> NoTime, numeric |-> TRUE, htm |-> "none", htu |-> << >>, bh |-> "none"]

bind_body(request) == request.path = AsyncPath

\* The declared length is the cheap signal (0: absent or not a number), the real
\* one decides.
TooLarge(request) ==
    bind_body(request) /\ (request.declared > JSON_MAX_BODY_SIZE
                            \/ request.length > JSON_MAX_BODY_SIZE)

\* _authenticate: the status the request gets; 200 lets it through to the endpoint.
\* The length is only measured once the token is known to be good.
authenticate(token, request) ==
    IF bind_body(request) /\ request.declared > JSON_MAX_BODY_SIZE THEN 413
    ELSE IF token = NoToken \/ ~ decode(token, ISSUER_KEYS, JWT_AUDIENCE, now) THEN 401
    ELSE IF TooLarge(request) THEN 413
    ELSE IF check_binding(token, request.method, request_target(request), request.body,
                          bind_body(request)) THEN 200
    ELSE 401

Serve(token, request) ==
    /\ Cardinality(served) < MaxServed
    /\ served' = served \cup {[token |-> token, request |-> request, at |-> now,
                               code |-> authenticate(token, request)]}
    /\ UNCHANGED now

AuthNext == Tick \/ \E t \in Tokens \cup {NoToken}, r \in Requests : Serve(t, r)

AuthSpec == AuthInit /\ [][AuthNext]_authVars

Accepted == {s \in served : s.code = 200}

-----------------------------------------------------------------------------

\* A captured token is good for one request only: two requests it was accepted
\* for have the same method, path and query, and on the asynchronous endpoint the
\* same body, so the url and webhook_url the caller authorised cannot be swapped
\* (docs/security.md:75-79; app.py:104-115, jwt_auth.py:195-215).
OneTokenOneRequest ==
    \A s, t \in Accepted : s.token = t.token =>
        /\ s.request.method = t.request.method
        /\ s.request.path = t.request.path
        /\ s.request.query = t.request.query
        /\ bind_body(s.request) => s.request.body = t.request.body

\* The replay window of a token whose iat and exp are numbers is bounded whatever
\* expiry its signer chose: its first and its last use are less than JWT_MAX_AGE and
\* twice the leeway apart (config.py:135-140, jwt_auth.py:163-189). Of the other
\* tokens, see LifetimeIsCapped.
ReplayWindow ==
    JWT_MAX_AGE > 0 => \A s, t \in Accepted : s.token = t.token /\ s.token.numeric =>
        t.at - s.at < JWT_MAX_AGE + 2 * JWT_LEEWAY

\* The token of an honest caller: its own key, this audience, a lifetime within the cap.
Honest(token) ==
    /\ token.iss \in DOMAIN ISSUER_KEYS
    /\ token.key = ISSUER_KEYS[token.iss] /\ token.alg = ALG /\ token.aud = JWT_AUDIENCE
    /\ token.iat # NoTime /\ token.exp # NoTime
    /\ token.exp - token.iat \in 0..JWT_MAX_AGE

MadeFor(token, request) ==
    /\ token.htm = request.method /\ token.htu = request_target(request)
    /\ token.bh = request.body

\* An honest caller is never locked out by its clock: a request of a fitting
\* size with the token made for it is let through whenever the caller's clock, at
\* most the leeway away from ours, is within the token's life
\* (jwt_auth.py:163-189; config.py:139).
HonestIsServed ==
    \A s \in served : \A skew \in -JWT_LEEWAY..JWT_LEEWAY :
        /\ Honest(s.token) /\ MadeFor(s.token, s.request)
        /\ s.token.iat <= s.at + skew /\ s.at + skew < s.token.exp
        /\ s.request.length <= JSON_MAX_BODY_SIZE /\ s.request.declared <= JSON_MAX_BODY_SIZE
        => s.code = 200

-----------------------------------------------------------------------------
(* What a docstring says and the code does not do.                         *)

\* "We add a hard cap on exp - iat (max_age) that PyJWT doesn't enforce, bounding the
\* replay window of a captured token" (jwt_auth.py:147-149): of every accepted token.
LifetimeIsCapped ==
    JWT_MAX_AGE > 0 => \A s \in Accepted : s.token.exp - s.token.iat <= JWT_MAX_AGE

=============================================================================
