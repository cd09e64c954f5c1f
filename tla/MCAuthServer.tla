---------------------------- MODULE MCAuthServer ----------------------------
(* An instance of AuthServer for TLC: the server as serve starts it, with  *)
(* and without a token, in production and not; and with an HMAC secret as  *)
(* the tests do.  Tokens of two keys, with and without a kid, alive, near  *)
(* their end, near the largest int64, and for another audience.            *)
EXTENDS AuthServer

CONSTANTS api, hmac, rsa1, rsa2, kid1, kid2, us, them

Served ==
    [production |-> TRUE, token |-> api, secret |-> NoSecret, issuer |-> us,
     audience |-> NoName]

Setups == {Served, [Served EXCEPT !.token = NoToken],
           [Served EXCEPT !.production = FALSE],
           [Served EXCEPT !.token = NoToken, !.secret = hmac, !.audience = us]}

Jwt ==
    [alg |-> "RS256", kid |-> kid1, signer |-> rsa1, iss |-> us, aud |-> us,
     exp |-> 0, nbf |-> 0, role |-> "evaluator", roles |-> <<>>]

WebTokens ==
    {Jwt, [Jwt EXCEPT !.kid = kid2, !.signer = rsa2, !.exp = 2, !.role = ""],
     [Jwt EXCEPT !.exp = 1, !.nbf = 1, !.role = "security-reviewer"],
     [Jwt EXCEPT !.exp = MaxInt], [Jwt EXCEPT !.signer = rsa2],
     [Jwt EXCEPT !.aud = them, !.role = OtherRole], [Jwt EXCEPT !.iss = them],
     [Jwt EXCEPT !.alg = "HS256", !.signer = hmac, !.role = "", !.roles = <<"promoter">>],
     [Jwt EXCEPT !.alg = "HS256", !.signer = hmac, !.nbf = 2, !.role = "admin"],
     [Jwt EXCEPT !.alg = "HS256"], [Jwt EXCEPT !.alg = "none"]}

(* The keys are rotated; a key of another kind is passed over.             *)
Key(kid, k) == [readable |-> TRUE, kid |-> kid, key |-> k]

Published == {<<Key(kid1, rsa1), Key(kid2, rsa2)>>,
              <<[Key(kid1, rsa1) EXCEPT !.readable = FALSE], Key(kid2, rsa2)>>}

Incoming ==
    {[kind |-> "none"], [kind |-> "malformed"], [kind |-> "token", token |-> api]}
        \cup {[kind |-> "jwt", jwt |-> j] : j \in WebTokens}
=============================================================================
