-------------------------------- MODULE Auth --------------------------------
(***************************************************************************)
(* internal/auth and the requireRole of internal/api/server.go: who may    *)
(* call a handler.  Signatures and encodings are left out: a JWT carries   *)
(* the key that signed it.                                                 *)
(***************************************************************************)
EXTENDS Integers, SequencesExt

CONSTANTS
    Tokens,       \* static API tokens; NoToken is the empty one
    NoToken,
    Secrets,      \* HMAC secrets; NoSecret is the empty one
    NoSecret,
    RSAKeys, Kids,
    Names, NoName,  \* issuers and audiences; NoName is the empty string
    OtherRole,    \* a role that is none of the six
    Leeway,       \* ClockSkewLeeway
    MaxInt        \* the largest int64

ASSUME AuthAssumption ==
    /\ NoToken \notin Tokens
    /\ NoSecret \notin Secrets \cup RSAKeys
    /\ Secrets \cap RSAKeys = {}
    /\ NoName \notin Names
    /\ Leeway \in Nat
    /\ MaxInt \in Nat
    /\ Leeway <= MaxInt

KnownRoles == {"admin", "security-reviewer", "evaluator", "promoter", "auditor",
               "viewer"}

ASSUME OtherRoleAssumption == OtherRole \notin KnownRoles \cup {"", "refused"}

Roles == KnownRoles \cup {OtherRole}

(* exp = 0 and nbf = 0 are claims that are missing, as is role = "".       *)
JWTs ==
    [alg : {"HS256", "RS256", "none"}, kid : Kids, signer : Secrets \cup RSAKeys,
     iss : Names \cup {NoName}, aud : Names \cup {NoName},
     exp : 0 .. MaxInt, nbf : 0 .. MaxInt, role : Roles \cup {""}, roles : Seq(Roles)]

(* An Authorization header.                                                *)
Headers == [kind : {"none", "malformed"}]
      \cup [kind : {"token"}, token : Tokens]
      \cup [kind : {"jwt"}, jwt : JWTs]

PartialFunctions(D, R) == UNION {[S -> R] : S \in SUBSET D}

Authenticators ==
    [apiTokens : PartialFunctions(Tokens, Roles), hmacSecret : Secrets \cup {NoSecret},
     rsaKeys : PartialFunctions(Kids, RSAKeys),
     ExpectedIssuer : Names \cup {NoName}, ExpectedAudience : Names \cup {NoName}]

-----------------------------------------------------------------------------

Nothing == [x \in {} |-> x]

(* f with the entries of g, which win.                                     *)
With(f, g) == [x \in DOMAIN f \cup DOMAIN g |->
                  IF x \in DOMAIN g THEN g[x] ELSE f[x]]

Entry(x, y) == [z \in {x} |-> y]

(* Mutant: the empty token is registered as well.                          *)
NewAuthenticatorAnyToken(token, secret, issuer, audience) ==
    [apiTokens |-> Entry(token, "admin"), hmacSecret |-> secret, rsaKeys |-> Nothing,
     ExpectedIssuer |-> issuer, ExpectedAudience |-> audience]

(* A JWKS document is a sequence of keys, of which those that are no       *)
(* readable RSA keys are passed over; the last one of a kid counts.        *)
WebKeys == [readable : BOOLEAN, kid : Kids, key : RSAKeys]

ParseJWKS(document) ==
    FoldLeft(LAMBDA set, k : IF k.readable THEN With(set, Entry(k.kid, k.key)) ELSE set,
             Nothing, document)

NewAuthenticator(token, secret, issuer, audience) ==
    [apiTokens |-> IF token = NoToken THEN Nothing ELSE Entry(token, "admin"),
     hmacSecret |-> secret, rsaKeys |-> Nothing,
     ExpectedIssuer |-> issuer, ExpectedAudience |-> audience]

(* Mutant: a key set alone does not count.                                 *)
ReadyWithoutKeys(a) == DOMAIN a.apiTokens # {} \/ a.hmacSecret # NoSecret

ValidateReadiness(a) ==
    DOMAIN a.apiTokens # {} \/ a.hmacSecret # NoSecret \/ DOMAIN a.rsaKeys # {}

(* int64 addition of two numbers that are not negative.                    *)
Plus(x, y) == IF x + y > MaxInt THEN x + y - 2 * (MaxInt + 1) ELSE x + y

(* Mutant: the leeway is taken off instead of added.                       *)
TimelyEager(j, clock) ==
    /\ ~(j.exp > 0 /\ clock > j.exp - Leeway)
    /\ ~(j.nbf > 0 /\ clock < j.nbf - Leeway)

(* The time claims, at time clock of the server.                           *)
Timely(j, clock) ==
    /\ ~(j.exp > 0 /\ clock > Plus(j.exp, Leeway))
    /\ ~(j.nbf > 0 /\ clock < j.nbf - Leeway)

Expected(a, j) ==
    /\ a.ExpectedIssuer \in {NoName, j.iss}
    /\ a.ExpectedAudience \in {NoName, j.aud}

(* The keys ParseJWT may check the signature with: for an RSA token the    *)
(* one of its kid, else any, whichever the iteration of the map begins     *)
(* with.                                                                   *)
VerificationKeys(a, j) ==
    CASE j.alg = "HS256" -> {a.hmacSecret} \ {NoSecret}
      [] j.alg = "RS256" -> IF j.kid \in DOMAIN a.rsaKeys THEN {a.rsaKeys[j.kid]}
                            ELSE Range(a.rsaKeys)
      [] OTHER           -> {}

(* The results that ParseJWT can have.                                     *)
ParseJWT(a, j, clock) ==
    LET keys == VerificationKeys(a, j)
    IN  IF Timely(j, clock) /\ Expected(a, j) /\ keys # {}
        THEN {k = j.signer : k \in keys} ELSE {FALSE}

ClaimedRole(j) ==
    IF j.role # "" THEN j.role
    ELSE IF j.roles # <<>> THEN Head(j.roles) ELSE "viewer"

(* The roles, or "refused", that Authenticate can answer.                  *)
Authenticate(a, h, clock) ==
    CASE h.kind = "token" /\ h.token \in DOMAIN a.apiTokens -> {a.apiTokens[h.token]}
      [] h.kind = "jwt" -> {IF ok THEN ClaimedRole(h.jwt) ELSE "refused" :
                               ok \in ParseJWT(a, h.jwt, clock)}
      [] OTHER -> {"refused"}

(* Mutant: a reviewer also revokes.                                        *)
HasPermissionMore(userRole, requiredRole) ==
    \/ userRole \in {"admin", "security-reviewer", requiredRole}
    \/ requiredRole = "viewer"

HasPermission(userRole, requiredRole) ==
    \/ userRole = "admin"
    \/ userRole = requiredRole
    \/ /\ userRole = "security-reviewer"
       /\ requiredRole \in {"evaluator", "promoter", "auditor", "viewer"}
    \/ requiredRole = "viewer"

(* The status codes a request can get; with 200 its handler runs.          *)
requireRole(production, a, h, requiredRole, clock) ==
    IF h.kind = "none" THEN {IF production THEN 503 ELSE 200}
    ELSE {IF role = "refused" THEN 401
          ELSE IF HasPermission(role, requiredRole) THEN 200 ELSE 403 :
             role \in Authenticate(a, h, clock)}

(* Handler: the role each endpoint asks for.                               *)
RequiredRole ==
    [evaluate |-> "evaluator", promote |-> "promoter", getPromotions |-> "viewer",
     revoke |-> "admin", getRevocations |-> "viewer",
     quarantine |-> "security-reviewer", getQuarantines |-> "viewer",
     unquarantine |-> "security-reviewer", getDecisions |-> "auditor"]

(* GET /readyz.                                                            *)
readyz(production, a, ping, policyValid) ==
    IF ping /\ policyValid /\ (production => ValidateReadiness(a)) THEN 200 ELSE 503
=============================================================================
