----------------------------- MODULE AuthProofs -----------------------------
(***************************************************************************)
(* Theorems about AuthServer for any keys, tokens, configurations and      *)
(* requests, and any skew of the clocks up to the leeway.                  *)
(***************************************************************************)
EXTENDS AuthServer, WellFoundedInduction, TLAPS

(* The clocks are numbers and do not differ by more than MaxSkew.          *)
ClocksOK == now \in Nat /\ skew \in Int /\ -MaxSkew <= skew /\ skew <= MaxSkew

(* What the last answer was, it was for a reason.                          *)
Justified ==
    last # NoRequest =>
        /\ last.header \in Arriving
        /\ last.endpoint \in Endpoints
        /\ last.status \in requireRole(production, authenticator, last.header,
                                       RequiredRole[last.endpoint], now + skew)

(* The authenticator is a record, and its tokens have roles.               *)
Shaped(a) ==
    /\ a = [apiTokens |-> a.apiTokens, hmacSecret |-> a.hmacSecret,
            rsaKeys |-> a.rsaKeys, ExpectedIssuer |-> a.ExpectedIssuer,
            ExpectedAudience |-> a.ExpectedAudience]
    /\ \A t \in DOMAIN a.apiTokens : a.apiTokens[t] \in Roles

IInv == ClocksOK /\ Justified /\ Shaped(authenticator)

LEMMA NewIsShaped ==
    ASSUME NEW token, NEW secret, NEW issuer, NEW audience
    PROVE  Shaped(NewAuthenticator(token, secret, issuer, audience))
  BY DEF Shaped, NewAuthenticator, Nothing, Entry, Roles, KnownRoles

LEMMA Init_IInv == Init => IInv
<1> SUFFICES ASSUME Init PROVE IInv
  OBVIOUS
<1>1. ClocksOK /\ Justified
  BY AuthServerAssumption DEF Init, ClocksOK, Justified
<1>2. Shaped(authenticator)
  BY NewIsShaped DEF Init
<1> QED
  BY <1>1, <1>2 DEF IInv

(* Keys and tokens come and go, the shape remains.                         *)
LEMMA ShapeStays == ASSUME Shaped(authenticator), Next PROVE Shaped(authenticator)'
<1>1. CASE Restart
  BY <1>1, NewIsShaped DEF Restart, Start
<1>2. CASE RegisterAPIToken
  <2>1. PICK t \in Tokens, r \in Granted :
           authenticator' = [authenticator EXCEPT !.apiTokens = With(@, Entry(t, r))]
    BY <1>2 DEF RegisterAPIToken, Register
  <2> DEFINE tokens == With(authenticator.apiTokens, Entry(t, r))
  <2>2. \A u \in DOMAIN tokens : tokens[u] \in Roles
    BY AuthServerAssumption DEF Shaped, With, Entry
  <2> HIDE DEF tokens
  <2>3. authenticator' = [apiTokens |-> tokens, hmacSecret |-> authenticator.hmacSecret,
                          rsaKeys |-> authenticator.rsaKeys,
                          ExpectedIssuer |-> authenticator.ExpectedIssuer,
                          ExpectedAudience |-> authenticator.ExpectedAudience]
    BY <2>1 DEF Shaped, tokens
  <2> QED
    BY <2>2, <2>3 DEF Shaped
<1>3. ASSUME NEW keys, authenticator' = [authenticator EXCEPT !.rsaKeys = keys]
      PROVE  Shaped(authenticator)'
  BY <1>3 DEF Shaped
<1>4. CASE RegisterRSAPublicKey
  BY <1>3, <1>4 DEF RegisterRSAPublicKey, Register
<1>5. CASE WithJWKS
  BY <1>3, <1>5 DEF WithJWKS, Register
<1>6. CASE Fetch \/ SetKey
  BY <1>6 DEF Fetch, SetKey, KeySet
<1>7. CASE Request \/ Answer \/ Tick
  BY <1>7 DEF Request, Answer, Tick
<1> QED
  BY <1>1, <1>2, <1>4, <1>5, <1>6, <1>7 DEF Next

(* The clocks stay as they are or go on; a request is answered for a       *)
(* reason and changes nothing, and everything else waits for the answer.   *)
LEMMA Next_IInv == IInv /\ [Next]_vars => IInv'
<1> SUFFICES ASSUME IInv, [Next]_vars PROVE IInv'
  OBVIOUS
<1> USE DEF ClocksOK, Justified
<1>0. Shaped(authenticator)'
  BY ShapeStays DEF IInv, vars
<1>1. CASE Request
  <2>1. ClocksOK'
    BY <1>1 DEF Request, IInv
  <2>2. PICK h \in Arriving, e \in Endpoints :
           \E s \in requireRole(production, authenticator, h, RequiredRole[e], now + skew) :
               last' = [header |-> h, endpoint |-> e, status |-> s]
    BY <1>1 DEF Request
  <2>3. UNCHANGED <<production, authenticator, now, skew>>
    BY <1>1 DEF Request
  <2> QED
    BY <1>0, <2>1, <2>2, <2>3 DEF IInv
<1>2. CASE Answer
  BY <1>0, <1>2 DEF Answer, IInv
<1>3. CASE Tick
  BY <1>0, <1>3 DEF Tick, IInv
<1>4. CASE Change
  BY <1>0, <1>4 DEF Change, IInv
<1>5. CASE UNCHANGED vars
  BY <1>0, <1>5 DEF vars, IInv
<1>6. Restart \/ RegisterAPIToken \/ RegisterRSAPublicKey \/ WithJWKS \/ Fetch \/ SetKey
      => Change
  BY DEF Restart, RegisterAPIToken, RegisterRSAPublicKey, WithJWKS, Register, Fetch,
         SetKey, KeySet
<1> QED
  BY <1>1, <1>2, <1>3, <1>4, <1>5, <1>6 DEF Next

LEMMA Always == Spec => []IInv
<1> QED
  BY Init_IInv, Next_IInv, PTL DEF Spec

-----------------------------------------------------------------------------

(* HasPermission follows the hierarchy of roles.                           *)
LEMMA PermissionCovers ==
    ASSUME NEW role, NEW e \in DOMAIN RequiredRole, HasPermission(role, RequiredRole[e])
    PROVE  Covers(role, RequiredRole[e])
<1> DEFINE required == RequiredRole[e]
<1>0. HasPermission(role, required)
  OBVIOUS
<1>1. required \in {"evaluator", "promoter", "viewer", "admin", "security-reviewer",
                    "auditor"}
  BY DEF RequiredRole
<1> HIDE DEF required
<1>2. /\ Below("admin") = {"security-reviewer"}
      /\ Below("security-reviewer") = {"evaluator", "promoter", "auditor"}
      /\ Below("evaluator") = {"viewer"}
      /\ Below("viewer") = {}
  BY DEF Below
<1>3. role # required /\ required = "viewer" =>
          role = "admin" \/ role = "security-reviewer" \/ Below(role) = {"viewer"}
  BY DEF Below
<1>4. \/ role = required
      \/ required \in Below(role)
      \/ \E r \in Below(role) :
            \/ required \in Below(r)
            \/ \E q \in Below(r) : required \in Below(q)
  <2>1. CASE role = required
    BY <2>1
  <2>2. CASE role # required /\ role = "security-reviewer"
    BY <1>0, <1>1, <1>2, <2>2 DEF HasPermission
  <2>3. CASE role = "admin" /\ required = "viewer"
    <3>1. /\ "security-reviewer" \in Below(role)
          /\ "evaluator" \in Below("security-reviewer")
          /\ required \in Below("evaluator")
      BY <1>2, <2>3
    <3> QED
      BY <3>1
  <2>4. CASE role = "admin" /\ required # "viewer"
    BY <1>1, <1>2, <2>4
  <2>5. CASE role # required /\ required = "viewer" /\ role # "admin"
    BY <1>2, <1>3, <2>2, <2>5
  <2> QED
    BY <1>0, <2>1, <2>2, <2>3, <2>4, <2>5 DEF HasPermission
<1> QED
  BY <1>4 DEF Covers, required

(* The constants and the time claims are numbers.                          *)
LEMMA Numbers ==
    /\ MaxInt \in Int /\ Leeway \in Nat /\ MaxSkew \in Nat /\ MaxSkew <= Leeway
    /\ Leeway <= MaxInt
  BY AuthAssumption, AuthServerAssumption

LEMMA ClaimsAreNumbers ==
    ASSUME NEW j \in JWTs
    PROVE  j.exp \in 0 .. MaxInt /\ j.nbf \in 0 .. MaxInt
  BY DEF JWTs

(* Plus may overflow, but then only to a time that is long past.           *)
LEMMA PlusIsNoMore ==
    ASSUME NEW x \in 0 .. MaxInt
    PROVE  Plus(x, Leeway) \in Int /\ Plus(x, Leeway) <= x + Leeway
  BY AuthAssumption DEF Plus

(* A token that passes the server's clock is alive by the issuer's, give   *)
(* or take the leeway and the skew.                                        *)
LEMMA TimelyLives ==
    ASSUME ClocksOK, NEW j \in JWTs, Timely(j, now + skew)
    PROVE  Lives(j, now, Leeway + MaxSkew)
<1>1. /\ j.exp \in 0 .. MaxInt /\ j.nbf \in 0 .. MaxInt
      /\ MaxInt \in Int /\ Leeway \in Nat /\ MaxSkew \in Nat
  BY Numbers, ClaimsAreNumbers
<1>2. Plus(j.exp, Leeway) \in Int /\ Plus(j.exp, Leeway) <= j.exp + Leeway
  BY <1>1, PlusIsNoMore
<1>3. j.exp = 0 \/ now + skew <= Plus(j.exp, Leeway)
  BY <1>1, <1>2 DEF Timely, ClocksOK
<1>4. j.nbf = 0 \/ now + skew >= j.nbf - Leeway
  BY <1>1 DEF Timely, ClocksOK
<1> QED
  BY <1>1, <1>2, <1>3, <1>4 DEF Lives, ClocksOK

(* A token that is alive by the issuer's clock passes the server's, as     *)
(* long as the clocks differ by no more than the leeway and the leeway can *)
(* be added.                                                               *)
LEMMA LivingIsTimely ==
    ASSUME ClocksOK, NEW j \in JWTs, Lives(j, now, 0), j.exp + Leeway <= MaxInt
    PROVE  Timely(j, now + skew)
<1>1. /\ j.exp \in 0 .. MaxInt /\ j.nbf \in 0 .. MaxInt
      /\ MaxInt \in Int /\ Leeway \in Nat /\ MaxSkew \in Nat /\ MaxSkew <= Leeway
  BY Numbers, ClaimsAreNumbers
<1>2. Plus(j.exp, Leeway) = j.exp + Leeway
  BY <1>1 DEF Plus
<1> QED
  BY <1>1, <1>2 DEF Lives, ClocksOK, Timely

-----------------------------------------------------------------------------

(* What Authenticate, ParseJWT and VerificationKeys answer, case by case.  *)
LEMMA Credentials ==
    ASSUME NEW a, NEW h, NEW clock
    PROVE  /\ h.kind = "jwt" =>
                 Authenticate(a, h, clock) = {IF ok THEN ClaimedRole(h.jwt) ELSE "refused" :
                                                 ok \in ParseJWT(a, h.jwt, clock)}
           /\ h.kind = "token" /\ h.token \in DOMAIN a.apiTokens =>
                 Authenticate(a, h, clock) = {a.apiTokens[h.token]}
           /\ h.kind # "jwt" /\ ~(h.kind = "token" /\ h.token \in DOMAIN a.apiTokens) =>
                 Authenticate(a, h, clock) = {"refused"}
<1>1. h.kind = "jwt" => h.kind # "token"
  OBVIOUS
<1> QED
  BY <1>1 DEF Authenticate

LEMMA KeysByAlgorithm ==
    ASSUME NEW a, NEW j
    PROVE  /\ j.alg = "HS256" => VerificationKeys(a, j) = {a.hmacSecret} \ {NoSecret}
           /\ j.alg = "RS256" /\ j.kid \in DOMAIN a.rsaKeys =>
                 VerificationKeys(a, j) = {a.rsaKeys[j.kid]}
           /\ j.alg = "RS256" /\ j.kid \notin DOMAIN a.rsaKeys =>
                 VerificationKeys(a, j) = Range(a.rsaKeys)
           /\ j.alg # "HS256" /\ j.alg # "RS256" => VerificationKeys(a, j) = {}
<1>1. j.alg = "HS256" => j.alg # "RS256"
  OBVIOUS
<1> QED
  BY <1>1 DEF VerificationKeys

LEMMA KeysAreInstalled ==
    ASSUME NEW a, NEW j
    PROVE  VerificationKeys(a, j) \subseteq {a.hmacSecret} \cup Range(a.rsaKeys)
<1>1. j.kid \in DOMAIN a.rsaKeys => a.rsaKeys[j.kid] \in Range(a.rsaKeys)
  BY DEF Range
<1> QED
  BY <1>1, KeysByAlgorithm

LEMMA WebTokensArrive ==
    ASSUME NEW h \in Arriving, h.kind = "jwt"
    PROVE  h.jwt \in JWTs
<1>1. h \in Headers
  BY AuthServerAssumption
<1> QED
  BY <1>1 DEF Headers

(* "refused" is no role.                                                   *)
LEMMA RolesAreNotRefused == "refused" \notin Roles
  BY OtherRoleAssumption DEF Roles, KnownRoles

LEMMA ClaimedIsARole == ASSUME NEW j \in JWTs PROVE ClaimedRole(j) \in Roles
<1>1. j.role \in Roles \cup {""} /\ j.roles \in Seq(Roles)
  BY DEF JWTs
<1>2. ASSUME NEW r \in Seq(Roles), r # <<>> PROVE Head(r) \in Roles
  BY <1>2
<1>3. "viewer" \in Roles
  BY DEF Roles, KnownRoles
<1> QED
  BY <1>1, <1>2, <1>3 DEF ClaimedRole

(* requireRole: a handler that runs was asked for by somebody entitled to  *)
(* it, whatever keys and tokens there are.                                 *)
THEOREM EntitlementTheorem == Spec => []OnlyTheEntitledAreServed
<1> DEFINE required == RequiredRole[last.endpoint]
           h == last.header
           a == authenticator
           clock == now + skew
<1>1. IInv => OnlyTheEntitledAreServed
  <2> SUFFICES ASSUME IInv, last.status = 200
               PROVE  \/ h.kind = "none" /\ ~production
                      \/ /\ h.kind = "token"
                         /\ h.token \in DOMAIN a.apiTokens
                         /\ Covers(a.apiTokens[h.token], required)
                      \/ /\ h.kind = "jwt"
                         /\ h.jwt.signer \in {a.hmacSecret} \cup Range(a.rsaKeys)
                         /\ Lives(h.jwt, now, Leeway + MaxSkew)
                         /\ Covers(ClaimedRole(h.jwt), required)
    BY DEF OnlyTheEntitledAreServed
  <2>1. /\ h \in Arriving
        /\ last.endpoint \in DOMAIN RequiredRole
        /\ 200 \in requireRole(production, a, h, required, clock)
    BY AuthServerAssumption DEF IInv, Justified, NoRequest
  <2>2. CASE h.kind = "none"
    BY <2>1, <2>2 DEF requireRole
  <2>3. CASE h.kind # "none"
    <3>1. PICK role \in Authenticate(a, h, clock) :
             role # "refused" /\ HasPermission(role, required)
      BY <2>1, <2>3 DEF requireRole
    <3>2. Covers(role, required)
      BY <2>1, <3>1, PermissionCovers
    <3>3. CASE h.kind = "jwt"
      <4>1. PICK ok \in ParseJWT(a, h.jwt, clock) :
               role = IF ok THEN ClaimedRole(h.jwt) ELSE "refused"
        BY <3>1, <3>3, Credentials
      <4>2. ok = TRUE /\ role = ClaimedRole(h.jwt)
        BY <3>1, <4>1 DEF ParseJWT
      <4>3. Timely(h.jwt, clock) /\ h.jwt.signer \in VerificationKeys(a, h.jwt)
        BY <4>1, <4>2 DEF ParseJWT
      <4>4. Lives(h.jwt, now, Leeway + MaxSkew)
        BY <2>1, <3>3, <4>3, WebTokensArrive, TimelyLives DEF IInv
      <4> QED
        BY <3>2, <3>3, <4>2, <4>3, <4>4, KeysAreInstalled
    <3>4. CASE h.kind # "jwt"
      BY <3>1, <3>2, <3>4, Credentials
    <3> QED
      BY <3>3, <3>4
  <2> QED
    BY <2>2, <2>3
<1> QED
  BY Always, <1>1, PTL

(* Clock skew and key rotation: no living credential is refused, whatever  *)
(* keys and tokens there are.                                              *)
THEOREM NoFalseRefusalsTheorem == Spec => []NoFalseRefusals
<1> DEFINE required == RequiredRole[last.endpoint]
           h == last.header
           a == authenticator
           clock == now + skew
<1>1. IInv => NoFalseRefusals
  <2> SUFFICES ASSUME IInv, last.status = 401
               PROVE  /\ h.kind = "token" => h.token \notin DOMAIN a.apiTokens
                      /\ h.kind = "jwt" =>
                            ~(/\ Lives(h.jwt, now, 0)
                              /\ h.jwt.exp + Leeway <= MaxInt
                              /\ Expected(a, h.jwt)
                              /\ \/ h.jwt.alg = "HS256" /\ h.jwt.signer = a.hmacSecret
                                 \/ /\ h.jwt.alg = "RS256"
                                    /\ h.jwt.kid \in DOMAIN a.rsaKeys
                                    /\ h.jwt.signer = a.rsaKeys[h.jwt.kid])
    BY DEF NoFalseRefusals
  <2>1. h \in Arriving /\ 401 \in requireRole(production, a, h, required, clock)
    BY DEF IInv, Justified, NoRequest
  <2>2. h.kind # "none" => "refused" \in Authenticate(a, h, clock)
    BY <2>1 DEF requireRole
  <2>3. ASSUME h.kind = "token", h.token \in DOMAIN a.apiTokens PROVE FALSE
    BY <2>2, <2>3, Credentials, RolesAreNotRefused DEF IInv, Shaped
  <2>4. ASSUME h.kind = "jwt", Lives(h.jwt, now, 0), h.jwt.exp + Leeway <= MaxInt,
               Expected(a, h.jwt),
               \/ h.jwt.alg = "HS256" /\ h.jwt.signer = a.hmacSecret
               \/ /\ h.jwt.alg = "RS256"
                  /\ h.jwt.kid \in DOMAIN a.rsaKeys
                  /\ h.jwt.signer = a.rsaKeys[h.jwt.kid]
        PROVE  FALSE
    <3>1. h.jwt \in JWTs
      BY <2>1, <2>4, WebTokensArrive
    <3>2. Timely(h.jwt, clock)
      BY <2>4, <3>1, LivingIsTimely DEF IInv
    <3>3. h.jwt.signer # NoSecret
      <4>1. h.jwt.signer \in Secrets \cup RSAKeys
        BY <3>1 DEF JWTs
      <4>2. NoSecret \notin Secrets \cup RSAKeys
        BY AuthAssumption
      <4> QED
        BY <4>1, <4>2
    <3>4. VerificationKeys(a, h.jwt) = {h.jwt.signer}
      BY <2>4, <3>3, KeysByAlgorithm
    <3>5. ASSUME NEW ok \in ParseJWT(a, h.jwt, clock) PROVE ok
      <4>1. PICK k \in VerificationKeys(a, h.jwt) : ok = (k = h.jwt.signer)
        BY <2>4, <3>2, <3>4 DEF ParseJWT
      <4> QED
        BY <3>4, <4>1
    <3>6. "refused" = ClaimedRole(h.jwt)
      <4>1. PICK ok \in ParseJWT(a, h.jwt, clock) :
               "refused" = IF ok THEN ClaimedRole(h.jwt) ELSE "refused"
        BY <2>2, <2>4, Credentials
      <4> QED
        BY <3>5, <4>1
    <3> QED
      BY <3>1, <3>6, ClaimedIsARole, RolesAreNotRefused
  <2> QED
    BY <2>3, <2>4
<1> QED
  BY Always, <1>1, PTL

(* WithJWKS: whatever set is taken over, the tokens of a key it does not   *)
(* republish get the answers they got before.                              *)
THEOREM RotationTheorem == Spec => RotationStrandsNoToken
<1> DEFINE clock == now + skew
<1>1. IInv /\ [Next]_vars =>
        [WithJWKS =>
           \A h \in Arriving, s \in Statuses :
              /\ h.kind = "jwt"
              /\ h.jwt.kid \in DOMAIN authenticator.rsaKeys \ DOMAIN keySet
              => (s \in requireRole(production, authenticator, h, "viewer", now + skew)
                  <=> s \in requireRole(production, authenticator', h, "viewer", now + skew))]_vars
  <2> SUFFICES ASSUME IInv, WithJWKS, NEW h \in Arriving, h.kind = "jwt",
                      h.jwt.kid \in DOMAIN authenticator.rsaKeys \ DOMAIN keySet
               PROVE  requireRole(production, authenticator, h, "viewer", clock)
                      = requireRole(production, authenticator', h, "viewer", clock)
    OBVIOUS
  <2> DEFINE j == h.jwt
             a == authenticator
             b == authenticator'
  <2>1. b = [a EXCEPT !.rsaKeys = With(a.rsaKeys, keySet)]
    BY DEF WithJWKS, Register
  <2>2. /\ b.hmacSecret = a.hmacSecret
        /\ b.ExpectedIssuer = a.ExpectedIssuer
        /\ b.ExpectedAudience = a.ExpectedAudience
        /\ b.rsaKeys = With(a.rsaKeys, keySet)
    BY <2>1 DEF IInv, Shaped
  <2>3. j.kid \in DOMAIN b.rsaKeys /\ b.rsaKeys[j.kid] = a.rsaKeys[j.kid]
    BY <2>2 DEF With
  <2>4. VerificationKeys(b, j) = VerificationKeys(a, j)
    <3>1. CASE j.alg = "HS256"
      <4>1. /\ VerificationKeys(a, j) = {a.hmacSecret} \ {NoSecret}
            /\ VerificationKeys(b, j) = {b.hmacSecret} \ {NoSecret}
        BY <3>1, KeysByAlgorithm
      <4> QED
        BY <2>2, <4>1
    <3>2. CASE j.alg = "RS256"
      <4>1. /\ VerificationKeys(a, j) = {a.rsaKeys[j.kid]}
            /\ VerificationKeys(b, j) = {b.rsaKeys[j.kid]}
        BY <2>3, <3>2, KeysByAlgorithm
      <4> QED
        BY <2>3, <4>1
    <3>3. CASE j.alg # "HS256" /\ j.alg # "RS256"
      BY <3>3, KeysByAlgorithm
    <3> QED
      BY <3>1, <3>2, <3>3
  <2>5. ParseJWT(b, j, clock) = ParseJWT(a, j, clock)
    BY <2>2, <2>4 DEF ParseJWT, Expected
  <2>6. Authenticate(b, h, clock) = Authenticate(a, h, clock)
    BY <2>5, Credentials
  <2> QED
    BY <2>6 DEF requireRole
<1> QED
  BY Always, <1>1, PTL DEF Spec, RotationStrandsNoToken

-----------------------------------------------------------------------------
(* Types.                                                                  *)

LEMMA PartialFunction ==
    ASSUME NEW D, NEW R, NEW f
    PROVE  f \in PartialFunctions(D, R)
             <=> /\ f = [x \in DOMAIN f |-> f[x]]
                 /\ DOMAIN f \subseteq D
                 /\ \A x \in DOMAIN f : f[x] \in R
<1>1. ASSUME f \in PartialFunctions(D, R)
      PROVE  /\ f = [x \in DOMAIN f |-> f[x]]
             /\ DOMAIN f \subseteq D
             /\ \A x \in DOMAIN f : f[x] \in R
  <2>1. PICK S \in SUBSET D : f \in [S -> R]
    BY <1>1 DEF PartialFunctions
  <2> QED
    BY <2>1
<1>2. ASSUME f = [x \in DOMAIN f |-> f[x]], DOMAIN f \subseteq D,
             \A x \in DOMAIN f : f[x] \in R
      PROVE  f \in PartialFunctions(D, R)
  <2>1. f \in [DOMAIN f -> R]
    BY <1>2
  <2> QED
    BY <1>2, <2>1 DEF PartialFunctions
<1> QED
  BY <1>1, <1>2

LEMMA WithIsPartial ==
    ASSUME NEW D, NEW R, NEW f \in PartialFunctions(D, R), NEW g \in PartialFunctions(D, R)
    PROVE  With(f, g) \in PartialFunctions(D, R)
<1> DEFINE h == With(f, g)
<1>1. /\ DOMAIN f \subseteq D /\ \A x \in DOMAIN f : f[x] \in R
      /\ DOMAIN g \subseteq D /\ \A x \in DOMAIN g : g[x] \in R
  BY PartialFunction
<1>2. /\ DOMAIN h = DOMAIN f \cup DOMAIN g
      /\ \A x \in DOMAIN h : h[x] = IF x \in DOMAIN g THEN g[x] ELSE f[x]
      /\ h = [x \in DOMAIN h |-> h[x]]
  BY DEF With
<1> HIDE DEF h
<1>3. h \in PartialFunctions(D, R)
  BY <1>1, <1>2, PartialFunction
<1> QED
  BY <1>3 DEF h

LEMMA EntryIsPartial ==
    ASSUME NEW D, NEW R, NEW x \in D, NEW y \in R
    PROVE  Entry(x, y) \in PartialFunctions(D, R)
<1> DEFINE e == Entry(x, y)
<1>1. /\ e = [z \in DOMAIN e |-> e[z]] /\ DOMAIN e = {x} /\ e[x] = y
  BY DEF Entry
<1> HIDE DEF e
<1>2. DOMAIN e \subseteq D /\ \A z \in DOMAIN e : e[z] \in R
  BY <1>1
<1>3. e \in PartialFunctions(D, R)
  BY <1>1, <1>2, PartialFunction
<1> QED
  BY <1>3 DEF e

LEMMA NothingIsPartial == ASSUME NEW D, NEW R PROVE Nothing \in PartialFunctions(D, R)
<1> DEFINE n == Nothing
<1>1. n = [z \in DOMAIN n |-> n[z]] /\ DOMAIN n = {}
  BY DEF Nothing
<1> HIDE DEF n
<1>2. n \in PartialFunctions(D, R)
  BY <1>1, PartialFunction
<1> QED
  BY <1>2 DEF n

(* The greatest of some positions.                                         *)
LEMMA LastPosition ==
    ASSUME NEW n \in Nat, NEW S \in SUBSET (1 .. n), S # {}
    PROVE  Max(S) \in S /\ \A y \in S : y <= Max(S)
<1> DEFINE Gaps == {n - k : k \in S}
<1>1. Gaps \in SUBSET Nat /\ Gaps # {}
  OBVIOUS
<1>2. PICK x \in Gaps : \A y \in Gaps : ~(<<y, x>> \in OpToRel(<, Nat))
  <2> HIDE DEF Gaps
  <2> QED
    BY <1>1, WFMin, NatLessThanWellFounded
<1>3. \A y \in Gaps : ~(y < x)
  <2> HIDE DEF Gaps
  <2> QED
    BY <1>1, <1>2 DEF OpToRel
<1>4. PICK m \in S : x = n - m
  BY <1>2
<1>5. \A y \in S : y <= m
  BY <1>3, <1>4
<1> QED
  BY <1>4, <1>5 DEF Max

(* The keys that the entries of d at the positions S publish: of each kid  *)
(* the last readable one.                                                  *)
Published(d, S) ==
    [x \in {d[i].kid : i \in {j \in S : d[j].readable}} |->
        d[Max({j \in S : d[j].readable /\ d[j].kid = x})].key]

AddKey(set, k) == IF k.readable THEN With(set, Entry(k.kid, k.key)) ELSE set

LEMMA LastEntryIsAdded ==
    ASSUME NEW d, NEW n \in Nat, NEW S \in SUBSET (1 .. n), S # {}
    PROVE  Published(d, S) = AddKey(Published(d, S \ {Max(S)}), d[Max(S)])
<1> DEFINE m == Max(S)
           T == S \ {m}
<1>1. m \in S /\ (\A y \in S : y <= m) /\ m \in 1 .. n
  BY LastPosition
<1> HIDE DEF m
<1>2. CASE ~d[m].readable
  <2>1. {j \in S : d[j].readable} = {j \in T : d[j].readable}
    BY <1>2
  <2>2. \A x : {j \in S : d[j].readable /\ d[j].kid = x}
                 = {j \in T : d[j].readable /\ d[j].kid = x}
    BY <1>2
  <2>3. Published(d, S) = Published(d, T)
    BY <2>1, <2>2 DEF Published
  <2> QED
    BY <1>2, <2>3 DEF AddKey, m
<1>3. CASE d[m].readable
  <2> DEFINE kid == d[m].kid
             f == Published(d, T)
             g == Published(d, S)
             h == With(f, Entry(kid, d[m].key))
  <2>1. DOMAIN g = DOMAIN f \cup {kid}
    BY <1>1, <1>3 DEF Published
  <2>2. DOMAIN h = DOMAIN f \cup {kid} /\ h = [x \in DOMAIN h |-> h[x]]
    BY DEF With, Entry
  <2>3. ASSUME NEW x \in DOMAIN g PROVE g[x] = h[x]
    <3>1. CASE x = kid
      <4> DEFINE U == {j \in S : d[j].readable /\ d[j].kid = x}
      <4>1. m \in U /\ U \in SUBSET (1 .. n)
        BY <1>1, <1>3, <3>1
      <4>2. Max(U) \in U /\ m <= Max(U) /\ Max(U) <= m
        <5>1. Max(U) \in U /\ \A y \in U : y <= Max(U)
          <6> HIDE DEF U
          <6> QED
            BY <4>1, LastPosition
        <5>2. U \subseteq S
          OBVIOUS
        <5> HIDE DEF U
        <5> QED
          BY <1>1, <4>1, <5>1, <5>2
      <4>3. Max(U) = m
        <5>1. Max(U) \in 1 .. n
          <6> HIDE DEF U
          <6> QED
            BY <4>1, <4>2
        <5> HIDE DEF U
        <5> QED
          BY <1>1, <4>2, <5>1
      <4>4. g[x] = d[Max(U)].key
        BY <2>3 DEF Published
      <4>5. h[x] = d[m].key
        BY <3>1 DEF With, Entry
      <4> QED
        BY <4>3, <4>4, <4>5
    <3>2. CASE x # kid
      <4>1. {j \in S : d[j].readable /\ d[j].kid = x}
              = {j \in T : d[j].readable /\ d[j].kid = x}
        BY <3>2
      <4>2. x \in DOMAIN f
        BY <2>1, <3>2
      <4>3. g[x] = f[x]
        BY <2>3, <4>1, <4>2 DEF Published
      <4>4. h[x] = f[x]
        BY <3>2, <4>2 DEF With, Entry
      <4> QED
        BY <4>3, <4>4
    <3> QED
      BY <3>1, <3>2
  <2>4. g = [x \in DOMAIN g |-> g[x]]
    BY DEF Published
  <2> HIDE DEF f, g, h, kid
  <2>5. g = h
    BY <2>1, <2>2, <2>3, <2>4
  <2>6. AddKey(f, d[m]) = h
    BY <1>3 DEF AddKey, h, kid
  <2> QED
    BY <2>5, <2>6 DEF f, g, m
<1> QED
  BY <1>2, <1>3

(* ParseJWKS keeps of each kid the last readable key, whatever the         *)
(* document (jwks.go, ParseJWKS).                                          *)
LEMMA LastReadableKeyCounts ==
    ASSUME NEW d, NEW n \in Nat, DOMAIN d = 1 .. n
    PROVE  ParseJWKS(d) = Published(d, 1 .. n)
<1> DEFINE Step(g, S) == IF S = {} THEN Nothing ELSE AddKey(g[S \ {Max(S)}], d[Max(S)])
           Eq(g) == g = [S \in SUBSET DOMAIN d |-> Step(g, S)]
           W == [S \in SUBSET (1 .. n) |-> Published(d, S)]
<1>1. ParseJWKS(d) = (CHOOSE g : Eq(g))[DOMAIN d]
  BY DEF ParseJWKS, FoldLeft, MapThenFoldSet, AddKey
<1>2. Eq(W)
  <2>1. ASSUME NEW S \in SUBSET (1 .. n) PROVE W[S] = Step(W, S)
    <3>1. CASE S = {}
      BY <3>1 DEF Published, Nothing
    <3>2. CASE S # {}
      <4>1. S \ {Max(S)} \in SUBSET (1 .. n)
        OBVIOUS
      <4>2. W[S] = AddKey(Published(d, S \ {Max(S)}), d[Max(S)])
        BY <3>2, LastEntryIsAdded
      <4> QED
        BY <3>2, <4>1, <4>2
    <3> QED
      BY <3>1, <3>2
  <2> QED
    BY <2>1
<1>3. PICK g : Eq(g) /\ ParseJWKS(d) = g[1 .. n]
  <2>1. Eq(CHOOSE g : Eq(g))
    BY <1>2
  <2> HIDE DEF Eq
  <2> QED
    BY <1>1, <2>1
<1>4. g[1 .. n] = W[1 .. n]
  <2> SUFFICES ASSUME g[1 .. n] # W[1 .. n] PROVE FALSE
    OBVIOUS
  <2> HIDE DEF W, Step
  <2> DEFINE Wrong == {k \in 0 .. n : g[1 .. k] # W[1 .. k]}
  <2>1. PICK k \in Wrong : \A j \in Wrong : k <= j
    <3>1. Wrong \in SUBSET Nat /\ n \in Wrong
      OBVIOUS
    <3>2. PICK k \in Wrong : \A j \in Wrong : ~(<<j, k>> \in OpToRel(<, Nat))
      <4> HIDE DEF Wrong
      <4> QED
        BY <3>1, WFMin, NatLessThanWellFounded
    <3>3. \A j \in Wrong : ~(j < k)
      <4> HIDE DEF Wrong
      <4> QED
        BY <3>1, <3>2 DEF OpToRel
    <3> QED
      BY <3>3
  <2>2. k \in 0 .. n /\ g[1 .. k] # W[1 .. k] /\ 1 .. k \in SUBSET (1 .. n)
    OBVIOUS
  <2>3. g[1 .. k] = Step(g, 1 .. k) /\ W[1 .. k] = Step(W, 1 .. k)
    BY <1>2, <1>3, <2>2
  <2>4. k # 0 /\ k \in 1 .. k
    <3>1. 1 .. 0 = {}
      OBVIOUS
    <3>2. k # 0
      BY <2>2, <2>3, <3>1 DEF Step
    <3> QED
      BY <2>2, <3>2
  <2>5. Max(1 .. k) = k
    <3>1. Max(1 .. k) \in 1 .. k /\ \A y \in 1 .. k : y <= Max(1 .. k)
      BY <2>2, <2>4, LastPosition
    <3> QED
      BY <2>2, <2>4, <3>1
  <2>6. (1 .. k) \ {k} = 1 .. k - 1 /\ k - 1 \in 0 .. n /\ ~(k <= k - 1)
    BY <2>2, <2>4
  <2>7. g[1 .. k - 1] = W[1 .. k - 1]
    BY <2>1, <2>6
  <2> HIDE DEF Wrong
  <2> QED
    BY <2>2, <2>3, <2>4, <2>5, <2>6, <2>7 DEF Step
<1>5. W[1 .. n] = Published(d, 1 .. n)
  OBVIOUS
<1> QED
  BY <1>3, <1>4, <1>5

LEMMA ParsedIsPartial ==
    ASSUME NEW d \in Seq(WebKeys)
    PROVE  ParseJWKS(d) \in PartialFunctions(Kids, RSAKeys)
<1>1. PICK n \in Nat : DOMAIN d = 1 .. n /\ \A i \in 1 .. n : d[i] \in WebKeys
  <2>1. DOMAIN d = 1 .. Len(d) /\ Len(d) \in Nat /\ \A i \in 1 .. Len(d) : d[i] \in WebKeys
    OBVIOUS
  <2> QED
    BY <2>1
<1> DEFINE p == Published(d, 1 .. n)
<1>2. p = [x \in DOMAIN p |-> p[x]]
  BY DEF Published
<1>3. DOMAIN p \subseteq Kids
  BY <1>1 DEF Published, WebKeys
<1>4. ASSUME NEW x \in DOMAIN p PROVE p[x] \in RSAKeys
  <2> DEFINE U == {j \in 1 .. n : d[j].readable /\ d[j].kid = x}
  <2>1. U # {} /\ U \in SUBSET (1 .. n)
    BY <1>4 DEF Published
  <2>2. p[x] = d[Max(U)].key
    BY <1>4 DEF Published
  <2>3. Max(U) \in 1 .. n
    <3> HIDE DEF U
    <3> QED
      BY <2>1, LastPosition
  <2> HIDE DEF U, p
  <2> QED
    BY <1>1, <2>2, <2>3 DEF WebKeys
<1> HIDE DEF p
<1>5. p \in PartialFunctions(Kids, RSAKeys)
  BY <1>2, <1>3, <1>4, PartialFunction
<1> QED
  BY <1>1, <1>5, LastReadableKeyCounts DEF p

-----------------------------------------------------------------------------

LEMMA AuthenticatorFields ==
    ASSUME NEW a \in Authenticators
    PROVE  /\ a.apiTokens \in PartialFunctions(Tokens, Roles)
           /\ a.rsaKeys \in PartialFunctions(Kids, RSAKeys)
           /\ a.hmacSecret \in Secrets \cup {NoSecret}
           /\ \A f \in PartialFunctions(Tokens, Roles) :
                 [a EXCEPT !.apiTokens = f] \in Authenticators
           /\ \A f \in PartialFunctions(Kids, RSAKeys) :
                 [a EXCEPT !.rsaKeys = f] \in Authenticators
  BY DEF Authenticators

LEMMA NewIsTyped ==
    ASSUME NEW c \in Configurations
    PROVE  /\ NewAuthenticator(c.token, c.secret, c.issuer, c.audience) \in Authenticators
           /\ c.production \in BOOLEAN
<1>1. /\ c.production \in BOOLEAN /\ c.token \in Tokens \cup {NoToken}
      /\ c.secret \in Secrets \cup {NoSecret} /\ c.issuer \in Names \cup {NoName}
      /\ c.audience \in Names \cup {NoName}
  BY AuthServerAssumption
<1>2. "admin" \in Roles
  BY DEF Roles, KnownRoles
<1>3. /\ Nothing \in PartialFunctions(Tokens, Roles)
      /\ Nothing \in PartialFunctions(Kids, RSAKeys)
      /\ c.token # NoToken => Entry(c.token, "admin") \in PartialFunctions(Tokens, Roles)
  BY <1>1, <1>2, NothingIsPartial, EntryIsPartial
<1> QED
  BY <1>1, <1>3 DEF NewAuthenticator, Authenticators

LEMMA Next_TypeOK == TypeOK /\ [Next]_vars => TypeOK'
<1> SUFFICES ASSUME TypeOK, [Next]_vars PROVE TypeOK'
  OBVIOUS
<1> DEFINE ServerTyped == production \in BOOLEAN /\ authenticator \in Authenticators
           KeysTyped == keySet \in PartialFunctions(Kids, RSAKeys)
           RestTyped == /\ now \in 0 .. MaxTime
                        /\ skew \in -MaxSkew .. MaxSkew
                        /\ last \in [header : Arriving \cup {NoRequest.header},
                                     endpoint : Endpoints \cup {"readyz"},
                                     status : Statuses \cup {0}]
                        /\ changes \in 0 .. MaxChanges
<1>1. ServerTyped /\ KeysTyped /\ RestTyped
  BY DEF TypeOK
<1>2. TypeOK' <=> ServerTyped' /\ KeysTyped' /\ RestTyped'
  BY DEF TypeOK
<1> HIDE DEF RestTyped
<1>3. ServerTyped'
  <2>1. CASE Restart
    BY <2>1, NewIsTyped DEF Restart, Start
  <2>2. CASE RegisterAPIToken
    <3>1. PICK t \in Tokens, r \in Roles :
             /\ authenticator' = [authenticator EXCEPT
                                    !.apiTokens = With(authenticator.apiTokens, Entry(t, r))]
             /\ UNCHANGED production
      BY <2>2, AuthServerAssumption DEF RegisterAPIToken, Register
    <3>2. With(authenticator.apiTokens, Entry(t, r)) \in PartialFunctions(Tokens, Roles)
      BY <1>1, AuthenticatorFields, EntryIsPartial, WithIsPartial
    <3> QED
      BY <1>1, <3>1, <3>2, AuthenticatorFields
  <2>3. ASSUME NEW f \in PartialFunctions(Kids, RSAKeys),
               authenticator' = [authenticator EXCEPT
                                   !.rsaKeys = With(authenticator.rsaKeys, f)],
               UNCHANGED production
        PROVE  ServerTyped'
    <3>1. With(authenticator.rsaKeys, f) \in PartialFunctions(Kids, RSAKeys)
      BY <1>1, AuthenticatorFields, WithIsPartial
    <3> QED
      BY <1>1, <2>3, <3>1, AuthenticatorFields
  <2>4. CASE RegisterRSAPublicKey
    BY <2>3, <2>4, EntryIsPartial DEF RegisterRSAPublicKey, Register
  <2>5. CASE WithJWKS
    BY <1>1, <2>3, <2>5 DEF WithJWKS, Register
  <2>6. CASE UNCHANGED <<production, authenticator>>
    BY <1>1, <2>6
  <2>7. Fetch \/ SetKey \/ Request \/ Answer \/ Tick \/ UNCHANGED vars
        => UNCHANGED <<production, authenticator>>
    BY DEF Fetch, SetKey, KeySet, Request, Answer, Tick, vars
  <2> QED
    BY <2>1, <2>2, <2>4, <2>5, <2>6, <2>7 DEF Next
<1>4. KeysTyped'
  <2>1. CASE Fetch
    BY <2>1, AuthServerAssumption, ParsedIsPartial DEF Fetch, KeySet
  <2>2. CASE SetKey
    BY <1>1, <2>2, EntryIsPartial, WithIsPartial DEF SetKey, KeySet
  <2>3. \/ Restart \/ RegisterAPIToken \/ RegisterRSAPublicKey \/ WithJWKS \/ Request
        \/ Answer \/ Tick \/ UNCHANGED vars
        => UNCHANGED keySet
    BY DEF Restart, RegisterAPIToken, RegisterRSAPublicKey, WithJWKS, Register, Request,
       Answer, Tick, vars
  <2> QED
    BY <1>1, <2>1, <2>2, <2>3 DEF Next
<1>5. RestTyped'
  <2>1. CASE Request
    <3>1. PICK h \in Arriving, e \in Endpoints :
             \E s \in requireRole(production, authenticator, h, RequiredRole[e], now + skew) :
                 last' = [header |-> h, endpoint |-> e, status |-> s]
      BY <2>1 DEF Request
    <3>2. requireRole(production, authenticator, h, RequiredRole[e], now + skew) \subseteq Statuses
      BY DEF requireRole, Statuses
    <3> QED
      BY <1>1, <2>1, <3>1, <3>2 DEF Request, RestTyped
  <2>2. CASE Answer
    BY <1>1, <2>2 DEF Answer, RestTyped, NoRequest
  <2>3. CASE Tick
    BY <1>1, <2>3, AuthServerAssumption DEF Tick, RestTyped
  <2>4. CASE Change
    BY <1>1, <2>4, AuthServerAssumption DEF Change, RestTyped
  <2>5. CASE UNCHANGED vars
    BY <1>1, <2>5 DEF vars, RestTyped
  <2>6. Restart \/ RegisterAPIToken \/ RegisterRSAPublicKey \/ WithJWKS \/ Fetch \/ SetKey
        => Change
    BY DEF Restart, RegisterAPIToken, RegisterRSAPublicKey, WithJWKS, Register, Fetch,
           SetKey, KeySet
  <2> QED
    BY <2>1, <2>2, <2>3, <2>4, <2>5, <2>6 DEF Next
<1> QED
  BY <1>2, <1>3, <1>4, <1>5

(* Whatever keys and tokens are registered, fetched and taken over, the    *)
(* authenticator maps tokens to roles and key ids to keys (auth.go,        *)
(* RegisterAPIToken, WithJWKS; jwks.go, ParseJWKS).                        *)
THEOREM AuthTypes == Spec => []TypeOK
<1>1. Init => TypeOK
  <2> SUFFICES ASSUME Init PROVE TypeOK
    OBVIOUS
  <2>1. production \in BOOLEAN /\ authenticator \in Authenticators
    BY NewIsTyped DEF Init
  <2>2. keySet \in PartialFunctions(Kids, RSAKeys)
    BY NothingIsPartial DEF Init
  <2> QED
    BY <2>1, <2>2, AuthServerAssumption DEF Init, TypeOK, NoRequest
<1> QED
  BY <1>1, Next_TypeOK, PTL DEF Spec

(* Anybody may call, and a JWT can name some key.                          *)
AllCallers == Headers \subseteq Arriving /\ Kids # {}

(* A JWT of that algorithm, key id and signer, made out for the server by  *)
(* somebody who may view, is not turned away if the key is its only choice.*)
LEMMA SignedIsServed ==
    ASSUME TypeOK, AllCallers, production, NEW alg \in {"HS256", "RS256"}, NEW kid \in Kids,
           NEW signer \in Secrets \cup RSAKeys,
           \A j : j.alg = alg /\ j.kid = kid => VerificationKeys(authenticator, j) = {signer},
           now + skew \in Int
    PROVE  \E h \in Arriving, s \in {200, 403} :
              s \in requireRole(production, authenticator, h, "admin", now + skew)
<1> DEFINE a == authenticator
           j == [alg |-> alg, kid |-> kid, signer |-> signer, iss |-> a.ExpectedIssuer,
                 aud |-> a.ExpectedAudience, exp |-> 0, nbf |-> 0, role |-> "viewer",
                 roles |-> <<>>]
           h == [kind |-> "jwt", jwt |-> j]
           clock == now + skew
<1>1. j \in JWTs
  <2>1. a.ExpectedIssuer \in Names \cup {NoName} /\ a.ExpectedAudience \in Names \cup {NoName}
    BY DEF TypeOK, Authenticators
  <2>2. 0 \in 0 .. MaxInt
    BY AuthAssumption
  <2>3. "viewer" \in Roles /\ <<>> \in Seq(Roles)
    BY DEF Roles, KnownRoles
  <2> HIDE DEF a
  <2> QED
    BY <2>1, <2>2, <2>3 DEF JWTs
<1>2. h \in Arriving
  BY <1>1 DEF AllCallers, Headers
<1>3. Timely(j, clock) /\ Expected(a, j)
  BY DEF Timely, Expected
<1>4. VerificationKeys(a, j) = {signer} /\ j.signer = signer /\ ClaimedRole(j) = "viewer"
  BY DEF ClaimedRole
<1>5. h.kind = "jwt" /\ h.jwt = j
  OBVIOUS
<1> HIDE DEF j, h, clock, a
<1>6. ParseJWT(a, j, clock) = {TRUE}
  BY <1>3, <1>4 DEF ParseJWT
<1>7. Authenticate(a, h, clock) = {"viewer"}
  <2>1. Authenticate(a, h, clock) = {IF ok THEN ClaimedRole(h.jwt) ELSE "refused" :
                                        ok \in ParseJWT(a, h.jwt, clock)}
    BY <1>5, Credentials
  <2>2. Authenticate(a, h, clock) = {IF ok THEN "viewer" ELSE "refused" : ok \in {TRUE}}
    BY <1>4, <1>5, <1>6, <2>1
  <2> QED
    BY <2>2, Zenon
<1>8. requireRole(production, a, h, "admin", clock) = {403}
  BY <1>5, <1>7 DEF requireRole, HasPermission
<1> QED
  BY <1>2, <1>8 DEF a, clock

LEMMA ReadyIsServable ==
    ASSUME TypeOK, ClocksOK, AllCallers, production, ValidateReadiness(authenticator)
    PROVE  \E h \in Arriving, s \in {200, 403} :
              s \in requireRole(production, authenticator, h, "admin", now + skew)
<1> DEFINE a == authenticator
           clock == now + skew
<1>1. /\ a.apiTokens \in PartialFunctions(Tokens, Roles)
      /\ a.rsaKeys \in PartialFunctions(Kids, RSAKeys)
      /\ a.hmacSecret \in Secrets \cup {NoSecret}
  BY AuthenticatorFields DEF TypeOK
<1>2. clock \in Int
  BY DEF ClocksOK
<1>3. CASE DOMAIN a.apiTokens # {}
  <2>1. PICK t \in DOMAIN a.apiTokens : t \in Tokens /\ a.apiTokens[t] \in Roles
    BY <1>1, <1>3, PartialFunction
  <2> DEFINE h == [kind |-> "token", token |-> t]
  <2>2. h \in Arriving /\ h.kind = "token" /\ h.token = t
    BY <2>1 DEF AllCallers, Headers
  <2>3. a.apiTokens[t] # "refused"
    BY <2>1, RolesAreNotRefused
  <2> HIDE DEF h, a, clock
  <2>4. Authenticate(a, h, clock) = {a.apiTokens[t]}
    BY <2>1, <2>2 DEF Authenticate
  <2>5. \E s \in {200, 403} : s \in requireRole(production, a, h, "admin", clock)
    BY <2>2, <2>3, <2>4 DEF requireRole
  <2> QED
    BY <2>2, <2>5 DEF a, clock
<1>4. CASE a.hmacSecret # NoSecret
  <2>1. PICK kid \in Kids : TRUE
    BY DEF AllCallers
  <2>2. \A j : j.alg = "HS256" => VerificationKeys(a, j) = {a.hmacSecret}
    BY <1>4, KeysByAlgorithm
  <2> QED
    BY <1>1, <1>2, <1>4, <2>1, <2>2, SignedIsServed
<1>5. CASE DOMAIN a.rsaKeys # {}
  <2>1. PICK kid \in DOMAIN a.rsaKeys : kid \in Kids /\ a.rsaKeys[kid] \in RSAKeys
    BY <1>1, <1>5, PartialFunction
  <2>2. \A j : j.alg = "RS256" /\ j.kid = kid => VerificationKeys(a, j) = {a.rsaKeys[kid]}
    BY <2>1, KeysByAlgorithm
  <2> QED
    BY <1>2, <2>1, <2>2, SignedIsServed
<1> QED
  BY <1>3, <1>4, <1>5 DEF ValidateReadiness

LEMMA ServableIsReady ==
    ASSUME TypeOK, production, NEW h, NEW s \in {200, 403},
           s \in requireRole(production, authenticator, h, "admin", now + skew)
    PROVE  ValidateReadiness(authenticator)
<1> DEFINE a == authenticator
           clock == now + skew
<1>1. s \in requireRole(production, a, h, "admin", clock)
  OBVIOUS
<1> HIDE DEF a, clock
<1>2. h.kind # "none" /\ \E role \in Authenticate(a, h, clock) : role # "refused"
  BY <1>1 DEF requireRole
<1>3. CASE h.kind = "token" /\ h.token \in DOMAIN a.apiTokens
  BY <1>3 DEF ValidateReadiness, a
<1>4. CASE h.kind = "jwt"
  <2>1. TRUE \in ParseJWT(a, h.jwt, clock)
    <3>1. Authenticate(a, h, clock) = {IF ok THEN ClaimedRole(h.jwt) ELSE "refused" :
                                          ok \in ParseJWT(a, h.jwt, clock)}
      BY <1>4, Credentials
    <3>2. PICK ok \in ParseJWT(a, h.jwt, clock) :
             (IF ok THEN ClaimedRole(h.jwt) ELSE "refused") # "refused"
      <4>1. PICK role \in Authenticate(a, h, clock) : role # "refused"
        BY <1>2
      <4>2. role \in {IF ok THEN ClaimedRole(h.jwt) ELSE "refused" :
                         ok \in ParseJWT(a, h.jwt, clock)}
        BY <3>1, Zenon
      <4>3. \E ok \in ParseJWT(a, h.jwt, clock) :
               role = IF ok THEN ClaimedRole(h.jwt) ELSE "refused"
        BY <4>2, Zenon
      <4> QED
        BY <4>1, <4>3, Zenon
    <3>3. \A x \in ParseJWT(a, h.jwt, clock) : x \in BOOLEAN
      <4>1. \A x \in {k = h.jwt.signer : k \in VerificationKeys(a, h.jwt)} : x \in BOOLEAN
        BY Zenon
      <4>2. \A x \in {FALSE} : x \in BOOLEAN
        OBVIOUS
      <4> QED
        BY <4>1, <4>2, Zenon DEF ParseJWT
    <3>4. ok \in BOOLEAN
      BY <3>3
    <3>5. CASE ok = TRUE
      BY <3>5
    <3>6. CASE ok = FALSE
      BY <3>2, <3>6, Zenon
    <3> QED
      BY <3>4, <3>5, <3>6
  <2>2. VerificationKeys(a, h.jwt) # {}
    BY <2>1 DEF ParseJWT
  <2>3. CASE h.jwt.alg = "HS256"
    BY <2>2, <2>3, KeysByAlgorithm DEF ValidateReadiness, a
  <2>4. CASE h.jwt.alg = "RS256"
    <3>1. Range(a.rsaKeys) # {} \/ DOMAIN a.rsaKeys # {}
      BY <2>2, <2>4 DEF VerificationKeys
    <3>2. DOMAIN a.rsaKeys # {}
      BY <3>1 DEF Range
    <3> QED
      BY <3>2 DEF ValidateReadiness, a
  <2>5. CASE h.jwt.alg \notin {"HS256", "RS256"}
    BY <2>2, <2>5 DEF VerificationKeys
  <2> QED
    BY <2>3, <2>4, <2>5
<1>5. CASE ~(h.kind = "token" /\ h.token \in DOMAIN a.apiTokens) /\ h.kind # "jwt"
  BY <1>2, <1>5, Zenon DEF Authenticate
<1> QED
  BY <1>3, <1>4, <1>5

(* GET /readyz against requireRole: a server in production reports that it *)
(* is ready exactly if there is a credential it would not turn away        *)
(* (server.go, readyz; auth.go, ValidateReadiness).                        *)
THEOREM ReadinessTheorem == AllCallers => (Spec => []ReadyIffServable)
<1> SUFFICES ASSUME AllCallers PROVE Spec => []ReadyIffServable
  OBVIOUS
<1>1. TypeOK /\ IInv => ReadyIffServable
  <2> SUFFICES ASSUME TypeOK, IInv, production
               PROVE  readyz(production, authenticator, TRUE, TRUE) = 200
                      <=> \E h \in Arriving, s \in {200, 403} :
                             s \in requireRole(production, authenticator, h, "admin", now + skew)
    BY DEF ReadyIffServable
  <2>1. readyz(production, authenticator, TRUE, TRUE) = 200
        <=> ValidateReadiness(authenticator)
    BY DEF readyz
  <2> QED
    <3>1. ValidateReadiness(authenticator)
          => \E h \in Arriving, s \in {200, 403} :
                s \in requireRole(production, authenticator, h, "admin", now + skew)
      BY ReadyIsServable DEF IInv
    <3>2. (\E h \in Arriving, s \in {200, 403} :
             s \in requireRole(production, authenticator, h, "admin", now + skew))
          => ValidateReadiness(authenticator)
      BY ServableIsReady
    <3> QED
      BY <2>1, <3>1, <3>2
<1> QED
  BY <1>1, Always, AuthTypes, PTL
=============================================================================
