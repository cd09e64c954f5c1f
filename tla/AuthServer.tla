----------------------------- MODULE AuthServer -----------------------------
(***************************************************************************)
(* One server, its Authenticator and a key set it is given, while tokens   *)
(* and keys are registered, requests arrive, time passes and the server is *)
(* started again.  Its clock may differ from that of the issuer.  runServe *)
(* uses NewAuthenticator only; the other operations of the Authenticator   *)
(* are those its tests call.                                               *)
(***************************************************************************)
EXTENDS Auth

CONSTANTS
    Configurations,  \* how the server may be started
    Arriving,        \* the Authorization headers that may come
    Endpoints,       \* the endpoints they are sent to
    Documents,       \* the JWKS documents there are
    Granted,         \* the roles an API token may be registered with
    MaxSkew,         \* how far the clocks differ at most
    MaxTime,         \* bound on the clock
    MaxChanges       \* bound on changes to keys and tokens and on restarts

ASSUME AuthServerAssumption ==
    /\ Configurations \subseteq
          [production : BOOLEAN, token : Tokens \cup {NoToken},
           secret : Secrets \cup {NoSecret}, issuer : Names \cup {NoName},
           audience : Names \cup {NoName}]
    /\ Arriving \subseteq Headers
    /\ Endpoints \subseteq DOMAIN RequiredRole
    /\ Documents \subseteq Seq(WebKeys)
    /\ Granted \subseteq Roles
    /\ MaxSkew \in Nat
    /\ MaxSkew <= Leeway
    /\ MaxTime \in Nat
    /\ MaxChanges \in Nat

VARIABLES
    production, authenticator,
    keySet,   \* a JWKSKeySet
    now,      \* the issuer's clock
    skew,     \* the server's clock minus the issuer's
    last,     \* the last request and the status it got
    changes

vars == <<production, authenticator, keySet, now, skew, last, changes>>

NoRequest == [header |-> [kind |-> "none"], endpoint |-> "readyz", status |-> 0]

(* A change between two requests.                                          *)
Change ==
    /\ last = NoRequest
    /\ changes < MaxChanges
    /\ changes' = changes + 1
    /\ UNCHANGED <<now, skew, last>>

Start(c) ==
    /\ production' = c.production
    /\ authenticator' = NewAuthenticator(c.token, c.secret, c.issuer, c.audience)

Restart ==
    /\ Change
    /\ \E c \in Configurations : Start(c)
    /\ UNCHANGED keySet

Register(a) ==
    /\ Change
    /\ authenticator' = a
    /\ UNCHANGED <<production, keySet>>

RegisterAPIToken ==
    \E t \in Tokens, r \in Granted :
        Register([authenticator EXCEPT !.apiTokens = With(@, Entry(t, r))])

RegisterRSAPublicKey ==
    \E kid \in Kids, k \in RSAKeys :
        Register([authenticator EXCEPT !.rsaKeys = With(@, Entry(kid, k))])

(* Mutant: the keys of the set replace those there.                        *)
WithJWKSOnly == Register([authenticator EXCEPT !.rsaKeys = keySet])

(* The keys of the set are copied: a later SetKey is not noticed.          *)
WithJWKS == Register([authenticator EXCEPT !.rsaKeys = With(@, keySet)])

KeySet(set) ==
    /\ Change
    /\ keySet' = set
    /\ UNCHANGED <<production, authenticator>>

Fetch == \E d \in Documents : KeySet(ParseJWKS(d))

SetKey == \E kid \in Kids, k \in RSAKeys : KeySet(With(keySet, Entry(kid, k)))

Request ==
    /\ last = NoRequest
    /\ \E h \in Arriving, e \in Endpoints :
          \E s \in requireRole(production, authenticator, h, RequiredRole[e], now + skew) :
              last' = [header |-> h, endpoint |-> e, status |-> s]
    /\ UNCHANGED <<production, authenticator, keySet, now, skew, changes>>

(* The answer is sent; what happens next no longer depends on it.          *)
Answer ==
    /\ last # NoRequest
    /\ last' = NoRequest
    /\ UNCHANGED <<production, authenticator, keySet, now, skew, changes>>

Tick ==
    /\ last = NoRequest
    /\ now < MaxTime
    /\ now' = now + 1
    /\ UNCHANGED <<production, authenticator, keySet, skew, last, changes>>

Init ==
    /\ \E c \in Configurations :
          /\ production = c.production
          /\ authenticator = NewAuthenticator(c.token, c.secret, c.issuer, c.audience)
    /\ keySet = Nothing
    /\ now = 0
    /\ skew \in -MaxSkew .. MaxSkew
    /\ last = NoRequest
    /\ changes = 0

Next ==
    \/ Restart \/ RegisterAPIToken \/ RegisterRSAPublicKey \/ WithJWKS \/ Fetch \/ SetKey
    \/ Request \/ Answer \/ Tick

Spec == Init /\ [][Next]_vars

-----------------------------------------------------------------------------
(* Properties.                                                             *)

Statuses == {200, 401, 403, 503}

(* Every variable has its type.                                            *)
TypeOK ==
    /\ production \in BOOLEAN
    /\ authenticator \in Authenticators
    /\ keySet \in PartialFunctions(Kids, RSAKeys)
    /\ now \in 0 .. MaxTime
    /\ skew \in -MaxSkew .. MaxSkew
    /\ last \in [header : Arriving \cup {NoRequest.header},
                 endpoint : Endpoints \cup {"readyz"}, status : Statuses \cup {0}]
    /\ changes \in 0 .. MaxChanges

(* The roles right below a role; whoever is authenticated may view.        *)
Below(role) ==
    CASE role = "admin" -> {"security-reviewer"}
      [] role = "security-reviewer" -> {"evaluator", "promoter", "auditor"}
      [] role = "viewer" -> {}
      [] OTHER -> {"viewer"}

(* jwks_test.go TestRBACHierarchy6Roles: a role covers those below it.     *)
Covers(role, required) ==
    \/ role = required
    \/ required \in Below(role)
    \/ \E r \in Below(role) :
          \/ required \in Below(r)
          \/ \E q \in Below(r) : required \in Below(q)

(* The claims of j hold at time t of the issuer, give or take slack.       *)
Lives(j, t, slack) ==
    /\ j.exp = 0 \/ t <= j.exp + slack
    /\ j.nbf = 0 \/ t + slack >= j.nbf

(* requireRole: a handler that runs was asked for with no credential on a  *)
(* server that is not in production, or with a registered token, or with a *)
(* token signed by a key that is installed and whose lifetime, by the      *)
(* clock of the issuer, is not over by more than the leeway and the skew   *)
(* of the clocks; and the role of the credential covers the endpoint's.    *)
OnlyTheEntitledAreServed ==
    LET h == last.header
        a == authenticator
        required == RequiredRole[last.endpoint]
    IN  last.status = 200 =>
          \/ h.kind = "none" /\ ~production
          \/ /\ h.kind = "token"
             /\ h.token \in DOMAIN a.apiTokens
             /\ Covers(a.apiTokens[h.token], required)
          \/ /\ h.kind = "jwt"
             /\ h.jwt.signer \in {a.hmacSecret} \cup Range(a.rsaKeys)
             /\ Lives(h.jwt, now, Leeway + MaxSkew)
             /\ Covers(ClaimedRole(h.jwt), required)

(* Clock skew and key rotation: as long as the clocks differ by at most    *)
(* the leeway, no credential is refused (401) that is registered or, by    *)
(* the clock of the issuer, alive, meant for this server and signed with   *)
(* the HMAC secret or the key installed under its kid.  A token that names *)
(* no installed kid has no such promise once there are several keys.       *)
NoFalseRefusals ==
    LET h == last.header
        a == authenticator
    IN  last.status = 401 =>
          /\ h.kind = "token" => h.token \notin DOMAIN a.apiTokens
          /\ h.kind = "jwt" =>
                ~(/\ Lives(h.jwt, now, 0)
                  /\ h.jwt.exp + Leeway <= MaxInt
                  /\ Expected(a, h.jwt)
                  /\ \/ h.jwt.alg = "HS256" /\ h.jwt.signer = a.hmacSecret
                     \/ /\ h.jwt.alg = "RS256"
                        /\ h.jwt.kid \in DOMAIN a.rsaKeys
                        /\ h.jwt.signer = a.rsaKeys[h.jwt.kid])

(* GET /readyz against requireRole: in production the server says that it  *)
(* is ready exactly if there is somebody it would not turn away.  Needs    *)
(* headers of every kind in Arriving.                                      *)
ReadyIffServable ==
    production =>
        (readyz(production, authenticator, TRUE, TRUE) = 200
         <=> \E h \in Arriving, s \in {200, 403} :
                s \in requireRole(production, authenticator, h, "admin", now + skew))

(* WithJWKS: taking over a key set changes nothing for the tokens of an    *)
(* installed key that the set does not republish: what was accepted before *)
(* the rotation is accepted after it, and what was refused is refused.     *)
RotationStrandsNoToken ==
    [][WithJWKS =>
          \A h \in Arriving, s \in Statuses :
              /\ h.kind = "jwt"
              /\ h.jwt.kid \in DOMAIN authenticator.rsaKeys \ DOMAIN keySet
              => (s \in requireRole(production, authenticator, h, "viewer", now + skew)
                  <=> s \in requireRole(production, authenticator', h, "viewer", now + skew))]_vars
=============================================================================
