--------------------------- MODULE AdmissionOrder ---------------------------
(***************************************************************************)
(* One artifact is evaluated again and again while its evidence gets worse *)
(* or older, the policy is made stricter and the store starts to report    *)
(* blocks or errors.  The variables are the inputs of Admission!Evaluate,  *)
(* the actions the ways in which its callers may change them for the worse.*)
(***************************************************************************)
EXTENDS Admission

CONSTANTS
    Start,       \* pairs of a policy and a request to start from
    TrustDir,    \* the files of the trust directory
    MaxChanges   \* bound on the changes made

ASSUME AdmissionOrderAssumption ==
    /\ \A s \in Start : s.policy \in Policies /\ s.request \in Requests
    /\ TrustDir \subseteq TrustFiles
    /\ MaxChanges \in Nat

VARIABLES policy, request, trustDir, revoked, quarantined, now, changes

vars == <<policy, request, trustDir, revoked, quarantined, now, changes>>

Outcome == Evaluate(policy, request, LoadFromDir(trustDir), revoked, quarantined,
                    now, now)

-----------------------------------------------------------------------------

Change == changes < MaxChanges /\ changes' = changes + 1

Evidence(r) == request' = r /\ UNCHANGED <<policy, trustDir, revoked, quarantined, now>>

WorseAssurance ==
    /\ Change
    /\ \/ Evidence([request EXCEPT !.evidenceFor = BadDigest])
       \/ \E q \in Providers \ {policy.provider} :
             Evidence([request EXCEPT !.provider = q])
       \/ \E v \in {w \in Versions : request.version # BadVersion
                                     /\ Compare(w, request.version) < 0} :
             Evidence([request EXCEPT !.version = v])
       \/ Evidence([request EXCEPT !.version = BadVersion])
       \/ \E c \in {0} \cup Times :
             c < request.completed /\ Evidence([request EXCEPT !.completed = c])
       \/ Evidence([request EXCEPT !.complete = FALSE])
       \/ Evidence([request EXCEPT !.passed = FALSE])

(* The payloads verify: without a bad one the next in order may do better. *)
Vouched ==
    LET roots == LoadFromDir(trustDir)
    IN  SignatureReasons(policy, request, roots, now)
            \o ProvenanceReasons(policy, request, roots, now) = <<>>

(* A payload is dropped, no longer genuine, about something else, or its   *)
(* certificate has other names or ends sooner.                             *)
WorsePayload ==
    /\ Change
    /\ \/ /\ Vouched
          /\ \/ \E f \in {"sigstore", "dsse", "github"} :
                   Evidence([request EXCEPT ![f] = Absent])
             \/ /\ request.sigstore # Absent
                /\ \E k \in Keys \ {request.sigstore.signedBy} :
                      Evidence([request EXCEPT !.sigstore.signedBy = k])
       \/ /\ request.sigstore # Absent
          /\ \/ Evidence([request EXCEPT !.sigstore.over = BadDigest])
             \/ Evidence([request EXCEPT !.sigstore.cert = BadPEM])
             \/ /\ request.sigstore.cert \notin {Absent, BadPEM}
                /\ \/ Evidence([request EXCEPT !.sigstore.cert.names = {}])
                   \/ \E t \in Times :
                         /\ t < request.sigstore.cert.notAfter
                         /\ Evidence([request EXCEPT !.sigstore.cert.notAfter = t])
       \/ /\ request.dsse # Absent
          /\ \/ Evidence([request EXCEPT !.dsse.inToto = FALSE])
             \/ \E k \in request.dsse.signers :
                   Evidence([request EXCEPT !.dsse.signers = @ \ {k}])
       \/ /\ request.github # Absent
          /\ \/ Evidence([request EXCEPT !.github.subject = BadDigest])
             \/ Evidence([request EXCEPT !.github.origin = FALSE])
             \/ Evidence([request EXCEPT !.github.cert = BadPEM])
             \/ /\ request.github.cert \notin {Absent, BadPEM}
                /\ Evidence([request EXCEPT !.github.cert.forServers = FALSE])

(* A file of the trust directory goes, and the program starts again.       *)
LessTrust ==
    /\ Change
    /\ \E f \in trustDir : trustDir' = trustDir \ {f}
    /\ UNCHANGED <<policy, request, revoked, quarantined, now>>

WorseSkill ==
    /\ Change
    /\ \/ \E k \in Risks \cup {"unknown"} :
             /\ riskRank(k) > riskRank(request.risk)
             /\ Evidence([request EXCEPT !.risk = k])
       \/ \E c \in Capabilities :
             Evidence([request EXCEPT !.capabilities = Append(@, c)])
       \/ \E c \in request.approvals :
             Evidence([request EXCEPT !.approvals = @ \ {c}])
       \/ \E a \in request.approvalRecords :
             Evidence([request EXCEPT !.approvalRecords = @ \ {a}])

Policy(p) == policy' = p /\ UNCHANGED <<request, trustDir, revoked, quarantined, now>>

StricterPolicy ==
    /\ Change
    /\ \/ \E e \in policy.environments :
             /\ policy.environments # {e}
             /\ Policy([policy EXCEPT !.environments = @ \ {e}])
       \/ \E v \in Versions :
             /\ Compare(v, policy.minimumVersion) > 0
             /\ Policy([policy EXCEPT !.minimumVersion = v])
       \/ \E a \in 0 .. MaxTime :
             /\ policy.maximumAge # NoMaxAge => a < policy.maximumAge
             /\ Policy([policy EXCEPT !.maximumAge = a])
       \/ \E f \in {"requireComplete", "signatures", "provenance"} :
             /\ f = "signatures" => policy.trustedIdentities # <<>>
             /\ Policy([policy EXCEPT ![f] = TRUE])
       \* the first one is the key of DSSE envelopes: without it the next is
       \/ \E i \in 2 .. Len(policy.trustedIdentities) :
             Policy([policy EXCEPT !.trustedIdentities = RemoveAt(@, i)])
       \/ \E k \in Risks :
             /\ riskRank(k) < riskRank(policy.maximumRisk)
             /\ Policy([policy EXCEPT !.maximumRisk = k])
       \/ \E c \in Capabilities, f \in {"deny", "approvalRequired"} :
             Policy([policy EXCEPT ![f] = @ \cup {c}])

(* A lookup finds the artifact blocked, or fails.                          *)
Blocked ==
    /\ Change
    /\ \/ /\ revoked = "no"
          /\ revoked' \in {"yes", "error"}
          /\ UNCHANGED quarantined
       \/ /\ quarantined = "no"
          /\ quarantined' \in {"yes", "error"}
          /\ UNCHANGED revoked
    /\ UNCHANGED <<policy, request, trustDir, now>>

Tick ==
    /\ now < MaxTime
    /\ now' = now + 1
    /\ UNCHANGED <<policy, request, trustDir, revoked, quarantined, changes>>

Init ==
    /\ \E s \in Start : policy = s.policy /\ request = s.request
    /\ trustDir = TrustDir
    /\ revoked = "no"
    /\ quarantined = "no"
    /\ now = 1
    /\ changes = 0

(* Both bounds are reached.                                                *)
Finished == changes = MaxChanges /\ now = MaxTime /\ UNCHANGED vars

Next == \/ WorseAssurance \/ WorsePayload \/ LessTrust \/ WorseSkill
        \/ StricterPolicy \/ Blocked \/ Tick \/ Finished

Spec == Init /\ [][Next]_vars

-----------------------------------------------------------------------------
(* README "Decision Model": a hard failure denies whatever else is wrong;  *)
(* without one, a missing approval asks for a review; without that, old    *)
(* evidence or an old provider asks for a reassessment.  Evaluate reaches  *)
(* its decision check by check, in an order of its own.                    *)
Reference ==
    LET reasons == Range(Reasons(policy, request, LoadFromDir(trustDir), revoked,
                                 quarantined, now, now))
        hard == reasons \ {"APPROVAL-REQUIRED", "ASSURANCE-VERSION", "ASSURANCE-STALE"}
    IN  IF hard # {} THEN "DENY"
        ELSE IF "APPROVAL-REQUIRED" \in reasons THEN "REVIEW"
        ELSE IF reasons # {} THEN "REASSESS" ELSE "ALLOW"

OutcomeIsTheWorst == Outcome = Reference

Rank(outcome) == [ALLOW |-> 0, REASSESS |-> 1, REVIEW |-> 2, DENY |-> 3][outcome]

(* Evaluate is monotone: worse evidence, a stricter policy, a revocation,  *)
(* a store that cannot answer and the passing of time never turn a         *)
(* decision into a more favourable one.                                    *)
NeverLoosens == [][Rank(Outcome') >= Rank(Outcome)]_vars
=============================================================================
