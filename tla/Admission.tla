----------------------------- MODULE Admission -----------------------------
(***************************************************************************)
(* internal/admission/evaluator.go: the decision on one request under one  *)
(* policy, with internal/policy and internal/semver as far as it uses      *)
(* them.                                                                   *)
(***************************************************************************)
EXTENDS Attestation, Integers

CONSTANTS
    Providers, Capabilities,
    MaxVersion,    \* bound on the three numbers of a semantic version
    BadVersion,    \* a version that semver.Parse refuses
    NoMaxAge,      \* the empty maximum_age
    Lifetime       \* how long a decision is valid: 24 hours

ASSUME AdmissionAssumption ==
    /\ MaxVersion \in Nat
    /\ BadVersion \notin (0 .. MaxVersion) \X (0 .. MaxVersion) \X (0 .. MaxVersion)
    /\ NoMaxAge \notin Nat
    /\ Lifetime \in Nat \ {0}

Versions == (0 .. MaxVersion) \X (0 .. MaxVersion) \X (0 .. MaxVersion)

Risks == {"low", "medium", "high", "critical"}

(* A policy that Validate accepts.                                         *)
Policies ==
    {p \in [environments : SUBSET Envs \ {{}}, provider : Providers,
            minimumVersion : Versions, maximumAge : Nat \cup {NoMaxAge},
            requireComplete : BOOLEAN, signatures : BOOLEAN,
            trustedIdentities : Seq(Identities), provenance : BOOLEAN,
            maximumRisk : Risks, deny : SUBSET Capabilities,
            approvalRequired : SUBSET Capabilities] :
        p.signatures => p.trustedIdentities # <<>>}

ApprovalRecords ==
    [digest : Digests, env : Envs \cup {AnyEnv}, capability : Capabilities,
     expires : {0} \cup Times]

(* An evaluation request; completed = 0 is Go's zero time.                 *)
Requests ==
    [digest : Digests \cup {BadDigest}, env : Envs,
     evidenceFor : Digests \cup {BadDigest}, provider : Providers,
     version : Versions \cup {BadVersion}, completed : {0} \cup Times,
     complete : BOOLEAN, passed : BOOLEAN,
     sigstore : SigstoreBundles \cup {Absent}, dsse : DSSEEnvelopes \cup {Absent},
     github : GitHubAttestations \cup {Absent},
     risk : Risks \cup {"unknown"}, capabilities : Seq(Capabilities),
     approvals : SUBSET Capabilities, approvalRecords : SUBSET ApprovalRecords]

-----------------------------------------------------------------------------
(* semver.Compare: the first of major, minor, patch that differs decides.  *)
Compare(a, b) ==
    LET differ == {i \in 1 .. 3 : a[i] # b[i]}
    IN  IF differ = {} THEN 0
        ELSE IF a[Min(differ)] < b[Min(differ)] THEN -1 ELSE 1

riskRank(risk) ==
    CASE risk = "low" -> 1 [] risk = "medium" -> 2 [] risk = "high" -> 3
      [] risk = "critical" -> 4 [] OTHER -> 99

(* Mutants: the later finding replaces the earlier, more severe one.       *)
reviewAnyway(d)   == "REVIEW"
reassessAnyway(d) == "REASSESS"

(* The closures deny, review and reassess: what each makes of the decision *)
(* reached so far.                                                         *)
deny(d)     == "DENY"
review(d)   == IF d # "DENY" THEN "REVIEW" ELSE d
reassess(d) == IF d \notin {"DENY", "REVIEW"} THEN "REASSESS" ELSE d

(* The closure each reason code is raised with.                            *)
Raise(d, code) ==
    IF code \in {"ASSURANCE-VERSION", "ASSURANCE-STALE"} THEN reassess(d)
    ELSE IF code = "APPROVAL-REQUIRED" THEN review(d)
    ELSE deny(d)

-----------------------------------------------------------------------------

If(condition, code) == IF condition THEN <<code>> ELSE <<>>

(* What a lookup of the store answered: "no", "yes" or "error".            *)
Lookup(answer, hit, unavailable) ==
    If(answer = "error", unavailable) \o If(answer = "yes", hit)

AssuranceReasons(p, r, t) ==
       If(r.provider # p.provider, "ASSURANCE-PROVIDER")
    \o If(\/ r.version = BadVersion
          \/ Compare(r.version, p.minimumVersion) < 0, "ASSURANCE-VERSION")
    \o If(p.requireComplete /\ ~r.complete, "ASSURANCE-INCOMPLETE")
    \o If(~r.passed, "ASSURANCE-FAILED")
    \o If(/\ p.maximumAge # NoMaxAge
          /\ r.completed = 0 \/ t - r.completed > p.maximumAge, "ASSURANCE-STALE")

(* A Sigstore bundle is preferred to a DSSE envelope, of which the first   *)
(* trusted identity must be the key.                                       *)
SignatureReasons(p, r, roots, t) ==
    IF ~p.signatures THEN <<>>
    ELSE IF r.sigstore # Absent
    THEN If(~VerifySigstore(r.sigstore, r.digest, p.trustedIdentities, roots, t),
            "SIGSTORE-INVALID")
    ELSE IF r.dsse # Absent /\ p.trustedIdentities # <<>>
    THEN If(~VerifyDSSE(r.dsse, Head(p.trustedIdentities)), "DSSE-INVALID")
    ELSE <<"SIGNATURE-UNVERIFIED">>

(* Of a DSSE envelope only the payload type counts here.                   *)
ProvenanceReasons(p, r, roots, t) ==
    IF ~p.provenance THEN <<>>
    ELSE IF r.github # Absent
    THEN If(~VerifyGitHubAttestation(r.github, r.digest, roots, t), "PROVENANCE-INVALID")
    ELSE IF r.dsse # Absent THEN If(~r.dsse.inToto, "PROVENANCE-INVALID")
    ELSE <<"PROVENANCE-UNVERIFIED">>

Approved(r, cap, t) ==
    \/ cap \in r.approvals
    \/ \E a \in r.approvalRecords :
          /\ a.capability = cap
          /\ AppliesTo(a, r.digest, r.env)
          /\ a.expires = 0 \/ t < a.expires

CapabilityReasons(p, r, t) ==
    FlattenSeq([i \in DOMAIN r.capabilities |->
        LET cap == r.capabilities[i]
        IN     If(cap \in p.deny, "CAPABILITY-DENIED")
            \o If(cap \in p.approvalRequired /\ ~Approved(r, cap, t),
                  "APPROVAL-REQUIRED")])

(* The reasons Evaluate collects, in the order of its checks.              *)
Reasons(p, r, roots, revoked, quarantined, t, clock) ==
       If(r.digest = BadDigest, "SUBJECT-DIGEST-INVALID")
    \o If(r.evidenceFor # r.digest, "EVIDENCE-SUBJECT-MISMATCH")
    \o Lookup(revoked, "DIGEST-REVOKED", "REVOCATION-STATE-UNAVAILABLE")
    \o Lookup(quarantined, "DIGEST-QUARANTINED", "QUARANTINE-STATE-UNAVAILABLE")
    \o If(r.env \notin p.environments, "ENVIRONMENT-DENIED")
    \o AssuranceReasons(p, r, t)
    \o SignatureReasons(p, r, roots, clock)
    \o ProvenanceReasons(p, r, roots, clock)
    \o If(riskRank(r.risk) > riskRank(p.maximumRisk), "RISK-TOO-HIGH")
    \o CapabilityReasons(p, r, t)

(* Evaluate, begun at time t, with the answers of the two lookups.  The    *)
(* Verifier reads the clock for itself, after the lookups.                 *)
Evaluate(p, r, roots, revoked, quarantined, t, clock) ==
    FoldLeft(Raise, "ALLOW", Reasons(p, r, roots, revoked, quarantined, t, clock))

(* The request runReassess makes up for an old decision on digest d.       *)
Reassessment(p, d, e, t) ==
    [digest |-> d, env |-> e, evidenceFor |-> d, provider |-> p.provider,
     version |-> p.minimumVersion, completed |-> t,
     complete |-> TRUE, passed |-> TRUE,
     sigstore |-> Absent, dsse |-> Absent, github |-> Absent,
     risk |-> "low", capabilities |-> <<>>, approvals |-> {}, approvalRecords |-> {}]
=============================================================================
