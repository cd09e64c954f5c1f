-------------------------- MODULE AdmissionProofs --------------------------
(***************************************************************************)
(* Theorems about AdmissionOrder: for every pair of a policy and a request *)
(* to start from and whatever gets worse of them afterwards.               *)
(***************************************************************************)
EXTENDS AdmissionOrder, EvaluateProofs

(* The inputs of Evaluate keep their types.                                *)
Typed == policy \in Policies /\ request \in Requests /\ now \in Times

LEMMA InitTyped == Init => Typed
  BY AdmissionOrderAssumption, RecordsAssumption DEF Init, Typed, Times

LEMMA AssuranceTyped == ASSUME Typed, WorseAssurance PROVE request' \in Requests
<1>1. CASE \E v \in {w \in Versions : request.version # BadVersion
                                     /\ Compare(w, request.version) < 0} :
             Evidence([request EXCEPT !.version = v])
  <2>1. PICK v \in Versions : request' = [request EXCEPT !.version = v]
    BY <1>1 DEF Evidence
  <2> QED
    BY <2>1 DEF Typed, Requests
<1>2. CASE \/ Evidence([request EXCEPT !.evidenceFor = BadDigest])
           \/ \E q \in Providers : Evidence([request EXCEPT !.provider = q])
           \/ Evidence([request EXCEPT !.version = BadVersion])
  BY <1>2 DEF Typed, Evidence, Requests
<1>3. CASE \E c \in {0} \cup Times : Evidence([request EXCEPT !.completed = c])
  <2>1. PICK c \in {0} \cup Times : request' = [request EXCEPT !.completed = c]
    BY <1>3 DEF Evidence
  <2> QED
    BY <2>1 DEF Typed, Requests
<1>4. CASE \/ Evidence([request EXCEPT !.complete = FALSE])
           \/ Evidence([request EXCEPT !.passed = FALSE])
  BY <1>4 DEF Typed, Evidence, Requests
<1> QED
  BY <1>1, <1>2, <1>3, <1>4 DEF WorseAssurance

(* A sigstore bundle or GitHub attestation that is there is one.           *)
LEMMA Payloads ==
    ASSUME Typed
    PROVE  /\ request.sigstore # Absent => request.sigstore \in SigstoreBundles
           /\ request.dsse # Absent => request.dsse \in DSSEEnvelopes
           /\ request.github # Absent => request.github \in GitHubAttestations
           /\ request.sigstore # Absent /\ request.sigstore.cert \notin {Absent, BadPEM}
                 => request.sigstore.cert \in Certificates
           /\ request.github # Absent /\ request.github.cert \notin {Absent, BadPEM}
                 => request.github.cert \in Certificates
  BY DEF Typed, Requests, SigstoreBundles, GitHubAttestations

LEMMA PayloadTyped == ASSUME Typed, WorsePayload PROVE request' \in Requests
<1>1. ASSUME NEW x \in SigstoreBundles \cup {Absent}, request' = [request EXCEPT !.sigstore = x]
      PROVE  request' \in Requests
  BY <1>1 DEF Typed, Requests
<1>2. ASSUME NEW x \in DSSEEnvelopes \cup {Absent}, request' = [request EXCEPT !.dsse = x]
      PROVE  request' \in Requests
  BY <1>2 DEF Typed, Requests
<1>3. ASSUME NEW x \in GitHubAttestations \cup {Absent}, request' = [request EXCEPT !.github = x]
      PROVE  request' \in Requests
  BY <1>3 DEF Typed, Requests
<1>4. CASE \E f \in {"sigstore", "dsse", "github"} : Evidence([request EXCEPT ![f] = Absent])
  BY <1>1, <1>2, <1>3, <1>4 DEF Evidence
<1>5. CASE /\ request.sigstore # Absent
           /\ \/ \E k \in Keys : Evidence([request EXCEPT !.sigstore.signedBy = k])
              \/ Evidence([request EXCEPT !.sigstore.over = BadDigest])
              \/ Evidence([request EXCEPT !.sigstore.cert = BadPEM])
  <2>1. PICK x \in SigstoreBundles : request' = [request EXCEPT !.sigstore = x]
    BY <1>5, Payloads DEF Evidence, SigstoreBundles
  <2> QED
    BY <1>1, <2>1
<1>6. CASE /\ request.sigstore # Absent
           /\ request.sigstore.cert \notin {Absent, BadPEM}
           /\ \/ Evidence([request EXCEPT !.sigstore.cert.names = {}])
              \/ \E t \in Times : Evidence([request EXCEPT !.sigstore.cert.notAfter = t])
  <2>1. request.sigstore.cert \in Certificates /\ request.sigstore \in SigstoreBundles
    BY <1>6, Payloads
  <2>2. PICK x : /\ x \in Certificates
                 /\ request' = [request EXCEPT !.sigstore = [request.sigstore EXCEPT !.cert = x]]
    BY <1>6, <2>1 DEF Evidence, Certificates
  <2>3. [request.sigstore EXCEPT !.cert = x] \in SigstoreBundles
    BY <2>1, <2>2 DEF SigstoreBundles
  <2> QED
    BY <1>1, <2>2, <2>3
<1>7. CASE /\ request.dsse # Absent
           /\ \/ Evidence([request EXCEPT !.dsse.inToto = FALSE])
              \/ \E k \in request.dsse.signers :
                    Evidence([request EXCEPT !.dsse.signers = @ \ {k}])
  <2>1. PICK x \in DSSEEnvelopes : request' = [request EXCEPT !.dsse = x]
    BY <1>7, Payloads DEF Evidence, DSSEEnvelopes
  <2> QED
    BY <1>2, <2>1
<1>8. CASE /\ request.github # Absent
           /\ \/ Evidence([request EXCEPT !.github.subject = BadDigest])
              \/ Evidence([request EXCEPT !.github.origin = FALSE])
              \/ Evidence([request EXCEPT !.github.cert = BadPEM])
  <2>1. PICK x \in GitHubAttestations : request' = [request EXCEPT !.github = x]
    BY <1>8, Payloads DEF Evidence, GitHubAttestations
  <2> QED
    BY <1>3, <2>1
<1>9. CASE /\ request.github # Absent
           /\ request.github.cert \notin {Absent, BadPEM}
           /\ Evidence([request EXCEPT !.github.cert.forServers = FALSE])
  <2>1. request.github.cert \in Certificates /\ request.github \in GitHubAttestations
    BY <1>9, Payloads
  <2>2. PICK x : /\ x \in Certificates
                 /\ request' = [request EXCEPT !.github = [request.github EXCEPT !.cert = x]]
    BY <1>9, <2>1 DEF Evidence, Certificates
  <2>3. [request.github EXCEPT !.cert = x] \in GitHubAttestations
    BY <2>1, <2>2 DEF GitHubAttestations
  <2> QED
    BY <1>3, <2>2, <2>3
<1> QED
  BY <1>4, <1>5, <1>6, <1>7, <1>8, <1>9 DEF WorsePayload

LEMMA SkillTyped == ASSUME Typed, WorseSkill PROVE request' \in Requests
  BY DEF Typed, WorseSkill, Evidence, Requests

(* One element after the first is left out.                                *)
LEMMA LeftOut ==
    ASSUME NEW A, NEW s \in Seq(A), NEW i \in 2 .. Len(s)
    PROVE  /\ RemoveAt(s, i) \in Seq(A)
           /\ RemoveAt(s, i) # <<>> /\ s # <<>>
           /\ Head(RemoveAt(s, i)) = Head(s)
           /\ \A j \in DOMAIN RemoveAt(s, i) :
                 \E k \in DOMAIN s : RemoveAt(s, i)[j] = s[k]
<1> DEFINE a == SubSeq(s, 1, i - 1)
           b == SubSeq(s, i + 1, Len(s))
           n == Len(s)
<1>1. /\ n \in Nat /\ i - 1 \in 1 .. n /\ i + 1 \in Nat /\ i \in 2 .. n
      /\ DOMAIN s = 1 .. n
  OBVIOUS
<1>2. /\ a \in Seq(A) /\ Len(a) = i - 1
      /\ \A j \in 1 .. i - 1 : a[j] = s[j]
  BY <1>1
<1>3. /\ b \in Seq(A) /\ Len(b) = n - i
      /\ \A j \in 1 .. n - i : b[j] = s[i + j]
  <2>1. /\ i + 1 \in Int /\ n \in Int /\ \A j \in i + 1 .. n : s[j] \in A
    BY <1>1
  <2> HIDE DEF n
  <2>2. /\ n - (i + 1) + 1 = n - i /\ (i + 1 <= n \/ n - i = 0)
        /\ \A j \in 1 .. n - i : i + 1 + j - 1 = i + j
    BY ONLY <1>1
  <2>3. /\ SubSeq(s, i + 1, n) \in Seq(A)
        /\ Len(SubSeq(s, i + 1, n)) = IF i + 1 <= n THEN n - (i + 1) + 1 ELSE 0
        /\ \A j \in 1 .. n - (i + 1) + 1 : SubSeq(s, i + 1, n)[j] = s[i + 1 + j - 1]
    BY <2>1, SubSeqProperties
  <2> QED
    BY <2>1, <2>2, <2>3 DEF n
<1>4. PICK c \in Seq(A) :
         /\ c = a \o b /\ Len(c) = n - 1
         /\ \A j \in 1 .. i - 1 : c[j] = s[j]
         /\ \A j \in i .. n - 1 : c[j] = s[j + 1]
  <2> HIDE DEF a, b, n
  <2>1. a \o b \in Seq(A) /\ Len(a \o b) = n - 1
    <3>1. a \o b \in Seq(A) /\ Len(a \o b) = Len(a) + Len(b)
      BY <1>2, <1>3, ConcatProperties
    <3> QED
      BY <1>1, <1>2, <1>3, <3>1
  <2>2. ASSUME NEW j \in 1 .. i - 1 PROVE (a \o b)[j] = s[j]
    BY <1>1, <1>2, <1>3
  <2>3. ASSUME NEW j \in i .. n - 1 PROVE (a \o b)[j] = s[j + 1]
    <3>1. (a \o b)[j] = b[j - (i - 1)] /\ j - (i - 1) \in 1 .. n - i
      BY <1>1, <1>2, <1>3
    <3> QED
      BY <1>1, <1>3, <3>1
  <2> QED
    BY <2>1, <2>2, <2>3
<1>5. RemoveAt(s, i) = c
  BY <1>4 DEF RemoveAt
<1> HIDE DEF a, b, n
<1>6. c # <<>> /\ s # <<>> /\ Head(c) = Head(s)
  BY <1>1, <1>4 DEF n
<1>7. ASSUME NEW j \in DOMAIN c PROVE \E k \in DOMAIN s : c[j] = s[k]
  <2>1. j \in 1 .. n - 1
    BY <1>1, <1>4
  <2>2. CASE j \in 1 .. i - 1
    BY <1>1, <1>4, <2>2
  <2>3. CASE j \in i .. n - 1
    <3>1. c[j] = s[j + 1] /\ j + 1 \in DOMAIN s
      BY <1>1, <1>4, <2>3
    <3> QED
      BY <3>1
  <2> QED
    BY <1>1, <2>1, <2>2, <2>3
<1> QED
  BY <1>5, <1>6, <1>7

LEMMA PolicyTyped == ASSUME Typed, StricterPolicy PROVE policy' \in Policies
<1>1. ASSUME NEW i \in 2 .. Len(policy.trustedIdentities),
             policy' = [policy EXCEPT !.trustedIdentities = RemoveAt(@, i)]
      PROVE  policy' \in Policies
  <2>1. policy.trustedIdentities \in Seq(Identities)
    BY DEF Typed, Policies
  <2>2. /\ RemoveAt(policy.trustedIdentities, i) \in Seq(Identities)
        /\ RemoveAt(policy.trustedIdentities, i) # <<>>
    BY <2>1, LeftOut
  <2> QED
    BY <1>1, <2>2 DEF Typed, Policies
<1>2. CASE \E i \in 2 .. Len(policy.trustedIdentities) :
             Policy([policy EXCEPT !.trustedIdentities = RemoveAt(@, i)])
  BY <1>1, <1>2 DEF Policy
<1>3. CASE \/ \E e \in policy.environments :
                 /\ policy.environments # {e}
                 /\ Policy([policy EXCEPT !.environments = @ \ {e}])
           \/ \E v \in Versions : Policy([policy EXCEPT !.minimumVersion = v])
           \/ \E a \in 0 .. MaxTime : Policy([policy EXCEPT !.maximumAge = a])
  BY <1>3, RecordsAssumption DEF Typed, Policy, Policies
<1>4. CASE \E f \in {"requireComplete", "signatures", "provenance"} :
             /\ f = "signatures" => policy.trustedIdentities # <<>>
             /\ Policy([policy EXCEPT ![f] = TRUE])
  BY <1>4 DEF Typed, Policy, Policies
<1>5. CASE \/ \E k \in Risks : Policy([policy EXCEPT !.maximumRisk = k])
           \/ \E c \in Capabilities, f \in {"deny", "approvalRequired"} :
                 Policy([policy EXCEPT ![f] = @ \cup {c}])
  BY <1>5 DEF Typed, Policy, Policies
<1> QED
  BY <1>2, <1>3, <1>4, <1>5 DEF StricterPolicy

LEMMA StepKeepsTyped == Typed /\ [Next]_vars => Typed'
<1> SUFFICES ASSUME Typed, [Next]_vars PROVE Typed'
  OBVIOUS
<1>1. CASE WorseAssurance
  BY <1>1, AssuranceTyped DEF Typed, WorseAssurance, Evidence
<1>2. CASE WorsePayload
  BY <1>2, PayloadTyped DEF Typed, WorsePayload, Evidence
<1>3. CASE WorseSkill
  BY <1>3, SkillTyped DEF Typed, WorseSkill, Evidence
<1>4. CASE StricterPolicy
  BY <1>4, PolicyTyped DEF Typed, StricterPolicy, Policy
<1>5. CASE Tick
  BY <1>5, RecordsAssumption DEF Typed, Tick, Times
<1>6. CASE LessTrust \/ Blocked \/ Finished \/ UNCHANGED vars
  BY <1>6 DEF Typed, LessTrust, Blocked, Finished, vars
<1> QED
  BY <1>1, <1>2, <1>3, <1>4, <1>5, <1>6 DEF Next

LEMMA AlwaysTyped == Spec => []Typed
  BY InitTyped, StepKeepsTyped, PTL DEF Spec

(* The decision is the worst of what is wrong, in README's order of DENY,  *)
(* REVIEW, REASSESS and ALLOW, whatever the order of the checks            *)
(* (evaluator.go, Evaluate).                                               *)
THEOREM TheWorstDecides == Spec => []OutcomeIsTheWorst
<1>1. Typed => OutcomeIsTheWorst
  <2> SUFFICES ASSUME Typed PROVE OutcomeIsTheWorst
    OBVIOUS
  <2>1. request.capabilities \in Seq(Capabilities)
    BY DEF Typed, Requests
  <2>2. Outcome = Worst(Range(Reasons(policy, request, LoadFromDir(trustDir), revoked,
                                      quarantined, now, now)))
    BY <2>1, EvaluateIsTheWorst DEF Outcome
  <2> QED
    BY <2>2, Zenon DEF OutcomeIsTheWorst, Reference, Worst
<1> QED
  BY AlwaysTyped, <1>1, PTL
-----------------------------------------------------------------------------
(* Evaluate is monotone.                                                   *)

(* Compare is the lexicographic order.                                     *)
LEMMA CompareIs ==
    ASSUME NEW a \in Versions, NEW b \in Versions
    PROVE  Compare(a, b) = IF a[1] # b[1] THEN (IF a[1] < b[1] THEN -1 ELSE 1)
                           ELSE IF a[2] # b[2] THEN (IF a[2] < b[2] THEN -1 ELSE 1)
                           ELSE IF a[3] # b[3] THEN (IF a[3] < b[3] THEN -1 ELSE 1)
                           ELSE 0
<1> DEFINE differ == {i \in 1 .. 3 : a[i] # b[i]}
<1>1. Compare(a, b) = IF differ = {} THEN 0
                      ELSE IF a[Min(differ)] < b[Min(differ)] THEN -1 ELSE 1
  BY Zenon DEF Compare
<1>2. ASSUME NEW m \in differ, \A y \in differ : m <= y
      PROVE  Min(differ) = m
  <2>1. \E x \in differ : \A y \in differ : x <= y
    BY <1>2
  <2>2. Min(differ) \in differ /\ \A y \in differ : Min(differ) <= y
    BY <2>1, Zenon DEF Min
  <2> QED
    BY <1>2, <2>2
<1>3. CASE a[1] # b[1]
  <2>1. 1 \in differ /\ \A y \in differ : 1 <= y
    BY <1>3
  <2>2. Min(differ) = 1 /\ differ # {}
    BY <2>1, <1>2
  <2> QED
    BY <1>1, <1>3, <2>2
<1>4. CASE a[1] = b[1] /\ a[2] # b[2]
  <2>1. 2 \in differ /\ \A y \in differ : 2 <= y
    BY <1>4
  <2>2. Min(differ) = 2 /\ differ # {}
    BY <2>1, <1>2
  <2> QED
    BY <1>1, <1>4, <2>2
<1>5. CASE a[1] = b[1] /\ a[2] = b[2] /\ a[3] # b[3]
  <2>1. 3 \in differ /\ \A y \in differ : 3 <= y
    BY <1>5
  <2>2. Min(differ) = 3 /\ differ # {}
    BY <2>1, <1>2
  <2> QED
    BY <1>1, <1>5, <2>2
<1>6. CASE a[1] = b[1] /\ a[2] = b[2] /\ a[3] = b[3]
  <2>1. differ = {}
    BY <1>6
  <2> QED
    BY <1>1, <1>6, <2>1
<1> QED
  BY <1>3, <1>4, <1>5, <1>6

LexLess(x1, x2, x3, y1, y2, y3) ==
    \/ x1 < y1
    \/ x1 = y1 /\ x2 < y2
    \/ x1 = y1 /\ x2 = y2 /\ x3 < y3

LEMMA CompareSigns ==
    ASSUME NEW a \in Versions, NEW b \in Versions
    PROVE  /\ Compare(a, b) < 0 <=> LexLess(a[1], a[2], a[3], b[1], b[2], b[3])
           /\ Compare(a, b) > 0 <=> LexLess(b[1], b[2], b[3], a[1], a[2], a[3])
<1>1. \A v \in Versions : v[1] \in Int /\ v[2] \in Int /\ v[3] \in Int
  BY AdmissionAssumption DEF Versions
<1>2. PICK x1 \in Int, x2 \in Int, x3 \in Int : x1 = a[1] /\ x2 = a[2] /\ x3 = a[3]
  BY <1>1
<1>3. PICK y1 \in Int, y2 \in Int, y3 \in Int : y1 = b[1] /\ y2 = b[2] /\ y3 = b[3]
  BY <1>1
<1>4. Compare(a, b) = IF x1 # y1 THEN (IF x1 < y1 THEN -1 ELSE 1)
                      ELSE IF x2 # y2 THEN (IF x2 < y2 THEN -1 ELSE 1)
                      ELSE IF x3 # y3 THEN (IF x3 < y3 THEN -1 ELSE 1)
                      ELSE 0
  BY <1>2, <1>3, CompareIs, Zenon
<1>5. /\ Compare(a, b) < 0 <=> LexLess(x1, x2, x3, y1, y2, y3)
      /\ Compare(a, b) > 0 <=> LexLess(y1, y2, y3, x1, x2, x3)
  BY <1>4 DEF LexLess
<1> QED
  BY <1>2, <1>3, <1>5, Zenon

LEMMA CompareTransitive ==
    ASSUME NEW a \in Versions, NEW b \in Versions, NEW c \in Versions
    PROVE  /\ Compare(a, b) < 0 /\ Compare(b, c) < 0 => Compare(a, c) < 0
           /\ Compare(c, b) > 0 /\ Compare(a, b) < 0 => Compare(a, c) < 0
<1>1. /\ Compare(a, b) < 0 <=> LexLess(a[1], a[2], a[3], b[1], b[2], b[3])
      /\ Compare(b, c) < 0 <=> LexLess(b[1], b[2], b[3], c[1], c[2], c[3])
      /\ Compare(a, c) < 0 <=> LexLess(a[1], a[2], a[3], c[1], c[2], c[3])
      /\ Compare(c, b) > 0 <=> LexLess(b[1], b[2], b[3], c[1], c[2], c[3])
  BY CompareSigns, Zenon
<1>2. \A v \in Versions : v[1] \in Int /\ v[2] \in Int /\ v[3] \in Int
  BY AdmissionAssumption DEF Versions
<1>3. \A x1, x2, x3, y1, y2, y3, z1, z2, z3 \in Int :
         LexLess(x1, x2, x3, y1, y2, y3) /\ LexLess(y1, y2, y3, z1, z2, z3)
         => LexLess(x1, x2, x3, z1, z2, z3)
  BY DEF LexLess
<1>4. /\ a[1] \in Int /\ a[2] \in Int /\ a[3] \in Int
      /\ b[1] \in Int /\ b[2] \in Int /\ b[3] \in Int
      /\ c[1] \in Int /\ c[2] \in Int /\ c[3] \in Int
  BY <1>2
<1>5. /\ LexLess(a[1], a[2], a[3], b[1], b[2], b[3]) /\ LexLess(b[1], b[2], b[3], c[1], c[2], c[3])
         => LexLess(a[1], a[2], a[3], c[1], c[2], c[3])
  BY ONLY <1>3, <1>4
<1> QED
  BY <1>1, <1>5, Zenon

Soft == {"APPROVAL-REQUIRED", "ASSURANCE-VERSION", "ASSURANCE-STALE"}

(* More reasons, or a hard one.                                            *)
LEMMA HarderRanks ==
    ASSUME NEW R, NEW S, R \subseteq S \/ S \ Soft # {}
    PROVE  Rank(Worst(S)) >= Rank(Worst(R))
<1>1. Rank("ALLOW") = 0 /\ Rank("REASSESS") = 1 /\ Rank("REVIEW") = 2 /\ Rank("DENY") = 3
  BY DEF Rank
<1>2. Worst(R) \in {"ALLOW", "REASSESS", "REVIEW", "DENY"}
  BY DEF Worst
<1>3. CASE S \ Soft # {}
  BY <1>1, <1>2, <1>3 DEF Worst, Soft
<1>4. CASE R \subseteq S
  BY <1>1, <1>4 DEF Worst
<1> QED
  BY <1>3, <1>4

(* The causes that Evaluate finds.                                         *)
Cause(c) ==
    \/ OtherCause(c, policy, request, revoked, quarantined)
    \/ AssuranceCause(c, policy, request, now)
    \/ SignatureCause(c, policy, request, LoadFromDir(trustDir), now)
    \/ ProvenanceCause(c, policy, request, LoadFromDir(trustDir), now)
    \/ CapabilityCause(c, policy, request, now)

Hardens == \/ \A c : Cause(c) => Cause(c)'
           \/ \E c : Cause(c)' /\ c \notin Soft

LEMMA HardensRanks ==
    ASSUME Typed, Typed', Hardens
    PROVE  Rank(Outcome') >= Rank(Outcome)
<1> DEFINE R == Range(Reasons(policy, request, LoadFromDir(trustDir), revoked,
                              quarantined, now, now))
<1>1. request.capabilities \in Seq(Capabilities) /\ request'.capabilities \in Seq(Capabilities)
  BY DEF Typed, Requests
<1>2. Outcome = Worst(R) /\ Outcome' = Worst(R')
  BY <1>1, EvaluateIsTheWorst DEF Outcome
<1>3. \A c : (c \in R <=> Cause(c)) /\ (c \in R' <=> Cause(c)')
  BY <1>1, EveryReasonHasItsCause, Zenon DEF Cause
<1>4. R \subseteq R' \/ R' \ Soft # {}
  BY <1>3 DEF Hardens
<1> HIDE DEF R
<1> QED
  BY <1>2, <1>4, HarderRanks
(* The causes of each kind remain.                                         *)
OtherRemain ==
    \A c : OtherCause(c, policy, request, revoked, quarantined)
           => OtherCause(c, policy', request', revoked', quarantined')
AssuranceRemain ==
    \A c : AssuranceCause(c, policy, request, now)
           => AssuranceCause(c, policy', request', now')
SignatureRemain ==
    \A c : SignatureCause(c, policy, request, LoadFromDir(trustDir), now)
           => SignatureCause(c, policy', request', LoadFromDir(trustDir'), now')
ProvenanceRemain ==
    \A c : ProvenanceCause(c, policy, request, LoadFromDir(trustDir), now)
           => ProvenanceCause(c, policy', request', LoadFromDir(trustDir'), now')
CapabilityRemain ==
    \A c : CapabilityCause(c, policy, request, now)
           => CapabilityCause(c, policy', request', now')

LEMMA AllRemain ==
    ASSUME OtherRemain, AssuranceRemain, SignatureRemain, ProvenanceRemain, CapabilityRemain
    PROVE  Hardens
  BY Zenon DEF Hardens, Cause, OtherRemain, AssuranceRemain, SignatureRemain,
               ProvenanceRemain, CapabilityRemain

(* The fields each kind of cause rests on.                                 *)
Same(old, new, fields) == \A f \in fields : new[f] = old[f]

LEMMA OtherKept ==
    ASSUME Same(request, request', {"digest", "env", "evidenceFor", "risk"}),
           Same(policy, policy', {"environments", "maximumRisk"}),
           UNCHANGED <<revoked, quarantined>>
    PROVE  OtherRemain
  BY DEF Same, OtherRemain, OtherCause

LEMMA AssuranceKept ==
    ASSUME Same(request, request', {"provider", "version", "completed", "complete", "passed"}),
           Same(policy, policy', {"provider", "minimumVersion", "maximumAge", "requireComplete"}),
           UNCHANGED now
    PROVE  AssuranceRemain
  BY DEF Same, AssuranceRemain, AssuranceCause

LEMMA SignatureKept ==
    ASSUME Same(request, request', {"digest", "sigstore", "dsse"}),
           Same(policy, policy', {"signatures", "trustedIdentities"}),
           UNCHANGED <<trustDir, now>>
    PROVE  SignatureRemain
  BY DEF Same, SignatureRemain, SignatureCause

LEMMA ProvenanceKept ==
    ASSUME Same(request, request', {"digest", "dsse", "github"}),
           Same(policy, policy', {"provenance"}),
           UNCHANGED <<trustDir, now>>
    PROVE  ProvenanceRemain
  BY DEF Same, ProvenanceRemain, ProvenanceCause

LEMMA CapabilityKept ==
    ASSUME Same(request, request',
                {"digest", "env", "capabilities", "approvals", "approvalRecords"}),
           Same(policy, policy', {"deny", "approvalRequired"}),
           UNCHANGED now
    PROVE  CapabilityRemain
  BY DEF Same, CapabilityRemain, CapabilityCause, Approved, AppliesTo

RequestFields ==
    {"digest", "env", "evidenceFor", "provider", "version", "completed", "complete", "passed",
     "sigstore", "dsse", "github", "risk", "capabilities", "approvals", "approvalRecords"}

PolicyFields ==
    {"environments", "provider", "minimumVersion", "maximumAge", "requireComplete", "signatures",
     "trustedIdentities", "provenance", "maximumRisk", "deny", "approvalRequired"}

LEMMA OneOfRequest ==
    ASSUME Typed, NEW f \in RequestFields, NEW x, request' = [request EXCEPT ![f] = x]
    PROVE  request'[f] = x /\ Same(request, request', RequestFields \ {f})
  BY DEF Typed, Requests, RequestFields, Same

LEMMA OneOfPolicy ==
    ASSUME Typed, NEW f \in PolicyFields, NEW x, policy' = [policy EXCEPT ![f] = x]
    PROVE  policy'[f] = x /\ Same(policy, policy', PolicyFields \ {f})
  BY DEF Typed, Policies, PolicyFields, Same

LEMMA PolicyUnchanged ==
    ASSUME UNCHANGED policy
    PROVE  Same(policy, policy', PolicyFields)
  BY DEF Same

LEMMA RequestUnchanged ==
    ASSUME UNCHANGED request
    PROVE  Same(request, request', RequestFields)
  BY DEF Same

(* Fewer fields are the same too.                                          *)
LEMMA FewerSame ==
    ASSUME NEW old, NEW new, NEW F, NEW G, Same(old, new, F), G \subseteq F
    PROVE  Same(old, new, G)
  BY DEF Same
(* What rests on the field of the request that changes.                    *)
LEMMA RequestRest ==
    ASSUME Typed, NEW f \in RequestFields, NEW x, Evidence([request EXCEPT ![f] = x])
    PROVE  /\ request'[f] = x
           /\ Same(request, request', RequestFields \ {f})
           /\ f \notin {"digest", "env", "evidenceFor", "risk"} => OtherRemain
           /\ f \notin {"provider", "version", "completed", "complete", "passed"}
                 => AssuranceRemain
           /\ f \notin {"digest", "sigstore", "dsse"} => SignatureRemain
           /\ f \notin {"digest", "dsse", "github"} => ProvenanceRemain
           /\ f \notin {"digest", "env", "capabilities", "approvals", "approvalRecords"}
                 => CapabilityRemain
<1>1. request' = [request EXCEPT ![f] = x] /\ UNCHANGED <<policy, trustDir, revoked, quarantined, now>>
  BY DEF Evidence
<1>2. request'[f] = x /\ Same(request, request', RequestFields \ {f})
  BY <1>1, OneOfRequest
<1>3. Same(policy, policy', PolicyFields)
  BY <1>1, PolicyUnchanged
<1>4. ASSUME NEW F \in SUBSET RequestFields, f \notin F PROVE Same(request, request', F)
  BY <1>2, <1>4, FewerSame
<1>5. ASSUME NEW F \in SUBSET PolicyFields PROVE Same(policy, policy', F)
  BY <1>3, <1>5, FewerSame
<1>6. f \notin {"digest", "env", "evidenceFor", "risk"} => OtherRemain
  BY <1>1, <1>4, <1>5, OtherKept DEF RequestFields, PolicyFields
<1>7. f \notin {"provider", "version", "completed", "complete", "passed"} => AssuranceRemain
  BY <1>1, <1>4, <1>5, AssuranceKept DEF RequestFields, PolicyFields
<1>8. f \notin {"digest", "sigstore", "dsse"} => SignatureRemain
  BY <1>1, <1>4, <1>5, SignatureKept DEF RequestFields, PolicyFields
<1>9. f \notin {"digest", "dsse", "github"} => ProvenanceRemain
  BY <1>1, <1>4, <1>5, ProvenanceKept DEF RequestFields, PolicyFields
<1>10. f \notin {"digest", "env", "capabilities", "approvals", "approvalRecords"}
       => CapabilityRemain
  BY <1>1, <1>4, <1>5, CapabilityKept DEF RequestFields, PolicyFields
<1> QED
  BY <1>2, <1>6, <1>7, <1>8, <1>9, <1>10

LEMMA PolicyRest ==
    ASSUME Typed, NEW f \in PolicyFields, NEW x, Policy([policy EXCEPT ![f] = x])
    PROVE  /\ policy'[f] = x
           /\ Same(policy, policy', PolicyFields \ {f})
           /\ f \notin {"environments", "maximumRisk"} => OtherRemain
           /\ f \notin {"provider", "minimumVersion", "maximumAge", "requireComplete"}
                 => AssuranceRemain
           /\ f \notin {"signatures", "trustedIdentities"} => SignatureRemain
           /\ f # "provenance" => ProvenanceRemain
           /\ f \notin {"deny", "approvalRequired"} => CapabilityRemain
<1>1. policy' = [policy EXCEPT ![f] = x] /\ UNCHANGED <<request, trustDir, revoked, quarantined, now>>
  BY DEF Policy
<1>2. policy'[f] = x /\ Same(policy, policy', PolicyFields \ {f})
  BY <1>1, OneOfPolicy
<1>3. Same(request, request', RequestFields)
  BY <1>1, RequestUnchanged
<1>4. ASSUME NEW F \in SUBSET PolicyFields, f \notin F PROVE Same(policy, policy', F)
  BY <1>2, <1>4, FewerSame
<1>5. ASSUME NEW F \in SUBSET RequestFields PROVE Same(request, request', F)
  BY <1>3, <1>5, FewerSame
<1>6. f \notin {"environments", "maximumRisk"} => OtherRemain
  BY <1>1, <1>4, <1>5, OtherKept DEF RequestFields, PolicyFields
<1>7. f \notin {"provider", "minimumVersion", "maximumAge", "requireComplete"} => AssuranceRemain
  BY <1>1, <1>4, <1>5, AssuranceKept DEF RequestFields, PolicyFields
<1>8. f \notin {"signatures", "trustedIdentities"} => SignatureRemain
  BY <1>1, <1>4, <1>5, SignatureKept DEF RequestFields, PolicyFields
<1>9. f # "provenance" => ProvenanceRemain
  BY <1>1, <1>4, <1>5, ProvenanceKept DEF RequestFields, PolicyFields
<1>10. f \notin {"deny", "approvalRequired"} => CapabilityRemain
  BY <1>1, <1>4, <1>5, CapabilityKept DEF RequestFields, PolicyFields
<1> QED
  BY <1>2, <1>6, <1>7, <1>8, <1>9, <1>10

(* A digest that is not one is a hard reason, whatever else changes.       *)
LEMMA BadDigestHardens ==
    ASSUME request'.digest = BadDigest
    PROVE  Hardens
<1>1. OtherCause("SUBJECT-DIGEST-INVALID", policy', request', revoked', quarantined')
  BY DEF OtherCause
<1>2. Cause("SUBJECT-DIGEST-INVALID")'
  BY <1>1, Zenon DEF Cause
<1> QED
  BY <1>2 DEF Hardens, Soft

(* Worse assurance evidence.                                               *)
LEMMA AssuranceHardens ==
    ASSUME Typed, request.digest # BadDigest, WorseAssurance
    PROVE  Hardens
<1>1. CASE Evidence([request EXCEPT !.evidenceFor = BadDigest])
  <2>1. /\ request'.evidenceFor = BadDigest
        /\ Same(request, request', RequestFields \ {"evidenceFor"})
        /\ AssuranceRemain /\ SignatureRemain /\ ProvenanceRemain /\ CapabilityRemain
    BY <1>1, RequestRest DEF RequestFields
  <2>2. OtherRemain
    BY <1>1, <2>1 DEF OtherRemain, OtherCause, Same, RequestFields, Evidence
  <2> QED
    BY <2>1, <2>2, AllRemain
<1>2. CASE \E q \in Providers \ {policy.provider} : Evidence([request EXCEPT !.provider = q])
  <2>1. PICK q \in Providers \ {policy.provider} : Evidence([request EXCEPT !.provider = q])
    BY <1>2
  <2>2. /\ request'.provider = q
        /\ Same(request, request', RequestFields \ {"provider"})
        /\ OtherRemain /\ SignatureRemain /\ ProvenanceRemain /\ CapabilityRemain
    BY <2>1, RequestRest DEF RequestFields
  <2>3. AssuranceRemain
    BY <2>1, <2>2 DEF AssuranceRemain, AssuranceCause, Same, RequestFields, Evidence
  <2> QED
    BY <2>2, <2>3, AllRemain
<1>3. CASE \E v \in {w \in Versions : request.version # BadVersion
                                      /\ Compare(w, request.version) < 0} :
              Evidence([request EXCEPT !.version = v])
  <2>1. PICK v \in Versions :
           /\ request.version # BadVersion /\ Compare(v, request.version) < 0
           /\ Evidence([request EXCEPT !.version = v])
    BY <1>3
  <2>2. /\ request'.version = v
        /\ Same(request, request', RequestFields \ {"version"})
        /\ OtherRemain /\ SignatureRemain /\ ProvenanceRemain /\ CapabilityRemain
    BY <2>1, RequestRest DEF RequestFields
  <2>3. request.version \in Versions /\ policy.minimumVersion \in Versions
    BY <2>1 DEF Typed, Requests, Policies
  <2>4. Compare(request.version, policy.minimumVersion) < 0
        => Compare(v, policy.minimumVersion) < 0
    BY <2>1, <2>3, CompareTransitive
  <2>5. AssuranceRemain
    BY <2>1, <2>2, <2>4 DEF AssuranceRemain, AssuranceCause, Same, RequestFields, Evidence
  <2> QED
    BY <2>2, <2>5, AllRemain
<1>4. CASE Evidence([request EXCEPT !.version = BadVersion])
  <2>1. /\ request'.version = BadVersion
        /\ Same(request, request', RequestFields \ {"version"})
        /\ OtherRemain /\ SignatureRemain /\ ProvenanceRemain /\ CapabilityRemain
    BY <1>4, RequestRest DEF RequestFields
  <2>2. AssuranceRemain
    BY <1>4, <2>1 DEF AssuranceRemain, AssuranceCause, Same, RequestFields, Evidence
  <2> QED
    BY <2>1, <2>2, AllRemain
<1>5. CASE \E c \in {0} \cup Times :
              c < request.completed /\ Evidence([request EXCEPT !.completed = c])
  <2>1. PICK c \in {0} \cup Times :
           c < request.completed /\ Evidence([request EXCEPT !.completed = c])
    BY <1>5
  <2>2. /\ request'.completed = c
        /\ Same(request, request', RequestFields \ {"completed"})
        /\ OtherRemain /\ SignatureRemain /\ ProvenanceRemain /\ CapabilityRemain
    BY <2>1, RequestRest DEF RequestFields
  <2>3. /\ c \in Int /\ now \in Int /\ request.completed \in Int /\ 0 <= c
        /\ policy.maximumAge # NoMaxAge => policy.maximumAge \in Int
    BY RecordsAssumption DEF Typed, Requests, Policies, Times
  <2>4. policy.maximumAge # NoMaxAge /\ now - request.completed > policy.maximumAge
        => now - c > policy.maximumAge
    BY <2>1, <2>3
  <2>5. request.completed # 0
    BY <2>1, <2>3
  <2>6. AssuranceRemain
    BY <2>1, <2>2, <2>4, <2>5 DEF AssuranceRemain, AssuranceCause, Same, RequestFields, Evidence
  <2> QED
    BY <2>2, <2>6, AllRemain
<1>6. CASE Evidence([request EXCEPT !.complete = FALSE])
  <2>1. /\ request'.complete = FALSE
        /\ Same(request, request', RequestFields \ {"complete"})
        /\ OtherRemain /\ SignatureRemain /\ ProvenanceRemain /\ CapabilityRemain
    BY <1>6, RequestRest DEF RequestFields
  <2>2. AssuranceRemain
    BY <1>6, <2>1 DEF AssuranceRemain, AssuranceCause, Same, RequestFields, Evidence
  <2> QED
    BY <2>1, <2>2, AllRemain
<1>7. CASE Evidence([request EXCEPT !.passed = FALSE])
  <2>1. /\ request'.passed = FALSE
        /\ Same(request, request', RequestFields \ {"passed"})
        /\ OtherRemain /\ SignatureRemain /\ ProvenanceRemain /\ CapabilityRemain
    BY <1>7, RequestRest DEF RequestFields
  <2>2. AssuranceRemain
    BY <1>7, <2>1 DEF AssuranceRemain, AssuranceCause, Same, RequestFields, Evidence
  <2> QED
    BY <2>1, <2>2, AllRemain
<1> QED
  BY <1>1, <1>2, <1>3, <1>4, <1>5, <1>6, <1>7 DEF WorseAssurance
(* A payload that comes instead of another and verifies no more.           *)
Roots == LoadFromDir(trustDir)

LEMMA SigstoreHardens ==
    ASSUME Typed, request.sigstore # Absent, NEW x, x # Absent,
           Evidence([request EXCEPT !.sigstore = x]),
           VerifySigstore(x, request.digest, policy.trustedIdentities, Roots, now)
           => VerifySigstore(request.sigstore, request.digest, policy.trustedIdentities, Roots, now)
    PROVE  Hardens
<1>1. /\ request'.sigstore = x
      /\ Same(request, request', RequestFields \ {"sigstore"})
      /\ OtherRemain /\ AssuranceRemain /\ ProvenanceRemain /\ CapabilityRemain
  BY RequestRest DEF RequestFields
<1>2. /\ policy' = policy /\ trustDir' = trustDir /\ now' = now
      /\ request'.digest = request.digest
  BY <1>1 DEF Evidence, Same, RequestFields
<1>3. SignatureRemain
  <2> SUFFICES ASSUME NEW c, SignatureCause(c, policy, request, Roots, now)
               PROVE  SignatureCause(c, policy', request', LoadFromDir(trustDir'), now')
    BY Zenon DEF SignatureRemain, Roots
  <2>1. /\ policy.signatures /\ c = "SIGSTORE-INVALID"
        /\ ~VerifySigstore(request.sigstore, request.digest, policy.trustedIdentities, Roots, now)
    BY DEF SignatureCause
  <2>2. ~VerifySigstore(x, request.digest, policy.trustedIdentities, Roots, now)
    BY <2>1
  <2>3. ~VerifySigstore(request'.sigstore, request'.digest, policy'.trustedIdentities,
                        LoadFromDir(trustDir'), now')
    BY <1>1, <1>2, <2>2 DEF Roots
  <2> QED
    BY <1>1, <1>2, <2>1, <2>3, Zenon DEF SignatureCause
<1> QED
  BY <1>1, <1>3, AllRemain

LEMMA EnvelopeHardens ==
    ASSUME Typed, request.dsse # Absent, NEW x, x # Absent,
           Evidence([request EXCEPT !.dsse = x]),
           x.signers \subseteq request.dsse.signers,
           x.inToto => request.dsse.inToto
    PROVE  Hardens
<1>1. /\ request'.dsse = x
      /\ Same(request, request', RequestFields \ {"dsse"})
      /\ OtherRemain /\ AssuranceRemain /\ CapabilityRemain
  BY RequestRest DEF RequestFields
<1>2. /\ policy' = policy /\ trustDir' = trustDir /\ now' = now
      /\ request'.digest = request.digest /\ request'.sigstore = request.sigstore
      /\ request'.github = request.github
  BY <1>1 DEF Evidence, Same, RequestFields
<1>3. ASSUME NEW k, ~VerifyDSSE(request.dsse, k) PROVE ~VerifyDSSE(x, k)
  BY <1>3 DEF VerifyDSSE
<1>4. SignatureRemain
  BY <1>1, <1>2, <1>3 DEF SignatureRemain, SignatureCause
<1>5. ProvenanceRemain
  BY <1>1, <1>2 DEF ProvenanceRemain, ProvenanceCause
<1> QED
  BY <1>1, <1>4, <1>5, AllRemain

LEMMA AttestationHardens ==
    ASSUME Typed, request.github # Absent, NEW x, x # Absent,
           Evidence([request EXCEPT !.github = x]),
           VerifyGitHubAttestation(x, request.digest, Roots, now)
           => VerifyGitHubAttestation(request.github, request.digest, Roots, now)
    PROVE  Hardens
<1>1. /\ request'.github = x
      /\ Same(request, request', RequestFields \ {"github"})
      /\ OtherRemain /\ AssuranceRemain /\ SignatureRemain /\ CapabilityRemain
  BY RequestRest DEF RequestFields
<1>2. /\ policy' = policy /\ trustDir' = trustDir /\ now' = now
      /\ request'.digest = request.digest /\ request'.dsse = request.dsse
  BY <1>1 DEF Evidence, Same, RequestFields
<1>3. ProvenanceRemain
  <2> SUFFICES ASSUME NEW c, ProvenanceCause(c, policy, request, Roots, now)
               PROVE  ProvenanceCause(c, policy', request', LoadFromDir(trustDir'), now')
    BY Zenon DEF ProvenanceRemain, Roots
  <2>1. /\ policy.provenance /\ c = "PROVENANCE-INVALID"
        /\ ~VerifyGitHubAttestation(request.github, request.digest, Roots, now)
    BY DEF ProvenanceCause
  <2>2. ~VerifyGitHubAttestation(x, request.digest, Roots, now)
    BY <2>1
  <2>3. ~VerifyGitHubAttestation(request'.github, request'.digest, LoadFromDir(trustDir'), now')
    BY <1>1, <1>2, <2>2 DEF Roots
  <2> QED
    BY <1>1, <1>2, <2>1, <2>3, Zenon DEF ProvenanceCause
<1> QED
  BY <1>1, <1>3, AllRemain

(* While the payloads verify there is no cause to lose.                    *)
LEMMA VouchedHasNoCause ==
    ASSUME Vouched
    PROVE  SignatureRemain /\ ProvenanceRemain
<1>1. SignatureReasons(policy, request, Roots, now)
         \o ProvenanceReasons(policy, request, Roots, now) = <<>>
  BY Zenon DEF Vouched, Roots
<1>2. PICK a \in Seq(Codes), b \in Seq(Codes) :
         /\ a = SignatureReasons(policy, request, Roots, now)
         /\ b = ProvenanceReasons(policy, request, Roots, now)
  BY PayloadsAreSeqs
<1>3. a = <<>> /\ b = <<>>
  BY <1>1, <1>2
<1>4. \A c : /\ ~SignatureCause(c, policy, request, Roots, now)
             /\ ~ProvenanceCause(c, policy, request, Roots, now)
  BY <1>2, <1>3, InRangeOfNone, SignatureCauses, ProvenanceCauses, Zenon
<1> QED
  BY <1>4, Zenon DEF SignatureRemain, ProvenanceRemain, Roots

LEMMA VouchedHardens ==
    ASSUME Typed, Vouched, NEW f \in {"sigstore", "dsse", "github"}, NEW x,
           Evidence([request EXCEPT ![f] = x])
    PROVE  Hardens
<1>1. OtherRemain /\ AssuranceRemain /\ CapabilityRemain
  BY RequestRest DEF RequestFields
<1> QED
  BY <1>1, VouchedHasNoCause, AllRemain

(* What a change of one field leaves of a payload or a certificate.        *)
LEMMA BundleWith ==
    ASSUME NEW s \in SigstoreBundles, NEW cert \in Certificates \cup {BadPEM}
    PROVE  /\ [s EXCEPT !.cert = cert] \in SigstoreBundles
           /\ [s EXCEPT !.cert = cert].cert = cert
           /\ [s EXCEPT !.cert = cert].signedBy = s.signedBy
           /\ [s EXCEPT !.cert = cert].over = s.over
           /\ [s EXCEPT !.over = BadDigest] \in SigstoreBundles
           /\ [s EXCEPT !.over = BadDigest].over = BadDigest
  BY DEF SigstoreBundles

LEMMA AttestationWith ==
    ASSUME NEW g \in GitHubAttestations, NEW cert \in Certificates \cup {BadPEM}
    PROVE  /\ [g EXCEPT !.cert = cert] \in GitHubAttestations
           /\ [g EXCEPT !.cert = cert].cert = cert
           /\ [g EXCEPT !.subject = BadDigest] \in GitHubAttestations
           /\ [g EXCEPT !.subject = BadDigest].subject = BadDigest
           /\ [g EXCEPT !.origin = FALSE] \in GitHubAttestations
           /\ [g EXCEPT !.origin = FALSE].origin = FALSE
  BY DEF GitHubAttestations

LEMMA CertificateWith ==
    ASSUME NEW c \in Certificates
    PROVE  /\ [c EXCEPT !.names = {}] \in Certificates
           /\ [c EXCEPT !.names = {}].names = {}
           /\ Same(c, [c EXCEPT !.names = {}], {"notBefore", "notAfter", "root", "key"})
           /\ [c EXCEPT !.forServers = FALSE] \in Certificates
           /\ [c EXCEPT !.forServers = FALSE].forServers = FALSE
           /\ \A t \in Times :
                 /\ [c EXCEPT !.notAfter = t] \in Certificates
                 /\ [c EXCEPT !.notAfter = t].notAfter = t
                 /\ Same(c, [c EXCEPT !.notAfter = t], {"notBefore", "names", "root", "key"})
  BY DEF Certificates, Same

(* Worse payloads.                                                         *)
LEMMA PayloadHardens ==
    ASSUME Typed, request.digest # BadDigest, WorsePayload
    PROVE  Hardens
<1> DEFINE s == request.sigstore
           e == request.dsse
           g == request.github
<1>1. CASE /\ Vouched
           /\ \/ \E f \in {"sigstore", "dsse", "github"} : Evidence([request EXCEPT ![f] = Absent])
              \/ \E k \in Keys : Evidence([request EXCEPT !.sigstore.signedBy = k])
  BY <1>1, VouchedHardens
<1>2. CASE /\ request.sigstore # Absent
           /\ \/ Evidence([request EXCEPT !.sigstore.over = BadDigest])
              \/ Evidence([request EXCEPT !.sigstore.cert = BadPEM])
  <2>1. s \in SigstoreBundles
    BY <1>2, Payloads
  <2>2. \/ Evidence([request EXCEPT !.sigstore = [s EXCEPT !.over = BadDigest]])
        \/ Evidence([request EXCEPT !.sigstore = [s EXCEPT !.cert = BadPEM]])
    BY <1>2
  <2>5. PICK x \in SigstoreBundles :
           /\ Evidence([request EXCEPT !.sigstore = x])
           /\ x.over = BadDigest \/ x.cert = BadPEM
    <3>1. /\ [s EXCEPT !.over = BadDigest] \in SigstoreBundles
          /\ [s EXCEPT !.over = BadDigest].over = BadDigest
          /\ [s EXCEPT !.cert = BadPEM] \in SigstoreBundles
          /\ [s EXCEPT !.cert = BadPEM].cert = BadPEM
      BY <2>1, BundleWith
    <3> QED
      BY <2>2, <3>1, Zenon
  <2>3. ~VerifySigstore(x, request.digest, policy.trustedIdentities, Roots, now)
    BY <2>5, AbsentAssumption DEF VerifySigstore
  <2> QED
    BY <1>2, <2>5, <2>3, AbsentAssumption, SigstoreHardens
<1>3. CASE /\ request.sigstore # Absent
           /\ request.sigstore.cert \notin {Absent, BadPEM}
           /\ \/ Evidence([request EXCEPT !.sigstore.cert.names = {}])
              \/ \E t \in Times :
                    /\ t < request.sigstore.cert.notAfter
                    /\ Evidence([request EXCEPT !.sigstore.cert.notAfter = t])
  <2>1. s \in SigstoreBundles /\ s.cert \in Certificates
    BY <1>3, Payloads
  <2>2. PICK cert \in Certificates :
           /\ Evidence([request EXCEPT !.sigstore = [s EXCEPT !.cert = cert]])
           /\ cert.notBefore = s.cert.notBefore /\ cert.root = s.cert.root
           /\ cert.key = s.cert.key /\ cert.names \subseteq s.cert.names
           /\ \/ cert.notAfter = s.cert.notAfter
              \/ cert.notAfter \in Times /\ cert.notAfter < s.cert.notAfter
    <3>1. CASE Evidence([request EXCEPT !.sigstore = [s EXCEPT !.cert = [s.cert EXCEPT !.names = {}]]])
      <4>1. PICK n \in Certificates :
               /\ n = [s.cert EXCEPT !.names = {}] /\ n.names = {}
               /\ Same(s.cert, n, {"notBefore", "notAfter", "root", "key"})
        BY <2>1, CertificateWith, Zenon
      <4>2. /\ n.notBefore = s.cert.notBefore /\ n.root = s.cert.root /\ n.key = s.cert.key
            /\ n.names \subseteq s.cert.names /\ n.notAfter = s.cert.notAfter
        BY <4>1 DEF Same
      <4>3. Evidence([request EXCEPT !.sigstore = [s EXCEPT !.cert = n]])
        BY <3>1, <4>1
      <4> QED
        BY <4>1, <4>2, <4>3
    <3>2. CASE \E t \in Times :
                  /\ t < s.cert.notAfter
                  /\ Evidence([request EXCEPT
                                  !.sigstore = [s EXCEPT !.cert = [s.cert EXCEPT !.notAfter = t]]])
      <4>1. PICK t \in Times :
               /\ t < s.cert.notAfter
               /\ Evidence([request EXCEPT
                               !.sigstore = [s EXCEPT !.cert = [s.cert EXCEPT !.notAfter = t]]])
        BY <3>2, Zenon
      <4>2. PICK n \in Certificates :
               /\ n = [s.cert EXCEPT !.notAfter = t] /\ n.notAfter = t
               /\ Same(s.cert, n, {"notBefore", "names", "root", "key"})
        <5>1. /\ [s.cert EXCEPT !.notAfter = t] \in Certificates
              /\ [s.cert EXCEPT !.notAfter = t].notAfter = t
              /\ Same(s.cert, [s.cert EXCEPT !.notAfter = t], {"notBefore", "names", "root", "key"})
          BY <2>1, CertificateWith
        <5> QED
          BY <5>1, Zenon
      <4>3. /\ n.notBefore = s.cert.notBefore /\ n.root = s.cert.root /\ n.key = s.cert.key
            /\ n.names \subseteq s.cert.names
        BY <4>2 DEF Same
      <4>4. Evidence([request EXCEPT !.sigstore = [s EXCEPT !.cert = n]])
        BY <4>1, <4>2
      <4> QED
        BY <4>1, <4>2, <4>3, <4>4, Zenon
    <3> QED
      BY <1>3, <3>1, <3>2
  <2>3. /\ cert.notAfter \in Int /\ s.cert.notAfter \in Int /\ now \in Int
        /\ cert # Absent /\ s.cert # Absent /\ s.cert # BadPEM
    BY <1>3, <2>1, AbsentAssumption DEF Certificates, Times, Typed
  <2>4. InForce(cert, now) => InForce(s.cert, now)
    BY <2>2, <2>3 DEF InForce
  <2>5. PICK x \in SigstoreBundles :
           /\ x = [s EXCEPT !.cert = cert]
           /\ x.cert = cert /\ x.signedBy = s.signedBy /\ x.over = s.over
    <3>1. /\ [s EXCEPT !.cert = cert] \in SigstoreBundles
          /\ [s EXCEPT !.cert = cert].cert = cert
          /\ [s EXCEPT !.cert = cert].signedBy = s.signedBy
          /\ [s EXCEPT !.cert = cert].over = s.over
      BY <2>1, BundleWith
    <3> QED
      BY <3>1, Zenon
  <2>6. VerifySigstore(x, request.digest, policy.trustedIdentities, Roots, now)
        => VerifySigstore(s, request.digest, policy.trustedIdentities, Roots, now)
    BY <2>2, <2>3, <2>4, <2>5 DEF VerifySigstore
  <2> QED
    BY <1>3, <2>2, <2>5, <2>6, AbsentAssumption, SigstoreHardens
<1>4. CASE /\ request.dsse # Absent
           /\ \/ Evidence([request EXCEPT !.dsse.inToto = FALSE])
              \/ \E k \in request.dsse.signers :
                    Evidence([request EXCEPT !.dsse.signers = @ \ {k}])
  <2>1. e \in DSSEEnvelopes
    BY <1>4, Payloads
  <2>2. PICK x \in DSSEEnvelopes :
           /\ Evidence([request EXCEPT !.dsse = x])
           /\ x.signers \subseteq e.signers /\ (x.inToto => e.inToto)
    BY <1>4, <2>1 DEF Evidence, DSSEEnvelopes
  <2> QED
    BY <1>4, <2>2, AbsentAssumption, EnvelopeHardens
<1>5. CASE /\ request.github # Absent
           /\ \/ Evidence([request EXCEPT !.github.subject = BadDigest])
              \/ Evidence([request EXCEPT !.github.origin = FALSE])
              \/ Evidence([request EXCEPT !.github.cert = BadPEM])
  <2>1. g \in GitHubAttestations
    BY <1>5, Payloads
  <2>2. \/ Evidence([request EXCEPT !.github = [g EXCEPT !.subject = BadDigest]])
        \/ Evidence([request EXCEPT !.github = [g EXCEPT !.origin = FALSE]])
        \/ Evidence([request EXCEPT !.github = [g EXCEPT !.cert = BadPEM]])
    BY <1>5
  <2>4. PICK x \in GitHubAttestations :
           /\ Evidence([request EXCEPT !.github = x])
           /\ x.subject = BadDigest \/ x.origin = FALSE \/ x.cert = BadPEM
    <3>1. /\ [g EXCEPT !.subject = BadDigest] \in GitHubAttestations
          /\ [g EXCEPT !.subject = BadDigest].subject = BadDigest
          /\ [g EXCEPT !.origin = FALSE] \in GitHubAttestations
          /\ [g EXCEPT !.origin = FALSE].origin = FALSE
          /\ [g EXCEPT !.cert = BadPEM] \in GitHubAttestations
          /\ [g EXCEPT !.cert = BadPEM].cert = BadPEM
      BY <2>1, AttestationWith
    <3> QED
      BY <2>2, <3>1, Zenon
  <2>3. ~VerifyGitHubAttestation(x, request.digest, Roots, now)
    BY <2>4, AbsentAssumption DEF VerifyGitHubAttestation
  <2> QED
    BY <1>5, <2>4, <2>3, AbsentAssumption, AttestationHardens
<1>6. CASE /\ request.github # Absent
           /\ request.github.cert \notin {Absent, BadPEM}
           /\ Evidence([request EXCEPT !.github.cert.forServers = FALSE])
  <2>1. g \in GitHubAttestations /\ g.cert \in Certificates
    BY <1>6, Payloads
  <2>2. PICK cert \in Certificates :
           /\ Evidence([request EXCEPT !.github = [g EXCEPT !.cert = cert]])
           /\ cert.forServers = FALSE
    BY <1>6, <2>1, CertificateWith
  <2>3. PICK x \in GitHubAttestations : x = [g EXCEPT !.cert = cert] /\ x.cert = cert
    BY <2>1, AttestationWith
  <2>4. ~VerifyGitHubAttestation(x, request.digest, Roots, now)
    BY <2>2, <2>3, AbsentAssumption DEF VerifyGitHubAttestation
  <2> QED
    BY <1>6, <2>2, <2>3, <2>4, AbsentAssumption, AttestationHardens
<1> QED
  BY <1>1, <1>2, <1>3, <1>4, <1>5, <1>6 DEF WorsePayload
(* A root certificate less.                                                *)
LEMMA TrustHardens ==
    ASSUME Typed, LessTrust
    PROVE  Hardens
<1>1. /\ UNCHANGED <<policy, request, revoked, quarantined, now>>
      /\ trustDir' \subseteq trustDir
  BY DEF LessTrust
<1>2. Same(policy, policy', PolicyFields) /\ Same(request, request', RequestFields)
  BY <1>1 DEF Same
<1>3. OtherRemain
  BY <1>1 DEF OtherRemain
<1>4. AssuranceRemain /\ CapabilityRemain
  BY <1>1 DEF AssuranceRemain, CapabilityRemain
<1>5. /\ LoadFromDir(trustDir').FulcioRoots \subseteq Roots.FulcioRoots
      /\ LoadFromDir(trustDir').GitHubAttestationRoots \subseteq Roots.GitHubAttestationRoots
  BY <1>1 DEF LoadFromDir, Roots
<1>6. ASSUME NEW b, NEW d, NEW trusted, ~VerifySigstore(b, d, trusted, Roots, now)
      PROVE  ~VerifySigstore(b, d, trusted, LoadFromDir(trustDir'), now)
  BY <1>5, <1>6 DEF VerifySigstore
<1>7. ASSUME NEW a, NEW d, ~VerifyGitHubAttestation(a, d, Roots, now)
      PROVE  ~VerifyGitHubAttestation(a, d, LoadFromDir(trustDir'), now)
  BY <1>5, <1>7 DEF VerifyGitHubAttestation
<1>8. SignatureRemain
  BY <1>1, <1>6 DEF SignatureRemain, SignatureCause, Roots
<1>9. ProvenanceRemain
  BY <1>1, <1>7 DEF ProvenanceRemain, ProvenanceCause, Roots
<1> QED
  BY <1>3, <1>4, <1>8, <1>9, AllRemain

LEMMA RanksAreNumbers == \A k : riskRank(k) \in Int
  BY DEF riskRank

(* A riskier skill, or one with fewer approvals.                           *)
LEMMA SkillHardens ==
    ASSUME Typed, WorseSkill
    PROVE  Hardens
<1>1. CASE \E k \in Risks \cup {"unknown"} :
              /\ riskRank(k) > riskRank(request.risk)
              /\ Evidence([request EXCEPT !.risk = k])
  <2>1. PICK k : riskRank(k) > riskRank(request.risk) /\ Evidence([request EXCEPT !.risk = k])
    BY <1>1
  <2>2. /\ request'.risk = k
        /\ Same(request, request', RequestFields \ {"risk"})
        /\ AssuranceRemain /\ SignatureRemain /\ ProvenanceRemain /\ CapabilityRemain
    BY <2>1, RequestRest DEF RequestFields
  <2>3. riskRank(request.risk) > riskRank(policy.maximumRisk)
        => riskRank(k) > riskRank(policy.maximumRisk)
    BY <2>1, RanksAreNumbers
  <2>4. OtherRemain
    BY <2>1, <2>2, <2>3 DEF OtherRemain, OtherCause, Same, RequestFields, Evidence
  <2> QED
    BY <2>2, <2>4, AllRemain
<1>2. CASE \E d \in Capabilities : Evidence([request EXCEPT !.capabilities = Append(@, d)])
  <2>1. PICK d \in Capabilities :
           Evidence([request EXCEPT !.capabilities = Append(request.capabilities, d)])
    BY <1>2
  <2>2. /\ request'.capabilities = Append(request.capabilities, d)
        /\ Same(request, request', RequestFields \ {"capabilities"})
        /\ OtherRemain /\ AssuranceRemain /\ SignatureRemain /\ ProvenanceRemain
    BY <2>1, RequestRest DEF RequestFields
  <2>3. \A i \in DOMAIN request.capabilities :
           /\ i \in DOMAIN request'.capabilities
           /\ request'.capabilities[i] = request.capabilities[i]
    BY <2>2 DEF Typed, Requests
  <2>4. \A cap : Approved(request', cap, now') => Approved(request, cap, now)
    BY <2>1, <2>2 DEF Same, RequestFields, Evidence, Approved
  <2>5. CapabilityRemain
    BY <2>1, <2>3, <2>4 DEF CapabilityRemain, CapabilityCause, Evidence
  <2> QED
    BY <2>2, <2>5, AllRemain
<1>3. CASE \/ \E d \in request.approvals : Evidence([request EXCEPT !.approvals = @ \ {d}])
           \/ \E a \in request.approvalRecords :
                 Evidence([request EXCEPT !.approvalRecords = @ \ {a}])
  <2>0. PICK f \in {"approvals", "approvalRecords"} :
           \E x : Evidence([request EXCEPT ![f] = request[f] \ {x}])
    BY <1>3
  <2>1. PICK x : Evidence([request EXCEPT ![f] = request[f] \ {x}])
    BY <2>0
  <2>2. /\ request'[f] = request[f] \ {x}
        /\ Same(request, request', RequestFields \ {f})
        /\ OtherRemain /\ AssuranceRemain /\ SignatureRemain /\ ProvenanceRemain
    BY <2>1, RequestRest DEF RequestFields
  <2>3. \A cap : Approved(request', cap, now') => Approved(request, cap, now)
    BY <2>1, <2>2 DEF Same, RequestFields, Evidence, Approved
  <2>4. CapabilityRemain
    BY <2>1, <2>2, <2>3 DEF CapabilityRemain, CapabilityCause, Evidence, Same, RequestFields
  <2> QED
    BY <2>2, <2>4, AllRemain
<1> QED
  BY <1>1, <1>2, <1>3 DEF WorseSkill
(* A stricter policy.                                                      *)
LEMMA StricterHardens ==
    ASSUME Typed, StricterPolicy
    PROVE  Hardens
<1>1. CASE \E e \in policy.environments : Policy([policy EXCEPT !.environments = @ \ {e}])
  <2>1. PICK e : Policy([policy EXCEPT !.environments = policy.environments \ {e}])
    BY <1>1
  <2>2. /\ policy'.environments = policy.environments \ {e}
        /\ Same(policy, policy', PolicyFields \ {"environments"})
        /\ AssuranceRemain /\ SignatureRemain /\ ProvenanceRemain /\ CapabilityRemain
    BY <2>1, PolicyRest DEF PolicyFields
  <2>3. OtherRemain
    BY <2>1, <2>2 DEF OtherRemain, OtherCause, Same, PolicyFields, Policy
  <2> QED
    BY <2>2, <2>3, AllRemain
<1>2. CASE \E v \in Versions :
              /\ Compare(v, policy.minimumVersion) > 0
              /\ Policy([policy EXCEPT !.minimumVersion = v])
  <2>1. PICK v \in Versions :
           /\ Compare(v, policy.minimumVersion) > 0
           /\ Policy([policy EXCEPT !.minimumVersion = v])
    BY <1>2
  <2>2. /\ policy'.minimumVersion = v
        /\ Same(policy, policy', PolicyFields \ {"minimumVersion"})
        /\ OtherRemain /\ SignatureRemain /\ ProvenanceRemain /\ CapabilityRemain
    BY <2>1, PolicyRest DEF PolicyFields
  <2>3. policy.minimumVersion \in Versions
    BY DEF Typed, Policies
  <2>4. request.version # BadVersion /\ Compare(request.version, policy.minimumVersion) < 0
        => Compare(request.version, v) < 0
    <3>1. request.version # BadVersion => request.version \in Versions
      BY DEF Typed, Requests
    <3> QED
      BY <2>1, <2>3, <3>1, CompareTransitive
  <2>5. AssuranceRemain
    BY <2>1, <2>2, <2>4 DEF AssuranceRemain, AssuranceCause, Same, PolicyFields, Policy
  <2> QED
    BY <2>2, <2>5, AllRemain
<1>3. CASE \E a \in 0 .. MaxTime :
              /\ policy.maximumAge # NoMaxAge => a < policy.maximumAge
              /\ Policy([policy EXCEPT !.maximumAge = a])
  <2>1. PICK a \in 0 .. MaxTime :
           /\ policy.maximumAge # NoMaxAge => a < policy.maximumAge
           /\ Policy([policy EXCEPT !.maximumAge = a])
    BY <1>3
  <2>2. /\ policy'.maximumAge = a
        /\ Same(policy, policy', PolicyFields \ {"maximumAge"})
        /\ OtherRemain /\ SignatureRemain /\ ProvenanceRemain /\ CapabilityRemain
    BY <2>1, PolicyRest DEF PolicyFields
  <2>3. /\ a \in Int /\ a # NoMaxAge /\ now \in Int /\ request.completed \in Int
        /\ policy.maximumAge # NoMaxAge => policy.maximumAge \in Int
    BY RecordsAssumption, AdmissionAssumption DEF Typed, Requests, Policies, Times
  <2>4. policy.maximumAge # NoMaxAge /\ now - request.completed > policy.maximumAge
        => now - request.completed > a
    BY <2>1, <2>3
  <2>5. AssuranceRemain
    BY <2>1, <2>2, <2>3, <2>4 DEF AssuranceRemain, AssuranceCause, Same, PolicyFields, Policy
  <2> QED
    BY <2>2, <2>5, AllRemain
<1>4. CASE Policy([policy EXCEPT !.requireComplete = TRUE])
  <2>1. /\ policy'.requireComplete = TRUE
        /\ Same(policy, policy', PolicyFields \ {"requireComplete"})
        /\ OtherRemain /\ SignatureRemain /\ ProvenanceRemain /\ CapabilityRemain
    BY <1>4, PolicyRest DEF PolicyFields
  <2>2. AssuranceRemain
    BY <1>4, <2>1 DEF AssuranceRemain, AssuranceCause, Same, PolicyFields, Policy
  <2> QED
    BY <2>1, <2>2, AllRemain
<1>5. CASE Policy([policy EXCEPT !.signatures = TRUE])
  <2>1. /\ policy'.signatures = TRUE
        /\ Same(policy, policy', PolicyFields \ {"signatures"})
        /\ OtherRemain /\ AssuranceRemain /\ ProvenanceRemain /\ CapabilityRemain
    BY <1>5, PolicyRest DEF PolicyFields
  <2>2. SignatureRemain
    BY <1>5, <2>1 DEF SignatureRemain, SignatureCause, Same, PolicyFields, Policy
  <2> QED
    BY <2>1, <2>2, AllRemain
<1>6. CASE Policy([policy EXCEPT !.provenance = TRUE])
  <2>1. /\ policy'.provenance = TRUE
        /\ Same(policy, policy', PolicyFields \ {"provenance"})
        /\ OtherRemain /\ AssuranceRemain /\ SignatureRemain /\ CapabilityRemain
    BY <1>6, PolicyRest DEF PolicyFields
  <2>2. ProvenanceRemain
    BY <1>6, <2>1 DEF ProvenanceRemain, ProvenanceCause, Same, PolicyFields, Policy
  <2> QED
    BY <2>1, <2>2, AllRemain
<1>7. CASE \E i \in 2 .. Len(policy.trustedIdentities) :
              Policy([policy EXCEPT !.trustedIdentities = RemoveAt(@, i)])
  <2>1. PICK i \in 2 .. Len(policy.trustedIdentities) :
           Policy([policy EXCEPT !.trustedIdentities = RemoveAt(policy.trustedIdentities, i)])
    BY <1>7
  <2>2. PICK new : new = RemoveAt(policy.trustedIdentities, i)
    OBVIOUS
  <2>3. Policy([policy EXCEPT !.trustedIdentities = new])
    BY <2>1, <2>2
  <2>4. /\ policy'.trustedIdentities = new
        /\ Same(policy, policy', PolicyFields \ {"trustedIdentities"})
        /\ OtherRemain /\ AssuranceRemain /\ ProvenanceRemain /\ CapabilityRemain
    BY <2>3, PolicyRest DEF PolicyFields
  <2>5. policy.trustedIdentities \in Seq(Identities)
    BY DEF Typed, Policies
  <2>6. /\ new # <<>> /\ policy.trustedIdentities # <<>>
        /\ Head(new) = Head(policy.trustedIdentities)
        /\ \A j \in DOMAIN new :
              \E k \in DOMAIN policy.trustedIdentities : new[j] = policy.trustedIdentities[k]
    <3>1. PICK ids \in Seq(Identities) : ids = policy.trustedIdentities
      BY <2>5
    <3>2. i \in 2 .. Len(ids)
      BY <3>1
    <3>3. /\ RemoveAt(ids, i) # <<>> /\ ids # <<>>
          /\ Head(RemoveAt(ids, i)) = Head(ids)
          /\ \A j \in DOMAIN RemoveAt(ids, i) :
                \E k \in DOMAIN ids : RemoveAt(ids, i)[j] = ids[k]
      BY ONLY <3>2, LeftOut
    <3> QED
      BY <2>2, <3>1, <3>3, Zenon
  <2>7. ASSUME NEW b, NEW d, ~VerifySigstore(b, d, policy.trustedIdentities, Roots, now)
        PROVE  ~VerifySigstore(b, d, new, Roots, now)
    BY <2>6, <2>7 DEF VerifySigstore
  <2>8. /\ policy'.signatures = policy.signatures
        /\ UNCHANGED <<request, trustDir, now>>
    BY <2>3, <2>4 DEF Same, PolicyFields, Policy
  <2>9. SignatureRemain
    BY <2>4, <2>6, <2>7, <2>8 DEF SignatureRemain, SignatureCause, Roots
  <2> QED
    BY <2>4, <2>9, AllRemain
<1>8. CASE \E k \in Risks :
              /\ riskRank(k) < riskRank(policy.maximumRisk)
              /\ Policy([policy EXCEPT !.maximumRisk = k])
  <2>1. PICK k : riskRank(k) < riskRank(policy.maximumRisk) /\ Policy([policy EXCEPT !.maximumRisk = k])
    BY <1>8
  <2>2. /\ policy'.maximumRisk = k
        /\ Same(policy, policy', PolicyFields \ {"maximumRisk"})
        /\ AssuranceRemain /\ SignatureRemain /\ ProvenanceRemain /\ CapabilityRemain
    BY <2>1, PolicyRest DEF PolicyFields
  <2>3. riskRank(request.risk) > riskRank(policy.maximumRisk)
        => riskRank(request.risk) > riskRank(k)
    BY <2>1, RanksAreNumbers
  <2>4. OtherRemain
    BY <2>1, <2>2, <2>3 DEF OtherRemain, OtherCause, Same, PolicyFields, Policy
  <2> QED
    BY <2>2, <2>4, AllRemain
<1>9. CASE \E c \in Capabilities, f \in {"deny", "approvalRequired"} :
              Policy([policy EXCEPT ![f] = @ \cup {c}])
  <2>1. PICK c \in Capabilities, f \in {"deny", "approvalRequired"} :
           Policy([policy EXCEPT ![f] = policy[f] \cup {c}])
    BY <1>9
  <2>2. /\ policy'[f] = policy[f] \cup {c}
        /\ Same(policy, policy', PolicyFields \ {f})
        /\ OtherRemain /\ AssuranceRemain /\ SignatureRemain /\ ProvenanceRemain
    BY <2>1, PolicyRest DEF PolicyFields
  <2>3. CapabilityRemain
    BY <2>1, <2>2 DEF CapabilityRemain, CapabilityCause, Same, PolicyFields, Policy
  <2> QED
    BY <2>2, <2>3, AllRemain
<1> QED
  BY <1>1, <1>2, <1>3, <1>4, <1>5, <1>6, <1>7, <1>8, <1>9 DEF StricterPolicy

(* A lookup that finds a block or fails.                                   *)
LEMMA BlockHardens ==
    ASSUME Blocked
    PROVE  Hardens
<1>1. revoked' \in {"yes", "error"} \/ quarantined' \in {"yes", "error"}
  BY DEF Blocked
<1>2. PICK c : OtherCause(c, policy', request', revoked', quarantined') /\ c \notin Soft
  BY <1>1 DEF OtherCause, Soft
<1>3. Cause(c)'
  BY <1>2, Zenon DEF Cause
<1> QED
  BY <1>2, <1>3, Zenon DEF Hardens
(* Every certificate of the request has been issued: one that is yet to    *)
(* become valid would turn a denial into something better by itself.       *)
Issued(r) ==
    /\ r.sigstore # Absent /\ r.sigstore.cert \notin {Absent, BadPEM}
          => r.sigstore.cert.notBefore <= 1
    /\ r.github # Absent /\ r.github.cert \notin {Absent, BadPEM}
          => r.github.cert.notBefore <= 1

LEMMA SigstoreIssued ==
    ASSUME Typed, Issued(request), NEW x, Evidence([request EXCEPT !.sigstore = x]),
           \/ x = Absent \/ x.cert = BadPEM
           \/ request.sigstore # Absent /\ x.cert = request.sigstore.cert
           \/ /\ request.sigstore # Absent /\ request.sigstore.cert \notin {Absent, BadPEM}
              /\ x.cert.notBefore = request.sigstore.cert.notBefore
    PROVE  Issued(request')
<1>1. request'.sigstore = x /\ request'.github = request.github
  BY RequestRest DEF Same, RequestFields
<1> QED
  BY <1>1 DEF Issued

LEMMA AttestationIssued ==
    ASSUME Typed, Issued(request), NEW x, Evidence([request EXCEPT !.github = x]),
           \/ x = Absent \/ x.cert = BadPEM
           \/ request.github # Absent /\ x.cert = request.github.cert
           \/ /\ request.github # Absent /\ request.github.cert \notin {Absent, BadPEM}
              /\ x.cert.notBefore = request.github.cert.notBefore
    PROVE  Issued(request')
<1>1. request'.github = x /\ request'.sigstore = request.sigstore
  BY RequestRest DEF Same, RequestFields
<1> QED
  BY <1>1 DEF Issued

LEMMA OthersIssued ==
    ASSUME Typed, Issued(request), NEW f \in RequestFields \ {"sigstore", "github"}, NEW x,
           Evidence([request EXCEPT ![f] = x])
    PROVE  Issued(request')
<1>1. request'.github = request.github /\ request'.sigstore = request.sigstore
  BY RequestRest DEF Same, RequestFields
<1> QED
  BY <1>1 DEF Issued

LEMMA PayloadsIssued ==
    ASSUME Typed, Issued(request), WorsePayload
    PROVE  Issued(request')
<1> DEFINE s == request.sigstore
           g == request.github
<1>1. CASE \E f \in {"sigstore", "dsse", "github"} : Evidence([request EXCEPT ![f] = Absent])
  BY <1>1, SigstoreIssued, AttestationIssued, OthersIssued DEF RequestFields
<1>2. CASE /\ s # Absent
           /\ \/ \E k \in Keys \ {s.signedBy} :
                    Evidence([request EXCEPT !.sigstore = [s EXCEPT !.signedBy = k]])
              \/ Evidence([request EXCEPT !.sigstore = [s EXCEPT !.over = BadDigest]])
              \/ Evidence([request EXCEPT !.sigstore = [s EXCEPT !.cert = BadPEM]])
  <2>1. s \in SigstoreBundles
    BY <1>2, Payloads
  <2>2. /\ \A k : [s EXCEPT !.signedBy = k].cert = s.cert
        /\ [s EXCEPT !.over = BadDigest].cert = s.cert
        /\ [s EXCEPT !.cert = BadPEM].cert = BadPEM
    BY <2>1 DEF SigstoreBundles
  <2>3. PICK x : /\ Evidence([request EXCEPT !.sigstore = x])
                 /\ x.cert = s.cert \/ x.cert = BadPEM
    BY <1>2, <2>2, Zenon
  <2> QED
    BY <1>2, <2>3, SigstoreIssued
<1>3. CASE /\ s # Absent /\ s.cert \notin {Absent, BadPEM}
           /\ \/ Evidence([request EXCEPT !.sigstore = [s EXCEPT !.cert = [s.cert EXCEPT !.names = {}]]])
              \/ \E t \in Times :
                    Evidence([request EXCEPT
                                 !.sigstore = [s EXCEPT !.cert = [s.cert EXCEPT !.notAfter = t]]])
  <2>1. s \in SigstoreBundles /\ s.cert \in Certificates
    BY <1>3, Payloads
  <2>2. PICK c \in Certificates :
           /\ c.notBefore = s.cert.notBefore
           /\ Evidence([request EXCEPT !.sigstore = [s EXCEPT !.cert = c]])
    <3>1. /\ [s.cert EXCEPT !.names = {}] \in Certificates
          /\ [s.cert EXCEPT !.names = {}].notBefore = s.cert.notBefore
          /\ \A t \in Times : /\ [s.cert EXCEPT !.notAfter = t] \in Certificates
                              /\ [s.cert EXCEPT !.notAfter = t].notBefore = s.cert.notBefore
      BY <2>1, CertificateWith DEF Same
    <3> QED
      BY <1>3, <3>1, Zenon
  <2>3. [s EXCEPT !.cert = c].cert = c
    BY <2>1, BundleWith
  <2> QED
    BY <1>3, <2>2, <2>3, SigstoreIssued
<1>4. CASE /\ request.dsse # Absent
           /\ \/ Evidence([request EXCEPT !.dsse.inToto = FALSE])
              \/ \E k \in request.dsse.signers :
                    Evidence([request EXCEPT !.dsse.signers = @ \ {k}])
  <2>1. PICK x : Evidence([request EXCEPT !.dsse = x])
    BY <1>4
  <2> QED
    BY <2>1, OthersIssued DEF RequestFields
<1>5. CASE /\ g # Absent
           /\ \/ Evidence([request EXCEPT !.github = [g EXCEPT !.subject = BadDigest]])
              \/ Evidence([request EXCEPT !.github = [g EXCEPT !.origin = FALSE]])
              \/ Evidence([request EXCEPT !.github = [g EXCEPT !.cert = BadPEM]])
  <2>1. g \in GitHubAttestations
    BY <1>5, Payloads
  <2>2. /\ [g EXCEPT !.subject = BadDigest].cert = g.cert
        /\ [g EXCEPT !.origin = FALSE].cert = g.cert
        /\ [g EXCEPT !.cert = BadPEM].cert = BadPEM
    BY <2>1 DEF GitHubAttestations
  <2>3. PICK x : /\ Evidence([request EXCEPT !.github = x])
                 /\ x.cert = g.cert \/ x.cert = BadPEM
    BY <1>5, <2>2, Zenon
  <2> QED
    BY <1>5, <2>3, AttestationIssued
<1>6. CASE /\ g # Absent /\ g.cert \notin {Absent, BadPEM}
           /\ Evidence([request EXCEPT !.github = [g EXCEPT !.cert = [g.cert EXCEPT !.forServers = FALSE]]])
  <2>1. g \in GitHubAttestations /\ g.cert \in Certificates
    BY <1>6, Payloads
  <2>2. /\ [g.cert EXCEPT !.forServers = FALSE] \in Certificates
        /\ [g.cert EXCEPT !.forServers = FALSE].notBefore = g.cert.notBefore
    BY <2>1 DEF Certificates
  <2>3. [g EXCEPT !.cert = [g.cert EXCEPT !.forServers = FALSE]].cert
          = [g.cert EXCEPT !.forServers = FALSE]
    BY <2>1, <2>2, AttestationWith
  <2>4. PICK x : /\ Evidence([request EXCEPT !.github = x])
                 /\ x.cert.notBefore = g.cert.notBefore
    BY <1>6, <2>2, <2>3, Zenon
  <2> QED
    BY <1>6, <2>4, AttestationIssued
<1> QED
  BY <1>1, <1>2, <1>3, <1>4, <1>5, <1>6 DEF WorsePayload

LEMMA StepKeepsIssued ==
    ASSUME Typed, Issued(request), [Next]_vars
    PROVE  Issued(request')
<1>1. CASE WorseAssurance
  <2>0. PICK f \in {"evidenceFor", "provider", "version", "completed", "complete", "passed"} :
           \E x : Evidence([request EXCEPT ![f] = x])
    BY <1>1 DEF WorseAssurance
  <2>1. PICK x : Evidence([request EXCEPT ![f] = x])
    BY <2>0
  <2> QED
    BY <2>1, OthersIssued DEF RequestFields
<1>2. CASE WorsePayload
  BY <1>2, PayloadsIssued
<1>3. CASE WorseSkill
  <2>0. PICK f \in {"risk", "capabilities", "approvals", "approvalRecords"} :
           \E x : Evidence([request EXCEPT ![f] = x])
    BY <1>3 DEF WorseSkill
  <2>1. PICK x : Evidence([request EXCEPT ![f] = x])
    BY <2>0
  <2> QED
    BY <2>1, OthersIssued DEF RequestFields
<1>4. CASE LessTrust \/ StricterPolicy \/ Blocked \/ Tick \/ Finished \/ UNCHANGED vars
  <2>1. UNCHANGED request
    BY <1>4 DEF LessTrust, StricterPolicy, Policy, Blocked, Tick, Finished, vars
  <2> QED
    BY <2>1
<1> QED
  BY <1>1, <1>2, <1>3, <1>4 DEF Next

(* Time passes.                                                            *)
LEMMA TimeHardens ==
    ASSUME Typed, Issued(request), Tick
    PROVE  Hardens
<1>1. /\ UNCHANGED <<policy, request, trustDir, revoked, quarantined>>
      /\ now \in Int /\ 1 <= now /\ now' = now + 1
  BY RecordsAssumption DEF Tick, Typed, Times
<1>2. OtherRemain
  BY <1>1 DEF OtherRemain
<1>3. AssuranceRemain
  <2>1. /\ request.completed \in Int
        /\ policy.maximumAge # NoMaxAge => policy.maximumAge \in Int
    BY RecordsAssumption DEF Typed, Requests, Policies, Times
  <2>2. policy.maximumAge # NoMaxAge /\ now - request.completed > policy.maximumAge
        => now' - request.completed > policy.maximumAge
    BY <1>1, <2>1
  <2> QED
    BY <1>1, <2>2 DEF AssuranceRemain, AssuranceCause
<1>4. CapabilityRemain
  <2>1. \A a \in request.approvalRecords : a.expires \in Int
    BY DEF Typed, Requests, ApprovalRecords, Times
  <2>2. \A cap : Approved(request', cap, now') => Approved(request, cap, now)
    BY <1>1, <2>1 DEF Approved
  <2> QED
    BY <1>1, <2>2 DEF CapabilityRemain, CapabilityCause
<1>5. ASSUME NEW c \in Certificates, c.notBefore <= 1, InForce(c, now')
      PROVE  InForce(c, now)
  <2>1. c.notBefore \in Int /\ c.notAfter \in Int
    BY DEF Certificates, Times
  <2> QED
    BY <1>1, <1>5, <2>1 DEF InForce
<1>6. SignatureRemain
  <2>1. ASSUME request.sigstore # Absent,
               VerifySigstore(request.sigstore, request.digest, policy.trustedIdentities, Roots, now')
        PROVE  VerifySigstore(request.sigstore, request.digest, policy.trustedIdentities, Roots, now)
    <3>1. CASE request.sigstore.cert \in {Absent, BadPEM}
      BY <2>1, <3>1 DEF VerifySigstore
    <3>2. CASE request.sigstore.cert \notin {Absent, BadPEM}
      <4>1. request.sigstore.cert \in Certificates /\ request.sigstore.cert.notBefore <= 1
        BY <2>1, <3>2, Payloads DEF Issued
      <4>2. InForce(request.sigstore.cert, now') => InForce(request.sigstore.cert, now)
        BY <1>5, <4>1
      <4> QED
        BY <2>1, <3>2, <4>2 DEF VerifySigstore
    <3> QED
      BY <3>1, <3>2
  <2> QED
    BY <1>1, <2>1, Zenon DEF SignatureRemain, SignatureCause, Roots
<1>7. ProvenanceRemain
  <2>1. ASSUME request.github # Absent,
               VerifyGitHubAttestation(request.github, request.digest, Roots, now')
        PROVE  VerifyGitHubAttestation(request.github, request.digest, Roots, now)
    <3>1. CASE request.github.cert \in {Absent, BadPEM}
      BY <2>1, <3>1 DEF VerifyGitHubAttestation
    <3>2. CASE request.github.cert \notin {Absent, BadPEM}
      <4>1. request.github.cert \in Certificates /\ request.github.cert.notBefore <= 1
        BY <2>1, <3>2, Payloads DEF Issued
      <4>2. InForce(request.github.cert, now') => InForce(request.github.cert, now)
        BY <1>5, <4>1
      <4> QED
        BY <2>1, <3>2, <4>2 DEF VerifyGitHubAttestation
    <3> QED
      BY <3>1, <3>2
  <2> QED
    BY <1>1, <2>1, Zenon DEF ProvenanceRemain, ProvenanceCause, Roots
<1> QED
  BY <1>2, <1>3, <1>4, <1>6, <1>7, AllRemain

LEMMA DigestStays ==
    ASSUME Typed, [Next]_vars
    PROVE  request'.digest = request.digest
<1>1. ASSUME NEW f \in RequestFields \ {"digest"}, NEW x, Evidence([request EXCEPT ![f] = x])
      PROVE  request'.digest = request.digest
  BY <1>1, RequestRest DEF Same, RequestFields
<1>2. CASE WorseAssurance
  <2>0. PICK f \in {"evidenceFor", "provider", "version", "completed", "complete", "passed"} :
           \E x : Evidence([request EXCEPT ![f] = x])
    BY <1>2 DEF WorseAssurance
  <2>1. PICK x : Evidence([request EXCEPT ![f] = x])
    BY <2>0
  <2> QED
    BY <1>1, <2>1 DEF RequestFields
<1>3. CASE WorsePayload
  BY <1>3 DEF WorsePayload, Evidence, Typed, Requests
<1>4. CASE WorseSkill
  BY <1>4 DEF WorseSkill, Evidence, Typed, Requests
<1>5. CASE LessTrust \/ StricterPolicy \/ Blocked \/ Tick \/ Finished \/ UNCHANGED vars
  BY <1>5 DEF LessTrust, StricterPolicy, Policy, Blocked, Tick, Finished, vars
<1> QED
  BY <1>2, <1>3, <1>4, <1>5 DEF Next

LEMMA StepHardens ==
    ASSUME Typed, Issued(request), Next
    PROVE  Hardens
<1>1. CASE request.digest = BadDigest
  <2>1. request'.digest = BadDigest
    BY <1>1, DigestStays
  <2> QED
    BY <2>1, BadDigestHardens
<1>2. CASE request.digest # BadDigest /\ (WorseAssurance \/ WorsePayload)
  BY <1>2, AssuranceHardens, PayloadHardens
<1>3. CASE LessTrust \/ WorseSkill \/ StricterPolicy \/ Blocked \/ Tick
  BY <1>3, TrustHardens, SkillHardens, StricterHardens, BlockHardens, TimeHardens
<1>4. CASE Finished
  <2>1. UNCHANGED <<policy, request, trustDir, revoked, quarantined, now>>
    BY <1>4 DEF Finished, vars
  <2> QED
    BY <2>1, AllRemain DEF OtherRemain, AssuranceRemain, SignatureRemain, ProvenanceRemain,
                           CapabilityRemain
<1> QED
  BY <1>1, <1>2, <1>3, <1>4 DEF Next

(* Worse or older evidence, a stricter policy, a block and a store that    *)
(* fails never make a decision better, if no certificate to start with is  *)
(* from the future (evaluator.go, Evaluate).                               *)
THEOREM DecisionsNeverLoosen ==
    ASSUME \A start \in Start : Issued(start.request)
    PROVE  Spec => NeverLoosens
<1>1. Init => Typed /\ Issued(request)
  BY InitTyped DEF Init
<1>2. Typed /\ Issued(request) /\ [Next]_vars => (Typed /\ Issued(request))'
  BY StepKeepsTyped, StepKeepsIssued
<1>3. Typed /\ Typed' /\ Issued(request) /\ [Next]_vars => [Rank(Outcome') >= Rank(Outcome)]_vars
  BY StepHardens, HardensRanks
<1> QED
  BY <1>1, <1>2, <1>3, PTL DEF Spec, NeverLoosens
=============================================================================
