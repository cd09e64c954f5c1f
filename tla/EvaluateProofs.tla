--------------------------- MODULE EvaluateProofs ---------------------------
(***************************************************************************)
(* What Evaluate decides, for every policy and request: the worst of what  *)
(* its checks found, in whatever order they found it.                      *)
(***************************************************************************)
EXTENDS Admission, SequenceTheorems, WellFoundedInduction, TLAPS

(* The least number of a set.                                              *)
LEMMA LeastNumber ==
    ASSUME NEW T \in SUBSET Nat, T # {}
    PROVE  \E x \in T : \A y \in T : x <= y
<1>1. PICK x \in T : \A y \in T : ~(<<y, x>> \in OpToRel(<, Nat))
  BY WFMin, NatLessThanWellFounded
<1>2. \A y \in T : ~(y < x)
  BY <1>1 DEF OpToRel
<1> QED
  BY <1>2

(* The worst decision that the reasons R call for.                         *)
Worst(R) ==
    IF R \ {"APPROVAL-REQUIRED", "ASSURANCE-VERSION", "ASSURANCE-STALE"} # {} THEN "DENY"
    ELSE IF "APPROVAL-REQUIRED" \in R THEN "REVIEW"
    ELSE IF R # {} THEN "REASSESS" ELSE "ALLOW"

(* One more reason makes of the worst decision what the closures make.     *)
LEMMA WorstOfOneMore ==
    ASSUME NEW R, NEW c
    PROVE  Worst(R \cup {c}) = Raise(Worst(R), c)
  BY DEF Worst, Raise, deny, review, reassess

LEMMA MaxOfPositions ==
    ASSUME NEW n \in Nat, NEW S \in SUBSET (1 .. n), S # {}
    PROVE  Max(S) \in S /\ \A y \in S : y <= Max(S)
<1>1. \E x \in S : \A y \in S : x >= y
  <2> DEFINE Bounds == {k \in Nat : \A y \in S : y <= k}
  <2>1. n \in Bounds
    OBVIOUS
  <2>2. PICK k \in Bounds : \A j \in Bounds : k <= j
    BY <2>1, LeastNumber
  <2>3. k \in S
    <3> SUFFICES ASSUME k \notin S PROVE FALSE
      OBVIOUS
    <3>1. PICK y \in S : y \in 1 .. n /\ y <= k
      OBVIOUS
    <3>2. k - 1 \in Nat /\ \A z \in S : z <= k - 1
      BY <3>1
    <3> QED
      BY <2>2, <3>1, <3>2
  <2> QED
    BY <2>3
<1> QED
  BY <1>1 DEF Max

LEMMA FoldIsWorst ==
    ASSUME NEW n \in Nat, NEW s, DOMAIN s = 1 .. n
    PROVE  FoldLeft(Raise, "ALLOW", s) = Worst(Range(s))
<1> DEFINE Step(g, S) == IF S = {} THEN "ALLOW" ELSE Raise(g[S \ {Max(S)}], s[Max(S)])
           Eq(g) == g = [S \in SUBSET DOMAIN s |-> Step(g, S)]
           W == [S \in SUBSET (1 .. n) |-> Worst({s[i] : i \in S})]
<1>1. FoldLeft(Raise, "ALLOW", s) = (CHOOSE g : Eq(g))[DOMAIN s]
  BY DEF FoldLeft, MapThenFoldSet
<1>2. Eq(W)
  <2>1. ASSUME NEW S \in SUBSET (1 .. n) PROVE W[S] = Step(W, S)
    <3>1. CASE S = {}
      BY <3>1 DEF Worst
    <3>2. CASE S # {}
      <4>1. Max(S) \in S
        BY <3>2, MaxOfPositions
      <4>2. {s[i] : i \in S} = {s[i] : i \in S \ {Max(S)}} \cup {s[Max(S)]}
        BY <4>1
      <4>3. W[S] = Raise(Worst({s[i] : i \in S \ {Max(S)}}), s[Max(S)])
        BY <4>2, WorstOfOneMore
      <4>4. W[S \ {Max(S)}] = Worst({s[i] : i \in S \ {Max(S)}})
        OBVIOUS
      <4> QED
        BY <3>2, <4>3, <4>4
    <3> QED
      BY <3>1, <3>2
  <2> QED
    BY <2>1
<1>3. PICK g : Eq(g) /\ FoldLeft(Raise, "ALLOW", s) = g[1 .. n]
  <2>1. Eq(CHOOSE g : Eq(g))
    BY <1>2
  <2> HIDE DEF Eq
  <2> QED
    BY <1>1, <2>1
<1>4. g[1 .. n] = W[1 .. n]
  <2> SUFFICES ASSUME g[1 .. n] # W[1 .. n] PROVE FALSE
    OBVIOUS
  <2>1. PICK k \in 0 .. n :
           /\ g[1 .. k] # W[1 .. k]
           /\ \A j \in 0 .. n : g[1 .. j] # W[1 .. j] => k <= j
    <3> HIDE DEF W
    <3> DEFINE Wrong == {k \in 0 .. n : g[1 .. k] # W[1 .. k]}
    <3>1. Wrong \in SUBSET Nat /\ n \in Wrong
      OBVIOUS
    <3>2. \E k \in Wrong : \A j \in Wrong : k <= j
      <4> HIDE DEF Wrong
      <4> QED
        BY <3>1, LeastNumber
    <3> QED
      BY <3>2
  <2>2. 1 .. k \in SUBSET (1 .. n)
    OBVIOUS
  <2>3. g[1 .. k] = Step(g, 1 .. k) /\ W[1 .. k] = Step(W, 1 .. k)
    BY <1>2, <1>3, <2>2
  <2>4. k # 0 /\ k \in 1 .. k /\ 1 .. k # {}
    <3>1. 1 .. 0 = {}
      OBVIOUS
    <3>2. k # 0
      <4> HIDE DEF W
      <4> QED
        BY <2>1, <2>3, <3>1
    <3>3. k \in 1 .. k
      BY <3>2
    <3> QED
      BY <3>2, <3>3
  <2>5. Max(1 .. k) = k
    <3>1. Max(1 .. k) \in 1 .. k /\ \A y \in 1 .. k : y <= Max(1 .. k)
      BY <2>2, <2>4, MaxOfPositions
    <3> QED
      BY <2>4, <3>1
  <2>6. (1 .. k) \ {k} = 1 .. k - 1 /\ k - 1 \in 0 .. n
    BY <2>2, <2>4
  <2>7. g[1 .. k - 1] = W[1 .. k - 1]
    <3> HIDE DEF W
    <3> QED
      BY <2>1, <2>6
  <2> HIDE DEF W
  <2> QED
    BY <2>1, <2>3, <2>4, <2>5, <2>6, <2>7
<1>5. W[1 .. n] = Worst(Range(s))
  BY DEF Range
<1> QED
  BY <1>3, <1>4, <1>5

-----------------------------------------------------------------------------
(* The lists of reasons.                                                   *)

(* g is what FlattenSeq builds from the first k parts of q.                *)
Flattens(q, g, k) ==
    g = [i \in 1 .. k |-> IF i = 1 THEN q[i] ELSE g[i - 1] \o q[i]]

LEMMA FlattensOneMore ==
    ASSUME NEW q, NEW k \in Nat \ {0}, NEW g, Flattens(q, g, k - 1)
    PROVE  \E h : Flattens(q, h, k)
<1> DEFINE Add(a, b) == a \o b
           h == [i \in 1 .. k |-> IF i = 1 THEN q[i] ELSE Add(g[i - 1], q[i])]
<1>1. \A i \in 1 .. k - 1 : g[i] = IF i = 1 THEN q[i] ELSE Add(g[i - 1], q[i])
  BY DEF Flattens
<1> HIDE DEF Add
<1>2. ASSUME NEW i \in 1 .. k, i # 1 PROVE h[i - 1] = g[i - 1]
  <2>1. i - 1 \in 1 .. k - 1 /\ i - 1 \in 1 .. k
    BY <1>2
  <2> QED
    BY <1>1, <2>1
<1>3. h = [i \in 1 .. k |-> IF i = 1 THEN q[i] ELSE Add(h[i - 1], q[i])]
  BY <1>2
<1>4. h = [i \in 1 .. k |-> IF i = 1 THEN q[i] ELSE h[i - 1] \o q[i]]
  <2> HIDE DEF h
  <2> QED
    BY <1>3 DEF Add
<1> HIDE DEF h
<1> QED
  BY <1>4 DEF Flattens

LEMMA FlattensAll ==
    ASSUME NEW q, NEW n \in Nat
    PROVE  \E g : Flattens(q, g, n)
<1> DEFINE Wrong == {k \in Nat : ~\E g : Flattens(q, g, k)}
<1>1. Wrong = {}
  <2> SUFFICES ASSUME Wrong # {} PROVE FALSE
    OBVIOUS
  <2>1. PICK k \in Wrong : \A j \in Wrong : k <= j
    <3>1. Wrong \in SUBSET Nat
      OBVIOUS
    <3> HIDE DEF Wrong
    <3> QED
      BY <3>1, LeastNumber
  <2>2. k # 0
    <3>1. Flattens(q, [i \in 1 .. 0 |-> 0], 0)
      BY DEF Flattens
    <3> QED
      BY <3>1
  <2>3. k - 1 \in Nat /\ k - 1 \notin Wrong
    BY <2>1, <2>2
  <2>4. PICK g : Flattens(q, g, k - 1)
    BY <2>3
  <2> QED
    BY <2>2, <2>4, FlattensOneMore
<1> QED
  BY <1>1

(* FlattenSeq lists what its parts list.                                   *)
LEMMA FlattenIsUnion ==
    ASSUME NEW A, NEW q \in Seq(Seq(A))
    PROVE  /\ FlattenSeq(q) \in Seq(A)
           /\ Range(FlattenSeq(q)) = UNION {Range(q[i]) : i \in DOMAIN q}
<1>1. PICK n \in Nat : n = Len(q) /\ DOMAIN q = 1 .. n
  OBVIOUS
<1>2. \A i \in 1 .. n : q[i] \in Seq(A)
  BY <1>1
<1>3. CASE n = 0
  <2>1. q = <<>>
    BY <1>1, <1>3
  <2>2. FlattenSeq(q) = q
    BY <1>1, <1>3 DEF FlattenSeq
  <2> QED
    <3>1. DOMAIN q = {} /\ Range(q) = {} /\ q \in Seq(A)
      BY <2>1 DEF Range
    <3>2. UNION {Range(q[i]) : i \in {}} = {}
      OBVIOUS
    <3> QED
      BY <2>2, <3>1, <3>2
<1>4. CASE n # 0
  <2>1. FlattenSeq(q) = (CHOOSE g : Flattens(q, g, n))[n]
    BY <1>1, <1>4 DEF FlattenSeq, Flattens
  <2>2. PICK g : Flattens(q, g, n) /\ FlattenSeq(q) = g[n]
    BY <2>1, FlattensAll
  <2>3. \A i \in 1 .. n : g[i] = IF i = 1 THEN q[i] ELSE g[i - 1] \o q[i]
    BY <2>2 DEF Flattens
  <2> DEFINE Right(k) == /\ g[k] \in Seq(A)
                         /\ Range(g[k]) = UNION {Range(q[i]) : i \in 1 .. k}
             Wrong == {k \in 1 .. n : ~Right(k)}
  <2>4. Wrong = {}
    <3> SUFFICES ASSUME Wrong # {} PROVE FALSE
      OBVIOUS
    <3>1. PICK k \in Wrong : \A j \in Wrong : k <= j
      <4>1. Wrong \in SUBSET Nat
        OBVIOUS
      <4> HIDE DEF Wrong
      <4> QED
        BY <4>1, LeastNumber
    <3>2. k \in 1 .. n /\ ~Right(k)
      OBVIOUS
    <3>3. q[k] \in Seq(A)
      BY <1>2, <3>2
    <3>4. k # 1
      <4> SUFFICES ASSUME k = 1 PROVE FALSE
        OBVIOUS
      <4>1. g[k] = q[k]
        BY <2>3, <3>2
      <4>2. 1 .. k = {k}
        OBVIOUS
      <4>3. UNION {Range(q[i]) : i \in {k}} = Range(q[k])
        OBVIOUS
      <4> QED
        BY <3>2, <3>3, <4>1, <4>2, <4>3
    <3>5. g[k] = g[k - 1] \o q[k]
      BY <2>3, <3>2, <3>4
    <3>6. k - 1 \in 1 .. n /\ ~(k <= k - 1)
      BY <3>2, <3>4
    <3>7. Right(k - 1)
      <4>1. k - 1 \notin Wrong
        <5> HIDE DEF Wrong
        <5> QED
          BY <3>1, <3>6
      <4> HIDE DEF Right
      <4> QED
        BY <3>6, <4>1
    <3>8. g[k] \in Seq(A) /\ Range(g[k]) = Range(g[k - 1]) \cup Range(q[k])
      BY <3>3, <3>5, <3>7, ConcatProperties, RangeConcatenation
    <3>9. 1 .. k = (1 .. k - 1) \cup {k}
      BY <3>2, <3>4
    <3>10. UNION {Range(q[i]) : i \in (1 .. k - 1) \cup {k}}
             = (UNION {Range(q[i]) : i \in 1 .. k - 1}) \cup Range(q[k])
      OBVIOUS
    <3> QED
      BY <3>2, <3>7, <3>8, <3>9, <3>10
  <2>5. Right(n)
    BY <1>4, <2>4
  <2> QED
    BY <1>1, <2>2, <2>5
<1> QED
  BY <1>3, <1>4

(* The codes of the reasons.                                               *)
Codes ==
    {"SUBJECT-DIGEST-INVALID", "EVIDENCE-SUBJECT-MISMATCH", "DIGEST-REVOKED",
     "REVOCATION-STATE-UNAVAILABLE", "DIGEST-QUARANTINED",
     "QUARANTINE-STATE-UNAVAILABLE", "ENVIRONMENT-DENIED", "ASSURANCE-PROVIDER",
     "ASSURANCE-VERSION", "ASSURANCE-INCOMPLETE", "ASSURANCE-FAILED",
     "ASSURANCE-STALE", "SIGSTORE-INVALID", "DSSE-INVALID", "SIGNATURE-UNVERIFIED",
     "PROVENANCE-INVALID", "PROVENANCE-UNVERIFIED", "RISK-TOO-HIGH",
     "CAPABILITY-DENIED", "APPROVAL-REQUIRED"}

LEMMA CodesHeld ==
    /\ "SUBJECT-DIGEST-INVALID" \in Codes /\ "EVIDENCE-SUBJECT-MISMATCH" \in Codes
    /\ "DIGEST-REVOKED" \in Codes /\ "REVOCATION-STATE-UNAVAILABLE" \in Codes
    /\ "DIGEST-QUARANTINED" \in Codes /\ "QUARANTINE-STATE-UNAVAILABLE" \in Codes
    /\ "ENVIRONMENT-DENIED" \in Codes /\ "ASSURANCE-PROVIDER" \in Codes
    /\ "ASSURANCE-VERSION" \in Codes /\ "ASSURANCE-INCOMPLETE" \in Codes
    /\ "ASSURANCE-FAILED" \in Codes /\ "ASSURANCE-STALE" \in Codes
    /\ "SIGSTORE-INVALID" \in Codes /\ "DSSE-INVALID" \in Codes
    /\ "SIGNATURE-UNVERIFIED" \in Codes /\ "PROVENANCE-INVALID" \in Codes
    /\ "PROVENANCE-UNVERIFIED" \in Codes /\ "RISK-TOO-HIGH" \in Codes
    /\ "CAPABILITY-DENIED" \in Codes /\ "APPROVAL-REQUIRED" \in Codes
  BY DEF Codes

(* Every check adds a sequence of reason codes.                            *)
LEMMA IfIsSeq ==
    ASSUME NEW A, NEW condition, NEW code \in A
    PROVE  If(condition, code) \in Seq(A)
<1>1. <<code>> \in Seq(A) /\ <<>> \in Seq(A)
  OBVIOUS
<1>2. If(condition, code) \in {<<code>>, <<>>}
  BY Zenon DEF If
<1> QED
  BY <1>1, <1>2

LEMMA ConcatIsSeq ==
    ASSUME NEW A, NEW a \in Seq(A), NEW b \in Seq(A)
    PROVE  a \o b \in Seq(A)
  OBVIOUS

LEMMA LookupIsSeq ==
    ASSUME NEW answer, NEW hit \in Codes, NEW unavailable \in Codes
    PROVE  Lookup(answer, hit, unavailable) \in Seq(Codes)
  BY IfIsSeq, ConcatIsSeq DEF Lookup

LEMMA AssuranceIsSeq ==
    ASSUME NEW p, NEW r, NEW t
    PROVE  AssuranceReasons(p, r, t) \in Seq(Codes)
<1>1. /\ If(r.provider # p.provider, "ASSURANCE-PROVIDER") \in Seq(Codes)
      /\ If(\/ r.version = BadVersion
            \/ Compare(r.version, p.minimumVersion) < 0, "ASSURANCE-VERSION") \in Seq(Codes)
      /\ If(p.requireComplete /\ ~r.complete, "ASSURANCE-INCOMPLETE") \in Seq(Codes)
      /\ If(~r.passed, "ASSURANCE-FAILED") \in Seq(Codes)
      /\ If(/\ p.maximumAge # NoMaxAge
            /\ r.completed = 0 \/ t - r.completed > p.maximumAge, "ASSURANCE-STALE")
           \in Seq(Codes)
  BY CodesHeld, IfIsSeq, Zenon
<1> QED
  BY <1>1, ConcatIsSeq, Zenon DEF AssuranceReasons

LEMMA PayloadsAreSeqs ==
    ASSUME NEW p, NEW r, NEW roots, NEW t
    PROVE  /\ SignatureReasons(p, r, roots, t) \in Seq(Codes)
           /\ ProvenanceReasons(p, r, roots, t) \in Seq(Codes)
<1>1. \A c : /\ If(c, "SIGSTORE-INVALID") \in Seq(Codes)
             /\ If(c, "DSSE-INVALID") \in Seq(Codes)
             /\ If(c, "PROVENANCE-INVALID") \in Seq(Codes)
  BY CodesHeld, IfIsSeq, Zenon
<1>2. /\ <<"SIGNATURE-UNVERIFIED">> \in Seq(Codes) /\ <<"PROVENANCE-UNVERIFIED">> \in Seq(Codes)
      /\ <<>> \in Seq(Codes)
  BY CodesHeld
<1> QED
  BY <1>1, <1>2, Zenon DEF SignatureReasons, ProvenanceReasons

(* What one capability adds.                                               *)
OfCapability(p, r, cap, t) ==
       If(cap \in p.deny, "CAPABILITY-DENIED")
    \o If(cap \in p.approvalRequired /\ ~Approved(r, cap, t), "APPROVAL-REQUIRED")

LEMMA CapabilitiesAreSeq ==
    ASSUME NEW p, NEW r, r.capabilities \in Seq(Capabilities), NEW t
    PROVE  /\ CapabilityReasons(p, r, t) \in Seq(Codes)
           /\ Range(CapabilityReasons(p, r, t))
                 = UNION {Range(OfCapability(p, r, r.capabilities[i], t)) :
                            i \in DOMAIN r.capabilities}
<1> DEFINE q == [i \in DOMAIN r.capabilities |-> OfCapability(p, r, r.capabilities[i], t)]
<1>1. ASSUME NEW cap PROVE OfCapability(p, r, cap, t) \in Seq(Codes)
  <2>1. /\ If(cap \in p.deny, "CAPABILITY-DENIED") \in Seq(Codes)
        /\ If(cap \in p.approvalRequired /\ ~Approved(r, cap, t), "APPROVAL-REQUIRED")
             \in Seq(Codes)
    BY CodesHeld, IfIsSeq, Zenon
  <2> QED
    BY <2>1, ConcatIsSeq DEF OfCapability
<1>2. DOMAIN r.capabilities = 1 .. Len(r.capabilities) /\ Len(r.capabilities) \in Nat
  OBVIOUS
<1>3. q \in Seq(Seq(Codes))
  BY <1>1, <1>2
<1>4. CapabilityReasons(p, r, t) = FlattenSeq(q)
  BY DEF CapabilityReasons, OfCapability
<1>5. /\ DOMAIN q = DOMAIN r.capabilities
      /\ \A i \in DOMAIN r.capabilities : q[i] = OfCapability(p, r, r.capabilities[i], t)
  OBVIOUS
<1> HIDE DEF q
<1> QED
  BY <1>3, <1>4, <1>5, FlattenIsUnion

LEMMA ReasonsAreSeq ==
    ASSUME NEW p, NEW r, r.capabilities \in Seq(Capabilities),
           NEW roots, NEW revoked, NEW quarantined, NEW t, NEW clock
    PROVE  Reasons(p, r, roots, revoked, quarantined, t, clock) \in Seq(Codes)
<1>1. /\ Lookup(revoked, "DIGEST-REVOKED", "REVOCATION-STATE-UNAVAILABLE") \in Seq(Codes)
      /\ Lookup(quarantined, "DIGEST-QUARANTINED", "QUARANTINE-STATE-UNAVAILABLE")
           \in Seq(Codes)
  BY CodesHeld, LookupIsSeq, Zenon
<1>2. /\ If(r.digest = BadDigest, "SUBJECT-DIGEST-INVALID") \in Seq(Codes)
      /\ If(r.evidenceFor # r.digest, "EVIDENCE-SUBJECT-MISMATCH") \in Seq(Codes)
      /\ If(r.env \notin p.environments, "ENVIRONMENT-DENIED") \in Seq(Codes)
      /\ If(riskRank(r.risk) > riskRank(p.maximumRisk), "RISK-TOO-HIGH") \in Seq(Codes)
  BY CodesHeld, IfIsSeq, Zenon
<1> QED
  BY <1>1, <1>2, AssuranceIsSeq, PayloadsAreSeqs, CapabilitiesAreSeq, ConcatIsSeq DEF Reasons

(* For every policy, request, trust roots, answers of the store and time,  *)
(* Evaluate decides the worst that its reasons call for (evaluator.go,     *)
(* Evaluate and its closures deny, review and reassess).                   *)
THEOREM EvaluateIsTheWorst ==
    ASSUME NEW p, NEW r, r.capabilities \in Seq(Capabilities),
           NEW roots, NEW revoked, NEW quarantined, NEW t, NEW clock
    PROVE  Evaluate(p, r, roots, revoked, quarantined, t, clock)
             = Worst(Range(Reasons(p, r, roots, revoked, quarantined, t, clock)))
<1> DEFINE reasons == Reasons(p, r, roots, revoked, quarantined, t, clock)
<1>1. reasons \in Seq(Codes)
  BY ReasonsAreSeq
<1>2. Evaluate(p, r, roots, revoked, quarantined, t, clock)
        = FoldLeft(Raise, "ALLOW", reasons)
  BY DEF Evaluate
<1> HIDE DEF reasons
<1>3. DOMAIN reasons = 1 .. Len(reasons) /\ Len(reasons) \in Nat
  BY <1>1
<1>4. FoldLeft(Raise, "ALLOW", reasons) = Worst(Range(reasons))
  BY <1>3, FoldIsWorst
<1> QED
  BY <1>2, <1>4 DEF reasons

-----------------------------------------------------------------------------
(* What makes the reasons.                                                 *)

LEMMA RangeOfIf ==
    ASSUME NEW condition, NEW code
    PROVE  Range(If(condition, code)) = IF condition THEN {code} ELSE {}
<1>1. Range(<<code>>) = {code} /\ Range(<<>>) = {}
  BY DEF Range
<1>2. CASE condition
  BY <1>1, <1>2, Zenon DEF If
<1>3. CASE ~condition
  BY <1>1, <1>3, Zenon DEF If
<1> QED
  BY <1>2, <1>3

Then(a, b) == a \o b

LEMMA RangeOfTwo ==
    ASSUME NEW A, NEW a \in Seq(A), NEW b \in Seq(A)
    PROVE  Then(a, b) \in Seq(A) /\ Range(Then(a, b)) = Range(a) \cup Range(b)
  BY RangeConcatenation DEF Then

LEMMA RangeOfLookup ==
    ASSUME NEW answer, NEW hit \in Codes, NEW unavailable \in Codes
    PROVE  Range(Lookup(answer, hit, unavailable))
             = (IF answer = "error" THEN {unavailable} ELSE {})
                 \cup (IF answer = "yes" THEN {hit} ELSE {})
<1>1. /\ If(answer = "error", unavailable) \in Seq(Codes)
      /\ If(answer = "yes", hit) \in Seq(Codes)
  BY IfIsSeq, Zenon
<1>2. /\ Range(If(answer = "error", unavailable))
            = IF answer = "error" THEN {unavailable} ELSE {}
      /\ Range(If(answer = "yes", hit)) = IF answer = "yes" THEN {hit} ELSE {}
  BY RangeOfIf, Zenon
<1>3. PICK a \in Seq(Codes), b \in Seq(Codes) :
         a = If(answer = "error", unavailable) /\ b = If(answer = "yes", hit)
  BY <1>1
<1>4. Range(Then(a, b)) = Range(a) \cup Range(b)
  BY RangeOfTwo
<1>5. Lookup(answer, hit, unavailable) = Then(a, b)
  BY <1>3, Zenon DEF Lookup, Then
<1> QED
  BY <1>2, <1>3, <1>4, <1>5, Zenon

(* What the ten checks of Evaluate found.                                  *)
Found(p, r, roots, revoked, quarantined, t, clock) ==
         Range(If(r.digest = BadDigest, "SUBJECT-DIGEST-INVALID"))
    \cup Range(If(r.evidenceFor # r.digest, "EVIDENCE-SUBJECT-MISMATCH"))
    \cup Range(Lookup(revoked, "DIGEST-REVOKED", "REVOCATION-STATE-UNAVAILABLE"))
    \cup Range(Lookup(quarantined, "DIGEST-QUARANTINED", "QUARANTINE-STATE-UNAVAILABLE"))
    \cup Range(If(r.env \notin p.environments, "ENVIRONMENT-DENIED"))
    \cup Range(AssuranceReasons(p, r, t))
    \cup Range(SignatureReasons(p, r, roots, clock))
    \cup Range(ProvenanceReasons(p, r, roots, clock))
    \cup Range(If(riskRank(r.risk) > riskRank(p.maximumRisk), "RISK-TOO-HIGH"))
    \cup Range(CapabilityReasons(p, r, t))

LEMMA RangeOfReasons ==
    ASSUME NEW p, NEW r, r.capabilities \in Seq(Capabilities),
           NEW roots, NEW revoked, NEW quarantined, NEW t, NEW clock
    PROVE  Range(Reasons(p, r, roots, revoked, quarantined, t, clock))
             = Found(p, r, roots, revoked, quarantined, t, clock)
<1>1. PICK a \in Seq(Codes) : a = If(r.digest = BadDigest, "SUBJECT-DIGEST-INVALID")
  BY CodesHeld, IfIsSeq, Zenon
<1>2. PICK b \in Seq(Codes) : b = If(r.evidenceFor # r.digest, "EVIDENCE-SUBJECT-MISMATCH")
  BY CodesHeld, IfIsSeq, Zenon
<1>3. PICK c \in Seq(Codes) :
         c = Lookup(revoked, "DIGEST-REVOKED", "REVOCATION-STATE-UNAVAILABLE")
  BY CodesHeld, LookupIsSeq, Zenon
<1>4. PICK d \in Seq(Codes) :
         d = Lookup(quarantined, "DIGEST-QUARANTINED", "QUARANTINE-STATE-UNAVAILABLE")
  BY CodesHeld, LookupIsSeq, Zenon
<1>5. PICK e \in Seq(Codes) : e = If(r.env \notin p.environments, "ENVIRONMENT-DENIED")
  BY CodesHeld, IfIsSeq, Zenon
<1>6. PICK f \in Seq(Codes) : f = AssuranceReasons(p, r, t)
  BY AssuranceIsSeq
<1>7. PICK g \in Seq(Codes) : g = SignatureReasons(p, r, roots, clock)
  BY PayloadsAreSeqs
<1>8. PICK h \in Seq(Codes) : h = ProvenanceReasons(p, r, roots, clock)
  BY PayloadsAreSeqs
<1>9. PICK i \in Seq(Codes) :
         i = If(riskRank(r.risk) > riskRank(p.maximumRisk), "RISK-TOO-HIGH")
  BY CodesHeld, IfIsSeq, Zenon
<1>10. PICK j \in Seq(Codes) : j = CapabilityReasons(p, r, t)
  BY CapabilitiesAreSeq
<1>11. PICK u \in Seq(Codes) :
          /\ u = Then(Then(Then(Then(a, b), c), d), e)
          /\ Range(u) = Range(a) \cup Range(b) \cup Range(c) \cup Range(d) \cup Range(e)
  <2>1. PICK x \in Seq(Codes) : x = Then(a, b) /\ Range(x) = Range(a) \cup Range(b)
    BY RangeOfTwo
  <2>2. PICK y \in Seq(Codes) : y = Then(x, c) /\ Range(y) = Range(x) \cup Range(c)
    BY RangeOfTwo
  <2>3. PICK z \in Seq(Codes) : z = Then(y, d) /\ Range(z) = Range(y) \cup Range(d)
    BY RangeOfTwo
  <2>4. Then(z, e) \in Seq(Codes) /\ Range(Then(z, e)) = Range(z) \cup Range(e)
    BY RangeOfTwo
  <2> QED
    BY <2>1, <2>2, <2>3, <2>4
<1>12. PICK v \in Seq(Codes) :
          /\ v = Then(Then(Then(Then(u, f), g), h), i)
          /\ Range(v) = Range(u) \cup Range(f) \cup Range(g) \cup Range(h) \cup Range(i)
  <2>1. PICK x \in Seq(Codes) : x = Then(u, f) /\ Range(x) = Range(u) \cup Range(f)
    BY RangeOfTwo
  <2>2. PICK y \in Seq(Codes) : y = Then(x, g) /\ Range(y) = Range(x) \cup Range(g)
    BY RangeOfTwo
  <2>3. PICK z \in Seq(Codes) : z = Then(y, h) /\ Range(z) = Range(y) \cup Range(h)
    BY RangeOfTwo
  <2>4. Then(z, i) \in Seq(Codes) /\ Range(Then(z, i)) = Range(z) \cup Range(i)
    BY RangeOfTwo
  <2> QED
    BY <2>1, <2>2, <2>3, <2>4
<1>13. Range(Then(v, j)) = Range(v) \cup Range(j)
  BY RangeOfTwo
<1>14. Reasons(p, r, roots, revoked, quarantined, t, clock) = Then(v, j)
  BY <1>1, <1>2, <1>3, <1>4, <1>5, <1>6, <1>7, <1>8, <1>9, <1>10, <1>11, <1>12, Zenon
     DEF Reasons, Then
<1>15. Range(Then(v, j))
         = Range(a) \cup Range(b) \cup Range(c) \cup Range(d) \cup Range(e)
             \cup Range(f) \cup Range(g) \cup Range(h) \cup Range(i) \cup Range(j)
  BY <1>11, <1>12, <1>13, Zenon
<1> QED
  BY <1>1, <1>2, <1>3, <1>4, <1>5, <1>6, <1>7, <1>8, <1>9, <1>10, <1>14, <1>15, Zenon DEF Found

(* Nothing is allowed that is no digest or that a lookup did not clear.    *)
LEMMA AllowedIsClear ==
    ASSUME NEW p, NEW r, r.capabilities \in Seq(Capabilities),
           NEW roots, NEW revoked, NEW quarantined, NEW t, NEW clock,
           Evaluate(p, r, roots, revoked, quarantined, t, clock) = "ALLOW"
    PROVE  /\ r.digest # BadDigest
           /\ revoked \notin {"yes", "error"}
           /\ quarantined \notin {"yes", "error"}
<1> DEFINE R == Range(Reasons(p, r, roots, revoked, quarantined, t, clock))
<1>1. R = {}
  <2>1. Worst(R) = "ALLOW"
    BY EvaluateIsTheWorst
  <2> QED
    BY <2>1, Zenon DEF Worst
<1>2. /\ Range(If(r.digest = BadDigest, "SUBJECT-DIGEST-INVALID")) \subseteq R
      /\ Range(Lookup(revoked, "DIGEST-REVOKED", "REVOCATION-STATE-UNAVAILABLE")) \subseteq R
      /\ Range(Lookup(quarantined, "DIGEST-QUARANTINED", "QUARANTINE-STATE-UNAVAILABLE"))
           \subseteq R
  <2>1. R = Found(p, r, roots, revoked, quarantined, t, clock)
    BY RangeOfReasons
  <2> HIDE DEF R
  <2> QED
    BY <2>1, Zenon DEF Found
<1> HIDE DEF R
<1>3. r.digest # BadDigest
  <2>1. Range(If(r.digest = BadDigest, "SUBJECT-DIGEST-INVALID"))
          = IF r.digest = BadDigest THEN {"SUBJECT-DIGEST-INVALID"} ELSE {}
    BY RangeOfIf, Zenon
  <2> QED
    BY <1>1, <1>2, <2>1
<1>4. revoked \notin {"yes", "error"}
  <2>1. Range(Lookup(revoked, "DIGEST-REVOKED", "REVOCATION-STATE-UNAVAILABLE"))
          = (IF revoked = "error" THEN {"REVOCATION-STATE-UNAVAILABLE"} ELSE {})
              \cup (IF revoked = "yes" THEN {"DIGEST-REVOKED"} ELSE {})
    BY CodesHeld, RangeOfLookup
  <2> QED
    BY <1>1, <1>2, <2>1
<1>5. quarantined \notin {"yes", "error"}
  <2>1. Range(Lookup(quarantined, "DIGEST-QUARANTINED", "QUARANTINE-STATE-UNAVAILABLE"))
          = (IF quarantined = "error" THEN {"QUARANTINE-STATE-UNAVAILABLE"} ELSE {})
              \cup (IF quarantined = "yes" THEN {"DIGEST-QUARANTINED"} ELSE {})
    BY CodesHeld, RangeOfLookup
  <2> QED
    BY <1>1, <1>2, <2>1
<1> QED
  BY <1>3, <1>4, <1>5

LEMMA EvaluateHasOutcome ==
    ASSUME NEW p, NEW r, r.capabilities \in Seq(Capabilities),
           NEW roots, NEW revoked, NEW quarantined, NEW t, NEW clock
    PROVE  Evaluate(p, r, roots, revoked, quarantined, t, clock) \in Outcomes
<1>1. \A R : Worst(R) \in Outcomes
  BY DEF Worst, Outcomes
<1> QED
  BY <1>1, EvaluateIsTheWorst
-----------------------------------------------------------------------------
(* The cause of each reason.                                               *)

AssuranceCause(c, p, r, t) ==
    \/ c = "ASSURANCE-PROVIDER" /\ r.provider # p.provider
    \/ /\ c = "ASSURANCE-VERSION"
       /\ r.version = BadVersion \/ Compare(r.version, p.minimumVersion) < 0
    \/ c = "ASSURANCE-INCOMPLETE" /\ p.requireComplete /\ ~r.complete
    \/ c = "ASSURANCE-FAILED" /\ ~r.passed
    \/ /\ c = "ASSURANCE-STALE"
       /\ p.maximumAge # NoMaxAge
       /\ r.completed = 0 \/ t - r.completed > p.maximumAge

SignatureCause(c, p, r, roots, t) ==
    /\ p.signatures
    /\ \/ /\ c = "SIGSTORE-INVALID" /\ r.sigstore # Absent
          /\ ~VerifySigstore(r.sigstore, r.digest, p.trustedIdentities, roots, t)
       \/ /\ c = "DSSE-INVALID" /\ r.sigstore = Absent
          /\ r.dsse # Absent /\ p.trustedIdentities # <<>>
          /\ ~VerifyDSSE(r.dsse, Head(p.trustedIdentities))
       \/ /\ c = "SIGNATURE-UNVERIFIED" /\ r.sigstore = Absent
          /\ ~(r.dsse # Absent /\ p.trustedIdentities # <<>>)

ProvenanceCause(c, p, r, roots, t) ==
    /\ p.provenance
    /\ \/ /\ c = "PROVENANCE-INVALID" /\ r.github # Absent
          /\ ~VerifyGitHubAttestation(r.github, r.digest, roots, t)
       \/ c = "PROVENANCE-INVALID" /\ r.github = Absent /\ r.dsse # Absent /\ ~r.dsse.inToto
       \/ c = "PROVENANCE-UNVERIFIED" /\ r.github = Absent /\ r.dsse = Absent

CapabilityCause(c, p, r, t) ==
    \E i \in DOMAIN r.capabilities :
        \/ c = "CAPABILITY-DENIED" /\ r.capabilities[i] \in p.deny
        \/ /\ c = "APPROVAL-REQUIRED"
           /\ r.capabilities[i] \in p.approvalRequired
           /\ ~Approved(r, r.capabilities[i], t)

(* The subject, the two lookups, the environment and the risk.             *)
OtherCause(c, p, r, revoked, quarantined) ==
    \/ c = "SUBJECT-DIGEST-INVALID" /\ r.digest = BadDigest
    \/ c = "EVIDENCE-SUBJECT-MISMATCH" /\ r.evidenceFor # r.digest
    \/ c = "DIGEST-REVOKED" /\ revoked = "yes"
    \/ c = "REVOCATION-STATE-UNAVAILABLE" /\ revoked = "error"
    \/ c = "DIGEST-QUARANTINED" /\ quarantined = "yes"
    \/ c = "QUARANTINE-STATE-UNAVAILABLE" /\ quarantined = "error"
    \/ c = "ENVIRONMENT-DENIED" /\ r.env \notin p.environments
    \/ c = "RISK-TOO-HIGH" /\ riskRank(r.risk) > riskRank(p.maximumRisk)

LEMMA InRangeOfIf ==
    ASSUME NEW condition, NEW code, NEW c
    PROVE  c \in Range(If(condition, code)) <=> c = code /\ condition
<1>1. CASE condition
  <2>1. Range(If(condition, code)) = {code}
    BY <1>1, RangeOfIf, Zenon
  <2> QED
    BY <1>1, <2>1
<1>2. CASE ~condition
  <2>1. Range(If(condition, code)) = {}
    BY <1>2, RangeOfIf, Zenon
  <2> QED
    BY <1>2, <2>1
<1> QED
  BY <1>1, <1>2

LEMMA InTwo ==
    ASSUME NEW a \in Seq(Codes), NEW b \in Seq(Codes)
    PROVE  /\ Then(a, b) \in Seq(Codes)
           /\ \A c : c \in Range(Then(a, b)) <=> c \in Range(a) \/ c \in Range(b)
  BY RangeOfTwo

LEMMA AssuranceCauses ==
    ASSUME NEW p, NEW r, NEW t, NEW c
    PROVE  c \in Range(AssuranceReasons(p, r, t)) <=> AssuranceCause(c, p, r, t)
<1>1. PICK u \in Seq(Codes) : u = If(r.provider # p.provider, "ASSURANCE-PROVIDER")
  BY CodesHeld, IfIsSeq, Zenon
<1>2. PICK v \in Seq(Codes) :
         v = If(\/ r.version = BadVersion
                \/ Compare(r.version, p.minimumVersion) < 0, "ASSURANCE-VERSION")
  BY CodesHeld, IfIsSeq, Zenon
<1>3. PICK w \in Seq(Codes) : w = If(p.requireComplete /\ ~r.complete, "ASSURANCE-INCOMPLETE")
  BY CodesHeld, IfIsSeq, Zenon
<1>4. PICK x \in Seq(Codes) : x = If(~r.passed, "ASSURANCE-FAILED")
  BY CodesHeld, IfIsSeq, Zenon
<1>5. PICK y \in Seq(Codes) :
         y = If(/\ p.maximumAge # NoMaxAge
                /\ r.completed = 0 \/ t - r.completed > p.maximumAge, "ASSURANCE-STALE")
  BY CodesHeld, IfIsSeq, Zenon
<1>6. AssuranceReasons(p, r, t) = Then(Then(Then(Then(u, v), w), x), y)
  BY <1>1, <1>2, <1>3, <1>4, <1>5, Zenon DEF AssuranceReasons, Then
<1>7. c \in Range(Then(Then(Then(Then(u, v), w), x), y))
        <=> c \in Range(u) \/ c \in Range(v) \/ c \in Range(w) \/ c \in Range(x) \/ c \in Range(y)
  <2>1. /\ Then(u, v) \in Seq(Codes)
        /\ c \in Range(Then(u, v)) <=> c \in Range(u) \/ c \in Range(v)
    BY InTwo
  <2>2. PICK a \in Seq(Codes) : a = Then(u, v)
    BY <2>1
  <2>3. /\ Then(a, w) \in Seq(Codes)
        /\ c \in Range(Then(a, w)) <=> c \in Range(a) \/ c \in Range(w)
    BY InTwo
  <2>4. PICK b \in Seq(Codes) : b = Then(a, w)
    BY <2>3
  <2>5. /\ Then(b, x) \in Seq(Codes)
        /\ c \in Range(Then(b, x)) <=> c \in Range(b) \/ c \in Range(x)
    BY InTwo
  <2>6. PICK d \in Seq(Codes) : d = Then(b, x)
    BY <2>5
  <2>7. c \in Range(Then(d, y)) <=> c \in Range(d) \/ c \in Range(y)
    BY InTwo
  <2> QED
    BY <2>1, <2>2, <2>3, <2>4, <2>5, <2>6, <2>7, Zenon
<1>8. /\ c \in Range(u) <=> c = "ASSURANCE-PROVIDER" /\ r.provider # p.provider
      /\ c \in Range(v) <=> /\ c = "ASSURANCE-VERSION"
                            /\ \/ r.version = BadVersion
                               \/ Compare(r.version, p.minimumVersion) < 0
      /\ c \in Range(w) <=> c = "ASSURANCE-INCOMPLETE" /\ p.requireComplete /\ ~r.complete
      /\ c \in Range(x) <=> c = "ASSURANCE-FAILED" /\ ~r.passed
      /\ c \in Range(y) <=> /\ c = "ASSURANCE-STALE"
                            /\ p.maximumAge # NoMaxAge
                            /\ r.completed = 0 \/ t - r.completed > p.maximumAge
  BY <1>1, <1>2, <1>3, <1>4, <1>5, InRangeOfIf, Zenon
<1> QED
  BY <1>6, <1>7, <1>8, Zenon DEF AssuranceCause
LEMMA InRangeOfOne == ASSUME NEW code, NEW c PROVE c \in Range(<<code>>) <=> c = code
  BY DEF Range

LEMMA InRangeOfNone == ASSUME NEW c PROVE c \notin Range(<<>>)
  BY DEF Range

LEMMA SignatureCauses ==
    ASSUME NEW p, NEW r, NEW roots, NEW t, NEW c
    PROVE  c \in Range(SignatureReasons(p, r, roots, t)) <=> SignatureCause(c, p, r, roots, t)
<1> DEFINE S == SignatureReasons(p, r, roots, t)
           badBundle == ~VerifySigstore(r.sigstore, r.digest, p.trustedIdentities, roots, t)
           badEnvelope == ~VerifyDSSE(r.dsse, Head(p.trustedIdentities))
<1>1. CASE ~p.signatures
  <2>1. S = <<>>
    BY <1>1, Zenon DEF SignatureReasons
  <2> QED
    BY <1>1, <2>1, InRangeOfNone, Zenon DEF SignatureCause
<1>2. CASE p.signatures /\ r.sigstore # Absent
  <2>1. S = If(badBundle, "SIGSTORE-INVALID")
    BY <1>2, Zenon DEF SignatureReasons
  <2>2. c \in Range(S) <=> c = "SIGSTORE-INVALID" /\ badBundle
    BY <2>1, InRangeOfIf, Zenon
  <2> QED
    BY <1>2, <2>2, Zenon DEF SignatureCause
<1>3. CASE p.signatures /\ r.sigstore = Absent /\ r.dsse # Absent /\ p.trustedIdentities # <<>>
  <2>1. S = If(badEnvelope, "DSSE-INVALID")
    BY <1>3, Zenon DEF SignatureReasons
  <2>2. c \in Range(S) <=> c = "DSSE-INVALID" /\ badEnvelope
    BY <2>1, InRangeOfIf, Zenon
  <2> QED
    BY <1>3, <2>2, Zenon DEF SignatureCause
<1>4. CASE /\ p.signatures /\ r.sigstore = Absent
           /\ ~(r.dsse # Absent /\ p.trustedIdentities # <<>>)
  <2>1. S = <<"SIGNATURE-UNVERIFIED">>
    BY <1>4, Zenon DEF SignatureReasons
  <2> QED
    BY <1>4, <2>1, InRangeOfOne, Zenon DEF SignatureCause
<1> QED
  BY <1>1, <1>2, <1>3, <1>4, Zenon

LEMMA ProvenanceCauses ==
    ASSUME NEW p, NEW r, NEW roots, NEW t, NEW c
    PROVE  c \in Range(ProvenanceReasons(p, r, roots, t)) <=> ProvenanceCause(c, p, r, roots, t)
<1> DEFINE S == ProvenanceReasons(p, r, roots, t)
           badAttestation == ~VerifyGitHubAttestation(r.github, r.digest, roots, t)
<1>1. CASE ~p.provenance
  <2>1. S = <<>>
    BY <1>1, Zenon DEF ProvenanceReasons
  <2> QED
    BY <1>1, <2>1, InRangeOfNone, Zenon DEF ProvenanceCause
<1>2. CASE p.provenance /\ r.github # Absent
  <2>1. S = If(badAttestation, "PROVENANCE-INVALID")
    BY <1>2, Zenon DEF ProvenanceReasons
  <2>2. c \in Range(S) <=> c = "PROVENANCE-INVALID" /\ badAttestation
    BY <2>1, InRangeOfIf, Zenon
  <2> QED
    BY <1>2, <2>2, Zenon DEF ProvenanceCause
<1>3. CASE p.provenance /\ r.github = Absent /\ r.dsse # Absent
  <2>1. S = If(~r.dsse.inToto, "PROVENANCE-INVALID")
    BY <1>3, Zenon DEF ProvenanceReasons
  <2>2. c \in Range(S) <=> c = "PROVENANCE-INVALID" /\ ~r.dsse.inToto
    BY <2>1, InRangeOfIf, Zenon
  <2> QED
    BY <1>3, <2>2, Zenon DEF ProvenanceCause
<1>4. CASE p.provenance /\ r.github = Absent /\ r.dsse = Absent
  <2>1. S = <<"PROVENANCE-UNVERIFIED">>
    BY <1>4, Zenon DEF ProvenanceReasons
  <2> QED
    BY <1>4, <2>1, InRangeOfOne, Zenon DEF ProvenanceCause
<1> QED
  BY <1>1, <1>2, <1>3, <1>4, Zenon

LEMMA CapabilityCauses ==
    ASSUME NEW p, NEW r, r.capabilities \in Seq(Capabilities), NEW t, NEW c
    PROVE  c \in Range(CapabilityReasons(p, r, t)) <=> CapabilityCause(c, p, r, t)
<1>1. ASSUME NEW cap
      PROVE  c \in Range(OfCapability(p, r, cap, t))
             <=> \/ c = "CAPABILITY-DENIED" /\ cap \in p.deny
                 \/ /\ c = "APPROVAL-REQUIRED"
                    /\ cap \in p.approvalRequired /\ ~Approved(r, cap, t)
  <2>1. PICK a \in Seq(Codes) : a = If(cap \in p.deny, "CAPABILITY-DENIED")
    BY CodesHeld, IfIsSeq, Zenon
  <2>2. PICK b \in Seq(Codes) :
           b = If(cap \in p.approvalRequired /\ ~Approved(r, cap, t), "APPROVAL-REQUIRED")
    BY CodesHeld, IfIsSeq, Zenon
  <2>3. OfCapability(p, r, cap, t) = Then(a, b)
    BY <2>1, <2>2, Zenon DEF OfCapability, Then
  <2>4. c \in Range(Then(a, b)) <=> c \in Range(a) \/ c \in Range(b)
    BY InTwo
  <2>5. /\ c \in Range(a) <=> c = "CAPABILITY-DENIED" /\ cap \in p.deny
        /\ c \in Range(b) <=> /\ c = "APPROVAL-REQUIRED"
                              /\ cap \in p.approvalRequired /\ ~Approved(r, cap, t)
    BY <2>1, <2>2, InRangeOfIf, Zenon
  <2> QED
    BY <2>3, <2>4, <2>5, Zenon
<1>2. c \in Range(CapabilityReasons(p, r, t))
        <=> \E i \in DOMAIN r.capabilities : c \in Range(OfCapability(p, r, r.capabilities[i], t))
  <2> DEFINE Of(i) == Range(OfCapability(p, r, r.capabilities[i], t))
  <2>1. Range(CapabilityReasons(p, r, t)) = UNION {Of(i) : i \in DOMAIN r.capabilities}
    BY CapabilitiesAreSeq
  <2> HIDE DEF Of
  <2>2. c \in UNION {Of(i) : i \in DOMAIN r.capabilities}
          <=> \E i \in DOMAIN r.capabilities : c \in Of(i)
    OBVIOUS
  <2> QED
    BY <2>1, <2>2, Zenon DEF Of
<1> QED
  BY <1>1, <1>2, Zenon DEF CapabilityCause

LEMMA OtherCauses ==
    ASSUME NEW p, NEW r, NEW revoked, NEW quarantined, NEW c
    PROVE  OtherCause(c, p, r, revoked, quarantined)
           <=> \/ c \in Range(If(r.digest = BadDigest, "SUBJECT-DIGEST-INVALID"))
               \/ c \in Range(If(r.evidenceFor # r.digest, "EVIDENCE-SUBJECT-MISMATCH"))
               \/ c \in Range(Lookup(revoked, "DIGEST-REVOKED", "REVOCATION-STATE-UNAVAILABLE"))
               \/ c \in Range(Lookup(quarantined, "DIGEST-QUARANTINED",
                                     "QUARANTINE-STATE-UNAVAILABLE"))
               \/ c \in Range(If(r.env \notin p.environments, "ENVIRONMENT-DENIED"))
               \/ c \in Range(If(riskRank(r.risk) > riskRank(p.maximumRisk), "RISK-TOO-HIGH"))
<1>1. ASSUME NEW answer, NEW hit \in Codes, NEW unavailable \in Codes
      PROVE  c \in Range(Lookup(answer, hit, unavailable))
             <=> \/ c = unavailable /\ answer = "error"
                 \/ c = hit /\ answer = "yes"
  BY RangeOfLookup
<1>2. /\ c \in Range(Lookup(revoked, "DIGEST-REVOKED", "REVOCATION-STATE-UNAVAILABLE"))
         <=> \/ c = "REVOCATION-STATE-UNAVAILABLE" /\ revoked = "error"
             \/ c = "DIGEST-REVOKED" /\ revoked = "yes"
      /\ c \in Range(Lookup(quarantined, "DIGEST-QUARANTINED", "QUARANTINE-STATE-UNAVAILABLE"))
         <=> \/ c = "QUARANTINE-STATE-UNAVAILABLE" /\ quarantined = "error"
             \/ c = "DIGEST-QUARANTINED" /\ quarantined = "yes"
  BY <1>1, CodesHeld, Zenon
<1>3. /\ c \in Range(If(r.digest = BadDigest, "SUBJECT-DIGEST-INVALID"))
         <=> c = "SUBJECT-DIGEST-INVALID" /\ r.digest = BadDigest
      /\ c \in Range(If(r.evidenceFor # r.digest, "EVIDENCE-SUBJECT-MISMATCH"))
         <=> c = "EVIDENCE-SUBJECT-MISMATCH" /\ r.evidenceFor # r.digest
      /\ c \in Range(If(r.env \notin p.environments, "ENVIRONMENT-DENIED"))
         <=> c = "ENVIRONMENT-DENIED" /\ r.env \notin p.environments
      /\ c \in Range(If(riskRank(r.risk) > riskRank(p.maximumRisk), "RISK-TOO-HIGH"))
         <=> c = "RISK-TOO-HIGH" /\ riskRank(r.risk) > riskRank(p.maximumRisk)
  BY InRangeOfIf, Zenon
<1> QED
  BY <1>2, <1>3, Zenon DEF OtherCause

(* Evaluate (evaluator.go) gives each reason exactly when it has its cause.*)
THEOREM EveryReasonHasItsCause ==
    ASSUME NEW p, NEW r, r.capabilities \in Seq(Capabilities),
           NEW roots, NEW revoked, NEW quarantined, NEW t, NEW clock, NEW c
    PROVE  c \in Range(Reasons(p, r, roots, revoked, quarantined, t, clock))
           <=> \/ OtherCause(c, p, r, revoked, quarantined)
               \/ AssuranceCause(c, p, r, t)
               \/ SignatureCause(c, p, r, roots, clock)
               \/ ProvenanceCause(c, p, r, roots, clock)
               \/ CapabilityCause(c, p, r, t)
<1>1. c \in Range(Reasons(p, r, roots, revoked, quarantined, t, clock))
        <=> c \in Found(p, r, roots, revoked, quarantined, t, clock)
  BY RangeOfReasons
<1>2. c \in Found(p, r, roots, revoked, quarantined, t, clock)
        <=> \/ OtherCause(c, p, r, revoked, quarantined)
            \/ c \in Range(AssuranceReasons(p, r, t))
            \/ c \in Range(SignatureReasons(p, r, roots, clock))
            \/ c \in Range(ProvenanceReasons(p, r, roots, clock))
            \/ c \in Range(CapabilityReasons(p, r, t))
  BY OtherCauses, Zenon DEF Found
<1> QED
  BY <1>1, <1>2, AssuranceCauses, SignatureCauses, ProvenanceCauses, CapabilityCauses, Zenon
=============================================================================
