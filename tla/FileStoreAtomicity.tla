------------------------- MODULE FileStoreAtomicity -------------------------
(***************************************************************************)
(* One process whose system calls do not fail: every operation of the file *)
(* store takes effect at one moment, what was acknowledged stays in effect *)
(* until it is withdrawn, the store implements AtomicStore, and a Restore  *)
(* reproduces its backup line for line.                                    *)
(***************************************************************************)
EXTENDS FileStoreRefinement, FileStoreSafety

(* No system call fails, nothing is killed and power never fails.          *)
NoFaults == MaxFaults = 0

(* Without faults nothing is ever left half written or without a name.     *)
Intact ==
    /\ unterminated = {}
    /\ unlinked = {}
    /\ \A k \in Kinds : Garbage \notin Range(files[k])

(* What is left to do: removals first, then lines that are records.        *)
Ordered(s) ==
    \A i \in DOMAIN s :
        IF s[i].do = "append"
        THEN s[i].rec # Garbage /\ \A j \in DOMAIN s : i < j => s[j].do = "append"
        ELSE s[i] = Remove(s[i].kind)

(* An update has its effect, in Effective, from the moment it is decided.  *)
Effected(t) ==
    Updating(t) =>
        /\ Ordered(todo[t])
        /\ pc[t] = "sync" => Head(todo[t]).rec \in Contents(Head(todo[t]).kind)
        /\ call[t].op \in DOMAIN Target => call[t].rec \in Effective(Target[call[t].op])
        /\ call[t].op = "Restore" =>
              \A k \in Kinds : Effective(k) = Range(snap[t][k])

(* What a Backup has read so far is what the files hold.                   *)
BackingUp(t) ==
    pc[t] # "idle" /\ call[t].op = "Backup" =>
        /\ pc[t] = "ready" => snap[t] = Garbage
        /\ pc[t] \in {"readPromotions", "readRevocations", "readQuarantines"}
           => snap[t]["decisions"] = files["decisions"]
        /\ pc[t] \in {"readRevocations", "readQuarantines"}
           => snap[t]["promotions"] = files["promotions"]
        /\ pc[t] = "readQuarantines" => snap[t]["revocations"] = files["revocations"]

(* Every acknowledged record that nobody withdrew is in effect.            *)
OwedIsEffective == \A k \in Kinds : owed[k] \subseteq Effective(k)

AtomicInv ==
    /\ Intact
    /\ \A t \in Threads : Effected(t) /\ BackingUp(t)
    /\ OwedIsEffective

(* What the invariant rests on.                                            *)
Sound == TypeOK /\ MutualExclusion /\ AtomicInv

-----------------------------------------------------------------------------
(* What the files will hold.                                               *)

(* The records of kind k once the updates s are made.                      *)
Planned(k, s) ==
    (IF Remove(k) \in Range(s) THEN {} ELSE Contents(k))
    \cup {w.rec : w \in {x \in Range(s) : x.kind = k /\ x.do = "append"}}

(* Nobody but t has updates to make.                                       *)
Sole(t) == \A u \in Threads \ {t} : todo[u] = <<>>

Quiet == \A u \in Threads : todo[u] = <<>>

LEMMA EffectiveStays ==
    ASSUME UNCHANGED <<files, todo>>, NEW k
    PROVE  Effective(k)' = Effective(k)
  BY DEF Effective, Contents, Pending

LEMMA SoleIsEffective ==
    ASSUME NEW t \in Threads, Sole(t), NEW k
    PROVE  Effective(k) = Planned(k, todo[t])
<1>1. Pending(k) = {s \in Range(todo[t]) : s.kind = k}
  BY DEF Pending, Sole, Range
<1>2. Remove(k) \in Pending(k) <=> Remove(k) \in Range(todo[t])
  BY <1>1 DEF Remove
<1> QED
  BY <1>1, <1>2 DEF Effective, Planned

(* The same of the next state.                                             *)
LEMMA SoleWillBeEffective ==
    ASSUME NEW t \in Threads, Sole(t)', NEW k
    PROVE  Effective(k)' = Planned(k, todo[t])'
<1>1. Pending(k)' = {s \in Range(todo'[t]) : s.kind = k}
  BY DEF Pending, Sole, Range
<1>2. Remove(k) \in Pending(k)' <=> Remove(k) \in Range(todo'[t])
  BY <1>1 DEF Remove
<1> QED
  BY <1>1, <1>2 DEF Effective, Planned

LEMMA QuietIsEffective == ASSUME Quiet, NEW k PROVE Effective(k) = Contents(k)
<1>1. Pending(k) = {}
  BY DEF Pending, Quiet, Range
<1> QED
  BY <1>1 DEF Effective

(* Whoever has the lock, for writing or reading, finds no update under way.*)
LEMMA LockedIsQuiet ==
    ASSUME SingleProcess, TypeOK, NEW t \in Threads, Lock(t) \/ RLock(t)
    PROVE  Quiet
<1> SUFFICES ASSUME NEW u \in Threads, todo[u] # <<>> PROVE FALSE
  BY DEF Quiet
<1>1. Updating(u) /\ call[u].op # "Backup"
  BY DEF TypeOK, ThreadsOK, Consistent, Updating, Operations, Updates
<1>2. Writer(u)
  BY <1>1 DEF Updating, Writer, Inside
<1> QED
  BY <1>2 DEF SingleProcess, Lock, RLock, Writer

(* Inside, there is no update but one's own.                               *)
LEMMA InsideIsSole ==
    ASSUME SingleProcess, TypeOK, MutualExclusion, NEW t \in Threads, pc[t] \in Inside
    PROVE  Sole(t) /\ (~Updating(t) => Quiet)
<1>1. ASSUME NEW u \in Threads, todo[u] # <<>> PROVE Updating(u) /\ u = t
  <2>1. Updating(u) /\ call[u].op # "Backup"
    BY <1>1 DEF TypeOK, ThreadsOK, Consistent, Updating, Operations, Updates
  <2>2. Writer(u)
    BY <2>1 DEF Updating, Writer, Inside
  <2> QED
    BY <2>1, <2>2 DEF SingleProcess, MutualExclusion
<1> QED
  BY <1>1 DEF Sole, Quiet

(* A writer keeps everybody else out of the critical section.              *)
LEMMA WriterIsAlone ==
    ASSUME SingleProcess, MutualExclusion, NEW t \in Threads, Writer(t)
    PROVE  \A u \in Threads \ {t} : pc[u] \notin Inside /\ ~Lock(u) /\ ~RLock(u)
  BY DEF SingleProcess, MutualExclusion, Lock, RLock, Writer

LEMMA UpdatingIsAlone ==
    ASSUME SingleProcess, TypeOK, MutualExclusion, NEW t \in Threads, Updating(t)
    PROVE  \A u \in Threads \ {t} : pc[u] \notin Inside /\ ~Lock(u) /\ ~RLock(u)
<1>1. Writer(t)
  BY DEF TypeOK, ThreadsOK, Consistent, Updating, Operations, Updates, Writer, Inside
<1> QED
  BY <1>1, WriterIsAlone

-----------------------------------------------------------------------------
(* The updates an operation plans.                                         *)

LEMMA RecordsAreLines == \A k \in Kinds : Garbage \notin Shape(k)
  BY Shapes, FileStoreAssumption

LEMMA WriteAllRange ==
    ASSUME NEW k \in Kinds, NEW s \in Seq(Shape(k))
    PROVE  /\ WriteAll(k, s) \in Seq(Steps)
           /\ Range(WriteAll(k, s)) = {Write(k, r) : r \in Range(s)}
           /\ \A w \in Range(WriteAll(k, s)) :
                 w.kind = k /\ w.do = "append" /\ w.rec \in Range(s) /\ w.rec # Garbage
<1>1. Range(WriteAll(k, s)) = {Write(k, r) : r \in Range(s)}
  BY DEF WriteAll, Range
<1>2. \A r \in Range(s) : r # Garbage
  BY RecordsAreLines, RangeOfSeq
<1> QED
  BY <1>1, <1>2, StepsTyped DEF Write

(* Lines may follow whatever is planned.                                   *)
LEMMA OrderedExtends ==
    ASSUME NEW s \in Seq(Steps), Ordered(s), NEW k \in Kinds, NEW l \in Seq(Shape(k))
    PROVE  /\ s \o WriteAll(k, l) \in Seq(Steps)
           /\ Ordered(s \o WriteAll(k, l))
           /\ Range(s \o WriteAll(k, l)) = Range(s) \cup {Write(k, r) : r \in Range(l)}
           /\ s # <<>> => s \o WriteAll(k, l) # <<>>
<1> DEFINE w == WriteAll(k, l)
           c == s \o w
<1>1. w \in Seq(Steps) /\ Range(w) = {Write(k, r) : r \in Range(l)}
  BY WriteAllRange
<1>2. \A i \in 1 .. Len(w) : w[i].do = "append" /\ w[i].rec # Garbage
  <2>1. \A x \in Range(w) : x.do = "append" /\ x.rec # Garbage
    BY WriteAllRange
  <2> QED
    BY <1>1, <2>1 DEF Range
<1> HIDE DEF w
<1>3. /\ c \in Seq(Steps) /\ Len(c) = Len(s) + Len(w)
      /\ \A i \in 1 .. Len(s) + Len(w) :
            c[i] = IF i <= Len(s) THEN s[i] ELSE w[i - Len(s)]
  BY <1>1, ConcatProperties
<1>4. Range(c) = Range(s) \cup Range(w)
  BY <1>1, RangeConcatenation
<1>5. Len(s) \in Nat /\ Len(w) \in Nat
  BY <1>1, LenProperties
<1> HIDE DEF c
<1>6. Ordered(c)
  <2> SUFFICES ASSUME NEW i \in 1 .. Len(c)
               PROVE  IF c[i].do = "append"
                      THEN /\ c[i].rec # Garbage
                           /\ \A j \in 1 .. Len(c) : i < j => c[j].do = "append"
                      ELSE c[i] = Remove(c[i].kind)
    BY <1>3 DEF Ordered
  <2>1. CASE i > Len(s)
    <3>1. \A j \in 1 .. Len(c) : j >= i => c[j].do = "append" /\ c[j].rec # Garbage
      <4> TAKE j \in 1 .. Len(c)
      <4> HAVE j >= i
      <4>1. j - Len(s) \in 1 .. Len(w) /\ c[j] = w[j - Len(s)]
        BY <1>3, <1>5, <2>1
      <4> QED
        BY <1>2, <4>1
    <3> QED
      BY <1>3, <1>5, <3>1
  <2>2. CASE i <= Len(s)
    <3>1. i \in DOMAIN s /\ c[i] = s[i]
      BY <1>3, <1>5, <2>2
    <3>2. \A j \in 1 .. Len(c) :
             \/ j \in DOMAIN s /\ c[j] = s[j]
             \/ c[j].do = "append"
      <4> TAKE j \in 1 .. Len(c)
      <4>1. CASE j <= Len(s)
        BY <1>3, <1>5, <4>1
      <4>2. CASE j > Len(s)
        <5>1. j - Len(s) \in 1 .. Len(w) /\ c[j] = w[j - Len(s)]
          BY <1>3, <1>5, <4>2
        <5> QED
          BY <1>2, <5>1
      <4> QED
        BY <1>5, <4>1, <4>2
    <3> QED
      BY <3>1, <3>2 DEF Ordered
  <2> QED
    BY <1>3, <1>5, <2>1, <2>2
<1>7. s # <<>> => c # <<>>
  <2> SUFFICES ASSUME s # <<>> PROVE Len(c) # 0
    BY EmptySeq
  <2> QED
    BY <1>3, <1>5, EmptySeq
<1> QED
  BY <1>1, <1>3, <1>4, <1>6, <1>7 DEF w, c

(* Lines for the records in R, and no others, are planned for the file k.  *)
LEMMA PlannedLines ==
    ASSUME NEW k, NEW s, NEW R,
           \A x : x \in Range(s) /\ x.kind = k /\ x.do = "append" => x.rec \in R,
           \A r \in R : Write(k, r) \in Range(s)
    PROVE  Planned(k, s) = (IF Remove(k) \in Range(s) THEN {} ELSE Contents(k)) \cup R
<1>1. {w.rec : w \in {x \in Range(s) : x.kind = k /\ x.do = "append"}} = R
  <2>1. ASSUME NEW r \in R PROVE \E w \in Range(s) : w.kind = k /\ w.do = "append" /\ w.rec = r
    BY DEF Write
  <2> QED
    BY <2>1
<1> QED
  BY <1>1 DEF Planned

(* SaveDecision, Promote, Revoke and Quarantine add one record.            *)
LEMMA InsertPlan ==
    ASSUME NEW k \in Kinds, NEW r \in Shape(k)
    PROVE  /\ Ordered(<<Write(k, r)>>)
           /\ Planned(k, <<Write(k, r)>>) = Contents(k) \cup {r}
           /\ \A j \in Kinds \ {k} : Planned(j, <<Write(k, r)>>) = Contents(j)
<1>1. r # Garbage
  BY RecordsAreLines
<1>2. Range(<<Write(k, r)>>) = {Write(k, r)}
  BY DEF Range
<1> QED
  BY <1>1, <1>2 DEF Ordered, Planned, Write, Remove

(* Unquarantine keeps the quarantines it should, and no others.            *)
Withdrawal(all, f) ==
    <<Remove("quarantines")>> \o WriteAll("quarantines", [i \in DOMAIN f |-> all[f[i]]])

LEMMA UnquarantinePlan ==
    ASSUME NEW all \in Seq(Quarantines), NEW key, Contents("quarantines") = Range(all),
           NEW f \in InOrder({i \in DOMAIN all : Kept(all[i], key)}, all)
    PROVE  /\ Withdrawal(all, f) \in Seq(Steps)
           /\ Withdrawal(all, f) # <<>>
           /\ Ordered(Withdrawal(all, f))
           /\ Planned("quarantines", Withdrawal(all, f)) = {q \in Range(all) : Kept(q, key)}
           /\ \A k \in Kinds \ {"quarantines"} : Planned(k, Withdrawal(all, f)) = Contents(k)
<1> DEFINE kept == {i \in DOMAIN all : Kept(all[i], key)}
           remaining == [i \in DOMAIN f |-> all[f[i]]]
           rm == <<Remove("quarantines")>>
           plan == rm \o WriteAll("quarantines", remaining)
<1>1. "quarantines" \in Kinds /\ Shape("quarantines") = Quarantines
  BY Shapes
<1>2. PICK n \in Nat : f \in [1 .. n -> kept]
  <2>1. f \in UNION {[1 .. n -> kept] : n \in 0 .. Len(all)}
    BY Zenon DEF InOrder
  <2>2. \A n \in 0 .. Len(all) : n \in Nat
    OBVIOUS
  <2> QED
    BY <2>1, <2>2, Zenon
<1>3. Range(f) = kept
  BY Zenon DEF InOrder
<1>4. remaining \in Seq(Quarantines)
  <2>1. \A i \in 1 .. n : all[f[i]] \in Quarantines
    BY <1>2
  <2> QED
    BY <1>2, <2>1, IsASeq
<1>5. Range(remaining) = {q \in Range(all) : Kept(q, key)}
  <2>1. Range(remaining) = {all[i] : i \in kept}
    <3>1. \A x \in Range(remaining) : x \in {all[i] : i \in kept}
      BY <1>2 DEF Range
    <3>2. ASSUME NEW i \in kept PROVE all[i] \in Range(remaining)
      <4>1. PICK j \in 1 .. n : f[j] = i
        BY <1>2, <1>3 DEF Range
      <4> QED
        BY <1>2, <4>1 DEF Range
    <3> QED
      BY <3>1, <3>2
  <2> QED
    BY <2>1 DEF Range
<1> HIDE DEF remaining
<1>6. rm \in Seq(Steps) /\ rm # <<>> /\ Range(rm) = {Remove("quarantines")}
  BY <1>1, StepsTyped DEF Range
<1>7. Ordered(rm)
  BY DEF Ordered, Remove
<1> HIDE DEF rm
<1>8. /\ plan \in Seq(Steps) /\ plan # <<>> /\ Ordered(plan)
      /\ Range(plan) = {Remove("quarantines")}
                       \cup {Write("quarantines", r) : r \in Range(remaining)}
  BY <1>1, <1>4, <1>6, <1>7, OrderedExtends
<1> HIDE DEF plan
<1>9. Planned("quarantines", plan) = Range(remaining)
  <2>1. \A x : x \in Range(plan) /\ x.kind = "quarantines" /\ x.do = "append"
                => x.rec \in Range(remaining)
    BY <1>8 DEF Remove, Write
  <2>2. \A r \in Range(remaining) : Write("quarantines", r) \in Range(plan)
    BY <1>8
  <2>3. Planned("quarantines", plan)
        = (IF Remove("quarantines") \in Range(plan) THEN {} ELSE Contents("quarantines"))
          \cup Range(remaining)
    BY <2>1, <2>2, PlannedLines
  <2> QED
    BY <1>8, <2>3
<1>10. ASSUME NEW k \in Kinds \ {"quarantines"} PROVE Planned(k, plan) = Contents(k)
  <2>1. \A x \in Range(plan) : x.kind # k
    BY <1>8 DEF Remove, Write
  <2>2. Remove(k) \notin Range(plan)
    BY <2>1 DEF Remove
  <2>3. {w.rec : w \in {x \in Range(plan) : x.kind = k /\ x.do = "append"}} = {}
    BY <2>1
  <2> QED
    BY <2>2, <2>3 DEF Planned
<1>11. plan = Withdrawal(all, f)
  BY DEF plan, rm, remaining, Withdrawal
<1> QED
  BY <1>5, <1>8, <1>9, <1>10, <1>11

(* Restore puts every list of the backup in place of its file.             *)
RestorePlan(image) ==
    <<Remove("decisions"), Remove("promotions"), Remove("revocations"),
      Remove("quarantines")>>
    \o WriteAll("decisions", image["decisions"])
    \o WriteAll("promotions", image["promotions"])
    \o WriteAll("revocations", image["revocations"])
    \o WriteAll("quarantines", image["quarantines"])

LEMMA RestorePlanned ==
    ASSUME NEW image \in Images
    PROVE  /\ RestorePlan(image) \in Seq(Steps)
           /\ RestorePlan(image) # <<>>
           /\ Ordered(RestorePlan(image))
           /\ \A k \in Kinds : Planned(k, RestorePlan(image)) = Range(image[k])
<1> DEFINE rm == <<Remove("decisions"), Remove("promotions"),
                   Remove("revocations"), Remove("quarantines")>>
           d == rm \o WriteAll("decisions", image["decisions"])
           p == d \o WriteAll("promotions", image["promotions"])
           r == p \o WriteAll("revocations", image["revocations"])
           plan == r \o WriteAll("quarantines", image["quarantines"])
           Lines(k) == {Write(k, x) : x \in Range(image[k])}
<1>1. /\ \A k \in Kinds : image[k] \in Seq(Shape(k))
      /\ {"decisions", "promotions", "revocations", "quarantines"} = Kinds
  BY Shapes DEF Images
<1>2. rm \in Seq(Steps) /\ rm # <<>>
  <2>1. \A k \in Kinds : Remove(k) \in Steps
    BY StepsTyped
  <2> QED
    BY <1>1, <2>1
<1>3. Range(rm) = {Remove(k) : k \in Kinds}
  BY <1>1 DEF Range
<1>4. Ordered(rm)
  BY DEF Ordered, Remove
<1> HIDE DEF rm
<1>5. d \in Seq(Steps) /\ d # <<>> /\ Ordered(d) /\ Range(d) = Range(rm) \cup Lines("decisions")
  BY <1>1, <1>2, <1>4, OrderedExtends
<1> HIDE DEF d
<1>6. p \in Seq(Steps) /\ p # <<>> /\ Ordered(p) /\ Range(p) = Range(d) \cup Lines("promotions")
  BY <1>1, <1>5, OrderedExtends
<1> HIDE DEF p
<1>7. r \in Seq(Steps) /\ r # <<>> /\ Ordered(r) /\ Range(r) = Range(p) \cup Lines("revocations")
  BY <1>1, <1>6, OrderedExtends
<1> HIDE DEF r
<1>8. /\ plan \in Seq(Steps) /\ plan # <<>> /\ Ordered(plan)
      /\ Range(plan) = Range(r) \cup Lines("quarantines")
  BY <1>1, <1>7, OrderedExtends
<1> HIDE DEF plan
<1>9. Range(plan) = Range(rm) \cup Lines("decisions") \cup Lines("promotions")
                    \cup Lines("revocations") \cup Lines("quarantines")
  BY <1>5, <1>6, <1>7, <1>8
<1>10. ASSUME NEW k \in Kinds PROVE Planned(k, plan) = Range(image[k])
  <2>1. Remove(k) \in Range(plan)
    BY <1>3, <1>9
  <2>2. \A x \in Range(image[k]) : Write(k, x) \in Range(plan)
    BY <1>1, <1>9
  <2>3. ASSUME NEW x, x \in Range(plan) /\ x.kind = k /\ x.do = "append"
        PROVE  x.rec \in Range(image[k])
    <3>1. x \notin Range(rm)
      BY <1>3, <2>3 DEF Remove
    <3>2. PICK j \in Kinds : x \in Lines(j)
      <4>1. \/ x \in Lines("decisions")   \/ x \in Lines("promotions")
            \/ x \in Lines("revocations") \/ x \in Lines("quarantines")
        BY <1>9, <2>3, <3>1, Zenon
      <4> HIDE DEF Lines
      <4> QED
        BY <1>1, <4>1
    <3> QED
      BY <2>3, <3>2 DEF Write
  <2>4. Planned(k, plan)
        = (IF Remove(k) \in Range(plan) THEN {} ELSE Contents(k)) \cup Range(image[k])
    BY <2>2, <2>3, PlannedLines
  <2> QED
    BY <2>1, <2>4
<1>11. plan = RestorePlan(image)
  BY DEF plan, r, p, d, rm, RestorePlan
<1> QED
  BY <1>8, <1>10, <1>11

-----------------------------------------------------------------------------
(* Steps.                                                                  *)

(* Only t makes a step.                                                    *)
OthersStay(t) == \A u \in Threads \ {t} :
    pc'[u] = pc[u] /\ call'[u] = call[u] /\ todo'[u] = todo[u] /\ snap'[u] = snap[u]

(* The files hold, and will hold, what they did.                           *)
FilesStay == UNCHANGED files /\ \A k \in Kinds : Effective(k)' = Effective(k)

LEMMA OthersUndisturbed ==
    ASSUME ThreadsOK, NEW t \in Threads, OthersStay(t), NEW u \in Threads \ {t},
           Effected(u), BackingUp(u),
           pc[u] \notin Inside \/ FilesStay
    PROVE  Effected(u)' /\ BackingUp(u)'
<1>1. Effected(u)'
  <2>1. CASE ~Updating(u)
    BY <2>1 DEF OthersStay, Effected, Updating
  <2>2. CASE Updating(u)
    <3>1. FilesStay /\ Updating(u)
      BY <2>2 DEF Updating, Inside
    <3>2. Contents(Head(todo[u]).kind)' = Contents(Head(todo[u]).kind)
      BY <3>1 DEF OthersStay, FilesStay, Contents
    <3>3. call[u].op \in DOMAIN Target => Target[call[u].op] \in Kinds
      BY DEF Target, Kinds
    <3>4. Ordered(todo[u])' = Ordered(todo[u])
      BY DEF OthersStay, Ordered
    <3> QED
      BY <3>1, <3>2, <3>3, <3>4 DEF OthersStay, FilesStay, Effected, Updating
  <2> QED
    BY <2>1, <2>2
<1>2. BackingUp(u)'
  BY DEF OthersStay, BackingUp, FilesStay, Inside
<1> QED
  BY <1>1, <1>2

(* A step of t that disturbs nobody.                                       *)
LEMMA StepKeepsAtomicInv ==
    ASSUME ThreadsOK, NEW t \in Threads, AtomicInv, OthersStay(t),
           FilesStay \/ \A u \in Threads \ {t} : pc[u] \notin Inside,
           Intact', Effected(t)', BackingUp(t)', OwedIsEffective'
    PROVE  AtomicInv'
<1>1. ASSUME NEW u \in Threads \ {t} PROVE Effected(u)' /\ BackingUp(u)'
  BY OthersUndisturbed DEF AtomicInv
<1> QED
  BY <1>1 DEF AtomicInv

(* A step that changes no file and leaves the updates to be made as they are. *)
LEMMA IdleStepKeepsAtomicInv ==
    ASSUME ThreadsOK, NEW t \in Threads, AtomicInv, OthersStay(t),
           UNCHANGED <<files, unterminated, owed, todo>>, unlinked' \subseteq unlinked,
           \/ pc'[t] \notin {"steps", "write", "sync"}
           \/ pc[t] = "steps" /\ pc'[t] = "write" /\ call'[t] = call[t] /\ snap'[t] = snap[t],
           BackingUp(t)'
    PROVE  AtomicInv'
<1>1. \A k : Effective(k)' = Effective(k) /\ Contents(k)' = Contents(k)
  BY EffectiveStays DEF Contents
<1>2. FilesStay
  BY <1>1 DEF FilesStay
<1>3. Intact'
  BY DEF AtomicInv, Intact
<1>4. OwedIsEffective'
  BY <1>1 DEF AtomicInv, OwedIsEffective
<1>5. Effected(t)'
  <2>1. CASE pc'[t] \notin {"steps", "write", "sync"}
    BY <2>1 DEF Effected, Updating
  <2>2. CASE pc[t] = "steps" /\ pc'[t] = "write" /\ call'[t] = call[t] /\ snap'[t] = snap[t]
    <3>1. Effected(t) /\ Updating(t)
      BY <2>2 DEF AtomicInv, Updating
    <3>2. Ordered(todo[t])' = Ordered(todo[t])
      BY DEF Ordered
    <3> QED
      BY <1>1, <2>2, <3>1, <3>2 DEF Effected
  <2> QED
    BY <2>1, <2>2
<1> QED
  BY <1>2, <1>3, <1>4, <1>5, StepKeepsAtomicInv

(* Updates are decided.                                                    *)
LEMMA BeginEffect ==
    ASSUME ThreadsOK, NEW t \in Threads, Quiet, NEW s, Begin(t, s), NEW k
    PROVE  Effective(k)' = Planned(k, s)
<1>1. Sole(t)' /\ todo'[t] = s
  BY DEF Begin, Quiet, Sole, ThreadsOK
<1>2. Effective(k)' = Planned(k, todo[t])'
  BY <1>1, SoleWillBeEffective
<1>3. Contents(k)' = Contents(k)
  BY DEF Begin, disk, Contents
<1> QED
  BY <1>1, <1>2, <1>3 DEF Planned

(* The update of t takes effect, and breaks nobody else's.                 *)
LEMMA BeginKeepsAtomicInv ==
    ASSUME SingleProcess, TypeOK, MutualExclusion, AtomicInv, NEW t \in Threads,
           Lock(t) \/ pc[t] = "checkQuarantines",
           call[t].op \in Updates,
           NEW s, Ordered(s), Begin(t, s),
           call[t].op \in DOMAIN Target => call[t].rec \in Planned(Target[call[t].op], s),
           call[t].op = "Restore" => \A k \in Kinds : Planned(k, s) = Range(snap[t][k]),
           \A k \in Kinds : owed'[k] \subseteq Planned(k, s)
    PROVE  AtomicInv' /\ \A k \in Kinds : Effective(k)' = Planned(k, s)
<1> USE DEF TypeOK
<1>1. Quiet /\ \A u \in Threads \ {t} : pc[u] \notin Inside
  <2>1. CASE Lock(t)
    BY <2>1, LockedIsQuiet DEF SingleProcess, Lock
  <2>2. CASE pc[t] = "checkQuarantines"
    <3>1. Writer(t) /\ pc[t] \in Inside /\ ~Updating(t)
      BY <2>2 DEF Writer, Inside, Updating, Updates
    <3> QED
      BY <3>1, WriterIsAlone, InsideIsSole
  <2> QED
    BY <2>1, <2>2
<1>2. /\ OthersStay(t) /\ pc'[t] = "steps" /\ todo'[t] = s /\ call'[t] = call[t]
      /\ snap'[t] = snap[t] /\ UNCHANGED <<files, unterminated, unlinked>>
  BY DEF Begin, Goto, OthersStay, ThreadsOK, disk
<1>3. \A k : Effective(k)' = Planned(k, s)
  BY <1>1, BeginEffect
<1>4. Effected(t)'
  <2>1. Ordered(todo[t])'
    BY <1>2 DEF Ordered
  <2> QED
    BY <1>2, <1>3, <2>1 DEF Effected
<1>5. BackingUp(t)'
  BY <1>2 DEF BackingUp, Updates
<1>6. Intact'
  BY <1>2 DEF AtomicInv, Intact
<1>7. OwedIsEffective'
  BY <1>3 DEF OwedIsEffective
<1> QED
  BY <1>1, <1>2, <1>3, <1>4, <1>5, <1>6, <1>7, StepKeepsAtomicInv

LEMMA LineKinds ==
    ASSUME NEW c \in Calls, c.op \in DOMAIN Target
    PROVE  Target[c.op] \in Kinds /\ c.rec \in Shape(Target[c.op]) /\ c.op \in Updates
  BY CallTyped, Shapes DEF Target, Updates

(* A record is added.                                                      *)
LEMMA InsertKeepsAtomicInv ==
    ASSUME SingleProcess, TypeOK, MutualExclusion, AtomicInv, NEW t \in Threads,
           SaveDecision(t) \/ Revoke(t) \/ Quarantine(t) \/ PromoteCheckQuarantines(t),
           ~Fails(t)
    PROVE  /\ AtomicInv'
           /\ \E k \in Kinds :
                 /\ call[t].op \in DOMAIN Target /\ k = Target[call[t].op]
                 /\ Begin(t, <<Write(k, call[t].rec)>>)
                 /\ Quiet
                 /\ Effective(k)' = Contents(k) \cup {call[t].rec}
                 /\ \A j \in Kinds \ {k} : Effective(j)' = Contents(j)
<1> DEFINE k == Target[call[t].op]
           r == call[t].rec
<1>1. /\ call[t] \in Calls /\ call[t].op \in DOMAIN Target
      /\ Begin(t, <<Write(k, r)>>) /\ UNCHANGED owed
      /\ Lock(t) \/ pc[t] = "checkQuarantines"
  <2>1. call[t] \in Calls
    BY DEF TypeOK, ThreadsOK, Consistent, SaveDecision, Revoke, Quarantine, Called,
           PromoteCheckQuarantines
  <2>2. pc[t] = "checkQuarantines" => call[t].op = "Promote"
    BY DEF TypeOK, ThreadsOK, Consistent, Operations
  <2> QED
    BY <2>1, <2>2 DEF SaveDecision, Revoke, Quarantine, Called, PromoteCheckQuarantines,
       Target
<1>2. k \in Kinds /\ r \in Shape(k) /\ call[t].op \in Updates
  BY <1>1, LineKinds
<1>3. call[t].op # "Restore"
  BY <1>1 DEF Target
<1> HIDE DEF k, r
<1>4. /\ Ordered(<<Write(k, r)>>) /\ Planned(k, <<Write(k, r)>>) = Contents(k) \cup {r}
      /\ \A j \in Kinds \ {k} : Planned(j, <<Write(k, r)>>) = Contents(j)
  BY <1>2, InsertPlan
<1>5. Quiet
  <2>1. pc[t] = "checkQuarantines" => pc[t] \in Inside /\ ~Updating(t)
    BY DEF Inside, Updating
  <2> QED
    BY <1>1, <2>1, LockedIsQuiet, InsideIsSole
<1>6. \A j \in Kinds : owed[j] \subseteq Contents(j)
  BY <1>5, QuietIsEffective DEF AtomicInv, OwedIsEffective
<1>7. \A j \in Kinds : owed'[j] \subseteq Planned(j, <<Write(k, r)>>)
  BY <1>1, <1>4, <1>6
<1>8. AtomicInv' /\ \A j \in Kinds : Effective(j)' = Planned(j, <<Write(k, r)>>)
  BY <1>1, <1>2, <1>3, <1>4, <1>7, BeginKeepsAtomicInv DEF k, r
<1> QED
  BY <1>1, <1>2, <1>4, <1>5, <1>8 DEF k, r

(* Quarantines are withdrawn.                                              *)
LEMMA UnquarantineKeepsAtomicInv ==
    ASSUME SingleProcess, TypeOK, MutualExclusion, AtomicInv, NEW t \in Threads,
           Unquarantine(t), ~Fails(t)
    PROVE  /\ AtomicInv' /\ Quiet
           /\ \E s : Begin(t, s)
           /\ Effective("quarantines")' = {q \in Contents("quarantines") : Kept(q, call[t].key)}
           /\ \A k \in Kinds \ {"quarantines"} : Effective(k)' = Contents(k)
<1> DEFINE key == call[t].key
           all == files["quarantines"]
           kept == {i \in DOMAIN all : Kept(all[i], key)}
<1>1. /\ Readable("quarantines") /\ Lock(t) /\ Called(t, "Unquarantine")
      /\ \E f \in InOrder(kept, all) : Begin(t, Withdrawal(all, f))
      /\ owed' = [owed EXCEPT !["quarantines"] = {q \in @ : Kept(q, key)}]
  BY Zenon DEF Unquarantine, Withdrawal
<1>2. PICK f \in InOrder(kept, all) : Begin(t, Withdrawal(all, f))
  BY <1>1
<1>3. "quarantines" \in Kinds /\ Shape("quarantines") = Quarantines
  BY Shapes
<1>4. all \in Seq(Quarantines) /\ Contents("quarantines") = Range(all)
  <2>1. all \in Seq(Quarantines)
    BY <1>1, <1>3, ReadableTyped DEF TypeOK
  <2> QED
    BY <1>3, <2>1 DEF AtomicInv, Intact, Contents
<1>5. /\ Ordered(Withdrawal(all, f))
      /\ Planned("quarantines", Withdrawal(all, f)) = {q \in Range(all) : Kept(q, key)}
      /\ \A k \in Kinds \ {"quarantines"} : Planned(k, Withdrawal(all, f)) = Contents(k)
  BY <1>2, <1>4, UnquarantinePlan
<1>6. Quiet
  BY <1>1, LockedIsQuiet
<1>7. \A j \in Kinds : owed[j] \subseteq Contents(j)
  BY <1>6, QuietIsEffective DEF AtomicInv, OwedIsEffective
<1>8. \A j \in Kinds : owed'[j] \subseteq Planned(j, Withdrawal(all, f))
  BY <1>1, <1>3, <1>4, <1>5, <1>7 DEF TypeOK, HistoryOK
<1>9. call[t].op \in Updates /\ call[t].op \notin DOMAIN Target /\ call[t].op # "Restore"
  BY <1>1 DEF Called, Updates, Target
<1>10. AtomicInv' /\ \A j \in Kinds : Effective(j)' = Planned(j, Withdrawal(all, f))
  BY <1>1, <1>2, <1>5, <1>8, <1>9, BeginKeepsAtomicInv
<1> QED
  BY <1>2, <1>3, <1>4, <1>5, <1>6, <1>10

(* The store is replaced by a backup.                                      *)
LEMMA RestoreKeepsAtomicInv ==
    ASSUME SingleProcess, TypeOK, MutualExclusion, AtomicInv, NEW t \in Threads,
           Restore(t), ~Fails(t)
    PROVE  /\ AtomicInv' /\ Quiet
           /\ Begin(t, RestorePlan(snap[t])) /\ snap[t] \in Images
           /\ \A k \in Kinds : Effective(k)' = Range(snap[t][k])
<1>1. /\ snap[t] # Garbage /\ Lock(t) /\ Called(t, "Restore")
      /\ Begin(t, RestorePlan(snap[t]))
      /\ owed' = [k \in Kinds |-> owed[k] \cap Range(snap[t][k])]
  BY Zenon DEF Restore, RestorePlan
<1>2. snap[t] \in Images
  BY <1>1 DEF TypeOK, ThreadsOK
<1>3. Quiet
  BY <1>1, LockedIsQuiet
<1>4. /\ Ordered(RestorePlan(snap[t]))
      /\ \A k \in Kinds : Planned(k, RestorePlan(snap[t])) = Range(snap[t][k])
  BY <1>2, RestorePlanned
<1>5. \A j \in Kinds : owed'[j] \subseteq Planned(j, RestorePlan(snap[t]))
  BY <1>1, <1>4
<1>6. call[t].op \in Updates /\ call[t].op \notin DOMAIN Target
  BY <1>1 DEF Called, Updates, Target
<1>7. AtomicInv' /\ \A j \in Kinds : Effective(j)' = Planned(j, RestorePlan(snap[t]))
  BY <1>1, <1>4, <1>5, <1>6, BeginKeepsAtomicInv
<1> QED
  BY <1>1, <1>2, <1>3, <1>4, <1>7

(* A call that returns without an effect.                                  *)
LEMMA ReturnKeepsAtomicInv ==
    ASSUME ThreadsOK, AtomicInv, NEW t \in Threads, ~Updating(t), NEW a, Return(t, a),
           UNCHANGED <<disk, unlinked, owed>>
    PROVE  AtomicInv' /\ \A k : Effective(k)' = Effective(k)
<1>1. OthersStay(t) /\ pc'[t] = "idle"
  BY DEF OthersStay, Return, Goto, ThreadsOK
<1>2. UNCHANGED <<files, unterminated, owed, todo>>
  <2>1. todo[t] = <<>>
    BY DEF ThreadsOK, Consistent, Updating
  <2> QED
    BY <2>1 DEF Return, ThreadsOK, disk
<1>3. BackingUp(t)'
  BY <1>1 DEF BackingUp
<1> QED
  BY <1>1, <1>2, <1>3, IdleStepKeepsAtomicInv, EffectiveStays

(* A step of a call that has not taken effect yet, or of a Backup.         *)
LEMMA GotoKeepsAtomicInv ==
    ASSUME ThreadsOK, AtomicInv, NEW t \in Threads, NEW s, Goto(t, s),
           s \notin {"steps", "write", "sync"},
           \A u \in Threads \ {t} : call'[u] = call[u] /\ snap'[u] = snap[u],
           UNCHANGED <<disk, todo, unlinked, owed>>, BackingUp(t)'
    PROVE  AtomicInv' /\ \A k : Effective(k)' = Effective(k)
<1>1. OthersStay(t) /\ pc'[t] = s
  BY DEF OthersStay, Goto, ThreadsOK
<1>2. UNCHANGED <<files, unterminated, owed, todo>>
  BY DEF disk
<1> QED
  BY <1>1, <1>2, IdleStepKeepsAtomicInv, EffectiveStays

LEMMA BackupKeepsAtomicInv ==
    ASSUME TypeOK, AtomicInv, NEW t \in Threads,
           \/ Backup(t) \/ BackupPromotions(t) \/ BackupRevocations(t)
           \/ BackupQuarantines(t) \/ TruncateBackup(t) \/ WriteBackup(t)
    PROVE  AtomicInv' /\ \A k : Effective(k)' = Effective(k)
<1> USE DEF TypeOK
<1>1. ~Updating(t) /\ BackingUp(t) /\ call[t].op = "Backup" /\ pc[t] # "idle"
  BY DEF AtomicInv, Updating, ThreadsOK, Consistent, Operations, Backup, Called,
         BackupPromotions, BackupRevocations, BackupQuarantines, TruncateBackup, WriteBackup
<1>2. CASE Fails(t) \/ WriteBackup(t)
  BY <1>1, <1>2, ReturnKeepsAtomicInv DEF Fails, WriteBackup
<1>3. CASE Backup(t) /\ ~Fails(t)
  <2>1. /\ Goto(t, "readPromotions")
        /\ snap' = [snap EXCEPT ![t] = [[k \in Kinds |-> <<>>]
                                       EXCEPT !["decisions"] = files["decisions"]]]
        /\ UNCHANGED <<disk, call, todo, unlinked, owed>>
    BY <1>3 DEF Backup, BackupRead
  <2>2. pc'[t] = "readPromotions" /\ snap'[t]["decisions"] = files'["decisions"]
    BY <2>1, Shapes DEF Goto, ThreadsOK, disk
  <2>3. BackingUp(t)'
    BY <2>1, <2>2 DEF BackingUp, disk
  <2> QED
    BY <2>1, <2>3, GotoKeepsAtomicInv
<1>4. CASE ~Fails(t) /\ (BackupPromotions(t) \/ BackupRevocations(t) \/ BackupQuarantines(t))
  <2>1. PICK k \in Kinds, s \in {"readRevocations", "readQuarantines", "truncate"} :
           /\ Goto(t, s)
           /\ snap' = [snap EXCEPT ![t] = [snap[t] EXCEPT ![k] = files[k]]]
           /\ UNCHANGED <<disk, call, todo, unlinked, owed>>
           /\ \/ pc[t] = "readPromotions" /\ k = "promotions" /\ s = "readRevocations"
              \/ pc[t] = "readRevocations" /\ k = "revocations" /\ s = "readQuarantines"
              \/ pc[t] = "readQuarantines" /\ k = "quarantines" /\ s = "truncate"
    BY <1>4, Shapes DEF BackupPromotions, BackupRevocations, BackupQuarantines, BackupRead
  <2>2. snap[t] \in Images
    BY <1>1, <2>1 DEF ThreadsOK, Consistent
  <2>3. \A j \in Kinds : snap'[t][j] = IF j = k THEN files[k] ELSE snap[t][j]
    BY <2>1, <2>2 DEF Images, ThreadsOK
  <2>4. pc'[t] = s /\ files' = files
    BY <2>1 DEF Goto, ThreadsOK, disk
  <2>5. BackingUp(t)'
    BY <1>1, <2>1, <2>3, <2>4, Shapes DEF BackingUp
  <2> QED
    BY <2>1, <2>5, GotoKeepsAtomicInv
<1>5. CASE TruncateBackup(t)
  <2>1. Goto(t, "dump") /\ UNCHANGED <<disk, call, todo, snap, unlinked, owed>>
    BY <1>5 DEF TruncateBackup
  <2>2. BackingUp(t)'
    BY <2>1 DEF BackingUp, Goto, ThreadsOK
  <2> QED
    BY <2>1, <2>2, GotoKeepsAtomicInv
<1> QED
  BY <1>2, <1>3, <1>4, <1>5

-----------------------------------------------------------------------------
(* The updates, one system call at a time.                                 *)

(* The first update and the rest.                                          *)
LEMMA FirstAndRest ==
    ASSUME NEW s \in Seq(Steps), s # <<>>
    PROVE  /\ Range(s) = {Head(s)} \cup Range(Tail(s))
           /\ Len(s) = 1 => Tail(s) = <<>>
           /\ Ordered(s) =>
                 /\ Ordered(Tail(s))
                 /\ IF Head(s).do = "append"
                    THEN Head(s).rec # Garbage /\ \A k : Remove(k) \notin Range(s)
                    ELSE Head(s) = Remove(Head(s).kind)
<1>1. /\ Len(s) \in Nat /\ Len(s) # 0 /\ Head(s) = s[1] /\ DOMAIN s = 1 .. Len(s)
      /\ Len(Tail(s)) = Len(s) - 1 /\ Tail(s) \in Seq(Steps)
      /\ \A i \in 1 .. Len(Tail(s)) : Tail(s)[i] = s[i + 1]
  BY HeadTailProperties, EmptySeq, LenProperties
<1>2. DOMAIN Tail(s) = 1 .. Len(s) - 1
  BY <1>1
<1>3. Range(s) = {Head(s)} \cup Range(Tail(s))
  <2>1. ASSUME NEW x \in Range(s) PROVE x = Head(s) \/ x \in Range(Tail(s))
    <3>1. PICK i \in 1 .. Len(s) : x = s[i]
      BY <1>1 DEF Range
    <3>2. CASE i > 1
      <4>1. i - 1 \in 1 .. Len(s) - 1 /\ Tail(s)[i - 1] = s[i]
        BY <1>1, <3>2
      <4> QED
        BY <1>2, <3>1, <4>1 DEF Range
    <3> QED
      BY <1>1, <3>1, <3>2
  <2>2. ASSUME NEW x \in Range(Tail(s)) PROVE x \in Range(s)
    <3>1. PICK i \in 1 .. Len(s) - 1 : x = Tail(s)[i]
      BY <1>2 DEF Range
    <3>2. x = s[i + 1] /\ i + 1 \in 1 .. Len(s)
      BY <1>1, <3>1
    <3> QED
      BY <1>1, <3>2 DEF Range
  <2>3. Head(s) \in Range(s)
    BY <1>1 DEF Range
  <2> QED
    BY <2>1, <2>2, <2>3
<1>4. Len(s) = 1 => Tail(s) = <<>>
  <2>1. Tail(s) \in Seq(Steps) /\ (Len(s) = 1 => Len(Tail(s)) = 0)
    BY <1>1
  <2> QED
    BY <2>1, EmptySeq
<1>5. ASSUME Ordered(s)
      PROVE  /\ Ordered(Tail(s))
             /\ IF Head(s).do = "append"
                THEN Head(s).rec # Garbage /\ \A k : Remove(k) \notin Range(s)
                ELSE Head(s) = Remove(Head(s).kind)
  <2>1. Ordered(Tail(s))
    <3> SUFFICES ASSUME NEW i \in 1 .. Len(s) - 1
                 PROVE  IF Tail(s)[i].do = "append"
                        THEN /\ Tail(s)[i].rec # Garbage
                             /\ \A j \in 1 .. Len(s) - 1 : i < j => Tail(s)[j].do = "append"
                        ELSE Tail(s)[i] = Remove(Tail(s)[i].kind)
      BY <1>2 DEF Ordered
    <3>1. i + 1 \in DOMAIN s /\ Tail(s)[i] = s[i + 1]
      BY <1>1
    <3>2. ASSUME NEW j \in 1 .. Len(s) - 1, i < j
          PROVE  j + 1 \in DOMAIN s /\ Tail(s)[j] = s[j + 1] /\ i + 1 < j + 1
      BY <1>1, <3>2
    <3> QED
      BY <1>5, <3>1, <3>2 DEF Ordered
  <2>2. 1 \in DOMAIN s
    BY <1>1
  <2>3. CASE Head(s).do = "append"
    <3>1. \A j \in 1 .. Len(s) : s[j].do = "append"
      BY <1>1, <1>5, <2>2, <2>3 DEF Ordered
    <3>2. \A x \in Range(s) : x.do = "append"
      BY <1>1, <3>1 DEF Range
    <3> QED
      BY <1>1, <1>5, <2>1, <2>2, <2>3, <3>2 DEF Ordered, Remove
  <2> QED
    BY <1>1, <1>5, <2>1, <2>2, <2>3 DEF Ordered
<1> QED
  BY <1>3, <1>4, <1>5

(* A thread that updates the files: what it knows.                         *)
LEMMA UpdaterKnows ==
    ASSUME SingleProcess, TypeOK, MutualExclusion, AtomicInv, NEW t \in Threads, Updating(t)
    PROVE  /\ todo[t] \in Seq(Steps) /\ todo[t] # <<>> /\ Ordered(todo[t])
           /\ call[t] \in Calls /\ call[t].op \in Updates
           /\ Sole(t) /\ Effected(t)
           /\ \A u \in Threads \ {t} : pc[u] \notin Inside
           /\ \A k : Effective(k) = Planned(k, todo[t])
           /\ call[t].op \in DOMAIN Target => Target[call[t].op] \in Kinds
<1>1. todo[t] \in Seq(Steps) /\ todo[t] # <<>> /\ call[t] \in Calls /\ call[t].op \in Updates
  BY HeadTyped DEF TypeOK, ThreadsOK, Consistent, Updating
<1>2. pc[t] \in Inside
  BY DEF Updating, Inside
<1>3. Sole(t)
  BY <1>2, InsideIsSole
<1>4. Effected(t)
  BY DEF AtomicInv
<1>5. Ordered(todo[t])
  BY <1>4 DEF Effected
<1> QED
  BY <1>1, <1>3, <1>4, <1>5, UpdatingIsAlone, SoleIsEffective, LineKinds

(* One update is done.                                                     *)
LEMMA StepDoneKeepsAtomicInv ==
    ASSUME SingleProcess, TypeOK, MutualExclusion, AtomicInv, NEW t \in Threads, Updating(t),
           StepDone(t), Intact',
           NEW rest, rest = Tail(todo[t]), \A k \in Kinds : Planned(k, rest)' = Effective(k)
    PROVE  AtomicInv' /\ \A k \in Kinds : Effective(k)' = Effective(k)
<1>1. /\ OthersStay(t) /\ todo'[t] = Tail(todo[t])
      /\ pc'[t] \in {"idle", "steps"}
      /\ pc'[t] = "steps" => call'[t] = call[t] /\ snap'[t] = snap[t] /\ owed' = owed
      /\ pc'[t] = "idle" => owed' = Credit(call[t], snap[t])
  <2>1. CASE Len(todo[t]) = 1
    BY <2>1, UpdaterKnows, FirstAndRest
       DEF StepDone, Return, Goto, OthersStay, TypeOK, ThreadsOK
  <2>2. CASE Len(todo[t]) # 1
    BY <2>2 DEF StepDone, Goto, OthersStay, TypeOK, ThreadsOK
  <2> QED
    BY <2>1, <2>2
<1>2. \A k \in Kinds : Effective(k)' = Effective(k)
  <2>1. Sole(t)'
    BY <1>1, UpdaterKnows DEF Sole, OthersStay
  <2>2. \A k \in Kinds : Planned(k, todo[t])' = Effective(k)
    BY <1>1 DEF Planned
  <2> QED
    BY <2>1, <2>2, SoleWillBeEffective
<1>3. Effected(t)'
  <2> SUFFICES ASSUME Updating(t)' PROVE Effected(t)'
    BY DEF Effected
  <2>1. pc'[t] = "steps"
    BY <1>1 DEF Updating
  <2>2. Ordered(todo[t])'
    BY <1>1, UpdaterKnows, FirstAndRest DEF Ordered
  <2>3. call'[t] = call[t] /\ snap'[t] = snap[t] /\ Effected(t)
    BY <1>1, <2>1, UpdaterKnows
  <2> QED
    BY <1>2, <2>1, <2>2, <2>3, UpdaterKnows DEF Effected
<1>4. BackingUp(t)'
  <2>1. call[t].op # "Backup"
    BY UpdaterKnows DEF Updates
  <2> QED
    BY <1>1, <2>1 DEF BackingUp
<1>5. OwedIsEffective'
  <2>1. \A k \in Kinds : owed[k] \subseteq Effective(k)
    BY DEF AtomicInv, OwedIsEffective
  <2>2. ASSUME owed' = Credit(call[t], snap[t]) PROVE \A k \in Kinds : owed'[k] \subseteq Effective(k)
    <3>1. CASE call[t].op \in DOMAIN Target
      BY <2>1, <2>2, <3>1, UpdaterKnows DEF Credit, Effected, TypeOK, HistoryOK
    <3>2. CASE call[t].op = "Restore"
      BY <2>1, <2>2, <3>2, UpdaterKnows DEF Credit, Effected, Target
    <3>3. CASE call[t].op \notin DOMAIN Target /\ call[t].op # "Restore"
      BY <2>1, <2>2, <3>3 DEF Credit
    <3> QED
      BY <3>1, <3>2, <3>3
  <2>3. \A k \in Kinds : owed'[k] \subseteq Effective(k)
    BY <1>1, <2>1, <2>2
  <2> QED
    BY <1>2, <2>3 DEF OwedIsEffective
<1> QED
  BY <1>1, <1>2, <1>3, <1>4, <1>5, UpdaterKnows, StepKeepsAtomicInv DEF TypeOK

(* What an update leaves to be done.                                       *)
LEMMA PlanShrinks ==
    ASSUME NEW s \in Seq(Steps), s # <<>>, Ordered(s), NEW k \in Kinds
    PROVE  /\ Remove(k) \in Range(s)
              <=> Remove(k) \in Range(Tail(s)) \/ Head(s) = Remove(k)
           /\ {w.rec : w \in {x \in Range(s) : x.kind = k /\ x.do = "append"}}
              = {w.rec : w \in {x \in Range(Tail(s)) : x.kind = k /\ x.do = "append"}}
                \cup (IF Head(s).kind = k /\ Head(s).do = "append" THEN {Head(s).rec} ELSE {})
  BY FirstAndRest

LEMMA RangeOfAppend ==
    ASSUME NEW S, NEW s \in Seq(S), NEW e \in S
    PROVE  Range(Append(s, e)) = Range(s) \cup {e}
<1>1. /\ Append(s, e) \in Seq(S) /\ Len(Append(s, e)) = Len(s) + 1 /\ Len(s) \in Nat
      /\ Append(s, e)[Len(s) + 1] = e
      /\ \A i \in 1 .. Len(s) : Append(s, e)[i] = s[i]
  BY AppendProperties, LenProperties
<1>2. /\ Range(Append(s, e)) = {Append(s, e)[i] : i \in 1 .. Len(s) + 1}
      /\ Range(s) = {s[i] : i \in 1 .. Len(s)}
  BY <1>1, RangeEquality
<1>3. 1 .. Len(s) + 1 = (1 .. Len(s)) \cup {Len(s) + 1}
  BY <1>1
<1>4. {Append(s, e)[i] : i \in (1 .. Len(s)) \cup {Len(s) + 1}}
      = {s[i] : i \in 1 .. Len(s)} \cup {e}
  BY <1>1
<1> QED
  BY <1>2, <1>3, <1>4

LEMMA WriteLineKeepsAtomicInv ==
    ASSUME SingleProcess, TypeOK, MutualExclusion, AtomicInv, NEW t \in Threads, WriteLine(t)
    PROVE  AtomicInv' /\ \A k \in Kinds : Effective(k)' = Effective(k)
<1>1. Updating(t) /\ Head(todo[t]).do = "append"
  BY HeadTyped DEF WriteLine, Updating, TypeOK, ThreadsOK, Consistent
<1>0. PICK k \in Kinds, r \in Records \cup {Garbage} : k = Head(todo[t]).kind /\ r = Head(todo[t]).rec
  BY <1>1, HeadTyped DEF Updating, TypeOK, Steps
<1>2. /\ todo[t] \in Seq(Steps) /\ todo[t] # <<>> /\ Ordered(todo[t])
      /\ \A u \in Threads \ {t} : pc[u] \notin Inside
      /\ \A j : Effective(j) = Planned(j, todo[t])
      /\ Sole(t) /\ Effected(t) /\ call[t].op # "Backup"
  BY <1>1, UpdaterKnows DEF Updates
<1>3. r # Garbage /\ Remove(k) \notin Range(todo[t]) /\ Head(todo[t]) \in Range(todo[t])
  BY <1>0, <1>1, <1>2, FirstAndRest
<1>4. /\ files' = [files EXCEPT ![k] = Append(@, r)]
      /\ pc' = [pc EXCEPT ![t] = "sync"]
      /\ UNCHANGED <<call, todo, snap, unlinked, owed>> /\ unterminated' = {}
  BY <1>0 DEF WriteLine, Goto, Appended, AtomicInv, Intact
<1>5. /\ Range(files'[k]) = Range(files[k]) \cup {r}
      /\ \A j \in Kinds \ {k} : files'[j] = files[j]
  <2>1. files'[k] = Append(files[k], r) /\ files[k] \in Seq(Records \cup {Garbage})
    BY <1>1, <1>4 DEF TypeOK, DiskOK
  <2>3. Range(Append(files[k], r)) = Range(files[k]) \cup {r}
    BY <2>1, RangeOfAppend
  <2> QED
    BY <1>1, <1>4, <2>1, <2>3 DEF TypeOK, DiskOK
<1>6. Contents(k)' = Contents(k) \cup {r} /\ \A j \in Kinds \ {k} : Contents(j)' = Contents(j)
  BY <1>3, <1>5 DEF Contents
<1>7. \A j \in Kinds : Effective(j)' = Effective(j)
  <2>1. Sole(t)'
    BY <1>2, <1>4 DEF Sole
  <2>2. \A j \in Kinds : Effective(j)' = Planned(j, todo[t])'
    BY <2>1, SoleWillBeEffective
  <2>3. \A j \in Kinds \ {k} : Planned(j, todo[t])' = Planned(j, todo[t])
    BY <1>4, <1>6 DEF Planned
  <2>4. Planned(k, todo[t])' = Planned(k, todo[t])
    BY <1>0, <1>1, <1>3, <1>4, <1>6 DEF Planned
  <2> QED
    BY <1>2, <2>2, <2>3, <2>4
<1>8. Intact'
  <2>1. \A j \in Kinds : Garbage \notin Range(files'[j])
    BY <1>3, <1>5 DEF AtomicInv, Intact
  <2> QED
    BY <1>4, <2>1 DEF AtomicInv, Intact
<1>9. Effected(t)'
  <2>1. pc'[t] = "sync" /\ call'[t] = call[t] /\ todo'[t] = todo[t] /\ snap'[t] = snap[t]
    BY <1>4 DEF TypeOK, ThreadsOK
  <2>2. Ordered(todo[t])'
    BY <1>2, <2>1 DEF Ordered
  <2>3. (Head(todo[t]).rec \in Contents(Head(todo[t]).kind))'
    BY <1>0, <1>6, <2>1 DEF Contents
  <2>4. call[t].op \in DOMAIN Target => Target[call[t].op] \in Kinds
    BY <1>1, UpdaterKnows
  <2> QED
    BY <1>1, <1>2, <1>7, <2>1, <2>2, <2>3, <2>4 DEF Effected
<1>10. BackingUp(t)'
  BY <1>2, <1>4 DEF BackingUp
<1>11. OwedIsEffective'
  BY <1>4, <1>7 DEF AtomicInv, OwedIsEffective
<1>12. OthersStay(t)
  BY <1>4 DEF OthersStay, TypeOK, ThreadsOK
<1> QED
  BY <1>2, <1>7, <1>8, <1>9, <1>10, <1>11, <1>12, StepKeepsAtomicInv DEF TypeOK

LEMMA FsyncKeepsAtomicInv ==
    ASSUME SingleProcess, TypeOK, MutualExclusion, AtomicInv, NEW t \in Threads, Fsync(t)
    PROVE  AtomicInv' /\ \A k \in Kinds : Effective(k)' = Effective(k)
<1>1. /\ Updating(t) /\ Head(todo[t]).do = "append" /\ StepDone(t) /\ pc[t] = "sync"
      /\ UNCHANGED <<files, unterminated, unlinked>>
  BY DEF Fsync, Updating, TypeOK, ThreadsOK, Consistent
<1>2. /\ todo[t] \in Seq(Steps) /\ todo[t] # <<>> /\ Ordered(todo[t]) /\ Effected(t)
      /\ \A j : Effective(j) = Planned(j, todo[t])
  BY <1>1, UpdaterKnows
<1>3. \A j : Contents(j)' = Contents(j)
  BY <1>1 DEF Contents
<1>4. PICK rest : rest = Tail(todo[t])
  OBVIOUS
<1>5. ASSUME NEW j \in Kinds PROVE Planned(j, rest)' = Effective(j)
  <2>1. Remove(j) \notin Range(todo[t]) /\ Remove(j) \notin Range(rest)
    BY <1>1, <1>2, <1>4, FirstAndRest
  <2>2. Head(todo[t]).kind = j => Head(todo[t]).rec \in Contents(j)
    BY <1>1, <1>2 DEF Effected
  <2>3. Effective(j) = Contents(j) \cup {w.rec : w \in {x \in Range(rest) : x.kind = j /\ x.do = "append"}}
    <3>1. {w.rec : w \in {x \in Range(todo[t]) : x.kind = j /\ x.do = "append"}}
          = {w.rec : w \in {x \in Range(rest) : x.kind = j /\ x.do = "append"}}
            \cup (IF Head(todo[t]).kind = j /\ Head(todo[t]).do = "append"
                  THEN {Head(todo[t]).rec} ELSE {})
      BY <1>2, <1>4, PlanShrinks
    <3>2. Effective(j) = Contents(j)
                         \cup {w.rec : w \in {x \in Range(todo[t]) : x.kind = j /\ x.do = "append"}}
      BY <1>2, <2>1 DEF Planned
    <3> QED
      BY <2>2, <3>1, <3>2
  <2> QED
    BY <1>3, <2>1, <2>3 DEF Planned
<1>6. Intact'
  BY <1>1 DEF AtomicInv, Intact
<1> QED
  BY <1>1, <1>4, <1>5, <1>6, StepDoneKeepsAtomicInv

LEMMA RemoveFileKeepsAtomicInv ==
    ASSUME SingleProcess, TypeOK, MutualExclusion, AtomicInv, NEW t \in Threads, RemoveFile(t)
    PROVE  AtomicInv' /\ \A k \in Kinds : Effective(k)' = Effective(k)
<1>1. Updating(t) /\ Head(todo[t]).do = "remove" /\ StepDone(t) /\ pc[t] = "steps"
  BY DEF RemoveFile, Updating
<1>2. /\ todo[t] \in Seq(Steps) /\ todo[t] # <<>> /\ Ordered(todo[t])
      /\ \A j : Effective(j) = Planned(j, todo[t])
      /\ \A u \in Threads \ {t} : pc[u] \notin Inside
  BY <1>1, UpdaterKnows
<1>3. PICK k \in Kinds : k = Head(todo[t]).kind
  BY <1>1, HeadTyped DEF TypeOK
<1>4. /\ files' = [files EXCEPT ![k] = <<>>]
      /\ unterminated' = unterminated \ {k}
      /\ unlinked' = unlinked
  <2>1. {u \in Threads : pc[u] \in {"write", "sync"} /\ Head(todo[u]).kind = k} = {}
    BY <1>1, <1>2 DEF Inside
  <2> QED
    BY <1>3, <2>1 DEF RemoveFile
<1>5. files'[k] = <<>> /\ \A j \in Kinds \ {k} : files'[j] = files[j]
  BY <1>4 DEF TypeOK, DiskOK
<1>6. Contents(k)' = {} /\ \A j \in Kinds \ {k} : Contents(j)' = Contents(j)
  BY <1>5 DEF Contents, Range
<1>7. PICK rest : rest = Tail(todo[t])
  OBVIOUS
<1>8. ASSUME NEW j \in Kinds PROVE Planned(j, rest)' = Effective(j)
  <2>1. Head(todo[t]) = Remove(k)
    BY <1>1, <1>2, <1>3, FirstAndRest
  <2>2. /\ {w.rec : w \in {x \in Range(todo[t]) : x.kind = j /\ x.do = "append"}}
           = {w.rec : w \in {x \in Range(rest) : x.kind = j /\ x.do = "append"}}
        /\ Remove(j) \in Range(todo[t]) <=> Remove(j) \in Range(rest) \/ j = k
    <3>1. Remove(k) = Remove(j) <=> j = k
      BY DEF Remove
    <3>2. Remove(j) \in Range(todo[t]) <=> Remove(j) \in Range(rest) \/ j = k
      BY <1>2, <1>7, <2>1, <3>1, PlanShrinks
    <3> QED
      BY <1>1, <1>2, <1>7, <3>2, PlanShrinks
  <2>3. Planned(j, rest)' = Planned(j, todo[t])
    BY <1>6, <2>2 DEF Planned
  <2> QED
    BY <1>2, <2>3
<1>9. Intact'
  <2>1. \A j \in Kinds : Garbage \notin Range(files'[j])
    BY <1>5 DEF AtomicInv, Intact, Range
  <2> QED
    BY <1>4, <2>1 DEF AtomicInv, Intact
<1> QED
  BY <1>1, <1>7, <1>8, <1>9, StepDoneKeepsAtomicInv

LEMMA InvokeKeepsAtomicInv ==
    ASSUME TypeOK, AtomicInv, NEW t \in Threads, Invoke(t)
    PROVE  AtomicInv' /\ \A k : Effective(k)' = Effective(k)
<1> USE DEF TypeOK
<1>1. /\ OthersStay(t) /\ pc'[t] = "ready" /\ UNCHANGED <<disk, todo, unlinked, owed>>
      /\ call'[t].op # "Restore" => snap'[t] = Garbage
  BY DEF Invoke, Goto, OthersStay, ThreadsOK
<1>2. BackingUp(t)'
  BY <1>1 DEF BackingUp
<1> QED
  BY <1>1, <1>2, IdleStepKeepsAtomicInv, EffectiveStays DEF disk

LEMMA PromoteKeepsAtomicInv ==
    ASSUME TypeOK, AtomicInv, NEW t \in Threads,
           \/ Promote(t) \/ PromoteCheckRevocations(t)
           \/ PromoteCheckQuarantines(t) /\ Fails(t)
    PROVE  AtomicInv' /\ \A k : Effective(k)' = Effective(k)
<1> USE DEF TypeOK
<1>1. ~Updating(t) /\ call[t].op = "Promote"
  BY DEF Promote, PromoteCheckRevocations, PromoteCheckQuarantines, Called, Updating,
         ThreadsOK, Consistent, Operations
<1>2. CASE Fails(t)
  BY <1>1, <1>2, ReturnKeepsAtomicInv DEF Fails
<1>3. CASE ~Fails(t)
  <2>1. PICK s \in {"checkRevocations", "checkQuarantines"} :
           Goto(t, s) /\ UNCHANGED <<disk, call, todo, snap, unlinked, owed>>
    BY <1>3 DEF Promote, PromoteCheckRevocations
  <2>2. BackingUp(t)'
    BY <1>1, <2>1 DEF BackingUp
  <2> QED
    BY <2>1, <2>2, GotoKeepsAtomicInv
<1> QED
  BY <1>2, <1>3

LEMMA OpenFileKeepsAtomicInv ==
    ASSUME TypeOK, AtomicInv, NEW t \in Threads, OpenFile(t)
    PROVE  AtomicInv' /\ \A k : Effective(k)' = Effective(k)
<1>1. /\ OthersStay(t) /\ pc[t] = "steps" /\ pc'[t] = "write"
      /\ UNCHANGED <<disk, call, todo, snap, owed>> /\ unlinked' \subseteq unlinked
  BY DEF OpenFile, Goto, OthersStay, TypeOK, ThreadsOK
<1>2. BackingUp(t)'
  BY <1>1 DEF BackingUp
<1> QED
  BY <1>1, <1>2, IdleStepKeepsAtomicInv, EffectiveStays DEF disk, TypeOK

(* Without faults the only steps are those of the threads and of the clock.*)
LEMMA NoFaultSteps ==
    ASSUME NoFaults, TypeOK, [Next]_vars
    PROVE  \/ \E t \in Threads : Invoke(t) \/ Enter(t) \/ Proceed(t)
           \/ UNCHANGED <<disk, backup, thread, owed>>
<1>1. ~Fault
  BY FileStoreAssumption DEF NoFaults, Fault, TypeOK, HistoryOK
<1> QED
  BY <1>1 DEF Next, IOError, RemoveFails, ShortWrite, Crash, PowerFail, Tick, Finished, vars

LEMMA StutterKeepsAtomicInv ==
    ASSUME AtomicInv, UNCHANGED <<disk, thread, owed>>
    PROVE  AtomicInv' /\ \A k : Effective(k)' = Effective(k)
<1>1. \A k : Effective(k)' = Effective(k) /\ Contents(k)' = Contents(k)
  BY EffectiveStays DEF Contents, disk, thread
<1>2. UNCHANGED <<files, unterminated, pc, call, todo, snap, unlinked, owed>>
  BY DEF disk, thread
<1>3. Intact' /\ OwedIsEffective'
  BY <1>1, <1>2 DEF AtomicInv, Intact, OwedIsEffective
<1>4. ASSUME NEW t \in Threads PROVE Effected(t)' /\ BackingUp(t)'
  <2>1. Effected(t) /\ BackingUp(t)
    BY DEF AtomicInv
  <2>2. Ordered(todo[t])' = Ordered(todo[t])
    BY <1>2 DEF Ordered
  <2> QED
    BY <1>1, <1>2, <2>1, <2>2 DEF Effected, BackingUp, Updating
<1> QED
  BY <1>1, <1>3, <1>4 DEF AtomicInv

LEMMA StepsKeepAtomicInv ==
    ASSUME SingleProcess, NoFaults, TypeOK, MutualExclusion, AtomicInv, [Next]_vars
    PROVE  AtomicInv'
<1>1. ASSUME NEW t \in Threads, Enter(t) PROVE AtomicInv'
  <2>1. CASE SaveDecision(t) \/ Revoke(t) \/ Quarantine(t)
    <3>1. ~Fails(t)
      BY <2>1 DEF SaveDecision, Revoke, Quarantine, Called, Begin, Fails, Return, Goto,
                  TypeOK, ThreadsOK
    <3> QED
      BY <2>1, <3>1, InsertKeepsAtomicInv
  <2>2. CASE Promote(t)
    BY <2>2, PromoteKeepsAtomicInv
  <2>3. CASE Unquarantine(t) \/ Restore(t)
    <3>1. ~Updating(t)
      BY <2>3 DEF Unquarantine, Restore, Called, Updating
    <3>2. CASE Fails(t)
      BY <3>1, <3>2, ReturnKeepsAtomicInv DEF Fails, TypeOK
    <3> QED
      BY <2>3, <3>2, UnquarantineKeepsAtomicInv, RestoreKeepsAtomicInv
  <2>4. CASE IsRevoked(t) \/ IsQuarantined(t)
    <3>1. PICK a : Return(t, a)
      BY <2>4 DEF IsRevoked, IsQuarantined, Query
    <3>2. ~Updating(t) /\ UNCHANGED <<disk, unlinked, owed>>
      BY <2>4 DEF IsRevoked, IsQuarantined, Query, Called, Updating
    <3> QED
      BY <3>1, <3>2, ReturnKeepsAtomicInv DEF TypeOK
  <2>5. CASE Backup(t)
    BY <2>5, BackupKeepsAtomicInv
  <2> QED
    BY <1>1, <2>1, <2>2, <2>3, <2>4, <2>5 DEF Enter
<1>2. ASSUME NEW t \in Threads, Proceed(t) PROVE AtomicInv'
  <2>1. CASE PromoteCheckRevocations(t) \/ PromoteCheckQuarantines(t)
    BY <2>1, PromoteKeepsAtomicInv, InsertKeepsAtomicInv
  <2>2. CASE \/ BackupPromotions(t) \/ BackupRevocations(t) \/ BackupQuarantines(t)
             \/ TruncateBackup(t) \/ WriteBackup(t)
    BY <2>2, BackupKeepsAtomicInv
  <2>3. CASE OpenFile(t) \/ WriteLine(t) \/ Fsync(t) \/ RemoveFile(t)
    BY <2>3, OpenFileKeepsAtomicInv, WriteLineKeepsAtomicInv, FsyncKeepsAtomicInv,
       RemoveFileKeepsAtomicInv
  <2> QED
    BY <1>2, <2>1, <2>2, <2>3 DEF Proceed
<1> QED
  BY <1>1, <1>2, NoFaultSteps, InvokeKeepsAtomicInv, StutterKeepsAtomicInv

LEMMA InitAtomicInv == Init => AtomicInv
<1> SUFFICES ASSUME Init PROVE AtomicInv
  OBVIOUS
<1>1. Intact /\ OwedIsEffective
  BY DEF Init, Intact, OwedIsEffective, Range
<1>2. \A t \in Threads : Effected(t) /\ BackingUp(t)
  BY DEF Init, Effected, Updating, BackingUp
<1> QED
  BY <1>1, <1>2 DEF AtomicInv

(* In one process without faults every update takes effect at one moment:  *)
(* what the files will hold when the updates under way are done is, from   *)
(* the decision on, what the operation promises.                           *)
THEOREM UpdatesAreAtomic ==
    ASSUME SingleProcess, NoFaults
    PROVE  Spec => []AtomicInv
<1>1. TypeOK /\ MutualExclusion /\ AtomicInv /\ [Next]_vars => AtomicInv'
  BY StepsKeepAtomicInv
<1> QED
  BY <1>1, InitAtomicInv, TypeCorrect, Exclusion, PTL DEF Spec

(* file.go "fsync-backed NDJSON audit files": in one process without       *)
(* faults an acknowledged record that nobody withdrew is in effect in its  *)
(* file, also while other operations update it.                            *)
THEOREM OwedRecordsStay ==
    ASSUME SingleProcess, NoFaults
    PROVE  Spec => []NothingOwedIsLost
<1>1. AtomicInv => NothingOwedIsLost
  BY DEF AtomicInv, OwedIsEffective, NothingOwedIsLost, StillThere
<1> QED
  BY <1>1, UpdatesAreAtomic, PTL

(* file.go IsQuarantined: a caller is never told that an acknowledged      *)
(* quarantine, of its environment or of all, is not in force.              *)
THEOREM NegativeQuarantineAnswersAreSound ==
    ASSUME SingleProcess, NoFaults
    PROVE  Spec => NotQuarantinedIsSound
<1>1. ASSUME TypeOK, AtomicInv, Unanswered, [Next]_vars, NEW t \in Threads,
             Called(t, "IsQuarantined"), answer'[t] = "no",
             NEW q \in owed["quarantines"], AppliesTo(q, call[t].digest, call[t].env)
      PROVE  FALSE
  <2>1. /\ RLock(t)
        /\ ~\E r \in GetQuarantines(call[t].env) : AppliesTo(r, call[t].digest, call[t].env)
    BY <1>1, NegativeAnswers
  <2>2. Quiet
    BY <1>1, <2>1, LockedIsQuiet
  <2>3. q \in Contents("quarantines")
    BY <1>1, <2>2, QuietIsEffective, Shapes DEF AtomicInv, OwedIsEffective
  <2> QED
    BY <1>1, <2>1, <2>3 DEF GetQuarantines, AppliesTo
<1>2. TypeOK /\ AtomicInv /\ Unanswered /\ [Next]_vars
      => [\A t \in Threads :
            Called(t, "IsQuarantined") /\ answer'[t] = "no"
            => ~\E q \in owed["quarantines"] :
                   AppliesTo(q, call[t].digest, call[t].env)]_vars
  BY <1>1
<1> QED
  BY <1>2, TypeCorrect, UpdatesAreAtomic, AnswersComeWithReturn, PTL
     DEF Spec, NotQuarantinedIsSound

-----------------------------------------------------------------------------
(* The store implements AtomicStore.                                       *)

(* No record is longer than what readNDJSON can read back.                 *)
NoOversized == Oversized = {}

LEMMA FilesRead ==
    ASSUME NoOversized, Intact, NEW k \in Kinds
    PROVE  Readable(k) /\ Contents(k) = Range(files[k])
  BY DEF NoOversized, Intact, Readable, Contents

(* A step of t, seen from AtomicStore.                                     *)
LEMMA MappedStep ==
    ASSUME NEW t \in Threads, OthersStay(t)
    PROVE  /\ Status' = [Status EXCEPT ![t] = StatusOf(t)']
           /\ Taken' = [Taken EXCEPT ![t] = TakenImage(t)']
<1>1. \A u \in Threads \ {t} : StatusOf(u)' = StatusOf(u) /\ TakenImage(u)' = TakenImage(u)
  BY DEF OthersStay, StatusOf, TakenImage, ImageOf, SetsOf
<1> QED
  BY <1>1 DEF Status, Taken

LEMMA MappedDatabase ==
    ASSUME \A k \in Kinds : Effective(k)' = Effective(k)
    PROVE  Database' = Database
  BY DEF Database

LEMMA MappedReturn ==
    ASSUME ThreadsOK, NEW t \in Threads, NEW a, Return(t, a)
    PROVE  Abstract!Answer(t, a)
<1>1. OthersStay(t) /\ pc'[t] = "idle" /\ snap'[t] = Garbage
  BY DEF OthersStay, Return, Goto, ThreadsOK
<1>2. StatusOf(t)' = "idle" /\ TakenImage(t)' = Garbage
  BY <1>1 DEF StatusOf, TakenImage, ImageOf
<1> QED
  BY <1>1, <1>2, MappedStep DEF Abstract!Answer, Return

LEMMA MappedBegin ==
    ASSUME ThreadsOK, NEW t \in Threads, Called(t, call[t].op) \/ pc[t] = "checkQuarantines",
           NEW s, Begin(t, s), NEW new, Database' = new
    PROVE  Abstract!Apply(t, new) /\ Abstract!Called(t, call[t].op)
<1>1. /\ OthersStay(t) /\ pc'[t] = "steps" /\ snap' = snap
      /\ UNCHANGED <<backup, call, answer>>
  BY DEF OthersStay, Begin, Goto, ThreadsOK
<1>2. StatusOf(t)' = "applied" /\ TakenImage(t)' = TakenImage(t) /\ StatusOf(t) = "called"
  BY <1>1 DEF StatusOf, TakenImage, Called, ImageOf, SetsOf
<1>3. Taken' = Taken
  BY <1>1, <1>2, MappedStep DEF Taken
<1>4. ImageOf(backup)' = ImageOf(backup)
  BY <1>1 DEF ImageOf, SetsOf
<1> QED
  BY <1>1, <1>2, <1>3, <1>4, MappedStep DEF Abstract!Apply, Abstract!Called, Status

(* Steps that AtomicStore does not see.                                    *)
LEMMA MappedStutter ==
    ASSUME NEW t \in Threads, OthersStay(t), \A k \in Kinds : Effective(k)' = Effective(k),
           StatusOf(t)' = StatusOf(t), TakenImage(t)' = TakenImage(t),
           UNCHANGED <<backup, call, answer>>
    PROVE  UNCHANGED Abstract!vars
<1>1. Status' = Status /\ Taken' = Taken
  BY MappedStep DEF Status, Taken
<1>2. ImageOf(backup)' = ImageOf(backup)
  BY DEF ImageOf, SetsOf
<1> QED
  BY <1>1, <1>2, MappedDatabase DEF Abstract!vars

LEMMA InitMaps == Init => Abstract!Init
<1> SUFFICES ASSUME Init PROVE Abstract!Init
  OBVIOUS
<1>1. Abstract!Kinds = Kinds
  BY DEF Kinds, Abstract!Kinds
<1>2. Database = [k \in Kinds |-> {}]
  BY DEF Database, Init, Effective, Contents, Pending, Range
<1>3. Status = [t \in Threads |-> "idle"]
  BY DEF Init, Status, StatusOf
<1>4. Taken = [t \in Threads |-> Garbage]
  BY DEF Init, Taken, TakenImage, ImageOf
<1> QED
  BY <1>1, <1>2, <1>3, <1>4 DEF Abstract!Init, Init, ImageOf

LEMMA InvokeMaps ==
    ASSUME TypeOK, AtomicInv, NEW t \in Threads, Invoke(t)
    PROVE  Abstract!Invoke(t)
<1>1. PICK c \in Menu[t] :
         /\ call' = [call EXCEPT ![t] = c]
         /\ snap' = [snap EXCEPT ![t] = IF c.op = "Restore" THEN backup ELSE Garbage]
  BY DEF Invoke
<1>2. c \in Calls
  BY FileStoreAssumption
<1>3. /\ OthersStay(t) /\ pc[t] = "idle" /\ pc'[t] = "ready"
      /\ snap'[t] = (IF c.op = "Restore" THEN backup ELSE Garbage)
      /\ answer' = [answer EXCEPT ![t] = "none"] /\ backup' = backup
  BY <1>1 DEF Invoke, Goto, OthersStay, TypeOK, ThreadsOK
<1>4. /\ StatusOf(t) = "idle" /\ StatusOf(t)' = "called"
      /\ TakenImage(t)' = (IF c.op = "Restore" THEN ImageOf(backup) ELSE Garbage)
  BY <1>3 DEF StatusOf, TakenImage, ImageOf, SetsOf
<1>5. Database' = Database
  BY InvokeKeepsAtomicInv, MappedDatabase
<1>6. ImageOf(backup)' = ImageOf(backup)
  BY <1>3 DEF ImageOf, SetsOf
<1>7. Status[t] = "idle"
  BY <1>4 DEF Status
<1> QED
  BY <1>1, <1>2, <1>3, <1>4, <1>5, <1>6, <1>7, MappedStep DEF Abstract!Invoke

(* In the quiet of the lock the database is what the files hold.           *)
LEMMA QuietDatabase == ASSUME Quiet PROVE Database = [k \in Kinds |-> Contents(k)]
  BY QuietIsEffective DEF Database

LEMMA InsertMaps ==
    ASSUME SingleProcess, TypeOK, MutualExclusion, AtomicInv, NEW t \in Threads,
           SaveDecision(t) \/ Revoke(t) \/ Quarantine(t) \/ PromoteCheckQuarantines(t),
           ~Fails(t)
    PROVE  /\ Quiet
           /\ Abstract!Insert(t, call[t].op, Target[call[t].op])
<1>1. PICK k \in Kinds :
         /\ call[t].op \in DOMAIN Target /\ k = Target[call[t].op]
         /\ Begin(t, <<Write(k, call[t].rec)>>)
         /\ Quiet
         /\ Effective(k)' = Contents(k) \cup {call[t].rec}
         /\ \A j \in Kinds \ {k} : Effective(j)' = Contents(j)
  BY InsertKeepsAtomicInv
<1>2. Database' = [Database EXCEPT ![k] = @ \cup {call[t].rec}]
  BY <1>1, QuietDatabase DEF Database
<1>3. Called(t, call[t].op) \/ pc[t] = "checkQuarantines"
  BY DEF SaveDecision, Revoke, Quarantine, Called, PromoteCheckQuarantines
<1>4. /\ Abstract!Apply(t, [Database EXCEPT ![k] = @ \cup {call[t].rec}])
      /\ Abstract!Called(t, call[t].op)
  BY <1>1, <1>2, <1>3, MappedBegin DEF TypeOK
<1> QED
  BY <1>1, <1>4 DEF Abstract!Insert

LEMMA PromoteMaps ==
    ASSUME SingleProcess, TypeOK, MutualExclusion, AtomicInv, PromotionsChecked,
           NEW t \in Threads, PromoteCheckQuarantines(t), ~Fails(t)
    PROVE  Abstract!Promote(t)
<1>1. call[t].op = "Promote" /\ pc[t] = "checkQuarantines"
  BY DEF PromoteCheckQuarantines, TypeOK, ThreadsOK, Consistent, Operations
<1>2. Quiet /\ Abstract!Insert(t, "Promote", "promotions")
  BY <1>1, InsertMaps DEF Target
<1>3. Checked(t) /\ ClearOf("quarantines", call[t].rec)
  BY <1>1 DEF PromotionsChecked, Promoting, Inside, PromoteCheckQuarantines
<1>4. \E d \in Contents("decisions") : d.id = call[t].rec.decision /\ Supports(d, call[t].rec)
  BY <1>1, <1>3 DEF Checked, Backed
<1>5. \A r \in Contents("revocations") \cup Contents("quarantines") :
         ~AppliesTo(r, call[t].rec.digest, call[t].rec.env)
  BY <1>1, <1>3 DEF Checked, ClearOf
<1>6. /\ Database["decisions"] = Contents("decisions")
      /\ Database["revocations"] = Contents("revocations")
      /\ Database["quarantines"] = Contents("quarantines")
  BY <1>2, QuietDatabase, Shapes
<1> QED
  BY <1>2, <1>4, <1>5, <1>6
     DEF Abstract!Promote, Abstract!Supports, Supports, Abstract!AppliesTo, AppliesTo

LEMMA UnquarantineMaps ==
    ASSUME SingleProcess, TypeOK, MutualExclusion, AtomicInv, NEW t \in Threads,
           Unquarantine(t), ~Fails(t)
    PROVE  Abstract!Unquarantine(t)
<1> DEFINE key == call[t].key
           new == [Database EXCEPT !["quarantines"] = {q \in @ : key \notin {q.id, q.digest}}]
<1>1. PICK s : Begin(t, s)
  BY UnquarantineKeepsAtomicInv
<1>2. Called(t, "Unquarantine")
  BY DEF Unquarantine
<1>3. Database' = new
  <2>1. /\ Effective("quarantines")' = {q \in Contents("quarantines") : Kept(q, key)}
        /\ \A k \in Kinds \ {"quarantines"} : Effective(k)' = Contents(k)
        /\ Database = [k \in Kinds |-> Contents(k)]
    BY UnquarantineKeepsAtomicInv, QuietDatabase
  <2>2. {q \in Contents("quarantines") : Kept(q, key)}
        = {q \in Contents("quarantines") : key \notin {q.id, q.digest}}
    BY DEF Kept
  <2> HIDE DEF key
  <2> QED
    BY <2>1, <2>2, Shapes DEF Database
<1> HIDE DEF new
<1>4. Abstract!Apply(t, new) /\ Abstract!Called(t, "Unquarantine")
  BY <1>1, <1>2, <1>3, MappedBegin DEF TypeOK, Called
<1> QED
  BY <1>4 DEF Abstract!Unquarantine, new

(* What a usable backup holds is never taken for an unusable one.          *)
LEMMA ImagesAreImages == ASSUME NEW i \in Images PROVE SetsOf(i) # Garbage
<1>1. SetsOf(i) \in [Kinds -> SUBSET Records]
  BY RangeOfSeq, Shapes DEF SetsOf, Images
<1>2. Abstract!DBs = [Kinds -> SUBSET Records]
  BY DEF Abstract!DBs, Abstract!Kinds, Kinds, Abstract!Records, Records, Abstract!Shape,
         Shape, Abstract!Decisions, Decisions, Abstract!Promotions, Promotions,
         Abstract!Revocations, Revocations, Abstract!Quarantines, Quarantines,
         Abstract!Outcomes, Outcomes, Abstract!Times, Times
<1> QED
  BY <1>1, <1>2, RefinementAssumption

LEMMA RestoreMaps ==
    ASSUME SingleProcess, TypeOK, MutualExclusion, AtomicInv, NEW t \in Threads,
           Restore(t), ~Fails(t)
    PROVE  Abstract!Restore(t)
<1>1. Begin(t, RestorePlan(snap[t])) /\ snap[t] \in Images /\ Called(t, "Restore")
  BY RestoreKeepsAtomicInv DEF Restore
<1>2. Taken[t] = SetsOf(snap[t])
  <2>1. snap[t] # Garbage
    BY <1>1, FileStoreAssumption
  <2> QED
    BY <1>1, <2>1 DEF Taken, TakenImage, ImageOf, Called
<1>3. Database' = Taken[t]
  BY <1>2, RestoreKeepsAtomicInv DEF Database, SetsOf
<1>4. Taken[t] # Garbage
  BY <1>1, <1>2, ImagesAreImages
<1>5. Abstract!Apply(t, Taken[t]) /\ Abstract!Called(t, "Restore")
  BY <1>1, <1>3, MappedBegin DEF TypeOK, Called
<1> QED
  BY <1>4, <1>5 DEF Abstract!Restore

(* A call that returns leaves the database and the archive as they are.    *)
LEMMA ReturnMaps ==
    ASSUME TypeOK, AtomicInv, NEW t \in Threads, ~Updating(t), NEW a, Return(t, a),
           UNCHANGED <<disk, backup, unlinked, owed>>
    PROVE  Abstract!Answer(t, a) /\ UNCHANGED <<Database, ImageOf(backup)>>
<1>1. Abstract!Answer(t, a)
  BY MappedReturn DEF TypeOK
<1>2. Database' = Database
  BY ReturnKeepsAtomicInv, MappedDatabase DEF TypeOK
<1>3. ImageOf(backup)' = ImageOf(backup)
  BY DEF ImageOf, SetsOf
<1> QED
  BY <1>1, <1>2, <1>3

LEMMA QueriesMap ==
    ASSUME SingleProcess, NoOversized, TypeOK, AtomicInv, NEW t \in Threads,
           IsRevoked(t) \/ IsQuarantined(t)
    PROVE  Abstract!IsRevoked(t) \/ Abstract!IsQuarantined(t)
<1>1. /\ RLock(t) /\ pc[t] = "ready" /\ ~Updating(t)
      /\ UNCHANGED <<disk, backup, unlinked, owed>>
  BY DEF IsRevoked, IsQuarantined, Query, Called, Updating
<1>2. /\ Database["revocations"] = Contents("revocations")
      /\ Database["quarantines"] = Contents("quarantines")
  BY <1>1, LockedIsQuiet, QuietDatabase, Shapes
<1>3. Readable("revocations") /\ Readable("quarantines")
  BY FilesRead, Shapes DEF AtomicInv
<1>4. Status[t] = "called"
  BY <1>1 DEF Status, StatusOf
<1>5. CASE IsRevoked(t)
  <2>1. PICK a \in {"yes", "no"} :
           /\ Return(t, a) /\ call[t].op = "IsRevoked"
           /\ a = "yes" => \E r \in Contents("revocations") : AppliesTo(r, call[t].digest, call[t].env)
           /\ a = "no" => \A r \in GetRevocations(call[t].env) :
                            ~AppliesTo(r, call[t].digest, call[t].env)
    BY <1>3, <1>5 DEF IsRevoked, Query, Called, GetRevocations
  <2>2. a = "no" => \A r \in Contents("revocations") :
                       ~(r.digest = call[t].digest /\ r.env = call[t].env)
    BY <2>1 DEF GetRevocations, AppliesTo
  <2>3. Abstract!Answer(t, a) /\ UNCHANGED <<Database, ImageOf(backup)>>
    BY <1>1, <2>1, ReturnMaps
  <2>4. Abstract!IsRevoked(t)
    BY <1>2, <1>4, <2>1, <2>2, <2>3
       DEF Abstract!IsRevoked, Abstract!Called, Abstract!AppliesTo, AppliesTo
  <2> QED
    BY <2>4
<1>6. CASE IsQuarantined(t)
  <2> DEFINE hit == \E q \in Contents("quarantines") : AppliesTo(q, call[t].digest, call[t].env)
             a == IF hit THEN "yes" ELSE "no"
  <2>1. /\ Return(t, IF \E q \in GetQuarantines(call[t].env) :
                           AppliesTo(q, call[t].digest, call[t].env)
                     THEN "yes" ELSE "no")
        /\ call[t].op = "IsQuarantined"
    BY <1>3, <1>6 DEF IsQuarantined, Query, Called
  <2>2. hit <=> \E q \in GetQuarantines(call[t].env) : AppliesTo(q, call[t].digest, call[t].env)
    BY DEF GetQuarantines, AppliesTo
  <2>3. Return(t, a)
    BY <2>1, <2>2
  <2>4. Abstract!Answer(t, a) /\ UNCHANGED <<Database, ImageOf(backup)>>
    BY <1>1, <2>3, ReturnMaps
  <2>5. hit <=> \E q \in Database["quarantines"] : Abstract!AppliesTo(q, call[t].digest, call[t].env)
    BY <1>2 DEF Abstract!AppliesTo, AppliesTo
  <2> HIDE DEF hit
  <2>6. Abstract!IsQuarantined(t)
    BY <1>4, <2>1, <2>4, <2>5 DEF Abstract!IsQuarantined, Abstract!Called
  <2> QED
    BY <2>6
<1> QED
  BY <1>5, <1>6

(* The only calls refused are promotions and restores.                     *)
LEMMA FailsMaps ==
    ASSUME NoOversized, TypeOK, AtomicInv, NEW t \in Threads, Fails(t),
           Enter(t) \/ Proceed(t)
    PROVE  Abstract!Refuse(t)
<1> USE DEF TypeOK
<1>1. \A k \in Kinds : Readable(k)
  BY FilesRead DEF AtomicInv
<1>2. ASSUME NEW a, Return(t, a) PROVE answer'[t] = a
  BY <1>2 DEF Return, ThreadsOK
<1>3. pc'[t] = "idle" /\ answer'[t] = "error"
  BY DEF Fails, Return, Goto, ThreadsOK
<1>4. /\ pc[t] \in {"ready", "checkRevocations", "checkQuarantines"}
      /\ call[t].op \in {"Promote", "Restore"}
  <2>1. \A s : ~Begin(t, s)
    BY <1>3 DEF Begin, Goto, ThreadsOK
  <2>2. \A s : s # "idle" => ~Goto(t, s)
    BY <1>3 DEF Goto, ThreadsOK
  <2>3. ~(SaveDecision(t) \/ Revoke(t) \/ Quarantine(t))
    BY <2>1 DEF SaveDecision, Revoke, Quarantine
  <2>4. ~Unquarantine(t)
    BY <1>1, <2>1, Shapes, Zenon DEF Unquarantine
  <2>5. ~(IsRevoked(t) \/ IsQuarantined(t))
    BY <1>1, <1>2, <1>3, Shapes DEF IsRevoked, IsQuarantined, Query
  <2>6. \A k \in Kinds : \A image : ~BackupRead(t, k, image, "readPromotions")
                       /\ ~BackupRead(t, k, image, "readRevocations")
                       /\ ~BackupRead(t, k, image, "readQuarantines")
                       /\ ~BackupRead(t, k, image, "truncate")
    BY <1>1, <2>2 DEF BackupRead
  <2>7. ~(Backup(t) \/ BackupPromotions(t) \/ BackupRevocations(t) \/ BackupQuarantines(t))
    BY <2>6, Shapes DEF Backup, BackupPromotions, BackupRevocations, BackupQuarantines
  <2>8. ~TruncateBackup(t) /\ ~WriteBackup(t)
    BY <1>2, <1>3, <2>2 DEF TruncateBackup, WriteBackup
  <2>9. ~StepDone(t)
    BY <1>2, <1>3, <2>2 DEF StepDone
  <2>10. ~(OpenFile(t) \/ WriteLine(t) \/ Fsync(t) \/ RemoveFile(t))
    BY <2>2, <2>9 DEF OpenFile, WriteLine, Fsync, RemoveFile
  <2>11. Promote(t) \/ Restore(t) \/ PromoteCheckRevocations(t) \/ PromoteCheckQuarantines(t)
    BY <2>3, <2>4, <2>5, <2>7, <2>8, <2>10 DEF Enter, Proceed
  <2> QED
    BY <2>11 DEF Promote, Restore, PromoteCheckRevocations, PromoteCheckQuarantines, Called,
                 ThreadsOK, Consistent, Operations
<1>5. Status[t] = "called" /\ ~Updating(t)
  BY <1>4 DEF Status, StatusOf, Updating
<1>6. Abstract!Answer(t, "error") /\ UNCHANGED <<Database, ImageOf(backup)>>
  BY <1>5, ReturnMaps DEF Fails
<1> QED
  BY <1>4, <1>5, <1>6 DEF Abstract!Refuse

LEMMA BackupMaps ==
    ASSUME SingleProcess, NoOversized, TypeOK, MutualExclusion, AtomicInv, NEW t \in Threads,
           ~Fails(t),
           \/ Backup(t) \/ BackupPromotions(t) \/ BackupRevocations(t)
           \/ BackupQuarantines(t) \/ TruncateBackup(t) \/ WriteBackup(t)
    PROVE  \/ UNCHANGED Abstract!vars \/ Abstract!Backup(t)
           \/ Abstract!TruncateArchive(t) \/ Abstract!WriteArchive(t)
<1> USE DEF TypeOK
<1>1. call[t].op = "Backup" /\ pc[t] # "idle" /\ BackingUp(t) /\ ~Updating(t)
  BY DEF AtomicInv, Updating, ThreadsOK, Consistent, Operations, Backup, Called,
         BackupPromotions, BackupRevocations, BackupQuarantines, TruncateBackup, WriteBackup
<1>2. Database' = Database
  BY BackupKeepsAtomicInv, MappedDatabase
<1>3. CASE Backup(t)
  <2>1. /\ pc[t] = "ready" /\ pc' = [pc EXCEPT ![t] = "readPromotions"]
        /\ \A u \in Threads \ {t} : snap'[u] = snap[u]
        /\ UNCHANGED <<backup, call, answer, todo>>
    BY <1>3 DEF Backup, BackupRead, Called, Goto, ThreadsOK
  <2>2. OthersStay(t) /\ pc'[t] = "readPromotions" /\ snap[t] = Garbage
    BY <1>1, <2>1 DEF OthersStay, BackingUp, ThreadsOK
  <2>3. StatusOf(t)' = StatusOf(t) /\ TakenImage(t)' = TakenImage(t)
    BY <2>1, <2>2 DEF StatusOf, TakenImage, ImageOf
  <2> QED
    BY <1>3, <2>1, <2>2, <2>3, BackupKeepsAtomicInv, MappedStutter
<1>4. CASE BackupPromotions(t) \/ BackupRevocations(t)
  <2>1. PICK s \in {"readRevocations", "readQuarantines"} :
           /\ pc[t] \in {"readPromotions", "readRevocations"}
           /\ pc' = [pc EXCEPT ![t] = s]
           /\ \A u \in Threads \ {t} : snap'[u] = snap[u]
           /\ UNCHANGED <<backup, call, answer, todo>>
    BY <1>4 DEF BackupPromotions, BackupRevocations, BackupRead, Goto, ThreadsOK
  <2>2. OthersStay(t) /\ pc'[t] = s
    BY <2>1 DEF OthersStay, ThreadsOK
  <2>3. StatusOf(t)' = StatusOf(t) /\ TakenImage(t)' = TakenImage(t)
    BY <2>1, <2>2 DEF StatusOf, TakenImage
  <2> QED
    BY <1>4, <2>1, <2>2, <2>3, BackupKeepsAtomicInv, MappedStutter
<1>5. CASE BackupQuarantines(t)
  <2>1. /\ pc[t] = "readQuarantines" /\ pc' = [pc EXCEPT ![t] = "truncate"]
        /\ snap' = [snap EXCEPT ![t] = [snap[t] EXCEPT !["quarantines"] = files["quarantines"]]]
        /\ UNCHANGED <<disk, backup, call, answer, todo>>
    BY <1>5 DEF BackupQuarantines, BackupRead, Goto
  <2>2. /\ OthersStay(t) /\ pc'[t] = "truncate"
        /\ snap'[t] = [snap[t] EXCEPT !["quarantines"] = files["quarantines"]]
    BY <2>1 DEF OthersStay, ThreadsOK
  <2>3. snap[t] \in Images /\ snap'[t] \in Images
    <3>1. snap[t] \in Images
      BY <1>1, <2>1 DEF ThreadsOK, Consistent
    <3>2. ThreadsOK'
      BY <1>5, BackupTypeOK
    <3> QED
      BY <1>1, <2>1, <2>2, <3>1, <3>2 DEF ThreadsOK, Consistent
  <2>4. \A k \in Kinds : snap'[t][k] = files[k]
    BY <1>1, <2>1, <2>2, <2>3, Shapes DEF BackingUp, Images
  <2>5. Quiet
    BY <1>1, <2>1, InsideIsSole DEF Inside
  <2>6. SetsOf(snap'[t]) = Database
    BY <2>4, <2>5, QuietDatabase, FilesRead DEF SetsOf, AtomicInv
  <2>7. StatusOf(t) = "called" /\ StatusOf(t)' = "applied" /\ TakenImage(t)' = Database
    <3>1. snap'[t] # Garbage
      BY <2>3, FileStoreAssumption
    <3> QED
      BY <2>1, <2>2, <2>6, <3>1 DEF StatusOf, TakenImage, ImageOf, SetsOf
  <2>8. ImageOf(backup)' = ImageOf(backup)
    BY <2>1 DEF ImageOf, SetsOf
  <2>9. Status[t] = "called"
    BY <2>7 DEF Status
  <2>10. Status' = [Status EXCEPT ![t] = "applied"] /\ Taken' = [Taken EXCEPT ![t] = Database]
    BY <2>2, <2>7, MappedStep
  <2>11. Abstract!Backup(t)
    BY <1>1, <1>2, <2>1, <2>8, <2>9, <2>10 DEF Abstract!Backup, Abstract!Called
  <2> QED
    BY <2>11
<1>6. CASE TruncateBackup(t)
  <2>1. /\ OthersStay(t) /\ pc[t] = "truncate" /\ pc'[t] = "dump" /\ backup' = Garbage
        /\ snap' = snap /\ UNCHANGED <<call, answer>>
    BY <1>6 DEF TruncateBackup, Goto, OthersStay, ThreadsOK
  <2>2. /\ StatusOf(t) = "applied" /\ StatusOf(t)' = StatusOf(t)
        /\ TakenImage(t)' = TakenImage(t) /\ ImageOf(backup)' = Garbage
    BY <2>1 DEF StatusOf, TakenImage, ImageOf, SetsOf
  <2>3. Status' = Status /\ Taken' = Taken /\ Status[t] = "applied"
    BY <2>1, <2>2, MappedStep DEF Status, Taken
  <2>4. Abstract!TruncateArchive(t)
    BY <1>1, <1>2, <2>1, <2>2, <2>3 DEF Abstract!TruncateArchive
  <2> QED
    BY <2>4
<1>7. CASE WriteBackup(t)
  <2>1. pc[t] = "dump" /\ backup' = snap[t] /\ Return(t, "ok")
    BY <1>7 DEF WriteBackup
  <2>2. Status[t] = "applied" /\ ImageOf(backup)' = Taken[t]
    BY <2>1 DEF Status, StatusOf, Taken, TakenImage, ImageOf, SetsOf
  <2>3. Abstract!WriteArchive(t)
    BY <1>1, <1>2, <2>1, <2>2, MappedReturn DEF Abstract!WriteArchive
  <2> QED
    BY <2>3
<1> QED
  BY <1>3, <1>4, <1>5, <1>6, <1>7

LEMMA PromoteChecksMap ==
    ASSUME TypeOK, AtomicInv, NEW t \in Threads, ~Fails(t),
           Promote(t) \/ PromoteCheckRevocations(t)
    PROVE  UNCHANGED Abstract!vars
<1>1. PICK s \in {"checkRevocations", "checkQuarantines"} :
         /\ pc[t] \in {"ready", "checkRevocations"} /\ pc' = [pc EXCEPT ![t] = s]
         /\ UNCHANGED <<backup, call, todo, snap, answer>>
  BY DEF Promote, PromoteCheckRevocations, Called, Goto
<1>2. OthersStay(t) /\ pc'[t] = s
  BY <1>1 DEF OthersStay, TypeOK, ThreadsOK
<1>3. StatusOf(t)' = StatusOf(t) /\ TakenImage(t)' = TakenImage(t)
  BY <1>1, <1>2 DEF StatusOf, TakenImage, ImageOf, SetsOf
<1> QED
  BY <1>1, <1>2, <1>3, PromoteKeepsAtomicInv, MappedStutter

(* The system calls of an update are not seen; the last of them answers.   *)
LEMMA UpdatesMap ==
    ASSUME SingleProcess, TypeOK, MutualExclusion, AtomicInv, NEW t \in Threads,
           OpenFile(t) \/ WriteLine(t) \/ Fsync(t) \/ RemoveFile(t)
    PROVE  UNCHANGED Abstract!vars \/ Abstract!Respond(t)
<1> USE DEF TypeOK
<1>1. pc[t] \in {"steps", "write", "sync"} /\ Updating(t) /\ UNCHANGED backup
  BY DEF OpenFile, WriteLine, Fsync, RemoveFile, Updating
<1>2. \A k \in Kinds : Effective(k)' = Effective(k)
  BY OpenFileKeepsAtomicInv, WriteLineKeepsAtomicInv, FsyncKeepsAtomicInv,
     RemoveFileKeepsAtomicInv
<1>3. CASE Return(t, "ok")
  <2>1. Status[t] = "applied" /\ call[t].op # "Backup"
    BY <1>1, UpdaterKnows DEF Status, StatusOf, Updates
  <2>2. ImageOf(backup)' = ImageOf(backup)
    BY <1>1 DEF ImageOf, SetsOf
  <2> QED
    BY <1>2, <1>3, <2>1, <2>2, MappedReturn, MappedDatabase DEF Abstract!Respond
<1>4. CASE ~Return(t, "ok")
  <2>1. PICK s \in {"steps", "write", "sync"} :
           /\ pc' = [pc EXCEPT ![t] = s] /\ todo' \in {todo, [todo EXCEPT ![t] = Tail(@)]}
           /\ UNCHANGED <<call, snap, answer>>
    BY <1>4 DEF OpenFile, WriteLine, Fsync, RemoveFile, StepDone, Goto
  <2>2. OthersStay(t) /\ pc'[t] = s
    BY <2>1 DEF OthersStay, ThreadsOK
  <2>3. StatusOf(t)' = StatusOf(t) /\ TakenImage(t)' = TakenImage(t)
    BY <1>1, <2>1, <2>2 DEF StatusOf, TakenImage, ImageOf, SetsOf
  <2> QED
    BY <1>1, <1>2, <2>1, <2>2, <2>3, MappedStutter
<1> QED
  BY <1>3, <1>4

LEMMA StepMaps ==
    ASSUME SingleProcess, NoFaults, NoOversized, TypeOK, MutualExclusion, PromotionsChecked,
           AtomicInv, [Next]_vars
    PROVE  [Abstract!Next]_(Abstract!vars)
<1>1. ASSUME NEW t \in Threads, Invoke(t) PROVE Abstract!Next
  BY <1>1, InvokeMaps DEF Abstract!Next
<1>2. ASSUME NEW t \in Threads, Enter(t) \/ Proceed(t), Fails(t) PROVE Abstract!Next
  BY <1>2, FailsMaps DEF Abstract!Next
<1>3. ASSUME NEW t \in Threads, Enter(t), ~Fails(t) PROVE [Abstract!Next]_(Abstract!vars)
  <2>1. CASE SaveDecision(t) \/ Revoke(t) \/ Quarantine(t)
    <3>1. Abstract!SaveDecision(t) \/ Abstract!Revoke(t) \/ Abstract!Quarantine(t)
      <4>1. Abstract!Insert(t, call[t].op, Target[call[t].op])
        BY <1>3, <2>1, InsertMaps
      <4>2. \/ call[t].op = "SaveDecision" /\ Target[call[t].op] = "decisions"
            \/ call[t].op = "Revoke" /\ Target[call[t].op] = "revocations"
            \/ call[t].op = "Quarantine" /\ Target[call[t].op] = "quarantines"
        BY <2>1 DEF SaveDecision, Revoke, Quarantine, Called, Target
      <4> QED
        BY <4>1, <4>2 DEF Abstract!SaveDecision, Abstract!Revoke, Abstract!Quarantine
    <3> QED
      BY <3>1 DEF Abstract!Next
  <2>2. CASE Promote(t)
    BY <1>3, <2>2, PromoteChecksMap
  <2>3. CASE Unquarantine(t)
    BY <1>3, <2>3, UnquarantineMaps DEF Abstract!Next
  <2>4. CASE Restore(t)
    BY <1>3, <2>4, RestoreMaps DEF Abstract!Next
  <2>5. CASE IsRevoked(t) \/ IsQuarantined(t)
    BY <2>5, QueriesMap DEF Abstract!Next
  <2>6. CASE Backup(t)
    BY <1>3, <2>6, BackupMaps DEF Abstract!Next
  <2> QED
    BY <1>3, <2>1, <2>2, <2>3, <2>4, <2>5, <2>6 DEF Enter
<1>4. ASSUME NEW t \in Threads, Proceed(t), ~Fails(t) PROVE [Abstract!Next]_(Abstract!vars)
  <2>1. CASE PromoteCheckRevocations(t)
    BY <1>4, <2>1, PromoteChecksMap
  <2>2. CASE PromoteCheckQuarantines(t)
    BY <1>4, <2>2, PromoteMaps DEF Abstract!Next
  <2>3. CASE \/ BackupPromotions(t) \/ BackupRevocations(t) \/ BackupQuarantines(t)
             \/ TruncateBackup(t) \/ WriteBackup(t)
    BY <1>4, <2>3, BackupMaps DEF Abstract!Next
  <2>4. CASE OpenFile(t) \/ WriteLine(t) \/ Fsync(t) \/ RemoveFile(t)
    BY <2>4, UpdatesMap DEF Abstract!Next
  <2> QED
    BY <1>4, <2>1, <2>2, <2>3, <2>4 DEF Proceed
<1>5. ASSUME UNCHANGED <<disk, backup, thread, owed>> PROVE UNCHANGED Abstract!vars
  <2>1. \A k \in Kinds : Effective(k)' = Effective(k)
    BY <1>5, StutterKeepsAtomicInv
  <2>2. UNCHANGED <<backup, pc, call, snap, answer>>
    BY <1>5 DEF thread
  <2>3. Status' = Status /\ Taken' = Taken /\ ImageOf(backup)' = ImageOf(backup)
    BY <2>2 DEF Status, StatusOf, Taken, TakenImage, ImageOf, SetsOf
  <2> QED
    BY <2>1, <2>2, <2>3, MappedDatabase DEF Abstract!vars
<1> QED
  BY <1>1, <1>2, <1>3, <1>4, <1>5, NoFaultSteps

(* models.go Store: one process whose system calls do not fail gives every *)
(* caller what the interface promises, each call at one moment.            *)
THEOREM Implementation ==
    ASSUME SingleProcess, NoFaults, NoOversized
    PROVE  Spec => ImplementsAtomicStore
<1>1. TypeOK /\ MutualExclusion /\ PromotionsChecked /\ AtomicInv /\ [Next]_vars
      => [Abstract!Next]_(Abstract!vars)
  BY StepMaps
<1> QED
  BY <1>1, InitMaps, TypeCorrect, Exclusion, PromotionsStayChecked, UpdatesAreAtomic, PTL
     DEF Spec, ImplementsAtomicStore, Abstract!Spec

-----------------------------------------------------------------------------
(* Each promotion comes with the decision it rests on: in the store, and   *)
(* so in every backup, whichever calls are made in between.  The argument  *)
(* is about AtomicStore alone.                                             *)

Closed(d) == \A p \in d["promotions"] :
                \E e \in d["decisions"] : e.id = p.decision /\ Supports(e, p)

ClosedOrNone(d) == d # Garbage => Closed(d)

AllClosed ==
    /\ Closed(Database)
    /\ ClosedOrNone(ImageOf(backup))
    /\ \A t \in Threads : ClosedOrNone(Taken[t])

(* The abstract store keeps promotions and decisions together.             *)
LEMMA AtomicStoreKeepsClosed ==
    ASSUME AllClosed, [Abstract!Next]_(Abstract!vars)
    PROVE  AllClosed'
<1>1. Database \in [Kinds -> SUBSET UNION {Database[k] : k \in Kinds}] /\ DOMAIN Taken = Threads
  BY DEF Database, Taken
<1>2. \A d, p : Abstract!Supports(d, p) = Supports(d, p)
  BY DEF Abstract!Supports, Supports
<1>3. ASSUME UNCHANGED Abstract!vars PROVE AllClosed'
  BY <1>3 DEF Abstract!vars, AllClosed, ClosedOrNone, Closed
<1>4. ASSUME NEW t \in Threads, NEW a, Abstract!Answer(t, a), UNCHANGED Database,
             ImageOf(backup)' = ImageOf(backup) \/ ImageOf(backup)' = Taken[t]
      PROVE  AllClosed'
  <2>1. \A u \in Threads : Taken'[u] = Taken[u] \/ Taken'[u] = Garbage
    BY <1>1, <1>4 DEF Abstract!Answer
  <2> QED
    BY <1>4, <2>1 DEF AllClosed, ClosedOrNone, Closed
<1>5. ASSUME NEW t \in Threads, NEW new, Abstract!Apply(t, new), Closed(new) PROVE AllClosed'
  BY <1>5 DEF Abstract!Apply, AllClosed, ClosedOrNone, Closed
<1>6. ASSUME NEW t \in Threads, NEW op, NEW k \in {"decisions", "revocations", "quarantines"},
             Abstract!Insert(t, op, k)
      PROVE  AllClosed'
  <2>1. Closed([Database EXCEPT ![k] = @ \cup {call[t].rec}])
    BY <1>1, Shapes DEF AllClosed, Closed
  <2> QED
    BY <1>5, <1>6, <2>1 DEF Abstract!Insert
<1>7. ASSUME NEW t \in Threads, Abstract!Promote(t) PROVE AllClosed'
  <2>1. \E d \in Database["decisions"] : d.id = call[t].rec.decision /\ Supports(d, call[t].rec)
    BY <1>2, <1>7 DEF Abstract!Promote
  <2>2. Closed([Database EXCEPT !["promotions"] = @ \cup {call[t].rec}])
    BY <1>1, <2>1, Shapes DEF AllClosed, Closed
  <2> QED
    BY <1>5, <1>7, <2>2 DEF Abstract!Promote, Abstract!Insert
<1>8. ASSUME NEW t \in Threads, Abstract!Unquarantine(t) PROVE AllClosed'
  <2> DEFINE new == [Database EXCEPT !["quarantines"] = {q \in @ : call[t].key \notin {q.id, q.digest}}]
  <2>1. Closed(new)
    BY <1>1, Shapes DEF AllClosed, Closed
  <2> HIDE DEF new
  <2>2. Abstract!Apply(t, new)
    BY <1>8 DEF Abstract!Unquarantine, new
  <2> QED
    BY <1>5, <2>1, <2>2
<1>9. ASSUME NEW t \in Threads, Abstract!Restore(t) PROVE AllClosed'
  <2>1. Closed(Taken[t]) /\ Abstract!Apply(t, Taken[t])
    BY <1>9 DEF Abstract!Restore, AllClosed, ClosedOrNone
  <2> QED
    BY <1>5, <2>1
<1>10. ASSUME NEW t \in Threads, Abstract!Backup(t) PROVE AllClosed'
  <2>1. \A u \in Threads : Taken'[u] = Taken[u] \/ Taken'[u] = Database
    BY <1>1, <1>10 DEF Abstract!Backup
  <2> QED
    BY <1>10, <2>1 DEF Abstract!Backup, AllClosed, ClosedOrNone, Closed
<1>11. ASSUME NEW t \in Threads, Abstract!Invoke(t) PROVE AllClosed'
  <2>1. \A u \in Threads : Taken'[u] \in {Taken[u], ImageOf(backup), Garbage}
    BY <1>1, <1>11 DEF Abstract!Invoke
  <2> QED
    BY <1>11, <2>1 DEF Abstract!Invoke, AllClosed, ClosedOrNone, Closed
<1>12. ASSUME NEW t \in Threads, Abstract!TruncateArchive(t) PROVE AllClosed'
  BY <1>12 DEF Abstract!TruncateArchive, AllClosed, ClosedOrNone, Closed
<1>13. ASSUME NEW t \in Threads,
              \/ Abstract!Refuse(t) \/ Abstract!Respond(t) \/ Abstract!WriteArchive(t)
              \/ Abstract!IsRevoked(t) \/ Abstract!IsQuarantined(t)
       PROVE  AllClosed'
  BY <1>4, <1>13 DEF Abstract!Refuse, Abstract!Respond, Abstract!WriteArchive,
                     Abstract!IsRevoked, Abstract!IsQuarantined
<1>14. ASSUME NEW t \in Threads,
              Abstract!SaveDecision(t) \/ Abstract!Revoke(t) \/ Abstract!Quarantine(t)
       PROVE  AllClosed'
  BY <1>6, <1>14 DEF Abstract!SaveDecision, Abstract!Revoke, Abstract!Quarantine
<1> QED
  BY <1>3, <1>7, <1>8, <1>9, <1>10, <1>11, <1>12, <1>13, <1>14 DEF Abstract!Next

(* file.go Backup: the four files are read under one RLock, so a backup is *)
(* one moment of a store that never held a promotion without its decision. *)
THEOREM BackupsAreClosed ==
    ASSUME SingleProcess, NoFaults, NoOversized
    PROVE  Spec => []BackupIsClosed
<1>1. Init => AllClosed
  <2> SUFFICES ASSUME Init PROVE AllClosed
    OBVIOUS
  <2>1. Database = [k \in Kinds |-> {}]
    BY InitMaps DEF Abstract!Init, Abstract!Kinds, Kinds
  <2>2. ImageOf(backup) = Garbage /\ \A t \in Threads : Taken[t] = Garbage
    BY InitMaps DEF Abstract!Init
  <2> QED
    BY <2>1, <2>2, Shapes DEF AllClosed, Closed, ClosedOrNone
<1>2. AllClosed /\ [Abstract!Next]_(Abstract!vars) => AllClosed'
  BY AtomicStoreKeepsClosed
<1>3. TypeOK /\ AllClosed => BackupIsClosed
  <2> SUFFICES ASSUME TypeOK, AllClosed, backup # Garbage PROVE BackupIsClosed
    BY DEF BackupIsClosed
  <2>1. ImageOf(backup) = SetsOf(backup) /\ SetsOf(backup) # Garbage
    BY ImagesAreImages DEF TypeOK, DiskOK, ImageOf
  <2> QED
    BY <2>1, Shapes DEF AllClosed, ClosedOrNone, Closed, SetsOf, BackupIsClosed
<1>4. Spec => [][Abstract!Next]_(Abstract!vars)
  BY Implementation DEF ImplementsAtomicStore, Abstract!Spec
<1> QED
  BY <1>1, <1>2, <1>3, <1>4, TypeCorrect, PTL DEF Spec

-----------------------------------------------------------------------------
(* Restore puts back what the backup held, line for line.                  *)

(* The order in which Restore removes the files and writes them again.     *)
InTurn == <<"decisions", "promotions", "revocations", "quarantines">>

(* The steps of RestorePlan before the first line of kind k.               *)
Before(image, k) ==
    4 + (IF k = "decisions" THEN 0 ELSE Len(image["decisions"]))
      + (IF k \in {"decisions", "promotions"} THEN 0 ELSE Len(image["promotions"]))
      + (IF k = "quarantines" THEN Len(image["revocations"]) ELSE 0)

(* plan removes the four files and then writes line i of kind k in step    *)
(* Before(image, k) + i.                                                   *)
Lays(plan, image) ==
    /\ \A q \in 1 .. 4 : q <= Len(plan) /\ plan[q] = Remove(InTurn[q])
    /\ \A k \in Kinds : \A i \in 1 .. Len(image[k]) :
          /\ Before(image, k) + i \in 5 .. Len(plan)
          /\ plan[Before(image, k) + i] = Write(k, image[k][i])
    /\ \A j \in 5 .. Len(plan) :
          \E k \in Kinds : \E i \in 1 .. Len(image[k]) : j = Before(image, k) + i

(* The file f after the first n steps, if it is for the records of kind k. *)
PutBack(f, image, n, k) ==
    /\ DOMAIN f = {i \in 1 .. Len(image[k]) : Before(image, k) + i <= n}
    /\ \A i \in DOMAIN f : f[i] = image[k][i]

(* The files fs after the first n steps; those not yet removed are older.  *)
AllPutBack(fs, image, n) ==
    \A q \in 1 .. 4 : q <= n => PutBack(fs[InTurn[q]], image, n, InTurn[q])

(* Of the plan all steps but the first m are left to be done.              *)
LeftToDo(s, plan, m) ==
    /\ Len(s) = Len(plan) - m
    /\ \A j \in 1 .. Len(plan) - m : s[j] = plan[m + j]

(* A Restore has done m steps of its plan to the end and, once its line is *)
(* written, one more to the files.                                         *)
Reached(t, m) ==
    /\ m < Len(RestorePlan(snap[t]))
    /\ LeftToDo(todo[t], RestorePlan(snap[t]), m)
    /\ AllPutBack(files, snap[t], IF pc[t] = "sync" THEN m + 1 ELSE m)

Restored(t) == Updating(t) /\ call[t].op = "Restore" => \E m \in Nat : Reached(t, m)

(* c is the list s and then the list u.                                    *)
Joins(c, s, u) ==
    /\ c \in Seq(Steps) /\ Len(c) = Len(s) + Len(u)
    /\ \A i \in 1 .. Len(s) : c[i] = s[i]
    /\ \A i \in 1 .. Len(u) : c[Len(s) + i] = u[i]

LEMMA ConcatIs ==
    ASSUME NEW s \in Seq(Steps), NEW u \in Seq(Steps)
    PROVE  s \o u \in Seq(Steps) /\ Joins(s \o u, s, u)
<1> DEFINE c == s \o u
<1>1. /\ c \in Seq(Steps) /\ Len(c) = Len(s) + Len(u)
      /\ \A i \in 1 .. Len(s) + Len(u) :
            c[i] = IF i <= Len(s) THEN s[i] ELSE u[i - Len(s)]
  BY ConcatProperties
<1>2. Len(s) \in Nat /\ Len(u) \in Nat
  OBVIOUS
<1>3. ASSUME NEW i \in 1 .. Len(u) PROVE c[Len(s) + i] = u[i]
  BY <1>1, <1>2
<1>4. ASSUME NEW i \in 1 .. Len(s) PROVE c[i] = s[i]
  BY <1>1, <1>2
<1> QED
  BY <1>1, <1>3, <1>4 DEF Joins

JoinsFive(c, r, d, p, v, q) ==
    /\ c \in Seq(Steps)
    /\ Len(c) = Len(r) + Len(d) + Len(p) + Len(v) + Len(q)
    /\ \A i \in 1 .. Len(r) : c[i] = r[i]
    /\ \A i \in 1 .. Len(d) : c[Len(r) + i] = d[i]
    /\ \A i \in 1 .. Len(p) : c[Len(r) + Len(d) + i] = p[i]
    /\ \A i \in 1 .. Len(v) : c[Len(r) + Len(d) + Len(p) + i] = v[i]
    /\ \A i \in 1 .. Len(q) : c[Len(r) + Len(d) + Len(p) + Len(v) + i] = q[i]

LEMMA PlanOfFive ==
    ASSUME NEW r \in Seq(Steps), NEW d \in Seq(Steps), NEW p \in Seq(Steps),
           NEW v \in Seq(Steps), NEW q \in Seq(Steps), NEW c, c = r \o d \o p \o v \o q
    PROVE  JoinsFive(c, r, d, p, v, q)
<1>1. Len(r) \in Nat /\ Len(d) \in Nat /\ Len(p) \in Nat /\ Len(v) \in Nat /\ Len(q) \in Nat
  OBVIOUS
<1>2. PICK a : a = r \o d /\ a \in Seq(Steps) /\ Joins(a, r, d)
  BY ConcatIs, Zenon
<1>3. PICK b : b = a \o p /\ b \in Seq(Steps) /\ Joins(b, a, p)
  BY <1>2, ConcatIs, Zenon
<1>4. PICK e : e = b \o v /\ e \in Seq(Steps) /\ Joins(e, b, v)
  BY <1>3, ConcatIs, Zenon
<1>5. Joins(c, e, q)
  <2>1. c = e \o q
    BY <1>2, <1>3, <1>4
  <2> QED
    BY <1>4, <2>1, ConcatIs, Zenon
<1>6. /\ a \in Seq(Steps) /\ Len(a) = Len(r) + Len(d)
      /\ \A i \in 1 .. Len(r) : a[i] = r[i]
      /\ \A i \in 1 .. Len(d) : a[Len(r) + i] = d[i]
  BY <1>2 DEF Joins
<1>7. /\ b \in Seq(Steps) /\ Len(b) = Len(a) + Len(p)
      /\ \A i \in 1 .. Len(a) : b[i] = a[i]
      /\ \A i \in 1 .. Len(p) : b[Len(a) + i] = p[i]
  BY <1>3 DEF Joins
<1>8. /\ e \in Seq(Steps) /\ Len(e) = Len(b) + Len(v)
      /\ \A i \in 1 .. Len(b) : e[i] = b[i]
      /\ \A i \in 1 .. Len(v) : e[Len(b) + i] = v[i]
  BY <1>4 DEF Joins
<1>9. /\ c \in Seq(Steps) /\ Len(c) = Len(e) + Len(q)
      /\ \A i \in 1 .. Len(e) : c[i] = e[i]
      /\ \A i \in 1 .. Len(q) : c[Len(e) + i] = q[i]
  BY <1>5 DEF Joins
<1>10. PICK R \in Nat, D \in Nat, P \in Nat, V \in Nat, Q \in Nat :
          /\ R = Len(r) /\ D = Len(d) /\ P = Len(p) /\ V = Len(v) /\ Q = Len(q)
  BY <1>1
<1>11. Len(a) = R + D /\ Len(b) = R + D + P /\ Len(e) = R + D + P + V
  BY <1>6, <1>7, <1>8, <1>10
<1>12. ASSUME NEW i \in 1 .. R + D PROVE c[i] = a[i]
  <2>1. i \in 1 .. R + D + P /\ i \in 1 .. R + D + P + V
    BY <1>10
  <2> QED
    BY <1>7, <1>8, <1>9, <1>11, <2>1
<1>13. ASSUME NEW i \in 1 .. R PROVE c[i] = r[i]
  <2>1. i \in 1 .. R + D
    BY <1>10
  <2> QED
    BY <1>6, <1>10, <1>12, <2>1
<1>14. ASSUME NEW i \in 1 .. D PROVE c[R + i] = d[i]
  <2>1. R + i \in 1 .. R + D
    BY <1>10
  <2> QED
    BY <1>6, <1>10, <1>12, <2>1
<1>15. ASSUME NEW i \in 1 .. P PROVE c[R + D + i] = p[i]
  <2>1. R + D + i \in 1 .. R + D + P /\ R + D + i \in 1 .. R + D + P + V
    BY <1>10
  <2> QED
    BY <1>7, <1>8, <1>9, <1>10, <1>11, <2>1
<1>16. ASSUME NEW i \in 1 .. V PROVE c[R + D + P + i] = v[i]
  <2>1. R + D + P + i \in 1 .. R + D + P + V
    BY <1>10
  <2> QED
    BY <1>8, <1>9, <1>10, <1>11, <2>1
<1> QED
  BY <1>9, <1>10, <1>11, <1>13, <1>14, <1>15, <1>16 DEF JoinsFive

LEMMA KindsInTurn ==
    /\ \A q \in 1 .. 4 : InTurn[q] \in Kinds
    /\ \A k \in Kinds : \E q \in 1 .. 4 : k = InTurn[q]
    /\ \A p, q \in 1 .. 4 : InTurn[p] = InTurn[q] => p = q
    /\ \A k \in Kinds : k \in {"decisions", "promotions", "revocations", "quarantines"}
  BY DEF InTurn, Kinds

LEMMA RestorePlanLays ==
    ASSUME NEW image \in Images
    PROVE  RestorePlan(image) \in Seq(Steps) /\ Lays(RestorePlan(image), image)
<1>1. PICK r \in Seq(Steps) :
         /\ r = <<Remove("decisions"), Remove("promotions"), Remove("revocations"),
                  Remove("quarantines")>>
         /\ Len(r) = 4 /\ \A i \in 1 .. 4 : r[i] = Remove(InTurn[i])
  <2> DEFINE s == <<Remove("decisions"), Remove("promotions"), Remove("revocations"),
                    Remove("quarantines")>>
  <2>1. \A k \in Kinds : Remove(k) \in Steps
    BY StepsTyped
  <2>2. s \in Seq(Steps)
    BY <2>1, Shapes
  <2>3. \A i \in 1 .. 4 : s[i] = Remove(InTurn[i])
    <3> TAKE i \in 1 .. 4
    <3>1. i = 1 \/ i = 2 \/ i = 3 \/ i = 4
      OBVIOUS
    <3> QED
      BY <3>1 DEF InTurn
  <2>4. Len(s) = 4
    OBVIOUS
  <2> QED
    BY <2>2, <2>3, <2>4
<1>2. \A k \in Kinds : /\ image[k] \in Seq(Shape(k)) /\ WriteAll(k, image[k]) \in Seq(Steps)
                       /\ Len(WriteAll(k, image[k])) = Len(image[k])
                       /\ \A i \in 1 .. Len(image[k]) : WriteAll(k, image[k])[i] = Write(k, image[k][i])
  <2> TAKE k \in Kinds
  <2>1. image[k] \in Seq(Shape(k))
    BY DEF Images
  <2>2. WriteAll(k, image[k]) \in Seq(Steps)
    BY <2>1, StepsTyped
  <2> QED
    BY <2>1, <2>2 DEF WriteAll
<1>3. PICK d \in Seq(Steps), p \in Seq(Steps), v \in Seq(Steps), q \in Seq(Steps) :
         /\ d = WriteAll("decisions", image["decisions"])
         /\ p = WriteAll("promotions", image["promotions"])
         /\ v = WriteAll("revocations", image["revocations"])
         /\ q = WriteAll("quarantines", image["quarantines"])
  BY <1>2, Shapes
<1>4. PICK D \in Nat, P \in Nat, V \in Nat, Q \in Nat :
         /\ D = Len(image["decisions"]) /\ P = Len(image["promotions"])
         /\ V = Len(image["revocations"]) /\ Q = Len(image["quarantines"])
         /\ D = Len(d) /\ P = Len(p) /\ V = Len(v) /\ Q = Len(q)
  BY <1>2, <1>3, Shapes
<1>5. PICK plan : plan = r \o d \o p \o v \o q /\ plan = RestorePlan(image)
  BY <1>1, <1>3 DEF RestorePlan
<1>6. /\ plan \in Seq(Steps) /\ Len(plan) = 4 + D + P + V + Q
      /\ \A i \in 1 .. 4 : plan[i] = Remove(InTurn[i])
      /\ \A i \in 1 .. D : plan[4 + i] = Write("decisions", image["decisions"][i])
      /\ \A i \in 1 .. P : plan[4 + D + i] = Write("promotions", image["promotions"][i])
      /\ \A i \in 1 .. V : plan[4 + D + P + i] = Write("revocations", image["revocations"][i])
      /\ \A i \in 1 .. Q : plan[4 + D + P + V + i] = Write("quarantines", image["quarantines"][i])
  <2>0. /\ plan = r \o d \o p \o v \o q
        /\ r \in Seq(Steps) /\ d \in Seq(Steps) /\ p \in Seq(Steps)
        /\ v \in Seq(Steps) /\ q \in Seq(Steps)
    BY <1>1, <1>3, <1>5
  <2>1. JoinsFive(plan, r, d, p, v, q)
    BY ONLY <2>0, PlanOfFive, Zenon
  <2>2. Len(r) = 4 /\ Len(d) = D /\ Len(p) = P /\ Len(v) = V /\ Len(q) = Q
    BY <1>1, <1>4
  <2>3. /\ \A i \in 1 .. 4 : r[i] = Remove(InTurn[i])
        /\ \A i \in 1 .. D : d[i] = Write("decisions", image["decisions"][i])
        /\ \A i \in 1 .. P : p[i] = Write("promotions", image["promotions"][i])
        /\ \A i \in 1 .. V : v[i] = Write("revocations", image["revocations"][i])
        /\ \A i \in 1 .. Q : q[i] = Write("quarantines", image["quarantines"][i])
    BY <1>1, <1>2, <1>3, <1>4, Shapes
  <2> QED
    <3>1. plan \in Seq(Steps) /\ Len(plan) = 4 + D + P + V + Q
      BY <2>1, <2>2 DEF JoinsFive
    <3>2. /\ \A i \in 1 .. 4 : plan[i] = r[i]
          /\ \A i \in 1 .. D : plan[4 + i] = d[i]
          /\ \A i \in 1 .. P : plan[4 + D + i] = p[i]
      BY <2>1, <2>2 DEF JoinsFive
    <3>3. /\ \A i \in 1 .. V : plan[4 + D + P + i] = v[i]
          /\ \A i \in 1 .. Q : plan[4 + D + P + V + i] = q[i]
      BY <2>1, <2>2 DEF JoinsFive
    <3> QED
      BY <2>3, <3>1, <3>2, <3>3
<1>7. /\ Before(image, "decisions") = 4
      /\ Before(image, "promotions") = 4 + D
      /\ Before(image, "revocations") = 4 + D + P
      /\ Before(image, "quarantines") = 4 + D + P + V
  BY <1>4 DEF Before
<1>8. \A j \in 1 .. 4 : j <= Len(plan) /\ plan[j] = Remove(InTurn[j])
  BY <1>6
<1>9. \A k \in Kinds : \A i \in 1 .. Len(image[k]) :
         /\ Before(image, k) + i \in 5 .. Len(plan)
         /\ plan[Before(image, k) + i] = Write(k, image[k][i])
  <2> TAKE k \in Kinds
  <2> TAKE i \in 1 .. Len(image[k])
  <2>1. CASE k = "decisions"
    <3>1. i \in 1 .. D
      BY <1>4, <2>1
    <3>2. 4 + i \in 5 .. Len(plan) /\ plan[4 + i] = Write("decisions", image["decisions"][i])
      BY <1>4, <1>6, <3>1
    <3> QED
      BY <1>7, <2>1, <3>2
  <2>2. CASE k = "promotions"
    <3>1. i \in 1 .. P
      BY <1>4, <2>2
    <3>2. 4 + D + i \in 5 .. Len(plan) /\ plan[4 + D + i] = Write("promotions", image["promotions"][i])
      BY <1>4, <1>6, <3>1
    <3> QED
      BY <1>7, <2>2, <3>2
  <2>3. CASE k = "revocations"
    <3>1. i \in 1 .. V
      BY <1>4, <2>3
    <3>2. /\ 4 + D + P + i \in 5 .. Len(plan)
          /\ plan[4 + D + P + i] = Write("revocations", image["revocations"][i])
      BY <1>4, <1>6, <3>1
    <3> QED
      BY <1>7, <2>3, <3>2
  <2>4. CASE k = "quarantines"
    <3>1. i \in 1 .. Q
      BY <1>4, <2>4
    <3>2. /\ 4 + D + P + V + i \in 5 .. Len(plan)
          /\ plan[4 + D + P + V + i] = Write("quarantines", image["quarantines"][i])
      BY <1>4, <1>6, <3>1
    <3> QED
      BY <1>7, <2>4, <3>2
  <2> QED
    BY <2>1, <2>2, <2>3, <2>4, KindsInTurn
<1>10. \A j \in 5 .. Len(plan) :
          \E k \in Kinds : \E i \in 1 .. Len(image[k]) : j = Before(image, k) + i
  <2> TAKE j \in 5 .. Len(plan)
  <2>1. CASE j <= 4 + D
    <3>1. j - 4 \in 1 .. Len(image["decisions"]) /\ j = Before(image, "decisions") + (j - 4)
      BY <1>4, <1>6, <1>7, <2>1
    <3> QED
      BY <3>1, Shapes
  <2>2. CASE j > 4 + D /\ j <= 4 + D + P
    <3>1. /\ j - (4 + D) \in 1 .. Len(image["promotions"])
          /\ j = Before(image, "promotions") + (j - (4 + D))
      BY <1>4, <1>6, <1>7, <2>2
    <3> QED
      BY <3>1, Shapes
  <2>3. CASE j > 4 + D + P /\ j <= 4 + D + P + V
    <3>1. /\ j - (4 + D + P) \in 1 .. Len(image["revocations"])
          /\ j = Before(image, "revocations") + (j - (4 + D + P))
      BY <1>4, <1>6, <1>7, <2>3
    <3> QED
      BY <3>1, Shapes
  <2>4. CASE j > 4 + D + P + V
    <3>1. /\ j - (4 + D + P + V) \in 1 .. Len(image["quarantines"])
          /\ j = Before(image, "quarantines") + (j - (4 + D + P + V))
      BY <1>4, <1>6, <1>7, <2>4
    <3> QED
      BY <3>1, Shapes
  <2> QED
    BY <1>4, <2>1, <2>2, <2>3, <2>4
<1> QED
  BY <1>5, <1>6, <1>8, <1>9, <1>10 DEF Lays

LEMMA BeforeIsNumber ==
    ASSUME NEW image \in Images, NEW k \in Kinds
    PROVE  Before(image, k) \in Nat /\ Before(image, k) >= 4 /\ Len(image[k]) \in Nat
<1>1. \A l \in Kinds : image[l] \in Seq(Shape(l))
  BY DEF Images
<1>2. \A l \in Kinds : Len(image[l]) \in Nat
  BY <1>1
<1>3. PICK D \in Nat, P \in Nat, V \in Nat :
         /\ D = Len(image["decisions"]) /\ P = Len(image["promotions"])
         /\ V = Len(image["revocations"])
  BY <1>2, Shapes
<1>4. Before(image, k) \in Nat /\ Before(image, k) >= 4
  <2>1. CASE k = "decisions"
    BY <2>1 DEF Before
  <2>2. CASE k = "promotions"
    BY <1>3, <2>2 DEF Before
  <2>3. CASE k = "revocations"
    <3>1. Before(image, k) = 4 + D + P + 0
      BY <1>3, <2>3, Zenon DEF Before
    <3> QED
      BY <3>1
  <2>4. CASE k = "quarantines"
    <3>1. Before(image, k) = 4 + D + P + V
      BY <1>3, <2>4 DEF Before
    <3> QED
      BY <3>1
  <2> QED
    BY <2>1, <2>2, <2>3, <2>4, KindsInTurn
<1> QED
  BY <1>2, <1>4

(* Two steps that write the same line are one.                             *)
LEMMA LinesApart ==
    ASSUME NEW image \in Images, NEW plan, Lays(plan, image),
           NEW k \in Kinds, NEW i \in 1 .. Len(image[k]),
           NEW l \in Kinds, NEW j \in 1 .. Len(image[l]),
           Before(image, k) + i = Before(image, l) + j
    PROVE  k = l
<1>1. /\ plan[Before(image, k) + i] = Write(k, image[k][i])
      /\ plan[Before(image, l) + j] = Write(l, image[l][j])
  BY DEF Lays
<1>2. Write(k, image[k][i]) = Write(l, image[l][j])
  BY <1>1, Zenon
<1> QED
  BY <1>2 DEF Write

(* The next step is the first of those left to be done.                    *)
LEMMA NextOfPlan ==
    ASSUME NEW plan \in Seq(Steps), NEW s \in Seq(Steps), s # <<>>, NEW m \in Nat,
           m < Len(plan), LeftToDo(s, plan, m)
    PROVE  /\ Head(s) = plan[m + 1] /\ m + 1 \in 1 .. Len(plan)
           /\ Len(s) = 1 => m + 1 = Len(plan)
           /\ Len(s) # 1 => m + 1 < Len(plan) /\ LeftToDo(Tail(s), plan, m + 1)
<1>1. /\ Len(s) \in Nat /\ Len(s) # 0 /\ Head(s) = s[1] /\ Len(Tail(s)) = Len(s) - 1
      /\ \A i \in 1 .. Len(s) - 1 : Tail(s)[i] = s[i + 1]
  BY HeadTailProperties, EmptySeq, LenProperties
<1>2. PICK n \in Nat : n = Len(plan)
  OBVIOUS
<1>3. Len(s) = n - m /\ \A j \in 1 .. n - m : s[j] = plan[m + j]
  BY <1>2 DEF LeftToDo
<1>4. 1 \in 1 .. n - m
  BY <1>2
<1>5. Head(s) = plan[m + 1]
  BY <1>1, <1>3, <1>4
<1>6. ASSUME Len(s) # 1 PROVE m + 1 < n /\ LeftToDo(Tail(s), plan, m + 1)
  <2>1. m + 1 < n /\ Len(Tail(s)) = n - (m + 1)
    BY <1>1, <1>2, <1>3, <1>6
  <2>2. ASSUME NEW j \in 1 .. n - (m + 1) PROVE Tail(s)[j] = plan[m + 1 + j]
    <3>1. j \in 1 .. Len(s) - 1 /\ j + 1 \in 1 .. n - m /\ m + (j + 1) = m + 1 + j
      BY <1>2, <1>3, <2>1
    <3> QED
      BY <1>1, <1>3, <3>1
  <2> QED
    BY <1>2, <2>1, <2>2 DEF LeftToDo
<1> QED
  BY <1>2, <1>3, <1>5, <1>6

(* The first four steps empty the files.                                   *)
LEMMA EmptyIsPutBack ==
    ASSUME NEW image \in Images, NEW k \in Kinds, NEW n \in 0 .. 4, NEW f
    PROVE  PutBack(f, image, n, k) <=> DOMAIN f = {}
<1>1. {i \in 1 .. Len(image[k]) : Before(image, k) + i <= n} = {}
  BY BeforeIsNumber
<1> QED
  BY <1>1 DEF PutBack

LEMMA RemoveGoesOn ==
    ASSUME NEW image \in Images, NEW plan \in Seq(Steps), Lays(plan, image),
           NEW fs, DOMAIN fs = Kinds, NEW m \in Nat, m < Len(plan),
           plan[m + 1].do = "remove", AllPutBack(fs, image, m)
    PROVE  AllPutBack([fs EXCEPT ![plan[m + 1].kind] = <<>>], image, m + 1)
<1>1. m + 1 \in 1 .. 4
  <2>1. m + 1 \in 1 .. Len(plan)
    OBVIOUS
  <2> SUFFICES ASSUME m + 1 \in 5 .. Len(plan) PROVE FALSE
    BY <2>1
  <2>2. PICK k \in Kinds : \E i \in 1 .. Len(image[k]) : m + 1 = Before(image, k) + i
    BY DEF Lays
  <2>3. PICK i \in 1 .. Len(image[k]) : m + 1 = Before(image, k) + i
    BY <2>2
  <2>4. plan[m + 1] = Write(k, image[k][i])
    BY <2>3 DEF Lays
  <2> QED
    BY <2>4 DEF Write
<1>2. plan[m + 1] = Remove(InTurn[m + 1])
  BY <1>1 DEF Lays
<1>3. plan[m + 1].kind = InTurn[m + 1]
  BY <1>2 DEF Remove
<1> DEFINE new == [fs EXCEPT ![plan[m + 1].kind] = <<>>]
<1>4. ASSUME NEW q \in 1 .. 4, q <= m + 1 PROVE DOMAIN new[InTurn[q]] = {}
  <2>1. CASE q = m + 1
    BY <1>3, <2>1, KindsInTurn
  <2>2. CASE q # m + 1
    <3>1. q <= m /\ m \in 0 .. 4
      BY <1>1, <1>4, <2>2
    <3>2. DOMAIN fs[InTurn[q]] = {}
      BY <3>1, KindsInTurn, EmptyIsPutBack DEF AllPutBack
    <3>3. InTurn[q] # InTurn[m + 1] /\ InTurn[q] \in Kinds
      BY <1>1, <2>2, KindsInTurn
    <3> QED
      BY <1>3, <3>2, <3>3
  <2> QED
    BY <2>1, <2>2
<1>5. m + 1 \in 0 .. 4
  BY <1>1
<1> HIDE DEF new
<1>6. AllPutBack(new, image, m + 1)
  BY <1>4, <1>5, KindsInTurn, EmptyIsPutBack DEF AllPutBack
<1> QED
  BY <1>6 DEF new

LEMMA WriteGoesOn ==
    ASSUME NEW image \in Images, NEW plan \in Seq(Steps), Lays(plan, image),
           NEW fs, DOMAIN fs = Kinds, NEW m \in Nat, m < Len(plan),
           plan[m + 1].do = "append", AllPutBack(fs, image, m),
           NEW S, fs[plan[m + 1].kind] \in Seq(S)
    PROVE  AllPutBack([fs EXCEPT ![plan[m + 1].kind] = Append(@, plan[m + 1].rec)], image, m + 1)
<1>1. m + 1 \in 5 .. Len(plan)
  <2>1. m + 1 \in 1 .. Len(plan)
    OBVIOUS
  <2> SUFFICES ASSUME m + 1 \in 1 .. 4 PROVE FALSE
    BY <2>1
  <2>2. plan[m + 1] = Remove(InTurn[m + 1])
    BY DEF Lays
  <2> QED
    BY <2>2 DEF Remove
<1>2. PICK k \in Kinds : \E i \in 1 .. Len(image[k]) : m + 1 = Before(image, k) + i
  BY <1>1 DEF Lays
<1>3. PICK i \in 1 .. Len(image[k]) : m + 1 = Before(image, k) + i
  BY <1>2
<1>4. plan[m + 1] = Write(k, image[k][i])
  BY <1>3 DEF Lays
<1>5. plan[m + 1].kind = k /\ plan[m + 1].rec = image[k][i]
  BY <1>4 DEF Write
<1>6. ASSUME NEW l \in Kinds PROVE PutBack(fs[l], image, m, l)
  <2>1. PICK q \in 1 .. 4 : l = InTurn[q]
    BY KindsInTurn
  <2>2. q <= m
    BY <1>1
  <2> QED
    BY <2>1, <2>2 DEF AllPutBack
<1>7. ASSUME NEW l \in Kinds \ {k} PROVE PutBack(fs[l], image, m + 1, l)
  <2>1. ASSUME NEW j \in 1 .. Len(image[l]) PROVE Before(image, l) + j # m + 1
    BY <1>3, <2>1, LinesApart
  <2>2. \A j \in 1 .. Len(image[l]) : Before(image, l) + j <= m <=> Before(image, l) + j <= m + 1
    <3>1. PICK b \in Nat : b = Before(image, l)
      BY BeforeIsNumber
    <3>2. ASSUME NEW j \in 1 .. Len(image[l]) PROVE b + j <= m <=> b + j <= m + 1
      <4>1. b + j # m + 1
        BY <2>1, <3>1
      <4>2. j \in Int
        BY BeforeIsNumber
      <4> QED
        BY <4>1, <4>2
    <3> QED
      BY <3>1, <3>2
  <2>3. {j \in 1 .. Len(image[l]) : Before(image, l) + j <= m}
          = {j \in 1 .. Len(image[l]) : Before(image, l) + j <= m + 1}
    BY <2>2
  <2> QED
    BY <1>6, <2>3 DEF PutBack
<1>8. PutBack(Append(fs[k], image[k][i]), image, m + 1, k)
  <2>1. PICK b \in Nat, n \in Nat : b = Before(image, k) /\ n = Len(image[k])
    BY BeforeIsNumber
  <2>2. DOMAIN fs[k] = 1 .. i - 1
    <3>1. {j \in 1 .. n : b + j <= m} = 1 .. i - 1
      BY <1>3, <2>1
    <3> QED
      BY <1>6, <2>1, <3>1 DEF PutBack
  <2>3. Len(fs[k]) = i - 1
    BY <1>5, <2>2
  <2>4. /\ DOMAIN Append(fs[k], image[k][i]) = 1 .. i
        /\ \A j \in 1 .. i : Append(fs[k], image[k][i])[j] = IF j = i THEN image[k][i] ELSE fs[k][j]
    BY <1>5, <2>3
  <2>5. {j \in 1 .. n : b + j <= m + 1} = 1 .. i
    BY <1>3, <2>1
  <2>6. \A j \in 1 .. i - 1 : fs[k][j] = image[k][j]
    BY <1>6, <2>2 DEF PutBack
  <2>7. \A j \in 1 .. i : Append(fs[k], image[k][i])[j] = image[k][j]
    BY <2>4, <2>6
  <2> QED
    BY <2>1, <2>4, <2>5, <2>7 DEF PutBack
<1> DEFINE new == [fs EXCEPT ![plan[m + 1].kind] = Append(@, plan[m + 1].rec)]
<1>9. ASSUME NEW l \in Kinds PROVE PutBack(new[l], image, m + 1, l)
  BY <1>5, <1>7, <1>8
<1> HIDE DEF new
<1>10. AllPutBack(new, image, m + 1)
  BY <1>9, KindsInTurn DEF AllPutBack
<1> QED
  BY <1>10 DEF new

(* After all steps the files are the image.                                *)
LEMMA AllIsPutBack ==
    ASSUME NEW image \in Images, NEW plan \in Seq(Steps), Lays(plan, image),
           NEW fs \in [Kinds -> Seq(Records \cup {Garbage})], AllPutBack(fs, image, Len(plan))
    PROVE  fs = image
<1>1. ASSUME NEW k \in Kinds PROVE fs[k] = image[k]
  <2>1. PICK q \in 1 .. 4 : k = InTurn[q]
    BY KindsInTurn
  <2>2. q <= Len(plan)
    BY DEF Lays
  <2>3. PutBack(fs[k], image, Len(plan), k)
    BY <2>1, <2>2 DEF AllPutBack
  <2>4. {i \in 1 .. Len(image[k]) : Before(image, k) + i <= Len(plan)} = 1 .. Len(image[k])
    <3>1. \A i \in 1 .. Len(image[k]) : Before(image, k) + i \in 5 .. Len(plan)
      BY DEF Lays
    <3> QED
      BY <3>1
  <2>5. fs[k] \in Seq(Records \cup {Garbage}) /\ image[k] \in Seq(Records \cup {Garbage})
    BY DEF Images
  <2>6. DOMAIN fs[k] = 1 .. Len(image[k]) /\ \A i \in DOMAIN fs[k] : fs[k][i] = image[k][i]
    BY <2>3, <2>4 DEF PutBack
  <2>7. Len(fs[k]) = Len(image[k])
    BY <2>5, <2>6
  <2> QED
    BY <2>5, <2>6, <2>7, SeqEqual
<1>2. image \in [Kinds -> Seq(Records)]
  BY DEF Images
<1> QED
  BY <1>1, <1>2

-----------------------------------------------------------------------------
(* Every step keeps to the plan.                                           *)

SnapsStay(t) == \A u \in Threads \ {t} : snap'[u] = snap[u]

LEMMA StepSnaps ==
    ASSUME ThreadsOK, NEW t \in Threads, Invoke(t) \/ Enter(t) \/ Proceed(t)
    PROVE  SnapsStay(t)
<1>1. ASSUME NEW a, Return(t, a) PROVE SnapsStay(t)
  BY <1>1 DEF Return, ThreadsOK, SnapsStay
<1>2. ASSUME UNCHANGED snap PROVE SnapsStay(t)
  BY <1>2 DEF SnapsStay
<1>3. ASSUME NEW s, Begin(t, s) PROVE SnapsStay(t)
  BY <1>2, <1>3 DEF Begin
<1>4. CASE Fails(t)
  BY <1>1, <1>4 DEF Fails
<1>5. CASE Invoke(t)
  BY <1>5 DEF Invoke, ThreadsOK, SnapsStay
<1>6. ASSUME NEW k, NEW image, NEW next, BackupRead(t, k, image, next) PROVE SnapsStay(t)
  BY <1>1, <1>6 DEF BackupRead, Fails, ThreadsOK, SnapsStay
<1>7. CASE Enter(t) /\ ~Fails(t)
  <2>1. CASE SaveDecision(t) \/ Revoke(t) \/ Quarantine(t)
    BY <1>3, <2>1 DEF SaveDecision, Revoke, Quarantine
  <2>2. CASE Unquarantine(t)
    BY <1>3, <1>7, <2>2, Zenon DEF Unquarantine
  <2>3. CASE Restore(t)
    BY <1>3, <1>7, <2>3, Zenon DEF Restore
  <2>4. CASE IsRevoked(t) \/ IsQuarantined(t)
    BY <1>1, <2>4 DEF IsRevoked, IsQuarantined, Query
  <2>5. CASE Promote(t)
    BY <1>2, <1>7, <2>5 DEF Promote
  <2>6. CASE Backup(t)
    BY <1>6, <2>6 DEF Backup
  <2> QED
    BY <1>7, <2>1, <2>2, <2>3, <2>4, <2>5, <2>6 DEF Enter
<1>8. CASE Proceed(t) /\ ~Fails(t)
  <2>1. CASE PromoteCheckRevocations(t) \/ PromoteCheckQuarantines(t)
    BY <1>2, <1>3, <1>8, <2>1 DEF PromoteCheckRevocations, PromoteCheckQuarantines
  <2>2. CASE BackupPromotions(t) \/ BackupRevocations(t) \/ BackupQuarantines(t)
    BY <1>6, <2>2 DEF BackupPromotions, BackupRevocations, BackupQuarantines
  <2>3. CASE TruncateBackup(t) \/ WriteBackup(t)
    BY <1>1, <1>2, <2>3 DEF TruncateBackup, WriteBackup
  <2>4. CASE OpenFile(t) \/ WriteLine(t) \/ Fsync(t) \/ RemoveFile(t)
    BY <1>1, <1>2, <2>4 DEF OpenFile, WriteLine, Fsync, RemoveFile, StepDone
  <2> QED
    BY <1>8, <2>1, <2>2, <2>3, <2>4 DEF Proceed
<1> QED
  BY <1>4, <1>5, <1>7, <1>8

(* When t's Restore is answered with success the files are its backup.     *)
Exact(t) == pc[t] \in Inside /\ call[t].op = "Restore" /\ answer'[t] = "ok" => files' = snap[t]

LEMMA OthersKeepRestored ==
    ASSUME SingleProcess, TypeOK, MutualExclusion, Unanswered, NEW t \in Threads,
           Invoke(t) \/ Enter(t) \/ Proceed(t), NEW u \in Threads \ {t}, Restored(u)
    PROVE  Restored(u)' /\ Exact(u)
<1> USE DEF TypeOK
<1>1. pc'[u] = pc[u] /\ answer'[u] = answer[u] /\ snap'[u] = snap[u]
  BY StepAnswers, StepSnaps DEF Answered, SnapsStay
<1>2. call'[u] = call[u] /\ todo'[u] = todo[u]
  BY InvokeMoves, EnterMoves, ProceedMoves DEF Alone
<1>3. Updating(u) => UNCHANGED files
  <2>1. Updating(u) => pc[u] \in Inside
    BY DEF Updating, Inside
  <2>2. Careful(t)
    BY InvokeMoves, EnterMoves, ProceedMoves
  <2> QED
    BY <2>1, <2>2, WriterIsAlone DEF Careful
<1>4. Exact(u)
  BY <1>1 DEF Exact, Unanswered, Inside
<1>5. ASSUME Updating(u)', call'[u].op = "Restore" PROVE \E m \in Nat : Reached(u, m)'
  <2>1. Updating(u) /\ call[u].op = "Restore"
    BY <1>1, <1>2, <1>5 DEF Updating
  <2>2. PICK m \in Nat : Reached(u, m)
    BY <2>1 DEF Restored
  <2>3. Reached(u, m)'
    BY <1>1, <1>2, <1>3, <2>1, <2>2 DEF Reached, AllPutBack
  <2> QED
    BY <2>3
<1> QED
  BY <1>4, <1>5 DEF Restored

(* A Restore under way has a plan and a list of what is left of it.        *)
LEMMA RestorerKnows ==
    ASSUME TypeOK, NEW t \in Threads, Updating(t), call[t].op = "Restore"
    PROVE  /\ snap[t] \in Images
           /\ RestorePlan(snap[t]) \in Seq(Steps) /\ Lays(RestorePlan(snap[t]), snap[t])
           /\ todo[t] \in Seq(Steps) /\ todo[t] # <<>>
<1>1. snap[t] \in Images
  BY DEF TypeOK, ThreadsOK, Consistent, Updating
<1>2. todo[t] \in Seq(Steps) /\ todo[t] # <<>>
  BY DEF TypeOK, ThreadsOK, Consistent, Updating
<1> QED
  BY <1>1, <1>2, RestorePlanLays

LEMMA BeginRestores ==
    ASSUME TypeOK, NEW t \in Threads, Restore(t), ~Fails(t)
    PROVE  Restored(t)'
<1>1. snap[t] # Garbage /\ Begin(t, RestorePlan(snap[t]))
  BY Zenon DEF Restore, RestorePlan
<1>2. snap[t] \in Images
  BY <1>1 DEF TypeOK, ThreadsOK
<1>3. RestorePlan(snap[t]) \in Seq(Steps) /\ Lays(RestorePlan(snap[t]), snap[t])
  BY <1>2, RestorePlanLays
<1>4. /\ pc'[t] = "steps" /\ todo'[t] = RestorePlan(snap[t]) /\ snap'[t] = snap[t]
      /\ call'[t] = call[t]
  BY <1>1 DEF Begin, Goto, TypeOK, ThreadsOK
<1>5. PICK plan : plan = RestorePlan(snap[t])
  OBVIOUS
<1>6. 0 < Len(plan)
  BY <1>3, <1>5 DEF Lays
<1>7. LeftToDo(plan, plan, 0)
  BY <1>3, <1>5 DEF LeftToDo
<1>8. AllPutBack(files', snap[t], 0)
  BY DEF AllPutBack
<1>9. Reached(t, 0)'
  BY <1>4, <1>5, <1>6, <1>7, <1>8 DEF Reached, AllPutBack
<1> QED
  BY <1>9 DEF Restored

LEMMA StepDoneRestores ==
    ASSUME TypeOK, TypeOK', Unanswered, NEW t \in Threads, Updating(t), call[t].op = "Restore",
           StepDone(t),
           NEW m \in Nat, m < Len(RestorePlan(snap[t])),
           LeftToDo(todo[t], RestorePlan(snap[t]), m), AllPutBack(files', snap[t], m + 1)
    PROVE  Restored(t)' /\ Exact(t)
<1>1. PICK plan \in Seq(Steps) : plan = RestorePlan(snap[t]) /\ Lays(plan, snap[t])
  BY RestorerKnows
<1>2. /\ Len(todo[t]) = 1 => m + 1 = Len(plan)
      /\ Len(todo[t]) # 1 => m + 1 < Len(plan) /\ LeftToDo(Tail(todo[t]), plan, m + 1)
  BY <1>1, NextOfPlan, RestorerKnows
<1>3. CASE Len(todo[t]) = 1
  <2>1. pc'[t] = "idle"
    BY <1>3 DEF StepDone, Return, Goto, TypeOK, ThreadsOK
  <2>2. files' = snap[t]
    BY <1>1, <1>2, <1>3, RestorerKnows, AllIsPutBack DEF TypeOK, DiskOK
  <2> QED
    BY <2>1, <2>2 DEF Restored, Updating, Exact
<1>4. CASE Len(todo[t]) # 1
  <2>1. /\ pc'[t] = "steps" /\ todo'[t] = Tail(todo[t])
        /\ UNCHANGED <<call, snap, answer>>
    BY <1>4 DEF StepDone, Goto, TypeOK, ThreadsOK
  <2>2. answer'[t] = "none"
    BY <2>1 DEF Unanswered, Updating
  <2>3. Reached(t, m + 1)'
    BY <1>1, <1>2, <1>4, <2>1 DEF Reached, AllPutBack
  <2> QED
    BY <2>2, <2>3 DEF Restored, Exact
<1> QED
  BY <1>3, <1>4

LEMMA OpenFileRestores ==
    ASSUME TypeOK, Unanswered, NEW t \in Threads, call[t].op = "Restore", OpenFile(t), Restored(t)
    PROVE  Restored(t)' /\ Exact(t)
<1>1. /\ pc[t] = "steps" /\ pc'[t] = "write"
      /\ UNCHANGED <<files, call, todo, snap, answer>>
  BY DEF OpenFile, Goto, TypeOK, ThreadsOK, disk
<1>2. PICK m \in Nat : Reached(t, m)
  BY <1>1 DEF Restored, Updating
<1>3. Reached(t, m)'
  BY <1>1, <1>2 DEF Reached, AllPutBack
<1>4. answer'[t] = "none"
  BY <1>1 DEF Unanswered
<1> QED
  BY <1>3, <1>4 DEF Restored, Exact

LEMMA WriteLineRestores ==
    ASSUME TypeOK, Unanswered, AtomicInv, NEW t \in Threads, call[t].op = "Restore",
           WriteLine(t), Restored(t)
    PROVE  Restored(t)' /\ Exact(t)
<1>1. /\ Updating(t) /\ pc[t] = "write" /\ Head(todo[t]).do = "append"
      /\ answer[t] = "none"
  BY DEF WriteLine, Updating, TypeOK, ThreadsOK, Consistent, Unanswered
<1>2. /\ pc'[t] = "sync" /\ UNCHANGED <<call, todo, snap, answer>>
      /\ files' = [files EXCEPT ![Head(todo[t]).kind] = Append(@, Head(todo[t]).rec)]
  BY DEF WriteLine, Goto, Appended, AtomicInv, Intact, TypeOK, ThreadsOK
<1>3. PICK m \in Nat : Reached(t, m)
  BY <1>1 DEF Restored
<1>4. PICK plan \in Seq(Steps) : plan = RestorePlan(snap[t]) /\ Lays(plan, snap[t])
  BY <1>1, RestorerKnows
<1>5. /\ m < Len(plan) /\ LeftToDo(todo[t], plan, m) /\ AllPutBack(files, snap[t], m)
  BY <1>1, <1>3, <1>4 DEF Reached
<1>6. Head(todo[t]) = plan[m + 1] /\ m + 1 \in 1 .. Len(plan)
  BY <1>1, <1>4, <1>5, NextOfPlan, RestorerKnows
<1>7. plan[m + 1].kind \in Kinds
  BY <1>4, <1>6 DEF Steps
<1>8. DOMAIN files = Kinds /\ files[plan[m + 1].kind] \in Seq(Records \cup {Garbage})
  BY <1>7 DEF TypeOK, DiskOK
<1>9. AllPutBack([files EXCEPT ![plan[m + 1].kind] = Append(@, plan[m + 1].rec)], snap[t], m + 1)
  BY <1>1, <1>4, <1>5, <1>6, <1>8, WriteGoesOn, RestorerKnows
<1>10. AllPutBack(files', snap[t], m + 1)
  BY <1>2, <1>6, <1>9
<1>11. Reached(t, m)'
  BY <1>2, <1>3, <1>10 DEF Reached, AllPutBack
<1> QED
  BY <1>1, <1>2, <1>11 DEF Restored, Exact

LEMMA FsyncRestores ==
    ASSUME TypeOK, TypeOK', Unanswered, NEW t \in Threads, call[t].op = "Restore",
           Fsync(t), Restored(t)
    PROVE  Restored(t)' /\ Exact(t)
<1>1. Updating(t) /\ pc[t] = "sync" /\ StepDone(t) /\ UNCHANGED files
  BY DEF Fsync, Updating
<1>2. PICK m \in Nat : Reached(t, m)
  BY <1>1 DEF Restored
<1>3. AllPutBack(files', snap[t], m + 1)
  BY <1>1, <1>2 DEF Reached
<1> QED
  BY <1>1, <1>2, <1>3, StepDoneRestores DEF Reached

LEMMA RemoveFileRestores ==
    ASSUME TypeOK, TypeOK', Unanswered, NEW t \in Threads, call[t].op = "Restore",
           RemoveFile(t), Restored(t)
    PROVE  Restored(t)' /\ Exact(t)
<1>1. /\ Updating(t) /\ pc[t] = "steps" /\ Head(todo[t]).do = "remove" /\ StepDone(t)
      /\ files' = [files EXCEPT ![Head(todo[t]).kind] = <<>>]
  BY DEF RemoveFile, Updating
<1>2. PICK m \in Nat : Reached(t, m)
  BY <1>1 DEF Restored
<1>3. PICK plan \in Seq(Steps) : plan = RestorePlan(snap[t]) /\ Lays(plan, snap[t])
  BY <1>1, RestorerKnows
<1>4. /\ m < Len(plan) /\ LeftToDo(todo[t], plan, m) /\ AllPutBack(files, snap[t], m)
  BY <1>1, <1>2, <1>3 DEF Reached
<1>5. Head(todo[t]) = plan[m + 1]
  BY <1>1, <1>3, <1>4, NextOfPlan, RestorerKnows
<1>6. DOMAIN files = Kinds
  BY DEF TypeOK, DiskOK
<1>7. AllPutBack([files EXCEPT ![plan[m + 1].kind] = <<>>], snap[t], m + 1)
  BY <1>1, <1>3, <1>4, <1>5, <1>6, RemoveGoesOn, RestorerKnows
<1>8. AllPutBack(files', snap[t], m + 1)
  BY <1>1, <1>5, <1>7
<1> QED
  BY <1>1, <1>2, <1>8, StepDoneRestores DEF Reached

(* What a thread that restores can do.                                     *)
LEMMA RestorersSteps ==
    ASSUME TypeOK, NEW t \in Threads, Invoke(t) \/ Enter(t) \/ Proceed(t),
           pc[t] # "idle", call[t].op = "Restore"
    PROVE  Restore(t) \/ OpenFile(t) \/ WriteLine(t) \/ Fsync(t) \/ RemoveFile(t)
<1>1. ~Invoke(t)
  BY DEF Invoke
<1>2. Enter(t) => Restore(t)
  BY DEF Enter, SaveDecision, Promote, Revoke, Quarantine, Unquarantine, IsRevoked, Backup,
         IsQuarantined, Called
<1>3. "Restore" \in Operations(pc[t])
  BY DEF TypeOK, ThreadsOK, Consistent
<1>4. pc[t] \notin {"checkRevocations", "checkQuarantines", "readPromotions", "readRevocations",
                    "readQuarantines", "truncate", "dump"}
  BY <1>3 DEF Operations
<1>5. Proceed(t) => OpenFile(t) \/ WriteLine(t) \/ Fsync(t) \/ RemoveFile(t)
  BY <1>4 DEF Proceed, PromoteCheckRevocations, PromoteCheckQuarantines, BackupPromotions,
              BackupRevocations, BackupQuarantines, TruncateBackup, WriteBackup
<1> QED
  BY <1>1, <1>2, <1>5

LEMMA ThreadKeepsRestored ==
    ASSUME TypeOK, TypeOK', Unanswered, AtomicInv, NEW t \in Threads,
           Invoke(t) \/ Enter(t) \/ Proceed(t), Restored(t)
    PROVE  Restored(t)' /\ Exact(t)
<1>1. pc'[t] \notin Inside \/ call'[t] = call[t]
  BY InvokeMoves, EnterMoves, ProceedMoves DEF Moves, TypeOK
<1>2. CASE pc[t] # "idle" /\ call[t].op = "Restore"
  <2>1. CASE Restore(t) /\ ~Fails(t)
    <3>1. pc[t] = "ready"
      BY <2>1 DEF Restore, Called
    <3> QED
      BY <2>1, <3>1, BeginRestores DEF Exact, Inside
  <2>2. CASE Restore(t) /\ Fails(t)
    <3>1. pc[t] = "ready" /\ pc'[t] = "idle"
      BY <2>2 DEF Restore, Called, Fails, Return, Goto, TypeOK, ThreadsOK
    <3> QED
      BY <3>1 DEF Exact, Inside, Restored, Updating
  <2>3. CASE OpenFile(t) \/ WriteLine(t) \/ Fsync(t) \/ RemoveFile(t)
    BY <1>2, <2>3, OpenFileRestores, WriteLineRestores, FsyncRestores, RemoveFileRestores
  <2> QED
    BY <1>2, <2>1, <2>2, <2>3, RestorersSteps
<1>3. CASE pc[t] = "idle"
  <2>1. Invoke(t)
    BY <1>3 DEF Enter, SaveDecision, Promote, Revoke, Quarantine, Unquarantine, IsRevoked,
                Backup, Restore, IsQuarantined, Called, Proceed, PromoteCheckRevocations,
                PromoteCheckQuarantines, BackupPromotions, BackupRevocations, BackupQuarantines,
                TruncateBackup, WriteBackup, OpenFile, WriteLine, Fsync, RemoveFile
  <2>2. pc'[t] = "ready"
    BY <2>1 DEF Invoke, Goto, TypeOK, ThreadsOK
  <2> QED
    BY <1>3, <2>2 DEF Restored, Updating, Exact, Inside
<1>4. CASE pc[t] # "idle" /\ call[t].op # "Restore"
  BY <1>1, <1>4 DEF Restored, Updating, Exact, Inside
<1> QED
  BY <1>2, <1>3, <1>4

AllRestored == \A t \in Threads : Restored(t)

LEMMA StepsKeepRestored ==
    ASSUME SingleProcess, NoFaults, TypeOK, TypeOK', MutualExclusion, AtomicInv, Unanswered,
           AllRestored, [Next]_vars
    PROVE  AllRestored' /\ \A t \in Threads : Exact(t)
<1>1. ASSUME NEW t \in Threads, Invoke(t) \/ Enter(t) \/ Proceed(t), NEW u \in Threads
      PROVE  Restored(u)' /\ Exact(u)
  <2>1. Restored(u)
    BY DEF AllRestored
  <2>2. CASE u = t
    BY <1>1, <2>1, <2>2, ThreadKeepsRestored
  <2>3. CASE u # t
    BY <1>1, <2>1, <2>3, OthersKeepRestored
  <2> QED
    BY <2>2, <2>3
<1>2. ASSUME UNCHANGED <<disk, backup, thread, owed>>, NEW u \in Threads
      PROVE  Restored(u)' /\ Exact(u)
  <2>1. UNCHANGED <<files, pc, call, todo, snap, answer>>
    BY <1>2 DEF disk, thread
  <2>2. Restored(u)
    BY DEF AllRestored
  <2>3. \A m \in Nat : Reached(u, m) => Reached(u, m)'
    BY <2>1 DEF Reached, AllPutBack
  <2>4. Exact(u)
    BY <2>1 DEF Exact, Unanswered, Inside
  <2> QED
    BY <2>1, <2>2, <2>3, <2>4 DEF Restored, Updating
<1> QED
  BY <1>1, <1>2, NoFaultSteps DEF AllRestored

(* main.go runRestore and file.go Restore: in one process without faults,  *)
(* when a restore is answered with success every file holds exactly the    *)
(* lines of the backup.                                                    *)
THEOREM RestoresAreExact ==
    ASSUME SingleProcess, NoFaults
    PROVE  Spec => RestoreIsExact
<1>1. Init => AllRestored
  BY DEF Init, AllRestored, Restored, Updating
<1>2. TypeOK /\ TypeOK' /\ MutualExclusion /\ AtomicInv /\ Unanswered /\ AllRestored /\ [Next]_vars
      => AllRestored'
  BY StepsKeepRestored
<1>3. TypeOK /\ TypeOK' /\ MutualExclusion /\ AtomicInv /\ Unanswered /\ AllRestored /\ [Next]_vars
      => [\A t \in Threads :
             pc[t] \in Inside /\ call[t].op = "Restore" /\ answer'[t] = "ok"
             => files' = snap[t]]_vars
  BY StepsKeepRestored DEF Exact
<1> QED
  BY <1>1, <1>2, <1>3, TypeCorrect, Exclusion, UpdatesAreAtomic, AnswersComeWithReturn, PTL
     DEF Spec, RestoreIsExact
=============================================================================
