-------------------------- MODULE FileStoreProofs --------------------------
(***************************************************************************)
(* Theorems about FileStore for any number of threads and processes, any   *)
(* calls and any bound on faults.                                          *)
(***************************************************************************)
EXTENDS FileStore, SequenceTheorems, TLAPS

(* The kinds of record by name.                                            *)
LEMMA Shapes ==
    /\ Shape("decisions") = Decisions
    /\ Shape("promotions") = Promotions
    /\ Shape("revocations") = Revocations
    /\ Shape("quarantines") = Quarantines
    /\ \A k \in Kinds : Shape(k) \subseteq Records
    /\ Kinds = {"decisions", "promotions", "revocations", "quarantines"}
<1>1. Kinds = {"decisions", "promotions", "revocations", "quarantines"}
  BY DEF Kinds
<1>2. \A k \in Kinds : Shape(k) \subseteq Records
  BY Zenon DEF Records
<1> QED
  BY <1>1, <1>2 DEF Shape

(* The updates an operation leaves to be done are well formed.             *)
LEMMA StepsTyped ==
    ASSUME NEW k \in Kinds
    PROVE  /\ Remove(k) \in Steps
           /\ \A r \in Line(k) : Write(k, r) \in Steps
           /\ \A s \in Seq(Shape(k)) : WriteAll(k, s) \in Seq(Steps)
<1>1. Shape(k) \subseteq Records
  BY Shapes
<1>2. Remove(k) \in Steps
  BY DEF Remove, Steps, Line
<1>3. ASSUME NEW r \in Line(k) PROVE Write(k, r) \in Steps
  BY <1>1 DEF Write, Steps, Line
<1>4. ASSUME NEW s \in Seq(Shape(k)) PROVE WriteAll(k, s) \in Seq(Steps)
  <2>1. \A i \in 1 .. Len(s) : Write(k, s[i]) \in Steps
    BY <1>3, ElementOfSeq DEF Line
  <2>2. DOMAIN s = 1 .. Len(s) /\ Len(s) \in Nat
    OBVIOUS
  <2> QED
    BY <2>1, <2>2, IsASeq DEF WriteAll
<1> QED
  BY <1>2, <1>3, <1>4

-----------------------------------------------------------------------------
(* How the pieces the actions are made of change the threads.              *)

Answers == {"none", "ok", "error", "yes", "no"}

(* A thread that returns is idle, with nothing left over.                  *)
LEMMA ReturnThreads ==
    ASSUME ThreadsOK, NEW t \in Threads, NEW a \in Answers,
           Return(t, a), unlinked' \subseteq Threads
    PROVE  ThreadsOK'
<1> USE DEF ThreadsOK, Return, Goto
<1>1. /\ pc' = [pc EXCEPT ![t] = "idle"]
      /\ pc' \in [Threads -> Outside \cup Inside]
  BY DEF Outside
<1>2. call' \in [Threads -> Calls \cup {NoCall}]
  OBVIOUS
<1>3. todo' \in [Threads -> Seq(Steps)]
  BY EmptySeq
<1>4. snap' \in [Threads -> Images \cup {Garbage}]
  OBVIOUS
<1>5. answer' \in [Threads -> {"none", "ok", "error", "yes", "no"}]
  BY DEF Answers
<1>6. ASSUME NEW u \in Threads PROVE Consistent(u)'
  <2>1. CASE u = t
    BY <2>1, <1>1 DEF Consistent
  <2>2. CASE u # t
    BY <2>2, <1>1 DEF Consistent
  <2> QED
    BY <2>1, <2>2
<1> QED
  BY <1>1, <1>2, <1>3, <1>4, <1>5, <1>6

(* A thread that has decided on its updates holds a well-formed list.      *)
LEMMA BeginThreads ==
    ASSUME ThreadsOK, NEW t \in Threads, NEW s \in Seq(Steps), s # <<>>,
           pc[t] # "idle", call[t].op \in Updates,
           call[t].op = "Restore" => snap[t] # Garbage,
           Begin(t, s)
    PROVE  ThreadsOK'
<1> USE DEF ThreadsOK, Begin, Goto
<1>1. /\ pc' = [pc EXCEPT ![t] = "steps"]
      /\ pc' \in [Threads -> Outside \cup Inside]
  BY DEF Inside
<1>2. todo' \in [Threads -> Seq(Steps)]
  OBVIOUS
<1>3. ASSUME NEW u \in Threads PROVE Consistent(u)'
  <2>1. CASE u = t
    BY <2>1, <1>1 DEF Consistent, Operations, Updates
  <2>2. CASE u # t
    BY <2>2, <1>1 DEF Consistent
  <2> QED
    BY <2>1, <2>2
<1> QED
  BY <1>1, <1>2, <1>3

(* A thread that moves on within its operation.                            *)
LEMMA GotoThreads ==
    ASSUME ThreadsOK, NEW t \in Threads, NEW s \in Outside \cup Inside,
           pc[t] # "idle", s \notin {"idle", "steps", "write", "sync"},
           todo[t] = <<>>,
           call[t].op \in Operations(s),
           snap' \in [Threads -> Images \cup {Garbage}],
           s # "ready" /\ call[t].op \in {"Backup", "Restore"} => snap'[t] # Garbage,
           \A u \in Threads \ {t} : snap'[u] = snap[u],
           Goto(t, s), UNCHANGED <<call, todo, unlinked, answer>>
    PROVE  ThreadsOK'
<1> USE DEF ThreadsOK, Goto
<1>1. ASSUME NEW u \in Threads PROVE Consistent(u)'
  <2>1. CASE u = t
    BY <2>1 DEF Consistent
  <2>2. CASE u # t
    BY <2>2 DEF Consistent
  <2> QED
    BY <2>1, <2>2
<1> QED
  BY <1>1

(* A thread that has made one of its updates.                              *)
LEMMA StepDoneThreads ==
    ASSUME ThreadsOK, NEW t \in Threads, pc[t] \in {"steps", "write", "sync"},
           StepDone(t), unlinked' \subseteq Threads
    PROVE  ThreadsOK'
<1>1. CASE Len(todo[t]) = 1
  <2>1. Return(t, "ok")
    BY <1>1 DEF StepDone
  <2> QED
    BY <2>1, ReturnThreads DEF Answers
<1>2. CASE Len(todo[t]) # 1
  <2> USE DEF ThreadsOK
  <2>1. /\ todo' = [todo EXCEPT ![t] = Tail(@)]
        /\ pc' = [pc EXCEPT ![t] = "steps"]
        /\ UNCHANGED <<call, snap, answer>>
    BY <1>2 DEF StepDone, Goto
  <2>2. todo[t] \in Seq(Steps) /\ todo[t] # <<>>
    BY DEF Consistent
  <2>3. Tail(todo[t]) \in Seq(Steps) /\ Tail(todo[t]) # <<>>
    <3>1. Len(todo[t]) \in Nat \ {0, 1}
      BY <1>2, <2>2, EmptySeq, LenProperties
    <3>2. Tail(todo[t]) \in Seq(Steps) /\ Len(Tail(todo[t])) = Len(todo[t]) - 1
      BY <2>2, HeadTailProperties
    <3>3. Len(Tail(todo[t])) # 0 /\ Len(<<>>) = 0
      BY <3>1, <3>2
    <3> QED
      BY <3>2, <3>3, Zenon
  <2>4. pc' \in [Threads -> Outside \cup Inside] /\ todo' \in [Threads -> Seq(Steps)]
    BY <2>1, <2>3 DEF Inside
  <2>5. ASSUME NEW u \in Threads PROVE Consistent(u)'
    <3>1. CASE u = t
      BY <3>1, <2>1, <2>3 DEF Consistent, Operations
    <3>2. CASE u # t
      BY <3>2, <2>1 DEF Consistent
    <3> QED
      BY <3>1, <3>2
  <2> QED
    BY <2>1, <2>4, <2>5
<1> QED
  BY <1>1, <1>2

(* An append leaves lines of the file's own kind.                          *)
LEMMA AppendedDisk ==
    ASSUME DiskOK, NEW k \in Kinds, NEW line \in Line(k),
           files' = Appended(k, line), synced' = synced, backup' = backup,
           unterminated' \in {unterminated \ {k}, unterminated \cup {k}}
    PROVE  DiskOK'
<1> USE DEF DiskOK
<1>1. Line(k) \subseteq Records \cup {Garbage}
  BY Shapes DEF Line
<1>2. CASE k \in unterminated
  <2> DEFINE n == Len(files[k])
  <2>1. n \in Nat \ {0}
    BY <1>2 DEF Complete
  <2>2. files' = [files EXCEPT ![k] = [files[k] EXCEPT ![n] = Garbage]]
    BY <1>2 DEF Appended
  <2>3. [files[k] EXCEPT ![n] = Garbage] \in Seq(Line(k))
    <3>1. n \in 1 .. Len(files[k]) /\ Garbage \in Line(k) /\ files[k] \in Seq(Line(k))
      BY <2>1 DEF Line
    <3> QED
      BY <3>1, ExceptSeq
  <2>4. Len([files[k] EXCEPT ![n] = Garbage]) = n
    <3>1. n \in 1 .. Len(files[k]) /\ Garbage \in Line(k) /\ files[k] \in Seq(Line(k))
      BY <2>1 DEF Line
    <3> QED
      BY <3>1, ExceptSeq
  <2> HIDE DEF n
  <2>5. files'[k] \in Seq(Line(k)) /\ files'[k] \in Seq(Records \cup {Garbage})
    BY <1>1, <2>2, <2>3, SeqMonotonic
  <2>6. Len(files'[k]) = n
    BY <2>2, <2>4
  <2>7. files' \in [Kinds -> Seq(Records \cup {Garbage})]
    BY <2>2, <2>5
  <2>8. \A j \in Kinds : j # k => files'[j] = files[j]
    BY <2>2
  <2>9. \A j \in Kinds : files'[j] \in Seq(Line(j))
    BY <2>5, <2>8
  <2>10. ASSUME NEW j \in Kinds PROVE (synced[j] \in 0 .. Complete(j))'
    <3>1. synced[j] \in 0 .. Complete(j)
      OBVIOUS
    <3>2. CASE j = k
      <4>1. Complete(k) = n - 1
        BY <1>2 DEF Complete, n
      <4>2. Complete(k)' \in {n, n - 1}
        BY <2>6 DEF Complete
      <4> QED
        BY <2>1, <3>1, <3>2, <4>1, <4>2
    <3>3. CASE j # k
      BY <2>8, <3>1, <3>3 DEF Complete
    <3> QED
      BY <3>2, <3>3
  <2>11. (unterminated \subseteq Kinds)'
    OBVIOUS
  <2> QED
    BY <2>7, <2>9, <2>10, <2>11
<1>3. CASE k \notin unterminated
  <2>1. files' = [files EXCEPT ![k] = Append(files[k], line)]
    BY <1>3 DEF Appended
  <2>2. /\ Append(files[k], line) \in Seq(Line(k))
        /\ Append(files[k], line) \in Seq(Records \cup {Garbage})
        /\ Len(Append(files[k], line)) = Len(files[k]) + 1
    BY <1>1
  <2>3. files' \in [Kinds -> Seq(Records \cup {Garbage})]
    BY <2>1, <2>2
  <2>4. \A j \in Kinds : files'[j] \in Seq(Line(j))
    BY <2>1, <2>2
  <2>5. ASSUME NEW j \in Kinds PROVE (synced[j] \in 0 .. Complete(j))'
    <3>1. synced[j] \in 0 .. Complete(j)
      OBVIOUS
    <3>2. CASE j = k
      BY <1>3, <2>1, <2>2, <3>1, <3>2 DEF Complete
    <3>3. CASE j # k
      BY <2>1, <3>1, <3>3 DEF Complete
    <3> QED
      BY <3>2, <3>3
  <2>6. (unterminated \subseteq Kinds)'
    OBVIOUS
  <2> QED
    BY <2>3, <2>4, <2>5, <2>6
<1> QED
  BY <1>2, <1>3

(* A call carries the record its operation is about.                       *)
LEMMA CallTyped ==
    ASSUME NEW c \in Calls
    PROVE  /\ c.op = "SaveDecision" => c.rec \in Decisions
           /\ c.op = "Promote" => c.rec \in Promotions
           /\ c.op = "Revoke" => c.rec \in Revocations
           /\ c.op = "Quarantine" => c.rec \in Quarantines
           /\ c.op \in Updates \cup {"Backup", "IsRevoked", "IsQuarantined"}
  BY DEF Calls, Updates

(* What is credited to the callers is of the right kind.                   *)
LEMMA CreditTyped ==
    ASSUME HistoryOK, NEW c \in Calls, NEW image,
           c.op = "Restore" => image \in Images,
           owed' = Credit(c, image)
    PROVE  /\ owed' \in [Kinds -> SUBSET Records]
           /\ \A k \in Kinds : owed'[k] \subseteq Shape(k)
<1> USE DEF HistoryOK
<1>1. CASE c.op \in DOMAIN Target
  <2>1. PICK k \in Kinds : k = Target[c.op] /\ c.rec \in Shape(k)
    BY <1>1, CallTyped, Shapes DEF Target
  <2>2. owed' = [owed EXCEPT ![k] = @ \cup {c.rec}]
    BY <1>1, <2>1 DEF Credit
  <2>3. Shape(k) \subseteq Records
    BY Shapes
  <2> QED
    BY <2>1, <2>2, <2>3
<1>2. CASE c.op \notin DOMAIN Target /\ c.op = "Restore"
  <2>1. owed' = [k \in Kinds |-> owed[k] \cup Range(image[k])]
    BY <1>2 DEF Credit
  <2>2. \A k \in Kinds : image[k] \in Seq(Shape(k)) /\ Shape(k) \subseteq Records
    BY <1>2, Shapes DEF Images
  <2>3. \A k \in Kinds : Range(image[k]) \subseteq Shape(k)
    BY <2>2 DEF Range
  <2> QED
    BY <2>1, <2>2, <2>3
<1>3. CASE c.op \notin DOMAIN Target /\ c.op # "Restore"
  BY <1>3 DEF Credit
<1> QED
  BY <1>1, <1>2, <1>3

(* Steps that leave the files, or the history, alone.                      *)
LEMMA DiskUnchanged == ASSUME DiskOK, UNCHANGED <<disk, backup>> PROVE DiskOK'
  BY DEF DiskOK, disk, Complete

(* A step that leaves clock, bounds and history alone keeps their types.   *)
LEMMA HistoryUnchanged ==
    ASSUME HistoryOK, UNCHANGED <<now, issued, owed>>, faults' \in 0 .. MaxFaults,
           \/ UNCHANGED invokedAt
           \/ \E t \in Threads : invokedAt' = [invokedAt EXCEPT ![t] = 0]
    PROVE  HistoryOK'
<1>1. invokedAt' \in [Threads -> {0} \cup Times]
  BY DEF HistoryOK
<1>2. ASSUME NEW t \in Threads PROVE invokedAt'[t] <= now
  BY DEF HistoryOK, Times
<1> QED
  BY <1>1, <1>2 DEF HistoryOK

(* A thread that has made one of its updates, if it was the last, returns  *)
(* and is credited for what it did.                                        *)
LEMMA StepDoneHistory ==
    ASSUME ThreadsOK, HistoryOK, NEW t \in Threads, pc[t] \in {"steps", "write", "sync"},
           StepDone(t), UNCHANGED <<now, issued>>, faults' \in 0 .. MaxFaults
    PROVE  HistoryOK'
<1>1. CASE Len(todo[t]) = 1
  <2>1. call[t] \in Calls /\ (call[t].op = "Restore" => snap[t] \in Images)
    BY DEF ThreadsOK, Consistent
  <2>2. owed' = Credit(call[t], snap[t])
    BY <1>1 DEF StepDone
  <2>3. /\ owed' \in [Kinds -> SUBSET Records]
        /\ \A k \in Kinds : owed'[k] \subseteq Shape(k)
    BY <2>1, <2>2, CreditTyped
  <2>4. invokedAt' = [invokedAt EXCEPT ![t] = 0]
    BY <1>1 DEF StepDone, Return
  <2>5. invokedAt' \in [Threads -> {0} \cup Times]
    BY <2>4 DEF HistoryOK
  <2>6. ASSUME NEW u \in Threads PROVE invokedAt'[u] <= now
    BY <2>4 DEF HistoryOK, Times
  <2> QED
    BY <2>3, <2>5, <2>6 DEF HistoryOK
<1>2. CASE Len(todo[t]) # 1
  BY <1>2, HistoryUnchanged DEF StepDone
<1> QED
  BY <1>1, <1>2

-----------------------------------------------------------------------------
(* Type correctness.                                                       *)

(* The empty data directory of NewFileStore is well typed.                 *)
LEMMA InitTypeOK == Init => TypeOK
<1> SUFFICES ASSUME Init PROVE TypeOK
  OBVIOUS
<1> USE DEF Init
<1>1. DiskOK
  <2>1. \A k \in Kinds : files[k] = <<>> /\ Complete(k) = 0
    BY DEF Complete
  <2>2. \A S : <<>> \in Seq(S)
    OBVIOUS
  <2> QED
    BY <2>1, <2>2 DEF DiskOK
<1>2. ThreadsOK
  BY DEF ThreadsOK, Consistent, Outside
<1>3. HistoryOK
  BY RecordsAssumption, FileStoreAssumption DEF HistoryOK, Times
<1> QED
  BY <1>1, <1>2, <1>3 DEF TypeOK

(* Returning an error changes nothing but the thread.                      *)
LEMMA FailsTypeOK ==
    ASSUME TypeOK, NEW t \in Threads, Fails(t)
    PROVE  TypeOK'
<1> USE DEF TypeOK, Fails
<1>1. DiskOK'
  BY DiskUnchanged
<1>2. ThreadsOK'
  BY ReturnThreads DEF Answers, ThreadsOK
<1>3. HistoryOK'
  BY HistoryUnchanged DEF Return, bounds, HistoryOK
<1> QED
  BY <1>1, <1>2, <1>3

(* Deciding on updates changes nothing but the thread.                     *)
LEMMA BeginTypeOK ==
    ASSUME TypeOK, NEW t \in Threads, NEW s \in Seq(Steps), s # <<>>,
           pc[t] # "idle", call[t].op \in Updates,
           call[t].op = "Restore" => snap[t] # Garbage,
           Begin(t, s), owed' \in [Kinds -> SUBSET Records],
           \A k \in Kinds : owed'[k] \subseteq Shape(k)
    PROVE  TypeOK'
<1>1. DiskOK'
  BY DiskUnchanged DEF TypeOK, Begin
<1>2. ThreadsOK'
  BY BeginThreads DEF TypeOK
<1>3. HistoryOK'
  BY DEF TypeOK, HistoryOK, Begin, bounds
<1> QED
  BY <1>1, <1>2, <1>3 DEF TypeOK

(* A new call keeps the types; a restore reads the backup file first.      *)
LEMMA InvokeTypeOK ==
    ASSUME TypeOK, NEW t \in Threads, Invoke(t)
    PROVE  TypeOK'
<1> USE DEF TypeOK, Invoke, Goto
<1>1. DiskOK'
  BY DiskUnchanged
<1>2. PICK c \in Menu[t] :
         /\ call' = [call EXCEPT ![t] = c]
         /\ snap' = [snap EXCEPT ![t] = IF c.op = "Restore" THEN backup ELSE Garbage]
  OBVIOUS
<1>3. c \in Calls /\ c # NoCall
  BY FileStoreAssumption
<1>4. c.op \in Operations("ready")
  BY <1>3, CallTyped DEF Operations
<1>5. ThreadsOK'
  <2>1. /\ pc' \in [Threads -> Outside \cup Inside]
        /\ call' \in [Threads -> Calls \cup {NoCall}]
        /\ snap' \in [Threads -> Images \cup {Garbage}]
        /\ answer' \in [Threads -> {"none", "ok", "error", "yes", "no"}]
    BY <1>2, <1>3 DEF ThreadsOK, DiskOK, Outside
  <2>2. ASSUME NEW u \in Threads PROVE Consistent(u)'
    <3>1. CASE u = t
      BY <1>2, <1>3, <1>4, <3>1 DEF ThreadsOK, Consistent
    <3>2. CASE u # t
      BY <1>2, <3>2 DEF ThreadsOK, Consistent
    <3> QED
      BY <3>1, <3>2
  <2> QED
    BY <2>1, <2>2 DEF ThreadsOK
<1>6. HistoryOK'
  <2>1. invokedAt' \in [Threads -> {0} \cup Times]
    BY DEF HistoryOK
  <2>2. ASSUME NEW u \in Threads PROVE invokedAt'[u] <= now
    BY DEF HistoryOK, Times
  <2>3. issued' \in 0 .. MaxCalls
    BY FileStoreAssumption DEF HistoryOK
  <2> QED
    BY <2>1, <2>2, <2>3 DEF HistoryOK
<1> QED
  BY <1>1, <1>5, <1>6

(* The operations that add one record.                                     *)
LEMMA InsertTypeOK ==
    ASSUME TypeOK, NEW t \in Threads, SaveDecision(t) \/ Revoke(t) \/ Quarantine(t)
    PROVE  TypeOK'
<1>1. call[t] \in Calls /\ pc[t] # "idle"
  BY DEF TypeOK, ThreadsOK, Consistent, SaveDecision, Revoke, Quarantine, Called
<1>2. PICK k \in Kinds : /\ call[t].rec \in Shape(k)
                         /\ call[t].op \in {"SaveDecision", "Revoke", "Quarantine"}
                         /\ Begin(t, <<Write(k, call[t].rec)>>)
  BY <1>1, CallTyped, Shapes DEF SaveDecision, Revoke, Quarantine, Called
<1>3. Write(k, call[t].rec) \in Steps
  BY <1>2, StepsTyped DEF Line
<1>4. UNCHANGED owed
  BY DEF SaveDecision, Revoke, Quarantine
<1>5. <<Write(k, call[t].rec)>> \in Seq(Steps) /\ <<Write(k, call[t].rec)>> # <<>>
  BY <1>3
<1> QED
  BY <1>1, <1>2, <1>4, <1>5, BeginTypeOK DEF TypeOK, HistoryOK, Updates

(* A thread that goes on reading changes nothing else.                     *)
LEMMA GotoTypeOK ==
    ASSUME TypeOK, NEW t \in Threads, NEW s \in Outside \cup Inside,
           pc[t] # "idle", s \notin {"idle", "ready", "steps", "write", "sync"},
           todo[t] = <<>>, call[t].op \in Operations(s),
           snap' \in [Threads -> Images \cup {Garbage}],
           call[t].op \in {"Backup", "Restore"} => snap'[t] # Garbage,
           \A u \in Threads \ {t} : snap'[u] = snap[u],
           Goto(t, s),
           UNCHANGED <<disk, call, todo, unlinked, answer, invokedAt, now, bounds, owed>>,
           backup' \in Images \cup {Garbage}
    PROVE  TypeOK'
<1>1. DiskOK'
  BY DEF TypeOK, DiskOK, disk, Complete
<1>2. ThreadsOK'
  BY GotoThreads DEF TypeOK
<1>3. HistoryOK'
  BY HistoryUnchanged DEF TypeOK, bounds, HistoryOK
<1> QED
  BY <1>1, <1>2, <1>3 DEF TypeOK

(* The three checks of file.go Promote keep the types.                     *)
LEMMA PromoteTypeOK ==
    ASSUME TypeOK, NEW t \in Threads,
           \/ Promote(t)
           \/ PromoteCheckRevocations(t)
           \/ PromoteCheckQuarantines(t)
    PROVE  TypeOK'
<1>1. /\ call[t] \in Calls /\ pc[t] # "idle" /\ call[t].op = "Promote"
      /\ todo[t] = <<>>
  BY DEF TypeOK, ThreadsOK, Consistent, Operations, Promote, PromoteCheckRevocations,
         PromoteCheckQuarantines, Called
<1>2. CASE Fails(t)
  BY <1>2, FailsTypeOK
<1>3. CASE /\ \E s \in {"checkRevocations", "checkQuarantines"} : Goto(t, s)
           /\ UNCHANGED <<disk, backup, call, todo, snap, unlinked, answer, invokedAt,
                          now, bounds, owed>>
  <2>1. PICK s \in {"checkRevocations", "checkQuarantines"} : Goto(t, s)
    BY <1>3
  <2>2. s \in Outside \cup Inside /\ call[t].op \in Operations(s)
    BY <1>1 DEF Inside, Operations
  <2> QED
    BY <1>1, <1>3, <2>1, <2>2, GotoTypeOK DEF TypeOK, ThreadsOK, DiskOK
<1>4. CASE Begin(t, <<Write("promotions", call[t].rec)>>) /\ UNCHANGED owed
  <2>1. call[t].rec \in Line("promotions") /\ "promotions" \in Kinds
    BY <1>1, CallTyped, Shapes DEF Line
  <2>2. Write("promotions", call[t].rec) \in Steps
    BY <2>1, StepsTyped
  <2>3. /\ <<Write("promotions", call[t].rec)>> \in Seq(Steps)
        /\ <<Write("promotions", call[t].rec)>> # <<>>
    BY <2>2
  <2> QED
    BY <1>1, <1>4, <2>3, BeginTypeOK DEF TypeOK, HistoryOK, Updates
<1> QED
  BY <1>2, <1>3, <1>4
     DEF Promote, PromoteCheckRevocations, PromoteCheckQuarantines

(* IsRevoked and IsQuarantined keep the types.                             *)
LEMMA QueryTypeOK ==
    ASSUME TypeOK, NEW t \in Threads, IsRevoked(t) \/ IsQuarantined(t)
    PROVE  TypeOK'
<1>1. PICK a \in Answers : Return(t, a)
  BY DEF IsRevoked, IsQuarantined, Query, Answers
<1>2. UNCHANGED <<disk, backup, unlinked, now, bounds, owed>>
  BY DEF IsRevoked, IsQuarantined, Query
<1>3. DiskOK'
  BY <1>2, DiskUnchanged DEF TypeOK
<1>4. ThreadsOK'
  BY <1>1, <1>2, ReturnThreads DEF TypeOK, ThreadsOK
<1>5. HistoryOK'
  BY <1>1, <1>2, HistoryUnchanged DEF TypeOK, Return, bounds, HistoryOK
<1> QED
  BY <1>3, <1>4, <1>5 DEF TypeOK

(* The lines of a readable file are records.                               *)
LEMMA ReadableTyped ==
    ASSUME DiskOK, NEW k \in Kinds, Readable(k)
    PROVE  files[k] \in Seq(Shape(k))
<1>1. files[k] \in Seq(Line(k))
  BY DEF DiskOK
<1>2. ASSUME NEW i \in 1 .. Len(files[k]) PROVE files[k][i] \in Shape(k)
  <2>1. i \in DOMAIN files[k] /\ files[k][i] \in Line(k)
    BY <1>1, ElementOfSeq
  <2>2. files[k][i] # Garbage
    BY <2>1, Zenon DEF Readable, Range
  <2> QED
    BY <2>1, <2>2 DEF Line
<1> QED
  BY <1>1, <1>2, IsASeq

(* Unquarantine plans to rewrite quarantines only.                         *)
LEMMA UnquarantineTypeOK ==
    ASSUME TypeOK, NEW t \in Threads, Unquarantine(t)
    PROVE  TypeOK'
<1> DEFINE key == call[t].key
           all == files["quarantines"]
           kept == {i \in DOMAIN all : Kept(all[i], key)}
<1>1. call[t] \in Calls /\ pc[t] # "idle" /\ call[t].op = "Unquarantine"
  BY DEF TypeOK, ThreadsOK, Consistent, Unquarantine, Called
<1>2. CASE Fails(t)
  BY <1>2, FailsTypeOK
<1>3. CASE /\ Readable("quarantines")
           /\ owed' = [owed EXCEPT !["quarantines"] = {q \in @ : Kept(q, key)}]
           /\ \E f \in InOrder(kept, all) :
                 Begin(t, <<Remove("quarantines")>>
                          \o WriteAll("quarantines", [i \in DOMAIN f |-> all[f[i]]]))
  <2>1. PICK f \in InOrder(kept, all) :
           Begin(t, <<Remove("quarantines")>>
                    \o WriteAll("quarantines", [i \in DOMAIN f |-> all[f[i]]]))
    BY <1>3
  <2> DEFINE remaining == [i \in DOMAIN f |-> all[f[i]]]
             s == WriteAll("quarantines", remaining)
  <2>2. "quarantines" \in Kinds
    BY DEF Kinds
  <2>3. all \in Seq(Shape("quarantines"))
    BY <1>3, <2>2, ReadableTyped DEF TypeOK
  <2>4. PICK n \in Nat : f \in [1 .. n -> kept]
    <3>1. f \in UNION {[1 .. n -> kept] : n \in 0 .. Len(all)}
      BY <2>1, Zenon DEF InOrder
    <3>2. \A n \in 0 .. Len(all) : n \in Nat
      BY <2>3
    <3> QED
      BY <3>1, <3>2, Zenon
  <2>5. \A i \in 1 .. n : all[f[i]] \in Shape("quarantines")
    BY <2>3, <2>4
  <2>6. remaining \in Seq(Shape("quarantines"))
    BY <2>4, <2>5, IsASeq
  <2>7. s \in Seq(Steps) /\ Remove("quarantines") \in Steps
    BY <2>2, <2>6, StepsTyped
  <2> HIDE DEF s
  <2>8. <<Remove("quarantines")>> \o s \in Seq(Steps)
    BY <2>7
  <2>9. <<Remove("quarantines")>> \o s # <<>>
    BY <2>7
  <2>10. /\ owed' \in [Kinds -> SUBSET Records]
         /\ \A k \in Kinds : owed'[k] \subseteq Shape(k)
    BY <1>3 DEF TypeOK, HistoryOK
  <2>11. Begin(t, <<Remove("quarantines")>> \o s)
    BY <2>1 DEF s
  <2> QED
    BY <1>1, <2>8, <2>9, <2>10, <2>11, BeginTypeOK DEF Updates
<1> QED
  BY <1>2, <1>3 DEF Unquarantine

(* Restore plans to write each list of the backup to its own file.         *)
LEMMA RestoreTypeOK ==
    ASSUME TypeOK, NEW t \in Threads, Restore(t)
    PROVE  TypeOK'
<1> DEFINE image == snap[t]
           d == WriteAll("decisions", image["decisions"])
           p == WriteAll("promotions", image["promotions"])
           r == WriteAll("revocations", image["revocations"])
           q == WriteAll("quarantines", image["quarantines"])
           rm == <<Remove("decisions"), Remove("promotions"),
                   Remove("revocations"), Remove("quarantines")>>
<1>1. call[t] \in Calls /\ pc[t] # "idle" /\ call[t].op = "Restore"
  BY DEF TypeOK, ThreadsOK, Consistent, Restore, Called
<1>2. CASE Fails(t)
  BY <1>2, FailsTypeOK
<1>3. CASE /\ image # Garbage
           /\ Begin(t, rm \o d \o p \o r \o q)
           /\ owed' = [k \in Kinds |-> owed[k] \cap Range(image[k])]
  <2>1. image \in Images
    BY <1>3 DEF TypeOK, ThreadsOK
  <2>2. \A k \in Kinds : /\ WriteAll(k, image[k]) \in Seq(Steps)
                         /\ Remove(k) \in Steps
    BY <2>1, StepsTyped DEF Images
  <2>3. d \in Seq(Steps) /\ p \in Seq(Steps) /\ r \in Seq(Steps) /\ q \in Seq(Steps)
    BY <2>2 DEF Kinds
  <2>4. rm \in Seq(Steps) /\ Len(rm) = 4
    BY <2>2 DEF Kinds
  <2> HIDE DEF d, p, r, q, rm
  <2>5. rm \o d \in Seq(Steps) /\ Len(rm \o d) >= 4
    <3>1. rm \o d \in Seq(Steps) /\ Len(rm \o d) = Len(rm) + Len(d)
      BY <2>3, <2>4, ConcatProperties
    <3>2. Len(d) \in Nat
      BY <2>3, LenProperties
    <3> QED
      BY <2>4, <3>1, <3>2
  <2>6. rm \o d \o p \in Seq(Steps) /\ Len(rm \o d \o p) >= 4
    BY <2>3, <2>5
  <2>7. rm \o d \o p \o r \in Seq(Steps) /\ Len(rm \o d \o p \o r) >= 4
    BY <2>3, <2>6
  <2>8. rm \o d \o p \o r \o q \in Seq(Steps) /\ Len(rm \o d \o p \o r \o q) >= 4
    BY <2>3, <2>7
  <2>9. rm \o d \o p \o r \o q # <<>>
    BY <2>8
  <2>10. /\ owed' \in [Kinds -> SUBSET Records]
         /\ \A k \in Kinds : owed'[k] \subseteq Shape(k)
    BY <1>3 DEF TypeOK, HistoryOK
  <2> QED
    BY <1>1, <1>3, <2>8, <2>9, <2>10, BeginTypeOK DEF Updates
<1> QED
  BY <1>2, <1>3 DEF Restore

(* The reads of Backup, and os.WriteFile, keep the types.                  *)
LEMMA BackupTypeOK ==
    ASSUME TypeOK, NEW t \in Threads,
           \/ Backup(t) \/ BackupPromotions(t) \/ BackupRevocations(t)
           \/ BackupQuarantines(t) \/ TruncateBackup(t) \/ WriteBackup(t)
    PROVE  TypeOK'
<1> USE FileStoreAssumption
<1>1. /\ call[t] \in Calls /\ pc[t] # "idle" /\ call[t].op = "Backup"
      /\ todo[t] = <<>>
      /\ pc[t] # "ready" => snap[t] \in Images
  BY DEF TypeOK, ThreadsOK, Consistent, Operations, Backup, BackupPromotions,
         BackupRevocations, BackupQuarantines, TruncateBackup, WriteBackup, Called
<1>2. CASE Fails(t)
  BY <1>2, FailsTypeOK
<1>3. ASSUME NEW k \in Kinds, NEW image \in Images,
             NEW s \in {"readPromotions", "readRevocations", "readQuarantines", "truncate"},
             BackupRead(t, k, image, s), ~Fails(t)
      PROVE  TypeOK'
  <2> DEFINE new == [image EXCEPT ![k] = files[k]]
  <2>1. /\ Readable(k) /\ Goto(t, s)
        /\ snap' = [snap EXCEPT ![t] = new]
        /\ UNCHANGED <<disk, backup, call, todo, unlinked, answer, invokedAt, now, bounds,
                       owed>>
    BY <1>3 DEF BackupRead
  <2>2. files[k] \in Seq(Shape(k))
    BY <2>1, ReadableTyped DEF TypeOK
  <2>3. files[k] \in Seq(Records)
    BY <2>2, Shapes, SeqMonotonic
  <2>4. new \in Images
    BY <2>2, <2>3 DEF Images
  <2> HIDE DEF new
  <2>5. s \in Outside \cup Inside /\ call[t].op \in Operations(s)
    BY <1>1 DEF Outside, Inside, Operations
  <2> QED
    BY <1>1, <2>1, <2>4, <2>5, GotoTypeOK DEF TypeOK, ThreadsOK, DiskOK
<1>4. [k \in Kinds |-> <<>>] \in Images
  <2>1. \A S : <<>> \in Seq(S)
    OBVIOUS
  <2> QED
    BY <2>1 DEF Images
<1>5. CASE Backup(t) /\ ~Fails(t)
  BY <1>3, <1>4, <1>5 DEF Backup, Kinds
<1>6. CASE BackupPromotions(t) /\ ~Fails(t)
  BY <1>1, <1>3, <1>6 DEF BackupPromotions, Kinds
<1>7. CASE BackupRevocations(t) /\ ~Fails(t)
  BY <1>1, <1>3, <1>7 DEF BackupRevocations, Kinds
<1>8. CASE BackupQuarantines(t) /\ ~Fails(t)
  BY <1>1, <1>3, <1>8 DEF BackupQuarantines, Kinds
<1>9. CASE TruncateBackup(t)
  <2>1. "dump" \in Outside \cup Inside /\ call[t].op \in Operations("dump")
    BY <1>1 DEF Outside, Operations
  <2>2. snap[t] # Garbage
    BY <1>1, <1>9 DEF TruncateBackup
  <2> QED
    BY <1>1, <1>9, <2>1, <2>2, GotoTypeOK DEF TruncateBackup, TypeOK, ThreadsOK
<1>10. CASE WriteBackup(t)
  <2>1. DiskOK'
    BY <1>1, <1>10 DEF WriteBackup, TypeOK, DiskOK, disk, Complete
  <2>2. ThreadsOK'
    BY <1>10, ReturnThreads DEF WriteBackup, Answers, TypeOK, ThreadsOK
  <2>3. HistoryOK'
    BY <1>10, HistoryUnchanged DEF WriteBackup, TypeOK, Return, bounds, HistoryOK
  <2> QED
    BY <2>1, <2>2, <2>3 DEF TypeOK
<1> QED
  BY <1>2, <1>5, <1>6, <1>7, <1>8, <1>9, <1>10

(* The update a thread is about to make.                                   *)
LEMMA HeadTyped ==
    ASSUME ThreadsOK, NEW t \in Threads, pc[t] \in {"steps", "write", "sync"}
    PROVE  /\ Head(todo[t]) \in Steps
           /\ Head(todo[t]).kind \in Kinds
           /\ Head(todo[t]).rec \in Line(Head(todo[t]).kind)
           /\ call[t] \in Calls
           /\ call[t].op \in Updates
<1>1. todo[t] \in Seq(Steps) /\ todo[t] # <<>> /\ pc[t] # "idle"
  BY DEF ThreadsOK, Consistent
<1>2. Head(todo[t]) \in Steps
  BY <1>1
<1>3. call[t] \in Calls /\ call[t].op \in Updates
  BY <1>1 DEF ThreadsOK, Consistent, Operations
<1> QED
  BY <1>2, <1>3 DEF Steps

(* appendNDJSON's open and write keep the types.                           *)
LEMMA AppendTypeOK ==
    ASSUME TypeOK, NEW t \in Threads, OpenFile(t) \/ WriteLine(t)
    PROVE  TypeOK'
<1> USE DEF TypeOK
<1> DEFINE k == Head(todo[t]).kind
<1>1. PICK s \in {"write", "sync"} :
         /\ pc' = [pc EXCEPT ![t] = s]
         /\ pc[t] \in {"steps", "write"}
         /\ Head(todo[t]).do = "append"
  BY DEF OpenFile, WriteLine, Goto, ThreadsOK, Consistent
<1>2. /\ UNCHANGED <<backup, call, todo, snap, answer, invokedAt, now, bounds, owed>>
      /\ unlinked' \subseteq Threads
  BY DEF OpenFile, WriteLine, ThreadsOK
<1>3. DiskOK'
  <2>1. CASE UNCHANGED disk
    BY <1>2, <2>1, DiskUnchanged
  <2>2. CASE /\ files' = Appended(k, Head(todo[t]).rec)
             /\ unterminated' = unterminated \ {k}
             /\ UNCHANGED synced
    BY <1>1, <1>2, <2>2, HeadTyped, AppendedDisk
  <2> QED
    BY <2>1, <2>2 DEF OpenFile, WriteLine
<1>4. ThreadsOK'
  <2>1. pc' \in [Threads -> Outside \cup Inside]
    BY <1>1 DEF ThreadsOK, Inside
  <2>2. ASSUME NEW u \in Threads PROVE Consistent(u)'
    <3>1. CASE u = t
      BY <1>1, <1>2, <3>1 DEF ThreadsOK, Consistent, Operations
    <3>2. CASE u # t
      BY <1>1, <1>2, <3>2 DEF ThreadsOK, Consistent
    <3> QED
      BY <3>1, <3>2
  <2> QED
    BY <1>2, <2>1, <2>2 DEF ThreadsOK
<1>5. HistoryOK'
  BY <1>2, HistoryUnchanged DEF bounds, HistoryOK
<1> QED
  BY <1>3, <1>4, <1>5

(* f.Sync() and os.Remove, each of which may end a call, keep the types.   *)
LEMMA StepTypeOK ==
    ASSUME TypeOK, NEW t \in Threads, Fsync(t) \/ RemoveFile(t)
    PROVE  TypeOK'
<1> USE DEF TypeOK
<1> DEFINE k == Head(todo[t]).kind
<1>1. /\ pc[t] \in {"steps", "write", "sync"} /\ StepDone(t)
      /\ UNCHANGED <<backup, now, bounds>> /\ unlinked' \subseteq Threads
  BY DEF Fsync, RemoveFile, ThreadsOK
<1>2. k \in Kinds
  BY <1>1, HeadTyped
<1> HIDE DEF k
<1>3. DiskOK'
  <2>1. CASE UNCHANGED disk
    BY <1>1, <2>1, DiskUnchanged
  <2>2. CASE synced' = [synced EXCEPT ![k] = Complete(k)] /\ UNCHANGED <<files, unterminated>>
    <3>1. \A j \in Kinds : Complete(j)' = Complete(j) /\ Complete(j) \in Nat
      BY <2>2 DEF DiskOK, Complete
    <3> QED
      BY <1>1, <1>2, <2>2, <3>1 DEF DiskOK
  <2>3. CASE /\ files' = [files EXCEPT ![k] = <<>>]
             /\ unterminated' = unterminated \ {k}
             /\ synced' = [synced EXCEPT ![k] = 0]
    <3>1. \A S : <<>> \in Seq(S)
      OBVIOUS
    <3>2. files' \in [Kinds -> Seq(Records \cup {Garbage})]
      BY <2>3, <3>1 DEF DiskOK
    <3>3. ASSUME NEW j \in Kinds
          PROVE  files'[j] \in Seq(Line(j)) /\ synced'[j] \in 0 .. Complete(j)'
      <4>1. CASE j = k
        <5>1. files'[j] = <<>> /\ synced'[j] = 0 /\ j \notin unterminated'
          BY <1>2, <2>3, <4>1 DEF DiskOK
        <5>2. Complete(j)' = 0
          BY <5>1 DEF Complete
        <5> QED
          BY <3>1, <5>1, <5>2
      <4>2. CASE j # k
        BY <2>3, <4>2 DEF DiskOK, Complete
      <4> QED
        BY <4>1, <4>2
    <3> QED
      BY <1>1, <1>2, <2>3, <3>2, <3>3 DEF DiskOK
  <2> QED
    BY <2>1, <2>2, <2>3 DEF Fsync, RemoveFile, k, disk
<1>4. ThreadsOK'
  BY <1>1, StepDoneThreads
<1>5. HistoryOK'
  BY <1>1, StepDoneHistory DEF bounds, HistoryOK
<1> QED
  BY <1>3, <1>4, <1>5

(* System calls that fail keep the types.                                  *)
LEMMA ErrorTypeOK ==
    ASSUME TypeOK, NEW t \in Threads, IOError(t) \/ RemoveFails(t) \/ ShortWrite(t)
    PROVE  TypeOK'
<1> USE DEF TypeOK
<1>1. /\ faults' \in 0 .. MaxFaults
      /\ UNCHANGED <<backup, unlinked, now, issued>>
  BY FileStoreAssumption DEF IOError, RemoveFails, ShortWrite, Fault, HistoryOK
<1>2. CASE IOError(t) \/ ShortWrite(t)
  <2>1. Return(t, "error") /\ UNCHANGED owed
    BY <1>2 DEF IOError, ShortWrite
  <2>2. ThreadsOK'
    BY <1>1, <2>1, ReturnThreads DEF Answers, ThreadsOK
  <2>3. HistoryOK'
    BY <1>1, <2>1, HistoryUnchanged DEF Return
  <2>4. DiskOK'
    <3>1. CASE IOError(t)
      BY <3>1, DiskUnchanged DEF IOError
    <3>2. CASE ShortWrite(t)
      <4> DEFINE k == Head(todo[t]).kind
      <4>1. k \in Kinds /\ Garbage \in Line(k) /\ Head(todo[t]).rec \in Line(k)
        BY <3>2, HeadTyped DEF ShortWrite, Line
      <4>2. /\ \E line \in Line(k) : files' = Appended(k, line)
            /\ unterminated' = unterminated \cup {k}
            /\ UNCHANGED <<synced, backup>>
        BY <3>2, <4>1 DEF ShortWrite
      <4> HIDE DEF k
      <4> QED
        BY <4>1, <4>2, AppendedDisk
    <3> QED
      BY <1>2, <3>1, <3>2
  <2> QED
    BY <2>2, <2>3, <2>4
<1>3. CASE RemoveFails(t)
  <2>1. pc[t] = "steps" /\ StepDone(t) /\ UNCHANGED disk
    BY <1>3 DEF RemoveFails
  <2>2. ThreadsOK'
    BY <1>1, <2>1, StepDoneThreads DEF ThreadsOK
  <2>3. HistoryOK'
    BY <1>1, <2>1, StepDoneHistory
  <2> QED
    BY <1>1, <2>1, <2>2, <2>3, DiskUnchanged
<1> QED
  BY <1>2, <1>3

(* Killed threads leave nothing behind.                                    *)
LEMMA KillTypeOK ==
    ASSUME ThreadsOK, HistoryOK, NEW T \in SUBSET Threads, Kill(T),
           UNCHANGED <<unlinked, now, issued, owed>>, faults' \in 0 .. MaxFaults
    PROVE  ThreadsOK' /\ HistoryOK'
<1>1. ThreadsOK'
  <2>1. \A S : <<>> \in Seq(S)
    OBVIOUS
  <2>2. /\ pc' \in [Threads -> Outside \cup Inside]
        /\ call' \in [Threads -> Calls \cup {NoCall}]
        /\ todo' \in [Threads -> Seq(Steps)]
        /\ snap' \in [Threads -> Images \cup {Garbage}]
        /\ answer' \in [Threads -> {"none", "ok", "error", "yes", "no"}]
    BY <2>1 DEF Kill, ThreadsOK, Outside
  <2>3. ASSUME NEW u \in Threads PROVE Consistent(u)'
    <3>1. CASE u \in T
      BY <3>1 DEF Kill, ThreadsOK, Consistent
    <3>2. CASE u \notin T
      BY <3>2 DEF Kill, ThreadsOK, Consistent
    <3> QED
      BY <3>1, <3>2
  <2> QED
    BY <2>2, <2>3 DEF ThreadsOK
<1>2. HistoryOK'
  <2>1. invokedAt' \in [Threads -> {0} \cup Times]
    BY DEF Kill, HistoryOK
  <2>2. ASSUME NEW u \in Threads PROVE invokedAt'[u] <= now
    BY DEF Kill, HistoryOK, Times
  <2> QED
    BY <2>1, <2>2 DEF HistoryOK
<1> QED
  BY <1>1, <1>2

(* What a power failure leaves of a file.                                  *)
LEMMA CutTyped ==
    ASSUME DiskOK, NEW k \in Kinds, NEW n \in synced[k] .. Complete(k),
           NEW tail \in {"clean", "torn", "newline"},
           tail # "clean" => n < Len(files[k])
    PROVE  /\ Cut(k, n, tail) \in Seq(Line(k))
           /\ Len(Cut(k, n, tail)) = IF tail = "clean" THEN n ELSE n + 1
<1>1. /\ files[k] \in Seq(Line(k)) /\ Len(files[k]) \in Nat
      /\ n \in 0 .. Len(files[k])
  BY DEF DiskOK, Complete
<1> DEFINE kept == SubSeq(files[k], 1, n)
<1>2. kept \in Seq(Line(k)) /\ Len(kept) = n
  BY <1>1, SubSeqProperties
<1>3. tail # "clean" => files[k][n + 1] \in Line(k)
  <2>1. tail # "clean" => n + 1 \in 1 .. Len(files[k])
    BY <1>1
  <2> QED
    BY <1>1, <2>1, ElementOfSeq
<1> HIDE DEF kept
<1>4. \A x \in Line(k) : Append(kept, x) \in Seq(Line(k)) /\ Len(Append(kept, x)) = n + 1
  BY <1>1, <1>2, AppendProperties
<1>5. Garbage \in Line(k)
  BY DEF Line
<1> QED
  BY <1>2, <1>3, <1>4, <1>5 DEF Cut, kept

(* What a power failure leaves of the files is well typed.                 *)
LEMMA PowerFailTypeOK ==
    ASSUME TypeOK, PowerFail
    PROVE  TypeOK'
<1> USE DEF TypeOK
<1> DEFINE dirty == {k \in Kinds : synced[k] < Len(files[k])}
           sizes == UNION {0 .. Len(files[k]) : k \in dirty}
           tails == {"clean", "torn", "newline"}
<1>1. faults' \in 0 .. MaxFaults /\ UNCHANGED <<unlinked, now, issued, owed>>
  BY FileStoreAssumption DEF PowerFail, Fault, HistoryOK
<1>2. Threads \in SUBSET Threads /\ Kill(Threads)
  BY DEF PowerFail
<1>3. ThreadsOK' /\ HistoryOK'
  BY <1>1, <1>2, KillTypeOK
<1>4. backup' \in Images \cup {Garbage}
  BY DEF PowerFail, DiskOK
<1>5. PICK n \in [dirty -> sizes], tail \in [dirty -> tails] :
         /\ \A k \in dirty : /\ n[k] \in synced[k] .. Complete(k)
                             /\ tail[k] # "clean" => n[k] < Len(files[k])
         /\ files' = [k \in Kinds |-> IF k \in dirty THEN Cut(k, n[k], tail[k])
                                                     ELSE files[k]]
         /\ unterminated' = {k \in dirty : tail[k] # "clean"}
         /\ synced' = [k \in Kinds |-> IF k \in dirty THEN n[k] ELSE synced[k]]
  BY DEF PowerFail
<1>6. ASSUME NEW k \in Kinds
      PROVE  /\ files'[k] \in Seq(Line(k))
             /\ synced'[k] \in 0 .. Complete(k)'
             /\ synced'[k] \in Nat
  <2>1. CASE k \in dirty
    <3>1. /\ files'[k] \in Seq(Line(k))
          /\ Len(files'[k]) = IF tail[k] = "clean" THEN n[k] ELSE n[k] + 1
      <4>1. /\ tail[k] \in {"clean", "torn", "newline"}
            /\ n[k] \in synced[k] .. Complete(k)
            /\ tail[k] # "clean" => n[k] < Len(files[k])
            /\ files'[k] = Cut(k, n[k], tail[k])
        BY <1>5, <2>1
      <4> QED
        BY <4>1, CutTyped
    <3>2. k \in unterminated' <=> tail[k] # "clean"
      BY <1>5, <2>1
    <3>3. n[k] \in Nat /\ synced'[k] = n[k]
      BY <1>5, <2>1 DEF DiskOK, Complete
    <3>4. Complete(k)' = n[k]
      BY <3>1, <3>2, <3>3 DEF Complete
    <3> QED
      BY <3>1, <3>3, <3>4
  <2>2. CASE k \notin dirty
    <3>1. files'[k] = files[k] /\ synced'[k] = synced[k] /\ k \notin unterminated'
      BY <1>5, <2>2
    <3>2. k \notin unterminated
      BY <2>2 DEF DiskOK, Complete
    <3> QED
      BY <3>1, <3>2 DEF DiskOK, Complete
  <2> QED
    BY <2>1, <2>2
<1>7. \A k \in Kinds : Line(k) \subseteq Records \cup {Garbage}
  BY Shapes DEF Line
<1>8. files' \in [Kinds -> Seq(Records \cup {Garbage})]
  <2>1. \A k \in Kinds : files'[k] \in Seq(Records \cup {Garbage})
    BY <1>6, <1>7, SeqMonotonic
  <2>2. DOMAIN files' = Kinds /\ files' = [k \in Kinds |-> files'[k]]
    BY <1>5
  <2> QED
    BY <2>1, <2>2
<1>9. synced' \in [Kinds -> Nat]
  BY <1>5, <1>6
<1>10. unterminated' \subseteq Kinds
  BY <1>5
<1>11. DiskOK'
  BY <1>4, <1>6, <1>8, <1>9, <1>10 DEF DiskOK
<1> QED
  BY <1>3, <1>11

(* Every step keeps every variable within its type.                        *)
LEMMA StepKeepsTypeOK == TypeOK /\ [Next]_vars => TypeOK'
<1> SUFFICES ASSUME TypeOK, [Next]_vars PROVE TypeOK'
  OBVIOUS
<1>1. ASSUME NEW t \in Threads, Invoke(t) PROVE TypeOK'
  BY <1>1, InvokeTypeOK
<1>2. ASSUME NEW t \in Threads, Enter(t) PROVE TypeOK'
  BY <1>2, InsertTypeOK, PromoteTypeOK, UnquarantineTypeOK, QueryTypeOK, BackupTypeOK,
     RestoreTypeOK DEF Enter
<1>3. ASSUME NEW t \in Threads, Proceed(t) PROVE TypeOK'
  BY <1>3, PromoteTypeOK, BackupTypeOK, AppendTypeOK, StepTypeOK DEF Proceed
<1>4. ASSUME NEW t \in Threads, IOError(t) \/ RemoveFails(t) \/ ShortWrite(t)
      PROVE  TypeOK'
  BY <1>4, ErrorTypeOK
<1>5. ASSUME NEW p \in Procs, Crash(p) PROVE TypeOK'
  <2>1. faults' \in 0 .. MaxFaults /\ UNCHANGED <<disk, backup, unlinked, now, issued, owed>>
    BY <1>5, FileStoreAssumption DEF Crash, Fault, TypeOK, HistoryOK
  <2>2. ThreadsOK' /\ HistoryOK'
    BY <1>5, <2>1, KillTypeOK DEF Crash, TypeOK
  <2> QED
    BY <2>1, <2>2, DiskUnchanged DEF TypeOK
<1>6. CASE PowerFail
  BY <1>6, PowerFailTypeOK
<1>7. CASE Tick
  <2>1. DiskOK'
    BY <1>7, DiskUnchanged DEF Tick, TypeOK
  <2>2. ThreadsOK'
    BY <1>7 DEF Tick, thread, TypeOK, ThreadsOK, Consistent
  <2>3. HistoryOK'
    <3>1. now' \in Times /\ now < now'
      BY <1>7, RecordsAssumption DEF Tick, TypeOK, HistoryOK, Times
    <3>2. \A t \in Threads : invokedAt[t] <= now'
      BY <3>1 DEF TypeOK, HistoryOK, Times
    <3> QED
      BY <1>7, <3>1, <3>2 DEF Tick, thread, bounds, TypeOK, HistoryOK
  <2> QED
    BY <2>1, <2>2, <2>3 DEF TypeOK
<1>8. CASE UNCHANGED vars
  <2>1. UNCHANGED <<disk, backup, thread, now, bounds, owed>>
    BY <1>8 DEF vars
  <2>2. DiskOK'
    BY <2>1, DiskUnchanged DEF TypeOK
  <2>3. ThreadsOK'
    BY <2>1 DEF thread, TypeOK, ThreadsOK, Consistent
  <2>4. HistoryOK'
    BY <2>1, HistoryUnchanged DEF thread, bounds, TypeOK, HistoryOK
  <2> QED
    BY <2>2, <2>3, <2>4 DEF TypeOK
<1> QED
  BY <1>1, <1>2, <1>3, <1>4, <1>5, <1>6, <1>7, <1>8 DEF Next, Finished

(* file.go: each file holds only records of its own kind, only complete    *)
(* lines count as synced, and a thread is always in a step of the          *)
(* operation it was called for, whatever fails and whoever is killed.      *)
THEOREM TypeCorrect == Spec => []TypeOK
<1>1. Init => TypeOK
  BY InitTypeOK
<1>2. TypeOK /\ [Next]_vars => TypeOK'
  BY StepKeepsTypeOK
<1> QED
  BY <1>1, <1>2, PTL DEF Spec
=============================================================================
