-------------------------- MODULE FileStoreSafety --------------------------
(***************************************************************************)
(* The mutex excludes, under it no promotion is recorded that the store's  *)
(* own records speak against, and what was acknowledged is durable.        *)
(***************************************************************************)
EXTENDS FileStoreProofs

(* All threads share one FileStore value.                                  *)
SingleProcess == \A t, u \in Threads : Home[t] = Home[u]

(* Thread t makes a step; the others stay where they are.                  *)
Alone(t) == \A u \in Threads \ {t} :
    /\ pc'[u] = pc[u] /\ call'[u] = call[u] /\ todo'[u] = todo[u]
    /\ invokedAt'[u] = invokedAt[u]

(* Thread t leaves the critical section, stays in it or acquires the mutex.*)
Moves(t) ==
    \/ pc'[t] \notin Inside
    \/ /\ call'[t] = call[t]
       /\ \/ pc[t] \in Inside
          \/ Lock(t)
          \/ RLock(t) /\ call[t].op = "Backup"

(* The lines of a file change only by a step of a thread that is inside    *)
(* the critical section as a writer.                                       *)
Careful(t) == UNCHANGED files \/ Writer(t)

(* A thread that returns leaves the critical section.                      *)
LEMMA ReturnMoves ==
    ASSUME ThreadsOK, HistoryOK, NEW t \in Threads, NEW a, Return(t, a)
    PROVE  Alone(t) /\ Moves(t)
  BY DEF ThreadsOK, HistoryOK, Return, Goto, Alone, Moves, Inside

(* A thread that decides its updates holds the lock.                       *)
LEMMA BeginMoves ==
    ASSUME ThreadsOK, HistoryOK, NEW t \in Threads, NEW s, Begin(t, s),
           pc[t] \in Inside \/ Lock(t)
    PROVE  Alone(t) /\ Moves(t) /\ Careful(t)
  BY DEF ThreadsOK, HistoryOK, Begin, Goto, Alone, Moves, Careful, disk

(* A thread that is done with an update keeps the lock or returns.         *)
LEMMA StepDoneMoves ==
    ASSUME ThreadsOK, HistoryOK, NEW t \in Threads, pc[t] \in {"steps", "sync"},
           StepDone(t)
    PROVE  Alone(t) /\ Moves(t)
<1>1. CASE Len(todo[t]) = 1
  BY <1>1, ReturnMoves DEF StepDone
<1>2. CASE Len(todo[t]) # 1
  BY <1>2 DEF StepDone, Goto, Alone, Moves, ThreadsOK, HistoryOK, Inside
<1> QED
  BY <1>1, <1>2

(* Entering an operation.                                                  *)
LEMMA EnterMoves ==
    ASSUME TypeOK, NEW t \in Threads, Enter(t)
    PROVE  Alone(t) /\ Moves(t) /\ Careful(t)
<1> USE DEF TypeOK
<1>1. CASE SaveDecision(t) \/ Revoke(t) \/ Quarantine(t)
  BY <1>1, BeginMoves DEF SaveDecision, Revoke, Quarantine
<1>2. CASE Promote(t)
  <2>1. CASE Fails(t)
    BY <2>1, ReturnMoves DEF Fails, Careful, disk
  <2>2. CASE ~Fails(t)
    BY <1>2, <2>2 DEF Promote, Goto, Alone, Moves, Careful, disk, ThreadsOK, HistoryOK
  <2> QED
    BY <2>1, <2>2
<1>3. CASE Unquarantine(t)
  <2>1. CASE Fails(t)
    BY <2>1, ReturnMoves DEF Fails, Careful, disk
  <2>2. CASE ~Fails(t)
    BY <1>3, <2>2, BeginMoves DEF Unquarantine
  <2> QED
    BY <2>1, <2>2
<1>4. CASE Restore(t)
  <2>1. CASE Fails(t)
    BY <2>1, ReturnMoves DEF Fails, Careful, disk
  <2>2. CASE ~Fails(t)
    BY <1>4, <2>2, BeginMoves DEF Restore
  <2> QED
    BY <2>1, <2>2
<1>5. CASE IsRevoked(t) \/ IsQuarantined(t)
  BY <1>5, ReturnMoves DEF IsRevoked, IsQuarantined, Query, Careful, disk
<1>6. CASE Backup(t)
  <2>1. CASE Fails(t)
    BY <2>1, ReturnMoves DEF Fails, Careful, disk
  <2>2. CASE ~Fails(t)
    BY <1>6, <2>2 DEF Backup, BackupRead, Called, Goto, Alone, Moves, Careful, disk,
                      ThreadsOK, HistoryOK
  <2> QED
    BY <2>1, <2>2
<1> QED
  BY <1>1, <1>2, <1>3, <1>4, <1>5, <1>6 DEF Enter

(* Proceeding with one.                                                    *)
LEMMA ProceedMoves ==
    ASSUME TypeOK, NEW t \in Threads, Proceed(t)
    PROVE  Alone(t) /\ Moves(t) /\ Careful(t)
<1> USE DEF TypeOK
<1>1. CASE PromoteCheckRevocations(t) \/ PromoteCheckQuarantines(t)
  <2>1. pc[t] \in Inside
    BY <1>1 DEF PromoteCheckRevocations, PromoteCheckQuarantines, Inside
  <2>2. CASE Fails(t)
    BY <2>2, ReturnMoves DEF Fails, Careful, disk
  <2>3. CASE Begin(t, <<Write("promotions", call[t].rec)>>)
    BY <2>1, <2>3, BeginMoves
  <2>4. CASE /\ Goto(t, "checkQuarantines")
             /\ UNCHANGED <<disk, backup, call, todo, snap, unlinked, answer, invokedAt,
                            now, bounds, owed>>
    BY <2>1, <2>4 DEF Goto, Alone, Moves, Careful, disk, ThreadsOK
  <2> QED
    BY <1>1, <2>2, <2>3, <2>4 DEF PromoteCheckRevocations, PromoteCheckQuarantines
<1>2. CASE BackupPromotions(t) \/ BackupRevocations(t) \/ BackupQuarantines(t)
  <2>1. pc[t] \in Inside
    BY <1>2 DEF BackupPromotions, BackupRevocations, BackupQuarantines, Inside
  <2>2. CASE Fails(t)
    BY <2>2, ReturnMoves DEF Fails, Careful, disk
  <2>3. CASE ~Fails(t)
    BY <1>2, <2>1, <2>3 DEF BackupPromotions, BackupRevocations, BackupQuarantines,
       BackupRead, Goto, Alone, Moves, Careful, disk, ThreadsOK
  <2> QED
    BY <2>2, <2>3
<1>3. CASE TruncateBackup(t)
  BY <1>3 DEF TruncateBackup, Goto, Alone, Moves, Inside, Careful, disk, ThreadsOK
<1>4. CASE WriteBackup(t)
  BY <1>4, ReturnMoves DEF WriteBackup, Careful, disk
<1>5. ASSUME pc[t] \in {"steps", "write", "sync"} PROVE Writer(t)
  BY <1>5, HeadTyped DEF Writer, Inside, Updates
<1>6. CASE OpenFile(t) \/ WriteLine(t)
  BY <1>5, <1>6 DEF OpenFile, WriteLine, Goto, Alone, Moves, Careful, Inside, disk,
                    ThreadsOK
<1>7. CASE Fsync(t) \/ RemoveFile(t)
  BY <1>5, <1>7, StepDoneMoves DEF Fsync, RemoveFile, Careful
<1> QED
  BY <1>1, <1>2, <1>3, <1>4, <1>6, <1>7 DEF Proceed

(* Failing in the middle of one.                                           *)
LEMMA ErrorMoves ==
    ASSUME TypeOK, NEW t \in Threads, IOError(t) \/ RemoveFails(t) \/ ShortWrite(t)
    PROVE  Alone(t) /\ Moves(t) /\ Careful(t)
<1> USE DEF TypeOK
<1>1. CASE IOError(t)
  BY <1>1, ReturnMoves DEF IOError, Careful, disk
<1>2. CASE RemoveFails(t)
  BY <1>2, StepDoneMoves DEF RemoveFails, Careful, disk
<1>3. CASE ShortWrite(t)
  <2>1. Writer(t)
    BY <1>3, HeadTyped DEF ShortWrite, Writer, Inside, Updates
  <2> QED
    BY <1>3, <2>1, ReturnMoves DEF ShortWrite, Careful
<1> QED
  BY <1>1, <1>2, <1>3

(* A new call is outside the critical section.                             *)
LEMMA InvokeMoves ==
    ASSUME TypeOK, NEW t \in Threads, Invoke(t)
    PROVE  Alone(t) /\ Moves(t) /\ Careful(t)
  BY DEF TypeOK, ThreadsOK, HistoryOK, Invoke, Goto, Alone, Moves, Inside, Careful, disk

-----------------------------------------------------------------------------
(* Mutual exclusion.                                                       *)

(* A thread that moves only so keeps writers alone.                        *)
LEMMA MovesExclude ==
    ASSUME TypeOK, MutualExclusion, NEW t \in Threads, Alone(t), Moves(t)
    PROVE  MutualExclusion'
<1> SUFFICES ASSUME NEW u \in Threads, NEW v \in Threads,
                    Home[u] = Home[v], Writer(u)', (pc[v] \in Inside)', u # v
             PROVE  FALSE
  BY DEF MutualExclusion
<1>1. CASE u # t /\ v # t
  BY <1>1 DEF Alone, Writer, MutualExclusion
<1>2. CASE u = t
  <2>1. pc[v] \in Inside /\ (Writer(v) <=> call[v].op # "Backup")
    BY <1>2 DEF Alone, Writer
  <2>2. call[t] = call'[t] /\ (pc[t] \in Inside \/ Lock(t)) /\ call[t].op # "Backup"
    BY <1>2 DEF Moves, Writer
  <2> QED
    BY <1>2, <2>1, <2>2 DEF Writer, Lock, MutualExclusion
<1>3. CASE v = t
  <2>1. Writer(u)
    BY <1>3 DEF Alone, Writer
  <2>2. pc[t] \in Inside \/ Lock(t) \/ RLock(t)
    BY <1>3 DEF Moves
  <2> QED
    BY <1>3, <2>1, <2>2 DEF Writer, Lock, RLock, MutualExclusion
<1> QED
  BY <1>1, <1>2, <1>3

(* Killing threads releases locks and takes none.                          *)
LEMMA KillExcludes ==
    ASSUME MutualExclusion, NEW T, Kill(T)
    PROVE  MutualExclusion'
  BY DEF Kill, MutualExclusion, Writer, Inside

(* What a step of the system can be, as far as mutual exclusion goes.      *)
LEMMA NextMoves ==
    ASSUME TypeOK, [Next]_vars
    PROVE  \/ \E t \in Threads : Alone(t) /\ Moves(t) /\ Careful(t)
           \/ \E T \in SUBSET Threads : Kill(T) /\ (UNCHANGED files \/ T = Threads)
           \/ UNCHANGED <<files, pc, call, todo, invokedAt>>
<1>1. ASSUME NEW t \in Threads, Invoke(t) \/ Enter(t) \/ Proceed(t)
                                \/ IOError(t) \/ RemoveFails(t) \/ ShortWrite(t)
      PROVE  Alone(t) /\ Moves(t) /\ Careful(t)
  BY <1>1, InvokeMoves, EnterMoves, ProceedMoves, ErrorMoves
<1>2. ASSUME NEW p \in Procs, Crash(p)
      PROVE  \E T \in SUBSET Threads : Kill(T) /\ UNCHANGED files
  BY <1>2 DEF Crash, disk
<1>3. ASSUME PowerFail PROVE Kill(Threads)
  BY <1>3 DEF PowerFail
<1>4. ASSUME Tick \/ Finished \/ UNCHANGED vars
      PROVE  UNCHANGED <<files, pc, call, todo, invokedAt>>
  BY <1>4 DEF Tick, Finished, vars, disk, thread
<1> QED
  BY <1>1, <1>2, <1>3, <1>4 DEF Next

(* Mutual exclusion is preserved by every step.                            *)
LEMMA StepKeepsExclusion ==
    TypeOK /\ MutualExclusion /\ [Next]_vars => MutualExclusion'
<1> SUFFICES ASSUME TypeOK, MutualExclusion, [Next]_vars PROVE MutualExclusion'
  OBVIOUS
<1>1. ASSUME UNCHANGED <<files, pc, call, todo, invokedAt>> PROVE MutualExclusion'
  BY <1>1 DEF MutualExclusion, Writer
<1> QED
  BY <1>1, NextMoves, MovesExclude, KillExcludes

(* sync.RWMutex: in one process, a thread that changes the files is alone  *)
(* in the critical section; a Backup sees no update under way.             *)
THEOREM Exclusion == Spec => []MutualExclusion
<1>1. Init => MutualExclusion
  BY DEF Init, MutualExclusion, Writer, Inside
<1> QED
  BY <1>1, StepKeepsExclusion, TypeCorrect, PTL DEF Spec

-----------------------------------------------------------------------------
(* Promotions.  What Promote has established at each of its steps remains  *)
(* true until its line is written.                                         *)

Backed(p, since) ==
    \E d \in Contents("decisions") :
        d.id = p.decision /\ Supports(d, p) /\ ~Expired(d, since)

Checked(t) ==
    LET p == call[t].rec
    IN  /\ pc[t] # "sync" => Backed(p, invokedAt[t])
        /\ pc[t] \in {"checkQuarantines", "steps", "write"} => ClearOf("revocations", p)
        /\ pc[t] \in {"steps", "write"} => ClearOf("quarantines", p)
        /\ pc[t] \in {"steps", "write", "sync"} => todo[t] = <<Write("promotions", p)>>

Promoting(t) == pc[t] \in Inside /\ call[t].op = "Promote"

PromotionsChecked == \A t \in Threads : Promoting(t) => Checked(t)

(* Once checked, a promotion stays so while the files are left alone.      *)
LEMMA CheckedStays ==
    ASSUME NEW t \in Threads, Promoting(t), Checked(t), UNCHANGED files,
           pc'[t] = pc[t], call'[t] = call[t], todo'[t] = todo[t],
           invokedAt'[t] = invokedAt[t]
    PROVE  Checked(t)'
  BY DEF Checked, Backed, ClearOf, Contents, Readable

(* A decision that Promote finds valid now was valid when it was called.   *)
LEMMA DecidedIsBacked ==
    ASSUME TypeOK, NEW t \in Threads, NEW p, Decided(p, now)
    PROVE  Backed(p, invokedAt[t])
<1>1. PICK i \in DOMAIN files["decisions"] :
         LET d == files["decisions"][i]
         IN  d.id = p.decision /\ Supports(d, p) /\ ~Expired(d, now)
  BY DEF Decided
<1> DEFINE d == files["decisions"][i]
<1>2. d \in Decisions
  <2>1. "decisions" \in Kinds /\ Readable("decisions")
    BY DEF Decided, Kinds
  <2>2. files["decisions"] \in Seq(Decisions)
    BY <2>1, ReadableTyped, Shapes DEF TypeOK
  <2> QED
    BY <1>1, <2>2
<1>3. d.expires \in Nat
  BY <1>2 DEF Decisions, Times
<1>4. ~Expired(d, invokedAt[t])
  <2>1. now \in Nat /\ invokedAt[t] \in Nat /\ invokedAt[t] <= now
    BY DEF TypeOK, HistoryOK, Times
  <2> QED
    BY <1>1, <1>3, <2>1 DEF Expired
<1>5. d \in Contents("decisions")
  <2>1. d \in Range(files["decisions"])
    BY <1>1 DEF Range
  <2>2. d # Garbage
    BY <1>2, Shapes, FileStoreAssumption
  <2> QED
    BY <2>1, <2>2 DEF Contents
<1> QED
  BY <1>1, <1>4, <1>5 DEF Backed

(* The promoter's own steps.                                               *)
LEMMA PromoterKeepsChecked ==
    ASSUME TypeOK, NEW t \in Threads, Promoting(t)', Promoting(t) => Checked(t),
           Invoke(t) \/ Enter(t) \/ Proceed(t)
           \/ IOError(t) \/ RemoveFails(t) \/ ShortWrite(t)
    PROVE  Checked(t)'
<1> USE DEF TypeOK
<1>1. ASSUME NEW a, Return(t, a) PROVE FALSE
  BY <1>1 DEF Return, Goto, Promoting, Inside, ThreadsOK
<1>2. ~Fails(t)
  BY <1>1 DEF Fails
<1>3. call'[t] = call[t] /\ call[t].op = "Promote" /\ invokedAt'[t] = invokedAt[t]
  <2>1. ~Invoke(t)
    BY DEF Invoke, Goto, Promoting, Inside, ThreadsOK
  <2> QED
    BY <1>1, <1>2, <2>1 DEF Promoting, Enter, Proceed, SaveDecision, Promote, Revoke,
       Quarantine, Unquarantine, IsRevoked, Backup, Restore, IsQuarantined, Query,
       PromoteCheckRevocations, PromoteCheckQuarantines, BackupPromotions,
       BackupRevocations, BackupQuarantines, BackupRead, TruncateBackup, WriteBackup,
       OpenFile, WriteLine, Fsync, RemoveFile, IOError, RemoveFails, ShortWrite, Begin,
       StepDone
<1>4. CASE Promote(t)
  <2>1. /\ Decided(call[t].rec, now) /\ pc'[t] = "checkRevocations" /\ UNCHANGED files
    BY <1>2, <1>4 DEF Promote, Goto, ThreadsOK, disk
  <2>2. Backed(call[t].rec, invokedAt[t])
    BY <2>1, DecidedIsBacked
  <2> QED
    BY <1>3, <2>1, <2>2 DEF Checked, Backed, Contents
<1>5. CASE PromoteCheckRevocations(t)
  <2>1. /\ ClearOf("revocations", call[t].rec) /\ pc[t] = "checkRevocations"
        /\ pc'[t] = "checkQuarantines" /\ UNCHANGED files
    BY <1>2, <1>5 DEF PromoteCheckRevocations, Goto, ThreadsOK, disk
  <2>2. Backed(call[t].rec, invokedAt[t])
    BY <1>3, <2>1 DEF Promoting, Checked, Inside
  <2> QED
    BY <1>3, <2>1, <2>2 DEF Checked, Backed, Contents, ClearOf, Readable
<1>6. CASE PromoteCheckQuarantines(t)
  <2>1. /\ ClearOf("quarantines", call[t].rec) /\ pc[t] = "checkQuarantines"
        /\ pc'[t] = "steps" /\ UNCHANGED files
        /\ todo'[t] = <<Write("promotions", call[t].rec)>>
    BY <1>2, <1>6 DEF PromoteCheckQuarantines, Begin, Goto, ThreadsOK, disk
  <2>2. Backed(call[t].rec, invokedAt[t]) /\ ClearOf("revocations", call[t].rec)
    BY <1>3, <2>1 DEF Promoting, Checked, Inside
  <2> QED
    BY <1>3, <2>1, <2>2 DEF Checked, Backed, Contents, ClearOf, Readable
<1>7. CASE pc[t] \in {"steps", "write", "sync"}
  <2>1. todo[t] = <<Write("promotions", call[t].rec)>> /\ Checked(t)
    BY <1>3, <1>7 DEF Promoting, Checked, Inside
  <2>2. Head(todo[t]).do = "append" /\ Len(todo[t]) = 1
    BY <2>1 DEF Write
  <2>3. ~StepDone(t)
    BY <1>1, <2>2 DEF StepDone
  <2>4. CASE OpenFile(t)
    <3>1. pc[t] = "steps" /\ pc'[t] = "write" /\ UNCHANGED files /\ todo'[t] = todo[t]
      BY <2>4 DEF OpenFile, Goto, ThreadsOK, disk
    <3> QED
      BY <1>3, <2>1, <3>1 DEF Checked, Backed, Contents, ClearOf, Readable
  <2>5. CASE WriteLine(t)
    <3>1. pc'[t] = "sync" /\ todo'[t] = todo[t]
      BY <2>5 DEF WriteLine, Goto, ThreadsOK
    <3> QED
      BY <1>3, <2>1, <3>1 DEF Checked
  <2> QED
    BY <1>1, <1>2, <1>7, <2>3, <2>4, <2>5 DEF Invoke, Enter, Proceed, SaveDecision, Promote,
       Revoke, Quarantine, Unquarantine, IsRevoked, Backup, Restore, IsQuarantined, Called,
       PromoteCheckRevocations, PromoteCheckQuarantines, BackupPromotions,
       BackupRevocations, BackupQuarantines, TruncateBackup, WriteBackup,
       Fsync, RemoveFile, IOError, RemoveFails, ShortWrite
<1>8. CASE pc[t] \notin {"steps", "write", "sync"}
  <2>1. pc[t] \in {"idle", "ready", "checkRevocations", "checkQuarantines"}
    BY <1>3, <1>8 DEF ThreadsOK, Consistent, Operations, Outside, Inside
  <2>2. ~Invoke(t) /\ ~IOError(t)
    BY <1>1 DEF Invoke, IOError, Goto, Promoting, Inside, ThreadsOK
  <2>3. ~RemoveFails(t) /\ ~ShortWrite(t)
    BY <1>8 DEF RemoveFails, ShortWrite
  <2>4. ASSUME Enter(t) PROVE Promote(t)
    BY <1>3, <2>4 DEF Enter, SaveDecision, Revoke, Quarantine, Unquarantine, IsRevoked,
                      Backup, Restore, IsQuarantined, Called
  <2>5. ASSUME Proceed(t) PROVE PromoteCheckRevocations(t) \/ PromoteCheckQuarantines(t)
    BY <1>8, <2>1, <2>5 DEF Proceed, BackupPromotions, BackupRevocations,
       BackupQuarantines, TruncateBackup, WriteBackup, OpenFile, WriteLine, Fsync,
       RemoveFile
  <2> QED
    BY <1>4, <1>5, <1>6, <2>2, <2>3, <2>4, <2>5
<1> QED
  BY <1>7, <1>8

(* A thread that waits for another to finish keeps what it has checked.    *)
LEMMA OthersKeepChecked ==
    ASSUME SingleProcess, MutualExclusion, NEW t \in Threads, NEW u \in Threads, u # t,
           Promoting(t)', Promoting(t) => Checked(t), Alone(u), Careful(u)
    PROVE  Checked(t)'
<1>1. pc'[t] = pc[t] /\ call'[t] = call[t] /\ todo'[t] = todo[t] /\ invokedAt'[t] = invokedAt[t]
  BY DEF Alone
<1>2. Promoting(t)
  BY <1>1 DEF Promoting
<1>3. ~Writer(u)
  BY <1>2 DEF SingleProcess, MutualExclusion, Writer, Promoting
<1>4. UNCHANGED files
  BY <1>3 DEF Careful
<1> QED
  BY <1>1, <1>2, <1>4, CheckedStays

(* What Promote has checked is preserved by every step.                    *)
LEMMA StepKeepsPromotionsChecked ==
    ASSUME SingleProcess, TypeOK, MutualExclusion, PromotionsChecked, [Next]_vars
    PROVE  PromotionsChecked'
<1> SUFFICES ASSUME NEW t \in Threads, Promoting(t)' PROVE Checked(t)'
  BY DEF PromotionsChecked
<1>1. Promoting(t) => Checked(t)
  BY DEF PromotionsChecked
<1>2. ASSUME NEW u \in Threads, Invoke(u) \/ Enter(u) \/ Proceed(u)
                                \/ IOError(u) \/ RemoveFails(u) \/ ShortWrite(u)
      PROVE  Checked(t)'
  <2>1. CASE u = t
    BY <1>1, <1>2, <2>1, PromoterKeepsChecked
  <2>2. CASE u # t
    <3>1. Alone(u) /\ Careful(u)
      BY <1>2, InvokeMoves, EnterMoves, ProceedMoves, ErrorMoves
    <3> QED
      BY <1>1, <2>2, <3>1, OthersKeepChecked
  <2> QED
    BY <2>1, <2>2
<1>3. ASSUME NEW p \in Procs, Crash(p) PROVE Checked(t)'
  <2>1. /\ pc'[t] = pc[t] /\ call'[t] = call[t] /\ todo'[t] = todo[t]
        /\ invokedAt'[t] = invokedAt[t] /\ UNCHANGED files
    BY <1>3 DEF Crash, Kill, Promoting, Inside, disk
  <2> QED
    BY <1>1, <2>1, CheckedStays DEF Promoting
<1>4. ~PowerFail
  BY DEF PowerFail, Kill, Promoting, Inside
<1>5. ASSUME Tick \/ Finished \/ UNCHANGED vars PROVE Checked(t)'
  <2>1. UNCHANGED <<files, pc, call, todo, invokedAt>>
    BY <1>5 DEF Tick, Finished, vars, disk, thread
  <2> QED
    BY <1>1, <2>1, CheckedStays DEF Promoting
<1> QED
  BY <1>2, <1>3, <1>4, <1>5 DEF Next

(* The invariant that Promote's three checks, one after the other, keep    *)
(* up under the mutex.                                                     *)
THEOREM PromotionsStayChecked ==
    ASSUME SingleProcess
    PROVE  Spec => []PromotionsChecked
<1>1. Init => PromotionsChecked
  BY DEF Init, PromotionsChecked, Promoting, Inside
<1>2. TypeOK /\ MutualExclusion /\ PromotionsChecked /\ [Next]_vars => PromotionsChecked'
  BY StepKeepsPromotionsChecked
<1> QED
  BY <1>1, <1>2, TypeCorrect, Exclusion, PTL DEF Spec

(* file.go Promote: in one process, whatever faults occur, a promotion is  *)
(* written only on an ALLOW decision on file for its digest and            *)
(* environment that had not expired at the call, and against no revocation *)
(* or quarantine on file.                                                  *)
THEOREM PromotionsAreAdmissible ==
    ASSUME SingleProcess
    PROVE  Spec => []PromotionIsAdmissible
<1>1. PromotionsChecked => PromotionIsAdmissible
  BY DEF PromotionsChecked, PromotionIsAdmissible, Admitted, Promoting, Checked, Inside,
         Backed, ClearOf
<1> QED
  BY <1>1, PromotionsStayChecked, PTL

-----------------------------------------------------------------------------
(* Answers.                                                                *)

(* A call under way has no answer yet.                                     *)
Unanswered == \A t \in Threads : pc[t] # "idle" => answer[t] = "none"

(* Thread t alone is answered, and only when it returns.                   *)
Answered(t) ==
    /\ \A u \in Threads \ {t} : pc'[u] = pc[u] /\ answer'[u] = answer[u]
    /\ pc'[t] = "idle" \/ answer'[t] = "none" \/ (pc[t] # "idle" /\ answer'[t] = answer[t])

LEMMA StepAnswers ==
    ASSUME ThreadsOK, NEW t \in Threads, Invoke(t) \/ Enter(t) \/ Proceed(t)
    PROVE  Answered(t)
<1>1. ASSUME NEW a, Return(t, a) PROVE Answered(t)
  BY <1>1 DEF Return, Goto, Answered, ThreadsOK
<1>2. ASSUME NEW s, Goto(t, s), UNCHANGED answer, pc[t] # "idle" PROVE Answered(t)
  BY <1>2 DEF Goto, Answered, ThreadsOK
<1>3. ASSUME NEW s, Begin(t, s), pc[t] # "idle" PROVE Answered(t)
  BY <1>2, <1>3 DEF Begin
<1>4. CASE Fails(t)
  BY <1>1, <1>4 DEF Fails
<1>5. CASE Invoke(t)
  BY <1>5 DEF Invoke, Goto, Answered, ThreadsOK
<1>6. CASE Enter(t) /\ ~Fails(t)
  <2>1. CASE SaveDecision(t) \/ Revoke(t) \/ Quarantine(t)
    BY <1>3, <2>1 DEF SaveDecision, Revoke, Quarantine, Called
  <2>2. CASE Unquarantine(t)
    BY <1>3, <1>6, <2>2, Zenon DEF Unquarantine, Called
  <2>3. CASE Restore(t)
    BY <1>3, <1>6, <2>3, Zenon DEF Restore, Called
  <2>4. CASE IsRevoked(t) \/ IsQuarantined(t)
    BY <1>1, <2>4 DEF IsRevoked, IsQuarantined, Query
  <2>5. CASE Promote(t) \/ Backup(t)
    BY <1>2, <1>6, <2>5 DEF Promote, Backup, BackupRead, Called
  <2> QED
    BY <1>6, <2>1, <2>2, <2>3, <2>4, <2>5 DEF Enter
<1>7. CASE Proceed(t) /\ ~Fails(t)
  <2>1. CASE PromoteCheckRevocations(t) \/ PromoteCheckQuarantines(t)
    BY <1>2, <1>3, <1>7, <2>1 DEF PromoteCheckRevocations, PromoteCheckQuarantines
  <2>2. CASE BackupPromotions(t) \/ BackupRevocations(t) \/ BackupQuarantines(t)
    BY <1>2, <1>7, <2>2 DEF BackupPromotions, BackupRevocations, BackupQuarantines, BackupRead
  <2>3. CASE TruncateBackup(t) \/ WriteBackup(t)
    BY <1>1, <1>2, <2>3 DEF TruncateBackup, WriteBackup
  <2>4. CASE OpenFile(t) \/ WriteLine(t) \/ Fsync(t) \/ RemoveFile(t)
    BY <1>1, <1>2, <2>4 DEF OpenFile, WriteLine, Fsync, RemoveFile, StepDone
  <2> QED
    BY <1>7, <2>1, <2>2, <2>3, <2>4 DEF Proceed
<1> QED
  BY <1>4, <1>5, <1>6, <1>7

LEMMA StepKeepsUnanswered ==
    ASSUME TypeOK, Unanswered, [Next]_vars
    PROVE  Unanswered'
<1> USE DEF TypeOK
<1>1. ASSUME NEW t \in Threads, Answered(t) PROVE Unanswered'
  BY <1>1 DEF Answered, Unanswered
<1>2. ASSUME NEW t \in Threads, IOError(t) \/ RemoveFails(t) \/ ShortWrite(t)
      PROVE  Answered(t)
  BY <1>2 DEF IOError, RemoveFails, ShortWrite, StepDone, Return, Goto, Answered, ThreadsOK
<1>3. ASSUME NEW T, Kill(T) PROVE Unanswered'
  BY <1>3 DEF Kill, Unanswered
<1>4. ASSUME Tick \/ Finished \/ UNCHANGED vars PROVE Unanswered'
  BY <1>4 DEF Tick, Finished, vars, thread, Unanswered
<1> QED
  BY <1>1, <1>2, <1>3, <1>4, StepAnswers DEF Next, Crash, PowerFail

THEOREM AnswersComeWithReturn == Spec => []Unanswered
<1>1. Init => Unanswered
  BY DEF Init, Unanswered
<1>2. TypeOK /\ Unanswered /\ [Next]_vars => Unanswered'
  BY StepKeepsUnanswered
<1> QED
  BY <1>1, <1>2, TypeCorrect, PTL DEF Spec

(* A query that is answered "no" looked for a record under the lock.       *)
LEMMA NegativeAnswers ==
    ASSUME TypeOK, Unanswered, [Next]_vars, NEW t \in Threads,
           NEW op \in {"IsRevoked", "IsQuarantined"}, Called(t, op), answer'[t] = "no"
    PROVE  /\ RLock(t)
           /\ op = "IsRevoked" =>
                 /\ Readable("revocations")
                 /\ ~\E r \in GetRevocations(call[t].env) : AppliesTo(r, call[t].digest, call[t].env)
           /\ op = "IsQuarantined" =>
                 /\ Readable("quarantines")
                 /\ ~\E r \in GetQuarantines(call[t].env) : AppliesTo(r, call[t].digest, call[t].env)
<1> USE DEF TypeOK
<1>1. answer[t] = "none" /\ pc[t] = "ready" /\ call[t].op = op
  BY DEF Unanswered, Called
<1>2. ASSUME NEW a, Return(t, a) PROVE a = "no"
  BY <1>2 DEF Return, ThreadsOK
<1>3. CASE IsRevoked(t) \/ IsQuarantined(t)
  BY <1>1, <1>2, <1>3 DEF IsRevoked, IsQuarantined, Query, Called
<1>4. ~Enter(t) \/ IsRevoked(t) \/ IsQuarantined(t)
  BY <1>1 DEF Enter, SaveDecision, Promote, Revoke, Quarantine, Unquarantine, Backup, Restore,
              Called
<1>5. ~Invoke(t) /\ ~Proceed(t)
  BY <1>1 DEF Invoke, Proceed, PromoteCheckRevocations, PromoteCheckQuarantines,
     BackupPromotions, BackupRevocations, BackupQuarantines, TruncateBackup, WriteBackup,
     OpenFile, WriteLine, Fsync, RemoveFile
<1>6. ~IOError(t) /\ ~RemoveFails(t) /\ ~ShortWrite(t)
  BY <1>1, <1>2 DEF IOError, RemoveFails, ShortWrite
<1>7. ASSUME NEW u \in Threads \ {t},
             \/ Invoke(u) \/ Enter(u) \/ Proceed(u)
             \/ IOError(u) \/ RemoveFails(u) \/ ShortWrite(u)
      PROVE  answer'[t] = answer[t]
  BY <1>7, StepAnswers DEF Answered, IOError, RemoveFails, ShortWrite, StepDone, Return,
     ThreadsOK
<1>8. ASSUME NEW T, Kill(T) PROVE answer'[t] \in {answer[t], "none"}
  BY <1>8 DEF Kill
<1>9. ASSUME Tick \/ Finished \/ UNCHANGED vars PROVE answer'[t] = answer[t]
  BY <1>9 DEF Tick, Finished, vars, thread
<1> QED
  BY <1>1, <1>3, <1>4, <1>5, <1>6, <1>7, <1>8, <1>9 DEF Next, Crash, PowerFail

-----------------------------------------------------------------------------
(* What fsync buys: as long as nobody calls Restore, no decision, promotion  *)
(* or revocation that was acknowledged is silently lost, for any number of   *)
(* processes and any sequence of failing system calls, kills and power       *)
(* failures.                                                                 *)

(* Nobody calls Restore.                                                   *)
NoRestore == \A t \in Threads : \A c \in Menu[t] : c.op # "Restore"

(* The kinds whose file nothing else removes.                              *)
Permanent == {"decisions", "promotions", "revocations"}

(* Record r is among the first n lines of file k, or one of these lines    *)
(* makes every reader of the file fail.                                    *)
SafeIn(k, n, r) == \E i \in 1 .. n : files[k][i] \in {r, Garbage} \cup Oversized

Updating(t) == pc[t] \in {"steps", "write", "sync"}

Inserting(t) == Updating(t) /\ call[t].op \in DOMAIN Target

(* An insertion consists of its one append; everything else that is done   *)
(* to files is done to the quarantines; a line that has been written is    *)
(* safe as soon as the file is synced.                                     *)
Orderly(t) ==
    /\ pc[t] # "idle" => call[t].op # "Restore"
    /\ Inserting(t) => todo[t] = <<Write(Target[call[t].op], call[t].rec)>>
    /\ Updating(t) /\ ~Inserting(t) =>
          \A i \in DOMAIN todo[t] : todo[t][i].kind = "quarantines"
    /\ pc[t] \in {"write", "sync"} /\ t \in unlinked => Head(todo[t]).kind = "quarantines"
    /\ pc[t] = "sync" /\ Inserting(t) /\ Target[call[t].op] \in Permanent =>
          SafeIn(Target[call[t].op], Complete(Target[call[t].op]), call[t].rec)

AllOrderly == \A t \in Threads : Orderly(t)

OwedIsSafe == \A k \in Permanent : \A r \in owed[k] : SafeIn(k, synced[k], r)

Durable == AllOrderly /\ OwedIsSafe

(* Complete lines of the permanent files stay as and where they are.       *)
Grows == \A k \in Permanent :
    /\ Complete(k)' >= Complete(k)
    /\ synced'[k] >= synced[k]
    /\ \A i \in 1 .. Complete(k) : files'[k][i] = files[k][i]

-----------------------------------------------------------------------------

(* Three of the four files are never removed but by Restore.               *)
LEMMA PermanentKinds == Permanent \subseteq Kinds /\ "quarantines" \notin Permanent
  BY DEF Permanent, Kinds

(* The synced lines of a file are lines of it.                             *)
LEMMA LineCounts ==
    ASSUME DiskOK, NEW k \in Permanent
    PROVE  /\ Complete(k) \in Nat /\ synced[k] \in Nat /\ synced[k] <= Complete(k)
           /\ Len(files[k]) \in Nat /\ Complete(k) <= Len(files[k])
           /\ files[k] \in Seq(Line(k))
<1>1. k \in Kinds
  BY PermanentKinds
<1>2. files[k] \in Seq(Line(k)) /\ synced[k] \in 0 .. Complete(k) /\ synced[k] \in Nat
  BY <1>1 DEF DiskOK
<1>3. Len(files[k]) \in Nat
  BY <1>2, LenProperties
<1> QED
  BY <1>2, <1>3 DEF Complete

(* An idle disk.                                                           *)
LEMMA StillGrows ==
    ASSUME DiskOK, UNCHANGED disk
    PROVE  Grows
<1>1. ASSUME NEW k \in Permanent PROVE Complete(k)' = Complete(k)
  BY DEF disk, Complete
<1> QED
  BY <1>1, LineCounts DEF Grows, disk

(* An append to any file, whole or in part.                                *)
LEMMA AppendGrows ==
    ASSUME DiskOK, NEW j \in Kinds, NEW line,
           files' = Appended(j, line), UNCHANGED synced,
           \/ unterminated' = unterminated \ {j}
           \/ unterminated' = unterminated \cup {j}
    PROVE  Grows
<1> SUFFICES ASSUME NEW k \in Permanent
             PROVE  /\ Complete(k)' >= Complete(k)
                    /\ synced'[k] >= synced[k]
                    /\ \A i \in 1 .. Complete(k) : files'[k][i] = files[k][i]
  BY DEF Grows
<1>1. k \in Kinds
  BY PermanentKinds
<1>2. synced'[k] >= synced[k]
  BY LineCounts
<1>3. CASE k # j
  <2>1. files'[k] = files[k] /\ (k \in unterminated' <=> k \in unterminated)
    BY <1>1, <1>3 DEF Appended, DiskOK
  <2> QED
    BY <1>2, <2>1, LineCounts DEF Complete
<1>4. CASE k = j /\ k \in unterminated
  <2>1. files'[k] = [files[k] EXCEPT ![Len(files[k])] = Garbage]
    BY <1>1, <1>4 DEF Appended, DiskOK
  <2>2. Complete(k) = Len(files[k]) - 1 /\ Len(files[k]) \in Nat \ {0}
    BY <1>4, LineCounts DEF Complete
  <2>3. Len(files'[k]) = Len(files[k])
    BY <2>1, LineCounts
  <2>4. Complete(k)' >= Complete(k)
    BY <2>2, <2>3 DEF Complete
  <2>5. \A i \in 1 .. Complete(k) : files'[k][i] = files[k][i]
    BY <2>1, <2>2, LineCounts
  <2> QED
    BY <1>2, <2>4, <2>5
<1>5. CASE k = j /\ k \notin unterminated
  <2>1. files'[k] = Append(files[k], line)
    BY <1>1, <1>5 DEF Appended, DiskOK
  <2>2. Complete(k) = Len(files[k]) /\ Len(files[k]) \in Nat
    BY <1>5, LineCounts DEF Complete
  <2>3. Len(files'[k]) = Len(files[k]) + 1
    BY <2>1, LineCounts
  <2>4. Complete(k)' >= Complete(k)
    BY <2>2, <2>3 DEF Complete
  <2>5. \A i \in 1 .. Complete(k) : files'[k][i] = files[k][i]
    BY <2>1, <2>2, LineCounts
  <2> QED
    BY <1>2, <2>4, <2>5
<1> QED
  BY <1>3, <1>4, <1>5

(* A whole line, once written, is a complete line of its file, or has      *)
(* turned the line it ran into unreadable.                                 *)
LEMMA WrittenIsSafe ==
    ASSUME DiskOK, NEW k \in Permanent, NEW r,
           files' = Appended(k, r), unterminated' = unterminated \ {k}
    PROVE  SafeIn(k, Complete(k), r)'
<1>1. k \in Kinds
  BY PermanentKinds
<1>2. CASE k \in unterminated
  <2>1. files'[k] = [files[k] EXCEPT ![Len(files[k])] = Garbage]
    BY <1>1, <1>2 DEF Appended, DiskOK
  <2>2. Len(files[k]) \in Nat \ {0}
    BY <1>2, LineCounts DEF Complete
  <2>3. Complete(k)' = Len(files[k])
    BY <2>1, LineCounts DEF Complete
  <2>4. files'[k][Len(files[k])] = Garbage
    BY <2>1, <2>2, LineCounts
  <2> QED
    BY <2>2, <2>3, <2>4 DEF SafeIn
<1>3. CASE k \notin unterminated
  <2>1. files'[k] = Append(files[k], r)
    BY <1>1, <1>3 DEF Appended, DiskOK
  <2>2. Complete(k)' = Len(files[k]) + 1
    BY <2>1, LineCounts DEF Complete
  <2>3. files'[k][Len(files[k]) + 1] = r /\ Len(files[k]) \in Nat
    BY <2>1, LineCounts
  <2> QED
    BY <2>2, <2>3 DEF SafeIn
<1> QED
  BY <1>2, <1>3

-----------------------------------------------------------------------------
(* The threads that do not move.                                           *)
LEMMA OthersOrderly ==
    ASSUME TypeOK, DiskOK', Durable, Grows, NEW t \in Threads, Alone(t),
           \A u \in Threads \ {t} :
               pc[u] \in {"write", "sync"} /\ u \in unlinked' /\ u \notin unlinked
               => Head(todo[u]).kind = "quarantines"
    PROVE  \A u \in Threads \ {t} : Orderly(u)'
<1> SUFFICES ASSUME NEW u \in Threads \ {t} PROVE Orderly(u)'
  OBVIOUS
<1>1. pc'[u] = pc[u] /\ call'[u] = call[u] /\ todo'[u] = todo[u] /\ Orderly(u)
  BY DEF Alone, Durable, AllOrderly
<1>2. (Updating(u)' <=> Updating(u)) /\ (Inserting(u)' <=> Inserting(u))
  BY <1>1 DEF Updating, Inserting
<1>3. pc[u] \in {"write", "sync"} /\ u \in unlinked' => Head(todo[u]).kind = "quarantines"
  BY <1>1 DEF Orderly
<1>4. ASSUME pc[u] = "sync", Inserting(u), Target[call[u].op] \in Permanent
      PROVE  SafeIn(Target[call[u].op], Complete(Target[call[u].op]), call[u].rec)'
  <2> DEFINE k == Target[call[u].op]
             r == call[u].rec
  <2>1. SafeIn(k, Complete(k), r)
    BY <1>1, <1>4 DEF Orderly
  <2>2. k' = k /\ r' = r
    BY <1>1
  <2>3. PICK j \in Permanent : j = k
    BY <1>4
  <2>4. SafeIn(j, Complete(j), r)
    BY <2>1, <2>3
  <2>5. Complete(j) \in Nat /\ Complete(j)' \in Nat /\ Complete(j)' >= Complete(j)
    <3>1. Complete(j) \in Nat
      BY LineCounts DEF TypeOK
    <3>2. (Complete(j) \in Nat)'
      BY PermanentKinds DEF DiskOK, Complete
    <3> QED
      BY <3>1, <3>2 DEF Grows
  <2>6. PICK i \in 1 .. Complete(j) : files[j][i] \in {r, Garbage} \cup Oversized
    BY <2>4 DEF SafeIn
  <2>7. i \in 1 .. Complete(j)' /\ files'[j][i] \in {r, Garbage} \cup Oversized
    BY <2>5, <2>6 DEF Grows
  <2>8. SafeIn(k, Complete(k), r)'
    BY <2>2, <2>3, <2>7 DEF SafeIn
  <2> QED
    BY <2>8
<1>5. /\ pc'[u] # "idle" => call'[u].op # "Restore"
      /\ Inserting(u)' => todo'[u] = <<Write(Target[call'[u].op], call'[u].rec)>>
      /\ Updating(u)' /\ ~Inserting(u)' =>
            \A i \in DOMAIN todo'[u] : todo'[u][i].kind = "quarantines"
  BY <1>1, <1>2 DEF Orderly
<1> QED
  BY <1>1, <1>2, <1>3, <1>4, <1>5 DEF Orderly

(* The records acknowledged earlier.                                       *)
LEMMA OwedStaysSafe ==
    ASSUME TypeOK, DiskOK', Durable, Grows
    PROVE  \A k \in Permanent : \A r \in owed[k] : SafeIn(k, synced[k], r)'
<1> SUFFICES ASSUME NEW k \in Permanent, NEW r \in owed[k]
             PROVE  SafeIn(k, synced[k], r)'
  OBVIOUS
<1>1. SafeIn(k, synced[k], r)
  BY DEF Durable, OwedIsSafe
<1>2. PICK i \in 1 .. synced[k] : files[k][i] \in {r, Garbage} \cup Oversized
  BY <1>1 DEF SafeIn
<1>3. i \in 1 .. Complete(k) /\ synced[k] \in Nat /\ synced'[k] \in Nat
  BY LineCounts, PermanentKinds DEF TypeOK, DiskOK
<1>4. i \in 1 .. synced'[k] /\ files'[k][i] = files[k][i]
  BY <1>2, <1>3 DEF Grows
<1> QED
  BY <1>2, <1>4 DEF SafeIn

(* A step of t that credits nobody with a permanent record.                *)
LEMMA PlainStep ==
    ASSUME TypeOK, DiskOK', Durable, Grows, NEW t \in Threads, Alone(t), Orderly(t)',
           \A u \in Threads \ {t} :
               pc[u] \in {"write", "sync"} /\ u \in unlinked' /\ u \notin unlinked
               => Head(todo[u]).kind = "quarantines",
           \A k \in Permanent : owed'[k] \subseteq owed[k]
    PROVE  Durable'
<1>1. AllOrderly'
  BY OthersOrderly DEF AllOrderly
<1>2. OwedIsSafe'
  BY OwedStaysSafe DEF OwedIsSafe
<1> QED
  BY <1>1, <1>2 DEF Durable

(* An idle thread is orderly, and one that has not begun its updates is    *)
(* unless it restores.                                                     *)
LEMMA ReturnOrderly ==
    ASSUME ThreadsOK, NEW t \in Threads, NEW a, Return(t, a)
    PROVE  Orderly(t)'
<1>1. pc'[t] = "idle"
  BY DEF ThreadsOK, Return, Goto
<1> QED
  BY <1>1 DEF Orderly, Inserting, Updating

(* A thread without updates has none out of order.                         *)
LEMMA ReaderOrderly ==
    ASSUME NEW t \in Threads, pc'[t] \notin {"steps", "write", "sync"},
           call'[t].op # "Restore"
    PROVE  Orderly(t)'
  BY DEF Orderly, Inserting, Updating

(* A call that fails before any update acknowledges nothing.               *)
LEMMA FailsDurable ==
    ASSUME TypeOK, DiskOK', Durable, NEW t \in Threads, NEW a, Return(t, a),
           UNCHANGED <<disk, unlinked, owed>>
    PROVE  Durable'
<1>1. Alone(t)
  BY ReturnMoves DEF TypeOK
<1>2. Orderly(t)'
  BY ReturnOrderly DEF TypeOK
<1>3. Grows
  BY StillGrows DEF TypeOK
<1> QED
  BY <1>1, <1>2, <1>3, PlainStep

(* A step that only changes where a thread is keeps what is owed.          *)
LEMMA GotoDurable ==
    ASSUME TypeOK, DiskOK', Durable, NEW t \in Threads, NEW s, Goto(t, s),
           s \notin {"steps", "write", "sync"}, pc[t] # "idle",
           UNCHANGED <<disk, call, todo, unlinked, invokedAt, owed>>
    PROVE  Durable'
<1>1. Alone(t) /\ pc'[t] = s
  BY DEF TypeOK, ThreadsOK, Goto, Alone
<1>2. call'[t].op # "Restore"
  BY DEF Durable, AllOrderly, Orderly
<1>3. Orderly(t)' /\ Grows
  BY <1>1, <1>2, ReaderOrderly, StillGrows DEF TypeOK
<1> QED
  BY <1>1, <1>3, PlainStep

(* The beginning of an insertion, or of an Unquarantine.                   *)
LEMMA BeginDurable ==
    ASSUME TypeOK, DiskOK', Durable, NEW t \in Threads, NEW s, Begin(t, s),
           pc[t] # "idle",
           call[t].op \in DOMAIN Target => s = <<Write(Target[call[t].op], call[t].rec)>>,
           call[t].op \notin DOMAIN Target =>
               \A i \in DOMAIN s : s[i].kind = "quarantines",
           \A k \in Permanent : owed'[k] \subseteq owed[k]
    PROVE  Durable'
<1>1. /\ pc'[t] = "steps" /\ todo'[t] = s /\ call' = call /\ UNCHANGED <<disk, unlinked>>
      /\ Alone(t)
  BY DEF TypeOK, ThreadsOK, Begin, Goto, Alone
<1>2. call[t].op # "Restore"
  BY DEF Durable, AllOrderly, Orderly
<1>3. Orderly(t)'
  BY <1>1, <1>2 DEF Orderly, Inserting, Updating
<1>4. Grows
  BY <1>1, StillGrows DEF TypeOK
<1> QED
  BY <1>1, <1>3, <1>4, PlainStep

(* A new call changes no file and owes nothing yet.                        *)
LEMMA InvokeDurable ==
    ASSUME NoRestore, TypeOK, DiskOK', Durable, NEW t \in Threads, Invoke(t)
    PROVE  Durable'
<1>1. pc'[t] = "ready" /\ call'[t] \in Menu[t] /\ UNCHANGED <<disk, unlinked, owed>>
  BY DEF Invoke, Goto, TypeOK, ThreadsOK
<1>2. call'[t].op # "Restore"
  BY <1>1 DEF NoRestore
<1>3. Alone(t)
  BY InvokeMoves
<1>4. Orderly(t)' /\ Grows
  BY <1>1, <1>2, ReaderOrderly, StillGrows DEF TypeOK
<1> QED
  BY <1>1, <1>3, <1>4, PlainStep

(* Deciding the updates of a call changes no file.                         *)
LEMMA EnterDurable ==
    ASSUME TypeOK, DiskOK', Durable, NEW t \in Threads, Enter(t)
    PROVE  Durable'
<1>1. CASE SaveDecision(t) \/ Revoke(t) \/ Quarantine(t)
  <2>1. /\ call[t].op \in DOMAIN Target /\ pc[t] = "ready" /\ UNCHANGED owed
        /\ Begin(t, <<Write(Target[call[t].op], call[t].rec)>>)
    BY <1>1 DEF SaveDecision, Revoke, Quarantine, Called, Target
  <2> QED
    BY <2>1, BeginDurable
<1>2. CASE Fails(t)
  BY <1>2, FailsDurable DEF Fails
<1>3. CASE Promote(t) /\ ~Fails(t)
  BY <1>3, GotoDurable DEF Promote, Called
<1>4. CASE Unquarantine(t) /\ ~Fails(t)
  <2>1. pc[t] = "ready" /\ call[t].op = "Unquarantine"
    BY <1>4 DEF Unquarantine, Called
  <2>2. PICK f : Begin(t, <<Remove("quarantines")>> \o WriteAll("quarantines",
                       [i \in DOMAIN f |-> files["quarantines"][f[i]]]))
                 /\ f \in InOrder({i \in DOMAIN files["quarantines"] :
                             Kept(files["quarantines"][i], call[t].key)},
                             files["quarantines"])
    BY <1>4 DEF Unquarantine
  <2> DEFINE w == WriteAll("quarantines", [i \in DOMAIN f |-> files["quarantines"][f[i]]])
  <2>3. Len(files["quarantines"]) \in Nat
    BY LenProperties DEF TypeOK, DiskOK, Kinds
  <2>4. PICK n \in Nat : DOMAIN f = 1 .. n
    <3>1. f \in UNION {[1 .. m -> {i \in DOMAIN files["quarantines"] :
                                     Kept(files["quarantines"][i], call[t].key)}] :
                       m \in 0 .. Len(files["quarantines"])}
      BY <2>2, Zenon DEF InOrder
    <3>2. \A m \in 0 .. Len(files["quarantines"]) : m \in Nat
      BY <2>3
    <3> QED
      BY <3>1, <3>2, Zenon
  <2>5. w = [i \in 1 .. n |-> Write("quarantines", files["quarantines"][f[i]])]
    BY <2>4 DEF WriteAll
  <2>6. \A i \in 1 .. n : w[i].kind = "quarantines"
    BY <2>5 DEF Write
  <2>7. w \in Seq({w[i] : i \in 1 .. n}) /\ Len(w) = n
    <3> DEFINE S == {w[i] : i \in 1 .. n}
    <3>1. \A i \in 1 .. n : w[i] \in S
      OBVIOUS
    <3>2. w = [i \in 1 .. n |-> w[i]]
      BY <2>5
    <3> HIDE DEF S, w
    <3>3. w \in Seq(S)
      BY <3>1, <3>2, IsASeq
    <3>4. Len(w) = n
      BY <3>2, <3>3, LenProperties
    <3> QED
      BY <3>3, <3>4 DEF S
  <2>8. DOMAIN w = 1 .. n
    BY <2>5
  <2> HIDE DEF w
  <2>9. \A i \in DOMAIN (<<Remove("quarantines")>> \o w) :
           (<<Remove("quarantines")>> \o w)[i].kind = "quarantines"
    BY <2>6, <2>7, <2>8 DEF Remove
  <2>10. \A k \in Permanent : owed'[k] = owed[k]
    BY <1>4, PermanentKinds DEF Unquarantine, TypeOK, HistoryOK
  <2>11. Begin(t, <<Remove("quarantines")>> \o w) /\ call[t].op \notin DOMAIN Target
    BY <2>1, <2>2 DEF w, Target
  <2> QED
    BY <2>1, <2>9, <2>10, <2>11, BeginDurable
<1>5. CASE IsRevoked(t) \/ IsQuarantined(t)
  BY <1>5, FailsDurable DEF IsRevoked, IsQuarantined, Query
<1>6. CASE Backup(t) /\ ~Fails(t)
  <2>1. pc[t] = "ready" /\ Goto(t, "readPromotions")
        /\ UNCHANGED <<disk, call, todo, unlinked, invokedAt, owed>>
    BY <1>6 DEF Backup, BackupRead, Called
  <2> QED
    BY <2>1, GotoDurable
<1>7. ~Restore(t)
  BY DEF Restore, Called, Durable, AllOrderly, Orderly
<1> QED
  BY <1>1, <1>2, <1>3, <1>4, <1>5, <1>6, <1>7 DEF Enter

(* The threads that proceed without touching a file.                       *)
LEMMA ReadDurable ==
    ASSUME TypeOK, DiskOK', Durable, NEW t \in Threads,
           \/ PromoteCheckRevocations(t) \/ PromoteCheckQuarantines(t)
           \/ BackupPromotions(t) \/ BackupRevocations(t) \/ BackupQuarantines(t)
           \/ TruncateBackup(t) \/ WriteBackup(t)
    PROVE  Durable'
<1>1. CASE Fails(t)
  BY <1>1, FailsDurable DEF Fails
<1>2. CASE PromoteCheckRevocations(t) /\ ~Fails(t)
  BY <1>2, GotoDurable DEF PromoteCheckRevocations
<1>3. CASE PromoteCheckQuarantines(t) /\ ~Fails(t)
  <2>1. call[t].op = "Promote" /\ pc[t] # "idle"
    BY <1>3 DEF PromoteCheckQuarantines, TypeOK, ThreadsOK, Consistent, Operations
  <2>2. Begin(t, <<Write("promotions", call[t].rec)>>) /\ UNCHANGED owed
    BY <1>3 DEF PromoteCheckQuarantines
  <2>3. call[t].op \in DOMAIN Target /\ Target[call[t].op] = "promotions"
    BY <2>1 DEF Target
  <2> QED
    BY <2>1, <2>2, <2>3, BeginDurable
<1>4. CASE (BackupPromotions(t) \/ BackupRevocations(t) \/ BackupQuarantines(t)) /\ ~Fails(t)
  <2>1. PICK s \in {"readRevocations", "readQuarantines", "truncate"} : Goto(t, s)
    BY <1>4 DEF BackupPromotions, BackupRevocations, BackupQuarantines, BackupRead
  <2>2. pc[t] # "idle" /\ UNCHANGED <<disk, call, todo, unlinked, invokedAt, owed>>
    BY <1>4 DEF BackupPromotions, BackupRevocations, BackupQuarantines, BackupRead
  <2> QED
    BY <2>1, <2>2, GotoDurable
<1>5. CASE TruncateBackup(t)
  BY <1>5, GotoDurable DEF TruncateBackup
<1>6. CASE WriteBackup(t)
  BY <1>6, FailsDurable DEF WriteBackup
<1> QED
  BY <1>1, <1>2, <1>3, <1>4, <1>5, <1>6

(* Opening, writing and syncing a file.                                    *)
LEMMA OpenDurable ==
    ASSUME TypeOK, DiskOK', Durable, NEW t \in Threads, OpenFile(t)
    PROVE  Durable'
<1>1. /\ pc[t] = "steps" /\ pc'[t] = "write" /\ t \notin unlinked'
      /\ unlinked' \subseteq unlinked
      /\ UNCHANGED <<disk, call, todo, owed>>
  BY DEF OpenFile, Goto, TypeOK, ThreadsOK
<1>2. Alone(t)
  BY ProceedMoves DEF Proceed
<1>3. Orderly(t)
  BY DEF Durable, AllOrderly
<1>4. Orderly(t)'
  BY <1>1, <1>3 DEF Orderly, Inserting, Updating
<1>5. Grows
  BY <1>1, StillGrows DEF TypeOK
<1> QED
  BY <1>1, <1>2, <1>4, <1>5, PlainStep

(* Writing a line, even onto one without newline, loses no record.         *)
LEMMA WriteDurable ==
    ASSUME TypeOK, DiskOK', Durable, NEW t \in Threads, WriteLine(t)
    PROVE  Durable'
<1> DEFINE k == Head(todo[t]).kind
           r == Head(todo[t]).rec
<1>1. /\ pc[t] = "write" /\ pc'[t] = "sync" /\ UNCHANGED <<call, todo, unlinked, owed>>
  BY DEF WriteLine, Goto, TypeOK, ThreadsOK
<1>2. Alone(t) /\ Orderly(t) /\ k \in Kinds
  BY <1>1, ProceedMoves, HeadTyped DEF Proceed, Durable, AllOrderly, TypeOK
<1>3. CASE t \in unlinked
  <2>1. UNCHANGED disk /\ k = "quarantines"
    BY <1>1, <1>2, <1>3 DEF WriteLine, Orderly
  <2>2. Inserting(t) => Target[call[t].op] = "quarantines"
    BY <1>2, <2>1 DEF Orderly, Write
  <2>3. Orderly(t)'
    BY <1>1, <1>2, <2>1, <2>2, PermanentKinds DEF Orderly, Inserting, Updating
  <2> QED
    BY <1>1, <1>2, <2>1, <2>3, StillGrows, PlainStep DEF TypeOK
<1>4. CASE t \notin unlinked
  <2>1. files' = Appended(k, r) /\ unterminated' = unterminated \ {k} /\ UNCHANGED synced
    BY <1>4 DEF WriteLine
  <2>2. Inserting(t) => k = Target[call[t].op] /\ r = call[t].rec
    BY <1>2 DEF Orderly, Write
  <2> HIDE DEF k, r
  <2>3. Grows
    BY <1>2, <2>1, AppendGrows DEF TypeOK
  <2>4. ASSUME NEW j \in Permanent, NEW s, j = k, s = r
        PROVE  SafeIn(j, Complete(j), s)'
    BY <2>1, <2>4, WrittenIsSafe DEF TypeOK
  <2>5. ASSUME Inserting(t), Target[call[t].op] \in Permanent
        PROVE  SafeIn(Target[call[t].op], Complete(Target[call[t].op]), call[t].rec)'
    <3>1. PICK j \in Permanent : j = k
      BY <2>2, <2>5
    <3>2. PICK s : s = r
      OBVIOUS
    <3>3. SafeIn(j, Complete(j), s)'
      BY <2>4, <3>1, <3>2
    <3>4. Target[call'[t].op] = j /\ call'[t].rec = s
      BY <1>1, <2>2, <2>5, <3>1, <3>2
    <3> QED
      BY <3>3, <3>4
  <2>6. Orderly(t)'
    BY <1>1, <1>2, <1>4, <2>5 DEF Orderly, Inserting, Updating
  <2> QED
    BY <1>1, <1>2, <2>3, <2>6, PlainStep
<1> QED
  BY <1>3, <1>4

(* Finishing a step of an operation that inserts no record credits nobody. *)
LEMMA StepDoneOrderly ==
    ASSUME TypeOK, Durable, NEW t \in Threads, Updating(t), ~Inserting(t), StepDone(t),
           unlinked' \subseteq Threads
    PROVE  Orderly(t)' /\ owed' = owed
<1>1. Orderly(t) /\ call[t].op # "Restore" /\ todo[t] \in Seq(Steps) /\ todo[t] # <<>>
  BY DEF Durable, AllOrderly, Orderly, Updating, TypeOK, ThreadsOK, Consistent
<1>2. CASE Len(todo[t]) = 1
  <2>1. Return(t, "ok") /\ owed' = Credit(call[t], snap[t])
    BY <1>2 DEF StepDone
  <2>2. owed' = owed
    BY <1>1, <2>1 DEF Credit, Inserting
  <2> QED
    BY <2>1, <2>2, ReturnOrderly DEF TypeOK
<1>3. CASE Len(todo[t]) # 1
  <2>1. /\ pc'[t] = "steps" /\ todo'[t] = Tail(todo[t]) /\ call'[t] = call[t] /\ owed' = owed
    BY <1>3 DEF StepDone, Goto, TypeOK, ThreadsOK
  <2>2. \A i \in DOMAIN todo[t] : todo[t][i].kind = "quarantines"
    BY <1>1 DEF Orderly
  <2>3. \A i \in DOMAIN Tail(todo[t]) : Tail(todo[t])[i].kind = "quarantines"
    <3>1. Len(todo[t]) \in Nat \ {0} /\ DOMAIN todo[t] = 1 .. Len(todo[t])
      BY <1>1
    <3>2. /\ Tail(todo[t]) \in Seq(Steps) /\ Len(Tail(todo[t])) = Len(todo[t]) - 1
          /\ \A i \in 1 .. Len(todo[t]) - 1 : Tail(todo[t])[i] = todo[t][i + 1]
      BY <1>1, <3>1, HeadTailProperties
    <3>3. DOMAIN Tail(todo[t]) = 1 .. Len(todo[t]) - 1
      BY <3>2, LenProperties
    <3> QED
      BY <2>2, <3>1, <3>2, <3>3
  <2>4. ~Inserting(t)'
    BY <2>1 DEF Inserting, Updating
  <2> QED
    BY <1>1, <2>1, <2>3, <2>4 DEF Orderly
<1> QED
  BY <1>2, <1>3

(* After f.Sync() the record that is then acknowledged is safe.            *)
LEMMA FsyncDurable ==
    ASSUME TypeOK, DiskOK', Durable, NEW t \in Threads, Fsync(t)
    PROVE  Durable'
<1> DEFINE k == Head(todo[t]).kind
<1>1. /\ pc[t] = "sync" /\ StepDone(t) /\ UNCHANGED <<files, unterminated, unlinked>>
      /\ synced' = IF t \in unlinked THEN synced ELSE [synced EXCEPT ![k] = Complete(k)]
  BY DEF Fsync
<1>2. Alone(t) /\ Orderly(t) /\ k \in Kinds
  BY <1>1, ProceedMoves, HeadTyped DEF Proceed, Durable, AllOrderly, TypeOK
<1>3. Grows
  <2>1. ASSUME NEW j \in Permanent PROVE Complete(j)' = Complete(j)
    BY <1>1 DEF Complete
  <2>2. ASSUME NEW j \in Permanent PROVE synced'[j] >= synced[j]
    <3>1. synced[j] \in Nat /\ Complete(j) \in Nat /\ synced[j] <= Complete(j)
      BY LineCounts DEF TypeOK
    <3>2. synced'[j] \in {synced[j], Complete(j)}
      BY <1>1, PermanentKinds DEF TypeOK, DiskOK
    <3> QED
      BY <3>1, <3>2
  <2> QED
    BY <1>1, <2>1, <2>2, LineCounts DEF Grows, TypeOK
<1>4. CASE ~Inserting(t)
  <2>1. Orderly(t)' /\ owed' = owed
    BY <1>1, <1>4, StepDoneOrderly DEF Updating, TypeOK, ThreadsOK
  <2> QED
    BY <1>1, <1>2, <1>3, <2>1, PlainStep
<1>5. CASE Inserting(t)
  <2> DEFINE c == call[t]
             j == Target[c.op]
  <2>1. Len(todo[t]) = 1 /\ k = j
    BY <1>2, <1>5 DEF Orderly, Write
  <2>2. Return(t, "ok") /\ owed' = [owed EXCEPT ![j] = @ \cup {c.rec}]
    BY <1>1, <1>5, <2>1 DEF StepDone, Credit, Inserting
  <2>3. Orderly(t)'
    BY <2>2, ReturnOrderly DEF TypeOK
  <2>4. AllOrderly'
    BY <1>1, <1>2, <1>3, <2>3, OthersOrderly DEF AllOrderly
  <2>5. ASSUME NEW m \in Permanent, NEW r \in owed'[m] PROVE SafeIn(m, synced[m], r)'
    <3>1. CASE r \in owed[m]
      BY <1>3, <3>1, OwedStaysSafe
    <3>2. CASE r \notin owed[m]
      <4>1. m = j /\ r = c.rec
        BY <2>2, <3>2, PermanentKinds DEF TypeOK, HistoryOK
      <4>2. t \notin unlinked
        BY <1>1, <1>2, <2>1, <4>1, PermanentKinds DEF Orderly
      <4>3. synced'[m] = Complete(m)
        BY <1>1, <1>2, <2>1, <4>1, <4>2 DEF TypeOK, DiskOK
      <4>4. SafeIn(m, Complete(m), r)
        BY <1>1, <1>2, <1>5, <4>1 DEF Orderly
      <4>5. PICK i \in 1 .. Complete(m) : files[m][i] \in {r, Garbage} \cup Oversized
        BY <4>4 DEF SafeIn
      <4> QED
        BY <1>1, <4>3, <4>5 DEF SafeIn
    <3> QED
      BY <3>1, <3>2
  <2> QED
    BY <2>4, <2>5 DEF Durable, OwedIsSafe
<1> QED
  BY <1>4, <1>5

(* Without Restore os.Remove touches quarantines only.                     *)
LEMMA RemoveDurable ==
    ASSUME TypeOK, DiskOK', Durable, NEW t \in Threads, RemoveFile(t)
    PROVE  Durable'
<1>1. /\ pc[t] = "steps" /\ StepDone(t) /\ Head(todo[t]).do = "remove"
      /\ Orderly(t) /\ unlinked' \subseteq Threads /\ Updating(t)
  BY DEF RemoveFile, Updating, Durable, AllOrderly, TypeOK, ThreadsOK
<1>2. ~Inserting(t)
  BY <1>1 DEF Orderly, Write
<1>3. Head(todo[t]).kind = "quarantines"
  <2>1. todo[t] \in Seq(Steps) /\ todo[t] # <<>>
    BY <1>1 DEF TypeOK, ThreadsOK, Consistent
  <2>2. 1 \in DOMAIN todo[t] /\ Head(todo[t]) = todo[t][1]
    BY <2>1
  <2> QED
    BY <1>1, <1>2, <2>2 DEF Orderly
<1>4. Orderly(t)' /\ owed' = owed
  BY <1>1, <1>2, StepDoneOrderly
<1>5. Alone(t)
  BY ProceedMoves DEF Proceed
<1>6. Grows
  <2>1. ASSUME NEW j \in Permanent
        PROVE  files'[j] = files[j] /\ synced'[j] = synced[j] /\ Complete(j)' = Complete(j)
    BY <1>3, PermanentKinds DEF RemoveFile, TypeOK, DiskOK, Complete
  <2> QED
    BY <2>1, LineCounts DEF Grows, TypeOK
<1>7. ASSUME NEW u \in Threads \ {t}, pc[u] \in {"write", "sync"}, u \in unlinked',
             u \notin unlinked
      PROVE  Head(todo[u]).kind = "quarantines"
  BY <1>3, <1>7 DEF RemoveFile
<1> QED
  BY <1>4, <1>5, <1>6, <1>7, PlainStep

(* A system call that fails, or a short write, loses no record.            *)
LEMMA ErrorDurable ==
    ASSUME TypeOK, DiskOK', Durable, NEW t \in Threads,
           IOError(t) \/ RemoveFails(t) \/ ShortWrite(t)
    PROVE  Durable'
<1>1. CASE IOError(t)
  BY <1>1, FailsDurable DEF IOError
<1>2. CASE RemoveFails(t)
  <2>1. /\ pc[t] = "steps" /\ StepDone(t) /\ Head(todo[t]).do = "remove"
        /\ Orderly(t) /\ UNCHANGED <<disk, unlinked>> /\ Updating(t)
    BY <1>2 DEF RemoveFails, Updating, Durable, AllOrderly
  <2>2. ~Inserting(t)
    BY <2>1 DEF Orderly, Write
  <2>3. Orderly(t)' /\ owed' = owed
    BY <2>1, <2>2, StepDoneOrderly DEF TypeOK, ThreadsOK
  <2> QED
    BY <2>1, <2>3, ErrorMoves, StillGrows, PlainStep DEF TypeOK
<1>3. CASE ShortWrite(t)
  <2>1. /\ Return(t, "error") /\ UNCHANGED <<synced, unlinked, owed>>
        /\ \E k \in Kinds : /\ \E line : files' = Appended(k, line)
                            /\ unterminated' = unterminated \cup {k}
    BY <1>3, HeadTyped DEF ShortWrite, TypeOK
  <2>2. Grows
    BY <2>1, AppendGrows DEF TypeOK
  <2>3. Orderly(t)' /\ Alone(t)
    BY <2>1, ReturnOrderly, ReturnMoves DEF TypeOK
  <2> QED
    BY <2>1, <2>2, <2>3, PlainStep
<1> QED
  BY <1>1, <1>2, <1>3

(* A killed thread is idle; the others, if any, see no file change.        *)
LEMMA CrashDurable ==
    ASSUME TypeOK, Durable, NEW p \in Procs, Crash(p)
    PROVE  Durable'
<1>1. UNCHANGED <<files, unterminated, synced, owed, unlinked>>
  BY DEF Crash, disk
<1>2. ASSUME NEW u \in Threads PROVE Orderly(u)'
  <2>1. CASE Home[u] = p
    <3>1. pc'[u] = "idle"
      BY <2>1 DEF Crash, Kill
    <3> QED
      BY <3>1 DEF Orderly, Inserting, Updating
  <2>2. CASE Home[u] # p
    <3>1. pc'[u] = pc[u] /\ call'[u] = call[u] /\ todo'[u] = todo[u]
      BY <2>2 DEF Crash, Kill
    <3>2. Orderly(u)
      BY DEF Durable, AllOrderly
    <3> QED
      BY <1>1, <3>1, <3>2 DEF Orderly, Inserting, Updating, SafeIn, Complete
  <2> QED
    BY <2>1, <2>2
<1>3. OwedIsSafe'
  BY <1>1 DEF Durable, OwedIsSafe, SafeIn
<1> QED
  BY <1>2, <1>3 DEF Durable, AllOrderly

(* A power failure takes unsynced lines only.                              *)
LEMMA PowerFailDurable ==
    ASSUME TypeOK, Durable, PowerFail
    PROVE  Durable'
<1> DEFINE dirty == {k \in Kinds : synced[k] < Len(files[k])}
           sizes == UNION {0 .. Len(files[k]) : k \in dirty}
           tails == {"clean", "torn", "newline"}
<1>1. PICK n \in [dirty -> sizes], tail \in [dirty -> tails] :
         /\ \A k \in dirty : /\ n[k] \in synced[k] .. Complete(k)
                             /\ tail[k] # "clean" => n[k] < Len(files[k])
         /\ files' = [k \in Kinds |-> IF k \in dirty THEN Cut(k, n[k], tail[k])
                                                     ELSE files[k]]
         /\ synced' = [k \in Kinds |-> IF k \in dirty THEN n[k] ELSE synced[k]]
  BY DEF PowerFail
<1>2. AllOrderly'
  <2>1. \A u \in Threads : pc'[u] = "idle"
    BY DEF PowerFail, Kill
  <2> QED
    BY <2>1 DEF AllOrderly, Orderly, Inserting, Updating
<1>3. ASSUME NEW k \in Permanent, NEW r \in owed'[k] PROVE SafeIn(k, synced[k], r)'
  <2>1. r \in owed[k] /\ k \in Kinds
    BY PermanentKinds DEF PowerFail
  <2>2. PICK i \in 1 .. synced[k] : files[k][i] \in {r, Garbage} \cup Oversized
    BY <2>1 DEF Durable, OwedIsSafe, SafeIn
  <2>3. CASE k \notin dirty
    BY <1>1, <2>1, <2>2, <2>3 DEF SafeIn
  <2>4. CASE k \in dirty
    <3>1. /\ synced'[k] = n[k] /\ n[k] \in synced[k] .. Complete(k)
          /\ files'[k] = Cut(k, n[k], tail[k])
      BY <1>1, <2>1, <2>4
    <3>2. /\ n[k] \in Nat /\ n[k] <= Len(files[k]) /\ i \in 1 .. n[k]
          /\ files[k] \in Seq(Line(k)) /\ Len(files[k]) \in Nat
      BY <2>2, <3>1, LineCounts DEF TypeOK
    <3> DEFINE kept == SubSeq(files[k], 1, n[k])
    <3>3. kept \in Seq(Line(k)) /\ Len(kept) = n[k] /\ kept[i] = files[k][i]
      BY <3>2, SubSeqProperties
    <3> HIDE DEF kept
    <3>4. \A x : Append(kept, x)[i] = kept[i]
      BY <3>2, <3>3
    <3>5. files'[k][i] = files[k][i]
      BY <3>1, <3>3, <3>4 DEF Cut, kept
    <3> QED
      BY <2>2, <3>1, <3>2, <3>5 DEF SafeIn
  <2> QED
    BY <2>3, <2>4
<1> QED
  BY <1>2, <1>3 DEF Durable, OwedIsSafe

(* Every step keeps the acknowledged records among the synced lines.       *)
LEMMA StepKeepsDurable ==
    ASSUME NoRestore, TypeOK, TypeOK', Durable, [Next]_vars
    PROVE  Durable'
<1>1. DiskOK'
  BY DEF TypeOK
<1>2. ASSUME NEW t \in Threads, Proceed(t) PROVE Durable'
  BY <1>1, <1>2, ReadDurable, OpenDurable, WriteDurable, FsyncDurable, RemoveDurable
     DEF Proceed
<1>3. ASSUME NEW t \in Threads, Invoke(t) \/ Enter(t)
                                \/ IOError(t) \/ RemoveFails(t) \/ ShortWrite(t)
      PROVE  Durable'
  BY <1>1, <1>3, InvokeDurable, EnterDurable, ErrorDurable
<1>4. ASSUME Tick \/ Finished \/ UNCHANGED vars PROVE Durable'
  <2>1. UNCHANGED <<files, unterminated, synced, pc, call, todo, unlinked, owed>>
    BY <1>4 DEF Tick, Finished, vars, disk, thread
  <2> QED
    BY <2>1 DEF Durable, AllOrderly, OwedIsSafe, Orderly, Inserting, Updating, SafeIn,
                Complete
<1> QED
  BY <1>2, <1>3, <1>4, CrashDurable, PowerFailDurable DEF Next

(* The inductive invariant: an acknowledged record lies within the synced  *)
(* lines of its file.                                                      *)
THEOREM AcknowledgedIsSynced ==
    ASSUME NoRestore
    PROVE  Spec => []Durable
<1>1. Init => Durable
  BY DEF Init, Durable, AllOrderly, OwedIsSafe, Orderly, Inserting, Updating, Permanent,
         Kinds
<1>2. TypeOK /\ TypeOK' /\ Durable /\ [Next]_vars => Durable'
  BY StepKeepsDurable
<1> QED
  BY <1>1, <1>2, TypeCorrect, PTL DEF Spec

(* Such a record is in its file, unless the file no longer reads.          *)
LEMMA DurableKeeps ==
    ASSUME TypeOK, Durable
    PROVE  AppendOnlyFilesKeepTheirRecords
<1> SUFFICES ASSUME NEW k \in Permanent, Readable(k), NEW r \in owed[k]
             PROVE  r \in Effective(k)
  BY DEF AppendOnlyFilesKeepTheirRecords, StillThere, Permanent
<1>1. PICK i \in 1 .. synced[k] : files[k][i] \in {r, Garbage} \cup Oversized
  BY DEF Durable, OwedIsSafe, SafeIn
<1>2. i \in DOMAIN files[k]
  BY LineCounts DEF TypeOK
<1>3. files[k][i] \in Range(files[k])
  BY <1>2 DEF Range
<1>4. files[k][i] = r /\ r # Garbage
  BY <1>1, <1>3 DEF Readable
<1>5. r \in Contents(k)
  BY <1>3, <1>4 DEF Contents
<1>6. Remove(k) \notin Pending(k)
  <2> SUFFICES ASSUME NEW t \in Threads, NEW j \in DOMAIN todo[t], todo[t][j] = Remove(k)
               PROVE  FALSE
    BY DEF Pending, Range
  <2>1. Orderly(t) /\ Updating(t)
    BY DEF Durable, AllOrderly, TypeOK, ThreadsOK, Consistent, Updating
  <2>2. todo[t][j].do = "remove" /\ todo[t][j].kind # "quarantines"
    BY PermanentKinds DEF Remove
  <2>3. CASE Inserting(t)
    BY <2>1, <2>2, <2>3 DEF Orderly, Write
  <2>4. CASE ~Inserting(t)
    BY <2>1, <2>2, <2>4 DEF Orderly
  <2> QED
    BY <2>3, <2>4
<1> QED
  BY <1>5, <1>6 DEF Effective

(* file.go appendNDJSON: a decision, promotion or revocation that was      *)
(* acknowledged is still in its file, or the file has become unreadable    *)
(* and every check on it fails closed.                                     *)
THEOREM Durability ==
    ASSUME NoRestore
    PROVE  Spec => []AppendOnlyFilesKeepTheirRecords
  BY AcknowledgedIsSynced, TypeCorrect, DurableKeeps, PTL

(* Together with Promote's checks under the mutex: in one process, through *)
(* any faults, no promotion goes ahead against an acknowledged revocation. *)
THEOREM NoPromotionGoesPastRevocation ==
    ASSUME NoRestore, SingleProcess
    PROVE  Spec => []NoPromotionPastRevocation
<1>1. TypeOK /\ Durable /\ PromotionsChecked => NoPromotionPastRevocation
  <2> SUFFICES ASSUME TypeOK, Durable, PromotionsChecked, NEW t \in Threads, Admitted(t),
                      NEW r \in owed["revocations"]
               PROVE  ~AppliesTo(r, call[t].rec.digest, call[t].rec.env)
    BY DEF NoPromotionPastRevocation
  <2>1. ClearOf("revocations", call[t].rec)
    BY DEF PromotionsChecked, Promoting, Admitted, Checked, Inside
  <2>2. PICK i \in 1 .. synced["revocations"] :
           files["revocations"][i] \in {r, Garbage} \cup Oversized
    BY DEF Durable, OwedIsSafe, SafeIn, Permanent
  <2>3. i \in DOMAIN files["revocations"]
    BY LineCounts DEF TypeOK, Permanent
  <2>4. files["revocations"][i] \in Range(files["revocations"])
    BY <2>3 DEF Range
  <2>5. files["revocations"][i] = r /\ r # Garbage
    BY <2>1, <2>2, <2>4 DEF ClearOf, Readable
  <2> QED
    BY <2>1, <2>4, <2>5 DEF ClearOf, Contents
<1> QED
  BY <1>1, TypeCorrect, AcknowledgedIsSynced, PromotionsStayChecked, PTL

(* An acknowledged record is among the records of a file that reads.       *)
LEMMA DurableReads ==
    ASSUME TypeOK, Durable, NEW k \in Permanent, Readable(k)
    PROVE  owed[k] \subseteq Contents(k)
<1> SUFFICES ASSUME NEW r \in owed[k] PROVE r \in Contents(k)
  OBVIOUS
<1>1. PICK i \in 1 .. synced[k] : files[k][i] \in {r, Garbage} \cup Oversized
  BY DEF Durable, OwedIsSafe, SafeIn
<1>2. i \in DOMAIN files[k]
  BY LineCounts DEF TypeOK
<1>3. files[k][i] \in Range(files[k])
  BY <1>2 DEF Range
<1> QED
  BY <1>1, <1>3 DEF Readable, Contents

(* file.go IsRevoked: however many processes share the directory and       *)
(* whatever fails, an acknowledged revocation of an environment is never   *)
(* denied to a caller that asks about that environment.                    *)
THEOREM NegativeRevocationAnswersAreSound ==
    ASSUME NoRestore
    PROVE  Spec => NotRevokedIsSound
<1>1. ASSUME TypeOK, Durable, Unanswered, [Next]_vars, NEW t \in Threads,
             Called(t, "IsRevoked"), answer'[t] = "no",
             NEW r \in owed["revocations"], r.digest = call[t].digest, r.env = call[t].env
      PROVE  FALSE
  <2>1. /\ Readable("revocations")
        /\ ~\E q \in GetRevocations(call[t].env) : AppliesTo(q, call[t].digest, call[t].env)
    BY <1>1, NegativeAnswers
  <2>2. r \in Contents("revocations")
    BY <1>1, <2>1, DurableReads DEF Permanent
  <2> QED
    BY <1>1, <2>1, <2>2 DEF GetRevocations, AppliesTo
<1>2. TypeOK /\ Durable /\ Unanswered /\ [Next]_vars
      => [\A t \in Threads :
            Called(t, "IsRevoked") /\ answer'[t] = "no"
            => ~\E r \in owed["revocations"] :
                   r.digest = call[t].digest /\ r.env = call[t].env]_vars
  BY <1>1
<1> QED
  BY <1>2, TypeCorrect, AcknowledgedIsSynced, AnswersComeWithReturn, PTL
     DEF Spec, NotRevokedIsSound
=============================================================================
