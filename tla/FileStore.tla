----------------------------- MODULE FileStore -----------------------------
(***************************************************************************)
(* internal/store/file.go: governance records in four append-only NDJSON   *)
(* files, guarded by one sync.RWMutex per FileStore value.                  *)
(*                                                                         *)
(* A thread is a goroutine of a server or a whole CLI invocation.  Threads *)
(* of one process share a FileStore and so a mutex; every process that     *)
(* opens the same data directory has a mutex of its own.  An operation is  *)
(* split where another process, a failing system call, a kill or a power   *)
(* failure can come between two of its effects: at every system call.      *)
(***************************************************************************)
EXTENDS GovernanceRecords, Sequences, Functions

CONSTANTS
    Threads, Procs,
    Home,       \* the process of each thread
    Menu,       \* the calls each thread may make
    Oversized,  \* records whose line exceeds bufio.Scanner's 64 KiB
    Garbage,    \* a line, or a backup file, that does not parse
    NoCall,
    MaxCalls,   \* bound on the calls made
    MaxFaults   \* bound on the faults injected

(* Every call of the Store interface that the model distinguishes.         *)
Calls ==
         [op : {"SaveDecision"}, rec : Decisions]
    \cup [op : {"Promote"},      rec : Promotions]
    \cup [op : {"Revoke"},       rec : Revocations]
    \cup [op : {"Quarantine"},   rec : Quarantines]
    \cup [op : {"Unquarantine"}, key : QuarantineIDs \cup Digests]
    \cup [op : {"IsRevoked", "IsQuarantined"}, digest : Digests, env : Envs]
    \cup [op : {"Backup", "Restore"}]

(* What a backup holds.                                                    *)
Images == {i \in [Kinds -> Seq(Records)] : \A k \in Kinds : i[k] \in Seq(Shape(k))}

ASSUME FileStoreAssumption ==
    /\ Home \in [Threads -> Procs]
    /\ Menu \in [Threads -> SUBSET Calls]
    /\ Oversized \subseteq Records
    /\ Garbage \notin Records
    /\ Garbage \notin Images
    /\ NoCall \notin Calls
    /\ MaxCalls \in Nat
    /\ MaxFaults \in Nat

VARIABLES
    files,         \* the lines of each file, in the page cache
    unterminated,  \* the files whose last line lacks its newline
    synced,        \* how many lines of each file fsync has confirmed
    backup,        \* the backup file of the CLI, or Garbage
    pc, call,
    todo,          \* what is left of the thread's file updates
    snap,          \* the backup image a thread is taking or restoring
    unlinked,      \* the threads whose open file has been removed
    answer,        \* the outcome of the thread's last call
    invokedAt,     \* when the thread's call was made
    now,
    issued, faults,
    owed           \* history: records acknowledged and not since withdrawn

disk   == <<files, unterminated, synced>>
thread == <<pc, call, todo, snap, unlinked, answer, invokedAt>>
bounds == <<issued, faults>>
vars   == <<disk, backup, thread, now, bounds, owed>>

-----------------------------------------------------------------------------
(* The mutex.  A thread is inside the critical section between Lock (RLock *)
(* for Backup and the queries) and the deferred Unlock.                    *)

(* Mutant: Promote takes the lock only for the write.                      *)
InsideForWrites == {"readPromotions", "readRevocations", "readQuarantines",
                    "steps", "write", "sync"}

Inside == {"checkRevocations", "checkQuarantines",
           "readPromotions", "readRevocations", "readQuarantines",
           "steps", "write", "sync"}

Writer(t) == pc[t] \in Inside /\ call[t].op # "Backup"

(* Mutant: a writer does not wait for readers.                             *)
LockBesideReaders(t) == \A u \in Threads : Home[u] = Home[t] => ~Writer(u)

Lock(t)  == \A u \in Threads : Home[u] = Home[t] => pc[u] \notin Inside
RLock(t) == \A u \in Threads : Home[u] = Home[t] => ~Writer(u)

-----------------------------------------------------------------------------
(* Files.                                                                  *)

Line(k) == Shape(k) \cup {Garbage}

(* readNDJSON fails on a line that does not parse or does not fit.         *)
Readable(k) == Range(files[k]) \cap ({Garbage} \cup Oversized) = {}

Contents(k) == Range(files[k]) \ {Garbage}

(* Mutant: the file is opened with O_TRUNC instead of O_APPEND.            *)
AppendedToNothing(k, line) == [files EXCEPT ![k] = <<line>>]

(* An append to a file without a final newline runs into its last line.    *)
Appended(k, line) ==
    IF k \in unterminated
    THEN [files EXCEPT ![k][Len(files[k])] = Garbage]
    ELSE [files EXCEPT ![k] = Append(@, line)]

Remove(k)    == [do |-> "remove", kind |-> k, rec |-> Garbage]
Write(k, r)  == [do |-> "append", kind |-> k, rec |-> r]

(* Mutant: the last record is left out.                                    *)
WriteAllButLast(k, s) == [i \in 1 .. Len(s) - 1 |-> Write(k, s[i])]

WriteAll(k, s) == [i \in DOMAIN s |-> Write(k, s[i])]

-----------------------------------------------------------------------------
(* Calls and answers.                                                      *)

Goto(t, s) == pc' = [pc EXCEPT ![t] = s]

Return(t, a) ==
    /\ Goto(t, "idle")
    /\ answer' = [answer EXCEPT ![t] = a]
    /\ call' = [call EXCEPT ![t] = NoCall]
    /\ todo' = [todo EXCEPT ![t] = <<>>]
    /\ snap' = [snap EXCEPT ![t] = Garbage]
    /\ invokedAt' = [invokedAt EXCEPT ![t] = 0]

(* The file an operation adds a record to.                                 *)
Target == [SaveDecision |-> "decisions",   Promote    |-> "promotions",
           Revoke       |-> "revocations", Quarantine |-> "quarantines"]

(* What callers may rely on once the call c has answered "ok".             *)
Credit(c, image) ==
    IF c.op \in DOMAIN Target
    THEN [owed EXCEPT ![Target[c.op]] = @ \cup {c.rec}]
    ELSE IF c.op = "Restore" THEN [k \in Kinds |-> owed[k] \cup Range(image[k])]
    ELSE owed

Called(t, op) == pc[t] = "ready" /\ call[t].op = op

(* Leave the update steps s to be done under the lock.                     *)
Begin(t, s) ==
    /\ Goto(t, "steps")
    /\ todo' = [todo EXCEPT ![t] = s]
    /\ UNCHANGED <<disk, backup, call, snap, unlinked, answer, invokedAt, now,
                   bounds>>

(* Mutant: the error is returned without the deferred Unlock.              *)
FailsLocked(t) == UNCHANGED vars

Fails(t) ==
    /\ Return(t, "error")
    /\ UNCHANGED <<disk, backup, unlinked, now, bounds, owed>>

(* runRestore reads the backup file before it opens the store.             *)
Invoke(t) ==
    /\ pc[t] = "idle"
    /\ issued < MaxCalls
    /\ \E c \in Menu[t] :
          /\ call' = [call EXCEPT ![t] = c]
          /\ snap' = [snap EXCEPT ![t] = IF c.op = "Restore" THEN backup
                                                             ELSE Garbage]
    /\ Goto(t, "ready")
    /\ answer' = [answer EXCEPT ![t] = "none"]
    /\ invokedAt' = [invokedAt EXCEPT ![t] = now]
    /\ issued' = issued + 1
    /\ UNCHANGED <<disk, backup, todo, unlinked, now, faults, owed>>

-----------------------------------------------------------------------------
(* The operations.                                                         *)

SaveDecision(t) ==
    /\ Called(t, "SaveDecision")
    /\ Lock(t)
    /\ Begin(t, <<Write("decisions", call[t].rec)>>)
    /\ UNCHANGED owed

Revoke(t) ==
    /\ Called(t, "Revoke")
    /\ Lock(t)
    /\ Begin(t, <<Write("revocations", call[t].rec)>>)
    /\ UNCHANGED owed

Quarantine(t) ==
    /\ Called(t, "Quarantine")
    /\ Lock(t)
    /\ Begin(t, <<Write("quarantines", call[t].rec)>>)
    /\ UNCHANGED owed

(* Mutant: ExpiresAt is not looked at.                                     *)
DecidedForEver(p, t) ==
    /\ p.decision # NoDecision
    /\ Readable("decisions")
    /\ \E d \in Range(files["decisions"]) : d.id = p.decision /\ Supports(d, p)

(* The first decision with the promotion's decision_id decides.            *)
Decided(p, t) ==
    /\ p.decision # NoDecision
    /\ Readable("decisions")
    /\ \E i \in DOMAIN files["decisions"] :
          LET d == files["decisions"][i]
          IN  /\ d.id = p.decision
              /\ \A j \in 1 .. i - 1 : files["decisions"][j].id # p.decision
              /\ Supports(d, p)
              /\ ~Expired(d, t)

(* Mutant: a file that cannot be read is taken for one without records.    *)
ClearIfUnreadable(k, p) == \A r \in Contents(k) : ~AppliesTo(r, p.digest, p.env)

(* No line of the readable file k concerns the promotion.                  *)
ClearOf(k, p) ==
    /\ Readable(k)
    /\ \A r \in Contents(k) : ~AppliesTo(r, p.digest, p.env)

Promote(t) ==
    /\ Called(t, "Promote")
    /\ Lock(t)
    /\ \/ /\ Decided(call[t].rec, now)
          /\ Goto(t, "checkRevocations")
          /\ UNCHANGED <<disk, backup, call, todo, snap, unlinked, answer,
                         invokedAt, now, bounds, owed>>
       \/ ~Decided(call[t].rec, now) /\ Fails(t)

PromoteCheckRevocations(t) ==
    /\ pc[t] = "checkRevocations"
    /\ \/ /\ ClearOf("revocations", call[t].rec)
          /\ Goto(t, "checkQuarantines")
          /\ UNCHANGED <<disk, backup, call, todo, snap, unlinked, answer,
                         invokedAt, now, bounds, owed>>
       \/ ~ClearOf("revocations", call[t].rec) /\ Fails(t)

PromoteCheckQuarantines(t) ==
    /\ pc[t] = "checkQuarantines"
    /\ \/ /\ ClearOf("quarantines", call[t].rec)
          /\ Begin(t, <<Write("promotions", call[t].rec)>>)
          /\ UNCHANGED owed
       \/ ~ClearOf("quarantines", call[t].rec) /\ Fails(t)

(* Mutants: the filter by environment is the wrong way round, or exact.    *)
GetRevocationsOfAll(env) == {r \in Contents("revocations") : r.env = AnyEnv}

GetQuarantinesOf(env) == {q \in Contents("quarantines") : q.env = env}

(* IsRevoked filters what GetRevocations(env) lists, which for a named     *)
(* environment leaves out the revocations of every environment.            *)
GetRevocations(env) == {r \in Contents("revocations") : r.env = env}

GetQuarantines(env) == {q \in Contents("quarantines") : q.env \in {AnyEnv, env}}

Query(t, k, listed) ==
    LET c == call[t]
        hit == \E r \in listed : AppliesTo(r, c.digest, c.env)
    IN  /\ RLock(t)
        /\ Return(t, IF ~Readable(k) THEN "error" ELSE IF hit THEN "yes" ELSE "no")
        /\ UNCHANGED <<disk, backup, unlinked, now, bounds, owed>>

IsRevoked(t) ==
    /\ Called(t, "IsRevoked")
    /\ Query(t, "revocations", GetRevocations(call[t].env))

IsQuarantined(t) ==
    /\ Called(t, "IsQuarantined")
    /\ Query(t, "quarantines", GetQuarantines(call[t].env))

(* Mutant: a digest is not accepted as the key.                            *)
KeptUnlessID(q, key) == q.id # key

(* A quarantine that Unquarantine(key) leaves in place.                    *)
Kept(q, key) == q.id # key /\ q.digest # key

(* The enumerations of I, a set of positions of the list s, in order.      *)
InOrder(I, s) ==
    {f \in UNION {[1 .. n -> I] : n \in 0 .. Len(s)} :
        /\ Range(f) = I
        /\ \A i, j \in DOMAIN f : i < j => f[i] < f[j]}

(* Mutant: the old file is not removed first.                              *)
UnquarantineInPlace(t) ==
    LET all == files["quarantines"]
    IN  /\ Called(t, "Unquarantine")
        /\ Lock(t)
        /\ Readable("quarantines")
        /\ \E f \in InOrder({i \in DOMAIN all : Kept(all[i], call[t].key)}, all) :
              Begin(t, WriteAll("quarantines", [i \in DOMAIN f |-> all[f[i]]]))
        /\ UNCHANGED owed

Unquarantine(t) ==
    LET key == call[t].key
        all == files["quarantines"]
    IN  /\ Called(t, "Unquarantine")
        /\ Lock(t)
        /\ \/ /\ Readable("quarantines")
              /\ \E f \in InOrder({i \in DOMAIN all : Kept(all[i], key)}, all) :
                    LET remaining == [i \in DOMAIN f |-> all[f[i]]]
                    IN  Begin(t, <<Remove("quarantines")>>
                                 \o WriteAll("quarantines", remaining))
              /\ owed' = [owed EXCEPT !["quarantines"] = {q \in @ : Kept(q, key)}]
           \/ ~Readable("quarantines") /\ Fails(t)

(* Mutant: the quarantines on file are kept.                               *)
RestoreOverQuarantines(t) ==
    /\ Called(t, "Restore")
    /\ Lock(t)
    /\ snap[t] # Garbage
    /\ Begin(t, <<Remove("decisions"), Remove("promotions"), Remove("revocations")>>
                \o WriteAll("decisions", snap[t]["decisions"])
                \o WriteAll("promotions", snap[t]["promotions"])
                \o WriteAll("revocations", snap[t]["revocations"])
                \o WriteAll("quarantines", snap[t]["quarantines"]))
    /\ owed' = [k \in Kinds |-> owed[k] \cap Range(snap[t][k])]

Restore(t) ==
    LET image == snap[t]
    IN  /\ Called(t, "Restore")
        /\ Lock(t)
        /\ \/ /\ image # Garbage
              /\ Begin(t, <<Remove("decisions"), Remove("promotions"),
                            Remove("revocations"), Remove("quarantines")>>
                          \o WriteAll("decisions", image["decisions"])
                          \o WriteAll("promotions", image["promotions"])
                          \o WriteAll("revocations", image["revocations"])
                          \o WriteAll("quarantines", image["quarantines"]))
              /\ owed' = [k \in Kinds |-> owed[k] \cap Range(image[k])]
           \/ image = Garbage /\ Fails(t)

(* Backup reads the four files one after the other under RLock.            *)
BackupRead(t, k, image, next) ==
    \/ /\ Readable(k)
       /\ snap' = [snap EXCEPT ![t] = [image EXCEPT ![k] = files[k]]]
       /\ Goto(t, next)
       /\ UNCHANGED <<disk, backup, call, todo, unlinked, answer, invokedAt, now,
                      bounds, owed>>
    \/ ~Readable(k) /\ Fails(t)

Backup(t) ==
    /\ Called(t, "Backup")
    /\ RLock(t)
    /\ BackupRead(t, "decisions", [k \in Kinds |-> <<>>], "readPromotions")

BackupPromotions(t) ==
    /\ pc[t] = "readPromotions"
    /\ BackupRead(t, "promotions", snap[t], "readRevocations")

BackupRevocations(t) ==
    /\ pc[t] = "readRevocations"
    /\ BackupRead(t, "revocations", snap[t], "readQuarantines")

BackupQuarantines(t) ==
    /\ pc[t] = "readQuarantines"
    /\ BackupRead(t, "quarantines", snap[t], "truncate")

(* runBackup then writes the image with os.WriteFile: truncate, write.     *)
TruncateBackup(t) ==
    /\ pc[t] = "truncate"
    /\ backup' = Garbage
    /\ Goto(t, "dump")
    /\ UNCHANGED <<disk, call, todo, snap, unlinked, answer, invokedAt, now,
                   bounds, owed>>

WriteBackup(t) ==
    /\ pc[t] = "dump"
    /\ backup' = snap[t]
    /\ Return(t, "ok")
    /\ UNCHANGED <<disk, unlinked, now, bounds, owed>>

-----------------------------------------------------------------------------
(* appendNDJSON: open, write, fsync.  The last step of an operation also   *)
(* releases the lock and answers.                                          *)

StepDone(t) ==
    IF Len(todo[t]) = 1
    THEN /\ owed' = Credit(call[t], snap[t])
         /\ Return(t, "ok")
    ELSE /\ todo' = [todo EXCEPT ![t] = Tail(@)]
         /\ Goto(t, "steps")
         /\ UNCHANGED <<call, snap, answer, invokedAt, owed>>

OpenFile(t) ==
    /\ pc[t] = "steps"
    /\ Head(todo[t]).do = "append"
    /\ Goto(t, "write")
    /\ unlinked' = unlinked \ {t}
    /\ UNCHANGED <<disk, backup, call, todo, snap, answer, invokedAt, now, bounds,
                   owed>>

WriteLine(t) ==
    LET k == Head(todo[t]).kind
    IN  /\ pc[t] = "write"
        /\ IF t \in unlinked
           THEN UNCHANGED disk
           ELSE /\ files' = Appended(k, Head(todo[t]).rec)
                /\ unterminated' = unterminated \ {k}
                /\ UNCHANGED synced
        /\ Goto(t, "sync")
        /\ UNCHANGED <<backup, call, todo, snap, unlinked, answer, invokedAt, now,
                       bounds, owed>>

(* The lines of file k that end in a newline.                              *)
Complete(k) == IF k \in unterminated THEN Len(files[k]) - 1 ELSE Len(files[k])

(* Mutant: f.Sync() is left out.                                           *)
FsyncSkipped(t) ==
    /\ pc[t] = "sync"
    /\ StepDone(t)
    /\ UNCHANGED <<disk, backup, unlinked, now, bounds>>

Fsync(t) ==
    LET k == Head(todo[t]).kind
    IN  /\ pc[t] = "sync"
        /\ synced' = IF t \in unlinked THEN synced
                     ELSE [synced EXCEPT ![k] = Complete(k)]
        /\ StepDone(t)
        /\ UNCHANGED <<files, unterminated, backup, unlinked, now, bounds>>

(* os.Remove: whoever has the file open goes on writing to no file at all. *)
RemoveFile(t) ==
    LET k == Head(todo[t]).kind
        orphans == {u \in Threads : /\ pc[u] \in {"write", "sync"}
                                    /\ Head(todo[u]).kind = k}
    IN  /\ pc[t] = "steps"
        /\ Head(todo[t]).do = "remove"
        /\ files' = [files EXCEPT ![k] = <<>>]
        /\ unterminated' = unterminated \ {k}
        /\ synced' = [synced EXCEPT ![k] = 0]
        /\ unlinked' = unlinked \cup orphans
        /\ StepDone(t)
        /\ UNCHANGED <<backup, now, bounds>>

-----------------------------------------------------------------------------
(* Faults.                                                                 *)

Fault == faults < MaxFaults /\ faults' = faults + 1

(* A system call fails with no effect; the operation returns its error.    *)
(* At "sync" the line is already in the file.                              *)
IOError(t) ==
    /\ Fault
    /\ pc[t] # "idle"
    /\ pc[t] = "ready" => IF call[t].op \in {"Backup", "IsRevoked", "IsQuarantined"}
                          THEN RLock(t) ELSE Lock(t)
    /\ pc[t] = "steps" => Head(todo[t]).do = "append"
    /\ Return(t, "error")
    /\ UNCHANGED <<disk, backup, unlinked, now, issued, owed>>

(* The error of os.Remove is discarded.                                    *)
RemoveFails(t) ==
    /\ Fault
    /\ pc[t] = "steps"
    /\ Head(todo[t]).do = "remove"
    /\ StepDone(t)
    /\ UNCHANGED <<disk, backup, unlinked, now, issued>>

(* A full disk: part of the line, or all of it but its newline, is written *)
(* and appendNDJSON returns the error.                                     *)
ShortWrite(t) ==
    LET k == Head(todo[t]).kind
    IN  /\ Fault
        /\ pc[t] = "write"
        /\ t \notin unlinked
        /\ \E line \in {Garbage, Head(todo[t]).rec} : files' = Appended(k, line)
        /\ unterminated' = unterminated \cup {k}
        /\ Return(t, "error")
        /\ UNCHANGED <<synced, backup, unlinked, now, issued, owed>>

(* The threads in T are gone, their locks with them; nobody gets an answer.*)
Kill(T) ==
    /\ pc' = [t \in Threads |-> IF t \in T THEN "idle" ELSE pc[t]]
    /\ call' = [t \in Threads |-> IF t \in T THEN NoCall ELSE call[t]]
    /\ todo' = [t \in Threads |-> IF t \in T THEN <<>> ELSE todo[t]]
    /\ snap' = [t \in Threads |-> IF t \in T THEN Garbage ELSE snap[t]]
    /\ invokedAt' = [t \in Threads |-> IF t \in T THEN 0 ELSE invokedAt[t]]
    /\ answer' = [t \in Threads |-> IF t \in T THEN "none" ELSE answer[t]]

(* A process is killed: what it wrote survives in the page cache.          *)
Crash(p) ==
    /\ Fault
    /\ \E t \in Threads : Home[t] = p /\ pc[t] # "idle"
    /\ Kill({t \in Threads : Home[t] = p})
    /\ UNCHANGED <<disk, backup, unlinked, now, issued, owed>>

(* Power failure: of each file a prefix that holds every synced line is    *)
(* left, the line after it perhaps in part or without its newline.         *)
Cut(k, n, tail) ==
    LET kept == SubSeq(files[k], 1, n)
    IN  IF tail = "clean" THEN kept
        ELSE Append(kept, IF tail = "torn" THEN Garbage ELSE files[k][n + 1])

PowerFail ==
    LET dirty == {k \in Kinds : synced[k] < Len(files[k])}
        sizes == UNION {0 .. Len(files[k]) : k \in dirty}
    IN  /\ Fault
        /\ \E n \in [dirty -> sizes], tail \in [dirty -> {"clean", "torn", "newline"}] :
              /\ \A k \in dirty :
                    /\ n[k] \in synced[k] .. Complete(k)
                    /\ tail[k] # "clean" => n[k] < Len(files[k])
              /\ files' = [k \in Kinds |-> IF k \in dirty THEN Cut(k, n[k], tail[k])
                                                          ELSE files[k]]
              /\ unterminated' = {k \in dirty : tail[k] # "clean"}
              /\ synced' = [k \in Kinds |-> IF k \in dirty THEN n[k] ELSE synced[k]]
        /\ backup' \in {backup, Garbage}
        /\ Kill(Threads)
        /\ UNCHANGED <<unlinked, now, issued, owed>>

-----------------------------------------------------------------------------

Tick == /\ now < MaxTime
        /\ now' = now + 1
        /\ UNCHANGED <<disk, backup, thread, bounds, owed>>

(* The bound on calls is reached and every call has returned.              *)
Finished == /\ issued = MaxCalls
            /\ \A t \in Threads : pc[t] = "idle"
            /\ UNCHANGED vars

Init ==
    /\ files = [k \in Kinds |-> <<>>]
    /\ unterminated = {}
    /\ synced = [k \in Kinds |-> 0]
    /\ backup = Garbage
    /\ pc = [t \in Threads |-> "idle"]
    /\ call = [t \in Threads |-> NoCall]
    /\ todo = [t \in Threads |-> <<>>]
    /\ snap = [t \in Threads |-> Garbage]
    /\ unlinked = {}
    /\ answer = [t \in Threads |-> "none"]
    /\ invokedAt = [t \in Threads |-> 0]
    /\ now = 1
    /\ issued = 0
    /\ faults = 0
    /\ owed = [k \in Kinds |-> {}]

(* The start of an operation: it acquires the mutex.                       *)
Enter(t) ==
    \/ SaveDecision(t) \/ Promote(t)       \/ Revoke(t)
    \/ Quarantine(t)   \/ Unquarantine(t)  \/ IsRevoked(t)
    \/ Backup(t)       \/ Restore(t)       \/ IsQuarantined(t)

(* What follows does not wait for anybody.                                 *)
Proceed(t) ==
    \/ PromoteCheckRevocations(t) \/ PromoteCheckQuarantines(t)
    \/ BackupPromotions(t) \/ BackupRevocations(t) \/ BackupQuarantines(t)
    \/ TruncateBackup(t) \/ WriteBackup(t)
    \/ OpenFile(t) \/ WriteLine(t) \/ Fsync(t) \/ RemoveFile(t)

Next ==
    \/ \E t \in Threads : \/ Invoke(t) \/ Enter(t) \/ Proceed(t)
                          \/ IOError(t) \/ RemoveFails(t) \/ ShortWrite(t)
    \/ \E p \in Procs : Crash(p)
    \/ PowerFail
    \/ Tick
    \/ Finished

Spec == Init /\ [][Next]_vars

(* A Go RWMutex does not starve a waiter, and a thread inside the critical *)
(* section is scheduled until it leaves.                                   *)
Fairness == \A t \in Threads : SF_vars(Enter(t)) /\ WF_vars(Proceed(t))

FairSpec == Spec /\ Fairness

-----------------------------------------------------------------------------
(* Properties.                                                             *)

Outside == {"idle", "ready", "truncate", "dump"}

Updates == {"SaveDecision", "Promote", "Revoke", "Quarantine", "Unquarantine", "Restore"}

(* The operations a thread may be executing in each state.                 *)
Operations(s) ==
    IF s \in {"checkRevocations", "checkQuarantines"} THEN {"Promote"}
    ELSE IF s \in {"readPromotions", "readRevocations", "readQuarantines",
                   "truncate", "dump"} THEN {"Backup"}
    ELSE IF s \in {"steps", "write", "sync"} THEN Updates
    ELSE Updates \cup {"Backup", "IsRevoked", "IsQuarantined"}

Consistent(t) ==
    /\ call[t] = NoCall <=> pc[t] = "idle"
    /\ todo[t] # <<>> <=> pc[t] \in {"steps", "write", "sync"}
    /\ pc[t] \in {"write", "sync"} => Head(todo[t]).do = "append"
    /\ pc[t] # "idle" => call[t].op \in Operations(pc[t])
    /\ pc[t] # "idle" /\ pc[t] # "ready" /\ call[t].op \in {"Backup", "Restore"}
       => snap[t] # Garbage

Steps == {s \in [do : {"remove", "append"}, kind : Kinds, rec : Records \cup {Garbage}] :
             s.rec \in Line(s.kind)}

DiskOK ==
    /\ files \in [Kinds -> Seq(Records \cup {Garbage})]
    /\ unterminated \subseteq Kinds
    /\ synced \in [Kinds -> Nat]
    /\ backup \in Images \cup {Garbage}
    /\ \A k \in Kinds : /\ files[k] \in Seq(Line(k))
                        /\ synced[k] \in 0 .. Complete(k)

ThreadsOK ==
    /\ pc \in [Threads -> Outside \cup Inside]
    /\ call \in [Threads -> Calls \cup {NoCall}]
    /\ todo \in [Threads -> Seq(Steps)]
    /\ snap \in [Threads -> Images \cup {Garbage}]
    /\ unlinked \subseteq Threads
    /\ answer \in [Threads -> {"none", "ok", "error", "yes", "no"}]
    /\ \A t \in Threads : Consistent(t)

HistoryOK ==
    /\ now \in Times
    /\ invokedAt \in [Threads -> {0} \cup Times]
    /\ \A t \in Threads : invokedAt[t] <= now
    /\ issued \in 0 .. MaxCalls
    /\ faults \in 0 .. MaxFaults
    /\ owed \in [Kinds -> SUBSET Records]
    /\ \A k \in Kinds : owed[k] \subseteq Shape(k)

(* Every variable has its type, and each file holds only its own kind of   *)
(* record; only complete lines count as synced; a thread updates the files *)
(* exactly while it has updates left, and is in no step of an operation    *)
(* other than its own.                                                     *)
TypeOK == DiskOK /\ ThreadsOK /\ HistoryOK

(* The records of kind k once the updates under way are finished.          *)
Pending(k) == {s \in UNION {Range(todo[t]) : t \in Threads} : s.kind = k}

Effective(k) ==
    (IF Remove(k) \in Pending(k) THEN {} ELSE Contents(k))
    \cup {s.rec : s \in {w \in Pending(k) : w.do = "append"}}

(* sync.RWMutex: in one process a thread that updates the files is alone   *)
(* in the critical section.                                                *)
MutualExclusion ==
    \A t, u \in Threads :
        Home[t] = Home[u] /\ Writer(t) /\ pc[u] \in Inside => t = u

(* A promotion the checks have admitted and that has not reached its file. *)
Admitted(t) == pc[t] \in {"steps", "write"} /\ call[t].op = "Promote"

(* file.go Promote: until its line is written, the decision a promotion    *)
(* rests on is on file and was not expired when the call was made, and no  *)
(* revocation or quarantine on file concerns it.                           *)
PromotionIsAdmissible ==
    \A t \in Threads : Admitted(t) =>
        LET p == call[t].rec
        IN  /\ \E d \in Contents("decisions") :
                  d.id = p.decision /\ Supports(d, p) /\ ~Expired(d, invokedAt[t])
            /\ \A k \in {"revocations", "quarantines"} :
                  \A r \in Contents(k) : ~AppliesTo(r, p.digest, p.env)

(* README "fail-closed": whatever system call failed, whatever was killed  *)
(* and whenever power was lost, no promotion goes ahead against a          *)
(* revocation that was once acknowledged.                                  *)
NoPromotionPastRevocation ==
    \A t \in Threads : Admitted(t) =>
        \A r \in owed["revocations"] :
            ~AppliesTo(r, call[t].rec.digest, call[t].rec.env)

StillThere(k) == ~Readable(k) \/ owed[k] \subseteq Effective(k)

(* "fsync-backed NDJSON audit files": a record that was acknowledged and   *)
(* not withdrawn is in its file, or the file no longer reads at all and    *)
(* every check that depends on it fails closed.                            *)
NothingOwedIsLost == \A k \in Kinds : StillThere(k)

(* The same of the files nothing but Restore ever removes.                 *)
AppendOnlyFilesKeepTheirRecords ==
    \A k \in {"decisions", "promotions", "revocations"} : StillThere(k)

(* A negative answer of IsRevoked means that no acknowledged revocation    *)
(* names the queried environment.                                          *)
NotRevokedIsSound ==
    [][\A t \in Threads :
          Called(t, "IsRevoked") /\ answer'[t] = "no"
          => ~\E r \in owed["revocations"] :
                 r.digest = call[t].digest /\ r.env = call[t].env]_vars

(* README "across environments": nor one that names every environment.     *)
NotRevokedAnywhereIsSound ==
    [][\A t \in Threads :
          Called(t, "IsRevoked") /\ answer'[t] = "no"
          => ~\E r \in owed["revocations"] :
                 AppliesTo(r, call[t].digest, call[t].env)]_vars

(* A negative answer of IsQuarantined means that no acknowledged           *)
(* quarantine, for this or for every environment, is in force.             *)
NotQuarantinedIsSound ==
    [][\A t \in Threads :
          Called(t, "IsQuarantined") /\ answer'[t] = "no"
          => ~\E q \in owed["quarantines"] :
                 AppliesTo(q, call[t].digest, call[t].env)]_vars

(* A backup is one moment of the store: each promotion in it comes with    *)
(* the decision it rests on.                                               *)
BackupIsClosed ==
    backup # Garbage =>
        \A p \in Range(backup["promotions"]) :
            \E d \in Range(backup["decisions"]) : d.id = p.decision /\ Supports(d, p)

(* When Restore answers "ok" the files hold exactly what the backup held,  *)
(* line for line.                                                          *)
RestoreIsExact ==
    [][\A t \in Threads :
          pc[t] \in Inside /\ call[t].op = "Restore" /\ answer'[t] = "ok"
          => files' = snap[t]]_vars

(* Every call comes back to its caller.                                    *)
CallsReturn == \A t \in Threads : pc[t] # "idle" ~> pc[t] = "idle"
=============================================================================
