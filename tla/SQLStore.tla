------------------------------ MODULE SQLStore ------------------------------
(***************************************************************************)
(* internal/store/postgres.go on a PostgreSQL database that is migrated as *)
(* it is opened.  A client is a goroutine of a server or a command; every  *)
(* process has a connection pool of its own, so clients meet only in the   *)
(* tables.                                                                 *)
(*                                                                         *)
(* A statement is one step.  The database runs at READ COMMITTED, its      *)
(* default: a statement sees what was committed when it began, a DELETE    *)
(* waits for rows another transaction has deleted, an INSERT waits for a   *)
(* key another transaction holds.  Only Restore has a transaction of more  *)
(* than one statement, and one client at most restores.                    *)
(***************************************************************************)
EXTENDS GovernanceRecords, Migrations

CONSTANTS
    RowIDs,    \* identifiers of promotions and revocations
    Menu,      \* the calls each client may make
    NoCall,
    NoImage,   \* a backup file that does not parse
    MaxCalls,  \* bound on the calls made
    MaxFaults  \* bound on failing statements and clients killed

(* The rows of table k: the records with their PRIMARY KEY.  A caller may  *)
(* choose the id of a promotion, revocation or quarantine; one that is     *)
(* drawn at random is one that nobody chooses.  Evaluate draws the id of   *)
(* every decision; the interface takes any.                                *)
Rows(k) ==
    [decisions   |-> Decisions,
     promotions  |-> [id : RowIDs, decision : DecisionIDs \cup {NoDecision},
                      digest : Digests, env : Envs],
     revocations |-> [id : RowIDs, digest : Digests, env : Envs \cup {AnyEnv}],
     quarantines |-> Quarantines][k]

Calls ==
         [op : {"SaveDecision"}, rec : Rows("decisions")]
    \cup [op : {"Promote"},      rec : Rows("promotions")]
    \cup [op : {"Revoke"},       rec : Rows("revocations")]
    \cup [op : {"Quarantine"},   rec : Rows("quarantines")]
    \cup [op : {"Unquarantine"}, key : QuarantineIDs \cup Digests]
    \cup [op : {"Backup", "Restore"}]

(* Revocations and quarantines have the same fields; their ids differ, as  *)
(* those of two tables.                                                    *)
ASSUME SQLStoreAssumption ==
    /\ RowIDs \cap QuarantineIDs = {}
    /\ Menu \in [Clients -> SUBSET Calls]
    /\ \A c, d \in Clients :
          [op |-> "Restore"] \in Menu[c] \cap Menu[d] => c = d
    /\ NoCall \notin Calls
    /\ MaxCalls \in Nat
    /\ MaxFaults \in Nat

VARIABLES
    db,        \* the committed rows of each table
    gone,      \* the rows the open transaction of Restore has deleted
    archive,   \* the backup file of the command line
    pc, call,
    stage,     \* how many tables a Backup or Restore is done with
    image,     \* the backup a client is taking or restoring
    seen,      \* the rows a DELETE has chosen
    past,      \* history: the rows when the client's Backup was called
    blocks,    \* history: per client, the kinds of block in force against its
               \* promotion ever since the call
    replaced,  \* history: a Restore has been committed
    now, issued, faults

client == <<pc, call, stage, image, past>>
vars   == <<db, gone, archive, client, seen, blocks, replaced, now, migration, issued,
            faults>>

(* Backup, Restore and the DELETE of Restore go through the tables so.     *)
Tables == <<"decisions", "promotions", "revocations", "quarantines">>

NoRows == [k \in Kinds |-> {}]

-----------------------------------------------------------------------------
(* Statements.                                                             *)

(* Mutant: WHERE digest = $1 AND environment = $2.                         *)
IsRevokedHere(d, e) == \E r \in db["revocations"] : r.digest = d /\ r.env = e

IsRevoked(d, e) == \E r \in db["revocations"] : AppliesTo(r, d, e)

IsQuarantined(d, e) == \E q \in db["quarantines"] : AppliesTo(q, d, e)

(* The lists, for one environment or with AnyEnv for all.                  *)
GetDecisions == db["decisions"]

GetPromotions(e) == {p \in db["promotions"] : e = AnyEnv \/ p.env = e}

(* Mutant: the empty environment, too, goes into the WHERE clause.         *)
GetRevocationsWhere(e) == {r \in db["revocations"] : r.env = e}

GetRevocations(e) == {r \in db["revocations"] : e = AnyEnv \/ r.env = e}

GetQuarantines(e) == {q \in db["quarantines"] : e = AnyEnv \/ q.env \in {AnyEnv, e}}

(* One of the rows S is a row of table k with the key of r.                *)
Taken(k, r, S) == \E s \in S \cap Rows(k) : s.id = r.id

(* What Restore has inserted and not committed.                            *)
Inserted == UNION {UNION {image[c][Tables[i]] : i \in 1 .. stage[c]} :
                      c \in {d \in Clients : pc[d] \in {"insert", "commit"}}}

(* No other transaction holds the key of r.                                *)
Free(k, r) == ~Taken(k, r, gone \cup Inserted)

Against(rows, c) ==
    {k \in {"revocations", "quarantines"} :
        /\ c # NoCall
        /\ c.op = "Promote"
        /\ \E r \in rows[k] : AppliesTo(r, c.rec.digest, c.rec.env)}

(* The committed rows become these.                                        *)
Put(rows) ==
    /\ db' = rows
    /\ blocks' = [c \in Clients |-> blocks[c] \cap Against(rows, call'[c])]

Goto(c, s) == pc' = [pc EXCEPT ![c] = s]

Return(c) ==
    /\ Goto(c, "idle")
    /\ call' = [call EXCEPT ![c] = NoCall]
    /\ stage' = [stage EXCEPT ![c] = 0]
    /\ image' = [image EXCEPT ![c] = NoImage]
    /\ past' = [past EXCEPT ![c] = NoRows]

(* An answer that leaves the tables alone.                                 *)
Answer(c) ==
    /\ Return(c)
    /\ Put(db)
    /\ UNCHANGED <<gone, archive, seen, replaced, now, migration, issued, faults>>

(* A committed INSERT.  A key that is taken is an error, or with ON        *)
(* CONFLICT DO NOTHING no change.                                          *)
Insert(c, k) ==
    LET r == call[c].rec
    IN  /\ Free(k, r)
        /\ \/ /\ ~Taken(k, r, db[k])
              /\ Return(c)
              /\ Put([db EXCEPT ![k] = @ \cup {r}])
              /\ UNCHANGED <<gone, archive, seen, replaced, now, migration, issued,
                             faults>>
           \/ Taken(k, r, db[k]) /\ Answer(c)

Step(c, s) ==
    /\ Goto(c, s)
    /\ UNCHANGED <<db, gone, archive, call, stage, image, past, seen, blocks,
                   replaced, now, migration, issued, faults>>

Called(c, op) == pc[c] = "ready" /\ call[c].op = op

(* runRestore reads the backup file before it opens the database.          *)
Invoke(c) ==
    /\ pc[c] = "idle"
    /\ At(c, "open")
    /\ issued < MaxCalls
    /\ \E m \in Menu[c] :
          /\ call' = [call EXCEPT ![c] = m]
          /\ image' = [image EXCEPT ![c] = CASE m.op = "Restore" -> archive
                                             [] m.op = "Backup"  -> NoRows
                                             [] OTHER            -> NoImage]
          /\ past' = [past EXCEPT ![c] = IF m.op = "Backup" THEN db ELSE NoRows]
          /\ blocks' = [blocks EXCEPT ![c] = Against(db, m)]
    /\ Goto(c, "ready")
    /\ issued' = issued + 1
    /\ UNCHANGED <<db, gone, archive, stage, seen, replaced, now, migration, faults>>

-----------------------------------------------------------------------------
(* The operations.                                                         *)

(* Mutant: ON CONFLICT (decision_id) DO UPDATE.                            *)
SaveDecisionOver(c) ==
    LET d == call[c].rec
    IN  /\ Called(c, "SaveDecision")
        /\ Free("decisions", d)
        /\ Return(c)
        /\ Put([db EXCEPT !["decisions"] = {e \in @ : e.id # d.id} \cup {d}])
        /\ UNCHANGED <<gone, archive, seen, replaced, now, migration, issued, faults>>

SaveDecision(c) == Called(c, "SaveDecision") /\ Insert(c, "decisions")

Revoke(c) == Called(c, "Revoke") /\ Insert(c, "revocations")

Quarantine(c) == Called(c, "Quarantine") /\ Insert(c, "quarantines")

(* The row of that decision_id, and the tests made of it.                  *)
Decided(p) ==
    \E d \in db["decisions"] : d.id = p.decision /\ Supports(d, p) /\ ~Expired(d, now)

Promote(c) ==
    /\ Called(c, "Promote")
    /\ \/ Decided(call[c].rec) /\ Step(c, "checkRevocations")
       \/ ~Decided(call[c].rec) /\ Answer(c)

PromoteCheckRevocations(c) ==
    LET revoked == IsRevoked(call[c].rec.digest, call[c].rec.env)
    IN  /\ pc[c] = "checkRevocations"
        /\ \/ ~revoked /\ Step(c, "checkQuarantines")
           \/ revoked /\ Answer(c)

PromoteCheckQuarantines(c) ==
    LET quarantined == IsQuarantined(call[c].rec.digest, call[c].rec.env)
    IN  /\ pc[c] = "checkQuarantines"
        /\ \/ ~quarantined /\ Step(c, "record")
           \/ quarantined /\ Answer(c)

PromoteInsert(c) == pc[c] = "record" /\ Insert(c, "promotions")

(* DELETE ... WHERE id = $1 OR digest = $1: it chooses its rows and then   *)
(* waits for those that another transaction has deleted.                   *)
Unquarantine(c) ==
    /\ Called(c, "Unquarantine")
    /\ Goto(c, "delete")
    /\ seen' = [seen EXCEPT ![c] = {q \in db["quarantines"] :
                                       call[c].key \in {q.id, q.digest}}]
    /\ UNCHANGED <<db, gone, archive, call, stage, image, past, blocks, replaced,
                   now, migration, issued, faults>>

UnquarantineDelete(c) ==
    /\ pc[c] = "delete"
    /\ seen[c] \cap gone = {}
    /\ Return(c)
    /\ Put([db EXCEPT !["quarantines"] = @ \ seen[c]])
    /\ seen' = [d \in Clients |-> IF d = c THEN {} ELSE seen[d] \ seen[c]]
    /\ UNCHANGED <<gone, archive, replaced, now, migration, issued, faults>>

(* Four SELECTs without a common snapshot.                                 *)
Backup(c) ==
    LET k == Tables[stage[c] + 1]
        rows == CASE k = "decisions"   -> GetDecisions
                  [] k = "promotions"  -> GetPromotions(AnyEnv)
                  [] k = "revocations" -> GetRevocations(AnyEnv)
                  [] k = "quarantines" -> GetQuarantines(AnyEnv)
    IN  /\ Called(c, "Backup")
        /\ image' = [image EXCEPT ![c][k] = rows]
        /\ stage' = [stage EXCEPT ![c] = @ + 1]
        /\ Goto(c, IF stage[c] = 3 THEN "truncate" ELSE "ready")
        /\ UNCHANGED <<db, gone, archive, call, past, seen, blocks, replaced, now,
                       migration, issued, faults>>

(* runBackup: os.WriteFile truncates, then writes.                         *)
TruncateBackup(c) ==
    /\ pc[c] = "truncate"
    /\ archive' = NoImage
    /\ Goto(c, "dump")
    /\ UNCHANGED <<db, gone, call, stage, image, past, seen, blocks, replaced, now,
                   migration, issued, faults>>

WriteBackup(c) ==
    /\ pc[c] = "dump"
    /\ archive' = image[c]
    /\ Return(c)
    /\ Put(db)
    /\ UNCHANGED <<gone, seen, replaced, now, migration, issued, faults>>

-----------------------------------------------------------------------------
(* Restore: four DELETEs and the INSERTs of each table in a transaction.   *)

Restore(c) ==
    /\ Called(c, "Restore")
    /\ \/ image[c] = NoImage /\ Answer(c)
       \/ image[c] # NoImage /\ Step(c, "deleteAll")

(* Mutant: the statements do not go through tx.                            *)
RestoreDeleteOutside(c) ==
    LET k == Tables[stage[c] + 1]
    IN  /\ pc[c] = "deleteAll"
        /\ stage' = [stage EXCEPT ![c] = (@ + 1) % 4]
        /\ Goto(c, IF stage[c] = 3 THEN "insert" ELSE "deleteAll")
        /\ UNCHANGED <<gone, archive, call, image, past, seen, replaced, now, migration, issued,
                       faults>>
        /\ Put([db EXCEPT ![k] = {}])

RestoreDelete(c) ==
    LET k == Tables[stage[c] + 1]
    IN  /\ pc[c] = "deleteAll"
        /\ gone' = gone \cup db[k]
        /\ stage' = [stage EXCEPT ![c] = (@ + 1) % 4]
        /\ Goto(c, IF stage[c] = 3 THEN "insert" ELSE "deleteAll")
        /\ UNCHANGED <<db, archive, call, image, past, seen, blocks, replaced, now,
                       migration, issued, faults>>

(* Mutant: without the deferred Rollback the transaction stays open.       *)
RollbackForgotten(c) ==
    /\ Return(c)
    /\ Put(db)
    /\ UNCHANGED <<gone, archive, seen, replaced, now, issued>>

(* The deferred Rollback.                                                  *)
Rollback(c) ==
    /\ Return(c)
    /\ Put(db)
    /\ gone' = {}
    /\ UNCHANGED <<archive, seen, replaced, now, issued>>

(* A row that was committed since the DELETE may have the key of one of    *)
(* the backup.                                                             *)
RestoreInsert(c) ==
    LET k == Tables[stage[c] + 1]
        clash == \E r \in image[c][k] : Taken(k, r, db[k] \ gone)
    IN  /\ pc[c] = "insert"
        /\ \/ /\ ~clash
              /\ stage' = [stage EXCEPT ![c] = @ + 1]
              /\ Goto(c, IF stage[c] = 3 THEN "commit" ELSE "insert")
              /\ UNCHANGED <<db, gone, archive, call, image, past, seen, blocks,
                             replaced, now, migration, issued, faults>>
           \/ clash /\ Rollback(c) /\ UNCHANGED <<migration, faults>>

Commit(c) ==
    /\ pc[c] = "commit"
    /\ Return(c)
    /\ Put([k \in Kinds |-> (db[k] \ gone) \cup image[c][k]])
    /\ gone' = {}
    /\ seen' = [d \in Clients |-> seen[d] \ gone]
    /\ replaced' = TRUE
    /\ UNCHANGED <<archive, now, migration, issued, faults>>

-----------------------------------------------------------------------------
(* A statement fails or the client is killed, which then has to open the   *)
(* database anew; a transaction it has open is rolled back.                *)
Abort(c) ==
    /\ opening[c] # Closed
    /\ At(c, "open") => pc[c] # "idle"
    /\ faults < MaxFaults
    /\ faults' = faults + 1
    /\ UNCHANGED schema
    /\ \/ opening' = [opening EXCEPT ![c] = Closed]
       \/ At(c, "open") /\ UNCHANGED opening
    /\ \/ call[c] = [op |-> "Restore"] /\ Rollback(c)
       \/ /\ call[c] # [op |-> "Restore"]
          /\ Return(c)
          /\ Put(db)
          /\ seen' = [seen EXCEPT ![c] = {}]
          /\ UNCHANGED <<gone, archive, replaced, now, issued>>

(* A step of NewSQLStore.                                                  *)
Open(c) ==
    /\ Opening(c)
    /\ UNCHANGED <<db, gone, archive, client, seen, blocks, replaced, now, issued, faults>>

Tick ==
    /\ now < MaxTime
    /\ now' = now + 1
    /\ UNCHANGED <<db, gone, archive, client, seen, blocks, replaced, migration, issued, faults>>

(* The bound on calls is reached and every call has returned.              *)
Finished == /\ issued = MaxCalls
            /\ \A c \in Clients : pc[c] = "idle"
            /\ UNCHANGED vars

Init ==
    /\ db = NoRows
    /\ gone = {}
    /\ archive = NoImage
    /\ pc = [c \in Clients |-> "idle"]
    /\ call = [c \in Clients |-> NoCall]
    /\ stage = [c \in Clients |-> 0]
    /\ image = [c \in Clients |-> NoImage]
    /\ seen = [c \in Clients |-> {}]
    /\ past = [c \in Clients |-> NoRows]
    /\ blocks = [c \in Clients |-> {}]
    /\ replaced = FALSE
    /\ now = 1
    /\ issued = 0
    /\ faults = 0
    /\ MigrationInit

Next ==
    \/ \E c \in Clients :
          \/ Open(c) \/ Invoke(c) \/ Abort(c)
          \/ SaveDecision(c) \/ Revoke(c) \/ Quarantine(c)
          \/ Promote(c) \/ PromoteCheckRevocations(c) \/ PromoteCheckQuarantines(c)
          \/ PromoteInsert(c)
          \/ Unquarantine(c) \/ UnquarantineDelete(c)
          \/ Backup(c) \/ TruncateBackup(c) \/ WriteBackup(c)
          \/ Restore(c) \/ RestoreDelete(c) \/ RestoreInsert(c) \/ Commit(c)
    \/ Tick
    \/ Finished

Spec == Init /\ [][Next]_vars

-----------------------------------------------------------------------------
(* Properties.                                                             *)

AppendOnly == {"decisions", "promotions", "revocations"}

(* Every variable has its type; a key occurs once in its table; the rows   *)
(* that the open transaction has deleted are still committed ones, and     *)
(* there are none unless a Restore is under way.                           *)
TypeOK ==
    /\ \A k \in Kinds : db[k] \subseteq Rows(k)
    /\ \A k \in Kinds : \A r, s \in db[k] : r.id = s.id => r = s
    /\ gone \subseteq UNION {db[k] : k \in Kinds}
    /\ gone # {} => \E c \in Clients : pc[c] \in {"deleteAll", "insert", "commit"}
    /\ \A c \in Clients :
          /\ call[c] \in Calls \cup {NoCall}
          /\ call[c] = NoCall <=> pc[c] = "idle"
          /\ call[c] # NoCall => At(c, "open")
          /\ stage[c] \in 0 .. 4
          /\ seen[c] \subseteq db["quarantines"]
          /\ seen[c] # {} => pc[c] = "delete"
    /\ opening \in [Clients -> [step : {"closed", "count", "exec", "aborted", "record",
                                        "commit", "open"}, version : migrations]]
    /\ schema \in [made : SUBSET migrations, recorded : SUBSET migrations]
    /\ now \in Times
    /\ issued \in 0 .. MaxCalls
    /\ faults \in 0 .. MaxFaults

(* Whatever other replicas do meanwhile, SQLStore.Promote never records a  *)
(* promotion of an artifact that was revoked, or quarantined, throughout   *)
(* the call.                                                               *)
PromotionIsTimely == \A c \in Clients : pc[c] = "record" => blocks[c] = {}

(* Until a backup is restored, the decision a promotion rests on stays on  *)
(* record as it was when the promotion was admitted: an ALLOW for the same *)
(* artifact and environment.                                               *)
PromotionHasItsDecision ==
    ~replaced => \A p \in db["promotions"] :
                    \E d \in db["decisions"] : d.id = p.decision /\ Supports(d, p)

(* A backup lacks no decision, promotion or revocation that was on record  *)
(* when it was called, unless a Restore has replaced the tables.           *)
BackupHoldsThePast ==
    \A c \in Clients :
        pc[c] \in {"truncate", "dump"} /\ ~replaced
        => \A k \in AppendOnly : past[c][k] \subseteq image[c][k]

(* Rows disappear only in two ways: quarantines by an Unquarantine that    *)
(* names them, and everything at once when Restore commits, after which    *)
(* the tables hold all of the backup.  A Restore that fails changes        *)
(* nothing.                                                                *)
RestoreIsAtomic ==
    [][\A k \in Kinds : db[k] \ db'[k] # {} =>
          \E c \in Clients :
             \/ /\ pc[c] = "delete"
                /\ k = "quarantines"
                /\ \A q \in db[k] \ db'[k] : call[c].key \in {q.id, q.digest}
             \/ /\ pc[c] = "commit" /\ pc'[c] = "idle"
                /\ \A j \in Kinds : image[c][j] \subseteq db'[j]]_vars
=============================================================================
