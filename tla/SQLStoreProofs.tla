--------------------------- MODULE SQLStoreProofs ---------------------------
(***************************************************************************)
(* Theorems about SQLStore for any number of clients, any calls and any    *)
(* bound on faults.                                                        *)
(***************************************************************************)
EXTENDS SQLStore, TLAPS

(* The schema.  A client is past a migration only when the database is,    *)
(* whoever made it: a record of a migration is committed with its tables.  *)
SchemaOK ==
    /\ schema = [made |-> schema.made, recorded |-> schema.recorded]
    /\ schema.made \subseteq migrations
    /\ opening \in [Clients -> [step : {"closed", "count", "exec", "aborted", "record",
                                        "commit", "open"}, version : migrations]]
    /\ schema.made = schema.recorded
    /\ \A c \in Clients :
          /\ opening[c].version = 2 => 1 \in schema.made
          /\ At(c, "open") => opening[c].version = 2 /\ 2 \in schema.made

LEMMA SchemaInit == MigrationInit => SchemaOK
  BY MigrationsAssumption
     DEF MigrationInit, SchemaOK, Closed, At, migrations

(* The schema only grows, and a client moves on with what it has seen.     *)
LEMMA SchemaStays ==
    ASSUME SchemaOK,
           \/ UNCHANGED migration
           \/ \E c \in Clients : Opening(c)
           \/ UNCHANGED schema /\ \E c \in Clients : opening' = [opening EXCEPT ![c] = Closed]
    PROVE  SchemaOK'
<1> USE DEF SchemaOK, At, migrations
<1>1. CASE UNCHANGED migration
  BY <1>1 DEF migration
<1>2. ASSUME NEW c \in Clients, UNCHANGED schema, opening' = [opening EXCEPT ![c] = Closed]
      PROVE  SchemaOK'
  BY <1>2 DEF Closed
<1>3. ASSUME NEW c \in Clients, Opening(c)
      PROVE  SchemaOK'
  <2> DEFINE v == opening[c].version
  <2>1. CASE NewSQLStore(c)
    BY <2>1 DEF NewSQLStore, Enter
  <2>2. CASE MigrateCount(c)
    BY <2>2 DEF MigrateCount, Proceed, After, Enter, Count
  <2>3. CASE MigrateExec(c)
    BY <2>3, <1>2 DEF MigrateExec, Proceed, Enter, Fail
  <2>4. CASE MigrateAborted(c)
    BY <2>4, <1>2 DEF MigrateAborted, Fail
  <2>5. CASE MigrateRecord(c)
    BY <2>5, <1>2 DEF MigrateRecord, Proceed, Enter, Fail
  <2>6. CASE MigrateCommit(c)
    BY <2>6 DEF MigrateCommit, After, Enter
  <2> QED
    BY <1>3, <2>1, <2>2, <2>3, <2>4, <2>5, <2>6 DEF Opening
<1> QED
  BY <1>1, <1>2, <1>3

(* What Next does to the schema.                                           *)
LEMMA NextSchema ==
    ASSUME [Next]_vars
    PROVE  \/ UNCHANGED migration
           \/ \E c \in Clients : Opening(c)
           \/ UNCHANGED schema /\ \E c \in Clients : opening' = [opening EXCEPT ![c] = Closed]
<1>1. CASE UNCHANGED vars \/ Finished \/ Tick
  BY <1>1 DEF vars, Finished, Tick
<1>2. ASSUME NEW c \in Clients, Abort(c)
      PROVE  \/ UNCHANGED migration
             \/ UNCHANGED schema /\ opening' = [opening EXCEPT ![c] = Closed]
  BY <1>2 DEF Abort, migration
<1>3. ASSUME NEW c \in Clients,
             \/ SaveDecision(c) \/ Revoke(c) \/ Quarantine(c) \/ Promote(c)
             \/ PromoteCheckRevocations(c) \/ PromoteCheckQuarantines(c) \/ PromoteInsert(c)
             \/ Unquarantine(c) \/ UnquarantineDelete(c) \/ Invoke(c)
      PROVE  UNCHANGED migration
  BY <1>3 DEF SaveDecision, Revoke, Quarantine, Promote, PromoteCheckRevocations,
              PromoteCheckQuarantines, PromoteInsert, Unquarantine, UnquarantineDelete,
              Invoke, Insert, Answer, Step
<1>4. ASSUME NEW c \in Clients,
             \/ Backup(c) \/ TruncateBackup(c) \/ WriteBackup(c) \/ Restore(c)
             \/ RestoreDelete(c) \/ RestoreInsert(c) \/ Commit(c)
      PROVE  UNCHANGED migration
  BY <1>4 DEF Backup, TruncateBackup, WriteBackup, Restore, RestoreDelete,
              RestoreInsert, Commit, Answer, Step
<1> QED
  BY <1>1, <1>2, <1>3, <1>4 DEF Next, Open

LEMMA SchemaAlways == Spec => []SchemaOK
<1>1. Init => SchemaOK
  BY SchemaInit DEF Init
<1>2. SchemaOK /\ [Next]_vars => SchemaOK'
  BY SchemaStays, NextSchema
<1> QED
  BY <1>1, <1>2, PTL DEF Spec

(* NewSQLStore: a process that got its store finds all tables.             *)
THEOREM OpenTheorem == Spec => []OpenIsMigrated
<1>1. SchemaOK => OpenIsMigrated
  BY DEF SchemaOK, OpenIsMigrated, migrations
<1> QED
  BY SchemaAlways, <1>1, PTL

-----------------------------------------------------------------------------
(* The tables.                                                             *)

(* p rests on a decision on record.                                        *)
Held(p) == \E d \in db["decisions"] : d.id = p.decision /\ Supports(d, p)

PerClient(f) == f = [c \in Clients |-> f[c]]

Functions == /\ db = [k \in Kinds |-> db[k]]
             /\ PerClient(pc) /\ PerClient(call) /\ PerClient(stage)
             /\ PerClient(image) /\ PerClient(past) /\ PerClient(seen)
             /\ PerClient(blocks)

(* A promotion under way has its decision, and the blocks in force since   *)
(* its call are among those it has yet to look for.                        *)
Promoting(c) ==
    /\ pc[c] \in {"checkRevocations", "checkQuarantines", "record"} /\ ~replaced
       => Held(call[c].rec)
    /\ blocks[c] \subseteq Against(db, call[c])
    /\ pc[c] = "checkQuarantines" => "revocations" \notin blocks[c]
    /\ pc[c] = "record" => blocks[c] = {}

(* A deletion under way has chosen what its call names.                    *)
Deleting(c) == pc[c] = "delete" => \A q \in seen[c] : call[c].key \in {q.id, q.digest}

(* A backup under way holds what the tables it is done with held at its    *)
(* call, and those still hold it.                                          *)
BackingUp(c) ==
    /\ pc[c] = "idle" => stage[c] = 0
    /\ pc[c] \in {"truncate", "dump"} => call[c].op = "Backup"
    /\ pc[c] \in {"ready", "truncate", "dump"} /\ call[c].op = "Backup" =>
          /\ stage[c] \in 0 .. 4
          /\ pc[c] = "ready" <=> stage[c] # 4
          /\ image[c] = [k \in Kinds |-> image[c][k]]
          /\ ~replaced =>
                /\ \A k \in AppendOnly : past[c][k] \subseteq db[k]
                /\ \A i \in 1 .. stage[c] :
                      Tables[i] \in AppendOnly
                      => past[c][Tables[i]] \subseteq image[c][Tables[i]]

ClientOK(c) == Promoting(c) /\ Deleting(c) /\ BackingUp(c)

IInv == Functions /\ PromotionHasItsDecision /\ \A c \in Clients : ClientOK(c)

LEMMA Init_IInv == Init => IInv
  BY DEF Init, IInv, Functions, PerClient, PromotionHasItsDecision, ClientOK, Promoting,
         Deleting, BackingUp, NoRows, Kinds, Against

-----------------------------------------------------------------------------

(* Rows that are only ever added, are, unless a Restore is committed.      *)
Forward ==
    /\ replaced => replaced'
    /\ ~replaced' => \A k \in AppendOnly : db[k] \subseteq db'[k]

(* The history of blocks follows the committed rows.                       *)
Followed(c) == blocks'[c] \subseteq blocks[c] \cap Against(db', call'[c])

(* Forward keeps what a client that does not move relies on.               *)
LEMMA OthersStay ==
    ASSUME NEW c \in Clients, ClientOK(c), Forward, Followed(c),
           pc'[c] = pc[c], call'[c] = call[c], stage'[c] = stage[c],
           image'[c] = image[c], past'[c] = past[c], seen'[c] \subseteq seen[c]
    PROVE  ClientOK(c)'
<1> USE DEF ClientOK
<1>1. Promoting(c)'
  BY DEF Promoting, Forward, Followed, Held, AppendOnly
<1>2. Deleting(c)'
  BY DEF Deleting
<1>3. BackingUp(c)'
  BY DEF BackingUp, Forward
<1> QED
  BY <1>1, <1>2, <1>3

(* A client that returns has nothing to rely on.                           *)
LEMMA ReturnLeaves ==
    ASSUME Functions, NEW c \in Clients, Return(c), Followed(c)
    PROVE  ClientOK(c)'
<1>1. pc'[c] = "idle" /\ call'[c] = NoCall /\ stage'[c] = 0
  BY DEF Return, Goto, Functions, PerClient
<1> QED
  BY <1>1 DEF ClientOK, Promoting, Deleting, BackingUp, Followed, Against

(* What a call of c leaves alone of the other clients.                     *)
OthersIdle(c) ==
    \A d \in Clients \ {c} :
        /\ pc'[d] = pc[d] /\ call'[d] = call[d] /\ stage'[d] = stage[d]
        /\ image'[d] = image[d] /\ past'[d] = past[d]

LEMMA ReturnAlone ==
    ASSUME Functions, NEW c \in Clients, Return(c)
    PROVE  /\ OthersIdle(c)
           /\ PerClient(pc)' /\ PerClient(call)' /\ PerClient(stage)'
           /\ PerClient(image)' /\ PerClient(past)'
  BY DEF Functions, PerClient, Return, Goto, OthersIdle

LEMMA PutFollows ==
    ASSUME Functions, NEW rows, Put(rows)
    PROVE  PerClient(blocks)' /\ \A c \in Clients : Followed(c)
  BY DEF Put, Followed, PerClient

(* A step that leaves the committed rows and the call alone.               *)
LEMMA QuietFollows ==
    ASSUME NEW c \in Clients, ClientOK(c), UNCHANGED <<db, blocks>>, call'[c] = call[c]
    PROVE  Followed(c)
  BY DEF Followed, ClientOK, Promoting

(* Once a promotion has its decision, Forward keeps it.                    *)
LEMMA DecisionsStay ==
    ASSUME PromotionHasItsDecision, Forward,
           ~replaced' => \A p \in db'["promotions"] : p \in db["promotions"] \/ Held(p)
    PROVE  PromotionHasItsDecision'
<1> SUFFICES ASSUME ~replaced', NEW p \in db'["promotions"]
             PROVE  \E d \in db'["decisions"] : d.id = p.decision /\ Supports(d, p)
  BY DEF PromotionHasItsDecision
<1>1. ~replaced
  BY DEF Forward
<1>2. Held(p)
  BY <1>1 DEF PromotionHasItsDecision, Held
<1>3. db["decisions"] \subseteq db'["decisions"]
  BY DEF Forward, AppendOnly
<1> QED
  BY <1>2, <1>3 DEF Held

(* A call that returns, having committed these rows.                       *)
LEMMA Returns ==
    ASSUME IInv, NEW c \in Clients, NEW rows, rows = [k \in Kinds |-> rows[k]],
           Return(c), Put(rows), Forward, PerClient(seen)',
           \A d \in Clients : seen'[d] \subseteq seen[d],
           ~replaced' => \A p \in rows["promotions"] : p \in db["promotions"] \/ Held(p)
    PROVE  IInv'
<1> USE DEF IInv
<1>1. db' = rows
  BY DEF Put
<1>2. Functions'
  BY <1>1, ReturnAlone, PutFollows DEF Functions
<1>3. PromotionHasItsDecision'
  BY <1>1, DecisionsStay
<1>4. ASSUME NEW d \in Clients PROVE ClientOK(d)'
  <2>1. Followed(d)
    BY PutFollows
  <2>2. CASE d = c
    BY <2>1, <2>2, ReturnLeaves
  <2>3. CASE d # c
    BY <2>1, <2>3, ReturnAlone, OthersStay DEF OthersIdle
  <2> QED
    BY <2>2, <2>3
<1> QED
  BY <1>2, <1>3, <1>4

(* A step inside a call, which commits nothing.                            *)
LEMMA Moves ==
    ASSUME IInv, NEW c \in Clients, UNCHANGED <<db, call, past, blocks, replaced>>,
           PerClient(pc)', PerClient(stage)', PerClient(image)', PerClient(seen)',
           OthersIdle(c), \A d \in Clients \ {c} : seen'[d] = seen[d],
           ClientOK(c)'
    PROVE  IInv'
<1> USE DEF IInv
<1>1. Functions'
  BY DEF Functions, PerClient
<1>2. Forward
  BY DEF Forward
<1>3. PromotionHasItsDecision'
  BY DEF PromotionHasItsDecision
<1>4. ASSUME NEW d \in Clients PROVE ClientOK(d)'
  <2>1. Followed(d)
    BY QuietFollows
  <2>2. CASE d # c
    BY <1>2, <2>1, <2>2, OthersStay DEF OthersIdle
  <2> QED
    BY <2>2
<1> QED
  BY <1>1, <1>3, <1>4

(* A statement of a promotion or restore that only goes on.                *)
LEMMA Steps ==
    ASSUME IInv, NEW c \in Clients, NEW s, Step(c, s),
           pc[c] # "idle", s \notin {"idle", "delete", "ready", "truncate", "dump"},
           s \in {"checkRevocations", "checkQuarantines", "record"} /\ ~replaced
              => Held(call[c].rec),
           s = "checkQuarantines" => "revocations" \notin blocks[c],
           s = "record" => blocks[c] = {}
    PROVE  IInv'
<1>1. /\ pc' = [pc EXCEPT ![c] = s]
      /\ UNCHANGED <<db, call, stage, image, past, seen, blocks, replaced>>
  BY DEF Step, Goto
<1>2. /\ PerClient(pc)' /\ PerClient(stage)' /\ PerClient(image)' /\ PerClient(seen)'
      /\ OthersIdle(c) /\ pc'[c] = s
  BY <1>1 DEF IInv, Functions, PerClient, OthersIdle
<1>3. Promoting(c)'
  BY <1>1, <1>2 DEF IInv, ClientOK, Promoting, Held
<1>4. Deleting(c)' /\ BackingUp(c)'
  BY <1>1, <1>2 DEF Deleting, BackingUp
<1> QED
  BY <1>1, <1>2, <1>3, <1>4, Moves DEF ClientOK

(* An answer without one.                                                  *)
LEMMA Answers ==
    ASSUME IInv, NEW c \in Clients, Return(c), Put(db), UNCHANGED replaced,
           PerClient(seen)', \A d \in Clients : seen'[d] \subseteq seen[d]
    PROVE  IInv'
<1>1. db = [j \in Kinds |-> db[j]] /\ db' = db
  BY DEF IInv, Functions, Put
<1>2. Forward
  BY <1>1 DEF Forward
<1> QED
  BY <1>1, <1>2, Returns

LEMMA AnswerKeeps == ASSUME IInv, NEW c \in Clients, Answer(c) PROVE IInv'
<1>1. Return(c) /\ Put(db) /\ UNCHANGED <<seen, replaced>>
  BY DEF Answer
<1>2. PerClient(seen)' /\ \A d \in Clients : seen'[d] \subseteq seen[d]
  BY <1>1 DEF IInv, Functions, PerClient
<1> QED
  BY <1>1, <1>2, Answers

(* An INSERT that is committed, or refused as its key is taken.            *)
LEMMA Inserts ==
    ASSUME IInv, NEW c \in Clients, NEW k \in Kinds, Insert(c, k),
           k = "promotions" /\ ~replaced => Held(call[c].rec)
    PROVE  IInv'
<1> DEFINE rows == [db EXCEPT ![k] = @ \cup {call[c].rec}]
<1>0. CASE Answer(c)
  BY <1>0, AnswerKeeps
<1>1. CASE ~Answer(c)
  <2>1. Return(c) /\ Put(rows) /\ UNCHANGED <<seen, replaced>>
    BY <1>1 DEF Insert
  <2>2. rows = [j \in Kinds |-> rows[j]] /\ db' = rows
    BY <2>1 DEF IInv, Functions, Put
  <2>3. \A j \in Kinds : db[j] \subseteq rows[j]
    BY DEF IInv, Functions
  <2>4. Forward
    BY <2>1, <2>2, <2>3 DEF Forward, AppendOnly, Kinds
  <2>5. ~replaced => \A p \in rows["promotions"] : p \in db["promotions"] \/ Held(p)
    BY DEF IInv, Functions, Kinds
  <2>6. PerClient(seen)' /\ \A d \in Clients : seen'[d] \subseteq seen[d]
    BY <2>1 DEF IInv, Functions, PerClient
  <2> HIDE DEF rows
  <2> QED
    BY <2>1, <2>2, <2>4, <2>5, <2>6, Returns
<1> QED
  BY <1>0, <1>1

-----------------------------------------------------------------------------
(* One lemma per operation.                                                *)

LEMMA InvokeKeeps == ASSUME IInv, NEW c \in Clients, Invoke(c) PROVE IInv'
<1> USE DEF IInv
<1>1. PICK m \in Menu[c] :
         /\ call' = [call EXCEPT ![c] = m]
         /\ image' = [image EXCEPT ![c] = CASE m.op = "Restore" -> archive
                                            [] m.op = "Backup"  -> NoRows
                                            [] OTHER            -> NoImage]
         /\ past' = [past EXCEPT ![c] = IF m.op = "Backup" THEN db ELSE NoRows]
         /\ blocks' = [blocks EXCEPT ![c] = Against(db, m)]
  BY Zenon DEF Invoke
<1>2. /\ pc[c] = "idle" /\ pc' = [pc EXCEPT ![c] = "ready"]
      /\ UNCHANGED <<db, stage, seen, replaced>>
  BY DEF Invoke, Goto
<1>3. m.op = "Backup" => image' = [image EXCEPT ![c] = NoRows]
  <2> SUFFICES ASSUME m.op = "Backup"
               PROVE  (CASE m.op = "Restore" -> archive [] m.op = "Backup"  -> NoRows
                         [] OTHER -> NoImage) = NoRows
    BY <1>1
  <2>1. m.op # "Restore"
    OBVIOUS
  <2> QED
    BY <2>1
<1>4. PICK pictured : image' = [image EXCEPT ![c] = pictured]
  BY <1>1
<1>5. Functions'
  BY <1>1, <1>2, <1>4 DEF Functions, PerClient
<1>6. PromotionHasItsDecision'
  BY <1>2 DEF PromotionHasItsDecision
<1>7. Forward
  BY <1>2 DEF Forward
<1>8. ClientOK(c)'
  <2>1. /\ pc'[c] = "ready" /\ call'[c] = m /\ blocks'[c] = Against(db, m)
        /\ stage'[c] = 0
        /\ m.op = "Backup" => past'[c] = db /\ image'[c] = NoRows
    BY <1>1, <1>2, <1>3 DEF Functions, PerClient, ClientOK, BackingUp
  <2>2. Promoting(c)' /\ Deleting(c)'
    BY <1>2, <2>1 DEF Promoting, Deleting, Against
  <2>3. BackingUp(c)'
    BY <1>2, <2>1 DEF BackingUp, NoRows
  <2> QED
    BY <2>2, <2>3 DEF ClientOK
<1>9. ASSUME NEW d \in Clients, d # c PROVE ClientOK(d)'
  <2>1. /\ pc'[d] = pc[d] /\ call'[d] = call[d] /\ stage'[d] = stage[d]
        /\ image'[d] = image[d] /\ past'[d] = past[d] /\ seen'[d] = seen[d]
        /\ blocks'[d] = blocks[d]
    BY <1>1, <1>2, <1>4, <1>9 DEF Functions, PerClient
  <2>2. Followed(d)
    BY <1>2, <2>1 DEF Followed, ClientOK, Promoting
  <2> QED
    BY <1>7, <2>1, <2>2, OthersStay
<1> QED
  BY <1>5, <1>6, <1>8, <1>9

LEMMA SaveDecisionKeeps ==
    ASSUME IInv, NEW c \in Clients, SaveDecision(c) \/ Revoke(c) \/ Quarantine(c)
    PROVE  IInv'
<1>1. \E k \in {"decisions", "revocations", "quarantines"} : Insert(c, k)
  BY DEF SaveDecision, Revoke, Quarantine
<1> QED
  BY <1>1, Inserts DEF Kinds

LEMMA PromoteKeeps ==
    ASSUME IInv, NEW c \in Clients,
           \/ Promote(c) \/ PromoteCheckRevocations(c)
           \/ PromoteCheckQuarantines(c) \/ PromoteInsert(c)
    PROVE  IInv'
<1>1. Promoting(c)
  BY DEF IInv, ClientOK
<1>2. CASE Promote(c)
  <2>1. CASE Decided(call[c].rec) /\ Step(c, "checkRevocations")
    <3>1. Held(call[c].rec)
      BY <2>1 DEF Decided, Held
    <3>2. pc[c] = "ready"
      BY <1>2 DEF Promote, Called
    <3> QED
      BY <2>1, <3>1, <3>2, Steps
  <2>2. CASE Answer(c)
    BY <2>2, AnswerKeeps
  <2> QED
    BY <1>2, <2>1, <2>2 DEF Promote
<1>3. CASE PromoteCheckRevocations(c)
  <2> DEFINE p == call[c].rec
  <2>1. CASE ~IsRevoked(p.digest, p.env) /\ Step(c, "checkQuarantines")
    <3>1. pc[c] = "checkRevocations"
      BY <1>3 DEF PromoteCheckRevocations
    <3>2. "revocations" \notin blocks[c]
      BY <1>1, <2>1 DEF Promoting, Against, IsRevoked
    <3>3. ~replaced => Held(p)
      BY <1>1, <3>1 DEF Promoting
    <3> QED
      BY <2>1, <3>1, <3>2, <3>3, Steps
  <2>2. CASE Answer(c)
    BY <2>2, AnswerKeeps
  <2> QED
    BY <1>3, <2>1, <2>2 DEF PromoteCheckRevocations
<1>4. CASE PromoteCheckQuarantines(c)
  <2> DEFINE p == call[c].rec
  <2>1. CASE ~IsQuarantined(p.digest, p.env) /\ Step(c, "record")
    <3>1. pc[c] = "checkQuarantines"
      BY <1>4 DEF PromoteCheckQuarantines
    <3>2. blocks[c] = {}
      BY <1>1, <2>1, <3>1 DEF Promoting, Against, IsQuarantined
    <3>3. ~replaced => Held(p)
      BY <1>1, <3>1 DEF Promoting
    <3> QED
      BY <2>1, <3>1, <3>2, <3>3, Steps
  <2>2. CASE Answer(c)
    BY <2>2, AnswerKeeps
  <2> QED
    BY <1>4, <2>1, <2>2 DEF PromoteCheckQuarantines
<1>5. CASE PromoteInsert(c)
  BY <1>1, <1>5, Inserts DEF PromoteInsert, Promoting, Kinds
<1> QED
  BY <1>2, <1>3, <1>4, <1>5

LEMMA UnquarantineKeeps ==
    ASSUME IInv, NEW c \in Clients, Unquarantine(c)
    PROVE  IInv'
<1>1. /\ pc[c] = "ready"
      /\ pc' = [pc EXCEPT ![c] = "delete"]
      /\ seen' = [seen EXCEPT ![c] = {q \in db["quarantines"] :
                                         call[c].key \in {q.id, q.digest}}]
      /\ UNCHANGED <<db, call, stage, image, past, blocks, replaced>>
  BY DEF Unquarantine, Called, Goto
<1>2. /\ PerClient(pc)' /\ PerClient(stage)' /\ PerClient(image)' /\ PerClient(seen)'
      /\ OthersIdle(c) /\ pc'[c] = "delete"
      /\ \A d \in Clients \ {c} : seen'[d] = seen[d]
      /\ \A q \in seen'[c] : call[c].key \in {q.id, q.digest}
  BY <1>1 DEF IInv, Functions, PerClient, OthersIdle
<1>3. Promoting(c)'
  BY <1>1, <1>2 DEF IInv, ClientOK, Promoting
<1>4. Deleting(c)' /\ BackingUp(c)'
  BY <1>1, <1>2 DEF Deleting, BackingUp
<1> QED
  BY <1>1, <1>2, <1>3, <1>4, Moves DEF ClientOK

LEMMA UnquarantineDeleteKeeps ==
    ASSUME IInv, NEW c \in Clients, UnquarantineDelete(c)
    PROVE  IInv'
<1> DEFINE rows == [db EXCEPT !["quarantines"] = @ \ seen[c]]
<1>1. /\ Return(c) /\ Put(rows) /\ UNCHANGED replaced
      /\ seen' = [d \in Clients |-> IF d = c THEN {} ELSE seen[d] \ seen[c]]
  BY DEF UnquarantineDelete
<1>2. rows = [k \in Kinds |-> rows[k]] /\ db' = rows
  BY <1>1 DEF IInv, Functions, Put
<1>3. \A k \in AppendOnly : rows[k] = db[k]
  BY DEF IInv, Functions, AppendOnly
<1>4. Forward
  BY <1>1, <1>2, <1>3 DEF Forward
<1>5. PerClient(seen)' /\ \A d \in Clients : seen'[d] \subseteq seen[d]
  BY <1>1 DEF PerClient
<1> HIDE DEF rows
<1> QED
  BY <1>1, <1>2, <1>3, <1>4, <1>5, Returns DEF AppendOnly

LEMMA TablesAre ==
    /\ Tables[1] = "decisions" /\ Tables[2] = "promotions"
    /\ Tables[3] = "revocations" /\ Tables[4] = "quarantines"
    /\ \A i \in 1 .. 4 : Tables[i] \in Kinds
    /\ \A i, j \in 1 .. 4 : Tables[i] = Tables[j] => i = j
  BY DEF Tables, Kinds

(* Each table is read as a whole, as it is then.                           *)
LEMMA BackupKeeps == ASSUME IInv, NEW c \in Clients, Backup(c) PROVE IInv'
<1> DEFINE i == stage[c] + 1
           k == Tables[i]
           rows == CASE k = "decisions"   -> GetDecisions
                     [] k = "promotions"  -> GetPromotions(AnyEnv)
                     [] k = "revocations" -> GetRevocations(AnyEnv)
                     [] k = "quarantines" -> GetQuarantines(AnyEnv)
<1>1. /\ pc[c] = "ready" /\ call[c].op = "Backup"
      /\ image' = [image EXCEPT ![c][k] = rows]
      /\ stage' = [stage EXCEPT ![c] = @ + 1]
      /\ pc' = [pc EXCEPT ![c] = IF stage[c] = 3 THEN "truncate" ELSE "ready"]
      /\ UNCHANGED <<db, call, past, seen, blocks, replaced>>
  BY Zenon DEF Backup, Called, Goto
<1>2. /\ stage[c] \in 0 .. 3 /\ i \in 1 .. 4
      /\ image[c] = [j \in Kinds |-> image[c][j]]
      /\ ~replaced =>
            /\ \A j \in AppendOnly : past[c][j] \subseteq db[j]
            /\ \A n \in 1 .. stage[c] :
                  Tables[n] \in AppendOnly
                  => past[c][Tables[n]] \subseteq image[c][Tables[n]]
  BY <1>1 DEF IInv, ClientOK, BackingUp
<1>3. k \in Kinds
  BY <1>2, TablesAre
<1>4. k \in AppendOnly => rows = db[k]
  <2>1. k = "decisions" => rows = GetDecisions
    OBVIOUS
  <2>2. k = "promotions" => rows = GetPromotions(AnyEnv)
    OBVIOUS
  <2>3. k = "revocations" => rows = GetRevocations(AnyEnv)
    OBVIOUS
  <2> HIDE DEF rows
  <2> QED
    BY <2>1, <2>2, <2>3 DEF AppendOnly, GetDecisions, GetPromotions, GetRevocations
<1> HIDE DEF rows, k
<1>5. /\ PerClient(pc)' /\ PerClient(stage)' /\ PerClient(image)' /\ PerClient(seen)'
      /\ OthersIdle(c)
  BY <1>1 DEF IInv, Functions, PerClient, OthersIdle
<1>6. /\ pc'[c] = IF stage[c] = 3 THEN "truncate" ELSE "ready"
      /\ stage'[c] = i
      /\ image'[c] = [image[c] EXCEPT ![k] = rows]
  BY <1>1, <1>2 DEF IInv, Functions, PerClient
<1>7. Promoting(c)' /\ Deleting(c)'
  BY <1>1, <1>6 DEF IInv, ClientOK, Promoting, Deleting
<1>8. image'[c] = [j \in Kinds |-> image'[c][j]]
  BY <1>2, <1>6
<1>9. ASSUME ~replaced, NEW n \in 1 .. i, Tables[n] \in AppendOnly
      PROVE  past[c][Tables[n]] \subseteq image'[c][Tables[n]]
  <2>1. CASE n = i
    BY <1>2, <1>3, <1>4, <1>6, <1>9, <2>1 DEF k
  <2>2. CASE n # i
    <3>1. n \in 1 .. stage[c] /\ Tables[n] # k
      BY <1>2, <2>2, TablesAre DEF k
    <3>2. image'[c][Tables[n]] = image[c][Tables[n]]
      BY <1>2, <1>6, <3>1, TablesAre
    <3> QED
      BY <1>2, <1>9, <3>1, <3>2
  <2> QED
    BY <2>1, <2>2
<1>10. BackingUp(c)'
  <2>1. /\ stage'[c] \in 0 .. 4
        /\ pc'[c] = "ready" <=> stage'[c] # 4
        /\ pc'[c] \in {"ready", "truncate"}
        /\ call'[c].op = "Backup"
    BY <1>1, <1>2, <1>6
  <2>2. ASSUME ~replaced'
        PROVE  /\ \A j \in AppendOnly : past'[c][j] \subseteq db'[j]
               /\ \A n \in 1 .. stage'[c] :
                     Tables[n] \in AppendOnly
                     => past'[c][Tables[n]] \subseteq image'[c][Tables[n]]
    BY <1>1, <1>2, <1>6, <1>9, <2>2
  <2> QED
    BY <1>8, <2>1, <2>2 DEF BackingUp
<1> QED
  BY <1>1, <1>5, <1>7, <1>10, Moves DEF ClientOK

LEMMA WriteBackupKeeps ==
    ASSUME IInv, NEW c \in Clients, TruncateBackup(c) \/ WriteBackup(c)
    PROVE  IInv'
<1>1. CASE TruncateBackup(c)
  <2>1. /\ pc[c] = "truncate" /\ pc' = [pc EXCEPT ![c] = "dump"]
        /\ UNCHANGED <<db, call, stage, image, past, seen, blocks, replaced>>
    BY <1>1 DEF TruncateBackup, Goto
  <2>2. /\ PerClient(pc)' /\ PerClient(stage)' /\ PerClient(image)' /\ PerClient(seen)'
        /\ OthersIdle(c) /\ pc'[c] = "dump"
    BY <2>1 DEF IInv, Functions, PerClient, OthersIdle
  <2>3. ClientOK(c)'
    BY <2>1, <2>2 DEF IInv, ClientOK, Promoting, Deleting, BackingUp
  <2> QED
    BY <2>1, <2>2, <2>3, Moves
<1>2. CASE WriteBackup(c)
  <2>1. PerClient(seen)' /\ \A d \in Clients : seen'[d] \subseteq seen[d]
    BY <1>2 DEF WriteBackup, IInv, Functions, PerClient
  <2> QED
    BY <1>2, <2>1, Answers DEF WriteBackup
<1> QED
  BY <1>1, <1>2

LEMMA RollbackKeeps == ASSUME IInv, NEW c \in Clients, Rollback(c) PROVE IInv'
<1>1. PerClient(seen)' /\ \A d \in Clients : seen'[d] \subseteq seen[d]
  BY DEF Rollback, IInv, Functions, PerClient
<1> QED
  BY <1>1, Answers DEF Rollback

(* Statements of the transaction of a Restore.                             *)
LEMMA TransactionKeeps ==
    ASSUME IInv, NEW c \in Clients, pc[c] # "idle",
           NEW s \in {"deleteAll", "insert", "commit"}, Goto(c, s),
           NEW n, stage' = [stage EXCEPT ![c] = n],
           UNCHANGED <<db, call, image, past, seen, blocks, replaced>>
    PROVE  IInv'
<1>1. /\ PerClient(pc)' /\ PerClient(stage)' /\ PerClient(image)' /\ PerClient(seen)'
      /\ OthersIdle(c) /\ pc'[c] = s
  BY DEF IInv, Functions, PerClient, OthersIdle, Goto
<1>2. ClientOK(c)'
  BY <1>1 DEF IInv, ClientOK, Promoting, Deleting, BackingUp
<1> QED
  BY <1>1, <1>2, Moves

LEMMA RestoreKeeps ==
    ASSUME IInv, NEW c \in Clients, Restore(c) \/ RestoreDelete(c) \/ RestoreInsert(c)
    PROVE  IInv'
<1>1. CASE Restore(c)
  <2>1. pc[c] = "ready" /\ (Answer(c) \/ Step(c, "deleteAll"))
    BY <1>1 DEF Restore, Called
  <2> QED
    BY <2>1, AnswerKeeps, Steps
<1>2. CASE RestoreDelete(c)
  <2>1. PICK s \in {"deleteAll", "insert"} : Goto(c, s)
    BY <1>2 DEF RestoreDelete
  <2>2. PICK n : stage' = [stage EXCEPT ![c] = n]
    BY <1>2 DEF RestoreDelete
  <2>3. /\ pc[c] = "deleteAll"
        /\ UNCHANGED <<db, call, image, past, seen, blocks, replaced>>
    BY <1>2 DEF RestoreDelete
  <2> QED
    BY <2>1, <2>2, <2>3, TransactionKeeps
<1>3. CASE RestoreInsert(c)
  <2>1. CASE Rollback(c)
    BY <2>1, RollbackKeeps
  <2>2. CASE ~Rollback(c)
    <3>1. /\ pc[c] = "insert"
          /\ stage' = [stage EXCEPT ![c] = @ + 1]
          /\ Goto(c, IF stage[c] = 3 THEN "commit" ELSE "insert")
          /\ UNCHANGED <<db, call, image, past, seen, blocks, replaced>>
      BY <1>3, <2>2 DEF RestoreInsert
    <3>2. PICK s \in {"insert", "commit"} : Goto(c, s)
      BY <3>1
    <3>3. PICK n : stage' = [stage EXCEPT ![c] = n]
      BY <3>1
    <3> QED
      BY <3>1, <3>2, <3>3, TransactionKeeps
  <2> QED
    BY <2>1, <2>2
<1> QED
  BY <1>1, <1>2, <1>3

LEMMA CommitKeeps == ASSUME IInv, NEW c \in Clients, Commit(c) PROVE IInv'
<1> DEFINE rows == [k \in Kinds |-> (db[k] \ gone) \cup image[c][k]]
<1>1. /\ Return(c) /\ Put(rows) /\ replaced' = TRUE
      /\ seen' = [d \in Clients |-> seen[d] \ gone]
  BY DEF Commit
<1>2. Forward /\ rows = [k \in Kinds |-> rows[k]]
  BY <1>1 DEF Forward
<1>3. PerClient(seen)' /\ \A d \in Clients : seen'[d] \subseteq seen[d]
  BY <1>1 DEF PerClient
<1> HIDE DEF rows
<1> QED
  BY <1>1, <1>2, <1>3, Returns

LEMMA AbortKeeps == ASSUME IInv, NEW c \in Clients, Abort(c) PROVE IInv'
<1>1. CASE Rollback(c)
  BY <1>1, RollbackKeeps
<1>2. CASE ~Rollback(c)
  <2>1. /\ Return(c) /\ Put(db) /\ UNCHANGED replaced
        /\ seen' = [seen EXCEPT ![c] = {}]
    BY <1>2 DEF Abort
  <2>2. PerClient(seen)' /\ \A d \in Clients : seen'[d] \subseteq seen[d]
    BY <2>1 DEF IInv, Functions, PerClient
  <2> QED
    BY <2>1, <2>2, Answers
<1> QED
  BY <1>1, <1>2

(* Whatever happens to the clock and the schema, the rest stays.           *)
LEMMA StillKeeps ==
    ASSUME IInv, UNCHANGED <<db, pc, call, stage, image, past, seen, blocks, replaced>>
    PROVE  IInv'
<1>1. Functions'
  BY DEF IInv, Functions, PerClient
<1>2. PromotionHasItsDecision'
  BY DEF IInv, PromotionHasItsDecision
<1>3. Forward
  BY DEF Forward
<1>4. ASSUME NEW c \in Clients PROVE ClientOK(c)'
  BY <1>3, OthersStay, QuietFollows DEF IInv
<1> QED
  BY <1>1, <1>2, <1>4 DEF IInv

LEMMA Next_IInv == IInv /\ [Next]_vars => IInv'
<1> SUFFICES ASSUME IInv, [Next]_vars PROVE IInv'
  OBVIOUS
<1>1. CASE UNCHANGED vars \/ Finished \/ Tick \/ \E c \in Clients : Open(c)
  BY <1>1, StillKeeps DEF vars, client, Finished, Tick, Open
<1>2. ASSUME NEW c \in Clients,
             \/ SaveDecision(c) \/ Revoke(c) \/ Quarantine(c) \/ Promote(c)
             \/ PromoteCheckRevocations(c) \/ PromoteCheckQuarantines(c) \/ PromoteInsert(c)
             \/ Unquarantine(c) \/ UnquarantineDelete(c) \/ Invoke(c) \/ Abort(c)
      PROVE  IInv'
  BY <1>2, SaveDecisionKeeps, PromoteKeeps, UnquarantineKeeps, UnquarantineDeleteKeeps,
     InvokeKeeps, AbortKeeps
<1>3. ASSUME NEW c \in Clients,
             \/ Backup(c) \/ TruncateBackup(c) \/ WriteBackup(c) \/ Restore(c)
             \/ RestoreDelete(c) \/ RestoreInsert(c) \/ Commit(c)
      PROVE  IInv'
  BY <1>3, BackupKeeps, WriteBackupKeeps, RestoreKeeps, CommitKeeps
<1> QED
  BY <1>1, <1>2, <1>3 DEF Next

LEMMA Always == Spec => []IInv
<1> QED
  BY Init_IInv, Next_IInv, PTL DEF Spec

(* SQLStore.Promote: no promotion is recorded of an artifact that was      *)
(* blocked throughout the call, whatever the other clients do.             *)
THEOREM TimelinessTheorem == Spec => []PromotionIsTimely
<1>1. IInv => PromotionIsTimely
  BY DEF IInv, ClientOK, Promoting, PromotionIsTimely
<1> QED
  BY Always, <1>1, PTL

(* SQLStore.Promote and SaveDecision: until a backup is restored, every    *)
(* promotion has the decision it was admitted by.                          *)
THEOREM DecisionTheorem == Spec => []PromotionHasItsDecision
<1>1. IInv => PromotionHasItsDecision
  BY DEF IInv
<1> QED
  BY Always, <1>1, PTL

(* SQLStore.Backup: a backup lacks none of the append-only rows that were  *)
(* there when it was called, unless a Restore is committed meanwhile.      *)
THEOREM BackupTheorem == Spec => []BackupHoldsThePast
<1>1. IInv => BackupHoldsThePast
  <2> SUFFICES ASSUME IInv, NEW c \in Clients, pc[c] \in {"truncate", "dump"}, ~replaced,
                      NEW k \in AppendOnly
               PROVE  past[c][k] \subseteq image[c][k]
    BY DEF BackupHoldsThePast
  <2>1. /\ stage[c] = 4
        /\ \A i \in 1 .. stage[c] :
              Tables[i] \in AppendOnly => past[c][Tables[i]] \subseteq image[c][Tables[i]]
    BY DEF IInv, ClientOK, BackingUp
  <2>2. PICK i \in 1 .. 4 : k = Tables[i]
    BY TablesAre DEF AppendOnly
  <2> QED
    BY <2>1, <2>2
<1> QED
  BY Always, <1>1, PTL

(* The committed rows of a step that is none of the two below are those    *)
(* before, and maybe more.                                                 *)
LEMMA RowsStay ==
    ASSUME IInv, [Next]_vars, NEW k \in Kinds,
           ~ \E c \in Clients : UnquarantineDelete(c) \/ Commit(c)
    PROVE  db[k] \subseteq db'[k]
<1>1. CASE UNCHANGED db
  BY <1>1
<1>2. ASSUME NEW c \in Clients, NEW j, Insert(c, j)
      PROVE  db[k] \subseteq db'[k]
  BY <1>2 DEF Insert, Answer, Put, IInv, Functions
<1>3. ASSUME NEW c \in Clients, Answer(c) PROVE UNCHANGED db
  BY <1>3 DEF Answer, Put
<1>4. ASSUME NEW c \in Clients, NEW s, Step(c, s) PROVE UNCHANGED db
  BY <1>4 DEF Step
<1>5. ASSUME NEW c \in Clients, Rollback(c) PROVE UNCHANGED db
  BY <1>5 DEF Rollback, Put
<1>6. CASE UNCHANGED vars \/ Finished \/ Tick \/ \E c \in Clients : Open(c)
  BY <1>1, <1>6 DEF vars, Finished, Tick, Open
<1>7. ASSUME NEW c \in Clients,
             \/ SaveDecision(c) \/ Revoke(c) \/ Quarantine(c) \/ Promote(c)
             \/ PromoteCheckRevocations(c) \/ PromoteCheckQuarantines(c) \/ PromoteInsert(c)
      PROVE  db[k] \subseteq db'[k]
  BY <1>1, <1>2, <1>3, <1>4, <1>7 DEF SaveDecision, Revoke, Quarantine, Promote,
     PromoteCheckRevocations, PromoteCheckQuarantines, PromoteInsert
<1>8. ASSUME NEW c \in Clients, Abort(c) PROVE UNCHANGED db
  BY <1>5, <1>8 DEF Abort, Put
<1>9. ASSUME NEW c \in Clients,
             Invoke(c) \/ Unquarantine(c) \/ Backup(c) \/ TruncateBackup(c) \/ WriteBackup(c)
      PROVE  UNCHANGED db
  BY <1>9 DEF Invoke, Unquarantine, Backup, TruncateBackup, WriteBackup, Put
<1>10. ASSUME NEW c \in Clients, Restore(c) \/ RestoreDelete(c) \/ RestoreInsert(c)
       PROVE  UNCHANGED db
  BY <1>3, <1>4, <1>5, <1>10 DEF Restore, RestoreDelete, RestoreInsert
<1> QED
  BY <1>1, <1>6, <1>7, <1>8, <1>9, <1>10 DEF Next

(* SQLStore.Restore and Unquarantine: rows disappear by an Unquarantine    *)
(* that names them, or all at once when a Restore is committed.            *)
THEOREM AtomicityTheorem == Spec => RestoreIsAtomic
<1>1. IInv /\ [Next]_vars =>
        [\A k \in Kinds : db[k] \ db'[k] # {} =>
            \E c \in Clients :
               \/ /\ pc[c] = "delete"
                  /\ k = "quarantines"
                  /\ \A q \in db[k] \ db'[k] : call[c].key \in {q.id, q.digest}
               \/ /\ pc[c] = "commit" /\ pc'[c] = "idle"
                  /\ \A j \in Kinds : image[c][j] \subseteq db'[j]]_vars
  <2> SUFFICES ASSUME IInv, [Next]_vars, NEW k \in Kinds, db[k] \ db'[k] # {}
               PROVE  \E c \in Clients :
                         \/ /\ pc[c] = "delete"
                            /\ k = "quarantines"
                            /\ \A q \in db[k] \ db'[k] : call[c].key \in {q.id, q.digest}
                         \/ /\ pc[c] = "commit" /\ pc'[c] = "idle"
                            /\ \A j \in Kinds : image[c][j] \subseteq db'[j]
    OBVIOUS
  <2>1. PICK c \in Clients : UnquarantineDelete(c) \/ Commit(c)
    BY RowsStay
  <2>2. CASE UnquarantineDelete(c)
    <3>1. pc[c] = "delete" /\ db' = [db EXCEPT !["quarantines"] = @ \ seen[c]]
      BY <2>2 DEF UnquarantineDelete, Put
    <3>2. k = "quarantines" /\ db[k] \ db'[k] \subseteq seen[c]
      BY <3>1 DEF IInv, Functions
    <3> QED
      BY <3>1, <3>2 DEF IInv, ClientOK, Deleting
  <2>3. CASE Commit(c)
    <3>1. /\ pc[c] = "commit" /\ pc' = [pc EXCEPT ![c] = "idle"]
          /\ db' = [j \in Kinds |-> (db[j] \ gone) \cup image[c][j]]
      BY <2>3 DEF Commit, Return, Goto, Put
    <3>2. pc'[c] = "idle"
      BY <3>1 DEF IInv, Functions, PerClient
    <3>3. \A j \in Kinds : image[c][j] \subseteq db'[j]
      BY <3>1
    <3> QED
      BY <3>1, <3>2, <3>3
  <2> QED
    BY <2>1, <2>2, <2>3
<1> QED
  BY Always, <1>1, PTL DEF Spec, RestoreIsAtomic

-----------------------------------------------------------------------------
(* The types.  Every call of a client is one of its menu, so that only one *)
(* can be restoring; what it restores and what a Backup collects is typed  *)
(* like the tables are; and the keys of the rows that it has inserted and  *)
(* not committed are not those of rows that stay.                          *)

Restoring(c) == pc[c] \in {"deleteAll", "insert", "commit"}

Fits(rows) ==
    /\ \A k \in Kinds : rows[k] \subseteq Rows(k)
    /\ \A k \in Kinds : \A r, s \in rows[k] : r.id = s.id => r = s

Working(c) ==
    /\ call[c] \in Menu[c] \cup {NoCall}
    /\ call[c] = NoCall <=> pc[c] = "idle"
    /\ call[c] # NoCall => At(c, "open")
    /\ stage[c] \in 0 .. 4
    /\ seen[c] \subseteq db["quarantines"]
    /\ seen[c] # {} => pc[c] = "delete"
    /\ pc[c] \in {"checkRevocations", "checkQuarantines", "record"} => call[c].op = "Promote"
    /\ pc[c] = "delete" => call[c].op = "Unquarantine"
    /\ pc[c] = "ready" /\ call[c].op = "Restore" =>
          stage[c] = 0 /\ (image[c] # NoImage => Fits(image[c]))
    /\ pc[c] \in {"ready", "truncate", "dump"} /\ call[c].op = "Backup" => Fits(image[c])
    /\ Restoring(c) =>
          /\ call[c].op = "Restore"
          /\ Fits(image[c])
          /\ pc[c] = "commit" <=> stage[c] = 4

Clear(c) ==
    pc[c] \in {"insert", "commit"} =>
        \A i \in 1 .. stage[c] : \A r \in image[c][Tables[i]] :
            ~Taken(Tables[i], r, db[Tables[i]] \ gone)

GoneOK ==
    /\ gone \subseteq UNION {db[k] : k \in Kinds}
    /\ gone # {} => \E c \in Clients : Restoring(c)

NumbersOK == now \in Times /\ issued \in 0 .. MaxCalls /\ faults \in 0 .. MaxFaults

Tidy ==
    /\ Fits(db)
    /\ archive # NoImage => Fits(archive)
    /\ GoneOK
    /\ NumbersOK
    /\ \A c \in Clients : Working(c) /\ Clear(c)

Sound == IInv /\ SchemaOK /\ Tidy

LEMMA TidyIsTyped == Sound => TypeOK
<1> SUFFICES ASSUME Sound PROVE TypeOK
  OBVIOUS
<1> USE DEF Sound, Tidy
<1>1. ASSUME NEW c \in Clients
      PROVE  /\ call[c] \in Calls \cup {NoCall}
             /\ call[c] = NoCall <=> pc[c] = "idle"
             /\ call[c] # NoCall => At(c, "open")
             /\ stage[c] \in 0 .. 4
             /\ seen[c] \subseteq db["quarantines"]
             /\ seen[c] # {} => pc[c] = "delete"
  BY SQLStoreAssumption DEF Working
<1>2. /\ \A k \in Kinds : db[k] \subseteq Rows(k)
      /\ \A k \in Kinds : \A r, s \in db[k] : r.id = s.id => r = s
  BY DEF Fits
<1>3. /\ gone \subseteq UNION {db[k] : k \in Kinds}
      /\ gone # {} => \E c \in Clients : pc[c] \in {"deleteAll", "insert", "commit"}
  BY DEF GoneOK, Restoring
<1>4. /\ opening \in [Clients -> [step : {"closed", "count", "exec", "aborted", "record",
                                          "commit", "open"}, version : migrations]]
      /\ schema \in [made : SUBSET migrations, recorded : SUBSET migrations]
  BY DEF SchemaOK
<1>5. now \in Times /\ issued \in 0 .. MaxCalls /\ faults \in 0 .. MaxFaults
  BY DEF NumbersOK
<1> QED
  BY <1>1, <1>2, <1>3, <1>4, <1>5 DEF TypeOK

LEMMA TidyInit == Init => Tidy
<1> SUFFICES ASSUME Init PROVE Tidy
  OBVIOUS
<1> USE DEF Init
<1>1. Fits(db) /\ archive = NoImage
  BY DEF Fits, NoRows, Kinds
<1>2. GoneOK
  BY DEF GoneOK
<1>3. NumbersOK
  BY RecordsAssumption, SQLStoreAssumption DEF NumbersOK, Times
<1>4. ASSUME NEW c \in Clients PROVE Working(c) /\ Clear(c)
  BY DEF Working, Clear, Restoring
<1> QED
  BY <1>1, <1>2, <1>3, <1>4 DEF Tidy

-----------------------------------------------------------------------------

LEMMA CallsHave ==
    ASSUME NEW m \in Calls
    PROVE  /\ m.op = "SaveDecision" => m.rec \in Rows("decisions")
           /\ m.op = "Promote" => m.rec \in Rows("promotions")
           /\ m.op = "Revoke" => m.rec \in Rows("revocations")
           /\ m.op = "Quarantine" => m.rec \in Rows("quarantines")
           /\ m.op = "Restore" => m = [op |-> "Restore"]
  BY DEF Calls

(* A row is of one table.                                                  *)
LEMMA OneTable ==
    ASSUME NEW j \in Kinds, NEW k \in Kinds, j # k
    PROVE  Rows(j) \cap Rows(k) = {}
<1>1. /\ \A r \in Rows("decisions") : DOMAIN r = {"id", "outcome", "digest", "env", "expires"}
      /\ \A r \in Rows("promotions") : DOMAIN r = {"id", "decision", "digest", "env"}
      /\ \A r \in Rows("revocations") : DOMAIN r = {"id", "digest", "env"} /\ r.id \in RowIDs
      /\ \A r \in Rows("quarantines") :
            DOMAIN r = {"id", "digest", "env"} /\ r.id \in QuarantineIDs
  BY DEF Rows, Decisions, Quarantines
<1>2. /\ "outcome" \notin {"id", "decision", "digest", "env"} \cup {"id", "digest", "env"}
      /\ "decision" \notin {"id", "digest", "env"}
  OBVIOUS
<1>3. RowIDs \cap QuarantineIDs = {}
  BY SQLStoreAssumption
<1>4. /\ Rows("decisions") \cap Rows("promotions") = {}
      /\ Rows("decisions") \cap Rows("revocations") = {}
      /\ Rows("decisions") \cap Rows("quarantines") = {}
      /\ Rows("promotions") \cap Rows("revocations") = {}
      /\ Rows("promotions") \cap Rows("quarantines") = {}
      /\ Rows("revocations") \cap Rows("quarantines") = {}
  BY ONLY <1>1, <1>2, <1>3
<1> QED
  BY <1>4 DEF Kinds

(* One client at most restores.                                            *)
LEMMA SoleRestorer ==
    ASSUME Tidy, NEW c \in Clients, NEW d \in Clients,
           Restoring(c) \/ call[c] = [op |-> "Restore"],
           Restoring(d)
    PROVE  c = d
<1>1. ASSUME NEW e \in Clients, Restoring(e) \/ call[e] = [op |-> "Restore"]
      PROVE  [op |-> "Restore"] \in Menu[e]
  <2>1. call[e] # NoCall
    BY <1>1, SQLStoreAssumption DEF Tidy, Working, Restoring, Calls
  <2>2. call[e] \in Menu[e] /\ call[e] \in Calls /\ call[e].op = "Restore"
    BY <1>1, <2>1, SQLStoreAssumption DEF Tidy, Working
  <2>3. call[e] = [op |-> "Restore"]
    BY <2>2, CallsHave
  <2> QED
    BY <2>2, <2>3
<1> QED
  BY <1>1, SQLStoreAssumption
-----------------------------------------------------------------------------
(* What a step leaves alone.                                               *)

(* A row that comes to stay has no key that a transaction holds.           *)
Settled == \A k \in Kinds : \A s \in db'[k] \ gone' : s \in db[k] \ gone \/ Free(k, s)

LEMMA InsertedHas ==
    ASSUME NEW d \in Clients, pc[d] \in {"insert", "commit"}, NEW i \in 1 .. stage[d],
           NEW r \in image[d][Tables[i]]
    PROVE  r \in Inserted
<1> DEFINE Of(e) == UNION {image[e][Tables[n]] : n \in 1 .. stage[e]}
<1>1. r \in Of(d)
  OBVIOUS
<1>2. Inserted = UNION {Of(e) : e \in {f \in Clients : pc[f] \in {"insert", "commit"}}}
  BY DEF Inserted
<1> HIDE DEF Of
<1> QED
  BY <1>1, <1>2

LEMMA ClearStays ==
    ASSUME Tidy, Fits(db)', NEW d \in Clients,
           pc'[d] = pc[d], stage'[d] = stage[d], image'[d] = image[d],
           Settled \/ ~Restoring(d)
    PROVE  Clear(d)'
<1> SUFFICES ASSUME pc[d] \in {"insert", "commit"}, NEW i \in 1 .. stage[d],
                    NEW r \in image[d][Tables[i]],
                    NEW s \in db'[Tables[i]] \ gone', s \in Rows(Tables[i]), s.id = r.id
             PROVE  FALSE
  BY DEF Clear, Taken
<1> DEFINE k == Tables[i]
<1>1. Settled /\ Fits(image[d]) /\ i \in 1 .. 4 /\ k \in Kinds
  BY TablesAre DEF Tidy, Working, Restoring
<1>2. r \in Rows(k)
  BY <1>1, TablesAre DEF Fits
<1>3. r \in Inserted
  BY InsertedHas
<1>4. s \notin db[k] \ gone
  BY DEF Tidy, Clear, Taken
<1>5. Free(k, s)
  BY <1>1, <1>4 DEF Settled
<1> QED
  BY <1>2, <1>3, <1>5 DEF Free, Taken

LEMMA OthersTidy ==
    ASSUME Tidy, Fits(db)', NEW d \in Clients,
           pc'[d] = pc[d], call'[d] = call[d], stage'[d] = stage[d], image'[d] = image[d],
           seen'[d] \subseteq seen[d], seen'[d] \subseteq db'["quarantines"],
           At(d, "open") => At(d, "open")',
           Settled \/ ~Restoring(d)
    PROVE  Working(d)' /\ Clear(d)'
<1>1. Working(d)'
  BY DEF Tidy, Working, Restoring, Fits
<1> QED
  BY <1>1, ClearStays

LEMMA ReturnTidy ==
    ASSUME IInv, NEW c \in Clients, Return(c), seen'[c] = {}
    PROVE  Working(c)' /\ Clear(c)' /\ ~Restoring(c)'
<1>1. pc'[c] = "idle" /\ call'[c] = NoCall /\ stage'[c] = 0
  BY DEF IInv, Functions, PerClient, Return, Goto
<1> QED
  BY <1>1 DEF Working, Clear, Restoring

LEMMA StepTidy ==
    ASSUME Tidy, NEW c \in Clients, OthersIdle(c), Fits(db)',
           archive' # NoImage => Fits(archive)', GoneOK', NumbersOK',
           \A d \in Clients \ {c} :
              /\ seen'[d] \subseteq seen[d] /\ seen'[d] \subseteq db'["quarantines"]
              /\ At(d, "open") => At(d, "open")'
              /\ Settled \/ ~Restoring(d),
           Working(c)', Clear(c)'
    PROVE  Tidy'
<1>1. ASSUME NEW d \in Clients PROVE Working(d)' /\ Clear(d)'
  <2>1. CASE d = c
    BY <2>1
  <2>2. CASE d # c
    BY <2>2, OthersTidy DEF OthersIdle
  <2> QED
    BY <2>1, <2>2
<1> QED
  BY <1>1 DEF Tidy

(* A step that leaves the rows alone.                                      *)
LEMMA QuietTidy ==
    ASSUME Sound, NEW c \in Clients, OthersIdle(c), UNCHANGED <<db, archive, gone>>,
           UNCHANGED <<now, issued, faults, opening>>,
           \A d \in Clients \ {c} : seen'[d] = seen[d],
           Restoring(c) => Restoring(c)',
           Working(c)', Clear(c)'
    PROVE  Tidy'
<1>1. Fits(db)' /\ (archive' # NoImage => Fits(archive)') /\ NumbersOK' /\ Settled
  BY DEF Sound, Tidy, Fits, NumbersOK, Settled
<1>2. GoneOK'
  BY DEF Sound, Tidy, GoneOK, Restoring, OthersIdle
<1>3. \A d \in Clients \ {c} :
         /\ seen'[d] \subseteq seen[d] /\ seen'[d] \subseteq db'["quarantines"]
         /\ At(d, "open") => At(d, "open")'
  BY DEF Sound, Tidy, Working, At
<1> QED
  BY <1>1, <1>2, <1>3, StepTidy DEF Sound
-----------------------------------------------------------------------------
(* One lemma per kind of operation.                                        *)

(* A call that returns and leaves the rows as they were.                   *)
LEMMA AnswerTidy ==
    ASSUME Sound, NEW c \in Clients, Return(c), UNCHANGED <<db, gone, opening>>,
           archive' # NoImage => Fits(archive)', NumbersOK', ~Restoring(c),
           seen'[c] = {}, \A d \in Clients \ {c} : seen'[d] = seen[d]
    PROVE  Tidy'
<1>1. OthersIdle(c)
  BY ReturnAlone DEF Sound, IInv
<1>2. Fits(db)' /\ Settled
  BY DEF Sound, Tidy, Fits, Settled
<1>3. GoneOK'
  BY <1>1 DEF Sound, Tidy, GoneOK, Restoring, OthersIdle
<1>4. \A d \in Clients \ {c} :
         /\ seen'[d] \subseteq seen[d] /\ seen'[d] \subseteq db'["quarantines"]
         /\ At(d, "open") => At(d, "open")'
  BY DEF Sound, Tidy, Working, At
<1> QED
  BY <1>1, <1>2, <1>3, <1>4, ReturnTidy, StepTidy DEF Sound

LEMMA AnswersTidy ==
    ASSUME Sound, NEW c \in Clients, Answer(c), pc[c] # "delete", ~Restoring(c)
    PROVE  Tidy'
<1>1. /\ Return(c)
      /\ UNCHANGED <<db, gone, archive, seen, now, migration, issued, faults>>
  BY DEF Answer, Put
<1>2. seen'[c] = {} /\ \A d \in Clients \ {c} : seen'[d] = seen[d]
  BY <1>1 DEF Sound, Tidy, Working
<1>3. (archive' # NoImage => Fits(archive)') /\ NumbersOK'
  BY <1>1 DEF Sound, Tidy, Fits, NumbersOK
<1> QED
  BY <1>1, <1>2, <1>3, AnswerTidy DEF migration

(* A row is inserted, with a key of its own, or refused.                   *)
LEMMA InsertTidy ==
    ASSUME Sound, NEW c \in Clients, NEW k \in Kinds, Insert(c, k),
           call[c].rec \in Rows(k), pc[c] # "delete", ~Restoring(c)
    PROVE  Tidy'
<1> SUFFICES ASSUME ~Answer(c) PROVE Tidy'
  BY AnswersTidy
<1> DEFINE r == call[c].rec
<1>1. /\ Return(c) /\ db' = [db EXCEPT ![k] = @ \cup {r}]
      /\ Free(k, r) /\ ~Taken(k, r, db[k])
      /\ UNCHANGED <<gone, archive, seen, now, opening, issued, faults>>
  BY DEF Insert, Put, migration
<1>2. /\ db'[k] = db[k] \cup {r}
      /\ \A j \in Kinds \ {k} : db'[j] = db[j]
  BY <1>1 DEF Sound, IInv, Functions
<1> HIDE DEF r
<1>3. OthersIdle(c)
  BY <1>1, ReturnAlone DEF Sound, IInv
<1>4. Fits(db)'
  <2>1. ASSUME NEW j \in Kinds PROVE db'[j] \subseteq Rows(j)
    BY <1>2 DEF Sound, Tidy, Fits, r
  <2>2. ASSUME NEW j \in Kinds, NEW p \in db'[j], NEW q \in db'[j], p.id = q.id
        PROVE  p = q
    <3>1. CASE p \in db[j] /\ q \in db[j]
      BY <2>2, <3>1 DEF Sound, Tidy, Fits
    <3>2. ASSUME NEW t \in db[j], j = k, t.id = r.id
          PROVE  FALSE
      BY <1>1, <3>2 DEF Sound, Tidy, Fits, Taken, r
    <3> QED
      BY <1>2, <2>2, <3>1, <3>2
  <2> QED
    BY <2>1, <2>2 DEF Fits
<1>5. Settled
  <2> SUFFICES ASSUME NEW j \in Kinds, NEW s \in db'[j] \ gone'
               PROVE  s \in db[j] \ gone \/ Free(j, s)
    BY DEF Settled
  <2>1. r \in Rows(k)
    BY DEF r
  <2>2. CASE s # r
    BY <1>1, <1>2, <2>1, <2>2
  <2>3. CASE s = r /\ j = k
    BY <1>1, <2>3 DEF r
  <2>4. CASE s = r /\ j # k
    BY <1>2, <2>1, <2>4, OneTable DEF Sound, Tidy, Fits
  <2> QED
    BY <2>2, <2>3, <2>4
<1>6. GoneOK'
  <2>1. gone' \subseteq UNION {db'[j] : j \in Kinds}
    <3> SUFFICES ASSUME NEW s \in gone' PROVE \E j \in Kinds : s \in db'[j]
      OBVIOUS
    <3>1. PICK j \in Kinds : s \in db[j]
      BY <1>1 DEF Sound, Tidy, GoneOK
    <3> QED
      BY <1>2, <3>1
  <2>2. gone' # {} => \E d \in Clients : Restoring(d)'
    BY <1>1, <1>3 DEF Sound, Tidy, GoneOK, Restoring, OthersIdle
  <2> QED
    BY <2>1, <2>2 DEF GoneOK
<1>7. /\ archive' # NoImage => Fits(archive)'
      /\ NumbersOK'
  BY <1>1 DEF Sound, Tidy, Fits, NumbersOK
<1>8. seen'[c] = {}
  BY <1>1 DEF Sound, Tidy, Working
<1>9. \A d \in Clients \ {c} :
         /\ seen'[d] \subseteq seen[d] /\ seen'[d] \subseteq db'["quarantines"]
         /\ At(d, "open") => At(d, "open")'
  BY <1>1, <1>2 DEF Sound, Tidy, Working, At, Kinds
<1> QED
  BY <1>1, <1>3, <1>4, <1>5, <1>6, <1>7, <1>8, <1>9, ReturnTidy, StepTidy DEF Sound
LEMMA CallIs ==
    ASSUME Sound, NEW c \in Clients, pc[c] # "idle"
    PROVE  call[c] \in Calls /\ call[c] # NoCall /\ At(c, "open")
  BY SQLStoreAssumption DEF Sound, Tidy, Working

LEMMA SaveTidy ==
    ASSUME Sound, NEW c \in Clients, SaveDecision(c) \/ Revoke(c) \/ Quarantine(c)
    PROVE  Tidy'
<1>1. pc[c] = "ready" /\ ~Restoring(c)
  BY DEF SaveDecision, Revoke, Quarantine, Called, Restoring
<1>2. call[c] \in Calls
  BY <1>1, CallIs
<1>3. PICK k \in {"decisions", "revocations", "quarantines"} :
         Insert(c, k) /\ call[c].rec \in Rows(k)
  <2>1. CASE SaveDecision(c)
    BY <1>2, <2>1, CallsHave DEF SaveDecision, Called
  <2>2. CASE Revoke(c)
    BY <1>2, <2>2, CallsHave DEF Revoke, Called
  <2>3. CASE Quarantine(c)
    BY <1>2, <2>3, CallsHave DEF Quarantine, Called
  <2> QED
    BY <2>1, <2>2, <2>3
<1> QED
  BY <1>1, <1>3, InsertTidy DEF Kinds

(* A statement that only lets the call go on.                              *)
LEMMA StepsTidy ==
    ASSUME Sound, NEW c \in Clients, pc[c] # "delete", NEW s, Step(c, s),
           \/ /\ s \in {"checkRevocations", "checkQuarantines", "record"}
              /\ call[c].op = "Promote" /\ pc[c] # "idle" /\ ~Restoring(c)
           \/ /\ s = "deleteAll" /\ Called(c, "Restore") /\ image[c] # NoImage
    PROVE  Tidy'
<1>1. /\ pc' = [pc EXCEPT ![c] = s]
      /\ UNCHANGED <<db, gone, archive, call, stage, image, past, seen, now, opening,
                     issued, faults>>
  BY DEF Step, Goto, migration
<1>2. OthersIdle(c) /\ pc'[c] = s
  BY <1>1 DEF Sound, IInv, Functions, PerClient, OthersIdle
<1>3. call[c] # NoCall /\ Working(c)
  BY CallIs DEF Called, Sound, Tidy
<1>4. Working(c)'
  BY <1>1, <1>2, <1>3 DEF Working, Restoring, Called, Fits, At
<1>5. Clear(c)'
  BY <1>2 DEF Clear
<1>6. Restoring(c) => Restoring(c)'
  BY DEF Restoring, Called
<1> QED
  BY <1>1, <1>2, <1>4, <1>5, <1>6, QuietTidy

LEMMA PromoteTidy ==
    ASSUME Sound, NEW c \in Clients,
           \/ Promote(c) \/ PromoteCheckRevocations(c)
           \/ PromoteCheckQuarantines(c) \/ PromoteInsert(c)
    PROVE  Tidy'
<1>1. /\ pc[c] \in {"ready", "checkRevocations", "checkQuarantines", "record"}
      /\ pc[c] # "delete" /\ pc[c] # "idle" /\ ~Restoring(c)
  BY DEF Promote, PromoteCheckRevocations, PromoteCheckQuarantines, PromoteInsert, Called,
         Restoring
<1>2. call[c].op = "Promote" /\ call[c].rec \in Rows("promotions")
  BY <1>1, CallIs, CallsHave
     DEF Promote, PromoteCheckRevocations, PromoteCheckQuarantines, PromoteInsert, Called,
         Sound, Tidy, Working
<1>3. CASE Answer(c)
  BY <1>1, <1>3, AnswersTidy
<1>4. CASE PromoteInsert(c)
  BY <1>1, <1>2, <1>4, InsertTidy DEF PromoteInsert, Kinds
<1>5. ASSUME NEW s \in {"checkRevocations", "checkQuarantines", "record"}, Step(c, s)
      PROVE  Tidy'
  BY <1>1, <1>2, <1>5, StepsTidy
<1> QED
  BY <1>3, <1>4, <1>5 DEF Promote, PromoteCheckRevocations, PromoteCheckQuarantines

LEMMA UnquarantineTidy ==
    ASSUME Sound, NEW c \in Clients, Unquarantine(c)
    PROVE  Tidy'
<1>1. /\ pc[c] = "ready" /\ call[c].op = "Unquarantine"
      /\ pc' = [pc EXCEPT ![c] = "delete"]
      /\ seen' = [seen EXCEPT ![c] = {q \in db["quarantines"] :
                                         call[c].key \in {q.id, q.digest}}]
      /\ UNCHANGED <<db, gone, archive, call, stage, image, past, now, opening, issued,
                     faults>>
  BY DEF Unquarantine, Called, Goto, migration
<1>2. /\ OthersIdle(c) /\ pc'[c] = "delete" /\ seen'[c] \subseteq db["quarantines"]
      /\ \A d \in Clients \ {c} : seen'[d] = seen[d]
  BY <1>1 DEF Sound, IInv, Functions, PerClient, OthersIdle
<1>3. call[c] # NoCall /\ Working(c)
  BY <1>1, CallIs DEF Sound, Tidy
<1>4. Working(c)'
  BY <1>1, <1>2, <1>3 DEF Working, Restoring, At
<1>5. Clear(c)' /\ ~Restoring(c)
  BY <1>1, <1>2 DEF Clear, Restoring
<1> QED
  BY <1>1, <1>2, <1>4, <1>5, QuietTidy

LEMMA UnquarantineDeleteTidy ==
    ASSUME Sound, NEW c \in Clients, UnquarantineDelete(c)
    PROVE  Tidy'
<1>1. /\ pc[c] = "delete" /\ seen[c] \cap gone = {} /\ Return(c)
      /\ db' = [db EXCEPT !["quarantines"] = @ \ seen[c]]
      /\ seen' = [d \in Clients |-> IF d = c THEN {} ELSE seen[d] \ seen[c]]
      /\ UNCHANGED <<gone, archive, now, opening, issued, faults>>
  BY DEF UnquarantineDelete, Put, migration
<1>2. OthersIdle(c)
  BY <1>1, ReturnAlone DEF Sound, IInv
<1>3. /\ db'["quarantines"] = db["quarantines"] \ seen[c]
      /\ \A k \in Kinds : db'[k] \subseteq db[k] /\ db[k] \ db'[k] \subseteq seen[c]
  BY <1>1 DEF Sound, IInv, Functions, Kinds
<1>4. Fits(db)' /\ Settled
  BY <1>1, <1>3 DEF Sound, Tidy, Fits, Settled, Kinds
<1>5. GoneOK'
  <2>1. gone' \subseteq UNION {db'[j] : j \in Kinds}
    <3> SUFFICES ASSUME NEW s \in gone' PROVE \E j \in Kinds : s \in db'[j]
      OBVIOUS
    <3>1. PICK j \in Kinds : s \in db[j]
      BY <1>1 DEF Sound, Tidy, GoneOK
    <3> QED
      BY <1>1, <1>3, <3>1
  <2>2. gone' # {} => \E d \in Clients : Restoring(d)'
    BY <1>1, <1>2 DEF Sound, Tidy, GoneOK, Restoring, OthersIdle
  <2> QED
    BY <2>1, <2>2 DEF GoneOK
<1>6. (archive' # NoImage => Fits(archive)') /\ NumbersOK'
  BY <1>1 DEF Sound, Tidy, Fits, NumbersOK
<1>7. seen'[c] = {}
  BY <1>1
<1>8. \A d \in Clients \ {c} :
         /\ seen'[d] \subseteq seen[d] /\ seen'[d] \subseteq db'["quarantines"]
         /\ At(d, "open") => At(d, "open")'
  BY <1>1, <1>3 DEF Sound, Tidy, Working, At
<1> QED
  BY <1>2, <1>4, <1>5, <1>6, <1>7, <1>8, <1>1, ReturnTidy, StepTidy DEF Sound
LEMMA BackupTidy == ASSUME Sound, NEW c \in Clients, Backup(c) PROVE Tidy'
<1> DEFINE i == stage[c] + 1
           k == Tables[i]
           rows == CASE k = "decisions"   -> GetDecisions
                     [] k = "promotions"  -> GetPromotions(AnyEnv)
                     [] k = "revocations" -> GetRevocations(AnyEnv)
                     [] k = "quarantines" -> GetQuarantines(AnyEnv)
<1>1. /\ pc[c] = "ready" /\ call[c].op = "Backup"
      /\ image' = [image EXCEPT ![c][k] = rows]
      /\ stage' = [stage EXCEPT ![c] = @ + 1]
      /\ pc' = [pc EXCEPT ![c] = IF stage[c] = 3 THEN "truncate" ELSE "ready"]
      /\ UNCHANGED <<db, gone, archive, call, past, seen, now, opening, issued, faults>>
  BY Zenon DEF Backup, Called, Goto, migration
<1>2. /\ stage[c] \in 0 .. 3 /\ i \in 1 .. 4
      /\ image[c] = [j \in Kinds |-> image[c][j]]
  BY <1>1 DEF Sound, IInv, ClientOK, BackingUp
<1>3. k \in Kinds
  BY <1>2, TablesAre
<1>4. rows \subseteq db[k]
  <2>1. k = "decisions" => rows = GetDecisions
    OBVIOUS
  <2>2. k = "promotions" => rows = GetPromotions(AnyEnv)
    OBVIOUS
  <2>3. k = "revocations" => rows = GetRevocations(AnyEnv)
    OBVIOUS
  <2>4. k = "quarantines" => rows = GetQuarantines(AnyEnv)
    OBVIOUS
  <2> HIDE DEF rows
  <2> QED
    BY <1>3, <2>1, <2>2, <2>3, <2>4
       DEF Kinds, GetDecisions, GetPromotions, GetRevocations, GetQuarantines
<1> HIDE DEF rows, k
<1>5. /\ OthersIdle(c)
      /\ pc'[c] \in {"ready", "truncate"} /\ stage'[c] = i
      /\ image'[c] = [image[c] EXCEPT ![k] = rows]
  BY <1>1, <1>2 DEF Sound, IInv, Functions, PerClient, OthersIdle
<1>6. Working(c) /\ call[c] # NoCall
  BY <1>1, CallIs DEF Sound, Tidy
<1>7. Fits(image[c])
  BY <1>1, <1>6 DEF Working
<1>8. Fits(image'[c])
  BY <1>2, <1>3, <1>4, <1>5, <1>7 DEF Fits, Sound, Tidy, Kinds
<1>9. Working(c)'
  <2>1. /\ seen'[c] = {} /\ stage'[c] \in 0 .. 4 /\ call'[c] = call[c] /\ pc'[c] # "idle"
        /\ ~Restoring(c)' /\ pc'[c] \notin {"record", "delete"}
        /\ pc'[c] \notin {"checkRevocations", "checkQuarantines"}
    BY <1>1, <1>2, <1>5, <1>6 DEF Working, Restoring
  <2>2. Fits(image[c])'
    BY <1>8 DEF Fits
  <2> HIDE DEF i
  <2> QED
    BY <1>1, <1>6, <2>1, <2>2 DEF Working, At
<1>10. Clear(c)' /\ ~Restoring(c)
  BY <1>1, <1>5 DEF Clear, Restoring
<1> QED
  BY <1>1, <1>5, <1>9, <1>10, QuietTidy

LEMMA WriteBackupTidy ==
    ASSUME Sound, NEW c \in Clients, TruncateBackup(c) \/ WriteBackup(c)
    PROVE  Tidy'
<1>1. /\ pc[c] \in {"truncate", "dump"} /\ pc[c] # "delete" /\ pc[c] # "idle"
      /\ ~Restoring(c) /\ call[c].op = "Backup"
  BY DEF TruncateBackup, WriteBackup, Restoring, Sound, IInv, ClientOK, BackingUp
<1>2. Working(c) /\ call[c] # NoCall /\ seen[c] = {}
  BY <1>1, CallIs DEF Sound, Tidy, Working
<1>3. CASE TruncateBackup(c)
  <2>1. /\ pc' = [pc EXCEPT ![c] = "dump"] /\ archive' = NoImage
        /\ UNCHANGED <<db, gone, call, stage, image, past, seen, now, opening, issued, faults>>
    BY <1>3 DEF TruncateBackup, Goto, migration
  <2>2. OthersIdle(c) /\ pc'[c] = "dump"
    BY <2>1 DEF Sound, IInv, Functions, PerClient, OthersIdle
  <2>3. Working(c)' /\ Clear(c)'
    BY <1>1, <1>2, <2>1, <2>2 DEF Working, Clear, Restoring, At, Fits
  <2>4. Fits(db)' /\ Settled /\ NumbersOK'
    BY <2>1 DEF Sound, Tidy, Fits, Settled, NumbersOK
  <2>5. GoneOK'
    BY <1>1, <2>1, <2>2 DEF Sound, Tidy, GoneOK, Restoring, OthersIdle
  <2>6. \A d \in Clients \ {c} :
           /\ seen'[d] \subseteq seen[d] /\ seen'[d] \subseteq db'["quarantines"]
           /\ At(d, "open") => At(d, "open")'
    BY <2>1 DEF Sound, Tidy, Working, At
  <2> QED
    BY <2>1, <2>2, <2>3, <2>4, <2>5, <2>6, StepTidy DEF Sound
<1>4. CASE WriteBackup(c)
  <2>1. /\ Return(c) /\ archive' = image[c]
        /\ UNCHANGED <<db, gone, seen, now, opening, issued, faults>>
    BY <1>4 DEF WriteBackup, Put, migration
  <2>2. Fits(archive)' /\ NumbersOK'
    BY <1>1, <1>2, <2>1 DEF Working, Fits, NumbersOK, Sound, Tidy
  <2> QED
    BY <1>1, <1>2, <2>1, <2>2, AnswerTidy
<1> QED
  BY <1>3, <1>4

(* The transaction is undone, whoever ends it.                             *)
LEMMA RollbackTidy ==
    ASSUME Sound, NEW c \in Clients, Rollback(c), pc[c] # "delete",
           Restoring(c) \/ call[c] = [op |-> "Restore"], NumbersOK',
           \A d \in Clients \ {c} : At(d, "open") => At(d, "open")'
    PROVE  Tidy'
<1>1. /\ Return(c) /\ gone' = {}
      /\ UNCHANGED <<db, archive, seen>>
  BY DEF Rollback, Put
<1>2. OthersIdle(c) /\ seen'[c] = {}
  BY <1>1, ReturnAlone DEF Sound, IInv, Tidy, Working
<1>3. Fits(db)' /\ (archive' # NoImage => Fits(archive)') /\ GoneOK'
  BY <1>1 DEF Sound, Tidy, Fits, GoneOK
<1>4. \A d \in Clients \ {c} :
         /\ seen'[d] \subseteq seen[d] /\ seen'[d] \subseteq db'["quarantines"]
         /\ ~Restoring(d)
  BY <1>1, SoleRestorer DEF Sound, Tidy, Working
<1> QED
  BY <1>1, <1>2, <1>3, <1>4, ReturnTidy, StepTidy DEF Sound

LEMMA RestoreTidy ==
    ASSUME Sound, NEW c \in Clients, Restore(c) \/ RestoreDelete(c) \/ RestoreInsert(c)
    PROVE  Tidy'
<1> DEFINE k == Tables[stage[c] + 1]
<1>1. Working(c)
  BY DEF Sound, Tidy
<1>2. CASE Restore(c)
  <2>1. pc[c] # "delete" /\ ~Restoring(c)
    BY <1>2 DEF Restore, Called, Restoring
  <2> QED
    BY <1>2, <2>1, AnswersTidy, StepsTidy DEF Restore
<1>3. CASE RestoreDelete(c)
  <2>1. /\ pc[c] = "deleteAll" /\ gone' = gone \cup db[k]
        /\ stage' = [stage EXCEPT ![c] = (@ + 1) % 4]
        /\ pc' = [pc EXCEPT ![c] = IF stage[c] = 3 THEN "insert" ELSE "deleteAll"]
        /\ UNCHANGED <<db, archive, call, image, past, seen, now, opening, issued, faults>>
    BY <1>3 DEF RestoreDelete, Goto, migration
  <2>2. /\ stage[c] \in 0 .. 3 /\ call[c].op = "Restore" /\ Fits(image[c])
        /\ call[c] # NoCall
    BY <1>1, <2>1, CallIs DEF Working, Restoring
  <2>3. /\ OthersIdle(c) /\ stage'[c] = (stage[c] + 1) % 4
        /\ pc'[c] = IF stage[c] = 3 THEN "insert" ELSE "deleteAll"
    BY <2>1 DEF Sound, IInv, Functions, PerClient, OthersIdle
  <2>4. stage'[c] \in 0 .. 3 /\ (stage[c] = 3 => stage'[c] = 0)
    BY <2>2, <2>3
  <2>5. Working(c)'
    BY <1>1, <2>1, <2>2, <2>3, <2>4 DEF Working, Restoring, At, Fits
  <2>6. Clear(c)'
    BY <2>3, <2>4 DEF Clear
  <2>7. k \in Kinds
    BY <2>2, TablesAre
  <2> HIDE DEF k
  <2>8. GoneOK'
    <3>1. Restoring(c)'
      BY <2>3 DEF Restoring
    <3>2. gone' \subseteq UNION {db'[j] : j \in Kinds}
      BY <2>1, <2>7 DEF Sound, Tidy, GoneOK
    <3> QED
      BY <3>1, <3>2 DEF GoneOK
  <2>9. /\ Fits(db)' /\ (archive' # NoImage => Fits(archive)') /\ NumbersOK' /\ Settled
        /\ \A d \in Clients \ {c} :
              /\ seen'[d] \subseteq seen[d] /\ seen'[d] \subseteq db'["quarantines"]
              /\ At(d, "open") => At(d, "open")'
    BY <2>1 DEF Sound, Tidy, Fits, NumbersOK, Settled, Working, At
  <2> QED
    BY <2>3, <2>5, <2>6, <2>8, <2>9, StepTidy DEF Sound
<1>4. CASE RestoreInsert(c)
  <2>1. pc[c] = "insert" /\ Restoring(c)
    BY <1>4 DEF RestoreInsert, Restoring
  <2>2. CASE Rollback(c) /\ UNCHANGED <<migration, faults>>
    <3>1. NumbersOK' /\ \A d \in Clients : At(d, "open") => At(d, "open")'
      BY <2>2 DEF Rollback, NumbersOK, Sound, Tidy, migration, At
    <3> QED
      BY <2>1, <2>2, <3>1, RollbackTidy
  <2>3. CASE ~(Rollback(c) /\ UNCHANGED <<migration, faults>>)
    <3>1. /\ \A r \in image[c][k] : ~Taken(k, r, db[k] \ gone)
          /\ stage' = [stage EXCEPT ![c] = @ + 1]
          /\ pc' = [pc EXCEPT ![c] = IF stage[c] = 3 THEN "commit" ELSE "insert"]
          /\ UNCHANGED <<db, gone, archive, call, image, past, seen, now, opening, issued,
                         faults>>
      BY <1>4, <2>3 DEF RestoreInsert, Goto, migration
    <3>2. /\ stage[c] \in 0 .. 3 /\ call[c].op = "Restore" /\ Fits(image[c])
          /\ call[c] # NoCall
      BY <1>1, <2>1, CallIs DEF Working, Restoring
    <3>3. /\ OthersIdle(c) /\ stage'[c] = stage[c] + 1
          /\ pc'[c] = IF stage[c] = 3 THEN "commit" ELSE "insert"
      BY <3>1 DEF Sound, IInv, Functions, PerClient, OthersIdle
    <3>4. Working(c)' /\ Restoring(c)'
      BY <1>1, <3>1, <3>2, <3>3 DEF Working, Restoring, At, Fits
    <3>5. Clear(c)'
      <4> SUFFICES ASSUME NEW i \in 1 .. stage[c] + 1, NEW r \in image[c][Tables[i]]
                   PROVE  ~Taken(Tables[i], r, db[Tables[i]] \ gone)
        BY <3>1, <3>3 DEF Clear, Taken
      <4>1. CASE i \in 1 .. stage[c]
        BY <2>1, <4>1 DEF Sound, Tidy, Clear
      <4>2. CASE i = stage[c] + 1
        BY <3>1, <4>2
      <4> QED
        BY <3>2, <4>1, <4>2
    <3>6. \A d \in Clients \ {c} : seen'[d] = seen[d]
      BY <3>1
    <3> QED
      BY <3>1, <3>3, <3>4, <3>5, <3>6, QuietTidy
  <2> QED
    BY <2>2, <2>3
<1> QED
  BY <1>2, <1>3, <1>4
(* No key of the backup is that of a row that stays.                       *)
LEMMA CommitTidy == ASSUME Sound, NEW c \in Clients, Commit(c) PROVE Tidy'
<1>1. /\ pc[c] = "commit" /\ Return(c) /\ gone' = {}
      /\ db' = [k \in Kinds |-> (db[k] \ gone) \cup image[c][k]]
      /\ seen' = [d \in Clients |-> seen[d] \ gone]
      /\ UNCHANGED <<archive, now, opening, issued, faults>>
  BY DEF Commit, Put, migration
<1>2. Restoring(c) /\ Fits(image[c]) /\ stage[c] = 4 /\ seen[c] = {}
  BY <1>1 DEF Restoring, Sound, Tidy, Working
<1>3. OthersIdle(c)
  BY <1>1, ReturnAlone DEF Sound, IInv
<1>4. Fits(db)'
  <2>1. ASSUME NEW k \in Kinds PROVE db'[k] \subseteq Rows(k)
    BY <1>1, <1>2 DEF Sound, Tidy, Fits
  <2>2. ASSUME NEW k \in Kinds, NEW p \in image[c][k], NEW q \in db[k] \ gone
        PROVE  p.id # q.id
    <3>1. k \in Kinds /\ \E i \in 1 .. 4 : k = Tables[i]
      BY TablesAre DEF Kinds
    <3>2. ~Taken(k, p, db[k] \ gone)
      BY <1>1, <1>2, <3>1 DEF Sound, Tidy, Clear
    <3>3. q \in Rows(k)
      BY <3>1 DEF Sound, Tidy, Fits
    <3> QED
      BY <3>2, <3>3 DEF Taken
  <2>3. ASSUME NEW k \in Kinds, NEW p \in db'[k], NEW q \in db'[k], p.id = q.id
        PROVE  p = q
    <3>1. db'[k] = (db[k] \ gone) \cup image[c][k]
      BY <1>1 DEF Kinds
    <3> QED
      BY <1>2, <2>2, <2>3, <3>1 DEF Sound, Tidy, Fits
  <2> QED
    BY <2>1, <2>3 DEF Fits
<1>5. (archive' # NoImage => Fits(archive)') /\ GoneOK' /\ NumbersOK'
  BY <1>1 DEF Sound, Tidy, Fits, GoneOK, NumbersOK
<1>6. seen'[c] = {}
  BY <1>1, <1>2
<1>7. ASSUME NEW d \in Clients \ {c}
      PROVE  /\ seen'[d] \subseteq seen[d] /\ seen'[d] \subseteq db'["quarantines"]
             /\ At(d, "open") => At(d, "open")'
             /\ ~Restoring(d)
  <2>1. ~Restoring(d)
    BY <1>2, SoleRestorer DEF Sound
  <2>2. db'["quarantines"] = (db["quarantines"] \ gone) \cup image[c]["quarantines"]
    BY <1>1 DEF Kinds
  <2> QED
    BY <1>1, <2>1, <2>2 DEF Sound, Tidy, Working, At
<1> QED
  BY <1>1, <1>3, <1>4, <1>5, <1>6, <1>7, ReturnTidy, StepTidy DEF Sound

LEMMA AbortTidy == ASSUME Sound, NEW c \in Clients, Abort(c) PROVE Tidy'
<1>1. /\ faults' = faults + 1 /\ faults < MaxFaults
      /\ opening' = [opening EXCEPT ![c] = Closed] \/ UNCHANGED opening
  BY DEF Abort
<1>2. \A d \in Clients \ {c} : At(d, "open") => At(d, "open")'
  BY <1>1 DEF Sound, SchemaOK, At
<1>3. CASE call[c] = [op |-> "Restore"] /\ Rollback(c)
  <2>1. pc[c] # "delete"
    BY <1>3 DEF Sound, Tidy, Working
  <2>2. NumbersOK'
    BY <1>1, <1>3, SQLStoreAssumption DEF Rollback, NumbersOK, Sound, Tidy
  <2> QED
    BY <1>2, <1>3, <2>1, <2>2, RollbackTidy
<1>4. CASE call[c] # [op |-> "Restore"]
  <2>1. /\ Return(c) /\ seen' = [seen EXCEPT ![c] = {}]
        /\ UNCHANGED <<db, gone, archive, now, issued>>
    BY <1>4 DEF Abort, Put
  <2>2. ~Restoring(c)
    BY <1>4, CallIs, CallsHave DEF Sound, Tidy, Working, Restoring
  <2>3. OthersIdle(c) /\ seen'[c] = {} /\ \A d \in Clients \ {c} : seen'[d] = seen[d]
    BY <2>1, ReturnAlone DEF Sound, IInv, Functions, PerClient
  <2>4. /\ Fits(db)' /\ (archive' # NoImage => Fits(archive)') /\ Settled
        /\ \A d \in Clients \ {c} :
              seen'[d] \subseteq seen[d] /\ seen'[d] \subseteq db'["quarantines"]
    BY <2>1, <2>3 DEF Sound, Tidy, Fits, Settled, Working
  <2>5. NumbersOK'
    BY <1>1, <2>1, SQLStoreAssumption DEF NumbersOK, Sound, Tidy
  <2>6. GoneOK'
    BY <2>1, <2>2, <2>3 DEF Sound, Tidy, GoneOK, Restoring, OthersIdle
  <2> QED
    BY <1>2, <2>1, <2>3, <2>4, <2>5, <2>6, ReturnTidy, StepTidy DEF Sound
<1> QED
  BY <1>3, <1>4 DEF Abort

LEMMA InvokeTidy == ASSUME Sound, NEW c \in Clients, Invoke(c) PROVE Tidy'
<1>1. PICK m \in Menu[c] :
         /\ call' = [call EXCEPT ![c] = m]
         /\ image' = [image EXCEPT ![c] = CASE m.op = "Restore" -> archive
                                            [] m.op = "Backup"  -> NoRows
                                            [] OTHER            -> NoImage]
         /\ past' = [past EXCEPT ![c] = IF m.op = "Backup" THEN db ELSE NoRows]
         /\ blocks' = [blocks EXCEPT ![c] = Against(db, m)]
  BY Zenon DEF Invoke
<1>2. /\ pc[c] = "idle" /\ At(c, "open") /\ pc' = [pc EXCEPT ![c] = "ready"]
      /\ issued < MaxCalls /\ issued' = issued + 1
      /\ UNCHANGED <<db, gone, archive, stage, seen, now, opening, faults>>
  BY DEF Invoke, Goto, migration
<1>3. PICK pictured :
         /\ image' = [image EXCEPT ![c] = pictured]
         /\ m.op = "Restore" => pictured = archive
         /\ m.op = "Backup" => pictured = NoRows
  <2> DEFINE x == CASE m.op = "Restore" -> archive [] m.op = "Backup" -> NoRows
                    [] OTHER -> NoImage
  <2>1. m.op = "Restore" => x = archive
    <3>1. m.op = "Restore" => m.op # "Backup"
      OBVIOUS
    <3> QED
      BY <3>1
  <2>2. m.op = "Backup" => x = NoRows
    <3>1. m.op = "Backup" => m.op # "Restore"
      OBVIOUS
    <3> QED
      BY <3>1
  <2>3. image' = [image EXCEPT ![c] = x]
    BY <1>1
  <2> HIDE DEF x
  <2> QED
    BY <2>1, <2>2, <2>3
<1>4. m \in Calls /\ m # NoCall /\ Working(c) /\ stage[c] = 0 /\ seen[c] = {}
  <2>1. m \in Calls /\ m # NoCall
    BY SQLStoreAssumption
  <2>2. stage[c] = 0
    BY <1>2 DEF Sound, IInv, ClientOK, BackingUp
  <2> QED
    BY <1>2, <2>1, <2>2 DEF Sound, Tidy, Working
<1>5. /\ pc'[c] = "ready" /\ call'[c] = m /\ image'[c] = pictured
      /\ OthersIdle(c)
  BY <1>1, <1>2, <1>3 DEF Sound, IInv, Functions, PerClient, OthersIdle
<1>6. /\ m.op = "Restore" => (pictured # NoImage => Fits(pictured))
      /\ m.op = "Backup" => Fits(pictured)
  BY <1>3 DEF Sound, Tidy, Fits, NoRows, Kinds
<1>7. Working(c)' /\ Clear(c)'
  BY <1>2, <1>4, <1>5, <1>6 DEF Working, Clear, Restoring, At, Fits
<1>8. NumbersOK'
  BY <1>2, SQLStoreAssumption DEF Sound, Tidy, NumbersOK
<1>9. /\ Fits(db)' /\ (archive' # NoImage => Fits(archive)') /\ Settled
      /\ \A d \in Clients \ {c} :
            /\ seen'[d] \subseteq seen[d] /\ seen'[d] \subseteq db'["quarantines"]
            /\ At(d, "open") => At(d, "open")'
  BY <1>2 DEF Sound, Tidy, Fits, Settled, Working, At
<1>10. GoneOK'
  BY <1>2, <1>5 DEF Sound, Tidy, GoneOK, Restoring, OthersIdle
<1> QED
  BY <1>5, <1>7, <1>8, <1>9, <1>10, StepTidy DEF Sound

(* The clock, and a client that opens the database.                        *)
LEMMA StillTidy ==
    ASSUME Sound, UNCHANGED <<db, gone, archive, pc, call, stage, image, seen, issued, faults>>,
           now' \in Times, \A d \in Clients : At(d, "open") => At(d, "open")'
    PROVE  Tidy'
<1>1. Fits(db)' /\ (archive' # NoImage => Fits(archive)') /\ Settled /\ NumbersOK' /\ GoneOK'
  BY DEF Sound, Tidy, Fits, Settled, NumbersOK, GoneOK, Restoring
<1>2. ASSUME NEW d \in Clients PROVE Working(d)' /\ Clear(d)'
  BY <1>1, OthersTidy DEF Sound, Tidy, Working
<1> QED
  BY <1>1, <1>2 DEF Tidy

LEMMA OpenTidy == ASSUME Sound, NEW c \in Clients, Open(c) PROVE Tidy'
<1>1. /\ UNCHANGED <<db, gone, archive, pc, call, stage, image, seen, now, issued, faults>>
      /\ Opening(c)
  BY DEF Open, client
<1>2. ~At(c, "open")
  BY <1>1 DEF Opening, NewSQLStore, MigrateCount, MigrateExec, MigrateAborted, MigrateRecord,
              MigrateCommit, At
<1>3. \E x : opening' = [opening EXCEPT ![c] = x]
  BY <1>1 DEF Opening, NewSQLStore, MigrateCount, MigrateExec, MigrateAborted, MigrateRecord,
              MigrateCommit, Proceed, Enter, After, Fail
<1>4. \A d \in Clients : At(d, "open") => At(d, "open")'
  BY <1>2, <1>3 DEF Sound, SchemaOK, At
<1> QED
  BY <1>1, <1>4, StillTidy DEF Sound, Tidy, NumbersOK

LEMMA StepKeepsTidy == Sound /\ [Next]_vars => Tidy'
<1> SUFFICES ASSUME Sound, [Next]_vars PROVE Tidy'
  OBVIOUS
<1>1. CASE UNCHANGED vars \/ Finished
  BY <1>1, StillTidy DEF vars, client, Finished, migration, Sound, Tidy, NumbersOK, At
<1>2. CASE Tick
  <2>1. now' \in Times
    BY <1>2, RecordsAssumption DEF Tick, Times, Sound, Tidy, NumbersOK
  <2> QED
    BY <1>2, <2>1, StillTidy DEF Tick, client, migration, At
<1>3. ASSUME NEW c \in Clients,
             \/ Open(c) \/ Invoke(c) \/ Abort(c)
             \/ SaveDecision(c) \/ Revoke(c) \/ Quarantine(c)
             \/ Unquarantine(c) \/ UnquarantineDelete(c)
      PROVE  Tidy'
  BY <1>3, OpenTidy, InvokeTidy, AbortTidy, SaveTidy, UnquarantineTidy, UnquarantineDeleteTidy
<1>4. ASSUME NEW c \in Clients,
             \/ Promote(c) \/ PromoteCheckRevocations(c) \/ PromoteCheckQuarantines(c)
             \/ PromoteInsert(c)
      PROVE  Tidy'
  BY <1>4, PromoteTidy
<1>5. ASSUME NEW c \in Clients,
             \/ Backup(c) \/ TruncateBackup(c) \/ WriteBackup(c)
             \/ Restore(c) \/ RestoreDelete(c) \/ RestoreInsert(c) \/ Commit(c)
      PROVE  Tidy'
  BY <1>5, BackupTidy, WriteBackupTidy, RestoreTidy, CommitTidy
<1> QED
  BY <1>1, <1>2, <1>3, <1>4, <1>5 DEF Next

(* The tables: whatever the replicas write while a Restore is under way,   *)
(* and wherever it fails, a key occurs once in its table, and no row is    *)
(* left deleted once the transaction has ended.                            *)
THEOREM TypeTheorem == Spec => []TypeOK
<1>1. Init => Tidy
  BY TidyInit
<1>2. IInv /\ SchemaOK /\ Tidy /\ [Next]_vars => Tidy'
  BY StepKeepsTidy DEF Sound
<1>3. IInv /\ SchemaOK /\ Tidy => TypeOK
  BY TidyIsTyped DEF Sound
<1> QED
  BY <1>1, <1>2, <1>3, Always, SchemaAlways, PTL DEF Spec
=============================================================================
