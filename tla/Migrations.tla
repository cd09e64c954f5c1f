----------------------------- MODULE Migrations -----------------------------
(***************************************************************************)
(* NewSQLStore and Migrate (internal/store/postgres.go, migrations.go):    *)
(* processes that open one PostgreSQL database bring its schema up to date *)
(* first, each migration in a transaction, statement by statement.         *)
(*                                                                         *)
(* A statement that fails aborts its transaction: every later one fails    *)
(* too.  CREATE TABLE IF NOT EXISTS waits for a transaction that is        *)
(* creating the table, and is refused if that one commits.                 *)
(***************************************************************************)
EXTENDS Naturals

CONSTANTS
    Clients,  \* the processes that open the store
    Before    \* which migrations the database may have been through already

migrations == 1 .. 2

ASSUME MigrationsAssumption == Before \subseteq {1 .. v : v \in 0 .. 2}

VARIABLES
    schema,   \* committed: the migrations whose tables exist, and those on record
    opening   \* how far each process is

migration == <<schema, opening>>

Closed == [step |-> "closed", version |-> 1]

At(c, s) == opening[c].step = s

Enter(c, s, v) == opening' = [opening EXCEPT ![c] = [step |-> s, version |-> v]]

Proceed(c, s) == Enter(c, s, opening[c].version) /\ UNCHANGED schema

(* NewSQLStore returns the error and the process ends.                     *)
Fail(c) == opening' = [opening EXCEPT ![c] = Closed] /\ UNCHANGED schema

(* Go on with the migration after v.                                       *)
After(c, v) == IF v + 1 \in migrations THEN Enter(c, "count", v + 1)
               ELSE Enter(c, "open", v)

(* Mutant: any record will do.                                             *)
CountAny(v) == schema.recorded # {}

(* The SELECT for this version counts more than 0 rows.                     *)
Count(v) == v \in schema.recorded

-----------------------------------------------------------------------------

NewSQLStore(c) == At(c, "closed") /\ Enter(c, "count", 1) /\ UNCHANGED schema

(* The table schema_migrations is one of the first migration's.  The error *)
(* of a SELECT on a table that does not exist is not looked at.            *)
MigrateCount(c) ==
    LET v == opening[c].version
    IN  /\ At(c, "count")
        /\ \/ 1 \notin schema.made /\ Proceed(c, "aborted")
           \/ 1 \in schema.made /\ Count(v) /\ After(c, v) /\ UNCHANGED schema
           \/ 1 \in schema.made /\ ~Count(v) /\ Proceed(c, "exec")

MigrateExec(c) ==
    LET v == opening[c].version
    IN  /\ At(c, "exec")
        /\ \A d \in Clients \ {c} :
              ~(opening[d].version = v /\ opening[d].step \in {"record", "commit"})
        /\ \/ Proceed(c, "record")
           \/ v \in schema.made /\ Fail(c)

MigrateAborted(c) == At(c, "aborted") /\ Fail(c)

(* INSERT INTO schema_migrations: the version is the primary key.          *)
MigrateRecord(c) ==
    /\ At(c, "record")
    /\ \/ opening[c].version \notin schema.recorded /\ Proceed(c, "commit")
       \/ opening[c].version \in schema.recorded /\ Fail(c)

MigrateCommit(c) ==
    LET v == opening[c].version
    IN  /\ At(c, "commit")
        /\ schema' = [made |-> schema.made \cup {v}, recorded |-> schema.recorded \cup {v}]
        /\ After(c, v)

Opening(c) ==
    \/ NewSQLStore(c) \/ MigrateCount(c) \/ MigrateExec(c) \/ MigrateAborted(c)
    \/ MigrateRecord(c) \/ MigrateCommit(c)

MigrationInit ==
    /\ \E done \in Before : schema = [made |-> done, recorded |-> done]
    /\ opening = [c \in Clients |-> Closed]

Opened == \A c \in Clients : At(c, "open")

OpeningNext == (\E c \in Clients : Opening(c)) \/ (Opened /\ UNCHANGED migration)

(* Nothing but opening: a process that failed is started again.            *)
OpeningSpec ==
    /\ MigrationInit
    /\ [][OpeningNext]_migration
    /\ \A c \in Clients : WF_migration(Opening(c))

-----------------------------------------------------------------------------
(* Properties.                                                             *)

(* NewSQLStore: a process that got its store finds all tables, those of    *)
(* the migrations it left to another process included.                     *)
OpenIsMigrated == \A c \in Clients : At(c, "open") => migrations \subseteq schema.made

(* README "PostgreSQL database persistence with embedded SQL schema        *)
(* migrations": a process that keeps trying opens the store, whichever     *)
(* others it waits for, or is refused by, while it migrates.               *)
StoreOpens == \A c \in Clients : <>At(c, "open")
=============================================================================
