---------------------------- MODULE AtomicStore ----------------------------
(***************************************************************************)
(* What internal/store/models.go's Store interface promises its callers:   *)
(* each call takes effect at one moment between its invocation and its     *)
(* answer, on a database of four sets of records.  No locks, files or      *)
(* steps.                                                                  *)
(***************************************************************************)
EXTENDS GovernanceRecords

CONSTANTS Threads, Calls, NoCall, NoImage

VARIABLES
    db,       \* the records of each kind
    archive,  \* the backup file: a database, or NoImage if it is unusable
    status,   \* "idle", "called", or "applied" once the call took effect
    call, answer,
    image     \* the database a Backup has taken or a Restore will put back

vars == <<db, archive, status, call, answer, image>>

DBs == [Kinds -> SUBSET Records]

Init ==
    /\ db = [k \in Kinds |-> {}]
    /\ archive = NoImage
    /\ status = [t \in Threads |-> "idle"]
    /\ call = [t \in Threads |-> NoCall]
    /\ answer = [t \in Threads |-> "none"]
    /\ image = [t \in Threads |-> NoImage]

Called(t, op) == status[t] = "called" /\ call[t].op = op

Answer(t, a) ==
    /\ status' = [status EXCEPT ![t] = "idle"]
    /\ call' = [call EXCEPT ![t] = NoCall]
    /\ image' = [image EXCEPT ![t] = NoImage]
    /\ answer' = [answer EXCEPT ![t] = a]

Apply(t, newdb) ==
    /\ db' = newdb
    /\ status' = [status EXCEPT ![t] = "applied"]
    /\ UNCHANGED <<archive, call, answer, image>>

Invoke(t) ==
    /\ status[t] = "idle"
    /\ \E c \in Calls :
          /\ call' = [call EXCEPT ![t] = c]
          /\ image' = [image EXCEPT ![t] = IF c.op = "Restore" THEN archive
                                                               ELSE NoImage]
    /\ status' = [status EXCEPT ![t] = "called"]
    /\ answer' = [answer EXCEPT ![t] = "none"]
    /\ UNCHANGED <<db, archive>>

Insert(t, op, k) == Called(t, op) /\ Apply(t, [db EXCEPT ![k] = @ \cup {call[t].rec}])

SaveDecision(t) == Insert(t, "SaveDecision", "decisions")
Revoke(t)       == Insert(t, "Revoke", "revocations")
Quarantine(t)   == Insert(t, "Quarantine", "quarantines")

(* A promotion is recorded only on an ALLOW decision for the same artifact *)
(* and environment, and against no revocation or quarantine.               *)
Promote(t) ==
    /\ Insert(t, "Promote", "promotions")
    /\ \E d \in db["decisions"] :
          d.id = call[t].rec.decision /\ Supports(d, call[t].rec)
    /\ \A r \in db["revocations"] \cup db["quarantines"] :
          ~AppliesTo(r, call[t].rec.digest, call[t].rec.env)

Unquarantine(t) ==
    /\ Called(t, "Unquarantine")
    /\ Apply(t, [db EXCEPT !["quarantines"] =
                    {q \in @ : call[t].key \notin {q.id, q.digest}}])

Restore(t) ==
    /\ Called(t, "Restore")
    /\ image[t] # NoImage
    /\ Apply(t, image[t])

(* Revocations of the environment asked about are always seen; of those of *)
(* every environment the interface promises only that nothing is made up.  *)
IsRevoked(t) ==
    LET c == call[t]
    IN  /\ Called(t, "IsRevoked")
        /\ \/ /\ \E r \in db["revocations"] : AppliesTo(r, c.digest, c.env)
              /\ Answer(t, "yes")
           \/ /\ \A r \in db["revocations"] : ~(r.digest = c.digest /\ r.env = c.env)
              /\ Answer(t, "no")
        /\ UNCHANGED <<db, archive>>

IsQuarantined(t) ==
    LET c == call[t]
    IN  /\ Called(t, "IsQuarantined")
        /\ Answer(t, IF \E q \in db["quarantines"] : AppliesTo(q, c.digest, c.env)
                     THEN "yes" ELSE "no")
        /\ UNCHANGED <<db, archive>>

(* Backup takes the whole database at one moment, then replaces the file.  *)
Backup(t) ==
    /\ Called(t, "Backup")
    /\ image' = [image EXCEPT ![t] = db]
    /\ status' = [status EXCEPT ![t] = "applied"]
    /\ UNCHANGED <<db, archive, call, answer>>

TruncateArchive(t) ==
    /\ status[t] = "applied"
    /\ call[t].op = "Backup"
    /\ archive' = NoImage
    /\ UNCHANGED <<db, status, call, answer, image>>

WriteArchive(t) ==
    /\ status[t] = "applied"
    /\ call[t].op = "Backup"
    /\ archive' = image[t]
    /\ Answer(t, "ok")
    /\ UNCHANGED db

(* A Promote or a Restore may be refused, without any effect.              *)
Refuse(t) ==
    /\ status[t] = "called"
    /\ call[t].op \in {"Promote", "Restore"}
    /\ Answer(t, "error")
    /\ UNCHANGED <<db, archive>>

Respond(t) ==
    /\ status[t] = "applied"
    /\ call[t].op # "Backup"
    /\ Answer(t, "ok")
    /\ UNCHANGED <<db, archive>>

Next == \E t \in Threads :
    \/ Invoke(t) \/ Refuse(t) \/ Respond(t)
    \/ SaveDecision(t) \/ Promote(t) \/ Revoke(t) \/ Quarantine(t)
    \/ Unquarantine(t) \/ Restore(t) \/ IsRevoked(t) \/ IsQuarantined(t)
    \/ Backup(t) \/ TruncateArchive(t) \/ WriteArchive(t)

Spec == Init /\ [][Next]_vars
=============================================================================
