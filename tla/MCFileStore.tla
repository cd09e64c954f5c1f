---------------------------- MODULE MCFileStore ----------------------------
(* Instances of FileStore for TLC: who calls what, in how many processes.  *)
EXTENDS FileStoreRefinement, TLC

CONSTANTS t1, t2, t3, server, cli, cli2, dig, prod, dec, q1, q2

Allow  == [id |-> dec, outcome |-> "ALLOW", digest |-> dig, env |-> prod, expires |-> 1]
Deny   == [Allow EXCEPT !.outcome = "DENY"]
Promo  == [decision |-> dec, digest |-> dig, env |-> prod]
RevEnv == [digest |-> dig, env |-> prod]
RevAll == [digest |-> dig, env |-> AnyEnv]
Quar1  == [id |-> q1, digest |-> dig, env |-> prod]
Quar2  == [id |-> q2, digest |-> dig, env |-> AnyEnv]

On(op, r) == [op |-> op, rec |-> r]
Ask(op)   == [op |-> op, digest |-> dig, env |-> prod]
Lift(key) == [op |-> "Unquarantine", key |-> key]
Do(op)    == [op |-> op]

NoRecords == {}
HugeRecords == {RevAll}
OneServer == [t \in Threads |-> server]
Beside    == t1 :> server @@ t2 :> server @@ t3 :> cli
Separate  == t1 :> server @@ t2 :> cli @@ t3 :> cli2

(* One server: promotions against every other operation.                   *)
CoreMenu ==
    t1 :> {On("SaveDecision", Allow), On("SaveDecision", Deny), On("Promote", Promo),
           On("Promote", [Promo EXCEPT !.decision = NoDecision])}
 @@ t2 :> {On("Revoke", RevEnv), On("Quarantine", Quar1), On("Quarantine", Quar2),
           Ask("IsRevoked"), Ask("IsQuarantined")}
 @@ t3 :> {Lift(q1), Lift(dig), Do("Backup"), Do("Restore")}

(* A server and a command on one data directory, under faults; the command *)
(* neither blocks nor promotes.  No Restore, which a fault leaves half     *)
(* done.                                                                   *)
FaultMenu ==
    t1 :> {On("SaveDecision", Allow), On("Promote", Promo)}
 @@ t2 :> {On("Revoke", RevEnv), On("Revoke", RevAll), On("Quarantine", Quar1)}
 @@ t3 :> {On("SaveDecision", Allow), Ask("IsRevoked"), Lift(dig), Do("Backup")}
=============================================================================
