----------------------------- MODULE MCSQLStore -----------------------------
(* An instance of SQLStore for TLC: two replicas and an operator who takes *)
(* and restores backups.                                                   *)
EXTENDS SQLStore, TLC

CONSTANTS r1, r2, ops, dig, prod, dec, q1, id1

Allow == [id |-> dec, outcome |-> "ALLOW", digest |-> dig, env |-> prod, expires |-> 1]
Deny  == [Allow EXCEPT !.outcome = "DENY"]
Promo == [id |-> id1, decision |-> dec, digest |-> dig, env |-> prod]
Rev   == [id |-> id1, digest |-> dig, env |-> prod]
RevAll == [Rev EXCEPT !.env = AnyEnv]
Quar1 == [id |-> q1, digest |-> dig, env |-> prod]
Quar2 == [id |-> q1, digest |-> dig, env |-> AnyEnv]

On(op, r) == [op |-> op, rec |-> r]

Replicas ==
    r1 :> {On("SaveDecision", Allow), On("Promote", Promo),
           [op |-> "Unquarantine", key |-> dig]}
 @@ r2 :> {On("SaveDecision", Deny), On("Revoke", Rev), On("Revoke", RevAll),
           On("Quarantine", Quar1), On("Quarantine", Quar2),
           [op |-> "Unquarantine", key |-> q1]}
 @@ ops :> {[op |-> "Backup"], [op |-> "Restore"]}
=============================================================================
