------------------------------- MODULE MCGate -------------------------------
(* Instances of Gate for TLC: two goroutines of a server, an evaluate and  *)
(* a reassess command, on one artifact.  The server is in production, with *)
(* a token that its callers know, or without one.                          *)
EXTENDS Gate, TLC

CONSTANTS s1, s2, cmd, again, dig, prod, skil, write, k1, api

WorkerRoles == s1 :> "serve" @@ s2 :> "serve" @@ cmd :> "evaluate" @@ again :> "reassess"

IDs == Nat

(* The two goroutines of the server are interchangeable.                   *)
Goroutines == Permutations({s1, s2})

Open ==
    [environments |-> {prod}, provider |-> skil, minimumVersion |-> <<0, 0, 0>>,
     maximumAge |-> 0, requireComplete |-> TRUE, signatures |-> FALSE,
     trustedIdentities |-> <<>>, provenance |-> FALSE, maximumRisk |-> "medium", deny |-> {},
     approvalRequired |-> {write}]

(* Asks for signatures, which a reassessment never has.                    *)
Signed == [Open EXCEPT !.signatures = TRUE, !.trustedIdentities = <<<<k1>>>>]

Good ==
    [digest |-> dig, env |-> prod, evidenceFor |-> dig, provider |-> skil,
     version |-> <<0, 0, 0>>, completed |-> 1, complete |-> TRUE, passed |-> TRUE,
     sigstore |-> Absent, dsse |-> [inToto |-> TRUE, signers |-> {k1}], github |-> Absent,
     risk |-> "low", capabilities |-> <<>>, approvals |-> {}, approvalRecords |-> {}]

(* Needs an approval it lacks.                                             *)
Unapproved == [Good EXCEPT !.capabilities = <<write>>]

TwoPolicies == {Open, Signed}
Arrivals    == {Good, Unapproved}

Production == {[production |-> TRUE, token |-> t] : t \in {api, NoToken}}
Bearers    == {[kind |-> "none"], [kind |-> "token", token |-> api]}
=============================================================================
