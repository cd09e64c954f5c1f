------------------------- MODULE MCAdmissionOrder -------------------------
(* Instances of AdmissionOrder for TLC: two artifacts that start admitted  *)
(* and one that starts for review, under a lax and a strict policy.        *)
EXTENDS AdmissionOrder

CONSTANTS dig, prod, dev, skil, scan, write, net, k1, k2, ca, repo, main

Lax ==
    [environments |-> {prod, dev}, provider |-> skil, minimumVersion |-> <<0, 0, 0>>,
     maximumAge |-> NoMaxAge, requireComplete |-> FALSE, signatures |-> FALSE,
     trustedIdentities |-> <<<<k1>>, <<repo, main>>>>, provenance |-> FALSE,
     maximumRisk |-> "critical", deny |-> {},
     approvalRequired |-> {}]

Strict ==
    [environments |-> {prod}, provider |-> skil, minimumVersion |-> <<0, 1, 0>>,
     maximumAge |-> 2, requireComplete |-> TRUE, signatures |-> TRUE,
     trustedIdentities |-> <<<<k1>>, <<repo, Star>>>>, provenance |-> TRUE,
     maximumRisk |-> "medium", deny |-> {}, approvalRequired |-> {write}]

Approval == [digest |-> dig, env |-> AnyEnv, capability |-> write, expires |-> 3]

Directory == {[ext |-> ".pem", holds |-> ca], [ext |-> ".pub", holds |-> k1]}

Certificate ==
    [forServers |-> TRUE, notBefore |-> 1, notAfter |-> 3, root |-> ca, key |-> k2,
     names |-> {<<repo, main>>}]

Good ==
    [digest |-> dig, env |-> prod, evidenceFor |-> dig, provider |-> skil,
     version |-> <<1, 0, 1>>, completed |-> 1, complete |-> TRUE, passed |-> TRUE,
     sigstore |-> [cert |-> Certificate, key |-> Absent, signedBy |-> k2, over |-> dig],
     dsse |-> [inToto |-> TRUE, signers |-> {k1}],
     github |-> [subject |-> dig, origin |-> TRUE, cert |-> Certificate],
     risk |-> "low", capabilities |-> <<write>>, approvals |-> {},
     approvalRecords |-> {Approval}]

Starts == {[policy |-> Lax, request |-> [Good EXCEPT !.approvals = {write, net}]],
           [policy |-> Strict, request |-> Good],
           [policy |-> Strict, request |-> [Good EXCEPT !.approvalRecords = {}]]}

ASSUME \A n \in {<<>>, <<repo>>, <<repo, main>>, <<main, repo, main>>} :
    /\ matchIdentity(n, <<Star>>)
    /\ matchIdentity(n, <<repo, Star>>) = IsPrefix(<<repo>>, n)
    /\ matchIdentity(n, <<Star, main>>) = IsSuffix(<<main>>, n)
    /\ matchIdentity(n, <<Star, main, Star>>) = (n = <<Star, main, Star>>)
=============================================================================
