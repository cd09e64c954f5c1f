---------------------------- MODULE Attestation ----------------------------
(***************************************************************************)
(* internal/crypto/attestation and the certificate pools of internal/trust:*)
(* whether a payload that comes with a request verifies at time t.  Who    *)
(* made a signature and over what is part of the payload; the cryptography *)
(* and the encodings are left out.                                         *)
(***************************************************************************)
EXTENDS GovernanceRecords, SequencesExt

CONSTANTS
    BadDigest,     \* a subject digest that is not sha256:<64 hex digits>
    Keys,          \* public keys
    Authorities,   \* root certificates
    Words, Star,   \* identities are made of words; Star is "*"
    Absent,        \* a payload, certificate or key that is missing
    BadPEM         \* one that does not parse

ASSUME AttestationAssumption ==
    /\ BadDigest \notin Digests
    /\ Star \notin Words
    /\ {Absent, BadPEM} \cap (Keys \cup Authorities) = {}

(* An identity in a certificate or a policy.  The PEM text of a key is an  *)
(* identity of one word, the key.                                          *)
Identities == Seq(Words \cup Keys \cup {Star})

(* forServers: the extended key usages, if there are any, admit server     *)
(* authentication.                                                         *)
Certificates ==
    [forServers : BOOLEAN, notBefore : Times, notAfter : Times, root : Authorities, key : Keys,
     names : SUBSET Identities]

SigstoreBundles ==
    [cert : Certificates \cup {BadPEM, Absent}, key : Keys \cup {BadPEM, Absent},
     signedBy : Keys, over : Digests \cup {BadDigest}]

(* signers are the keys whose signature on type and payload is genuine;    *)
(* inToto says whether the payload has the in-toto type.                   *)
DSSEEnvelopes == [inToto : BOOLEAN, signers : SUBSET Keys]

(* origin: a builder id or a repository is given.                          *)
GitHubAttestations ==
    [subject : Digests \cup {BadDigest}, origin : BOOLEAN,
     cert : Certificates \cup {BadPEM, Absent}]

(* What is missing is none of the things that may be there.                *)
ASSUME AbsentAssumption ==
    /\ Absent # BadPEM
    /\ Absent \notin Certificates
    /\ Absent \notin SigstoreBundles
    /\ Absent \notin DSSEEnvelopes
    /\ Absent \notin GitHubAttestations

-----------------------------------------------------------------------------
(* internal/trust.                                                         *)

(* A file of the trust directory: its extension and the certificate or key *)
(* it holds, BadPEM for anything else or if it cannot be read.             *)
TrustFiles == [ext : {".crt", ".pem", ".pub", ".key"},
               holds : Authorities \cup Keys \cup {BadPEM}]

NewTrustRoots == [FulcioRoots |-> {}, GitHubAttestationRoots |-> {}]

LoadFromDir(dir) ==
    LET pool == {f.holds : f \in {g \in dir : g.ext \in {".crt", ".pem"}}}
                    \cap Authorities
    IN  [FulcioRoots |-> pool, GitHubAttestationRoots |-> pool]

-----------------------------------------------------------------------------
(* internal/crypto/attestation.                                            *)

(* A pattern with one "*" stands for a prefix and a suffix, one that ends  *)
(* in "*" for the prefix before that.                                      *)
pathMatch(pattern, name) ==
    \E i \in DOMAIN pattern :
        /\ {j \in DOMAIN pattern : pattern[j] = Star} = {i}
        /\ IsPrefix(SubSeq(pattern, 1, i - 1), name)
        /\ IsSuffix(SubSeq(pattern, i + 1, Len(pattern)), name)

matchIdentity(certId, trustedId) ==
    \/ certId = trustedId
    \/ /\ trustedId # <<>>
       /\ Last(trustedId) = Star
       /\ IsPrefix(Front(trustedId), certId)
    \/ pathMatch(trustedId, certId)

(* now.Before(cert.NotBefore) || now.After(cert.NotAfter) refuses.         *)
InForce(cert, t) == cert.notBefore <= t /\ t <= cert.notAfter

(* A certificate is preferred to a bare key, which names nobody.           *)
VerifySigstore(bundle, digest, trusted, roots, t) ==
    LET cert == bundle.cert
    IN  IF cert # Absent
        THEN /\ cert # BadPEM
             /\ InForce(cert, t)
             /\ cert.root \in roots.FulcioRoots
             /\ bundle.signedBy = cert.key
             /\ bundle.over = digest
             /\ trusted # <<>> =>
                   \E n \in cert.names, i \in DOMAIN trusted :
                       matchIdentity(n, trusted[i])
        ELSE /\ bundle.key \in Keys
             /\ bundle.signedBy = bundle.key
             /\ bundle.over = digest
             /\ trusted = <<>>

(* publicKeyPEM is the text of an identity.                                *)
VerifyDSSE(env, publicKeyPEM) == \E k \in env.signers : publicKeyPEM = <<k>>

(* Without KeyUsages in its options cert.Verify asks for server            *)
(* authentication; VerifySigstore passes ExtKeyUsageAny.                   *)
VerifyGitHubAttestation(att, digest, roots, t) ==
    /\ att.subject = digest
    /\ att.origin
    /\ att.cert # Absent =>
          /\ att.cert # BadPEM
          /\ InForce(att.cert, t)
          /\ att.cert.forServers
          /\ att.cert.root \in roots.GitHubAttestationRoots
=============================================================================
