------------------------- MODULE GovernanceRecords -------------------------
(***************************************************************************)
(* The four kinds of record skgate keeps, reduced to the fields its code   *)
(* branches on.  Names of people, reasons, incident numbers and the times  *)
(* at which a record was made are left out: nothing reads them back.       *)
(***************************************************************************)
EXTENDS Naturals

CONSTANTS
    Digests,        \* artifact digests
    Envs,           \* environments a request may name
    AnyEnv,         \* the empty string: a record for every environment
    DecisionIDs,    \* identifiers of admission decisions
    NoDecision,     \* the empty decision_id
    QuarantineIDs,  \* identifiers of quarantine records
    MaxTime         \* bound on the clock

ASSUME RecordsAssumption ==
    /\ AnyEnv \notin Envs
    /\ NoDecision \notin DecisionIDs
    /\ QuarantineIDs \cap Digests = {}
    /\ MaxTime \in Nat \ {0}

(* The clock starts at 1, so that 0 can be Go's zero time.                 *)
Times == 1 .. MaxTime

Outcomes == {"ALLOW", "REASSESS", "REVIEW", "DENY"}

(* expires = 0 is a decision that never expires (ExpiresAt.IsZero()).      *)
Decisions ==
    [id : DecisionIDs, outcome : Outcomes, digest : Digests, env : Envs,
     expires : {0} \cup Times]

Promotions ==
    [decision : DecisionIDs \cup {NoDecision}, digest : Digests, env : Envs]

Revocations == [digest : Digests, env : Envs \cup {AnyEnv}]

Quarantines == [id : QuarantineIDs, digest : Digests, env : Envs \cup {AnyEnv}]

Kinds == {"decisions", "promotions", "revocations", "quarantines"}

(* The records of kind k.                                                  *)
Shape(k) == [decisions   |-> Decisions,   promotions  |-> Promotions,
             revocations |-> Revocations, quarantines |-> Quarantines][k]

Records == UNION {Shape(k) : k \in Kinds}

(* A revocation or quarantine concerns digest d in environment e.          *)
AppliesTo(r, d, e) == r.digest = d /\ r.env \in {AnyEnv, e}

(* The tests Promote makes of the decision a promotion names, at time t.   *)
Expired(d, t) == d.expires # 0 /\ t > d.expires

Supports(d, p) ==
    /\ d.outcome = "ALLOW"
    /\ d.digest = p.digest
    /\ d.env = p.env
=============================================================================
