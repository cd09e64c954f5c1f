SPECIFICATION Spec
CONSTANTS
    r1 = r1
    r2 = r2
    ops = ops
    dig = dig
    prod = prod
    dec = dec
    q1 = q1
    id1 = id1
    Digests = {dig}
    Envs = {prod}
    AnyEnv = AnyEnv
    DecisionIDs = {dec}
    NoDecision = NoDecision
    QuarantineIDs = {q1}
    MaxTime = 2
    RowIDs = {id1}
    Clients = {r1, r2, ops}
    Before = {{}, {1}}
    Menu <- Replicas
    NoCall = NoCall
    NoImage = NoImage
    MaxCalls = 5
    MaxFaults = 1
INVARIANTS
    TypeOK
    PromotionIsTimely
    PromotionHasItsDecision
    BackupHoldsThePast
    OpenIsMigrated
PROPERTY RestoreIsAtomic
