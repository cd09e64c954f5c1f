SPECIFICATION Spec
CONSTANTS
    t1 = t1
    t2 = t2
    t3 = t3
    server = server
    cli = cli
    cli2 = cli2
    dig = dig
    prod = prod
    dec = dec
    q1 = q1
    q2 = q2
    Digests = {dig}
    Envs = {prod}
    AnyEnv = AnyEnv
    DecisionIDs = {dec}
    NoDecision = NoDecision
    QuarantineIDs = {q1, q2}
    MaxTime = 2
    Threads = {t1, t2, t3}
    Procs = {server, cli}
    Home <- Beside
    Menu <- FaultMenu
    Oversized <- HugeRecords
    Garbage = Garbage
    NoCall = NoCall
    MaxCalls = 4
    MaxFaults = 2
INVARIANTS
    NoPromotionPastRevocation
    AppendOnlyFilesKeepTheirRecords
PROPERTIES
    NotRevokedIsSound
