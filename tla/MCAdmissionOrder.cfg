SPECIFICATION Spec
CONSTANTS
    dig = dig
    prod = prod
    dev = dev
    skil = skil
    scan = scan
    write = write
    net = net
    k1 = k1
    k2 = k2
    ca = ca
    repo = repo
    main = main
    Keys = {k1, k2}
    Authorities = {ca}
    Words = {repo, main}
    Star = Star
    Absent = Absent
    BadPEM = BadPEM
    TrustDir <- Directory
    Digests = {dig}
    Envs = {prod, dev}
    AnyEnv = AnyEnv
    DecisionIDs = {}
    NoDecision = NoDecision
    QuarantineIDs = {}
    MaxTime = 4
    BadDigest = BadDigest
    Providers = {skil, scan}
    Capabilities = {write, net}
    MaxVersion = 1
    BadVersion = BadVersion
    NoMaxAge = NoMaxAge
    Lifetime = 1
    Start <- Starts
    MaxChanges = 3
INVARIANT OutcomeIsTheWorst
PROPERTY NeverLoosens
