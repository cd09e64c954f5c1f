SPECIFICATION Spec
CONSTANTS
    s1 = s1
    s2 = s2
    cmd = cmd
    again = again
    dig = dig
    prod = prod
    skil = skil
    write = write
    k1 = k1
    api = api
    Keys = {k1}
    Authorities = {}
    Words = {}
    Star = Star
    Absent = Absent
    BadPEM = BadPEM
    Tokens = {api}
    NoToken = NoToken
    Secrets = {}
    NoSecret = NoSecret
    RSAKeys = {}
    Kids = {}
    Names = {}
    NoName = NoName
    OtherRole = "operator"
    Leeway = 1
    MaxInt = 5
    Digests = {dig}
    Envs = {prod}
    AnyEnv = AnyEnv
    DecisionIDs <- IDs
    NoDecision = NoDecision
    QuarantineIDs = {q1, q2}
    MaxTime = 2
    BadDigest = BadDigest
    Providers = {skil}
    Capabilities = {write}
    MaxVersion = 0
    BadVersion = BadVersion
    NoMaxAge = NoMaxAge
    Lifetime = 1
    Workers = {s1, s2, cmd, again}
    Role <- WorkerRoles
    PolicyFiles <- TwoPolicies
    Inputs <- Arrivals
    Deployments <- Production
    Callers <- Bearers
    Server = server
    Homes = {server, release}
    NoJob = NoJob
    MaxCalls = 3
    MaxFaults = 1
PROPERTY PromotionsFollowThePolicy
SYMMETRY Goroutines
