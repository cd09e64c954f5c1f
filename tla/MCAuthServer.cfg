SPECIFICATION Spec
CONSTANTS
    api = api
    hmac = hmac
    rsa1 = rsa1
    rsa2 = rsa2
    kid1 = kid1
    kid2 = kid2
    us = us
    them = them
    Tokens = {api}
    NoToken = NoToken
    Secrets = {hmac}
    NoSecret = NoSecret
    RSAKeys = {rsa1, rsa2}
    Kids = {kid1, kid2}
    Names = {us, them}
    NoName = NoName
    OtherRole = "operator"
    Leeway = 1
    MaxInt = 5
    MaxSkew = 1
    MaxTime = 4
    Configurations <- Setups
    Arriving <- Incoming
    Endpoints = {"evaluate", "revoke", "getRevocations"}
    Documents <- Published
    Granted = {"auditor", "security-reviewer"}
    MaxChanges = 3
INVARIANTS
    TypeOK
    OnlyTheEntitledAreServed
    NoFalseRefusals
    ReadyIffServable
PROPERTY RotationStrandsNoToken
