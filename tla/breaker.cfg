CONSTANTS
    r1 = r1  r2 = r2  r3 = r3  get = get  post = post
    Callers = {r1, r2, r3}
    Keys = {get, post}
    KeyOf <- MixedKeyOf
    Idempotent = {get}
    FailureThreshold = 2
    OpenDuration = 1
    HalfOpenProbes = 1
    MaxRetries = 1
SPECIFICATION FairSpec
INVARIANTS
    TypeOK
    HalfOpenIsProbed
PROPERTY
    Recovers
