CONSTANTS
    c1 = c1  c2 = c2  o1 = o1  o2 = o2  o3 = o3
    p = p  q = q  m = m  None = None
    Caller = {c1, c2}
    Object = {o1, o2, o3}
    Name = {p, q, m}
    Other = {}
    Lists <- Loose
    User = {m}
    Email = {m}
    TTL = 1
    Threshold = 1
    PageSize = 1
    MaxRows = 2
    StopPages = 3
    MaxTime = 1
SPECIFICATION Spec
SYMMETRY Symmetric
CHECK_DEADLOCK FALSE
INVARIANTS
    TypeOK
    AnswersAreRecent
    RefusalsAreFresh
PROPERTIES
    GrowsWithLiveNamesOnly
