CONSTANTS
    e1 = e1  n1 = n1  c1 = c1  c2 = c2  
    one = one  arr = arr  arrNull = arrNull  Null = Null
    Key = {a, b}
    Atom = {one, arr, arrNull, Null}
    NullArrays = {arrNull}
    Absent = Absent  Unknown = Unknown  Broadcast = Broadcast
    Notifier = {n1}
    Entry = {e1}
    Week = {1}
    Uri <- MCUri
    Shape <- Shapes
    Interest <- MCInterest
    Call = {c1, c2}
    MaxInFlight = 2
    CacheCap = 1
SPECIFICATION Spec
SYMMETRY Symmetric
CHECK_DEADLOCK FALSE
INVARIANTS
    TypeOK
    RefcountExact
    CacheIsBounded
    SettledInSync
    DeltaRoundTrips
