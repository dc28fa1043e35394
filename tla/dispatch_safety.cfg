CONSTANTS
    r1 = r1  r2 = r2  r3 = r3  x = x  y = y
    a = a  b = b  t = t  None = None
    Calls = {r1, r2, r3}
    Async = {y}
    Sync = {x}
    Initializes = {x}
    Ids = {a, b}
    Tokens = {t}
    IdOf <- OwnIdOf
    TokenOf <- OwnTokenOf
    FamilyOf <- OwnFamilyOf
    MaxInFlight = 2
    WriteCap = 1
    HighCap = 1
    OutCap = 1
SPECIFICATION Spec
INVARIANTS
    TypeOK
    ConcurrencyBounded
    RunningIsCancellable
    InputEndLosesNothing
    WriteErrorSurfaces
