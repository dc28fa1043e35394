CONSTANTS
    r1 = r1  r2 = r2  r3 = r3  x = x  y = y
    a = a  b = b  t = t  None = None
    Calls = {r1, r2}
    Async = {}
    Sync = {x, y}
    Initializes = {x, y}
    Ids = {a, b}
    Tokens = {t}
    IdOf <- SharedIdOf
    TokenOf <- SharedTokenOf
    FamilyOf <- SharedFamilyOf
    MaxInFlight = 1
    WriteCap = 1
    HighCap = 1
    OutCap = 1
SPECIFICATION FairSpec
INVARIANT
    AnsweredHoldsNothing
PROPERTIES
    ImplementsExchange
    CallsEnd
    LoopReadsOn
    RunReturns
