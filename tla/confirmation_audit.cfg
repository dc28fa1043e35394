CONSTANTS
    c1 = c1  c2 = c2  c3 = c3  t1 = t1  t2 = t2
    delete = delete  invoice = invoice  invite = invite  log = log  None = None
    Calls = {c1, c2, c3}
    Payloads = {delete, invoice, invite, log}
    HighRisk = {delete, invoice, invite}
    Central = {invoice}
    Heedless = {invite}
    Tokens = {t1, t2}
    TTL = 2
    MaxTime = 3
    FamilyOf <- RiskFamilyOf
    WriteCap = 2
    HighCap = 1
SPECIFICATION Spec
SYMMETRY Symmetric
CHECK_DEADLOCK FALSE
INVARIANT
    ConfirmedIsAudited
