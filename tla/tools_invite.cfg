SPECIFICATION Spec
CONSTANTS
    Catalog <- MCInviteTools
    Watched = {}
    Silent = {}
    MaxCalls = 1
    MaxFaults = 0
INVARIANT
    DryRunChangesNothing
CHECK_DEADLOCK FALSE
