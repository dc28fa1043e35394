SPECIFICATION Spec
CONSTANTS
    Catalog <- MCCatalog
    Watched <- MCWatched
    Silent <- MCSilent
    MaxCalls = 3
    MaxFaults = 3
INVARIANTS
    TypeOK
    PureCalls
    RefusedChangesNothing
    SuccessIsComplete
    RetryConverges
    ChangesArePublished
    ClaimsAreTrue
PROPERTIES
    DeletionIsConfirmed
CHECK_DEADLOCK FALSE
