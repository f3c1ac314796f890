\* One call, which ends.
CHECK_DEADLOCK FALSE
SPECIFICATION ServicesSpec
CONSTANTS
    Calls <- TheCalls
    Listings <- TheListings
    NewRecords <- TheNew
    MaxPageSize = 2
    MaxChanges = 2
    MaxAttempts = 3
INVARIANTS
    EachOnce
    TypedAsPromised
    LookupResolves
PROPERTIES
    CallEnds
