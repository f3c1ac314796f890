\* Two callers, two refresh tokens and a file that may go out of use.
SPECIFICATION Spec
CONSTANTS
    ro = ro
    rw = rw
    None = None
    Refresh = {ro, rw}
    ScopeOf <- Issued
    ExpiresAt <- Expiry
    Skew = 1
    Life = 2
    MaxCalls = 2
    MaxLate = 1
    MaxMint = 2
    MaxTime = 1
INVARIANTS
    NoRejectedReuse
    LeastPrivilege
    InvalidatedStaysDropped
    HolderGoesOn
PROPERTIES
    NoNeedlessExchange
