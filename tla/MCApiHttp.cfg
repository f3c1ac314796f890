\* Two requests at once, interchangeable; when both have ended there is nothing to do.
CHECK_DEADLOCK FALSE
SPECIFICATION Spec
SYMMETRY Symmetry
CONSTANTS
    Requests = {r1, r2}
    Policies <- TriedPolicies
    MaxMint = 3
INVARIANTS
    AtMostOnce
    EndTellsEffect
    ReplacedOnce
