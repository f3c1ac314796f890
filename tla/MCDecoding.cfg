\* A value is read twice and that is all.
CHECK_DEADLOCK FALSE
SPECIFICATION Spec
CONSTANTS
    Sent <- TheSent
    Lines <- TheLines
INVARIANTS
    RoundTrip
    KnownKept
    SameDay
