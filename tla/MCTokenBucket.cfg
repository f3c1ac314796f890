\* Two callers share a bucket of a token and a half; sleepers are up to a
\* tick early or late; the clock stops once everybody is served.
CHECK_DEADLOCK FALSE
SPECIFICATION FairSpec
CONSTANTS
    Callers = {c1, c2}
    Cost = 2
    Capacity = 3
    Delays = {1, 3}
    MaxEarly = 1
    MaxLate = 1
    MaxOps = 4
    LastArrival = 3
    MaxTime = 18
INVARIANTS
    KnownBlockServed
PROPERTIES
    ImplementsRateBudget
    EveryCallerServed
