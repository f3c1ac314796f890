\* Three writers, two of them in one process with two threads; each updates
\* the file once and then the system stops.
CHECK_DEADLOCK FALSE
SPECIFICATION FairSpec
CONSTANTS
    p1 = p1
    p2 = p2
    w1 = w1
    w2 = w2
    w3 = w3
    None = None
    Writers = {w1, w2, w3}
    Procs = {p1, p2}
    Home <- TwoAndOne
    Pool = 2
PROPERTIES
    ImplementsAtomicFile
    TurnsTaken
