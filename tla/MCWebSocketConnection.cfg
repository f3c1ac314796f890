\* Two sockets and two tasks in aclose under every policy; a connection nobody uses
\* any more stops.
CHECK_DEADLOCK FALSE
SPECIFICATION FairSpec
CONSTANTS
    Closers = {k1, k2}
    Settings <- StreamSettings
    Unlimited = Unlimited
    LastDelay = 3
    MaxSockets = 2
    MaxFrames = 3
INVARIANTS
    OneSocketOpen
    ClosedMeansClosed
    LaterCallsSeeTheEnd
PROPERTIES
    FramesInOrder
    NoSilentGap
    OutageEnds
    AcloseOutwaitsReader
