\* aclose called while a reconnect is in its handshake.
CHECK_DEADLOCK FALSE
SPECIFICATION FairSpec
CONSTANTS
    Closers = {k1}
    Settings <- PlainSettings
    Unlimited = Unlimited
    LastDelay = 3
    MaxSockets = 2
    MaxFrames = 1
PROPERTIES
    AcloseReturns
