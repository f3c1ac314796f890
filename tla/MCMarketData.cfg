\* Two callers, a limit of two subscriptions, two sockets.
CHECK_DEADLOCK FALSE
SPECIFICATION FairSpec
CONSTANTS
    q1 = q1
    q2 = q2
    b1 = b1
    Callers = {c1, c2}
    Hook = hook
    KeysOf <- ThreeKeys
    MaxInstruments = 2
    Presets <- FactoryPresets
    MaxSockets = 2
    MaxChanges = 3
INVARIANTS
    RegistryServed
PROPERTIES
    SentOnceBack
