\* Two processes, four commands between them.
CHECK_DEADLOCK FALSE
SPECIFICATION Spec
CONSTANTS
    m = m
    n = n
    a1 = a1
    a2 = a2
    b = b
    Procs = {p1, p2}
    Names = {m, n}
    Tokens = {a1, a2, b}
    IdOf <- TokenIds
    SessionOf <- TokenSessions
    AgreementOf <- TokenAgreements
    Files <- FirstFiles
    MaxCommands = 4
SYMMETRY Symmetric
INVARIANTS
    TypeOK
    MarksTrue
    RefusalReaches
    TokensKept
