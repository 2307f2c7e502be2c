\* Two accounts, two requests at a time, an address that changes hands.
SPECIFICATION Spec
CONSTANTS
    Accounts = {a1, a2}
    Addresses = {e1, e2, e3}
    Handlers = {h1, h2}
    MaxUsers = 3
    MaxSessions = 2
    MaxKeys = 1
    MaxMoves = 2
    None = None
SYMMETRY PortalSymmetry
INVARIANTS PortalTypeOK AccountIsolation EndedIsFinal
PROPERTIES RefusalIsJustified
CHECK_DEADLOCK FALSE
