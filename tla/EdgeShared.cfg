\* Two sockets of one key, open at the same time.
SPECIFICATION Spec
CONSTANTS
    Sockets = {s1, s2}
    MaxSearches = 2
    MaxSockets = 2
    Rate = 1
    Burst = 3
    Costs = {1, 2}
    MaxTime = 2
SYMMETRY EdgeSymmetry
INVARIANTS CancelledBySameSocket
