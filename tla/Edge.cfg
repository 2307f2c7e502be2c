\* Two sockets of one key, one of them at a time.
SPECIFICATION Spec
CONSTANTS
    Sockets = {s1, s2}
    MaxSearches = 3
    MaxSockets = 1
    Rate = 1
    Burst = 2
    Costs = {2}
    MaxTime = 2
SYMMETRY EdgeSymmetry
INVARIANTS EdgeTypeOK RateSurvivesEviction SoleAnswered
PROPERTIES SoleNoStaleResult
