SPECIFICATION Spec
CONSTANTS
    Keys = {k1}
    Requests = {r1, r2}
    Rate = 3
    Burst = 4
    EpisodesCost = 3
    BulkDivisor = 2
    BulkSizes = {0, 7}
    MaxSockets = 1
    Scale = 2
    MaxTime = 5
SYMMETRY LimiterSymmetry
INVARIANTS TypeOK RateBound RetryAfterSuffices SlotsAccounted
