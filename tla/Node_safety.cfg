SPECIFICATION MCSpec
CONSTANTS
    Conns = {c1, c2}
    WinSize = 3
    MinSpan = 1
    MinSamples = 3
    MaxAttempts = 3
    MaxReports = 2
    MaxWindow = 5
    Peers = {p1, p2, p3}
    BucketSize = 2
    MaxMissed = 4
    TTL = 1
    Skew = 1
SYMMETRY MCSymmetry
INVARIANTS  NodeSound ServedIsRecent
 
