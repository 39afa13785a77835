SPECIFICATION FairSpec
CONSTANTS
    NoPoster = NoPoster
    Methods <- MCMethods
    HasDevice = TRUE
    Backoff0 = 1
    BackoffCap = 2
    RejectWindow = 0
    ServerWindow = 1
    Posters = {p1, p2}
    RelayAtStart = "up"
    MaxToken = 2
INVARIANTS LoginReplacesBadToken 
PROPERTIES FatalOnlyOverDeadSession RefreshReturns
