SPECIFICATION FairSpec
CONSTANTS
    Callers = {c1, c2}
    IDs = {i1, i2}
    NoID = NoID
    Retries = 2
    FailThresh = 2
    KeepMiss = 2
INVARIANT CallsSound
 
