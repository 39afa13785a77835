SPECIFICATION MCSpec
CONSTANTS
    Files = {"a", "b"}
    NoFile = NoFile
    Versions <- MCVersions
    Manifests <- MCManifests
    Chunks = 1
    Inodes = {1, 2, 3, 4}
    Fetchers = {"f1", "f2"}
    Peers = {"p"}
    Hashes = {1, 2}
    Wants <- MCWants
    ReqIDs = {1, 2}
    Retries = 2
    MaxFetches = 3
    MaxConns = 2
    Nodes = {"c", "a", "b"}
    Origin = "c"
    Near <- MCNear
    Latest = 2
    MaxNodeRestarts = 1
    MaxLost = 1
CHECK_DEADLOCK FALSE
INVARIANTS SyncSound CompleteWhenCalm OnlyTheChunk PoolSound IndexSound
PROPERTIES SyncsEnd FetchesEndSocketsFreed Spreads
