SPECIFICATION MCSpec
CONSTANTS
    Dsts = {near, dns}
    DNS = {dns}
    Bypass = {near}
    QDepth = 1
    FallbackSent = 2
    CBThreshold = 2
    MaxWrites = 3
    MaxBytes = 4
    Base = 5
    minPadding = 2
    Parts <- MCParts
    Capacity = 4
    MaxLogged = 14
    Servers <- MCServers
    Listed <- MCListed
    Bootstrap <- MCBootstrap
    MaxRestarts = 1
CHECK_DEADLOCK FALSE
INVARIANTS  BytesSound  
PROPERTIES SessionEnds   CatchesUp
