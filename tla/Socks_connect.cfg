SPECIFICATION FairSpec
CONSTANTS
    Handlers = {h1, h2}
    Targets = {printer, bank, name, site}
    LAN = {printer}
    Home = {bank, name}
    Names = {name}
    Dialers = {d1}
    PerIP = 1
    FailTTL = 1
INVARIANTS ResourcesSound  RouteRespected
PROPERTY RelayUnwinds
