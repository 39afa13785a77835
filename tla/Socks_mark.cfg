SPECIFICATION Spec
CONSTANTS
    Handlers = {h1, h2}
    Targets = {bank}
    LAN = {}
    Home = {bank}
    Names = {}
    Dialers = {d1}
    PerIP = 2
    FailTTL = 2
PROPERTY MarkLasts
