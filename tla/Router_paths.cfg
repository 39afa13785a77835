SPECIFICATION RouterSpec
CONSTANTS
    Addrs = {a, b, c}
    Lists = {{a, b, c}, {a, c}, {b, c}}
    Home = {a, b}
    Relays = {r}
    HomeRelays = {r}
    NoRelay = NoRelay
    MinPool = 2
    MaxPaths = 2
    MaxMarks = 1
 
PROPERTIES  FiltersSound
