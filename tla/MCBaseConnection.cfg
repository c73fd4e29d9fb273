SPECIFICATION FairSpec
CONSTANTS
    Bases = 2
    Conn = {k1, k2, k3}
    Location = {Home, away, Offline}
    Offline = Offline
    Home = Home
    None = None
    WorkerQueueSize = 1
    MaxInFlight = 1
    MaxFaults = 2
INVARIANTS TypeOK OneConnection
PROPERTIES CookieOfCurrent BaseServes
