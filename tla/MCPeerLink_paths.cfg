SPECIFICATION FairSpec
CONSTANTS
    Peer = {p1}
    Address = {a1, a2}
    LinkLocal = {a2}
    PrivateV4 = {a1}
    None = None
    Cookie = {c1, c2, c3}
    MAX_SOURCE_ADDRESSES = 1
    MAX_FAILED_ESTABLISHMENTS = 1
    WorkerQueueSize = 1
    MaxInFlight = 1
    MaxEvents = 1
INVARIANT TypeOK
PROPERTIES FreshTarget FallsBack
