SPECIFICATION MCSpec
CONSTANTS
    Others = {a, b}
    Me = me
    NoId = none
    Group = {ff}
    Protocol = {6}
    Payload <- MCPayload
    MaxPeers = 2
    MaxChanges = 2
    Peer = {p1, p2}
    Address = {a1, a2}
    LinkLocal = {}
    PrivateV4 = {}
    None = None
    Cookie = {c1, c2, c3}
    MAX_SOURCE_ADDRESSES = 1
    MAX_FAILED_ESTABLISHMENTS = 0
    WorkerQueueSize = 1
    MaxInFlight = 0
    MaxEvents = 2
CHECK_DEADLOCK FALSE
INVARIANTS RightPeer OnePeerEach SourceIndex
PROPERTIES RevokedStaysOut
