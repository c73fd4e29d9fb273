SPECIFICATION MCSpec
CONSTANTS
    Cli = {c1, c2}
    Token = {t1}
    Address = {a1, a2}
    Absent = Absent
    Empty = Empty
    UserWhitelistSize = 1
    MaxRetries = 2
    WaitTries = 1
    MaxStarts = 2
    MaxCommands = 2
    MaxDiskFaults = 1
    Join = {j1, j2, j3}
    NoCode = {j3}
    Buffer = {b1, b2}
    QueueSize = 1
    MaxPackets = 3
CHECK_DEADLOCK FALSE
INVARIANTS TokenShared Effects OneClaim BuffersCounted
PROPERTIES StartNoticed CommandsEnd
