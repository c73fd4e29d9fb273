SPECIFICATION MCSpec
CONSTANTS
    Thread = {main, worker}
    Packet <- MCPacket
    TCP_READ_BUFFER = 12
    SendBuffer = 60
    MaxPackets = 3
    Status = {200, 500}
    BodyLength = {0, 2, 3}
    Undeclared = undeclared
    PostLength = 2
    MaxCalls = 2
    Block = {0, 64660}
    Octet = {0, 9, 255}
CHECK_DEADLOCK FALSE
INVARIANTS WholeAnswer 
PROPERTIES IsChannel
