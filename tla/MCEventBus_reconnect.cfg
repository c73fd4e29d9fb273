SPECIFICATION FairSpec
CONSTANTS
    Conn = {k1, k2}
    None = None
    Asserts = FALSE
    MaxFrames = 2
PROPERTY Reconnects
