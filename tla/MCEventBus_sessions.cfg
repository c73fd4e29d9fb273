SPECIFICATION FairSpec
CONSTANTS
    Conn = {k1, k2}
    None = None
    Asserts = TRUE
    MaxFrames = 2
INVARIANTS TypeOK OnlyVerifiedRead NoLeak
PROPERTY StatusCatchesUp
