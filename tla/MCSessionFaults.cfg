SPECIFICATION FaultSpec
CONSTANTS
    Node = {1, 2, 3}
    Allowed <- MCHub
    Payload = {d}
    Talk <- MCAllTalk
    FlagsOf <- MCFlagsOf
    MAX_QUEUED_PACKETS = 2
    Duplicating = TRUE
    Misrouting = TRUE
    MaxBoot <- MCOneRestart
    MaxAccept = 2
    MaxLoss = 0
    MaxTeardown = 0
    NoKey = NoKey
INVARIANTS TypeOK KeyAgreement Authenticity QueueAccounting
PROPERTY NoRollback
