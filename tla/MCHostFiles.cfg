CONSTANTS
    UserLine = {"u1", "u2"}
    Peers = {{}, {"a", "b!"}}
    ValidName = {"a"}
    Hostname = {"dev"}
    Settings <- MCSettings
    Asserts = TRUE
    MaxUpdates = 2
    MaxTroubles = 2
    MaxIdentities = 2
SPECIFICATION HostSpec
INVARIANTS  IdentityKept HooksAsConfigured
  
CHECK_DEADLOCK FALSE
