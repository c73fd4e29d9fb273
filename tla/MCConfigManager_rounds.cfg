SPECIFICATION FairSpec
CONSTANTS
    eb = eb
    x = x
    y = y
    l1 = l1
    c1 = c1
    c2 = c2
    noPeers = noPeers
    alice = alice
    None = None
    Partial = Partial
    Addr = {eb, x, y}
    License = {l1}
    Config = {c1, c2, noPeers}
    LicensePeers <- MCLicensePeers
    ConfigPeers <- MCConfigPeers
    Owner <- MCOwner
    USER_WHITELIST_SIZE_LIMIT = 1
    MaxPublish = 1
    MaxCrash = 1
    MaxCalls = 1
INVARIANTS TypeOK  
PROPERTIES WhitelistStays ConfigTakesEffect
