SPECIFICATION Spec
CONSTANTS
    u1 = u1
    u2 = u2
    x1 = x1
    x2 = x2
    a1 = a1
    a2 = a2
    User = {u1, u2}
    Xpub = {x1, x2}
    Addr = {a1, a2}
    Pubkey <- MCPubkey
    XpubOwner <- MCXpubOwner
    AddrOwner <- MCAddrOwner
    Unparsable = {"key2"}
    Contact = {"email"}
    Req = {r1, r2}
    MayFail = TRUE
    MaxCrashes = 1
INVARIANT TypeOK
INVARIANT StoredAreWatched
INVARIANT WatchedAreStored
INVARIANT XpubTakesItsAddresses
PROPERTY DeletedStayDeleted
PROPERTY OthersUntouched
SYMMETRY MCSymmetry
CHECK_DEADLOCK FALSE
