SPECIFICATION Spec
CONSTANTS
    u1 = u1
    u2 = u2
    x1 = x1
    x2 = x2
    a1 = a1
    a2 = a2
    User = {u1}
    Xpub = {x1}
    Addr = {a1, a2}
    Pubkey <- MCPubkeyOne
    XpubOwner <- MCXpubOwnerOne
    AddrOwner <- MCAddrOwner
    Unparsable = {}
    Contact = {"email", "webhook"}
    Req = {r1}
    MayFail = FALSE
    MaxCrashes = 0
INVARIANT AccountErased
CHECK_DEADLOCK FALSE
