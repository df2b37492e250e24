SPECIFICATION MCSpec
CONSTANTS
    t1 = t1
    t2 = t2
    a1 = a1
    r1 = r1
    r2 = r2
    w1 = w1
    e1 = e1
    webhook = webhook
    email = email
    Tx = {t1, t2}
    Row = {r1, r2}
    Address = {a1}
    AddressOf <- MCAddressOf
    Outs <- MCOuts
    Ins <- MCIns
    Notifier = {webhook, email}
    Endpoints <- MCEndpoints
    ScansFail = TRUE
    FeedCap = 1
INVARIANT TypeOK
INVARIANT FanOutComplete
INVARIANT SteadyMatched
PROPERTY FanOutEnds
PROPERTY EveryNotifierSubscribes
CHECK_DEADLOCK FALSE
