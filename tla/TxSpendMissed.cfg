SPECIFICATION Spec
CONSTANTS
    t1 = t1
    t2 = t2
    a1 = a1
    r1 = r1
    r2 = r2
    w1 = w1
    e1 = e1
    webhook = webhook
    email = email
    Tx = {t1, t2}
    Row = {r1}
    Address = {a1}
    AddressOf <- MCAddressOfOne
    Outs <- MCOutsAway
    Ins <- MCIns
    Notifier = {webhook, email}
    Endpoints <- MCEndpoints
    ScansFail = FALSE
    FeedCap = 3
INVARIANT SpendNoticed
CHECK_DEADLOCK FALSE
