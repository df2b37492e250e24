SPECIFICATION Spec
CONSTANTS
    i1 = i1
    i2 = i2
    i3 = i3
    m1 = m1
    m2 = m2
    Id = {i1, i2, i3}
    Mailbox = {m1, m2}
    MailboxOf <- MCMailboxOf
    r1 = r1
    r2 = r2
    Req <- MCReq
    MaxCode = 3
SYMMETRY Symmetry
INVARIANT TypeOK
INVARIANT VerifiedByOwner
INVARIANT CodeGetsOut
CHECK_DEADLOCK FALSE
