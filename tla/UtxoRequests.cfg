SPECIFICATION FairSpec
CONSTANTS
    a1 = a1
    a2 = a2
    a3 = a3
    a4 = a4
    s1 = s1
    s2 = s2
    Addr <- MCAddrFour
    ScriptHash = {s1, s2}
    Hash <- MCHashFour
    Stored <- MCStoredTwo
    Handler = {h1, h2}
    BufCap = 1
    MaxVersion = 0
    MaxCrashes = 0
INVARIANT TypeOK
INVARIANT LockDiscipline
INVARIANT CreatedScanNotLost
PROPERTY RequestReturns
CHECK_DEADLOCK FALSE
