SPECIFICATION FairSpec
CONSTANTS
    a1 = a1
    a2 = a2
    a3 = a3
    a4 = a4
    s1 = s1
    s2 = s2
    Addr <- MCAddr
    ScriptHash = {s1, s2}
    Hash <- MCHash
    Stored <- MCStoredOne
    Handler = {h1}
    BufCap = 1
    MaxVersion = 1
    MaxCrashes = 1
INVARIANT ResultsInOrder
PROPERTY UtxosNeverOlder
PROPERTY ImplementsScanService
PROPERTY ScanCompletes
PROPERTY StartupCompletes
CHECK_DEADLOCK FALSE
