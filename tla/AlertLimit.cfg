SPECIFICATION Spec
CONSTANTS
    Notifier = {n1, n2}
    MAX_EMAIL_PER_ADDRESS_PER_DAY = 1
    QueryMayFail = TRUE
    MaxEntries = 4
INVARIANT TypeOK
INVARIANT DeliveredBounded
CHECK_DEADLOCK FALSE
