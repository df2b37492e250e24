CONSTANTS
    MaxTx = 4
    MaxOutages = 3
    MaxRestarts = 2
    QueueSize = 2
SPECIFICATION FairSpec
INVARIANTS
    TypeOK
    ListensSubscribed
PROPERTIES
    StartsOrHangs
    FeedResumes
    QueuedIsDelivered
CHECK_DEADLOCK FALSE
