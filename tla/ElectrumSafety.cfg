SPECIFICATION FairSpec
CONSTANTS
    Caller = {scanner, watcher}
    MayDisconnect = TRUE
    MaxCalls = 4
INVARIANT TypeOK
INVARIANT HandlersMatchWaiters
INVARIANT AnswersAwaited
INVARIANT NoPanicWhileConnected
PROPERTY AnsweredCallsReturn
CHECK_DEADLOCK FALSE
