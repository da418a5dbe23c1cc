SPECIFICATION FairSpec
CONSTANTS
    ApiCaller = {a1, a2}
    maxAnalyzeAvMsgSize = 2
    MaxCache = 3
INVARIANTS
    DisposedWhenStopped
    RelayingIsRegistered
PROPERTIES
    StoppedPullEnds
    EndedSourceFreesPath
    FailedDialAnswered
CHECK_DEADLOCK FALSE
