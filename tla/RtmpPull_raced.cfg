SPECIFICATION FairSpec
CONSTANTS
    ApiCaller = {a1}
    maxAnalyzeAvMsgSize = 1
    MaxCache = 1
PROPERTIES
    IdStopsPull
CHECK_DEADLOCK FALSE
