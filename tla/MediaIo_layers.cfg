SPECIFICATION MediaIoSpec
CONSTANTS
    Caller = {c1, c2}
    Flusher = {c1}
    WriteChanSize = 2
    NetFails = TRUE
    MaxMsg = 4
    Csid = {s1, s2}
    MsgLen = {1, 3}
    Timestamp = {1, 3, 5}
    ChunkSize = {2, 4}
    LocalChunkSize = 2
    DefaultChunkSize = 1
    MaxTimestamp = 3
    Word = 16
    MaxSent = 3
    SeqWord = 40
    FirstSeq = 37
    Streams <- MCStreams
    MaxPayload = 5
    MaxSize = 4
    Displace = 2
    MaxLost = 2
    MaxTwice = 1
INVARIANTS
    SentInOrder
    FramingKept
    TimestampsKept
    FramesInOrder
    NoFrameGivenUp
    ReportIsRight
PROPERTIES
    FlushMeansSent
    NothingAfterDone
    LoopEnds
    CallersGoOn
CHECK_DEADLOCK FALSE
