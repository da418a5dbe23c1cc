SPECIFICATION FairSpec
CONSTANTS
    p1 = p1
    Player = {p1}
    SourceKinds = {"key", "other"}
    MaxPack = 2
    MaxPlay = 1
    GopCacheEnable = TRUE
    VideoCodecKnown = TRUE
    Pulled = TRUE
INVARIANTS
    NoPlayerDroppedSilently
PROPERTIES
    ImplementsLiveFeed
    PacksReachPlayers
    ParkedGoroutinesEnd
CHECK_DEADLOCK FALSE
