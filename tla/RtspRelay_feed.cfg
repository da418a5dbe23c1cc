SPECIFICATION Spec
CONSTANTS
    p1 = p1
    Player = {p1}
    SourceKinds = {"key", "delta", "other"}
    MaxPack = 3
    MaxPlay = 2
    GopCacheEnable = TRUE
    VideoCodecKnown = TRUE
    Pulled = FALSE
INVARIANTS
    GopCacheIsCurrentGop
    FeedOrdered
    PlayAgainLosesNothing
CHECK_DEADLOCK FALSE
