SPECIFICATION FairSpec
CONSTANTS
    Peer = {p1, p2}
    Publishers = {p1}
    Leaving = {p1, p2}
    MaxRun = 2
INVARIANTS
    OnePublisher
    NoneWaitsOnClosedSig
PROPERTIES
    PublishersPlayed
CHECK_DEADLOCK FALSE
