SPECIFICATION FairSpec
CONSTANTS
    c1 = c1
    Client = {c1, c2}
    Displays <- EveryDisplays
    Leaving = {c1}
    Action = {"join", "publish", "control"}
    MaxMsg <- TwoOfC1
    NoOne = NoOne
INVARIANTS
    UniqueDisplay
    JoinedUntilCleanup
PROPERTIES
    Answered
    GoneLeaves
CHECK_DEADLOCK FALSE
