SPECIFICATION Spec
CONSTANTS
    c1 = c1
    Client = {c1, c2, c3}
    Displays <- OwnDisplays
    Leaving = {c1, c2}
    Action = {"join"}
    MaxMsg <- OneMessage
    NoOne = NoOne
INVARIANTS
    LeaveReachesAll
CHECK_DEADLOCK FALSE
