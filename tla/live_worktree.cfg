SPECIFICATION Spec
CONSTANTS
    p1 = p1  p2 = p2  none = none
    flat = flat  nested = nested  temp = temp  space = space  noid = noid
    Procs <- TwoProcs
    NoProc = none
    NoId = noid
    Temps <- TempIds
    Keys <- FlatKey
    Spaces <- NoSpaces
    Space <- NestedNowhere
    Capacity = 2
    MaxActs = 3
    MaxFaults = 0
PROPERTIES LiveWorktreeSpared
CHECK_DEADLOCK FALSE
