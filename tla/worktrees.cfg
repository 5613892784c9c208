SPECIFICATION FairSpec
CONSTANTS
    p1 = p1  p2 = p2  none = none
    flat = flat  nested = nested  temp = temp  space = space  noid = noid
    Procs <- TwoProcs
    NoProc = none
    NoId = noid
    Temps <- TempIds
    Keys <- NestedKey
    Spaces <- OneSpace
    Space <- NestedIn
    Capacity = 1
    MaxActs = 3
    MaxFaults = 2
INVARIANTS IInv WithinCapacity RecordsAgree
PROPERTIES ActiveIsSpared LeftoversGo
CHECK_DEADLOCK FALSE
