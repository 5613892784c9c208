SPECIFICATION FairSpec
CONSTANTS
    p1 = p1  p2 = p2  none = none
    workspace = workspace  other = other  nolock = nolock
    Procs <- TwoProcs
    Locks <- TwoLocks
    NoProc = none
    NoLock = nolock
    MaxSections = 3
INVARIANTS IInv MutualExclusion
PROPERTIES LockFreed
CHECK_DEADLOCK FALSE
