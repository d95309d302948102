SPECIFICATION Spec
CONSTANTS
    t1 = t1
    t2 = t2
    Tasks <- TwoHandlers
    PageSize = 2
    MaxId = 3
    MaxSessions = 2
    MaxFaults = 1
SYMMETRY Symmetric
INVARIANT CursorsLeaveNoGap
CHECK_DEADLOCK FALSE
