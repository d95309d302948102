SPECIFICATION Spec
CONSTANTS
    t1 = t1
    t2 = t2
    Tasks <- TwoHandlers
    PageSize = 1
    MaxId = 2
    MaxSessions = 2
    MaxFaults = 1
SYMMETRY Symmetric
INVARIANTS TypeOK HistoryIsComplete StopHolds NoOrphanSession
PROPERTY LiveIsKept
CHECK_DEADLOCK FALSE
