SPECIFICATION Spec
CONSTANTS
    i1 = i1  i2 = i2
    w1 = w1  w2 = w2  w3 = w3
    r1 = r1
    Indexes = {i1}
    Archive = Archive
    Processes = {w1}
    NoOwner = NoOwner
    Readers = {r1}
    NoValue = NoValue
    MaxMessages = 1
    MaxRevision = 3
    MaxFaults = 0
INVARIANTS ResponseIsCurrent
CHECK_DEADLOCK FALSE
