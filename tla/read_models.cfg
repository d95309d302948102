SPECIFICATION FairSpec
CONSTANTS
    i1 = i1  i2 = i2
    w1 = w1  w2 = w2  w3 = w3
    r1 = r1
    Indexes = {i1}
    Archive = Archive
    Processes = {w1, w2}
    NoOwner = NoOwner
    Readers = {r1}
    NoValue = NoValue
    MaxMessages = 1
    MaxRevision = 3
    MaxFaults = 1
INVARIANTS TypeOK FreshIsExact NoLostInvalidation
PROPERTIES PublicationAdvances RefreshSettles
CHECK_DEADLOCK FALSE
