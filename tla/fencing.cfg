SPECIFICATION Spec
CONSTANTS
    m1 = m1  m2 = m2  m3 = m3
    s1 = s1  s2 = s2  s3 = s3
    i1 = i1  i2 = i2
    w1 = w1  w2 = w2  w3 = w3
    Messages = {m1, m2}
    Sessions = {s1}
    CatchUps = {}
    Indexes = {i1}
    Workers = {w1, w2, w3}
    NoWorker = NoWorker
    NoJob = NoJob
    Groups <- SeparateRuns
    BatchSize = 1
    AutoSync = {i1}
    QueueChoices = {TRUE, FALSE}
    Rebuildable = {}
    Archived = {m1, m2}
    Carried <- NoCarried
    Replicas = 2
    MaxVersion = 3
    MaxFaults = 2
    MaxRetries = 1
INVARIANT GenerationWhole
PROPERTY ImplementsStore
SYMMETRY Symmetry
CHECK_DEADLOCK FALSE
