SPECIFICATION Spec
CONSTANTS
    m1 = m1  m2 = m2  m3 = m3
    s1 = s1  s2 = s2  s3 = s3
    i1 = i1  i2 = i2
    w1 = w1  w2 = w2  w3 = w3
    Messages = {m1, m2}
    Sessions = {s1, s2, s3}
    CatchUps = {s3}
    Indexes = {i1}
    Workers = {w1, w2}
    NoWorker = NoWorker
    NoJob = NoJob
    Groups <- SeparateRuns
    BatchSize = 1
    AutoSync = {i1}
    QueueChoices = {TRUE}
    Rebuildable = {}
    Archived = {m1}
    Carried <- CarriedBuild
    Replicas = 1
    MaxVersion = 1
    MaxFaults = 0
    MaxRetries = 0
INVARIANTS CaughtUp
CHECK_DEADLOCK FALSE
