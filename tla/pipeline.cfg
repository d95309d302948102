SPECIFICATION Spec
CONSTANTS
    m1 = m1  m2 = m2  m3 = m3
    s1 = s1  s2 = s2  s3 = s3
    i1 = i1  i2 = i2
    w1 = w1  w2 = w2  w3 = w3
    Messages = {m1, m2}
    Sessions = {s1, s2}
    CatchUps = {}
    Indexes = {i1}
    Workers = {w1, w2}
    NoWorker = NoWorker
    NoJob = NoJob
    Groups <- OneRun
    BatchSize = 1
    AutoSync = {i1}
    QueueChoices = {TRUE, FALSE}
    Rebuildable = {}
    Archived = {}
    Carried <- NoCarried
    Replicas = 1
    MaxVersion = 2
    MaxFaults = 1
    MaxRetries = 1
INVARIANTS TypeOK PublishedOnce GenerationWhole CompletedJobCovers
PROPERTIES AtomicPublication SearchableStays ReadyIsStable
SYMMETRY Symmetry
VIEW View
CHECK_DEADLOCK FALSE
