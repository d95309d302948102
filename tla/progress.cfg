SPECIFICATION FairSpec
CONSTANTS
    q1 = q1  q2 = q2  q3 = q3  u1 = u1  u2 = u2  r1 = r1
    Questions = {q1, q2, q3}
    Users = {u1, u2}
    Rooms = {r1}
    AuthorOf <- Author
    RoomOf <- Room
    Parts = 2
    MaximumPending = 1
    Jobs = {j1}
    Monitors = {m1}
    Reads = {s1}
    NoJob = NoJob
    MaxFaults = 1
    MaxLiveFaults = 1
    MaxCommands = 1
    MaxWire = 1
INVARIANTS ProgressTypeOK AnswersInOrder
PROPERTIES QuestionsEnd EndedJobsDisappear
CHECK_DEADLOCK FALSE
