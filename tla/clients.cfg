SPECIFICATION Spec
CONSTANTS
    Components = {"settings", "bot", "permissions", "migration", "scan", "status", "lists", "connection", "process", "chat", "recent"}
    Xs = {x1, x2}  Ys = {y1, y2}  Zs = {z1, z2}
    p1 = p1  p2 = p2  m1 = m1  m2 = m2  i1 = i1  i2 = i2
    Providers = {p1, p2}  Models = {m1, m2}  ProviderOf <- ProviderOfModel
    Indexes = {i1, i2}  InitialIndex <- FirstIndexOnly  InitialActive = i1  InitialDefault = m1
    Tasks = {x1, x2}  NoValue = None  MaxOps = 2
    Guilds = {i1, i2}  Roles = {p1}  Members = {p2}  GuildOf <- GuildOfSubject
    AnswerModels = {m1, m2}  Jobs = {x1, x2}  NoGuild = None  MaxJobs = 4
    StatusReads = {x1, x2}  MaxChanges = 1  MaxStatusActs = 3
    LastPage = 3  PageRequests = {c1, c2, c3}  Servers = {i1, i2}  MaxReads = 5
    Questions = {x1, x2}  Chats = {y1, y2}  Scopes = {i1, i2}  All = i1  ComposerModels = {z1, z2}
    NoChat = None  MaxMoves = 3  MaxChatTroubles = 1
    RecentChats = {z1, z2}  Titles = {y1, y2}  Absent = None  ListReads = {x1, x2}
    ListMutations = {c1, c2}  MaxListActs = 3  MaxListTroubles = 1
    Total = 2  PageSize = 2  MaxAttempts = 2  Nil = None
    Exports = {y1, y2}  Sessions = {z1, z2}  Calls = {x1, x2}
    MaxCalls = 3  MaxMishaps = 2  MaxLag = 2
    Origins = {i1, i2}  Insecure = {i1, i2}  Tokens = {m1, m2}  Nobody = None  MaxInputs = 5
    Processes = {z1, z2, c1}  NoProcess = None  Recoveries = {x1, x2}  MaxRuns = 2  MaxTroubles = 2
    Newest = 3  Window = 2  BatchSize = 2  Confirmations = 2  Stalls = 2  MaxScans = 2  MaxScanTroubles = 1
    BotTokens = {m1, m2}  Clients = {c1, c2, c3}  BotCalls = {x1, x2}  Nothing = None  MaxBotCalls = 4
SYMMETRY Symmetry
VIEW View
INVARIANTS
    ClientsTypeOK SettingsAgree NoDanglingReference OffMeansOff
    PermissionsAgree ArchiveArrives MigrationRests NothingDiscoveredIsDropped
    CompletedScanIsWhole StatusIsFollowed PagesAreInOrder TargetsAreTrusted
    NoBackendIsLeft ConversationsAreStored ListIsServer
CHECK_DEADLOCK FALSE
