----------------------------- MODULE MCClients -----------------------------
(***************************************************************************)
(* The components of the page, of the desktop application and of the Discord *)
(* bot that share no modelled state, side by side for TLC: focus says which  *)
(* one a behavior is about, and the variables of the others rest.  Each      *)
(* component thus has exactly the behaviors of its module, and one run       *)
(* checks all of them, each property under its own name.                     *)
(***************************************************************************)
EXTENDS ArchiveMigration, DesktopConnection, DesktopProcess, ChannelScan, DiscordBotRuntime,
        WorkspaceSettings, BotSettingsPage, OverviewStatus, PagedLists, ChatPage, ChatHistory, TLC

CONSTANTS
    Components,             \* the components that are checked
    Xs, Ys, Zs,             \* interchangeable values: tasks, reads; chats, titles; models
    p1, p2, m1, m2, i1, i2  \* providers or bot subjects; models or tokens; indexes, servers or origins

ASSUME ComponentsAssumption ==
    Components \subseteq {"settings", "permissions", "status", "lists", "chat", "recent",
                          "connection", "process", "scan", "bot", "migration"}

VARIABLE focus

desktopVars == <<connectionVars, processVars>>
botVars == <<scanVars, runtimeVars>>
pageVars == <<settingsVars, botPageVars, statusVars, listVars, chatVars, historyVars>>
vars == <<focus, migrationVars, desktopVars, botVars, pageVars>>

Symmetry == Permutations(Xs) \cup Permutations(Ys) \cup Permutations(Zs)

----------------------------------------------------------------------------
(* The values of the constants that are functions. *)
ProviderOfModel == (m1 :> p1) @@ (m2 :> p2)
FirstIndexOnly == (i1 :> p1) @@ (i2 :> NoValue)
GuildOfSubject == (p1 :> i1) @@ (p2 :> i2)

----------------------------------------------------------------------------
(* A component that rests: what its properties look at, in a state of which they say nothing.
   Small, for TLC copies and permutes it with every state. *)
MigrationSleeps ==
    /\ call = [c \in Calls |-> [pc |-> "rests"]] /\ session = [s \in Sessions |-> [indexed |-> FALSE]]
    /\ file = Nil /\ history = {"start", "late pause"}
    /\ exports = 0 /\ runningCall = 0 /\ pauseRequested = 0 /\ panel = 0 /\ wire = 0 /\ counts = 0
ConnectionRests ==
    /\ action = [a \in Actions |-> [pc |-> "rests"]] /\ running = [phase |-> "rests", target |-> [mode |-> "rests"]]
    /\ saved = [origin |-> 0, token |-> 0] /\ tested = {<<0, 0>>}
    /\ form = 0 /\ inputs = 0 /\ accepted = 0 /\ entered = 0
ProcessRests ==
    /\ app = [phase |-> "rests"] /\ left = {"overlap"}
    /\ process = 0 /\ child = 0 /\ starting = 0 /\ recovery = 0 /\ closing = 0 /\ trouble = 0
ScanRests ==
    /\ scan = [pc |-> "rests", reason |-> "rests"]
    /\ view = 0 /\ archive = 0 /\ noticed = 0 /\ tally = 0 /\ troubles = 0
RuntimeRests ==
    /\ botCall = [k \in BotCalls |-> [pc |-> "rests"]] /\ mishaps = {"late failure", "forgotten while resuming"}
    /\ store = 0 /\ bot = 0 /\ client = 0 /\ made = 0
SettingsRest ==
    /\ task = [t \in Tasks |-> [stage |-> "rests"]] /\ races = {"lost"}
    /\ server = 0 /\ registry = 0 /\ page = 0 /\ cached = 0 /\ menu = 0
    /\ selected = 0 /\ chosenBy = 0 /\ ops = 0
BotPageRests ==
    /\ job = [j \in Jobs |-> [op |-> "rests"]] /\ overlaps = {"late save", "failed"}
    /\ savedSettings = 0 /\ directory = 0 /\ botSettings = 0 /\ guild = 0 /\ results = 0
    /\ edited = 0 /\ jobs = 0
StatusRests ==
    /\ statusEntry = [has |-> FALSE] /\ marked = FALSE
    /\ backend = 0 /\ statusRequest = 0 /\ shown = 0 /\ acts = 0
ListsRest ==
    /\ overtaken = {"first page"}
    /\ kind = 0 /\ table = 0 /\ openings = 0 /\ answerHistory = 0 /\ pageRequest = 0 /\ reads = 0
ChatRests ==
    /\ chat = [c \in Chats |-> [turns |-> {}]]
    /\ question = [q \in Questions |-> [mark |-> "rests", backend |-> "rests"]]
    /\ chatPage = 0 /\ opening = 0 /\ switching = 0 /\ deleting = 0 /\ moves = 0 /\ chatTroubles = 0
HistoryRests ==
    /\ read = [x \in ListReads |-> [pc |-> "rests"]] /\ missed = TRUE
    /\ stored = 0 /\ summaries = 0 /\ listEntry = 0 /\ mutation = 0 /\ answersSaved = 0
    /\ listTally = 0 /\ gone = 0

Init ==
    /\ focus \in Components
    /\ IF focus = "migration" THEN MigrationInit ELSE MigrationSleeps
    /\ IF focus = "connection" THEN ConnectionInit ELSE ConnectionRests
    /\ IF focus = "process" THEN ProcessInit ELSE ProcessRests
    /\ IF focus = "scan" THEN ScanInit ELSE ScanRests
    /\ IF focus = "bot" THEN RuntimeInit ELSE RuntimeRests
    /\ IF focus = "settings" THEN SettingsInit ELSE SettingsRest
    /\ IF focus = "permissions" THEN BotPageInit ELSE BotPageRests
    /\ IF focus = "status" THEN StatusInit ELSE StatusRests
    /\ IF focus = "lists" THEN ListsInit ELSE ListsRest
    /\ IF focus = "chat" THEN ChatInit ELSE ChatRests
    /\ IF focus = "recent" THEN HistoryInit ELSE HistoryRests

PageNext ==
    \/ /\ focus = "settings" /\ SettingsNext
       /\ UNCHANGED <<botPageVars, statusVars, listVars, chatVars, historyVars>>
    \/ /\ focus = "permissions" /\ BotPageNext
       /\ UNCHANGED <<settingsVars, statusVars, listVars, chatVars, historyVars>>
    \/ /\ focus = "status" /\ StatusNext
       /\ UNCHANGED <<settingsVars, botPageVars, listVars, chatVars, historyVars>>
    \/ /\ focus = "lists" /\ ListsNext
       /\ UNCHANGED <<settingsVars, botPageVars, statusVars, chatVars, historyVars>>
    \/ /\ focus = "chat" /\ ChatNext
       /\ UNCHANGED <<settingsVars, botPageVars, statusVars, listVars, historyVars>>
    \/ /\ focus = "recent" /\ HistoryNext
       /\ UNCHANGED <<settingsVars, botPageVars, statusVars, listVars, chatVars>>

Next ==
    \/ focus = "migration" /\ MigrationNext /\ UNCHANGED <<focus, desktopVars, botVars, pageVars>>
    \/ /\ focus = "connection" /\ ConnectionNext
       /\ UNCHANGED <<focus, migrationVars, processVars, botVars, pageVars>>
    \/ /\ focus = "process" /\ ProcessNext
       /\ UNCHANGED <<focus, migrationVars, connectionVars, botVars, pageVars>>
    \/ focus = "scan" /\ ScanNext /\ UNCHANGED <<focus, migrationVars, desktopVars, runtimeVars, pageVars>>
    \/ focus = "bot" /\ RuntimeNext /\ UNCHANGED <<focus, migrationVars, desktopVars, scanVars, pageVars>>
    \/ PageNext /\ UNCHANGED <<focus, migrationVars, desktopVars, botVars>>

Spec == Init /\ [][Next]_vars

\* What tells two states apart: the variables of the components that rest never change.
Moving ==
    CASE focus = "settings" -> settingsVars     [] focus = "permissions" -> botPageVars
      [] focus = "status" -> statusVars         [] focus = "lists" -> listVars
      [] focus = "chat" -> chatVars             [] focus = "recent" -> historyVars
      [] focus = "connection" -> connectionVars [] focus = "process" -> processVars
      [] focus = "scan" -> scanVars             [] focus = "bot" -> runtimeVars
      [] focus = "migration" -> migrationVars
View == <<focus, Moving>>

----------------------------------------------------------------------------
\* Every variable of the component in focus has its type.
ClientsTypeOK ==
    CASE focus = "settings" -> SettingsTypeOK   [] focus = "permissions" -> BotPageTypeOK
      [] focus = "status" -> StatusTypeOK       [] focus = "lists" -> ListsTypeOK
      [] focus = "chat" -> ChatTypeOK           [] focus = "recent" -> HistoryTypeOK
      [] focus = "connection" -> ConnectionTypeOK [] focus = "process" -> ProcessTypeOK
      [] focus = "scan" -> ScanTypeOK           [] focus = "bot" -> RuntimeTypeOK
      [] focus = "migration" -> MigrationTypeOK
=============================================================================
