------------------------- MODULE DiscordBotRuntime -------------------------
(***************************************************************************)
(* Which Discord client runs: connecting, pausing, resuming, disconnecting  *)
(* and restoring the bot, in the Electron main process or in the gateway.   *)
(* The calls come from several windows and are not serialised; each one     *)
(* reads and assigns the controller's fields between its awaits.            *)
(*                                                                           *)
(* The token file and the file of its switch survive the process.  A        *)
(* destroyed client never becomes ready: its login fails or never ends.     *)
(***************************************************************************)
EXTENDS Naturals, FiniteSets

CONSTANTS
    BotTokens,   \* Discord bot tokens
    Clients,     \* discord.js clients one process may create (a bound)
    BotCalls,    \* calls under way together (a bound)
    Nothing,     \* no token, no client
    MaxBotCalls  \* bound: calls that are started

VARIABLES
    store,       \* the token file and the switch file
    bot,         \* this.client, this.hasStoredToken, this.enabled
    client,      \* the life of each client
    botCall,     \* the calls under way
    made,        \* calls started so far
    mishaps      \* history: what has overlapped with what

runtimeVars == <<store, bot, client, botCall, made, mishaps>>

ASSUME RuntimeAssumption == Nothing \notin BotTokens \cup Clients /\ MaxBotCalls \in Nat

----------------------------------------------------------------------------
\* Without a switch file a stored token counts as switched on.
Store == [token : BotTokens \cup {Nothing}, on : BOOLEAN]
Bot == [client : Clients \cup {Nothing}, token : BOOLEAN, enabled : BOOLEAN]
Stopped == [client |-> Nothing, token |-> FALSE, enabled |-> FALSE]

NoBotCall == [op |-> "none", pc |-> "none", token |-> Nothing, client |-> Nothing]
At(k, pc) == botCall[k].pc = pc
Idle(k) == botCall[k] = NoBotCall
Done(k) == [botCall EXCEPT ![k] = NoBotCall]
Go(k, pc) == [botCall EXCEPT ![k].pc = pc]
Live == {c \in Clients : client[c] \in {"login", "ready"}}

\* What the routes of the gateway, and the channels of the main process, offer.
Operations == {"connect", "pause", "resume", "disconnect"}

CallToken(op, token) == IF op = "connect" THEN token ELSE store.token

Destroyed(c) == [d \in Clients |-> IF d = c THEN "destroyed" ELSE client[d]]

\* createClient and login: the new client becomes the current one.
Login(k, op, token, clients) ==
    \E c \in Clients :
        /\ clients[c] = "unused"
        /\ client' = [clients EXCEPT ![c] = "login"]
        /\ bot' = [bot EXCEPT !.client = c, !.token = @ \/ op # "connect"]
        /\ botCall' = [botCall EXCEPT ![k] = [op |-> op, pc |-> "login", token |-> token, client |-> c]]

\* connect, resume, pause and disconnect.  If there is a client, and always for the
\* last two, they wait for the batcher first.
Begin(k, op, token) ==
    /\ Idle(k) /\ made < MaxBotCalls
    /\ op = "pause" => bot.token
    /\ op = "resume" => store.token # Nothing /\ (bot.client # Nothing => client[bot.client] # "ready")
    /\ op = "connect" <=> token # Nothing
    /\ made' = made + 1
    /\ IF op \in {"connect", "resume"} /\ bot.client = Nothing
       THEN Login(k, op, CallToken(op, token), client)
       ELSE /\ botCall' = [botCall EXCEPT ![k] = [op |-> op, pc |-> "flush", token |-> CallToken(op, token),
                                                 client |-> Nothing]]
            /\ bot' = [bot EXCEPT !.token = @ \/ op = "resume"]
            /\ UNCHANGED client
    /\ UNCHANGED <<store, mishaps>>

\* disconnect(false): whichever client is the current one by now is destroyed.
Reconnect(k) ==
    /\ At(k, "flush") /\ botCall[k].op \in {"connect", "resume"}
    /\ Login(k, botCall[k].op, botCall[k].token, Destroyed(bot.client))
    /\ UNCHANGED <<store, made, mishaps>>

PauseBot(k) ==
    /\ At(k, "flush") /\ botCall[k].op = "pause"
    /\ client' = Destroyed(bot.client)
    /\ store' = [store EXCEPT !.on = FALSE]
    /\ bot' = [bot EXCEPT !.client = Nothing, !.enabled = FALSE]
    /\ botCall' = Done(k)
    /\ UNCHANGED <<made, mishaps>>

\* Mutant of Disconnect: the token is removed, the client goes on.
DisconnectKeepsClient(k) ==
    /\ At(k, "flush") /\ botCall[k].op = "disconnect"
    /\ store' = [token |-> Nothing, on |-> TRUE]
    /\ bot' = Stopped
    /\ botCall' = Done(k)
    /\ UNCHANGED <<client, made, mishaps>>

\* clear removes both files, so a later token is switched on again.
Disconnect(k) ==
    /\ At(k, "flush") /\ botCall[k].op = "disconnect"
    /\ client' = Destroyed(bot.client)
    /\ store' = [token |-> Nothing, on |-> TRUE]
    /\ bot' = Stopped
    /\ botCall' = Done(k)
    /\ mishaps' = mishaps \cup (IF \E j \in BotCalls \ {k} : botCall[j].op \in {"resume", "restore"}
                                THEN {"forgotten while resuming"} ELSE {})
    /\ UNCHANGED made

\* ClientReady: the token is saved, if it is a new one, and the switch turned on.
Ready(k) ==
    /\ At(k, "login") /\ client[botCall[k].client] = "login"
    /\ client' = [client EXCEPT ![botCall[k].client] = "ready"]
    /\ store' = [token |-> IF botCall[k].op = "connect" THEN botCall[k].token ELSE store.token, on |-> TRUE]
    /\ bot' = [bot EXCEPT !.token = TRUE, !.enabled = TRUE]
    /\ botCall' = Go(k, "load")
    /\ UNCHANGED <<made, mishaps>>

\* loadStates and the settings directory.
LoadStates(k) ==
    /\ At(k, "load")
    /\ botCall' = Go(k, "register")
    /\ UNCHANGED <<store, bot, client, made, mishaps>>

\* The commands are registered with the current client, which may be another one.
Register(k) ==
    /\ At(k, "register") /\ bot.client # Nothing /\ client[bot.client] = "ready"
    /\ botCall' = Done(k)
    /\ UNCHANGED <<store, bot, client, made, mishaps>>

\* connect's catch block: its own client is destroyed, but the current one forgotten.
ConnectFails(k) ==
    /\ botCall[k].pc \in {"login", "load", "register"}
    /\ client' = Destroyed(botCall[k].client)
    /\ bot' = [bot EXCEPT !.client = Nothing]
    /\ botCall' = Done(k)
    /\ mishaps' = mishaps \cup (IF bot.client \in Live \ {botCall[k].client}
                                THEN {"late failure"} ELSE {})
    /\ UNCHANGED <<store, made>>

\* The process ends, by a crash or by an ordinary shutdown; restore of the next one.
RestartBot(k) ==
    /\ made < MaxBotCalls
    /\ made' = made + 1
    /\ LET fresh == [c \in Clients |-> "unused"] IN
       IF store.token # Nothing /\ store.on
       THEN \E c \in Clients :
            /\ client' = [fresh EXCEPT ![c] = "login"]
            /\ bot' = [client |-> c, token |-> TRUE, enabled |-> TRUE]
            /\ botCall' = [j \in BotCalls |-> IF j # k THEN NoBotCall ELSE
                 [op |-> "restore", pc |-> "login", token |-> store.token, client |-> c]]
       ELSE /\ client' = fresh
            /\ bot' = [Stopped EXCEPT !.token = store.token # Nothing]
            /\ botCall' = [j \in BotCalls |-> NoBotCall]
    /\ mishaps' = {}
    /\ UNCHANGED store

----------------------------------------------------------------------------
RuntimeInit ==
    /\ store = [token |-> Nothing, on |-> TRUE]
    /\ bot = Stopped
    /\ client = [c \in Clients |-> "unused"]
    /\ botCall = [k \in BotCalls |-> NoBotCall]
    /\ made = 0 /\ mishaps = {}

RuntimeNext == \E k \in BotCalls :
    \/ \E op \in Operations, token \in BotTokens \cup {Nothing} : Begin(k, op, token)
    \/ Reconnect(k) \/ PauseBot(k) \/ Disconnect(k)
    \/ Ready(k) \/ LoadStates(k) \/ Register(k) \/ ConnectFails(k) \/ RestartBot(k)

RuntimeSpec == RuntimeInit /\ [][RuntimeNext]_runtimeVars

----------------------------------------------------------------------------
RuntimeTypeOK ==
    /\ store \in Store /\ bot \in Bot
    /\ client \in [Clients -> {"unused", "login", "ready", "destroyed"}]
    /\ botCall \in [BotCalls -> [op : Operations \cup {"none", "restore"}, token : BotTokens \cup {Nothing},
                                  pc : {"none", "flush", "login", "load", "register"},
                                  client : Clients \cup {Nothing}]]
    /\ \A k \in BotCalls : botCall[k].client \in Clients <=> botCall[k].pc \in {"login", "load", "register"}
    /\ made \in 0..MaxBotCalls
    /\ mishaps \subseteq {"late failure", "forgotten while resuming"}

\* Nothing is under way except logins of destroyed clients, which may never end.
Settled == \A k \in BotCalls : Idle(k) \/ (At(k, "login") /\ client[botCall[k].client] = "destroyed")

\* Turned off, or without its token, the bot has no client running, however the
\* calls of several windows interleave, unless an older connection attempt failed
\* after a newer one had put its client in place.
NoStrayClient ==
    Settled /\ "late failure" \notin mishaps =>
        /\ Live \subseteq {bot.client}
        /\ Live # {} => bot.enabled

\* What the status reports and what the next start will restore agree, unless the
\* token was removed while the bot was being resumed with it.
StatusIsStored ==
    Settled /\ "forgotten while resuming" \notin mishaps =>
        /\ bot.token <=> store.token # Nothing
        /\ bot.enabled <=> store.token # Nothing /\ store.on

\* Off means off: no client that nobody can stop, and no switch that comes back.
OffMeansOff == NoStrayClient /\ StatusIsStored
=============================================================================
