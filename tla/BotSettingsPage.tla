-------------------------- MODULE BotSettingsPage --------------------------
(***************************************************************************)
(* The page that sets the Discord bot's answer model and, for each server,   *)
(* the roles and members it obeys.  The page talks to the bot's process,     *)
(* whose directory keeps a copy of the settings: the copy that the commands  *)
(* and the questions are checked against.  The rows are in the database.     *)
(*                                                                           *)
(* A job is one asynchronous operation of the page; its steps are what       *)
(* happens between two awaits, in the page or in the directory.  The lists   *)
(* for synchronisation and for questions are handled alike: one is modelled. *)
(***************************************************************************)
EXTENDS Naturals, FiniteSets

CONSTANTS
    Guilds,       \* Discord servers that the bot is a member of
    Roles,        \* roles of these servers
    Members,      \* members of these servers
    GuildOf,      \* the server of a role or a member
    AnswerModels,
    Jobs,         \* operations of the page under way together (a bound)
    NoGuild,      \* nothing is selected, nothing is answered
    MaxJobs       \* bound: operations started

ASSUME BotPageAssumption ==
    /\ NoGuild \notin Guilds /\ Roles \cap Members = {}
    /\ GuildOf \in [Roles \cup Members -> Guilds] /\ MaxJobs \in Nat

Subjects == Roles \cup Members

VARIABLES
    savedSettings, \* the bot's settings in the database
    directory,    \* DiscordBotDirectory.persisted
    botSettings,  \* the page's settings, unsaved edits included
    guild,        \* the selected server, currentGuild, whose availableRoles are shown
    results,      \* what the subject search offers
    edited,       \* servers whose permissions were edited since they were read or saved
    job,          \* what each operation is doing
    jobs,         \* operations started
    overlaps      \* history: which overlaps and failures there were

botPageVars == <<savedSettings, directory, botSettings, guild, results, edited, job, jobs, overlaps>>

----------------------------------------------------------------------------
BotSettings == [subjects : [Guilds -> SUBSET Subjects], model : AnswerModels]
AnyGuild == Guilds \cup {NoGuild}

Job(op, pc, g, input) ==
    [op |-> op, pc |-> pc, guild |-> g, input |-> input, got |-> NoGuild, stale |-> FALSE]
NoJob == Job("none", "none", NoGuild, NoGuild)
JobAt(j, op, pc) == job[j].op = op /\ job[j].pc = pc
FreeJob(j) == job[j] = NoJob
Step(j, pc) == [job EXCEPT ![j].pc = pc]
\* supersede, and nextRevision of a search: what is under way no longer applies.
SupersededJobs(op) == [j \in Jobs |-> IF job[j].op = op THEN [job[j] EXCEPT !.stale = TRUE] ELSE job[j]]

Starts == jobs < MaxJobs /\ jobs' = jobs + 1
Changes(op) == op \in {"save", "model"}

----------------------------------------------------------------------------
(* Reading the settings: the page, the directory, the database. *)

\* refresh; the status that it reads too is not modelled.
RefreshBotPage(j) ==
    /\ FreeJob(j) /\ Starts
    /\ job' = [SupersededJobs("refresh") EXCEPT ![j] = Job("refresh", "sent", NoGuild, NoGuild)]
    /\ UNCHANGED <<savedSettings, directory, botSettings, guild, results, edited, overlaps>>

ReadSettings(j) ==
    /\ JobAt(j, "refresh", "sent")
    /\ job' = [job EXCEPT ![j].pc = "read", ![j].got = savedSettings]
    /\ UNCHANGED <<savedSettings, directory, botSettings, guild, results, edited, jobs, overlaps>>

\* DiscordBotDirectory.refresh: the copy is replaced by what the database answered.  A save of
\* the model under way stays with the copy that it found: this.persisted.model = await ...
DirectoryRefresh(j) ==
    /\ JobAt(j, "refresh", "read")
    /\ directory' = job[j].got
    /\ job' = [SupersededJobs("model") EXCEPT ![j].pc = "answered"]
    /\ overlaps' = overlaps \cup (IF job[j].got # savedSettings THEN {"late read"} ELSE {})
    /\ UNCHANGED <<savedSettings, botSettings, guild, results, edited, jobs>>

\* loadSelectedGuild: the roles of the server are fetched while the old ones are shown.
LoadSelectedGuild(j, g, revised) ==
    /\ guild' = [guild EXCEPT !.selected = g, !.current = g]
    /\ results' = {}
    /\ job' = [[k \in Jobs |-> IF revised[k].op = "search" THEN [revised[k] EXCEPT !.stale = TRUE]
                               ELSE revised[k]] EXCEPT ![j] = Job("load", "roles", g, NoGuild)]
    /\ overlaps' = overlaps \cup (IF \E k \in Jobs \ {j} : job[k].op = "load" /\ job[k].guild # g
                                  THEN {"two loads"} ELSE {})

\* The newest refresh is rendered, the others are dropped.
ApplyRefresh(j) ==
    /\ JobAt(j, "refresh", "answered") /\ ~job[j].stale
    /\ botSettings' = job[j].got /\ edited' = {}
    /\ \E g \in Guilds : (guild.selected # NoGuild => g = guild.selected) /\ LoadSelectedGuild(j, g, job)
    /\ UNCHANGED <<savedSettings, directory, jobs>>

DropRefresh(j) ==
    /\ JobAt(j, "refresh", "answered") /\ job[j].stale
    /\ job' = [job EXCEPT ![j] = NoJob]
    /\ UNCHANGED <<savedSettings, directory, botSettings, guild, results, edited, jobs, overlaps>>

SelectGuild(j, g) ==
    /\ FreeJob(j) /\ Starts /\ guild.selected # NoGuild /\ g # guild.selected
    /\ LoadSelectedGuild(j, g, job)
    /\ UNCHANGED <<savedSettings, directory, botSettings, edited>>

\* The directory's roles; then its subjectAvailability, which only marks the subjects.
ShowRoles(j) ==
    /\ JobAt(j, "load", "roles")
    /\ guild' = [guild EXCEPT !.roles = job[j].guild]
    /\ job' = Step(j, "availability")
    /\ UNCHANGED <<savedSettings, directory, botSettings, results, edited, jobs, overlaps>>

\* The end of loadSelectedGuild, also when the bot is offline and knows no roles.
ShowAvailability(j) ==
    /\ job[j].op = "load"
    /\ \/ job[j].pc = "availability" /\ UNCHANGED guild
       \/ guild' = [guild EXCEPT !.roles = NoGuild]
    /\ job' = [job EXCEPT ![j] = NoJob]
    /\ UNCHANGED <<savedSettings, directory, botSettings, results, edited, jobs, overlaps>>

----------------------------------------------------------------------------
(* The subject search: at once the roles that are known, then the members too. *)

\* renderResults, availableCandidates: what is not selected already.
Candidates(members) ==
    {s \in Subjects : s \in Roles /\ GuildOf[s] = guild.roles} \cup members

Search(j) ==
    /\ FreeJob(j) /\ Starts /\ guild.current # NoGuild
    /\ results' = Candidates({}) \ botSettings.subjects[guild.current]
    /\ job' = [SupersededJobs("search") EXCEPT ![j] = Job("search", "sent", guild.current, NoGuild)]
    /\ overlaps' = overlaps \cup (IF guild.roles \notin {guild.current, NoGuild}
                                  THEN {"other roles"} ELSE {})
    /\ UNCHANGED <<savedSettings, directory, botSettings, guild, edited>>

\* Mutant of IsCurrent: every answer of a search is shown.
IsCurrentAlways(j) == TRUE

\* isCurrent: a newer search, a cleared one or another server make the answer void.
IsCurrent(j) == ~job[j].stale /\ guild.current = job[j].guild

ShowMembers(j) ==
    /\ JobAt(j, "search", "sent") /\ IsCurrent(j)
    /\ results' = Candidates({s \in Members : GuildOf[s] = job[j].guild})
                    \ botSettings.subjects[guild.current]
    /\ job' = [job EXCEPT ![j] = NoJob]
    /\ overlaps' = overlaps \cup (IF guild.roles \notin {guild.current, NoGuild}
                                  THEN {"other roles"} ELSE {})
    /\ UNCHANGED <<savedSettings, directory, botSettings, guild, edited, jobs>>

\* Void, or failed: nothing is shown but a message.
SearchEnds(j) ==
    /\ JobAt(j, "search", "sent")
    /\ job' = [job EXCEPT ![j] = NoJob]
    /\ UNCHANGED <<savedSettings, directory, botSettings, guild, results, edited, jobs, overlaps>>

AddSubject(s) ==
    /\ guild.current # NoGuild /\ s \in results
    /\ botSettings' = [botSettings EXCEPT !.subjects[guild.current] = @ \cup {s}]
    /\ edited' = edited \cup {guild.current}
    /\ results' = {} /\ job' = SupersededJobs("search")     \* clear
    /\ UNCHANGED <<savedSettings, directory, guild, jobs, overlaps>>

RemoveSubject(s) ==
    /\ guild.current # NoGuild /\ s \in botSettings.subjects[guild.current]
    /\ botSettings' = [botSettings EXCEPT !.subjects[guild.current] = @ \ {s}]
    /\ edited' = edited \cup {guild.current}
    /\ UNCHANGED <<savedSettings, directory, guild, results, job, jobs, overlaps>>

----------------------------------------------------------------------------
(* Saving.  One save for each server, and one of the model, at a time. *)

SavePermissions(j) ==
    /\ FreeJob(j) /\ Starts /\ guild.current # NoGuild
    /\ \A k \in Jobs : ~(job[k].op = "save" /\ job[k].guild = guild.current)
    /\ job' = [job EXCEPT ![j] =
                 Job("save", "sent", guild.current, botSettings.subjects[guild.current])]
    /\ UNCHANGED <<savedSettings, directory, botSettings, guild, results, edited, overlaps>>

\* The model is shown as saved at once; the old one comes back when saving fails.
SaveModel(j, m) ==
    /\ FreeJob(j) /\ Starts
    /\ \A k \in Jobs : job[k].op # "model"
    /\ job' = [job EXCEPT ![j] = [Job("model", "sent", NoGuild, m) EXCEPT !.got = botSettings.model]]
    /\ botSettings' = [botSettings EXCEPT !.model = m]
    /\ UNCHANGED <<savedSettings, directory, guild, results, edited, overlaps>>

With(settings, j) ==
    IF job[j].op = "save" THEN [settings EXCEPT !.subjects[job[j].guild] = job[j].input]
    ELSE [settings EXCEPT !.model = job[j].input]

WriteSettings(j) ==
    /\ Changes(job[j].op) /\ job[j].pc = "sent"
    /\ savedSettings' = With(savedSettings, j)
    /\ job' = Step(j, "written")
    /\ UNCHANGED <<directory, botSettings, guild, results, edited, jobs, overlaps>>

\* updateModel and updatePermissions of the directory.
DirectoryUpdate(j) ==
    /\ Changes(job[j].op) /\ job[j].pc = "written" /\ ~job[j].stale
    /\ directory' = With(directory, j)
    /\ job' = Step(j, "answered")
    /\ UNCHANGED <<savedSettings, botSettings, guild, results, edited, jobs, overlaps>>

\* updateModel when its copy has been replaced: the model goes to the one that is given up,
\* and the model of the new one is what the page is told.
UpdateMissesDirectory(j) ==
    /\ JobAt(j, "model", "written") /\ job[j].stale
    /\ job' = [job EXCEPT ![j].pc = "answered", ![j].input = directory.model]
    /\ overlaps' = overlaps \cup (IF directory.model # job[j].input THEN {"replaced"} ELSE {})
    /\ UNCHANGED <<savedSettings, directory, botSettings, guild, results, edited, jobs>>

\* commit: what the directory answered is shown.  The saved server becomes the current one,
\* whichever is selected by now, and edits made while it was being saved are gone.
CommitSettings(j) ==
    /\ Changes(job[j].op) /\ job[j].pc = "answered"
    /\ botSettings' = With(botSettings, j)
    /\ job' = [SupersededJobs("refresh") EXCEPT ![j] = NoJob]
    /\ IF job[j].op = "save"
       THEN /\ guild' = [guild EXCEPT !.current = job[j].guild]
            /\ edited' = edited \ {job[j].guild}
            /\ overlaps' = overlaps \cup (IF guild.current # job[j].guild THEN {"late save"} ELSE {})
       ELSE UNCHANGED <<guild, edited, overlaps>>
    /\ UNCHANGED <<savedSettings, directory, results, jobs>>

\* An answer is lost on the way to the directory, or on its way to the page.
SaveFails(j) ==
    /\ Changes(job[j].op)
    /\ job' = [job EXCEPT ![j] = NoJob]
    /\ botSettings' = IF job[j].op = "model" THEN [botSettings EXCEPT !.model = job[j].got] ELSE botSettings
    /\ overlaps' = overlaps \cup {"failed"}
    /\ UNCHANGED <<savedSettings, directory, guild, results, edited, jobs>>

----------------------------------------------------------------------------
\* The settings the bot starts with are those of the database, nobody is permitted
\* yet; the page has not read them.
BotPageInit ==
    /\ \E m \in AnswerModels : savedSettings = [subjects |-> [g \in Guilds |-> {}], model |-> m]
    /\ directory = savedSettings /\ botSettings = savedSettings
    /\ guild = [selected |-> NoGuild, current |-> NoGuild, roles |-> NoGuild]
    /\ results = {} /\ edited = {}
    /\ job = [j \in Jobs |-> NoJob]
    /\ jobs = 0 /\ overlaps = {}

BotPageNext ==
    \/ \E j \in Jobs :
        \/ RefreshBotPage(j) \/ ReadSettings(j) \/ DirectoryRefresh(j) \/ ApplyRefresh(j) \/ DropRefresh(j)
        \/ \E g \in Guilds : SelectGuild(j, g)
        \/ ShowRoles(j) \/ ShowAvailability(j)
        \/ Search(j) \/ ShowMembers(j) \/ SearchEnds(j)
        \/ SavePermissions(j) \/ \E m \in AnswerModels : SaveModel(j, m)
        \/ WriteSettings(j) \/ DirectoryUpdate(j) \/ UpdateMissesDirectory(j) \/ CommitSettings(j) \/ SaveFails(j)
    \/ \E s \in Subjects : AddSubject(s) \/ RemoveSubject(s)

BotPageSpec == BotPageInit /\ [][BotPageNext]_botPageVars

----------------------------------------------------------------------------
BotPageTypeOK ==
    /\ {savedSettings, directory, botSettings} \subseteq BotSettings
    /\ guild \in [selected : AnyGuild, current : AnyGuild, roles : AnyGuild]
    /\ results \subseteq Subjects /\ edited \subseteq Guilds
    /\ \A j \in Jobs : job[j].op = "none" <=> FreeJob(j)
    /\ jobs \in 0..MaxJobs
    /\ overlaps \subseteq {"late read", "two loads", "other roles", "late save", "replaced", "failed"}

NoJobs == \A j \in Jobs : FreeJob(j)

\* When nothing is under way the bot decides by the permissions and the model that
\* are stored, unless a refresh had read them before a save and came back after it, or,
\* for the model alone, came back while it was saved.
DirectoryIsStored ==
    NoJobs /\ overlaps \cap {"late read", "failed"} = {} =>
        /\ directory.subjects = savedSettings.subjects
        /\ "replaced" \notin overlaps => directory.model = savedSettings.model

\* The page then shows them too, but for servers with unsaved edits, although
\* refreshes and saves overlap.
PageIsStored ==
    NoJobs /\ "failed" \notin overlaps =>
        /\ "replaced" \notin overlaps => botSettings.model = savedSettings.model
        /\ \A g \in Guilds \ edited : botSettings.subjects[g] = savedSettings.subjects[g]

\* A server never permits a role or a member of another server, however quickly the
\* servers are switched while searches are answered, unless the roles on display
\* were another server's or a save came back after the switch.
SubjectsOfTheServer ==
    overlaps \cap {"other roles", "late save"} = {} =>
        \A g \in Guilds : \A s \in savedSettings.subjects[g] : GuildOf[s] = g

\* The permissions that the bot obeys, those on display and those stored agree, and
\* they are about the right server.
PermissionsAgree == DirectoryIsStored /\ PageIsStored /\ SubjectsOfTheServer
=============================================================================
