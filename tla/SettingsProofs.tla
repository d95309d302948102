--------------------------- MODULE SettingsProofs ---------------------------
(***************************************************************************)
(* What holds of the two pages of settings: of BotSettingsPage for any       *)
(* number of servers, subjects and operations under way, of WorkspaceSettings  *)
(* for any providers, models and indexes and any number of operations that    *)
(* are under way together.                                                    *)
(***************************************************************************)
EXTENDS BotSettingsPage, WorkspaceSettings, TLAPS

-----------------------------------------------------------------------------
(* The bot's settings: the inductive invariant. *)

BotInput == {NoGuild} \cup (SUBSET Subjects) \cup AnswerModels
BotJob == [op : {"none", "refresh", "load", "search", "save", "model"},
           pc : {"none", "sent", "read", "answered", "roles", "availability", "written"},
           guild : AnyGuild, input : BotInput,
           got : {NoGuild} \cup BotSettings \cup AnswerModels, stale : BOOLEAN]
GuildState == [selected : AnyGuild, current : AnyGuild, roles : AnyGuild]
Overlappings == {"late read", "two loads", "other roles", "late save", "replaced", "failed"}

\* What an operation has in hand at each of its steps.
JobFits(b) ==
    /\ b.op = "none" => b = NoJob
    /\ b.op = "refresh" => /\ b.pc \in {"sent", "read", "answered"}
                           /\ b.pc # "sent" => b.got \in BotSettings
    /\ b.op \in {"load", "search", "save"} => b.guild \in Guilds
    /\ b.op = "save" => b.input \subseteq Subjects
    /\ b.op = "model" => b.guild = NoGuild /\ b.input \in AnswerModels /\ b.got \in AnswerModels
    /\ Changes(b.op) => b.pc \in {"sent", "written", "answered"}

BotJobsFit == \A j \in Jobs : JobFits(job[j])

\* One save of each server and one of the model at a time.
OneChange ==
    \A j, k \in Jobs : Changes(job[j].op) /\ job[k].op = job[j].op /\ job[k].guild = job[j].guild => k = j

\* What has been written stays until its operation ends; of a model that missed the directory
\* the page is told another one.
ChangesAreStored ==
    \A j \in Jobs : job[j].pc \in {"written", "answered"} =>
        /\ job[j].op = "save" => savedSettings.subjects[job[j].guild] = job[j].input
        /\ job[j].op = "model" =>
               savedSettings.model = job[j].input \/ (job[j].pc = "answered" /\ "replaced" \in overlaps)

SaveIsPending(g) == \E j \in Jobs : job[j].op = "save" /\ job[j].guild = g
ModelIsPending == \E j \in Jobs : job[j].op = "model"
SaveIsWritten(g) == \E j \in Jobs : job[j].op = "save" /\ job[j].guild = g /\ job[j].pc = "written"
ModelIsWritten == \E j \in Jobs : job[j].op = "model" /\ job[j].pc = "written"

\* The directory lacks at most what has been written and not yet been told to it.
DirectoryFollows ==
    overlaps \cap {"late read", "failed"} = {} =>
        /\ directory.model = savedSettings.model \/ ModelIsWritten \/ "replaced" \in overlaps
        /\ \A g \in Guilds : directory.subjects[g] = savedSettings.subjects[g] \/ SaveIsWritten(g)

\* What is shown, or read and not void, lacks at most a change that is under way.
Follows(settings, servers) ==
    /\ settings.model = savedSettings.model \/ ModelIsPending \/ "replaced" \in overlaps
    /\ \A g \in servers : settings.subjects[g] = savedSettings.subjects[g] \/ SaveIsPending(g)

PageFollows ==
    "failed" \notin overlaps =>
        /\ Follows(botSettings, Guilds \ edited)
        /\ \A j \in Jobs : job[j].op = "refresh" /\ job[j].pc # "sent" /\ ~job[j].stale =>
                               Follows(job[j].got, Guilds)

\* Every subject is of the server that permits it, or is about to.
OfTheirServers(settings) == \A g \in Guilds : \A s \in settings.subjects[g] : GuildOf[s] = g

ServersFit ==
    overlaps \cap {"other roles", "late save"} = {} =>
        /\ OfTheirServers(savedSettings) /\ OfTheirServers(botSettings)
        /\ \A s \in results : GuildOf[s] = guild.current
        /\ \A j \in Jobs :
             /\ job[j].op = "save" => \A s \in job[j].input : GuildOf[s] = job[j].guild
             /\ job[j].op = "refresh" /\ job[j].pc # "sent" => OfTheirServers(job[j].got)

BotInv ==
    /\ BotPageTypeOK /\ job \in [Jobs -> BotJob]
    /\ BotJobsFit /\ OneChange /\ ChangesAreStored
    /\ DirectoryFollows /\ PageFollows /\ ServersFit

-----------------------------------------------------------------------------
(* The bot's settings: lemmas. *)

LEMMA BotTypes ==
    ASSUME BotInv
    PROVE  /\ savedSettings \in BotSettings /\ directory \in BotSettings /\ botSettings \in BotSettings
           /\ guild \in GuildState /\ results \subseteq Subjects /\ edited \subseteq Guilds
           /\ jobs \in 0..MaxJobs /\ overlaps \subseteq Overlappings
           /\ job \in [Jobs -> BotJob]
           /\ \A j \in Jobs : JobFits(job[j]) /\ (job[j].op = "none" <=> FreeJob(j))
BY DEF BotInv, BotPageTypeOK, GuildState, Overlappings, BotJobsFit

LEMMA BotTypesAgain ==
    ASSUME /\ savedSettings' \in BotSettings /\ directory' \in BotSettings /\ botSettings' \in BotSettings
           /\ guild' \in GuildState /\ results' \subseteq Subjects /\ edited' \subseteq Guilds
           /\ jobs' \in 0..MaxJobs /\ overlaps' \subseteq Overlappings,
           \A j \in Jobs : JobFits(job'[j])
    PROVE  BotPageTypeOK'
<1>1. \A j \in Jobs : (job[j].op = "none" <=> FreeJob(j))'
  <2> SUFFICES ASSUME NEW j \in Jobs PROVE job'[j].op = "none" <=> job'[j] = NoJob
    BY DEF FreeJob
  <2>1. NoJob.op = "none"
    BY DEF NoJob, Job
  <2> QED
    BY <2>1 DEF JobFits
<1> QED
  BY <1>1 DEF BotPageTypeOK, GuildState, Overlappings

\* The operation of a free slot, and the new one that starts in it.
LEMMA NoJobFits ==
    /\ NoJob \in BotJob /\ JobFits(NoJob)
    /\ NoJob.op = "none" /\ NoJob.pc = "none" /\ NoJob.guild = NoGuild /\ ~Changes(NoJob.op)
BY DEF NoJob, Job, BotJob, BotInput, AnyGuild, JobFits, Changes

LEMMA NewJob ==
    ASSUME NEW op \in {"none", "refresh", "load", "search", "save", "model"},
           NEW pc \in {"none", "sent", "read", "answered", "roles", "availability", "written"},
           NEW g \in AnyGuild, NEW input \in BotInput
    PROVE  /\ Job(op, pc, g, input) \in BotJob
           /\ Job(op, pc, g, input) = [op |-> op, pc |-> pc, guild |-> g, input |-> input,
                                       got |-> NoGuild, stale |-> FALSE]
           /\ Job(op, pc, g, input).op = op /\ Job(op, pc, g, input).pc = pc
           /\ Job(op, pc, g, input).guild = g /\ Job(op, pc, g, input).input = input
           /\ Job(op, pc, g, input).got = NoGuild /\ Job(op, pc, g, input).stale = FALSE
<1>1. Job(op, pc, g, input) = [op |-> op, pc |-> pc, guild |-> g, input |-> input, got |-> NoGuild, stale |-> FALSE]
  BY DEF Job
<1>2. NoGuild \in {NoGuild} \cup BotSettings \cup AnswerModels
  OBVIOUS
<1>3. [op |-> op, pc |-> pc, guild |-> g, input |-> input, got |-> NoGuild, stale |-> FALSE] \in BotJob
  BY <1>2 DEF BotJob
<1> QED
  BY <1>1, <1>3

\* An operation that the step leaves alone, or makes void.
KeptJob(k) ==
    \/ job'[k] = job[k]
    \/ job[k].op \in {"refresh", "search", "model"} /\ job'[k] = [job[k] EXCEPT !.stale = TRUE]

LEMMA KeptFields ==
    ASSUME BotInv, NEW k \in Jobs, KeptJob(k)
    PROVE  /\ job'[k] \in BotJob /\ JobFits(job'[k])
           /\ job'[k].op = job[k].op /\ job'[k].pc = job[k].pc /\ job'[k].guild = job[k].guild
           /\ job'[k].input = job[k].input /\ job'[k].got = job[k].got
           /\ ~job'[k].stale => ~job[k].stale
<1>1. job[k] \in BotJob /\ JobFits(job[k])
  BY BotTypes
<1>2. CASE job'[k] = job[k]
  BY <1>1, <1>2
<1>3. CASE job[k].op \in {"refresh", "search", "model"} /\ job'[k] = [job[k] EXCEPT !.stale = TRUE]
  <2>1. /\ job'[k] \in BotJob
        /\ job'[k].op = job[k].op /\ job'[k].pc = job[k].pc /\ job'[k].guild = job[k].guild
        /\ job'[k].input = job[k].input /\ job'[k].got = job[k].got /\ job'[k].stale = TRUE
    BY ONLY <1>1, <1>3 DEF BotJob
  <2>2. JobFits(job'[k])
    BY ONLY <1>1, <1>3, <2>1 DEF JobFits, Changes
  <2> QED
    BY <2>1, <2>2
<1> QED
  BY <1>2, <1>3 DEF KeptJob

JobsAfter == job' = [k \in Jobs |-> job'[k]]

\* What a step of one operation does to the others.
OthersKept(j) == \A k \in Jobs \ {j} : KeptJob(k)

\* A step of operations M that change nothing stored, and are not about to.
LEMMA QuietStep ==
    ASSUME BotInv, NEW M \in SUBSET Jobs, \A k \in Jobs \ M : KeptJob(k),
           \A j \in M : ~Changes(job[j].op) /\ ~Changes(job'[j].op), UNCHANGED savedSettings,
           overlaps \subseteq overlaps'
    PROVE  /\ OneChange' /\ ChangesAreStored'
           /\ \A g \in Guilds : (SaveIsPending(g)' <=> SaveIsPending(g)) /\ (SaveIsWritten(g)' <=> SaveIsWritten(g))
           /\ ModelIsPending' <=> ModelIsPending
           /\ ModelIsWritten' <=> ModelIsWritten
<1>1. \A k \in Jobs \ M : /\ job'[k].op = job[k].op /\ job'[k].pc = job[k].pc
                         /\ job'[k].guild = job[k].guild /\ job'[k].input = job[k].input
  BY KeptFields
<1>2. OneChange'
  BY <1>1 DEF BotInv, OneChange
<1>3. ChangesAreStored'
  BY <1>1 DEF BotInv, ChangesAreStored, Changes
<1>4. \A g \in Guilds : SaveIsPending(g)' <=> SaveIsPending(g)
  BY <1>1 DEF SaveIsPending, Changes
<1>5. \A g \in Guilds : SaveIsWritten(g)' <=> SaveIsWritten(g)
  BY <1>1 DEF SaveIsWritten, Changes
<1>6. ModelIsPending' <=> ModelIsPending
  BY <1>1 DEF ModelIsPending, Changes
<1>7. ModelIsWritten' <=> ModelIsWritten
  BY <1>1 DEF ModelIsWritten, Changes
<1> QED
  BY <1>2, <1>3, <1>4, <1>5, <1>6, <1>7

\* What remains to be shown of a step that changes nothing stored.
LEMMA QuietMoves ==
    ASSUME BotInv, NEW M \in SUBSET Jobs, \A k \in Jobs \ M : KeptJob(k), JobsAfter,
           \A j \in M : /\ job'[j] \in BotJob /\ JobFits(job'[j])
                       /\ ~Changes(job[j].op) /\ ~Changes(job'[j].op),
           botSettings' \in BotSettings, directory' \in BotSettings, guild' \in GuildState,
           results' \subseteq Subjects, edited' \subseteq Guilds, jobs' \in 0..MaxJobs,
           overlaps' \subseteq Overlappings, overlaps \subseteq overlaps',
           UNCHANGED savedSettings,
           overlaps' \cap {"late read", "failed"} = {} =>
               UNCHANGED directory \/ directory' = savedSettings,
           "failed" \notin overlaps =>
               /\ Follows(botSettings', Guilds \ edited')
               /\ \A j \in M : job'[j].op = "refresh" /\ job'[j].pc # "sent" /\ ~job'[j].stale =>
                                  Follows(job'[j].got, Guilds),
           overlaps' \cap {"other roles", "late save"} = {} =>
               /\ OfTheirServers(botSettings')
               /\ \A s \in results' : GuildOf[s] = guild'.current
               /\ \A j \in M : job'[j].op = "refresh" /\ job'[j].pc # "sent" => OfTheirServers(job'[j].got)
    PROVE  BotInv'
<1>1. \A k \in Jobs : job'[k] \in BotJob /\ JobFits(job'[k])
  BY KeptFields
<1>2. job' \in [Jobs -> BotJob] /\ savedSettings' \in BotSettings
  BY <1>1, BotTypes DEF JobsAfter
<1>3. BotPageTypeOK'
  BY <1>1, <1>2, BotTypesAgain
<1>4. /\ OneChange' /\ ChangesAreStored'
      /\ \A g \in Guilds : (SaveIsPending(g)' <=> SaveIsPending(g)) /\ (SaveIsWritten(g)' <=> SaveIsWritten(g))
      /\ ModelIsPending' <=> ModelIsPending
      /\ ModelIsWritten' <=> ModelIsWritten
  BY QuietStep
<1>5. DirectoryFollows'
  BY <1>4 DEF BotInv, DirectoryFollows
<1>6. \A k \in Jobs \ M : /\ job'[k].op = job[k].op /\ job'[k].pc = job[k].pc /\ job'[k].guild = job[k].guild
                          /\ job'[k].input = job[k].input /\ job'[k].got = job[k].got
                          /\ ~job'[k].stale => ~job[k].stale
  BY KeptFields
<1>7. PageFollows'
  <2> SUFFICES ASSUME "failed" \notin overlaps'
               PROVE  /\ Follows(botSettings, Guilds \ edited)'
                      /\ \A k \in Jobs : job'[k].op = "refresh" /\ job'[k].pc # "sent" /\ ~job'[k].stale =>
                                             Follows(job[k].got, Guilds)'
    BY DEF PageFollows
  <2>1. Follows(botSettings', Guilds \ edited')
    OBVIOUS
  <2>2. \A k \in Jobs : job'[k].op = "refresh" /\ job'[k].pc # "sent" /\ ~job'[k].stale => Follows(job'[k].got, Guilds)
    <3> SUFFICES ASSUME NEW k \in Jobs \ M, job'[k].op = "refresh", job'[k].pc # "sent", ~job'[k].stale
                 PROVE  Follows(job'[k].got, Guilds)
      OBVIOUS
    <3>1. /\ job'[k].op = job[k].op /\ job'[k].pc = job[k].pc /\ job'[k].got = job[k].got
          /\ ~job'[k].stale => ~job[k].stale
      BY <1>6
    <3>2. "failed" \notin overlaps
      OBVIOUS
    <3>3. job[k].op = "refresh" /\ job[k].pc # "sent" /\ ~job[k].stale => Follows(job[k].got, Guilds)
      BY <3>2 DEF BotInv, PageFollows
    <3> QED
      BY <3>1, <3>3
  <2>3. ASSUME NEW settings, NEW servers \in SUBSET Guilds, Follows(settings, servers)
        PROVE  /\ settings.model = savedSettings'.model \/ ModelIsPending' \/ "replaced" \in overlaps'
               /\ \A g \in servers : settings.subjects[g] = savedSettings'.subjects[g] \/ SaveIsPending(g)'
    BY <1>4, <2>3 DEF Follows
  <2>4. Follows(botSettings, Guilds \ edited)'
    BY <2>1, <2>3 DEF Follows
  <2>5. ASSUME NEW k \in Jobs, job'[k].op = "refresh" /\ job'[k].pc # "sent" /\ ~job'[k].stale
        PROVE  Follows(job[k].got, Guilds)'
    BY <2>2, <2>3, <2>5 DEF Follows
  <2> QED
    BY <2>4, <2>5
<1>8. ServersFit'
  <2> SUFFICES ASSUME overlaps' \cap {"other roles", "late save"} = {}
               PROVE  /\ OfTheirServers(savedSettings') /\ OfTheirServers(botSettings')
                      /\ \A s \in results' : GuildOf[s] = guild'.current
                      /\ \A k \in Jobs :
                           /\ job'[k].op = "save" => \A s \in job'[k].input : GuildOf[s] = job'[k].guild
                           /\ job'[k].op = "refresh" /\ job'[k].pc # "sent" => OfTheirServers(job'[k].got)
    BY DEF ServersFit, OfTheirServers
  <2>1. /\ OfTheirServers(savedSettings)
        /\ \A k \in Jobs :
             /\ job[k].op = "save" => \A s \in job[k].input : GuildOf[s] = job[k].guild
             /\ job[k].op = "refresh" /\ job[k].pc # "sent" => OfTheirServers(job[k].got)
    BY DEF BotInv, ServersFit
  <2>2. \A j \in M : job'[j].op # "save"
    BY DEF Changes
  <2>3. savedSettings' = savedSettings
    OBVIOUS
  <2>4. OfTheirServers(savedSettings')
    BY <2>1, <2>3
  <2>5. \A k \in Jobs \ M :
             /\ job'[k].op = "save" => \A s \in job'[k].input : GuildOf[s] = job'[k].guild
             /\ job'[k].op = "refresh" /\ job'[k].pc # "sent" => OfTheirServers(job'[k].got)
    <3> TAKE k \in Jobs \ M
    <3>1. /\ job'[k].op = job[k].op /\ job'[k].pc = job[k].pc /\ job'[k].guild = job[k].guild
          /\ job'[k].input = job[k].input /\ job'[k].got = job[k].got
      BY <1>6
    <3>2. /\ job[k].op = "save" => \A s \in job[k].input : GuildOf[s] = job[k].guild
          /\ job[k].op = "refresh" /\ job[k].pc # "sent" => OfTheirServers(job[k].got)
      BY <2>1
    <3> QED
      BY ONLY <3>1, <3>2
  <2> QED
    BY <2>2, <2>4, <2>5
<1> QED
  BY <1>1, <1>2, <1>3, <1>4, <1>5, <1>7, <1>8 DEF BotInv, BotJobsFit

\* The same for a step of one operation.
LEMMA QuietAgain ==
    ASSUME BotInv, NEW j \in Jobs, OthersKept(j), job'[j] \in BotJob, JobFits(job'[j]),
           JobsAfter, ~Changes(job[j].op), ~Changes(job'[j].op),
           botSettings' \in BotSettings, directory' \in BotSettings, guild' \in GuildState,
           results' \subseteq Subjects, edited' \subseteq Guilds, jobs' \in 0..MaxJobs,
           overlaps' \subseteq Overlappings, overlaps \subseteq overlaps',
           UNCHANGED savedSettings,
           overlaps' \cap {"late read", "failed"} = {} =>
               UNCHANGED directory \/ directory' = savedSettings,
           "failed" \notin overlaps =>
               /\ Follows(botSettings', Guilds \ edited')
               /\ job'[j].op = "refresh" /\ job'[j].pc # "sent" /\ ~job'[j].stale => Follows(job'[j].got, Guilds),
           overlaps' \cap {"other roles", "late save"} = {} =>
               /\ OfTheirServers(botSettings')
               /\ \A s \in results' : GuildOf[s] = guild'.current
               /\ job'[j].op = "refresh" /\ job'[j].pc # "sent" => OfTheirServers(job'[j].got)
    PROVE  BotInv'
<1> DEFINE M == {j}
<1>1. M \in SUBSET Jobs /\ \A i \in M : i = j
  OBVIOUS
<1>2. \A k \in Jobs \ M : KeptJob(k)
  BY DEF OthersKept
<1>3. \A i \in M : job'[i] = job'[j] /\ job[i] = job[j]
  BY <1>1
<1> HIDE DEF M
<1> QED
  BY <1>1, <1>2, <1>3, QuietMoves

\* Making searches or refreshes void while one slot gets its new operation.
LEMMA SupersededKeeps ==
    ASSUME BotInv, NEW j \in Jobs, NEW op \in {"refresh", "search", "model"}, NEW b,
           job' = [SupersededJobs(op) EXCEPT ![j] = b]
    PROVE  OthersKept(j) /\ job'[j] = b /\ JobsAfter
BY DEF OthersKept, KeptJob, SupersededJobs, JobsAfter

LEMMA OneSlotKeeps ==
    ASSUME BotInv, NEW j \in Jobs, NEW b, job' = [job EXCEPT ![j] = b]
    PROVE  OthersKept(j) /\ job'[j] = b /\ JobsAfter
BY BotTypes DEF OthersKept, KeptJob, JobsAfter

LEMMA FreeIsIdle ==
    ASSUME NEW j \in Jobs, FreeJob(j)
    PROVE  ~Changes(job[j].op) /\ job[j].op = "none"
BY NoJobFits DEF FreeJob

\* Operations started.
LEMMA StartCounts ==
    ASSUME BotInv, Starts
    PROVE  jobs' \in 0..MaxJobs
BY BotTypes, BotPageAssumption DEF Starts

-----------------------------------------------------------------------------
(* The bot's settings: each action keeps the inductive invariant. *)

LEMMA RefreshBotPageKeeps ==
    ASSUME BotInv, NEW j \in Jobs, RefreshBotPage(j)
    PROVE  BotInv'
<1> DEFINE b == Job("refresh", "sent", NoGuild, NoGuild)
<1>1. /\ b \in BotJob /\ b.op = "refresh" /\ b.pc = "sent" /\ JobFits(b) /\ ~Changes(b.op)
  <2>1. b \in BotJob /\ b.op = "refresh" /\ b.pc = "sent"
    <3>1. NoGuild \in AnyGuild /\ NoGuild \in BotInput
      BY DEF AnyGuild, BotInput
    <3>2. b = [op |-> "refresh", pc |-> "sent", guild |-> NoGuild, input |-> NoGuild, got |-> NoGuild, stale |-> FALSE]
      BY DEF Job
    <3>3. NoGuild \in {NoGuild} \cup BotSettings \cup AnswerModels
      OBVIOUS
    <3> HIDE DEF b
    <3> QED
      BY ONLY <3>1, <3>2, <3>3 DEF BotJob
  <2> HIDE DEF b
  <2> QED
    BY <2>1 DEF JobFits, Changes
<1>2. OthersKept(j) /\ job'[j] = b /\ JobsAfter
  BY SupersededKeeps DEF RefreshBotPage
<1>3. ~Changes(job[j].op)
  BY FreeIsIdle DEF RefreshBotPage
<1>4. UNCHANGED <<savedSettings, directory, botSettings, guild, results, edited, overlaps>> /\ jobs' \in 0..MaxJobs
  BY StartCounts DEF RefreshBotPage
<1> HIDE DEF b
<1>5. "failed" \notin overlaps => Follows(botSettings', Guilds \ edited')
  BY <1>4 DEF BotInv, PageFollows
<1>6. overlaps' \cap {"other roles", "late save"} = {} =>
               /\ OfTheirServers(botSettings')
               /\ \A s \in results' : GuildOf[s] = guild'.current
  BY <1>4 DEF BotInv, ServersFit
<1> QED
  BY <1>1, <1>2, <1>3, <1>4, <1>5, <1>6, BotTypes, QuietAgain

\* A slot whose operation is over.
LEMMA JobOverKeeps ==
    ASSUME BotInv, NEW j \in Jobs, ~Changes(job[j].op), job' = [job EXCEPT ![j] = NoJob],
           UNCHANGED <<savedSettings, directory, botSettings, edited, jobs>>,
           guild' \in GuildState, guild'.current = guild.current,
           results' \subseteq Subjects, overlaps' \subseteq Overlappings, overlaps \subseteq overlaps',
           overlaps' \cap {"other roles", "late save"} = {} => \A s \in results' : GuildOf[s] = guild.current
    PROVE  BotInv'
<1>1. OthersKept(j) /\ job'[j] = NoJob /\ JobsAfter
  BY OneSlotKeeps
<1>2. "failed" \notin overlaps => Follows(botSettings', Guilds \ edited')
  BY DEF BotInv, PageFollows
<1>3. overlaps' \cap {"other roles", "late save"} = {} =>
               /\ OfTheirServers(botSettings')
               /\ \A s \in results' : GuildOf[s] = guild'.current
  BY DEF BotInv, ServersFit
<1> QED
  BY <1>1, <1>2, <1>3, BotTypes, NoJobFits, QuietAgain

LEMMA DropRefreshKeeps ==
    ASSUME BotInv, NEW j \in Jobs, DropRefresh(j)
    PROVE  BotInv'
<1>1. ~Changes(job[j].op) /\ job' = [job EXCEPT ![j] = NoJob]
  BY DEF DropRefresh, JobAt, Changes
<1>2. UNCHANGED <<savedSettings, directory, botSettings, guild, results, edited, jobs, overlaps>>
  BY DEF DropRefresh
<1>3. overlaps' \cap {"other roles", "late save"} = {} => \A s \in results' : GuildOf[s] = guild.current
  BY <1>2 DEF BotInv, ServersFit
<1> QED
  BY <1>1, <1>2, <1>3, BotTypes, JobOverKeeps

LEMMA ShowAvailabilityKeeps ==
    ASSUME BotInv, NEW j \in Jobs, ShowAvailability(j)
    PROVE  BotInv'
<1>1. ~Changes(job[j].op) /\ job' = [job EXCEPT ![j] = NoJob]
  BY DEF ShowAvailability, Changes
<1>2. UNCHANGED <<savedSettings, directory, botSettings, results, edited, jobs, overlaps>>
  BY DEF ShowAvailability
<1>3. guild' \in GuildState /\ guild'.current = guild.current
  BY BotTypes DEF ShowAvailability, GuildState, AnyGuild
<1>4. overlaps' \cap {"other roles", "late save"} = {} => \A s \in results' : GuildOf[s] = guild.current
  BY <1>2 DEF BotInv, ServersFit
<1> QED
  BY <1>1, <1>2, <1>3, <1>4, BotTypes, JobOverKeeps

LEMMA SearchEndsKeeps ==
    ASSUME BotInv, NEW j \in Jobs, SearchEnds(j)
    PROVE  BotInv'
<1>1. ~Changes(job[j].op) /\ job' = [job EXCEPT ![j] = NoJob]
  BY DEF SearchEnds, JobAt, Changes
<1>2. UNCHANGED <<savedSettings, directory, botSettings, guild, results, edited, jobs, overlaps>>
  BY DEF SearchEnds
<1>3. overlaps' \cap {"other roles", "late save"} = {} => \A s \in results' : GuildOf[s] = guild.current
  BY <1>2 DEF BotInv, ServersFit
<1> QED
  BY <1>1, <1>2, <1>3, BotTypes, JobOverKeeps

\* The candidates are of the current server unless the roles on display are not.
LEMMA CandidatesFit ==
    ASSUME BotInv, NEW members, members \subseteq Members,
           \A s \in members : GuildOf[s] = guild.current,
           guild.current \in Guilds, guild.roles \in {guild.current, NoGuild}
    PROVE  \A s \in Candidates(members) : GuildOf[s] = guild.current
<1> SUFFICES ASSUME NEW s \in Candidates(members), s \notin members PROVE GuildOf[s] = guild.current
  OBVIOUS
<1>1. s \in Roles /\ GuildOf[s] = guild.roles
  BY DEF Candidates
<1>2. GuildOf[s] \in Guilds
  BY <1>1, BotPageAssumption
<1> QED
  BY <1>1, <1>2, BotPageAssumption

LEMMA CandidatesAreSubjects ==
    ASSUME NEW members, members \subseteq Members
    PROVE  Candidates(members) \subseteq Subjects
BY DEF Candidates, Subjects

LEMMA ShowMembersKeeps ==
    ASSUME BotInv, NEW j \in Jobs, ShowMembers(j)
    PROVE  BotInv'
<1> DEFINE members == {s \in Members : GuildOf[s] = job[j].guild}
<1>1. ~Changes(job[j].op) /\ job' = [job EXCEPT ![j] = NoJob]
  BY DEF ShowMembers, JobAt, Changes
<1>2. UNCHANGED <<savedSettings, directory, botSettings, guild, edited, jobs>>
  BY DEF ShowMembers
<1>3. results' \subseteq Candidates(members)
  BY DEF ShowMembers
<1>4. members \subseteq Members /\ \A s \in members : GuildOf[s] = job[j].guild
  OBVIOUS
<1>5. /\ overlaps \subseteq overlaps' /\ overlaps' \subseteq Overlappings
      /\ overlaps' \cap {"other roles", "late save"} = {} => guild.roles \in {guild.current, NoGuild}
  BY BotTypes DEF ShowMembers, Overlappings
<1>6. guild.current = job[j].guild /\ job[j].guild \in Guilds
  BY BotTypes DEF ShowMembers, IsCurrent, JobAt, JobFits
<1> HIDE DEF members
<1>7. results' \subseteq Subjects
  BY <1>3, <1>4, CandidatesAreSubjects
<1>8. overlaps' \cap {"other roles", "late save"} = {} => \A s \in results' : GuildOf[s] = guild.current
  BY <1>3, <1>4, <1>5, <1>6, CandidatesFit
<1> QED
  BY <1>1, <1>2, <1>5, <1>7, <1>8, BotTypes, JobOverKeeps

LEMMA SearchKeeps ==
    ASSUME BotInv, NEW j \in Jobs, Search(j)
    PROVE  BotInv'
<1> DEFINE b == Job("search", "sent", guild.current, NoGuild)
<1>0. guild.current \in Guilds
  BY BotTypes DEF Search, GuildState, AnyGuild
<1>1. b \in BotJob /\ b.op = "search" /\ b.pc = "sent" /\ b.guild = guild.current
  <2>1. guild.current \in AnyGuild /\ NoGuild \in BotInput
    BY <1>0 DEF AnyGuild, BotInput
  <2>2. b = [op |-> "search", pc |-> "sent", guild |-> guild.current, input |-> NoGuild, got |-> NoGuild,
             stale |-> FALSE]
    BY DEF Job
  <2>3. NoGuild \in {NoGuild} \cup BotSettings \cup AnswerModels
    OBVIOUS
  <2> HIDE DEF b
  <2> QED
    BY ONLY <2>1, <2>2, <2>3 DEF BotJob
<1>2. OthersKept(j) /\ job'[j] = b /\ JobsAfter
  BY SupersededKeeps DEF Search
<1> HIDE DEF b
<1>3. JobFits(b) /\ ~Changes(b.op)
  BY <1>0, <1>1 DEF JobFits, Changes
<1>4. ~Changes(job[j].op)
  BY FreeIsIdle DEF Search
<1>5. UNCHANGED <<savedSettings, directory, botSettings, guild, edited>> /\ jobs' \in 0..MaxJobs
  BY StartCounts DEF Search
<1>6. /\ overlaps \subseteq overlaps' /\ overlaps' \subseteq Overlappings
      /\ overlaps' \cap {"other roles", "late save"} = {} => guild.roles \in {guild.current, NoGuild}
  BY BotTypes DEF Search, Overlappings
<1>7. results' \subseteq Candidates({})
  BY DEF Search
<1>8. results' \subseteq Subjects
  BY <1>7, CandidatesAreSubjects
<1>9. overlaps' \cap {"other roles", "late save"} = {} => \A s \in results' : GuildOf[s] = guild.current
  BY <1>0, <1>6, <1>7, CandidatesFit
<1>10. "failed" \notin overlaps => Follows(botSettings', Guilds \ edited')
  BY <1>5 DEF BotInv, PageFollows
<1>11. overlaps' \cap {"other roles", "late save"} = {} => OfTheirServers(botSettings')
  BY <1>5, <1>6 DEF BotInv, ServersFit
<1> QED
  BY <1>1, <1>2, <1>3, <1>4, <1>5, <1>6, <1>8, <1>9, <1>10, <1>11, BotTypes, QuietAgain

LEMMA ReadSettingsKeeps ==
    ASSUME BotInv, NEW j \in Jobs, ReadSettings(j)
    PROVE  BotInv'
<1> DEFINE b == [job[j] EXCEPT !.pc = "read", !.got = savedSettings]
<1>1. job[j] \in BotJob /\ job[j].op = "refresh" /\ savedSettings \in BotSettings
  BY BotTypes DEF ReadSettings, JobAt
<1>2. b \in BotJob /\ b.op = "refresh" /\ b.pc = "read" /\ b.got = savedSettings
  BY ONLY <1>1 DEF BotJob
<1>3. OthersKept(j) /\ job'[j] = b /\ JobsAfter
  <2>1. job' = [job EXCEPT ![j] = b]
    BY DEF ReadSettings
  <2> QED
    BY <2>1, OneSlotKeeps
<1>4. UNCHANGED <<savedSettings, directory, botSettings, guild, results, edited, jobs, overlaps>>
  BY DEF ReadSettings
<1> HIDE DEF b
<1>5. JobFits(b) /\ ~Changes(b.op) /\ ~Changes(job[j].op)
  BY <1>1, <1>2 DEF JobFits, Changes
<1>6. "failed" \notin overlaps => Follows(botSettings', Guilds \ edited') /\ Follows(b.got, Guilds)
  BY <1>2, <1>4 DEF BotInv, PageFollows, Follows
<1>7. overlaps' \cap {"other roles", "late save"} = {} =>
               /\ OfTheirServers(botSettings') /\ OfTheirServers(b.got)
               /\ \A s \in results' : GuildOf[s] = guild'.current
  BY <1>2, <1>4 DEF BotInv, ServersFit
<1> QED
  BY <1>2, <1>3, <1>4, <1>5, <1>6, <1>7, BotTypes, QuietAgain

LEMMA DirectoryRefreshKeeps ==
    ASSUME BotInv, NEW j \in Jobs, DirectoryRefresh(j)
    PROVE  BotInv'
<1> DEFINE b == [job[j] EXCEPT !.pc = "answered"]
<1>1. job[j] \in BotJob /\ job[j].op = "refresh" /\ job[j].pc = "read" /\ JobFits(job[j])
  BY BotTypes DEF DirectoryRefresh, JobAt
<1>2. b \in BotJob /\ b.op = "refresh" /\ b.pc = "answered" /\ b.got = job[j].got /\ b.stale = job[j].stale
  BY ONLY <1>1 DEF BotJob
<1>3. OthersKept(j) /\ job'[j] = b /\ JobsAfter
  <2>1. SupersededJobs("model")[j] = job[j]
    BY <1>1 DEF SupersededJobs
  <2>2. job' = [SupersededJobs("model") EXCEPT ![j] = b]
    BY <2>1 DEF DirectoryRefresh, SupersededJobs
  <2> QED
    BY <2>2, SupersededKeeps
<1>4. UNCHANGED <<savedSettings, botSettings, guild, results, edited, jobs>>
  BY DEF DirectoryRefresh
<1>5. job[j].got \in BotSettings
  BY <1>1 DEF JobFits
<1> HIDE DEF b
<1>6. JobFits(b) /\ ~Changes(b.op) /\ ~Changes(job[j].op)
  BY <1>1, <1>2, <1>5 DEF JobFits, Changes
<1>7. /\ overlaps \subseteq overlaps' /\ overlaps' \subseteq Overlappings /\ directory' \in BotSettings
      /\ overlaps' \cap {"late read", "failed"} = {} => directory' = savedSettings
  BY <1>5, BotTypes DEF DirectoryRefresh, Overlappings
<1>8. "failed" \notin overlaps => /\ Follows(botSettings', Guilds \ edited')
                                  /\ ~b.stale => Follows(b.got, Guilds)
  BY <1>1, <1>2, <1>4 DEF BotInv, PageFollows
<1>9. overlaps' \cap {"other roles", "late save"} = {} =>
               /\ OfTheirServers(botSettings') /\ OfTheirServers(b.got)
               /\ \A s \in results' : GuildOf[s] = guild'.current
  BY <1>1, <1>2, <1>4, <1>7 DEF BotInv, ServersFit
<1> QED
  BY <1>2, <1>3, <1>4, <1>6, <1>7, <1>8, <1>9, BotTypes, QuietAgain

LEMMA ShowRolesKeeps ==
    ASSUME BotInv, NEW j \in Jobs, ShowRoles(j)
    PROVE  BotInv'
<1> DEFINE b == [job[j] EXCEPT !.pc = "availability"]
<1>1. job[j] \in BotJob /\ job[j].op = "load" /\ job[j].guild \in Guilds
  BY BotTypes DEF ShowRoles, JobAt, JobFits
<1>2. b \in BotJob /\ b.op = "load" /\ b.pc = "availability" /\ b.guild = job[j].guild
  BY ONLY <1>1 DEF BotJob
<1>3. OthersKept(j) /\ job'[j] = b /\ JobsAfter
  <2>1. job' = [job EXCEPT ![j] = b]
    BY DEF ShowRoles, Step
  <2> QED
    BY <2>1, OneSlotKeeps
<1>4. UNCHANGED <<savedSettings, directory, botSettings, results, edited, jobs, overlaps>>
  BY DEF ShowRoles
<1>5. guild' \in GuildState /\ guild'.current = guild.current
  BY <1>1, BotTypes DEF ShowRoles, GuildState, AnyGuild
<1> HIDE DEF b
<1>6. JobFits(b) /\ ~Changes(b.op) /\ ~Changes(job[j].op)
  BY <1>1, <1>2 DEF JobFits, Changes
<1>7. "failed" \notin overlaps => Follows(botSettings', Guilds \ edited')
  BY <1>4 DEF BotInv, PageFollows
<1>8. overlaps' \cap {"other roles", "late save"} = {} =>
               /\ OfTheirServers(botSettings')
               /\ \A s \in results' : GuildOf[s] = guild'.current
  BY <1>4, <1>5 DEF BotInv, ServersFit
<1> QED
  BY <1>2, <1>3, <1>4, <1>5, <1>6, <1>7, <1>8, BotTypes, QuietAgain

\* What loadSelectedGuild begins with.
LEMMA LoadKeeps ==
    ASSUME BotInv, NEW j \in Jobs, NEW g \in Guilds, LoadSelectedGuild(j, g, job)
    PROVE  /\ OthersKept(j) /\ JobsAfter
           /\ job'[j] \in BotJob /\ JobFits(job'[j]) /\ job'[j].op = "load"
           /\ guild' \in GuildState /\ results' = {}
           /\ overlaps \subseteq overlaps' /\ overlaps' \subseteq Overlappings
<1> DEFINE b == Job("load", "roles", g, NoGuild)
<1>1. /\ NoGuild \in {NoGuild} \cup BotSettings \cup AnswerModels
      /\ g \in AnyGuild /\ NoGuild \in BotInput
  BY DEF AnyGuild, BotInput
<1>2. b = [op |-> "load", pc |-> "roles", guild |-> g, input |-> NoGuild, got |-> NoGuild, stale |-> FALSE]
  BY DEF Job
<1>3. /\ job'[j] = b /\ JobsAfter
      /\ \A k \in Jobs \ {j} : job'[k] = IF job[k].op = "search" THEN [job[k] EXCEPT !.stale = TRUE] ELSE job[k]
  BY DEF LoadSelectedGuild, JobsAfter
<1>4. guild' \in GuildState
  BY <1>1, BotTypes DEF LoadSelectedGuild, GuildState
<1> HIDE DEF b
<1>5. b \in BotJob
  BY ONLY <1>1, <1>2 DEF BotJob
<1>6. b.op = "load" /\ b.guild = g
  BY <1>2
<1>7. JobFits(b)
  BY <1>6 DEF JobFits, Changes
<1>8. OthersKept(j)
  BY <1>3 DEF OthersKept, KeptJob
<1>9. results' = {} /\ overlaps \subseteq overlaps' /\ overlaps' \subseteq Overlappings
  BY BotTypes DEF LoadSelectedGuild, Overlappings
<1> QED
  BY <1>3, <1>4, <1>5, <1>6, <1>7, <1>8, <1>9

LEMMA ApplyRefreshKeeps ==
    ASSUME BotInv, NEW j \in Jobs, ApplyRefresh(j)
    PROVE  BotInv'
<1>1. PICK g \in Guilds : LoadSelectedGuild(j, g, job)
  BY DEF ApplyRefresh
<1>2. /\ OthersKept(j) /\ JobsAfter
      /\ job'[j] \in BotJob /\ JobFits(job'[j]) /\ job'[j].op = "load"
      /\ guild' \in GuildState /\ results' = {}
      /\ overlaps \subseteq overlaps' /\ overlaps' \subseteq Overlappings
  BY <1>1, LoadKeeps
<1>3. job[j].op = "refresh" /\ job[j].pc = "answered" /\ ~job[j].stale /\ JobFits(job[j])
  BY BotTypes DEF ApplyRefresh, JobAt
<1>4. job[j].got \in BotSettings /\ ~Changes(job[j].op)
  BY <1>3 DEF JobFits, Changes
<1>5. botSettings' = job[j].got /\ edited' = {} /\ UNCHANGED <<savedSettings, directory, jobs>>
  BY DEF ApplyRefresh
<1>6. ~Changes(job'[j].op)
  BY <1>2 DEF Changes
<1>7. "failed" \notin overlaps => Follows(botSettings', Guilds \ edited')
  BY <1>3, <1>5 DEF BotInv, PageFollows
<1>8. overlaps' \cap {"other roles", "late save"} = {} => OfTheirServers(botSettings')
  BY <1>2, <1>3, <1>5 DEF BotInv, ServersFit
<1> QED
  BY <1>2, <1>4, <1>5, <1>6, <1>7, <1>8, BotTypes, QuietAgain

LEMMA SelectGuildKeeps ==
    ASSUME BotInv, NEW j \in Jobs, NEW g \in Guilds, SelectGuild(j, g)
    PROVE  BotInv'
<1>1. LoadSelectedGuild(j, g, job)
  BY DEF SelectGuild
<1>2. /\ OthersKept(j) /\ JobsAfter
      /\ job'[j] \in BotJob /\ JobFits(job'[j]) /\ job'[j].op = "load"
      /\ guild' \in GuildState /\ results' = {}
      /\ overlaps \subseteq overlaps' /\ overlaps' \subseteq Overlappings
  BY <1>1, LoadKeeps
<1>3. ~Changes(job[j].op) /\ jobs' \in 0..MaxJobs
  BY FreeIsIdle, StartCounts DEF SelectGuild
<1>4. UNCHANGED <<savedSettings, directory, botSettings, edited>>
  BY DEF SelectGuild
<1>5. ~Changes(job'[j].op)
  BY <1>2 DEF Changes
<1>6. "failed" \notin overlaps => Follows(botSettings', Guilds \ edited')
  BY <1>4 DEF BotInv, PageFollows
<1>7. overlaps' \cap {"other roles", "late save"} = {} => OfTheirServers(botSettings')
  BY <1>2, <1>4 DEF BotInv, ServersFit
<1> QED
  BY <1>2, <1>3, <1>4, <1>5, <1>6, <1>7, BotTypes, QuietAgain

\* An edit of the server that is shown.
LEMMA EditKeeps ==
    ASSUME BotInv, NEW S \in SUBSET Subjects, guild.current \in Guilds,
           botSettings' = [botSettings EXCEPT !.subjects[guild.current] = S],
           edited' = edited \cup {guild.current},
           \A k \in Jobs : KeptJob(k), JobsAfter,
           UNCHANGED <<savedSettings, directory, guild, jobs, overlaps>>, results' \subseteq results,
           overlaps \cap {"other roles", "late save"} = {} => \A s \in S : GuildOf[s] = guild.current
    PROVE  BotInv'
<1> DEFINE M == {}
<1>1. M \in SUBSET Jobs /\ (\A k \in Jobs \ M : KeptJob(k)) /\ \A k \in M : FALSE
  OBVIOUS
<1>2. /\ botSettings' \in BotSettings
      /\ botSettings'.model = botSettings.model /\ botSettings'.subjects[guild.current] = S
      /\ \A h \in Guilds \ {guild.current} : botSettings'.subjects[h] = botSettings.subjects[h]
  <2>1. botSettings \in BotSettings
    BY BotTypes
  <2> QED
    BY <2>1 DEF BotSettings
<1>3. "failed" \notin overlaps => Follows(botSettings', Guilds \ edited')
  BY <1>2 DEF BotInv, PageFollows, Follows
<1>4. overlaps \cap {"other roles", "late save"} = {} =>
               /\ OfTheirServers(botSettings)
               /\ \A s \in results : GuildOf[s] = guild.current
  BY DEF BotInv, ServersFit
<1>5. overlaps' \cap {"other roles", "late save"} = {} =>
               /\ OfTheirServers(botSettings')
               /\ \A s \in results' : GuildOf[s] = guild'.current
  BY <1>2, <1>4 DEF OfTheirServers
<1>6. results' \subseteq Subjects /\ edited' \subseteq Guilds
  BY BotTypes
<1> HIDE DEF M
<1> QED
  BY <1>1, <1>2, <1>3, <1>5, <1>6, BotTypes, QuietMoves

LEMMA AddSubjectKeeps ==
    ASSUME BotInv, NEW s \in Subjects, AddSubject(s)
    PROVE  BotInv'
<1> DEFINE S == botSettings.subjects[guild.current] \cup {s}
<1>1. guild.current \in Guilds
  BY BotTypes DEF AddSubject, GuildState, AnyGuild
<1>2. S \in SUBSET Subjects
  BY <1>1, BotTypes DEF BotSettings
<1>3. /\ botSettings' = [botSettings EXCEPT !.subjects[guild.current] = S]
      /\ edited' = edited \cup {guild.current} /\ results' = {}
      /\ UNCHANGED <<savedSettings, directory, guild, jobs, overlaps>>
  BY DEF AddSubject
<1>4. JobsAfter /\ \A k \in Jobs : KeptJob(k)
  BY DEF AddSubject, SupersededJobs, KeptJob, JobsAfter
<1>5. overlaps \cap {"other roles", "late save"} = {} => \A x \in S : GuildOf[x] = guild.current
  BY <1>1 DEF AddSubject, BotInv, ServersFit, OfTheirServers
<1> HIDE DEF S
<1> QED
  BY <1>1, <1>2, <1>3, <1>4, <1>5, EditKeeps

LEMMA RemoveSubjectKeeps ==
    ASSUME BotInv, NEW s \in Subjects, RemoveSubject(s)
    PROVE  BotInv'
<1> DEFINE S == botSettings.subjects[guild.current] \ {s}
<1>1. guild.current \in Guilds
  BY BotTypes DEF RemoveSubject, GuildState, AnyGuild
<1>2. S \in SUBSET Subjects
  BY <1>1, BotTypes DEF BotSettings
<1>3. /\ botSettings' = [botSettings EXCEPT !.subjects[guild.current] = S]
      /\ edited' = edited \cup {guild.current} /\ results' = results
      /\ UNCHANGED <<savedSettings, directory, guild, jobs, overlaps>>
  BY DEF RemoveSubject
<1>4. JobsAfter /\ \A k \in Jobs : KeptJob(k)
  BY BotTypes DEF RemoveSubject, KeptJob, JobsAfter
<1>5. overlaps \cap {"other roles", "late save"} = {} => \A x \in S : GuildOf[x] = guild.current
  BY <1>1 DEF RemoveSubject, BotInv, ServersFit, OfTheirServers
<1> HIDE DEF S
<1> QED
  BY <1>1, <1>2, <1>3, <1>4, <1>5, EditKeeps

\* What remains to be shown of a step of a change.
LEMMA ChangeAgain ==
    ASSUME BotInv, NEW j \in Jobs, \A k \in Jobs \ {j} : job'[k] \in BotJob /\ JobFits(job'[k]),
           JobsAfter, job'[j] \in BotJob, JobFits(job'[j]),
           savedSettings' \in BotSettings, botSettings' \in BotSettings, directory' \in BotSettings,
           guild' \in GuildState, UNCHANGED results, edited' \subseteq Guilds, jobs' \in 0..MaxJobs,
           overlaps' \subseteq Overlappings,
           OneChange', ChangesAreStored', DirectoryFollows', PageFollows', ServersFit'
    PROVE  BotInv'
<1>1. \A k \in Jobs : job'[k] \in BotJob /\ JobFits(job'[k])
  OBVIOUS
<1>2. job' \in [Jobs -> BotJob] /\ results' \subseteq Subjects
  BY <1>1, BotTypes DEF JobsAfter
<1>3. BotPageTypeOK'
  BY <1>1, <1>2, BotTypesAgain
<1> QED
  BY <1>1, <1>2, <1>3 DEF BotInv, BotJobsFit

\* The other operations are where they were.
LEMMA OthersFields ==
    ASSUME BotInv, NEW j \in Jobs, OthersKept(j)
    PROVE  \A k \in Jobs \ {j} :
             /\ job'[k] \in BotJob /\ JobFits(job'[k])
             /\ job'[k].op = job[k].op /\ job'[k].pc = job[k].pc /\ job'[k].guild = job[k].guild
             /\ job'[k].input = job[k].input /\ job'[k].got = job[k].got
             /\ ~job'[k].stale => ~job[k].stale
BY KeptFields DEF OthersKept

\* Changes that are pending, or written, are so still, but for the one that moves.
LEMMA PendingStays ==
    ASSUME BotInv, NEW j \in Jobs, OthersKept(j)
    PROVE  /\ \A g \in Guilds : SaveIsPending(g) => SaveIsPending(g)' \/ (job[j].op = "save" /\ job[j].guild = g)
           /\ \A g \in Guilds : SaveIsWritten(g) =>
                  SaveIsWritten(g)' \/ (job[j].op = "save" /\ job[j].guild = g /\ job[j].pc = "written")
           /\ ModelIsPending => ModelIsPending' \/ job[j].op = "model"
           /\ ModelIsWritten => ModelIsWritten' \/ (job[j].op = "model" /\ job[j].pc = "written")
<1>1. \A k \in Jobs \ {j} : /\ job'[k].op = job[k].op /\ job'[k].pc = job[k].pc
                            /\ job'[k].guild = job[k].guild
  BY OthersFields
<1>2. ASSUME NEW g \in Guilds, SaveIsPending(g), ~(job[j].op = "save" /\ job[j].guild = g)
      PROVE  SaveIsPending(g)'
  BY <1>1, <1>2 DEF SaveIsPending
<1>3. ASSUME NEW g \in Guilds, SaveIsWritten(g), ~(job[j].op = "save" /\ job[j].guild = g /\ job[j].pc = "written")
      PROVE  SaveIsWritten(g)'
  BY <1>1, <1>3 DEF SaveIsWritten
<1>4. ASSUME ModelIsPending, job[j].op # "model"
      PROVE  ModelIsPending'
  BY <1>1, <1>4 DEF ModelIsPending
<1>5. ASSUME ModelIsWritten, ~(job[j].op = "model" /\ job[j].pc = "written")
      PROVE  ModelIsWritten'
  BY <1>1, <1>5 DEF ModelIsWritten
<1> QED
  BY <1>2, <1>3, <1>4, <1>5

LEMMA OneChangeAgain ==
    ASSUME BotInv, NEW j \in Jobs, OthersKept(j),
           \/ job'[j].op = "none"
           \/ job'[j].op = job[j].op /\ job'[j].guild = job[j].guild
           \/ \A k \in Jobs \ {j} : ~(job[k].op = job'[j].op /\ job[k].guild = job'[j].guild)
    PROVE  OneChange'
<1>1. \A k \in Jobs \ {j} : job'[k].op = job[k].op /\ job'[k].guild = job[k].guild
  BY OthersFields
<1>2. \A i, k \in Jobs : Changes(job[i].op) /\ job[k].op = job[i].op /\ job[k].guild = job[i].guild => k = i
  BY DEF BotInv, OneChange
<1> SUFFICES ASSUME NEW i \in Jobs, NEW k \in Jobs, Changes(job'[i].op), job'[k].op = job'[i].op,
                    job'[k].guild = job'[i].guild, i # k
             PROVE  FALSE
  BY DEF OneChange
<1>3. job'[i].op # "none" /\ job'[k].op # "none"
  BY DEF Changes
<1>4. CASE i # j /\ k # j
  BY <1>1, <1>2, <1>4
<1>5. CASE i = j
  BY <1>1, <1>2, <1>3, <1>5
<1>6. CASE k = j
  BY <1>1, <1>2, <1>3, <1>6
<1> QED
  BY <1>4, <1>5, <1>6

LEMMA ServersElsewhere ==
    ASSUME BotInv, NEW j \in Jobs, OthersKept(j), overlaps \subseteq overlaps',
           overlaps' \cap {"other roles", "late save"} = {} =>
               /\ OfTheirServers(savedSettings') /\ OfTheirServers(botSettings')
               /\ \A s \in results' : GuildOf[s] = guild'.current
               /\ job'[j].op = "save" => \A s \in job'[j].input : GuildOf[s] = job'[j].guild,
           job'[j].op # "refresh"
    PROVE  ServersFit'
<1> SUFFICES ASSUME overlaps' \cap {"other roles", "late save"} = {}
             PROVE  \A k \in Jobs :
                      /\ job'[k].op = "save" => \A s \in job'[k].input : GuildOf[s] = job'[k].guild
                      /\ job'[k].op = "refresh" /\ job'[k].pc # "sent" => OfTheirServers(job'[k].got)
  BY DEF ServersFit, OfTheirServers
<1> TAKE k \in Jobs
<1>1. CASE k = j
  BY <1>1
<1>2. CASE k # j
  <2>1. /\ job'[k].op = job[k].op /\ job'[k].pc = job[k].pc /\ job'[k].guild = job[k].guild
        /\ job'[k].input = job[k].input /\ job'[k].got = job[k].got
    BY <1>2, OthersFields
  <2>2. /\ job[k].op = "save" => \A s \in job[k].input : GuildOf[s] = job[k].guild
        /\ job[k].op = "refresh" /\ job[k].pc # "sent" => OfTheirServers(job[k].got)
    BY DEF BotInv, ServersFit
  <2> QED
    BY ONLY <2>1, <2>2
<1> QED
  BY <1>1, <1>2

\* What follows the database does so after a change of it that is pending.
LEMMA PageElsewhere ==
    ASSUME BotInv, NEW j \in Jobs, OthersKept(j), overlaps \subseteq overlaps', job'[j].op # "refresh",
           savedSettings'.model = savedSettings.model \/ ModelIsPending',
           \A g \in Guilds : savedSettings'.subjects[g] = savedSettings.subjects[g] \/ SaveIsPending(g)',
           ModelIsPending => ModelIsPending', \A g \in Guilds : SaveIsPending(g) => SaveIsPending(g)',
           botSettings'.model = botSettings.model \/ ModelIsPending',
           botSettings'.subjects = botSettings.subjects, edited' = edited
    PROVE  PageFollows'
<1> SUFFICES ASSUME "failed" \notin overlaps' PROVE PageFollows'
  BY DEF PageFollows
<1>1. Follows(botSettings, Guilds \ edited)'
  BY DEF BotInv, PageFollows, Follows
<1>2. ASSUME NEW k \in Jobs, job'[k].op = "refresh", job'[k].pc # "sent", ~job'[k].stale
      PROVE  Follows(job[k].got, Guilds)'
  <2>1. k # j /\ "failed" \notin overlaps
    BY <1>2
  <2>2. Follows(job[k].got, Guilds) /\ job'[k].got = job[k].got
    BY <1>2, <2>1, OthersFields DEF BotInv, PageFollows
  <2> QED
    BY <2>2 DEF Follows
<1> QED
  BY <1>1, <1>2 DEF PageFollows

LEMMA SavePermissionsKeeps ==
    ASSUME BotInv, NEW j \in Jobs, SavePermissions(j)
    PROVE  BotInv'
<1> DEFINE b == Job("save", "sent", guild.current, botSettings.subjects[guild.current])
<1>1. guild.current \in Guilds
  BY BotTypes DEF SavePermissions, GuildState, AnyGuild
<1>2. botSettings.subjects[guild.current] \in SUBSET Subjects
  BY <1>1, BotTypes DEF BotSettings
<1>3. /\ b = [op |-> "save", pc |-> "sent", guild |-> guild.current,
              input |-> botSettings.subjects[guild.current], got |-> NoGuild, stale |-> FALSE]
      /\ job' = [job EXCEPT ![j] = b]
  BY DEF Job, SavePermissions
<1>4. OthersKept(j) /\ job'[j] = b /\ JobsAfter
  BY <1>3, OneSlotKeeps
<1>5. UNCHANGED <<savedSettings, directory, botSettings, guild, results, edited, overlaps>> /\ jobs' \in 0..MaxJobs
  BY StartCounts DEF SavePermissions
<1>6. job[j].op = "none"
  BY FreeIsIdle DEF SavePermissions
<1>7. \A k \in Jobs : ~(job[k].op = "save" /\ job[k].guild = guild.current)
  BY DEF SavePermissions
<1> HIDE DEF b
<1>8. /\ NoGuild \in {NoGuild} \cup BotSettings \cup AnswerModels
      /\ guild.current \in AnyGuild /\ botSettings.subjects[guild.current] \in BotInput
  BY <1>1, <1>2 DEF AnyGuild, BotInput
<1>9. b \in BotJob
  BY ONLY <1>3, <1>8 DEF BotJob
<1>10. JobFits(b) /\ b.op = "save" /\ b.pc = "sent" /\ b.guild = guild.current
       /\ b.input = botSettings.subjects[guild.current]
  BY <1>1, <1>2, <1>3 DEF JobFits, Changes
<1>11. OneChange'
  BY <1>4, <1>7, <1>10, OneChangeAgain
<1>12. ChangesAreStored'
  BY <1>4, <1>5, <1>10, OthersFields DEF BotInv, ChangesAreStored
<1>13. DirectoryFollows'
  BY <1>4, <1>5, <1>6, PendingStays DEF BotInv, DirectoryFollows
<1>14. PageFollows'
  BY <1>4, <1>5, <1>6, <1>10, PendingStays, PageElsewhere
<1>15. ServersFit'
  <2>1. overlaps' \cap {"other roles", "late save"} = {} =>
               /\ OfTheirServers(savedSettings') /\ OfTheirServers(botSettings')
               /\ \A s \in results' : GuildOf[s] = guild'.current
    BY <1>5 DEF BotInv, ServersFit
  <2>2. OfTheirServers(botSettings') => \A s \in b.input : GuildOf[s] = b.guild
    BY <1>1, <1>5, <1>10 DEF OfTheirServers
  <2> QED
    BY <1>4, <1>5, <1>10, <2>1, <2>2, ServersElsewhere
<1> QED
  BY <1>4, <1>5, <1>9, <1>10, <1>11, <1>12, <1>13, <1>14, <1>15, BotTypes, OthersFields, ChangeAgain

LEMMA SaveModelKeeps ==
    ASSUME BotInv, NEW j \in Jobs, NEW m \in AnswerModels, SaveModel(j, m)
    PROVE  BotInv'
<1> DEFINE a == Job("model", "sent", NoGuild, m)
           b == [a EXCEPT !.got = botSettings.model]
<1>1. /\ a = [op |-> "model", pc |-> "sent", guild |-> NoGuild, input |-> m, got |-> NoGuild, stale |-> FALSE]
      /\ job' = [job EXCEPT ![j] = b]
  BY DEF Job, SaveModel
<1>2. OthersKept(j) /\ job'[j] = b /\ JobsAfter
  BY <1>1, OneSlotKeeps
<1>3. /\ UNCHANGED <<savedSettings, directory, guild, results, edited, overlaps>> /\ jobs' \in 0..MaxJobs
      /\ botSettings' = [botSettings EXCEPT !.model = m]
  BY StartCounts DEF SaveModel
<1>4. job[j].op = "none" /\ \A k \in Jobs : job[k].op # "model"
  BY FreeIsIdle DEF SaveModel
<1>5. /\ NoGuild \in {NoGuild} \cup BotSettings \cup AnswerModels
      /\ NoGuild \in AnyGuild /\ m \in BotInput
  BY DEF AnyGuild, BotInput
<1>6. /\ botSettings.model \in AnswerModels
      /\ botSettings.model \in {NoGuild} \cup BotSettings \cup AnswerModels
      /\ botSettings' \in BotSettings /\ botSettings'.model = m /\ botSettings'.subjects = botSettings.subjects
  BY <1>3, BotTypes DEF BotSettings
<1>7. /\ b \in BotJob
      /\ b.op = "model" /\ b.pc = "sent" /\ b.guild = NoGuild /\ b.input = m /\ b.got = botSettings.model
  <2> HIDE DEF a
  <2>1. a \in BotJob
    BY ONLY <1>1, <1>5 DEF BotJob
  <2> QED
    BY ONLY <1>1, <1>6, <2>1 DEF BotJob
<1> HIDE DEF a, b
<1>8. JobFits(b)
  BY <1>6, <1>7 DEF JobFits, Changes
<1>9. OneChange'
  BY <1>2, <1>4, <1>7, OneChangeAgain
<1>10. ChangesAreStored'
  BY <1>2, <1>3, <1>7, OthersFields DEF BotInv, ChangesAreStored
<1>11. DirectoryFollows'
  BY <1>2, <1>3, <1>4, PendingStays DEF BotInv, DirectoryFollows
<1>12. ModelIsPending'
  BY <1>2, <1>7 DEF ModelIsPending
<1>13. PageFollows'
  BY <1>2, <1>3, <1>4, <1>6, <1>7, <1>12, PendingStays, PageElsewhere
<1>14. ServersFit'
  <2>1. overlaps' \cap {"other roles", "late save"} = {} =>
               /\ OfTheirServers(savedSettings') /\ OfTheirServers(botSettings')
               /\ \A s \in results' : GuildOf[s] = guild'.current
    BY <1>3, <1>6 DEF BotInv, ServersFit, OfTheirServers
  <2> QED
    BY <1>2, <1>3, <1>7, <2>1, ServersElsewhere
<1> QED
  BY <1>2, <1>3, <1>6, <1>7, <1>8, <1>9, <1>10, <1>11, <1>13, <1>14, BotTypes, OthersFields, ChangeAgain

\* What a change puts into settings.
LEMMA WithChange ==
    ASSUME BotInv, NEW j \in Jobs, Changes(job[j].op), NEW settings \in BotSettings,
           NEW after, after = With(settings, j)
    PROVE  /\ after \in BotSettings
           /\ job[j].op = "save" =>
                /\ job[j].guild \in Guilds
                /\ after.model = settings.model /\ after.subjects[job[j].guild] = job[j].input
                /\ \A g \in Guilds : g # job[j].guild => after.subjects[g] = settings.subjects[g]
           /\ job[j].op = "model" => after.model = job[j].input /\ after.subjects = settings.subjects
<1>1. JobFits(job[j])
  BY BotTypes
<1>2. CASE job[j].op = "save"
  <2>1. job[j].guild \in Guilds /\ job[j].input \in SUBSET Subjects
    BY <1>1, <1>2 DEF JobFits
  <2> DEFINE g == job[j].guild
             S == job[j].input
  <2>2. after = [settings EXCEPT !.subjects[g] = S]
    BY <1>2 DEF With
  <2> HIDE DEF g, S
  <2>3. /\ after \in BotSettings
        /\ after.model = settings.model /\ after.subjects[g] = S
        /\ \A h \in Guilds : h # g => after.subjects[h] = settings.subjects[h]
    <3>1. g \in Guilds /\ S \in SUBSET Subjects
      BY <2>1 DEF g, S
    <3> QED
      BY <2>2, <3>1 DEF BotSettings
  <2> QED
    BY <1>2, <2>1, <2>3 DEF g, S
<1>3. CASE job[j].op = "model"
  <2>1. job[j].input \in AnswerModels
    BY <1>1, <1>3 DEF JobFits
  <2> DEFINE m == job[j].input
  <2>2. after = [settings EXCEPT !.model = m]
    BY <1>3 DEF With
  <2> HIDE DEF m
  <2>3. after \in BotSettings /\ after.model = m /\ after.subjects = settings.subjects
    <3>1. m \in AnswerModels
      BY <2>1 DEF m
    <3> QED
      BY <2>2, <3>1 DEF BotSettings
  <2> QED
    BY <1>3, <2>3 DEF m
<1> QED
  BY <1>2, <1>3 DEF Changes

\* A change moves on: only its pc is new.
LEMMA ChangeMoves ==
    ASSUME BotInv, NEW j \in Jobs, Changes(job[j].op), NEW pc \in {"written", "answered"},
           job' = [job EXCEPT ![j].pc = pc]
    PROVE  /\ OthersKept(j) /\ JobsAfter
           /\ job'[j] \in BotJob /\ JobFits(job'[j]) /\ job'[j].op = job[j].op /\ job'[j].pc = pc
           /\ job'[j].guild = job[j].guild /\ job'[j].input = job[j].input
           /\ job'[j].op # "refresh" /\ OneChange'
<1> DEFINE b == [job[j] EXCEPT !.pc = pc]
<1>1. job[j] \in BotJob /\ JobFits(job[j])
  BY BotTypes
<1>2. /\ b \in BotJob /\ b.op = job[j].op /\ b.pc = pc /\ b.guild = job[j].guild
      /\ b.input = job[j].input /\ b.got = job[j].got
  BY ONLY <1>1, pc \in {"written", "answered"} DEF BotJob
<1>3. OthersKept(j) /\ job'[j] = b /\ JobsAfter
  BY OneSlotKeeps
<1> HIDE DEF b
<1>4. JobFits(b) /\ b.op # "refresh"
  BY <1>1, <1>2 DEF JobFits, Changes
<1>5. OneChange'
  BY <1>2, <1>3, OneChangeAgain
<1> QED
  BY <1>2, <1>3, <1>4, <1>5

LEMMA WriteSettingsKeeps ==
    ASSUME BotInv, NEW j \in Jobs, WriteSettings(j)
    PROVE  BotInv'
<1>1. /\ Changes(job[j].op) /\ savedSettings' = With(savedSettings, j)
      /\ UNCHANGED <<directory, botSettings, guild, results, edited, jobs, overlaps>>
      /\ job' = [job EXCEPT ![j].pc = "written"]
  BY DEF WriteSettings, Step
<1>2. /\ OthersKept(j) /\ JobsAfter
      /\ job'[j] \in BotJob /\ JobFits(job'[j]) /\ job'[j].op = job[j].op /\ job'[j].pc = "written"
      /\ job'[j].guild = job[j].guild /\ job'[j].input = job[j].input
      /\ job'[j].op # "refresh" /\ OneChange'
  BY <1>1, ChangeMoves
<1>3. /\ savedSettings' \in BotSettings
      /\ job[j].op = "save" =>
           /\ job[j].guild \in Guilds
           /\ savedSettings'.model = savedSettings.model /\ savedSettings'.subjects[job[j].guild] = job[j].input
           /\ \A g \in Guilds : g # job[j].guild => savedSettings'.subjects[g] = savedSettings.subjects[g]
      /\ job[j].op = "model" =>
           savedSettings'.model = job[j].input /\ savedSettings'.subjects = savedSettings.subjects
  <2>1. savedSettings \in BotSettings
    BY BotTypes
  <2> QED
    BY <1>1, <2>1, WithChange
<1>4. \A k \in Jobs \ {j} : job[k].op = job[j].op => job[k].guild # job[j].guild
  BY <1>1 DEF BotInv, OneChange
<1>5. \A k \in Jobs : JobFits(job[k])
  BY BotTypes
<1>6. job[j].op = "save" \/ job[j].op = "model"
  BY <1>1 DEF Changes
<1>7. ChangesAreStored'
  <2> SUFFICES ASSUME NEW k \in Jobs, job'[k].pc \in {"written", "answered"}
               PROVE  /\ job'[k].op = "save" => savedSettings'.subjects[job'[k].guild] = job'[k].input
                      /\ job'[k].op = "model" =>
                             savedSettings'.model = job'[k].input \/ (job'[k].pc = "answered" /\ "replaced" \in overlaps')
    BY DEF ChangesAreStored
  <2>1. CASE k = j
    BY <1>2, <1>3, <2>1
  <2>2. CASE k # j
    <3>1. /\ job'[k].op = job[k].op /\ job'[k].pc = job[k].pc /\ job'[k].guild = job[k].guild
          /\ job'[k].input = job[k].input
      BY <1>2, <2>2, OthersFields
    <3>2. /\ job[k].op = "save" => savedSettings.subjects[job[k].guild] = job[k].input
          /\ job[k].op = "model" =>
                 savedSettings.model = job[k].input \/ (job[k].pc = "answered" /\ "replaced" \in overlaps)
      BY <3>1 DEF BotInv, ChangesAreStored
    <3>3. job[k].op = "save" => job[k].guild \in Guilds
      BY <1>5 DEF JobFits
    <3>4. job[k].op = "model" => job[j].op # "model"
      BY <1>4, <1>5, <2>2 DEF JobFits
    <3> QED
      BY <1>1, <1>3, <1>4, <1>6, <2>2, <3>1, <3>2, <3>3, <3>4
  <2> QED
    BY <2>1, <2>2
<1>8. /\ \A g \in Guilds : job[j].op = "save" /\ g = job[j].guild => SaveIsWritten(g)' /\ SaveIsPending(g)'
      /\ job[j].op = "model" => ModelIsWritten' /\ ModelIsPending'
  <2>1. \A g \in Guilds : job[j].op = "save" /\ g = job[j].guild => SaveIsWritten(g)' /\ SaveIsPending(g)'
    BY <1>2 DEF SaveIsWritten, SaveIsPending
  <2>2. job[j].op = "model" => ModelIsWritten' /\ ModelIsPending'
    BY <1>2 DEF ModelIsWritten, ModelIsPending
  <2> QED
    BY <2>1, <2>2
<1>9. /\ \A g \in Guilds : (SaveIsPending(g) => SaveIsPending(g)') /\ (SaveIsWritten(g) => SaveIsWritten(g)')
      /\ ModelIsPending => ModelIsPending'
      /\ ModelIsWritten => ModelIsWritten'
  BY <1>2, <1>8, PendingStays
<1>10. /\ savedSettings'.model = savedSettings.model \/ (ModelIsPending' /\ ModelIsWritten')
       /\ \A g \in Guilds : savedSettings'.subjects[g] = savedSettings.subjects[g] \/ (SaveIsPending(g)' /\ SaveIsWritten(g)')
  BY <1>3, <1>6, <1>8
<1>11. DirectoryFollows'
  BY <1>1, <1>9, <1>10 DEF BotInv, DirectoryFollows
<1>12. PageFollows'
  BY <1>1, <1>2, <1>9, <1>10, PageElsewhere
<1>13. ServersFit'
  <2>1. overlaps' \cap {"other roles", "late save"} = {} =>
               /\ OfTheirServers(savedSettings) /\ OfTheirServers(botSettings')
               /\ \A s \in results' : GuildOf[s] = guild'.current
               /\ job[j].op = "save" => \A s \in job[j].input : GuildOf[s] = job[j].guild
    BY <1>1 DEF BotInv, ServersFit
  <2>2. overlaps' \cap {"other roles", "late save"} = {} => OfTheirServers(savedSettings')
    BY <1>3, <1>6, <2>1 DEF OfTheirServers
  <2> QED
    BY <1>1, <1>2, <2>1, <2>2, ServersElsewhere
<1> QED
  BY <1>1, <1>2, <1>3, <1>7, <1>11, <1>12, <1>13, BotTypes, OthersFields, ChangeAgain

\* The model that misses the directory: only what the page will be told is new.
LEMMA UpdateMissesDirectoryKeeps ==
    ASSUME BotInv, NEW j \in Jobs, UpdateMissesDirectory(j)
    PROVE  BotInv'
<1> DEFINE m == directory.model
           b == [job[j] EXCEPT !.pc = "answered", !.input = m]
<1>1. /\ job[j].op = "model" /\ job[j].pc = "written" /\ job[j] \in BotJob /\ JobFits(job[j])
      /\ m \in AnswerModels /\ m \in BotInput
  BY BotTypes DEF UpdateMissesDirectory, JobAt, BotSettings, BotInput
<1>2. /\ job' = [job EXCEPT ![j] = b]
      /\ UNCHANGED <<savedSettings, directory, botSettings, guild, results, edited, jobs>>
      /\ overlaps \subseteq overlaps' /\ overlaps' \subseteq overlaps \cup {"replaced"}
      /\ m = job[j].input \/ "replaced" \in overlaps'
  BY DEF UpdateMissesDirectory
<1> HIDE DEF m
<1>3. b \in BotJob /\ b.op = "model" /\ b.pc = "answered" /\ b.guild = job[j].guild /\ b.input = m /\ b.got = job[j].got
  BY ONLY <1>1 DEF BotJob
<1> HIDE DEF b
<1>4. OthersKept(j) /\ job'[j] = b /\ JobsAfter
  BY <1>2, OneSlotKeeps
<1>5. JobFits(b)
  BY <1>1, <1>3 DEF JobFits, Changes
<1>6. OneChange'
  BY <1>1, <1>3, <1>4, OneChangeAgain
<1>7. savedSettings.model = job[j].input
  BY <1>1 DEF BotInv, ChangesAreStored
<1>8. ChangesAreStored'
  <2> SUFFICES ASSUME NEW k \in Jobs, job'[k].pc \in {"written", "answered"}
               PROVE  /\ job'[k].op = "save" => savedSettings'.subjects[job'[k].guild] = job'[k].input
                      /\ job'[k].op = "model" =>
                             savedSettings'.model = job'[k].input \/ (job'[k].pc = "answered" /\ "replaced" \in overlaps')
    BY DEF ChangesAreStored
  <2>1. CASE k = j
    BY <1>2, <1>3, <1>4, <1>7, <2>1
  <2>2. CASE k # j
    <3>1. /\ job'[k].op = job[k].op /\ job'[k].pc = job[k].pc /\ job'[k].guild = job[k].guild
          /\ job'[k].input = job[k].input
      BY <1>4, <2>2, OthersFields
    <3> QED
      BY <1>2, <3>1 DEF BotInv, ChangesAreStored
  <2> QED
    BY <2>1, <2>2
<1>9. overlaps \cap {"late read", "failed"} = {} =>
        /\ directory.model = savedSettings.model \/ "replaced" \in overlaps'
        /\ \A g \in Guilds : directory.subjects[g] = savedSettings.subjects[g] \/ SaveIsWritten(g)
  BY <1>2, <1>7 DEF BotInv, DirectoryFollows, m
<1>10. \A g \in Guilds : SaveIsWritten(g) => SaveIsWritten(g)'
  BY <1>1, <1>4, PendingStays
<1>11. DirectoryFollows'
  BY <1>2, <1>9, <1>10 DEF DirectoryFollows
<1>12. ModelIsPending' /\ \A g \in Guilds : SaveIsPending(g) => SaveIsPending(g)'
  BY <1>1, <1>3, <1>4, PendingStays DEF ModelIsPending
<1>13. PageFollows'
  BY <1>2, <1>3, <1>4, <1>12, PageElsewhere
<1>14. ServersFit'
  <2>1. overlaps' \cap {"other roles", "late save"} = {} =>
               /\ OfTheirServers(savedSettings') /\ OfTheirServers(botSettings')
               /\ \A s \in results' : GuildOf[s] = guild'.current
    BY <1>2 DEF BotInv, ServersFit, OfTheirServers
  <2> QED
    BY <1>2, <1>3, <1>4, <2>1, ServersElsewhere
<1>15. overlaps' \subseteq Overlappings
  BY <1>2, BotTypes DEF Overlappings
<1> QED
  BY <1>2, <1>3, <1>4, <1>5, <1>6, <1>8, <1>11, <1>13, <1>14, <1>15, BotTypes, OthersFields, ChangeAgain

LEMMA DirectoryUpdateKeeps ==
    ASSUME BotInv, NEW j \in Jobs, DirectoryUpdate(j)
    PROVE  BotInv'
<1>1. /\ Changes(job[j].op) /\ job[j].pc = "written" /\ directory' = With(directory, j)
      /\ UNCHANGED <<savedSettings, botSettings, guild, results, edited, jobs, overlaps>>
      /\ job' = [job EXCEPT ![j].pc = "answered"]
  BY DEF DirectoryUpdate, Step
<1>2. /\ OthersKept(j) /\ JobsAfter
      /\ job'[j] \in BotJob /\ JobFits(job'[j]) /\ job'[j].op = job[j].op /\ job'[j].pc = "answered"
      /\ job'[j].guild = job[j].guild /\ job'[j].input = job[j].input
      /\ job'[j].op # "refresh" /\ OneChange'
  BY <1>1, ChangeMoves
<1>3. /\ directory' \in BotSettings
      /\ job[j].op = "save" =>
           /\ job[j].guild \in Guilds
           /\ directory'.model = directory.model /\ directory'.subjects[job[j].guild] = job[j].input
           /\ \A g \in Guilds : g # job[j].guild => directory'.subjects[g] = directory.subjects[g]
      /\ job[j].op = "model" => directory'.model = job[j].input /\ directory'.subjects = directory.subjects
  <2>1. directory \in BotSettings
    BY BotTypes
  <2> QED
    BY <1>1, <2>1, WithChange
<1>4. job[j].op = "save" \/ job[j].op = "model"
  BY <1>1 DEF Changes
<1>5. /\ job[j].op = "save" => savedSettings.subjects[job[j].guild] = job[j].input
      /\ job[j].op = "model" => savedSettings.model = job[j].input
  BY <1>1 DEF BotInv, ChangesAreStored
<1>6. ChangesAreStored'
  <2> SUFFICES ASSUME NEW k \in Jobs, job'[k].pc \in {"written", "answered"}
               PROVE  /\ job'[k].op = "save" => savedSettings'.subjects[job'[k].guild] = job'[k].input
                      /\ job'[k].op = "model" =>
                             savedSettings'.model = job'[k].input \/ (job'[k].pc = "answered" /\ "replaced" \in overlaps')
    BY DEF ChangesAreStored
  <2>1. CASE k = j
    BY <1>1, <1>2, <1>5, <2>1
  <2>2. CASE k # j
    <3>1. /\ job'[k].op = job[k].op /\ job'[k].pc = job[k].pc /\ job'[k].guild = job[k].guild
          /\ job'[k].input = job[k].input
      BY <1>2, <2>2, OthersFields
    <3> QED
      BY <1>1, <3>1 DEF BotInv, ChangesAreStored
  <2> QED
    BY <2>1, <2>2
<1>7. /\ \A g \in Guilds : SaveIsWritten(g) => SaveIsWritten(g)' \/ (job[j].op = "save" /\ job[j].guild = g)
      /\ ModelIsWritten => ModelIsWritten' \/ job[j].op = "model"
  BY <1>2, PendingStays
<1>8. DirectoryFollows'
  <2> SUFFICES ASSUME overlaps' \cap {"late read", "failed"} = {}
               PROVE  /\ directory'.model = savedSettings'.model \/ ModelIsWritten' \/ "replaced" \in overlaps'
                      /\ \A g \in Guilds : directory'.subjects[g] = savedSettings'.subjects[g] \/ SaveIsWritten(g)'
    BY DEF DirectoryFollows
  <2>1. /\ directory.model = savedSettings.model \/ ModelIsWritten \/ "replaced" \in overlaps
        /\ \A g \in Guilds : directory.subjects[g] = savedSettings.subjects[g] \/ SaveIsWritten(g)
    BY <1>1 DEF BotInv, DirectoryFollows
  <2> QED
    BY <1>1, <1>3, <1>4, <1>5, <1>7, <2>1
<1>9. /\ job[j].op = "save" => SaveIsPending(job[j].guild)'
      /\ job[j].op = "model" => ModelIsPending'
  BY <1>2 DEF SaveIsPending, ModelIsPending
<1>10. /\ \A g \in Guilds : SaveIsPending(g) => SaveIsPending(g)'
       /\ ModelIsPending => ModelIsPending'
  BY <1>2, <1>9, PendingStays
<1>11. PageFollows'
  BY <1>1, <1>2, <1>10, PageElsewhere
<1>12. ServersFit'
  <2>1. overlaps' \cap {"other roles", "late save"} = {} =>
               /\ OfTheirServers(savedSettings') /\ OfTheirServers(botSettings')
               /\ \A s \in results' : GuildOf[s] = guild'.current
               /\ job[j].op = "save" => \A s \in job[j].input : GuildOf[s] = job[j].guild
    BY <1>1 DEF BotInv, ServersFit
  <2> QED
    BY <1>1, <1>2, <2>1, ServersElsewhere
<1> QED
  BY <1>1, <1>2, <1>3, <1>6, <1>8, <1>11, <1>12, BotTypes, OthersFields, ChangeAgain

LEMMA CommitSettingsKeeps ==
    ASSUME BotInv, NEW j \in Jobs, CommitSettings(j)
    PROVE  BotInv'
<1>1. /\ Changes(job[j].op) /\ job[j].pc = "answered" /\ botSettings' = With(botSettings, j)
      /\ UNCHANGED <<savedSettings, directory, results, jobs>>
      /\ job' = [SupersededJobs("refresh") EXCEPT ![j] = NoJob]
  BY DEF CommitSettings
<1>2. OthersKept(j) /\ job'[j] = NoJob /\ JobsAfter
  BY <1>1, SupersededKeeps
<1>3. /\ botSettings' \in BotSettings
      /\ job[j].op = "save" =>
           /\ job[j].guild \in Guilds
           /\ botSettings'.model = botSettings.model /\ botSettings'.subjects[job[j].guild] = job[j].input
           /\ \A g \in Guilds : g # job[j].guild => botSettings'.subjects[g] = botSettings.subjects[g]
      /\ job[j].op = "model" => botSettings'.model = job[j].input /\ botSettings'.subjects = botSettings.subjects
  <2>1. botSettings \in BotSettings
    BY BotTypes
  <2> QED
    BY <1>1, <2>1, WithChange
<1>4. job[j].op = "save" \/ job[j].op = "model"
  BY <1>1 DEF Changes
<1>5. /\ job[j].op = "save" => savedSettings.subjects[job[j].guild] = job[j].input
      /\ job[j].op = "model" => savedSettings.model = job[j].input \/ "replaced" \in overlaps
  BY <1>1 DEF BotInv, ChangesAreStored
<1>6. /\ job[j].op = "save" => /\ guild' = [guild EXCEPT !.current = job[j].guild]
                               /\ edited' = edited \ {job[j].guild}
                               /\ guild.current # job[j].guild => "late save" \in overlaps'
      /\ job[j].op # "save" => UNCHANGED <<guild, edited>>
      /\ overlaps \subseteq overlaps' /\ overlaps' \subseteq overlaps \cup {"late save"}
  BY DEF CommitSettings
<1>7. guild' \in GuildState /\ edited' \subseteq Guilds /\ overlaps' \subseteq Overlappings
  BY <1>3, <1>6, BotTypes DEF GuildState, AnyGuild, Overlappings
<1>8. OneChange'
  BY <1>2, NoJobFits, OneChangeAgain
<1>9. ChangesAreStored'
  <2> SUFFICES ASSUME NEW k \in Jobs, job'[k].pc \in {"written", "answered"}
               PROVE  /\ job'[k].op = "save" => savedSettings'.subjects[job'[k].guild] = job'[k].input
                      /\ job'[k].op = "model" =>
                             savedSettings'.model = job'[k].input \/ (job'[k].pc = "answered" /\ "replaced" \in overlaps')
    BY DEF ChangesAreStored
  <2>1. k # j
    BY <1>2, NoJobFits
  <2>2. /\ job'[k].op = job[k].op /\ job'[k].pc = job[k].pc /\ job'[k].guild = job[k].guild
        /\ job'[k].input = job[k].input
    BY <1>2, <2>1, OthersFields
  <2> QED
    BY <1>1, <1>6, <2>2 DEF BotInv, ChangesAreStored
<1>10. DirectoryFollows'
  BY <1>1, <1>2, <1>6, PendingStays DEF BotInv, DirectoryFollows
<1>11. PageFollows'
  <2> SUFFICES ASSUME "failed" \notin overlaps'
               PROVE  /\ Follows(botSettings, Guilds \ edited)'
                      /\ \A k \in Jobs : job'[k].op = "refresh" => job'[k].stale
    BY DEF PageFollows
  <2>1. \A k \in Jobs : job'[k].op = "refresh" => job'[k].stale
    <3> SUFFICES ASSUME NEW k \in Jobs, job'[k].op = "refresh" PROVE job'[k].stale = TRUE
      OBVIOUS
    <3>1. k # j /\ job[k].op = "refresh" /\ job[k] \in BotJob
      BY <1>2, NoJobFits, OthersFields, BotTypes
    <3>2. job'[k] = [job[k] EXCEPT !.stale = TRUE]
      BY <1>1, <3>1 DEF SupersededJobs
    <3> QED
      BY ONLY <3>1, <3>2 DEF BotJob
  <2>2. Follows(botSettings, Guilds \ edited)
    BY <1>6 DEF BotInv, PageFollows
  <2>3. botSettings'.model = savedSettings'.model \/ ModelIsPending' \/ "replaced" \in overlaps'
    BY <1>1, <1>2, <1>3, <1>4, <1>5, <1>6, <2>2, PendingStays DEF Follows
  <2>4. ASSUME NEW g \in Guilds \ edited'
        PROVE  botSettings'.subjects[g] = savedSettings'.subjects[g] \/ SaveIsPending(g)'
    <3>1. CASE job[j].op = "save" /\ g = job[j].guild
      BY <1>1, <1>3, <1>5, <3>1
    <3>2. CASE ~(job[j].op = "save" /\ g = job[j].guild)
      <4>1. g \in Guilds \ edited
        BY <1>6, <2>4, <3>2
      <4>2. botSettings.subjects[g] = savedSettings.subjects[g] \/ SaveIsPending(g)
        BY <2>2, <4>1 DEF Follows
      <4>3. botSettings'.subjects[g] = botSettings.subjects[g]
        BY <1>3, <1>4, <3>2, <4>1
      <4>4. SaveIsPending(g) => SaveIsPending(g)'
        BY <1>2, <3>2, <4>1, PendingStays
      <4> QED
        BY <1>1, <4>2, <4>3, <4>4
    <3> QED
      BY <3>1, <3>2
  <2> QED
    BY <2>1, <2>3, <2>4 DEF Follows
<1>12. ServersFit'
  <2> SUFFICES ASSUME overlaps' \cap {"other roles", "late save"} = {}
               PROVE  /\ OfTheirServers(savedSettings') /\ OfTheirServers(botSettings')
                      /\ \A s \in results' : GuildOf[s] = guild'.current
    BY <1>2, <1>6, NoJobFits, ServersElsewhere
  <2>1. /\ OfTheirServers(savedSettings) /\ OfTheirServers(botSettings)
        /\ \A s \in results : GuildOf[s] = guild.current
        /\ job[j].op = "save" => \A s \in job[j].input : GuildOf[s] = job[j].guild
    BY <1>6 DEF BotInv, ServersFit
  <2>2. OfTheirServers(botSettings')
    BY <1>3, <1>4, <2>1 DEF OfTheirServers
  <2>3. guild'.current = guild.current
    BY <1>6, BotTypes DEF GuildState
  <2> QED
    BY <1>1, <2>1, <2>2, <2>3
<1> QED
  BY <1>1, <1>2, <1>3, <1>7, <1>8, <1>9, <1>10, <1>11, <1>12, NoJobFits, BotTypes, OthersFields, ChangeAgain

LEMMA SaveFailsKeeps ==
    ASSUME BotInv, NEW j \in Jobs, SaveFails(j)
    PROVE  BotInv'
<1>1. /\ Changes(job[j].op) /\ job' = [job EXCEPT ![j] = NoJob] /\ "failed" \in overlaps'
      /\ UNCHANGED <<savedSettings, directory, guild, results, edited, jobs>>
  BY DEF SaveFails
<1>2. OthersKept(j) /\ job'[j] = NoJob /\ JobsAfter
  BY <1>1, OneSlotKeeps
<1>3. botSettings' \in BotSettings /\ botSettings'.subjects = botSettings.subjects
  <2>1. job[j].op = "model" => job[j].got \in AnswerModels
    BY BotTypes DEF JobFits
  <2> DEFINE m == job[j].got
  <2>2. botSettings' = IF job[j].op = "model" THEN [botSettings EXCEPT !.model = m] ELSE botSettings
    BY DEF SaveFails
  <2>3. job[j].op = "model" => m \in AnswerModels
    BY <2>1
  <2> HIDE DEF m
  <2> QED
    BY <2>2, <2>3, BotTypes DEF BotSettings
<1>4. overlaps' \subseteq Overlappings /\ overlaps \subseteq overlaps'
  BY BotTypes DEF SaveFails, Overlappings
<1>5. OneChange'
  BY <1>2, NoJobFits, OneChangeAgain
<1>6. ChangesAreStored'
  <2> SUFFICES ASSUME NEW k \in Jobs, job'[k].pc \in {"written", "answered"}
               PROVE  /\ job'[k].op = "save" => savedSettings'.subjects[job'[k].guild] = job'[k].input
                      /\ job'[k].op = "model" =>
                             savedSettings'.model = job'[k].input \/ (job'[k].pc = "answered" /\ "replaced" \in overlaps')
    BY DEF ChangesAreStored
  <2>1. k # j
    BY <1>2, NoJobFits
  <2>2. /\ job'[k].op = job[k].op /\ job'[k].pc = job[k].pc /\ job'[k].guild = job[k].guild
        /\ job'[k].input = job[k].input
    BY <1>2, <2>1, OthersFields
  <2> QED
    BY <1>1, <1>4, <2>2 DEF BotInv, ChangesAreStored
<1>7. DirectoryFollows' /\ PageFollows'
  BY <1>1 DEF DirectoryFollows, PageFollows
<1>8. ServersFit'
  <2>1. overlaps' \cap {"other roles", "late save"} = {} =>
               /\ OfTheirServers(savedSettings') /\ OfTheirServers(botSettings')
               /\ \A s \in results' : GuildOf[s] = guild'.current
    BY <1>1, <1>3, <1>4 DEF BotInv, ServersFit, OfTheirServers
  <2> QED
    BY <1>2, <1>4, <2>1, NoJobFits, ServersElsewhere
<1> QED
  BY <1>1, <1>2, <1>3, <1>4, <1>5, <1>6, <1>7, <1>8, NoJobFits, BotTypes, OthersFields, ChangeAgain

-----------------------------------------------------------------------------
(* The bot's settings: the invariant, and the property. *)

LEMMA BotStarts == BotPageInit => BotInv
<1> SUFFICES ASSUME BotPageInit PROVE BotInv
  OBVIOUS
<1>1. PICK m \in AnswerModels : savedSettings = [subjects |-> [g \in Guilds |-> {}], model |-> m]
  BY DEF BotPageInit
<1>2. /\ directory = savedSettings /\ botSettings = savedSettings
      /\ guild = [selected |-> NoGuild, current |-> NoGuild, roles |-> NoGuild]
      /\ results = {} /\ edited = {} /\ jobs = 0 /\ overlaps = {}
      /\ job \in [Jobs -> BotJob] /\ \A j \in Jobs : job[j] = NoJob
  BY NoJobFits DEF BotPageInit
<1>3. savedSettings \in BotSettings
  <2>1. [g \in Guilds |-> {}] \in [Guilds -> SUBSET Subjects]
    OBVIOUS
  <2> QED
    BY <1>1, <2>1 DEF BotSettings
<1>4. OfTheirServers(savedSettings)
  BY <1>1 DEF OfTheirServers
<1>5. BotPageTypeOK
  BY <1>2, <1>3, NoJobFits, BotPageAssumption DEF BotPageTypeOK, AnyGuild, FreeJob
<1>6. BotJobsFit /\ OneChange /\ ChangesAreStored
  BY <1>2, NoJobFits DEF BotJobsFit, OneChange, ChangesAreStored
<1>7. DirectoryFollows /\ PageFollows
  BY <1>2, NoJobFits DEF DirectoryFollows, PageFollows, Follows
<1>8. ServersFit
  BY <1>2, <1>4, NoJobFits DEF ServersFit
<1> QED
  BY <1>2, <1>5, <1>6, <1>7, <1>8 DEF BotInv

LEMMA BotSteps == BotInv /\ [BotPageNext]_botPageVars => BotInv'
<1> SUFFICES ASSUME BotInv, [BotPageNext]_botPageVars PROVE BotInv'
  OBVIOUS
<1>1. CASE UNCHANGED botPageVars
  <2>1. BotPageTypeOK' /\ BotJobsFit' /\ (job \in [Jobs -> BotJob])'
    BY <1>1 DEF botPageVars, BotInv, BotPageTypeOK, BotJobsFit, FreeJob
  <2>2. OneChange' /\ ChangesAreStored' /\ ServersFit'
    BY <1>1 DEF botPageVars, BotInv, OneChange, ChangesAreStored, ServersFit, OfTheirServers
  <2>3. /\ \A g \in Guilds : (SaveIsPending(g)' <=> SaveIsPending(g)) /\ (SaveIsWritten(g)' <=> SaveIsWritten(g))
        /\ ModelIsPending' <=> ModelIsPending
        /\ ModelIsWritten' <=> ModelIsWritten
    BY <1>1 DEF botPageVars, ModelIsWritten, SaveIsWritten, ModelIsPending, SaveIsPending
  <2>4. DirectoryFollows'
    BY <1>1, <2>3 DEF botPageVars, BotInv, DirectoryFollows
  <2>5. PageFollows'
    BY <1>1, <2>3 DEF botPageVars, BotInv, PageFollows, Follows
  <2> QED
    BY <2>1, <2>2, <2>4, <2>5 DEF BotInv
<1>2. ASSUME NEW j \in Jobs,
             \/ RefreshBotPage(j) \/ ReadSettings(j) \/ DirectoryRefresh(j) \/ ApplyRefresh(j) \/ DropRefresh(j)
             \/ \E g \in Guilds : SelectGuild(j, g)
             \/ ShowRoles(j) \/ ShowAvailability(j)
             \/ Search(j) \/ ShowMembers(j) \/ SearchEnds(j)
             \/ SavePermissions(j) \/ \E m \in AnswerModels : SaveModel(j, m)
             \/ WriteSettings(j) \/ DirectoryUpdate(j) \/ UpdateMissesDirectory(j) \/ CommitSettings(j) \/ SaveFails(j)
      PROVE  BotInv'
  BY <1>2, RefreshBotPageKeeps, ReadSettingsKeeps, DirectoryRefreshKeeps, ApplyRefreshKeeps, DropRefreshKeeps,
     SelectGuildKeeps, ShowRolesKeeps, ShowAvailabilityKeeps, SearchKeeps, ShowMembersKeeps, SearchEndsKeeps,
     SavePermissionsKeeps, SaveModelKeeps, WriteSettingsKeeps, DirectoryUpdateKeeps, UpdateMissesDirectoryKeeps, CommitSettingsKeeps,
     SaveFailsKeeps
<1>3. ASSUME NEW s \in Subjects, AddSubject(s) \/ RemoveSubject(s)
      PROVE  BotInv'
  BY <1>3, AddSubjectKeeps, RemoveSubjectKeeps
<1> QED
  BY <1>1, <1>2, <1>3 DEF BotPageNext

\* The inductive invariant of the page and the directory of the bot's settings.
THEOREM BotPageInductive == BotPageSpec => []BotInv
BY BotStarts, BotSteps, PTL DEF BotPageSpec

LEMMA PermissionsAgreed == BotInv => PermissionsAgree
<1> SUFFICES ASSUME BotInv PROVE PermissionsAgree
  OBVIOUS
<1>1. NoJobs => ~ModelIsPending /\ ~ModelIsWritten /\ \A g \in Guilds : ~SaveIsPending(g) /\ ~SaveIsWritten(g)
  BY NoJobFits DEF NoJobs, FreeJob, ModelIsPending, ModelIsWritten, SaveIsPending, SaveIsWritten
<1>2. DirectoryIsStored
  <2> SUFFICES ASSUME NoJobs, overlaps \cap {"late read", "failed"} = {}
               PROVE  /\ directory.subjects = savedSettings.subjects
                      /\ "replaced" \notin overlaps => directory.model = savedSettings.model
    BY DEF DirectoryIsStored
  <2>1. /\ "replaced" \notin overlaps => directory.model = savedSettings.model
        /\ \A g \in Guilds : directory.subjects[g] = savedSettings.subjects[g]
    BY <1>1 DEF BotInv, DirectoryFollows
  <2>2. /\ directory \in BotSettings /\ savedSettings \in BotSettings
    BY BotTypes
  <2> DEFINE f == directory.subjects
             h == savedSettings.subjects
  <2>3. f \in [Guilds -> SUBSET Subjects] /\ h \in [Guilds -> SUBSET Subjects] /\ \A g \in Guilds : f[g] = h[g]
    BY <2>1, <2>2 DEF BotSettings
  <2> HIDE DEF f, h
  <2>4. f = h
    BY ONLY <2>3
  <2> QED
    BY <2>1, <2>4 DEF f, h
<1>3. PageIsStored
  BY <1>1 DEF BotInv, PageFollows, PageIsStored, Follows
<1>4. SubjectsOfTheServer
  BY DEF BotInv, ServersFit, SubjectsOfTheServer, OfTheirServers
<1> QED
  BY <1>2, <1>3, <1>4 DEF PermissionsAgree

\* What the bot obeys, what the page shows and what is stored agree when nothing is
\* under way, and no server permits another server's subject; but for the overlaps
\* that the history names (discord-bot-settings-ui.js, discord-bot-directory.js).
THEOREM PermissionsStayAgreed == BotPageSpec => []PermissionsAgree
BY PermissionsAgreed, BotPageInductive, PTL

-----------------------------------------------------------------------------
(* The workspace's settings: the inductive invariant.  Its first part is about the *)
(* store, the registry and what refers to a provider; its second one about what    *)
(* the page, the selector and the cache show.                                      *)

Choosers == {"settings", "chat", "closed"}
Selections == [model : Models \cup {NoValue}, chosenBy : Choosers]
ReadOps == [kind : Reads, id : {NoValue}, with : {NoValue}]
Stages == {"idle", "sent", "checked", "stored", "done", "applied", "failed"}
AnyTask == [op : {NoValue} \cup Offers \cup ReadOps, stage : Stages,
            snap : {NoValue} \cup Settings \cup Selections,
            got : {NoValue} \cup Settings \cup (SUBSET Providers), stale : BOOLEAN, crossed : BOOLEAN]
Disturbances == {"index", "default", "mutations", "registry", "lost", "read",
                 "undone", "outdated", "unavailable"}

\* What an operation has in hand at each of its stages.
TaskFits(b) ==
    /\ b.stage = "idle" => b = IdleTask
    /\ b.stage # "idle" => b.op \in Offers \cup ReadOps
    /\ b.stage # "idle" /\ b.op.kind \in Reads => /\ b.stage \in {"sent", "done", "applied"}
                                                  /\ b.stage = "done" => b.got \in Settings
    /\ b.stage # "idle" /\ b.op.kind \in Mutations =>
           /\ b.stage \in {"sent", "checked", "stored", "done", "failed"}
           /\ b.op.kind \in Optimistic => b.snap \in Settings
           /\ b.op.kind = "chat-default" => b.snap \in Selections
    /\ b.stage = "applied" => b.op.kind = "settings-refresh"
    /\ b.stage = "stored" => b.op.kind \in Registers /\ b.got \subseteq Providers
    /\ b.stage = "checked" => b.op.kind \in Checked

TasksFit == \A t \in Tasks : TaskFits(task[t])

IsStored(t) == task[t].stage = "stored"

\* The last registration to be told has the providers of the store.
RegistryFollows ==
    races \cap {"registry", "lost"} = {} =>
        /\ (\A t \in Tasks : ~IsStored(t)) => registry = server.providers
        /\ \A t \in Tasks : IsStored(t) /\ (\A u \in Tasks \ {t} : ~IsStored(u)) =>
                                task[t].got = server.providers

Mutating(t) == Runs(t, Mutations)

\* Operations that follow each other: one at a time, and none while the indexes are read.
Orderly == races \cap {"mutations", "index", "lost"} = {}
OneByOne ==
    Orderly =>
        /\ "registry" \notin races
        /\ \A t, u \in Tasks : Mutating(t) /\ Mutating(u) => t = u
        /\ \A t, u \in Tasks : Runs(t, {"settings-index-refresh"}) => ~Mutating(u)

\* Two mutations that are under way have met.
Met == \A t, u \in Tasks : Mutating(t) /\ Mutating(u) /\ t # u => task[t].crossed

\* Providers that are gone from the store and that the page has yet to take away, and
\* those that it shows before they are stored.
Removed == {p \in Providers : \E t \in Tasks :
            Runs(t, {"delete-provider"}) /\ task[t].stage \in {"stored", "done"} /\ task[t].op.id = p}
Added == {p \in Providers : \E t \in Tasks : Runs(t, {"save-provider"}) /\ task[t].op.id = p}

\* What is referred to is stored.
Available == "unavailable" \notin races
NothingDangles ==
    /\ UsedProviders(server) \subseteq server.providers
    /\ Available /\ server.default \in Models => ProviderOf[server.default] \in server.providers

TaskKnows(t) ==
    /\ Runs(t, PageReads) /\ task[t].stage = "done" /\ ~task[t].stale =>
           task[t].got.providers \subseteq server.providers \cup Removed
    /\ Runs(t, Optimistic) => task[t].snap.providers \subseteq server.providers
    /\ Runs(t, SavesProvider) /\ task[t].stage \in {"stored", "done"} => task[t].op.id \in server.providers
    /\ Available /\ Runs(t, {"chat-default"}) => ProviderOf[task[t].op.id] \in server.providers
    /\ Runs(t, {"delete-provider"}) /\ task[t].stage = "checked" => ~Refuses(task[t].op)

ProvidersKnown ==
    /\ registry \subseteq server.providers \cup Removed
    /\ page.providers \subseteq server.providers \cup Removed \cup Added
    /\ \A t \in Tasks : TaskKnows(t)

ReferencesFollow == Orderly => NothingDangles /\ ProvidersKnown

BaseInv ==
    /\ SettingsTypeOK /\ task \in [Tasks -> AnyTask]
    /\ TasksFit /\ RegistryFollows /\ OneByOne /\ Met /\ ReferencesFollow

\* What a state of the settings has of what is read: all but the default, the two lists
\* that the selector chooses from, and these with the default.
SettingsFit(s) == WithoutDefault(s) = WithoutDefault(GetSettings)
ListingsFit(s) == s.providers = registry /\ s.models = GetSettings.models
ChoicesFit(s) == ListingsFit(s) /\ s.default = server.default

\* A mutation that has changed nothing yet, and one that does not show on the page either,
\* and which no refresh waits for.
Early(t) == task[t].stage \in {"sent", "checked", "failed"}
Hidden(t) ==
    /\ task[t].op.kind \notin Optimistic \cup {"chat-default"} /\ Early(t)
    /\ task[t].op.kind = "save-model" => ~task[t].crossed

ChangesChoices == Registers \cup {"save-model", "delete-model", "chat-default"}
StoreStill == \A t \in Tasks : Mutating(t) => Early(t)
ChoicesStill == \A t \in Tasks : Runs(t, ChangesChoices) => Early(t)
Still == \A t \in Tasks : Mutating(t) => Hidden(t)

\* A read of the selector that will be shown, or stored in the cache.
SelectorAnswer(t) ==
    Runs(t, SelectorRead) /\ task[t].stage = "done" /\ (~task[t].stale \/ ~task[t].crossed)
SelectorUnderWay ==
    \/ RefreshUnderWay
    \/ \E t \in Tasks : LiveTask(t) /\ task[t].stage = "applied"
    \/ \E t \in Tasks : Runs(t, SelectorRead) /\ ~task[t].stale

DefaultIsListed == server.default \in server.models \cup {NoValue}
IndexReadAlone == \A t, u \in Tasks : Runs(t, {"settings-index-refresh"}) => ~Mutating(u)

\* What a read has brought is what the store has, until a mutation changes it.
PageReadsFit == StoreStill =>
    \A t \in Tasks : Runs(t, PageReads) /\ task[t].stage = "done" /\ ~task[t].stale => task[t].got = GetSettings
SelectorReadsFit == ChoicesStill =>
    \A t \in Tasks : SelectorAnswer(t) => ChoicesFit(task[t].got)

\* What a failed optimistic change gives back, if it has met no other mutation.
RollbacksFit == \A t \in Tasks :
    Runs(t, Optimistic) /\ Early(t) /\ ~task[t].crossed => SettingsFit(Restored(task[t].op, task[t].snap))

\* While nothing shows that is not stored, the page, the cache and the selector are as
\* the store, or they are about to be read again.
SelectionFits == chosenBy = "settings" => selected = Preferred(GetSettings)
ShownFits == Still =>
    /\ SettingsFit(page) \/ RefreshUnderWay
    /\ \A t \in Tasks : LiveTask(t) /\ task[t].stage = "applied" => page = GetSettings \/ RefreshUnderWay
    /\ ListingsFit(cached) \/ RefreshUnderWay
    /\ (ChoicesFit(menu) /\ SelectionFits) \/ SelectorUnderWay

\* The choice of a default has the page for itself, and remembers what was chosen.
DefaultFits == \A t \in Tasks : Runs(t, {"chat-default"}) =>
    /\ \A u \in Tasks \ {t} : ~LiveTask(u)
    /\ task[t].op.id \in server.models
    /\ SettingsFit(page) /\ ListingsFit(cached) /\ ListingsFit(menu)
    /\ Early(t) => /\ menu.default = server.default
                   /\ task[t].snap.chosenBy = "settings" => task[t].snap.model = Preferred(GetSettings)

AllFits ==
    /\ DefaultIsListed /\ IndexReadAlone /\ PageReadsFit /\ SelectorReadsFit
    /\ RollbacksFit /\ ShownFits /\ DefaultFits
ShownFollows == Undisturbed => AllFits

SettingsInv == BaseInv /\ ShownFollows

-----------------------------------------------------------------------------
(* The workspace's settings: what the operations are, and what they change. *)

\* The kinds of operations.
LEMMA Kinds ==
    /\ \A k \in Mutations : k \notin Reads
    /\ PageReads \subseteq Reads /\ SelectorRead \subseteq Reads /\ "model-selector-settings" \in SelectorRead
    /\ \A k \in SelectorRead : k = "model-selector-settings"
    /\ \A k \in Reads : k \in PageReads \/ k \in SelectorRead
    /\ \A k \in PageReads : k \notin SelectorRead
    /\ "settings-refresh" \in PageReads /\ "settings-index-refresh" \in PageReads
    /\ \A k \in PageReads : k \in {"settings-refresh", "settings-index-refresh"}
    /\ Optimistic \subseteq Mutations /\ Checked \subseteq Mutations /\ Registers \subseteq Checked
    /\ SavesProvider \subseteq Registers /\ ChangesChoices \subseteq Mutations
    /\ \A k \in Registers : k \in SavesProvider \/ k = "delete-provider"
    /\ \A k \in Optimistic : k # "chat-default" /\ k # "delete-provider" /\ k # "provider-api-key"
    /\ "chat-default" \notin Checked
BY DEF Mutations, Reads, PageReads, Optimistic, OptimisticIndex, Checked, Registers, SavesProvider, ChangesChoices,
       SelectorRead

LEMMA OfferFacts ==
    ASSUME NEW op \in Offers
    PROVE  /\ op.kind \in Mutations
           /\ op.id \in Arguments(op.kind)
           /\ op.with \in (IF op.kind = "create-index" THEN Providers ELSE {NoValue})
<1>1. PICK k \in Mutations : op \in [kind : {k}, id : Arguments(k),
                                     with : IF k = "create-index" THEN Providers ELSE {NoValue}]
  BY DEF Offers, OpsOf
<1>2. op.kind = k
  BY <1>1
<1> QED
  BY <1>1, <1>2

LEMMA ArgumentFacts ==
    ASSUME NEW op \in Offers
    PROVE  /\ op.kind \in Registers => op.id \in Providers
           /\ op.kind \in {"save-model", "delete-model", "chat-default"} => op.id \in Models
           /\ op.kind \in {"create-index", "delete-index", "activate-index", "auto-sync"} => op.id \in Indexes
           /\ op.kind = "create-index" => op.with \in Providers
<1>1. op.kind \in Mutations /\ op.id \in Arguments(op.kind)
  BY OfferFacts
<1>2. op.kind = "create-index" => op.with \in Providers
  BY OfferFacts
<1>3. op.kind \in Registers => op.id \in Providers
  BY <1>1 DEF Arguments, Registers, SavesProvider
<1>4. op.kind \in {"save-model", "delete-model", "chat-default"} => op.id \in Models
  BY <1>1 DEF Arguments, Registers, SavesProvider
<1>5. op.kind \in {"create-index", "delete-index", "activate-index", "auto-sync"} => op.id \in Indexes
  BY <1>1 DEF Arguments, Registers, SavesProvider
<1> QED
  BY <1>2, <1>3, <1>4, <1>5

LEMMA ReadFacts ==
    ASSUME NEW op \in ReadOps
    PROVE  op.kind \in Reads /\ op.id = NoValue /\ op.with = NoValue
BY DEF ReadOps

\* What a confirmed operation leaves of the settings.
LEMMA EffectFacts ==
    ASSUME NEW s \in Settings, NEW op \in Offers, NEW e, e = Effect(op, s)
    PROVE  /\ e \in Settings
           /\ e.providers = IF op.kind \in SavesProvider THEN s.providers \cup {op.id}
                            ELSE IF op.kind = "delete-provider" THEN s.providers \ {op.id} ELSE s.providers
           /\ e.index = IF op.kind = "create-index" THEN [s.index EXCEPT ![op.id] = op.with]
                        ELSE IF op.kind = "delete-index" THEN [s.index EXCEPT ![op.id] = NoValue] ELSE s.index
           /\ e.models = IF op.kind = "save-model" THEN s.models \cup {op.id}
                         ELSE IF op.kind = "delete-model" THEN s.models \ {op.id} ELSE s.models
           /\ e.default = s.default
<1>0. /\ op.kind \in Registers => op.id \in Providers
      /\ op.kind \in {"save-model", "delete-model", "chat-default"} => op.id \in Models
      /\ op.kind \in {"create-index", "delete-index", "activate-index", "auto-sync"} => op.id \in Indexes
      /\ op.kind = "create-index" => op.with \in Providers
  BY ArgumentFacts
<1> DEFINE id == op.id
           with == op.with
<1>1. CASE op.kind \in SavesProvider
  <2>1. e = [s EXCEPT !.providers = @ \cup {id}, !.pending = @ \ {id}] /\ id \in Providers
    BY <1>0, <1>1 DEF Effect, Registers, SavesProvider
  <2> DEFINE P == s.providers \cup {id}
             Q == s.pending \ {id}
             a == [s EXCEPT !.providers = P]
  <2>3. P \in SUBSET Providers /\ Q \in SUBSET Providers /\ e = [a EXCEPT !.pending = Q]
    BY <2>1 DEF Settings
  <2> HIDE DEF id, P, Q
  <2>4. /\ a \in Settings /\ a.providers = P /\ a.index = s.index /\ a.models = s.models
        /\ a.default = s.default
    BY <2>3 DEF Settings
  <2> HIDE DEF a
  <2>5. /\ e \in Settings /\ e.providers = P /\ e.index = s.index /\ e.models = s.models
        /\ e.default = s.default
    BY <2>3, <2>4 DEF Settings
  <2>2. e \in Settings /\ e.providers = s.providers \cup {id} /\ e.index = s.index /\ e.models = s.models
        /\ e.default = s.default
    BY <2>5 DEF P
  <2> QED
    BY <1>1, <2>2 DEF id, SavesProvider
<1>2. CASE op.kind = "delete-provider"
  <2>1. e = [s EXCEPT !.providers = @ \ {id}]
    BY <1>2 DEF Effect, SavesProvider
  <2> HIDE DEF id
  <2>2. e \in Settings /\ e.providers = s.providers \ {id} /\ e.index = s.index /\ e.models = s.models
        /\ e.default = s.default
    BY <2>1 DEF Settings
  <2> QED
    BY <1>2, <2>2 DEF id, SavesProvider
<1>3. CASE op.kind = "create-index"
  <2>1. e = [s EXCEPT !.index[id] = with] /\ id \in Indexes /\ with \in Providers
    BY <1>0, <1>3 DEF Effect, SavesProvider
  <2> HIDE DEF id, with
  <2>2. e \in Settings /\ e.providers = s.providers /\ e.index = [s.index EXCEPT ![id] = with]
        /\ e.models = s.models /\ e.default = s.default
    BY <2>1 DEF Settings
  <2> QED
    BY <1>3, <2>2 DEF id, with, SavesProvider
<1>4. CASE op.kind = "delete-index"
  <2>1. e = [s EXCEPT !.index[id] = NoValue] /\ id \in Indexes
    BY <1>0, <1>4 DEF Effect, SavesProvider
  <2> HIDE DEF id
  <2>2. e \in Settings /\ e.providers = s.providers /\ e.index = [s.index EXCEPT ![id] = NoValue]
        /\ e.models = s.models /\ e.default = s.default
    BY <2>1 DEF Settings
  <2> QED
    BY <1>4, <2>2 DEF id, SavesProvider
<1>5. CASE op.kind = "activate-index"
  <2>1. e = [s EXCEPT !.active = id] /\ id \in Indexes
    BY <1>0, <1>5 DEF Effect, SavesProvider
  <2> HIDE DEF id
  <2>2. e \in Settings /\ e.providers = s.providers /\ e.index = s.index /\ e.models = s.models
        /\ e.default = s.default
    BY <2>1 DEF Settings
  <2> QED
    BY <1>5, <2>2 DEF SavesProvider
<1>6. CASE op.kind = "auto-sync"
  <2>1. e = [s EXCEPT !.auto = (@ \ {id}) \cup ({id} \ @)] /\ id \in Indexes
    BY <1>0, <1>6 DEF Effect, SavesProvider
  <2> HIDE DEF id
  <2>2. e \in Settings /\ e.providers = s.providers /\ e.index = s.index /\ e.models = s.models
        /\ e.default = s.default
    BY <2>1 DEF Settings
  <2> QED
    BY <1>6, <2>2 DEF SavesProvider
<1>7. CASE op.kind = "workspace-timezone"
  <2>1. e = [s EXCEPT !.zone = ~@]
    BY <1>7 DEF Effect, SavesProvider
  <2>2. e \in Settings /\ e.providers = s.providers /\ e.index = s.index /\ e.models = s.models
        /\ e.default = s.default
    BY <2>1 DEF Settings
  <2> QED
    BY <1>7, <2>2 DEF SavesProvider
<1>8. CASE op.kind = "save-model"
  <2>1. e = [s EXCEPT !.models = @ \cup {id}] /\ id \in Models
    BY <1>0, <1>8 DEF Effect, SavesProvider
  <2> HIDE DEF id
  <2>2. e \in Settings /\ e.providers = s.providers /\ e.index = s.index /\ e.models = s.models \cup {id}
        /\ e.default = s.default
    BY <2>1 DEF Settings
  <2> QED
    BY <1>8, <2>2 DEF id, SavesProvider
<1>9. CASE op.kind = "delete-model"
  <2>1. e = [s EXCEPT !.models = @ \ {id}] /\ id \in Models
    BY <1>0, <1>9 DEF Effect, SavesProvider
  <2> HIDE DEF id
  <2>2. e \in Settings /\ e.providers = s.providers /\ e.index = s.index /\ e.models = s.models \ {id}
        /\ e.default = s.default
    BY <2>1 DEF Settings
  <2> QED
    BY <1>9, <2>2 DEF id, SavesProvider
<1>10. CASE op.kind = "chat-default"
  <2>1. e = s
    BY <1>10 DEF Effect, SavesProvider
  <2> QED
    BY <1>10, <2>1 DEF SavesProvider
<1>11. op.kind \in Mutations
  BY OfferFacts
<1> HIDE DEF id, with
<1> QED
  BY <1>1, <1>2, <1>3, <1>4, <1>5, <1>6, <1>7, <1>8, <1>9, <1>10, <1>11
     DEF Mutations, Optimistic, OptimisticIndex, Checked, Registers, SavesProvider

LEMMA StoredFacts ==
    ASSUME NEW s \in Settings, NEW op \in Offers, NEW e, e = Stored(op, s)
    PROVE  /\ e \in Settings
           /\ e.providers = IF op.kind \in SavesProvider THEN s.providers \cup {op.id}
                            ELSE IF op.kind = "delete-provider" THEN s.providers \ {op.id} ELSE s.providers
           /\ e.index = IF op.kind = "create-index" THEN [s.index EXCEPT ![op.id] = op.with]
                        ELSE IF op.kind = "delete-index" THEN [s.index EXCEPT ![op.id] = NoValue] ELSE s.index
           /\ e.models = IF op.kind = "delete-provider" THEN {m \in s.models : ProviderOf[m] # op.id}
                         ELSE IF op.kind = "save-model" THEN s.models \cup {op.id}
                         ELSE IF op.kind = "delete-model" THEN s.models \ {op.id} ELSE s.models
           /\ e.default = IF op.kind = "chat-default" THEN op.id
                          ELSE IF op.kind = "delete-provider" /\ s.default \in Models /\ ProviderOf[s.default] = op.id
                               THEN NoValue ELSE s.default
<1> DEFINE f == Effect(op, s)
           id == op.id
<1>1. /\ f \in Settings
      /\ f.providers = IF op.kind \in SavesProvider THEN s.providers \cup {op.id}
                       ELSE IF op.kind = "delete-provider" THEN s.providers \ {op.id} ELSE s.providers
      /\ f.index = IF op.kind = "create-index" THEN [s.index EXCEPT ![op.id] = op.with]
                   ELSE IF op.kind = "delete-index" THEN [s.index EXCEPT ![op.id] = NoValue] ELSE s.index
      /\ f.models = IF op.kind = "save-model" THEN s.models \cup {op.id}
                    ELSE IF op.kind = "delete-model" THEN s.models \ {op.id} ELSE s.models
      /\ f.default = s.default
  BY EffectFacts
<1>2. CASE op.kind = "delete-provider"
  <2> DEFINE M == {m \in f.models : ProviderOf[m] # id}
             d == IF f.default \in Models /\ ProviderOf[f.default] = id THEN NoValue ELSE f.default
             a == [f EXCEPT !.models = M]
  <2>1. e = [a EXCEPT !.default = d]
    BY <1>2 DEF Stored
  <2>2. M \in SUBSET Models /\ d \in Models \cup {NoValue}
    BY <1>1 DEF Settings
  <2>3. f.models = s.models
    BY <1>1, <1>2
  <2>4. M = {m \in s.models : ProviderOf[m] # id}
    BY <2>3
  <2> HIDE DEF M, d, f
  <2>5. /\ a \in Settings /\ a.providers = f.providers /\ a.index = f.index /\ a.models = M /\ a.default = f.default
    BY <1>1, <2>2 DEF Settings
  <2> HIDE DEF a
  <2>6. /\ e \in Settings /\ e.providers = f.providers /\ e.index = f.index /\ e.models = M /\ e.default = d
    BY <2>1, <2>2, <2>5 DEF Settings
  <2> QED
    BY <1>1, <1>2, <2>4, <2>6 DEF d
<1>3. CASE op.kind = "chat-default"
  <2>1. e = [s EXCEPT !.default = id] /\ id \in Models
    BY <1>3, ArgumentFacts DEF Stored
  <2> HIDE DEF id
  <2>2. /\ e \in Settings /\ e.providers = s.providers /\ e.index = s.index /\ e.models = s.models /\ e.default = id
    BY <2>1 DEF Settings
  <2> QED
    BY <1>3, <2>2 DEF id, SavesProvider
<1>4. CASE op.kind \notin {"delete-provider", "chat-default"}
  <2>1. e = f
    BY <1>4 DEF Stored
  <2> HIDE DEF f
  <2> QED
    BY <1>1, <1>4, <2>1
<1> QED
  BY <1>2, <1>3, <1>4

\* What is read, and the model that is preferred.
LEMMA GetFacts ==
    ASSUME server \in Settings, registry \subseteq Providers
    PROVE  /\ GetSettings \in Settings
           /\ GetSettings.providers = registry /\ GetSettings.default = server.default
           /\ GetSettings.models = ListChatModels(server)
           /\ GetSettings.pending = server.pending /\ GetSettings.index = server.index
           /\ GetSettings.active = server.active /\ GetSettings.auto = server.auto /\ GetSettings.zone = server.zone
<1> DEFINE M == ListChatModels(server)
           a == [server EXCEPT !.providers = registry]
<1>1. M \in SUBSET Models /\ registry \in SUBSET Providers
  BY DEF ListChatModels, Settings
<1>2. GetSettings = [a EXCEPT !.models = M]
  BY DEF GetSettings
<1> HIDE DEF M
<1>3. /\ a \in Settings /\ a.providers = registry /\ a.default = server.default
      /\ a.pending = server.pending /\ a.index = server.index
      /\ a.active = server.active /\ a.auto = server.auto /\ a.zone = server.zone
  BY <1>1 DEF Settings
<1> HIDE DEF a
<1> DEFINE g == GetSettings
<1>4. g = [a EXCEPT !.models = M]
  BY <1>2
<1> HIDE DEF g
<1>5. /\ g \in Settings /\ g.models = M
      /\ g.providers = a.providers /\ g.default = a.default
      /\ g.pending = a.pending /\ g.index = a.index
      /\ g.active = a.active /\ g.auto = a.auto /\ g.zone = a.zone
  BY <1>1, <1>3, <1>4 DEF Settings
<1> QED
  BY <1>3, <1>5 DEF g, M

LEMMA PreferredFacts ==
    ASSUME NEW s \in Settings
    PROVE  Preferred(s) \in Models \cup {NoValue}
<1> DEFINE A == {m \in s.models : ProviderOf[m] \in s.providers}
           p == CHOOSE m \in s.models : A = {} \/ m \in A
<1>1. s.default \in Models \cup {NoValue} /\ s.models \subseteq Models
  BY DEF Settings
<1>2. Preferred(s) = IF s.default \in s.models \/ s.models = {} THEN s.default ELSE p
  BY DEF Preferred
<1>3. s.models # {} => \E m \in s.models : A = {} \/ m \in A
  OBVIOUS
<1>4. s.models # {} => p \in s.models
  BY <1>3
<1> HIDE DEF p
<1> QED
  BY <1>1, <1>2, <1>4

LEMMA PreferredSame ==
    ASSUME NEW s, NEW r, s.providers = r.providers, s.models = r.models, s.default = r.default
    PROVE  Preferred(s) = Preferred(r)
BY DEF Preferred

-----------------------------------------------------------------------------
(* The workspace's settings: lemmas about the operations under way. *)

LEMMA SettingsTypes ==
    ASSUME BaseInv
    PROVE  /\ server \in Settings /\ registry \subseteq Providers /\ page \in Settings
           /\ cached \in Settings /\ menu \in Settings
           /\ selected \in Models \cup {NoValue} /\ chosenBy \in Choosers
           /\ ops \in 0..MaxOps /\ races \subseteq Disturbances
           /\ task \in [Tasks -> AnyTask]
           /\ \A t \in Tasks : TaskFits(task[t]) /\ task[t] \in AnyTask
BY DEF BaseInv, SettingsTypeOK, TasksFit, Choosers, Disturbances

LEMMA SettingsTypesAgain ==
    ASSUME /\ server' \in Settings /\ registry' \subseteq Providers /\ page' \in Settings
           /\ cached' \in Settings /\ menu' \in Settings
           /\ selected' \in Models \cup {NoValue} /\ chosenBy' \in Choosers
           /\ ops' \in 0..MaxOps /\ races' \subseteq Disturbances,
           \A t \in Tasks : task'[t] \in AnyTask /\ TaskFits(task'[t])
    PROVE  SettingsTypeOK'
<1>1. ASSUME NEW t \in Tasks
      PROVE  /\ task'[t].stage \in {"idle", "sent", "checked", "stored", "done", "applied", "failed"}
             /\ LiveTask(t)' <=> task'[t].stage # "idle"
             /\ Runs(t, Reads)' => task'[t].stage \in {"sent", "done", "applied"}
  <2>1. task'[t].stage \in {"idle", "sent", "checked", "stored", "done", "applied", "failed"}
    BY DEF AnyTask, Stages
  <2>2. LiveTask(t)' <=> task'[t].stage # "idle"
    BY DEF LiveTask
  <2>3. Runs(t, Reads)' => task'[t].stage \in {"sent", "done", "applied"}
    BY <2>2 DEF Runs, TaskFits
  <2> QED
    BY <2>1, <2>2, <2>3
<1> QED
  BY <1>1 DEF SettingsTypeOK, Choosers, Disturbances

LEMMA IdleFits ==
    IdleTask \in AnyTask /\ TaskFits(IdleTask) /\ IdleTask.stage = "idle"
<1>1. /\ NoValue \in {NoValue} \cup Offers \cup ReadOps /\ "idle" \in Stages
      /\ NoValue \in {NoValue} \cup Settings \cup Selections
      /\ NoValue \in {NoValue} \cup Settings \cup (SUBSET Providers)
  BY DEF Stages
<1>2. IdleTask \in AnyTask
  BY <1>1 DEF IdleTask, AnyTask
<1>3. IdleTask.stage = "idle"
  BY DEF IdleTask
<1> QED
  BY <1>2, <1>3 DEF TaskFits

\* An operation as it begins.
LEMMA BegunFacts ==
    ASSUME NEW op, NEW snap, NEW b, b = Begun(op, snap)
    PROVE  /\ b = [op |-> op, stage |-> "sent", snap |-> snap, got |-> NoValue, stale |-> FALSE, crossed |-> FALSE]
           /\ b.op = op /\ b.stage = "sent" /\ b.snap = snap /\ b.got = NoValue
           /\ b.stale = FALSE /\ b.crossed = FALSE
<1>1. b = [op |-> op, stage |-> "sent", snap |-> snap, got |-> NoValue, stale |-> FALSE, crossed |-> FALSE]
  BY DEF Begun, IdleTask
<1> QED
  BY <1>1

LEMMA ReadingFacts ==
    ASSUME NEW kind \in Reads, NEW b, b = Reading(kind)
    PROVE  /\ b \in AnyTask /\ TaskFits(b)
           /\ b.op \in ReadOps /\ b.op.kind = kind /\ b.stage = "sent" /\ b.stale = FALSE /\ b.crossed = FALSE
<1> DEFINE op == [kind |-> kind, id |-> NoValue, with |-> NoValue]
<1>1. op \in ReadOps /\ op.kind = kind
  BY DEF ReadOps
<1>2. b = Begun(op, NoValue)
  BY DEF Reading
<1> HIDE DEF op
<1>3. op.kind \notin Optimistic /\ op.kind # "chat-default" /\ op.kind \notin Mutations
  BY <1>1, Kinds DEF Mutations
<1>4. /\ op \in {NoValue} \cup Offers \cup ReadOps /\ "sent" \in Stages
      /\ NoValue \in {NoValue} \cup Settings \cup Selections
      /\ NoValue \in {NoValue} \cup Settings \cup (SUBSET Providers)
  BY <1>1 DEF Stages
<1>5. /\ b = [op |-> op, stage |-> "sent", snap |-> NoValue, got |-> NoValue, stale |-> FALSE, crossed |-> FALSE]
      /\ b.op = op /\ b.stage = "sent" /\ b.stale = FALSE /\ b.crossed = FALSE
  <2>1. b = [op |-> op, stage |-> "sent", snap |-> NoValue, got |-> NoValue, stale |-> FALSE, crossed |-> FALSE]
    BY <1>2 DEF Begun, IdleTask
  <2> QED
    BY ONLY <2>1
<1>6. b \in AnyTask
  BY ONLY <1>4, <1>5 DEF AnyTask
<1>7. TaskFits(b)
  BY <1>1, <1>3, <1>5 DEF TaskFits
<1> QED
  BY <1>1, <1>5, <1>6, <1>7

\* What is under way is a mutation that a row offers, or a read.
LEMMA LiveFacts ==
    ASSUME BaseInv, NEW t \in Tasks, LiveTask(t)
    PROVE  /\ task[t].op.kind \in Reads \/ task[t].op.kind \in Mutations
           /\ task[t].op.kind \in Mutations => task[t].op \in Offers /\ Mutating(t)
           /\ task[t].op.kind \in Reads => task[t].op \in ReadOps /\ ~Mutating(t)
<1>1. task[t].op \in Offers \cup ReadOps
  BY SettingsTypes DEF LiveTask, TaskFits
<1>2. CASE task[t].op \in Offers
  <2>1. task[t].op.kind \in Mutations
    BY <1>2, OfferFacts
  <2> QED
    BY <1>2, <2>1, Kinds DEF Mutating, Runs
<1>3. CASE task[t].op \in ReadOps
  <2>1. task[t].op.kind \in Reads
    BY <1>3, ReadFacts
  <2> QED
    BY <1>3, <2>1, Kinds DEF Mutating, Runs
<1> QED
  BY <1>1, <1>2, <1>3

\* An operation that the step leaves alone, makes void or crosses.
KeptTask(u) ==
    \/ task'[u] = task[u]
    \/ LiveTask(u) /\ \E k, c \in BOOLEAN :
           task'[u] = [task[u] EXCEPT !.stale = @ \/ k, !.crossed = @ \/ c]
OthersKeptTask(t) == \A u \in Tasks \ {t} : KeptTask(u)
AllKeptTask == \A u \in Tasks : KeptTask(u)
TasksAfter == task' = [u \in Tasks |-> task'[u]]

\* What stays of such an operation.
StaysTask(u) ==
    /\ task'[u] \in AnyTask /\ TaskFits(task'[u])
    /\ task'[u].op = task[u].op /\ task'[u].stage = task[u].stage
    /\ task'[u].snap = task[u].snap /\ task'[u].got = task[u].got
    /\ ~task'[u].stale => ~task[u].stale
    /\ ~task'[u].crossed => ~task[u].crossed
    /\ LiveTask(u)' <=> LiveTask(u)

LEMMA KeptTaskFields ==
    ASSUME BaseInv, NEW u \in Tasks, KeptTask(u)
    PROVE  StaysTask(u)
<1>1. task[u] \in AnyTask /\ TaskFits(task[u])
  BY SettingsTypes
<1>2. CASE task'[u] = task[u]
  BY <1>1, <1>2 DEF StaysTask, LiveTask
<1>3. CASE LiveTask(u) /\ \E k, c \in BOOLEAN :
               task'[u] = [task[u] EXCEPT !.stale = @ \/ k, !.crossed = @ \/ c]
  <2> DEFINE a == task[u]
             b == task'[u]
  <2>1. PICK k \in BOOLEAN, c \in BOOLEAN : b = [a EXCEPT !.stale = a.stale \/ k, !.crossed = a.crossed \/ c]
    BY <1>3
  <2>2. a \in AnyTask /\ a.stage # "idle"
    BY <1>1, <1>3 DEF LiveTask
  <2> HIDE DEF a, b
  <2>3. a.stale \in BOOLEAN /\ a.crossed \in BOOLEAN
    BY <2>2 DEF AnyTask
  <2> DEFINE s == a.stale \/ k
             x == a.crossed \/ c
  <2>4. s \in BOOLEAN /\ x \in BOOLEAN
    BY <2>3
  <2>5. b = [a EXCEPT !.stale = s, !.crossed = x]
    BY <2>1
  <2>6. (~s => ~a.stale) /\ (~x => ~a.crossed)
    OBVIOUS
  <2> HIDE DEF s, x
  <2>7. /\ b \in AnyTask /\ b.op = a.op /\ b.stage = a.stage /\ b.snap = a.snap /\ b.got = a.got
        /\ b.stale = s /\ b.crossed = x
    BY ONLY <2>2, <2>4, <2>5 DEF AnyTask
  <2>8. TaskFits(b)
    BY <1>1, <2>2, <2>7 DEF TaskFits, a
  <2>9. LiveTask(u)' <=> LiveTask(u)
    BY <2>7 DEF LiveTask, a, b
  <2>10. (~b.stale => ~a.stale) /\ (~b.crossed => ~a.crossed)
    BY <2>6, <2>7
  <2> QED
    BY <2>7, <2>8, <2>9, <2>10 DEF StaysTask, a, b
<1> QED
  BY <1>2, <1>3 DEF KeptTask

LEMMA OthersStay ==
    ASSUME BaseInv, NEW t, OthersKeptTask(t)
    PROVE  \A u \in Tasks \ {t} : /\ StaysTask(u)
                                  /\ \A kinds : Runs(u, kinds)' <=> Runs(u, kinds)
                                  /\ Mutating(u)' <=> Mutating(u)
<1> TAKE u \in Tasks \ {t}
<1>1. StaysTask(u)
  BY KeptTaskFields DEF OthersKeptTask
<1>2. \A kinds : Runs(u, kinds)' <=> Runs(u, kinds)
  BY <1>1 DEF StaysTask, Runs
<1> QED
  BY <1>1, <1>2 DEF Mutating

LEMMA AllStay ==
    ASSUME BaseInv, AllKeptTask
    PROVE  \A u \in Tasks : /\ StaysTask(u)
                            /\ \A kinds : Runs(u, kinds)' <=> Runs(u, kinds)
                            /\ Mutating(u)' <=> Mutating(u)
<1> TAKE u \in Tasks
<1>1. StaysTask(u)
  BY KeptTaskFields DEF AllKeptTask
<1>2. \A kinds : Runs(u, kinds)' <=> Runs(u, kinds)
  BY <1>1 DEF StaysTask, Runs
<1> QED
  BY <1>1, <1>2 DEF Mutating

\* What is superseded is void, what is crossed is so, and the rest stays.
LEMMA SupersedeKeeps ==
    ASSUME BaseInv, NEW kinds, NEW crossing, NEW S, S = Supersede(kinds, crossing)
    PROVE  /\ S \in [Tasks -> AnyTask]
           /\ \A u \in Tasks :
                 /\ S[u] = task[u] \/ (LiveTask(u) /\ \E k, c \in BOOLEAN :
                        S[u] = [task[u] EXCEPT !.stale = @ \/ k, !.crossed = @ \/ c])
                 /\ Runs(u, kinds) => S[u].stale = TRUE
                 /\ Runs(u, crossing) => S[u].crossed = TRUE
                 /\ ~Runs(u, kinds) => S[u].stale = task[u].stale
                 /\ ~Runs(u, crossing) => S[u].crossed = task[u].crossed
<1> SUFFICES ASSUME NEW u \in Tasks
             PROVE  /\ S[u] \in AnyTask
                    /\ S[u] = task[u] \/ (LiveTask(u) /\ \E k, c \in BOOLEAN :
                        S[u] = [task[u] EXCEPT !.stale = @ \/ k, !.crossed = @ \/ c])
                    /\ Runs(u, kinds) => S[u].stale = TRUE
                    /\ Runs(u, crossing) => S[u].crossed = TRUE
                    /\ ~Runs(u, kinds) => S[u].stale = task[u].stale
                    /\ ~Runs(u, crossing) => S[u].crossed = task[u].crossed
  BY DEF Supersede
<1> DEFINE a == task[u]
           k == a.op.kind \in kinds
           c == a.op.kind \in crossing
<1>1. a \in AnyTask /\ a.stale \in BOOLEAN /\ a.crossed \in BOOLEAN
  BY SettingsTypes DEF AnyTask
<1>2. (Runs(u, kinds) <=> LiveTask(u) /\ k) /\ (Runs(u, crossing) <=> LiveTask(u) /\ c)
  BY DEF Runs
<1>3. CASE ~LiveTask(u)
  <2>1. S[u] = a
    BY <1>3 DEF Supersede
  <2> QED
    BY <1>1, <1>2, <1>3, <2>1
<1>4. CASE LiveTask(u)
  <2>1. S[u] = [a EXCEPT !.stale = a.stale \/ k, !.crossed = a.crossed \/ c]
    BY <1>4 DEF Supersede
  <2> DEFINE b == S[u]
             s == a.stale \/ k
             x == a.crossed \/ c
  <2>2. s \in BOOLEAN /\ x \in BOOLEAN /\ k \in BOOLEAN /\ c \in BOOLEAN
    BY <1>1
  <2>3. b = [a EXCEPT !.stale = s, !.crossed = x]
    BY <2>1
  <2>4. /\ k => s = TRUE
        /\ c => x = TRUE
        /\ ~k => s = a.stale
        /\ ~c => x = a.crossed
    BY <1>1
  <2>5. \E i, j \in BOOLEAN : b = [a EXCEPT !.stale = a.stale \/ i, !.crossed = a.crossed \/ j]
    BY <2>1, <2>2
  <2> HIDE DEF b, s, x, a
  <2>6. b \in AnyTask /\ b.stale = s /\ b.crossed = x
    BY ONLY <1>1, <2>2, <2>3 DEF AnyTask
  <2> QED
    BY <1>2, <1>4, <2>4, <2>5, <2>6 DEF a, b
<1> QED
  BY <1>3, <1>4

\* A step that supersedes, and leaves its own operation as b.
Superseding(t, kinds, crossing, b) == task' = [Supersede(kinds, crossing) EXCEPT ![t] = b]

LEMMA SupersedingStep ==
    ASSUME BaseInv, NEW t \in Tasks, NEW kinds, NEW crossing, NEW b, Superseding(t, kinds, crossing, b)
    PROVE  /\ OthersKeptTask(t) /\ task'[t] = b /\ TasksAfter
           /\ \A u \in Tasks \ {t} : /\ Runs(u, kinds) => task'[u].stale = TRUE
                                     /\ Runs(u, crossing) => task'[u].crossed = TRUE
                                     /\ ~Runs(u, kinds) => task'[u].stale = task[u].stale
                                     /\ ~Runs(u, crossing) => task'[u].crossed = task[u].crossed
<1> DEFINE S == Supersede(kinds, crossing)
<1>1. task' = [S EXCEPT ![t] = b]
  BY DEF Superseding
<1>2. /\ S \in [Tasks -> AnyTask]
      /\ \A u \in Tasks :
           /\ S[u] = task[u] \/ (LiveTask(u) /\ \E k, c \in BOOLEAN :
                        S[u] = [task[u] EXCEPT !.stale = @ \/ k, !.crossed = @ \/ c])
           /\ Runs(u, kinds) => S[u].stale = TRUE
           /\ Runs(u, crossing) => S[u].crossed = TRUE
           /\ ~Runs(u, kinds) => S[u].stale = task[u].stale
           /\ ~Runs(u, crossing) => S[u].crossed = task[u].crossed
  BY SupersedeKeeps
<1> HIDE DEF S
<1>3. \A u \in Tasks \ {t} : task'[u] = S[u]
  BY <1>1, <1>2
<1>4. task'[t] = b /\ TasksAfter
  BY <1>1, <1>2 DEF TasksAfter
<1>5. OthersKeptTask(t)
  BY <1>2, <1>3 DEF OthersKeptTask, KeptTask
<1> QED
  BY <1>2, <1>3, <1>4, <1>5

LEMMA OneTaskKeeps ==
    ASSUME BaseInv, NEW t \in Tasks, NEW b, task' = [task EXCEPT ![t] = b]
    PROVE  /\ OthersKeptTask(t) /\ task'[t] = b /\ TasksAfter
           /\ \A u \in Tasks \ {t} : task'[u] = task[u]
BY SettingsTypes DEF OthersKeptTask, KeptTask, TasksAfter

LEMMA IdleKeeps ==
    ASSUME BaseInv, NEW t \in Tasks, OthersKeptTask(t), task'[t] = IdleTask
    PROVE  /\ task'[t] \in AnyTask /\ TaskFits(task'[t]) /\ task'[t].stage = "idle" /\ ~LiveTask(t)'
           /\ ~Mutating(t)' /\ \A kinds : ~Runs(t, kinds)'
<1>1. task'[t] \in AnyTask /\ TaskFits(task'[t]) /\ task'[t].stage = "idle"
  BY IdleFits
<1>2. ~LiveTask(t)'
  BY <1>1 DEF LiveTask
<1> QED
  BY <1>1, <1>2 DEF Mutating, Runs

\* An operation that moves on is the same one.
LEMMA SameOperation ==
    ASSUME BaseInv, NEW t \in Tasks, OthersKeptTask(t), LiveTask(t), LiveTask(t)', task'[t].op = task[t].op
    PROVE  /\ \A kinds : Runs(t, kinds)' <=> Runs(t, kinds)
           /\ Mutating(t)' <=> Mutating(t)
           /\ Added' = Added
<1>1. \A kinds : Runs(t, kinds)' <=> Runs(t, kinds)
  BY DEF Runs
<1>2. ASSUME NEW u \in Tasks
      PROVE  (Runs(u, {"save-provider"})' <=> Runs(u, {"save-provider"})) /\ task'[u].op = task[u].op
  <2>1. CASE u = t
    BY <1>1, <2>1
  <2>2. CASE u # t
    BY <2>2, OthersStay DEF StaysTask
  <2> QED
    BY <2>1, <2>2
<1>3. Added' = Added
  BY <1>2 DEF Added
<1> QED
  BY <1>1, <1>3 DEF Mutating

\* One operation moves on to another stage, with what it has got by then.
LEMMA TaskMoves ==
    ASSUME BaseInv, NEW t \in Tasks, LiveTask(t), NEW s \in Stages, s # "idle",
           NEW g \in {NoValue} \cup Settings \cup (SUBSET Providers),
           task' = [task EXCEPT ![t] = [task[t] EXCEPT !.stage = s, !.got = g]]
    PROVE  /\ OthersKeptTask(t) /\ TasksAfter /\ \A u \in Tasks \ {t} : task'[u] = task[u]
           /\ LiveTask(t)' /\ task'[t] \in AnyTask
           /\ task'[t].op = task[t].op /\ task'[t].stage = s /\ task'[t].snap = task[t].snap
           /\ task'[t].got = g /\ task'[t].stale = task[t].stale /\ task'[t].crossed = task[t].crossed
<1> DEFINE b == [task[t] EXCEPT !.stage = s, !.got = g]
<1>1. task' = [task EXCEPT ![t] = b]
  OBVIOUS
<1>2. task[t] \in AnyTask
  BY SettingsTypes
<1>3. /\ b \in AnyTask /\ b.op = task[t].op /\ b.stage = s /\ b.snap = task[t].snap
      /\ b.got = g /\ b.stale = task[t].stale /\ b.crossed = task[t].crossed
  BY ONLY <1>2, s \in Stages, g \in {NoValue} \cup Settings \cup (SUBSET Providers) DEF AnyTask
<1> HIDE DEF b
<1>4. OthersKeptTask(t) /\ TasksAfter /\ task'[t] = b /\ \A u \in Tasks \ {t} : task'[u] = task[u]
  BY <1>1, OneTaskKeeps
<1> QED
  BY <1>3, <1>4 DEF LiveTask

\* The stage of one operation changes, and nothing else.
LEMMA StageMoves ==
    ASSUME BaseInv, NEW t \in Tasks, LiveTask(t), NEW s \in Stages, s # "idle",
           task' = [task EXCEPT ![t].stage = s]
    PROVE  /\ OthersKeptTask(t) /\ TasksAfter /\ \A u \in Tasks \ {t} : task'[u] = task[u]
           /\ LiveTask(t)' /\ task'[t] \in AnyTask
           /\ task'[t].op = task[t].op /\ task'[t].stage = s /\ task'[t].snap = task[t].snap
           /\ task'[t].got = task[t].got /\ task'[t].stale = task[t].stale /\ task'[t].crossed = task[t].crossed
<1> DEFINE b == [task[t] EXCEPT !.stage = s]
<1>1. task' = [task EXCEPT ![t] = b]
  OBVIOUS
<1>2. task[t] \in AnyTask
  BY SettingsTypes
<1>3. /\ b \in AnyTask /\ b.op = task[t].op /\ b.stage = s /\ b.snap = task[t].snap
      /\ b.got = task[t].got /\ b.stale = task[t].stale /\ b.crossed = task[t].crossed
  BY ONLY <1>2, s \in Stages DEF AnyTask
<1> HIDE DEF b
<1>4. OthersKeptTask(t) /\ TasksAfter /\ task'[t] = b /\ \A u \in Tasks \ {t} : task'[u] = task[u]
  BY <1>1, OneTaskKeeps
<1> QED
  BY <1>3, <1>4 DEF LiveTask

-----------------------------------------------------------------------------
(* The workspace's settings: what the store, the registry and the references have *)
(* of a step.                                                                      *)

\* The types after a step of one operation.
LEMMA TypesAfterOne ==
    ASSUME BaseInv, NEW t \in Tasks, OthersKeptTask(t), TasksAfter, task'[t] \in AnyTask, TaskFits(task'[t]),
           server' \in Settings, registry' \subseteq Providers, page' \in Settings,
           cached' \in Settings, menu' \in Settings,
           selected' \in Models \cup {NoValue}, chosenBy' \in Choosers, ops' \in 0..MaxOps,
           races' \subseteq Disturbances
    PROVE  SettingsTypeOK' /\ task' \in [Tasks -> AnyTask] /\ TasksFit'
<1>1. \A u \in Tasks : task'[u] \in AnyTask /\ TaskFits(task'[u])
  BY OthersStay DEF StaysTask
<1>2. task' \in [Tasks -> AnyTask]
  BY <1>1 DEF TasksAfter
<1>3. SettingsTypeOK'
  BY <1>1, SettingsTypesAgain
<1> QED
  BY <1>1, <1>2, <1>3 DEF TasksFit

\* A step that registers nothing.
LEMMA RegistryStays ==
    ASSUME BaseInv, NEW t \in Tasks, OthersKeptTask(t), task[t].stage # "stored", task'[t].stage # "stored",
           UNCHANGED registry, server'.providers = server.providers, races \subseteq races'
    PROVE  RegistryFollows'
<1> SUFFICES ASSUME races' \cap {"registry", "lost"} = {}
             PROVE  /\ (\A u \in Tasks : ~IsStored(u)') => registry' = server'.providers
                    /\ \A u \in Tasks : IsStored(u)' /\ (\A v \in Tasks \ {u} : ~IsStored(v)') =>
                                            task'[u].got = server'.providers
  BY DEF RegistryFollows
<1>1. \A u \in Tasks : (IsStored(u)' <=> IsStored(u)) /\ (IsStored(u) => task'[u].got = task[u].got)
  BY OthersStay DEF IsStored, StaysTask
<1>2. /\ (\A u \in Tasks : ~IsStored(u)) => registry = server.providers
      /\ \A u \in Tasks : IsStored(u) /\ (\A v \in Tasks \ {u} : ~IsStored(v)) => task[u].got = server.providers
  BY DEF BaseInv, RegistryFollows
<1> QED
  BY <1>1, <1>2

\* A step that starts no mutation and no reading of the indexes.
LEMMA OneByOneStays ==
    ASSUME BaseInv, NEW t \in Tasks, OthersKeptTask(t), races \subseteq races',
           Mutating(t)' => Mutating(t) /\ task'[t].crossed = task[t].crossed,
           Runs(t, {"settings-index-refresh"})' => Runs(t, {"settings-index-refresh"}),
           Orderly' => ("registry" \in races' => "registry" \in races)
    PROVE  OneByOne' /\ Met'
<1>1. \A u \in Tasks : /\ Mutating(u)' => Mutating(u)
                       /\ Runs(u, {"settings-index-refresh"})' => Runs(u, {"settings-index-refresh"})
                       /\ Mutating(u)' /\ ~task'[u].crossed => ~task[u].crossed
  BY OthersStay DEF StaysTask
<1>2. ASSUME Orderly'
      PROVE  /\ "registry" \notin races'
             /\ \A u, v \in Tasks : Mutating(u)' /\ Mutating(v)' => u = v
             /\ \A u, v \in Tasks : Runs(u, {"settings-index-refresh"})' => ~Mutating(v)'
  <2>1. Orderly
    BY <1>2 DEF Orderly
  <2>2. /\ "registry" \notin races
        /\ \A u, v \in Tasks : Mutating(u) /\ Mutating(v) => u = v
        /\ \A u, v \in Tasks : Runs(u, {"settings-index-refresh"}) => ~Mutating(v)
    BY <2>1 DEF BaseInv, OneByOne
  <2> QED
    BY <1>1, <1>2, <2>2
<1>3. Met'
  BY <1>1 DEF BaseInv, Met
<1> QED
  BY <1>2, <1>3 DEF OneByOne

\* What is known of the others, after a step that leaves the store as it is.
LEMMA OthersKnow ==
    ASSUME BaseInv, NEW t \in Tasks, OthersKeptTask(t), Orderly, UNCHANGED server, races \subseteq races',
           \A u \in Tasks \ {t} : Runs(u, PageReads) /\ task[u].stage = "done" /\ ~task'[u].stale =>
               Removed \subseteq Removed'
    PROVE  \A u \in Tasks \ {t} : TaskKnows(u)'
<1> TAKE u \in Tasks \ {t}
<1>0. Available' => Available
  BY DEF Available
<1>1. TaskKnows(u)
  BY DEF BaseInv, ReferencesFollow, ProvidersKnown
<1>2. /\ task'[u].op = task[u].op /\ task'[u].stage = task[u].stage
      /\ task'[u].snap = task[u].snap /\ task'[u].got = task[u].got
      /\ ~task'[u].stale => ~task[u].stale
      /\ LiveTask(u)' <=> LiveTask(u)
  BY OthersStay DEF StaysTask
<1>3. Runs(u, PageReads)' /\ task'[u].stage = "done" /\ ~task'[u].stale =>
         task'[u].got.providers \subseteq server'.providers \cup Removed'
  <2> SUFFICES ASSUME Runs(u, PageReads)', task'[u].stage = "done", ~task'[u].stale
               PROVE  task'[u].got.providers \subseteq server'.providers \cup Removed'
    OBVIOUS
  <2>1. Runs(u, PageReads) /\ task[u].stage = "done" /\ ~task[u].stale
    BY <1>2 DEF Runs
  <2>2. task[u].got.providers \subseteq server.providers \cup Removed
    BY <1>1, <2>1 DEF TaskKnows
  <2>3. Removed \subseteq Removed'
    BY <2>1
  <2> QED
    BY <1>2, <2>2, <2>3
<1>4. Runs(u, Optimistic)' => task'[u].snap.providers \subseteq server'.providers
  BY <1>1, <1>2 DEF TaskKnows, Runs
<1>5. Runs(u, SavesProvider)' /\ task'[u].stage \in {"stored", "done"} => task'[u].op.id \in server'.providers
  BY <1>1, <1>2 DEF TaskKnows, Runs
<1>6. Available' /\ Runs(u, {"chat-default"})' => ProviderOf[task'[u].op.id] \in server'.providers
  BY <1>0, <1>1, <1>2 DEF TaskKnows, Runs
<1>7. Runs(u, {"delete-provider"})' /\ task'[u].stage = "checked" => ~Refuses(task[u].op)'
  <2> SUFFICES ASSUME Runs(u, {"delete-provider"})', task'[u].stage = "checked"
               PROVE  ~Refuses(task[u].op)'
    OBVIOUS
  <2>1. ~Refuses(task[u].op) /\ task[u].op.kind = "delete-provider"
    BY <1>1, <1>2 DEF TaskKnows, Runs
  <2>2. /\ task[u].op.id \notin UsedProviders(server)
        /\ ~(server.default \in Models /\ ProviderOf[server.default] = task[u].op.id)
    BY <2>1 DEF Refuses
  <2> QED
    BY <1>2, <2>1, <2>2 DEF Refuses
<1> QED
  BY <1>3, <1>4, <1>5, <1>6, <1>7 DEF TaskKnows

\* What is gone stays so while the operation that takes it away is where it was.
LEMMA RemovedStays ==
    ASSUME BaseInv, NEW t \in Tasks, OthersKeptTask(t)
    PROVE  /\ ~(Runs(t, {"delete-provider"}) /\ task[t].stage \in {"stored", "done"}) => Removed \subseteq Removed'
           /\ ~(Runs(t, {"delete-provider"}) /\ task[t].stage \in {"stored", "done"})' => Removed' \subseteq Removed
           /\ ~Runs(t, {"save-provider"}) => Added \subseteq Added'
           /\ ~Runs(t, {"save-provider"})' => Added' \subseteq Added
<1>1. \A u \in Tasks \ {t} : /\ task'[u].op = task[u].op /\ task'[u].stage = task[u].stage
                             /\ LiveTask(u)' <=> LiveTask(u)
  BY OthersStay DEF StaysTask
<1>2. ASSUME ~(Runs(t, {"delete-provider"}) /\ task[t].stage \in {"stored", "done"}) PROVE Removed \subseteq Removed'
  BY <1>1, <1>2 DEF Removed, Runs
<1>3. ASSUME ~(Runs(t, {"delete-provider"}) /\ task[t].stage \in {"stored", "done"})' PROVE Removed' \subseteq Removed
  BY <1>1, <1>3 DEF Removed, Runs
<1>4. ASSUME ~Runs(t, {"save-provider"}) PROVE Added \subseteq Added'
  BY <1>1, <1>4 DEF Added, Runs
<1>5. ASSUME ~Runs(t, {"save-provider"})' PROVE Added' \subseteq Added
  BY <1>1, <1>5 DEF Added, Runs
<1> QED
  BY <1>2, <1>3, <1>4, <1>5

LEMMA KnownAgain ==
    ASSUME BaseInv, NEW t \in Tasks, OthersKeptTask(t), Orderly, UNCHANGED server, races \subseteq races',
           \A u \in Tasks \ {t} : Runs(u, PageReads) /\ task[u].stage = "done" /\ ~task'[u].stale =>
               Removed \subseteq Removed',
           registry' \subseteq server.providers \cup Removed',
           page'.providers \subseteq server.providers \cup Removed' \cup Added',
           TaskKnows(t)'
    PROVE  NothingDangles' /\ ProvidersKnown'
<1>1. NothingDangles'
  <2>1. (Available' => Available) /\ NothingDangles
    BY DEF Available, BaseInv, ReferencesFollow
  <2> QED
    BY <2>1 DEF NothingDangles, UsedProviders, Exists
<1>2. \A u \in Tasks : TaskKnows(u)'
  BY OthersKnow
<1> QED
  BY <1>1, <1>2 DEF ProvidersKnown

\* With one mutation at a time, only it takes providers away or shows new ones.
LEMMA OnlyMutation ==
    ASSUME BaseInv, Orderly, NEW t \in Tasks, \A u \in Tasks : Mutating(u) => u = t
    PROVE  /\ Removed \subseteq {task[t].op.id} /\ Added \subseteq {task[t].op.id}
           /\ ~(Runs(t, {"delete-provider"}) /\ task[t].stage \in {"stored", "done"}) => Removed = {}
           /\ ~Runs(t, {"save-provider"}) => Added = {}
<1>1. \A u \in Tasks : Runs(u, {"delete-provider"}) \/ Runs(u, {"save-provider"}) => u = t
  BY DEF Mutating, Runs, Mutations, Checked, Registers, SavesProvider
<1> QED
  BY <1>1 DEF Removed, Added

LEMMA AlreadyOrderly ==
    ASSUME races \subseteq races'
    PROVE  (Orderly' => Orderly) /\ (Undisturbed' => Undisturbed)
BY DEF Orderly, Undisturbed

LEMMA AloneWhenOrderly ==
    ASSUME BaseInv, Orderly, NEW t \in Tasks, Mutating(t)
    PROVE  /\ \A u \in Tasks : Mutating(u) => u = t
           /\ \A u \in Tasks : ~Runs(u, {"settings-index-refresh"})
BY DEF BaseInv, OneByOne

\* When one mutation is under way, the registry is the store's, but for its own step.
LEMMA RegistryWhenAlone ==
    ASSUME BaseInv, Orderly, NEW t \in Tasks, \A u \in Tasks : Mutating(u) => u = t, task[t].stage # "stored"
    PROVE  registry = server.providers
<1>1. "registry" \notin races /\ "lost" \notin races
  BY DEF BaseInv, OneByOne, Orderly
<1>2. \A u \in Tasks : ~IsStored(u)
  <2> SUFFICES ASSUME NEW u \in Tasks, IsStored(u) PROVE FALSE
    OBVIOUS
  <2>1. TaskFits(task[u]) /\ task[u].stage = "stored"
    BY SettingsTypes DEF IsStored
  <2>2. LiveTask(u) /\ task[u].op.kind \in Registers
    BY <2>1 DEF TaskFits, LiveTask
  <2>3. Mutating(u)
    BY <2>2, Kinds DEF Mutating, Runs
  <2> QED
    BY <2>1, <2>3
<1> QED
  BY <1>1, <1>2 DEF BaseInv, RegistryFollows

\* A step that leaves the store and the registry alone and starts nothing that meets
\* another operation.
LEMMA BaseAgain ==
    ASSUME BaseInv, NEW t \in Tasks, OthersKeptTask(t), TasksAfter, task'[t] \in AnyTask, TaskFits(task'[t]),
           UNCHANGED <<server, registry>>, page' \in Settings, cached' \in Settings, menu' \in Settings,
           selected' \in Models \cup {NoValue}, chosenBy' \in Choosers, ops' \in 0..MaxOps,
           races \subseteq races', races' \subseteq Disturbances, "registry" \in races' => "registry" \in races,
           task[t].stage # "stored", task'[t].stage # "stored",
           Mutating(t)' => Mutating(t) /\ task'[t].crossed = task[t].crossed,
           Runs(t, {"settings-index-refresh"})' => Runs(t, {"settings-index-refresh"}),
           ReferencesFollow'
    PROVE  BaseInv'
<1>1. server' \in Settings /\ registry' \subseteq Providers
  BY SettingsTypes
<1>2. SettingsTypeOK' /\ task' \in [Tasks -> AnyTask] /\ TasksFit'
  BY <1>1, TypesAfterOne
<1>3. RegistryFollows'
  BY RegistryStays
<1>4. OneByOne' /\ Met'
  BY OneByOneStays
<1> QED
  BY <1>2, <1>3, <1>4 DEF BaseInv

\* A step after which every operation is where it was.
LEMMA BaseOfAll ==
    ASSUME BaseInv, AllKeptTask, TasksAfter, UNCHANGED <<server, registry, page>>,
           cached' \in Settings, menu' \in Settings,
           selected' \in Models \cup {NoValue}, chosenBy' \in Choosers, ops' \in 0..MaxOps,
           races \subseteq races', races' \subseteq Disturbances, "registry" \in races' => "registry" \in races
    PROVE  BaseInv'
<1>1. \A u \in Tasks : /\ StaysTask(u)
                       /\ \A kinds : Runs(u, kinds)' <=> Runs(u, kinds)
                       /\ Mutating(u)' <=> Mutating(u)
  BY AllStay
<1>2. \A u \in Tasks : task'[u] \in AnyTask /\ TaskFits(task'[u])
  BY <1>1 DEF StaysTask
<1>3. SettingsTypeOK' /\ task' \in [Tasks -> AnyTask] /\ TasksFit'
  <2>1. server' \in Settings /\ registry' \subseteq Providers /\ page' \in Settings
    BY SettingsTypes
  <2>2. SettingsTypeOK'
    BY <1>2, <2>1, SettingsTypesAgain
  <2> QED
    BY <1>2, <2>2 DEF TasksAfter, TasksFit
<1>4. RegistryFollows'
  <2>1. \A u \in Tasks : (IsStored(u)' <=> IsStored(u)) /\ task'[u].got = task[u].got
    BY <1>1 DEF StaysTask, IsStored
  <2> QED
    BY <2>1 DEF BaseInv, RegistryFollows
<1>5. OneByOne' /\ Met'
  <2>1. \A u \in Tasks : /\ Mutating(u)' <=> Mutating(u)
                         /\ Runs(u, {"settings-index-refresh"})' <=> Runs(u, {"settings-index-refresh"})
                         /\ task[u].crossed => task'[u].crossed
    BY <1>1 DEF StaysTask
  <2>2. (Orderly' => Orderly) /\ OneByOne /\ Met
    BY DEF Orderly, BaseInv
  <2> QED
    BY <2>1, <2>2 DEF OneByOne, Met
<1>6. ReferencesFollow'
  <2> SUFFICES ASSUME Orderly' PROVE NothingDangles' /\ ProvidersKnown'
    BY DEF ReferencesFollow
  <2>1. NothingDangles /\ ProvidersKnown /\ (Available' => Available)
    BY DEF BaseInv, ReferencesFollow, Orderly, Available
  <2>2. \A u \in Tasks : /\ task'[u].op = task[u].op /\ task'[u].stage = task[u].stage
                         /\ task'[u].snap = task[u].snap /\ task'[u].got = task[u].got
                         /\ (~task'[u].stale => ~task[u].stale)
    BY <1>1 DEF StaysTask
  <2>3. \A u \in Tasks : /\ Runs(u, {"delete-provider"})' <=> Runs(u, {"delete-provider"})
                         /\ Runs(u, {"save-provider"})' <=> Runs(u, {"save-provider"})
                         /\ Runs(u, PageReads)' <=> Runs(u, PageReads)
                         /\ Runs(u, Optimistic)' <=> Runs(u, Optimistic)
                         /\ Runs(u, SavesProvider)' <=> Runs(u, SavesProvider)
                         /\ Runs(u, {"chat-default"})' <=> Runs(u, {"chat-default"})
    BY <1>1
  <2>4. Removed' = Removed /\ Added' = Added
    BY <2>2, <2>3 DEF Removed, Added
  <2>5. \A o : Refuses(o)' <=> Refuses(o)
    BY DEF Refuses, UsedProviders, Exists
  <2>6. ASSUME NEW u \in Tasks PROVE TaskKnows(u)'
    <3>1. TaskKnows(u)
      BY <2>1 DEF ProvidersKnown
    <3>2. Runs(u, {"delete-provider"}) /\ task[u].stage = "checked" => ~Refuses(task[u].op)'
      <4>1. Runs(u, {"delete-provider"}) /\ task[u].stage = "checked" => ~Refuses(task[u].op)
        BY <3>1 DEF TaskKnows
      <4> DEFINE o == task[u].op
      <4>2. Runs(u, {"delete-provider"}) => o.kind = "delete-provider" /\ task'[u].op = o
        BY <2>2 DEF Runs
      <4>3. Runs(u, {"delete-provider"}) => (Refuses(o)' <=> Refuses(o))
        BY <4>2 DEF Refuses, UsedProviders, Exists
      <4> QED
        BY <4>1, <4>3
    <3> QED
      BY <2>1, <2>2, <2>3, <2>4, <3>1, <3>2 DEF TaskKnows
  <2>7. NothingDangles'
    BY <2>1 DEF NothingDangles, UsedProviders, Exists
  <2> QED
    BY <2>1, <2>4, <2>6, <2>7 DEF ProvidersKnown
<1> QED
  BY <1>3, <1>4, <1>5, <1>6 DEF BaseInv


\* A mutation that is checked, or fails, before it has changed anything.
LEMMA EarlyStepKeepsBase ==
    ASSUME BaseInv, NEW t \in Tasks, Mutating(t), task[t].stage \in {"sent", "checked"},
           NEW s \in {"checked", "failed"}, task' = [task EXCEPT ![t].stage = s],
           s = "checked" => task[t].op.kind \in Checked /\ ~Refuses(task[t].op),
           UNCHANGED <<server, registry, shownVars, races>>, ops' \in 0..MaxOps
    PROVE  BaseInv'
<1> DEFINE op == task[t].op
<1>1. LiveTask(t) /\ op.kind \in Mutations /\ op.kind \notin Reads /\ TaskFits(task[t])
  BY SettingsTypes, Kinds DEF Mutating, Runs
<1>2. s \in Stages /\ s # "idle"
  BY DEF Stages
<1>3. /\ OthersKeptTask(t) /\ TasksAfter /\ LiveTask(t)' /\ task'[t] \in AnyTask
      /\ task'[t].op = op /\ task'[t].stage = s /\ task'[t].snap = task[t].snap
      /\ task'[t].got = task[t].got /\ task'[t].stale = task[t].stale /\ task'[t].crossed = task[t].crossed
  BY <1>1, <1>2, StageMoves
<1>4. TaskFits(task'[t])
  BY <1>1, <1>3 DEF TaskFits, LiveTask
<1>5. (\A kinds : Runs(t, kinds)' <=> Runs(t, kinds)) /\ (Mutating(t)' <=> Mutating(t)) /\ Added' = Added
  BY <1>1, <1>3, SameOperation
<1>6. /\ UNCHANGED <<page, cached, menu, selected, chosenBy>> /\ page' \in Settings /\ cached' \in Settings
      /\ menu' \in Settings /\ selected' \in Models \cup {NoValue} /\ chosenBy' \in Choosers
      /\ races' \subseteq Disturbances
  BY SettingsTypes DEF shownVars, selectorVars
<1>7. ReferencesFollow'
  <2> SUFFICES ASSUME Orderly' PROVE NothingDangles' /\ ProvidersKnown'
    BY DEF ReferencesFollow
  <2>1. Orderly
    BY AlreadyOrderly
  <2>2. ProvidersKnown /\ TaskKnows(t)
    BY <2>1 DEF BaseInv, ReferencesFollow, ProvidersKnown
  <2>3. Removed \subseteq Removed'
    BY <1>3, RemovedStays
  <2>4. TaskKnows(t)'
    <3>1. ~Runs(t, PageReads)'
      BY <1>1, <1>5, Kinds DEF Runs
    <3>2. Runs(t, Optimistic)' => task'[t].snap.providers \subseteq server'.providers
      BY <1>3, <1>5, <2>2 DEF TaskKnows
    <3>3. Available' /\ Runs(t, {"chat-default"})' => ProviderOf[task'[t].op.id] \in server'.providers
      BY <1>3, <1>5, <2>2 DEF TaskKnows, Available
    <3>4. task'[t].stage = "checked" => ~Refuses(op)'
      <4>1. task'[t].stage = "checked" => ~Refuses(op)
        BY <1>3
      <4> QED
        BY <1>3, <4>1 DEF Refuses, UsedProviders, Exists
    <3> QED
      BY <1>3, <3>1, <3>2, <3>3, <3>4 DEF TaskKnows
  <2> QED
    BY <1>3, <1>5, <1>6, <2>1, <2>2, <2>3, <2>4, KnownAgain DEF ProvidersKnown
<1> QED
  BY <1>3, <1>4, <1>5, <1>6, <1>7, BaseAgain

LEMMA CheckSettingsKeepsBase ==
    ASSUME BaseInv, NEW t \in Tasks, CheckSettings(t)
    PROVE  BaseInv'
<1>1. /\ Runs(t, Checked) /\ task[t].stage = "sent" /\ UNCHANGED <<server, registry, shownVars, ops, races>>
      /\ \/ ~Refuses(task[t].op) /\ task' = [task EXCEPT ![t].stage = "checked"]
         \/ task' = [task EXCEPT ![t].stage = "failed"]
  BY DEF CheckSettings
<1>2. Mutating(t) /\ task[t].op.kind \in Checked
  BY <1>1, Kinds DEF Mutating, Runs
<1>3. ops' \in 0..MaxOps
  BY <1>1, SettingsTypes
<1> QED
  BY <1>1, <1>2, <1>3, EarlyStepKeepsBase

LEMMA RefuseKeepsBase ==
    ASSUME BaseInv, NEW t \in Tasks, Refuse(t)
    PROVE  BaseInv'
<1>1. /\ Mutating(t) /\ task[t].stage \in {"sent", "checked"} /\ task' = [task EXCEPT ![t].stage = "failed"]
      /\ UNCHANGED <<server, registry, shownVars, ops, races>>
  BY DEF Refuse, ReadyToExecute, Mutating
<1>2. ops' \in 0..MaxOps
  BY <1>1, SettingsTypes
<1> QED
  BY <1>1, <1>2, EarlyStepKeepsBase

\* A failed mutation that had changed the store is a lost answer.
LEMMA MutationFailsKeepsBase ==
    ASSUME BaseInv, NEW t \in Tasks, MutationFails(t)
    PROVE  BaseInv'
<1> DEFINE op == task[t].op
<1>1. /\ Mutating(t) /\ LiveTask(t) /\ task[t].stage \in {"sent", "checked", "stored", "done"}
      /\ ops < MaxOps /\ ops' = ops + 1 /\ task' = [task EXCEPT ![t].stage = "failed"]
      /\ races' = races \cup (IF task[t].stage \in {"stored", "done"} THEN {"lost"} ELSE {})
      /\ UNCHANGED <<server, registry, shownVars>>
  BY DEF MutationFails, Mutating, Runs
<1>2. ops' \in 0..MaxOps
  BY <1>1, SettingsTypes, SettingsAssumption
<1>3. CASE task[t].stage \in {"sent", "checked"}
  <2>1. UNCHANGED races
    BY <1>1, <1>3
  <2> QED
    BY <1>1, <1>2, <1>3, <2>1, EarlyStepKeepsBase
<1>4. CASE task[t].stage \in {"stored", "done"}
  <2>1. /\ "lost" \in races' /\ ~Orderly' /\ races' \subseteq Disturbances
    BY <1>1, <1>4, SettingsTypes DEF Orderly, Disturbances
  <2>2. "failed" \in Stages /\ TaskFits(task[t]) /\ op.kind \in Mutations /\ op.kind \notin Reads
    BY <1>1, SettingsTypes, Kinds DEF Stages, Mutating, Runs
  <2>3. /\ OthersKeptTask(t) /\ TasksAfter /\ LiveTask(t)' /\ task'[t] \in AnyTask
        /\ task'[t].op = op /\ task'[t].stage = "failed" /\ task'[t].snap = task[t].snap
        /\ task'[t].crossed = task[t].crossed
        /\ \A u \in Tasks \ {t} : task'[u] = task[u]
    BY <1>1, <2>2, StageMoves
  <2>4. TaskFits(task'[t])
    BY <1>1, <2>2, <2>3 DEF TaskFits, LiveTask
  <2>5. SettingsTypeOK' /\ task' \in [Tasks -> AnyTask] /\ TasksFit'
    <3>1. /\ server' \in Settings /\ registry' \subseteq Providers /\ page' \in Settings /\ cached' \in Settings
          /\ menu' \in Settings /\ selected' \in Models \cup {NoValue} /\ chosenBy' \in Choosers
      BY <1>1, SettingsTypes DEF shownVars, selectorVars
    <3> QED
      BY <1>2, <2>1, <2>3, <2>4, <3>1, TypesAfterOne
  <2>6. Met'
    <3>1. \A u \in Tasks : (Mutating(u)' => Mutating(u)) /\ task'[u].crossed = task[u].crossed
      BY <1>1, <2>3 DEF Mutating, Runs, LiveTask
    <3> QED
      BY <3>1 DEF BaseInv, Met
  <2> QED
    BY <2>1, <2>5, <2>6 DEF BaseInv, RegistryFollows, OneByOne, ReferencesFollow
<1> QED
  BY <1>1, <1>3, <1>4

\* What a change in the store does to the operation that makes it.
LEMMA ExecuteFacts ==
    ASSUME BaseInv, NEW t \in Tasks, Execute(t)
    PROVE  /\ Mutating(t) /\ LiveTask(t) /\ task[t].op \in Offers /\ Accepts(task[t].op)
           /\ task[t].op.kind \in Mutations /\ task[t].op.kind \notin Reads
           /\ task[t].stage = IF task[t].op.kind \in Checked THEN "checked" ELSE "sent"
           /\ server' = Stored(task[t].op, server) /\ server' \in Settings
           /\ UNCHANGED <<registry, page, cached, menu, selected, chosenBy, ops, races>>
           /\ OthersKeptTask(t) /\ TasksAfter /\ LiveTask(t)' /\ Mutating(t)'
           /\ \A u \in Tasks \ {t} : task'[u] = task[u]
           /\ task'[t] \in AnyTask /\ TaskFits(task'[t])
           /\ task'[t].op = task[t].op /\ task'[t].snap = task[t].snap
           /\ task'[t].stage = IF task[t].op.kind \in Registers THEN "stored" ELSE "done"
           /\ task[t].op.kind \in Registers => task'[t].got = server'.providers
           /\ task'[t].stale = task[t].stale /\ task'[t].crossed = task[t].crossed
<1> DEFINE op == task[t].op
           s == IF op.kind \in Registers THEN "stored" ELSE "done"
           g == IF op.kind \in Registers THEN server'.providers ELSE task[t].got
<1>1. /\ Runs(t, Mutations) /\ LiveTask(t) /\ Accepts(op)
      /\ task[t].stage = IF op.kind \in Checked THEN "checked" ELSE "sent"
      /\ server' = Stored(op, server)
      /\ UNCHANGED <<registry, page, cached, menu, selected, chosenBy, ops, races>>
  BY DEF Execute, ReadyToExecute, Runs, shownVars, selectorVars
<1>2. op.kind \in Mutations /\ op \in Offers /\ Mutating(t) /\ op.kind \notin Reads
  BY <1>1, LiveFacts, Kinds DEF Runs
<1>3. server \in Settings /\ task[t] \in AnyTask /\ TaskFits(task[t]) /\ task \in [Tasks -> AnyTask]
  BY SettingsTypes
<1>4. server' \in Settings /\ server'.providers \in SUBSET Providers
  <2> DEFINE st == server'
  <2>1. st = Stored(op, server) /\ op \in Offers
    BY <1>1, <1>2
  <2> HIDE DEF st, op
  <2>2. st \in Settings
    BY <1>3, <2>1, StoredFacts
  <2>3. st.providers \in SUBSET Providers
    BY <2>2 DEF Settings
  <2> QED
    BY <2>2, <2>3 DEF st
<1>5. task' = [task EXCEPT ![t] = [task[t] EXCEPT !.stage = s, !.got = g]]
  <2>1. CASE op.kind \in Registers
    <3>1. task' = [task EXCEPT ![t].stage = "stored", ![t].got = server'.providers]
      BY <1>1, <2>1 DEF Execute
    <3>2. task' = [task EXCEPT ![t] = [task[t] EXCEPT !.stage = "stored", !.got = server'.providers]]
      BY <1>3, <3>1
    <3> QED
      BY <2>1, <3>2
  <2>2. CASE op.kind \notin Registers
    <3>1. task' = [task EXCEPT ![t].stage = "done"]
      BY <2>2 DEF Execute
    <3>2. task' = [task EXCEPT ![t] = [task[t] EXCEPT !.stage = "done"]]
      BY <3>1
    <3>3. [task[t] EXCEPT !.stage = "done"] = [task[t] EXCEPT !.stage = "done", !.got = task[t].got]
      BY <1>3 DEF AnyTask
    <3> QED
      BY <2>2, <3>2, <3>3
  <2> QED
    BY <2>1, <2>2
<1>6. s \in Stages /\ s # "idle" /\ g \in {NoValue} \cup Settings \cup (SUBSET Providers)
  <2>1. task[t].got \in {NoValue} \cup Settings \cup (SUBSET Providers)
    BY <1>3 DEF AnyTask
  <2> QED
    BY <1>4, <2>1 DEF Stages
<1>7. /\ OthersKeptTask(t) /\ TasksAfter /\ \A u \in Tasks \ {t} : task'[u] = task[u]
      /\ LiveTask(t)' /\ task'[t] \in AnyTask
      /\ task'[t].op = task[t].op /\ task'[t].stage = s /\ task'[t].snap = task[t].snap
      /\ task'[t].got = g /\ task'[t].stale = task[t].stale /\ task'[t].crossed = task[t].crossed
  <2> HIDE DEF s, g
  <2> QED
    BY <1>1, <1>5, <1>6, TaskMoves
<1>8. TaskFits(task'[t])
  BY <1>1, <1>2, <1>3, <1>4, <1>7 DEF TaskFits, LiveTask
<1>9. Mutating(t)'
  BY <1>2, <1>7 DEF Mutating, Runs
<1> HIDE DEF g
<1>10. op.kind \in Registers => task'[t].got = server'.providers
  BY <1>7 DEF g
<1> QED
  BY <1>1, <1>2, <1>4, <1>7, <1>8, <1>9, <1>10

\* What is known when a change is made in the store.
LEMMA ExecuteKnows ==
    ASSUME BaseInv, NEW t \in Tasks, Execute(t), Orderly
    PROVE  NothingDangles' /\ ProvidersKnown'
<1> DEFINE op == task[t].op
           st == server'
<1>0. /\ Mutating(t) /\ LiveTask(t) /\ op \in Offers /\ Accepts(op)
      /\ op.kind \in Mutations /\ op.kind \notin Reads
      /\ task[t].stage = IF op.kind \in Checked THEN "checked" ELSE "sent"
      /\ st = Stored(op, server)
      /\ UNCHANGED <<registry, page, races>>
      /\ OthersKeptTask(t) /\ LiveTask(t)'
      /\ task'[t].op = op /\ task'[t].snap = task[t].snap
      /\ task'[t].stage = IF op.kind \in Registers THEN "stored" ELSE "done"
  BY ExecuteFacts
<1>2. \A u \in Tasks : Mutating(u) => u = t
  BY <1>0, AloneWhenOrderly
<1>3. registry = server.providers
  BY <1>0, <1>2, RegistryWhenAlone
<1>4. NothingDangles /\ ProvidersKnown /\ TaskKnows(t)
  BY DEF BaseInv, ReferencesFollow, ProvidersKnown
<1>5. server \in Settings /\ page \in Settings
  BY SettingsTypes
<1>6. /\ op.kind \in Registers => op.id \in Providers
      /\ op.kind \in {"save-model", "delete-model", "chat-default"} => op.id \in Models
      /\ op.kind \in {"create-index", "delete-index", "activate-index", "auto-sync"} => op.id \in Indexes
      /\ op.kind = "create-index" => op.with \in Providers
  BY <1>0, ArgumentFacts
<1>8. /\ st \in Settings
      /\ st.providers = IF op.kind \in SavesProvider THEN server.providers \cup {op.id}
                        ELSE IF op.kind = "delete-provider" THEN server.providers \ {op.id} ELSE server.providers
      /\ st.index = IF op.kind = "create-index" THEN [server.index EXCEPT ![op.id] = op.with]
                    ELSE IF op.kind = "delete-index" THEN [server.index EXCEPT ![op.id] = NoValue] ELSE server.index
      /\ st.default = IF op.kind = "chat-default" THEN op.id
                      ELSE IF op.kind = "delete-provider" /\ server.default \in Models /\ ProviderOf[server.default] = op.id
                           THEN NoValue ELSE server.default
  <2>1. op \in Offers /\ st = Stored(op, server)
    BY <1>0
  <2> HIDE DEF op, st
  <2> QED
    BY ONLY ZenonT(60), <1>5, <2>1, StoredFacts
<1>9. op.kind = "delete-provider" => op.id \notin UsedProviders(server) /\ task[t].stage = "checked"
  <2>1. op.kind = "delete-provider" => op.kind \in Checked
    BY DEF Checked, Registers
  <2>2. op.kind = "delete-provider" => ~Refuses(op)
    BY <1>0, <1>4, <2>1 DEF TaskKnows, Runs
  <2> QED
    BY <1>0, <2>1, <2>2 DEF Refuses
<1>10. UsedProviders(st) \subseteq st.providers
  <2> SUFFICES ASSUME NEW i \in Indexes, st.index[i] # NoValue PROVE st.index[i] \in st.providers
    BY DEF UsedProviders, Exists
  <2>1. server.index \in [Indexes -> Providers \cup {NoValue}]
    BY <1>5 DEF Settings
  <2>2. server.index[i] # NoValue => server.index[i] \in server.providers /\ server.index[i] \in UsedProviders(server)
    BY <1>4 DEF NothingDangles, UsedProviders, Exists
  <2>3. CASE op.kind = "create-index"
    <3>1. op.with \in server.providers
      BY <1>0, <1>3, <2>3 DEF Accepts
    <3>2. st.providers = server.providers /\ st.index = [server.index EXCEPT ![op.id] = op.with]
      BY <1>8, <2>3 DEF SavesProvider
    <3> QED
      BY <2>1, <2>2, <3>1, <3>2
  <2>4. CASE op.kind = "delete-index"
    <3>1. st.providers = server.providers /\ st.index = [server.index EXCEPT ![op.id] = NoValue]
      BY <1>8, <2>4 DEF SavesProvider
    <3> QED
      BY <2>1, <2>2, <3>1
  <2>5. CASE op.kind = "delete-provider"
    <3>1. st.providers = server.providers \ {op.id} /\ st.index = server.index
      BY <1>8, <2>5 DEF SavesProvider
    <3> QED
      BY <1>9, <2>2, <2>5, <3>1
  <2>6. CASE op.kind \notin {"create-index", "delete-index", "delete-provider"}
    <3>1. server.providers \subseteq st.providers /\ st.index = server.index
      BY <1>8, <2>6
    <3> QED
      BY <2>2, <3>1
  <2> QED
    BY <2>3, <2>4, <2>5, <2>6
<1>11. Available /\ st.default \in Models => ProviderOf[st.default] \in st.providers
  <2> SUFFICES ASSUME Available, st.default \in Models PROVE ProviderOf[st.default] \in st.providers
    OBVIOUS
  <2>1. server.default \in Models => ProviderOf[server.default] \in server.providers
    BY <1>4 DEF NothingDangles
  <2>2. CASE op.kind = "chat-default"
    <3>1. ProviderOf[op.id] \in server.providers
      BY <1>0, <1>4, <2>2 DEF TaskKnows, Runs
    <3> QED
      BY <1>8, <2>2, <3>1 DEF SavesProvider
  <2>3. CASE op.kind = "delete-provider"
    BY <1>8, <2>1, <2>3, SettingsAssumption DEF SavesProvider
  <2>4. CASE op.kind \notin {"chat-default", "delete-provider"}
    BY <1>8, <2>1, <2>4
  <2> QED
    BY <2>2, <2>3, <2>4
<1>12. NothingDangles'
  BY <1>0, <1>10, <1>11 DEF NothingDangles, UsedProviders, Exists, Available
<1>13. /\ Removed = {} /\ Added' = Added
       /\ \A kinds : Runs(t, kinds)' <=> Runs(t, kinds)
  <2>1. ~(Runs(t, {"delete-provider"}) /\ task[t].stage \in {"stored", "done"})
    BY <1>0
  <2> QED
    BY <1>0, <1>2, <2>1, OnlyMutation, SameOperation
<1>14. server.providers \subseteq st.providers \cup Removed'
  <2>1. CASE op.kind = "delete-provider"
    <3>1. Runs(t, {"delete-provider"})' /\ task'[t].stage = "stored" /\ task'[t].op.id = op.id /\ op.id \in Providers
      BY <1>0, <1>6, <1>13, <2>1 DEF Runs, Registers
    <3>2. op.id \in Removed'
      BY <3>1 DEF Removed
    <3> QED
      BY <1>8, <2>1, <3>2 DEF SavesProvider
  <2>2. CASE op.kind # "delete-provider"
    BY <1>8, <2>2
  <2> QED
    BY <2>1, <2>2
<1>15. registry' \subseteq st.providers \cup Removed' /\ page'.providers \subseteq st.providers \cup Removed' \cup Added'
  BY <1>0, <1>3, <1>4, <1>13, <1>14 DEF ProvidersKnown
<1>16. ASSUME NEW u \in Tasks \ {t} PROVE TaskKnows(u)'
  <2>1. /\ task'[u].op = task[u].op /\ task'[u].stage = task[u].stage
        /\ task'[u].got = task[u].got /\ (~task'[u].stale => ~task[u].stale)
        /\ LiveTask(u)' <=> LiveTask(u)
    BY <1>0, OthersStay DEF StaysTask
  <2>2. ~Mutating(u)' /\ ~Mutating(u)
    BY <1>2, <2>1 DEF Mutating, Runs
  <2>3. TaskKnows(u)
    BY <1>4 DEF ProvidersKnown
  <2>4. Runs(u, PageReads)' /\ task'[u].stage = "done" /\ ~task'[u].stale =>
            task'[u].got.providers \subseteq st.providers \cup Removed'
    BY <1>13, <1>14, <2>1, <2>3 DEF TaskKnows, Runs
  <2>5. \A k \in Mutations : ~Runs(u, {k})'
    BY <2>2 DEF Mutating, Runs
  <2>6. ~Runs(u, Optimistic)' /\ ~Runs(u, SavesProvider)'
    BY <2>2, Kinds DEF Mutating, Runs
  <2>7. ~Runs(u, {"chat-default"})' /\ ~Runs(u, {"delete-provider"})'
    BY <2>5 DEF Mutations, Checked, Registers
  <2> QED
    BY <2>4, <2>6, <2>7 DEF TaskKnows
<1>17. TaskKnows(t)'
  <2>1. ~Runs(t, PageReads)'
    BY <1>0, <1>13, Kinds DEF Runs
  <2>2. Runs(t, Optimistic)' => task'[t].snap.providers \subseteq st.providers
    <3>1. Runs(t, Optimistic)' => task[t].snap.providers \subseteq server.providers /\ op.kind # "delete-provider"
      BY <1>4, <1>13, Kinds DEF TaskKnows, Runs
    <3> QED
      BY <1>0, <1>8, <3>1
  <2>3. Runs(t, SavesProvider)' => task'[t].op.id \in st.providers
    BY <1>0, <1>8, <1>13 DEF Runs
  <2>4. Available' /\ Runs(t, {"chat-default"})' => ProviderOf[task'[t].op.id] \in st.providers
    <3>1. Available' /\ Runs(t, {"chat-default"})' => ProviderOf[op.id] \in server.providers /\ op.kind = "chat-default"
      BY <1>0, <1>4, <1>13 DEF TaskKnows, Runs, Available
    <3> QED
      BY <1>0, <1>8, <3>1
  <2>5. task'[t].stage # "checked"
    BY <1>0
  <2> QED
    BY <2>1, <2>2, <2>3, <2>4, <2>5 DEF TaskKnows
<1> QED
  BY <1>12, <1>15, <1>16, <1>17 DEF ProvidersKnown

LEMMA ExecuteKeepsBase ==
    ASSUME BaseInv, NEW t \in Tasks, Execute(t)
    PROVE  BaseInv'
<1> DEFINE op == task[t].op
<1>1. /\ Mutating(t) /\ op \in Offers /\ op.kind \in Mutations /\ op.kind \notin Reads
      /\ task[t].stage = IF op.kind \in Checked THEN "checked" ELSE "sent"
      /\ server' = Stored(op, server) /\ server' \in Settings
      /\ UNCHANGED <<registry, page, cached, menu, selected, chosenBy, ops, races>>
      /\ OthersKeptTask(t) /\ TasksAfter /\ LiveTask(t)' /\ LiveTask(t)
      /\ task'[t] \in AnyTask /\ TaskFits(task'[t])
      /\ task'[t].op = task[t].op
      /\ task'[t].stage = IF task[t].op.kind \in Registers THEN "stored" ELSE "done"
      /\ task[t].op.kind \in Registers => task'[t].got = server'.providers
      /\ task'[t].crossed = task[t].crossed
  BY ExecuteFacts
<1>2. op.kind \notin Registers => server'.providers = server.providers
  <2> DEFINE st == server'
  <2>1. st = Stored(op, server) /\ op \in Offers /\ server \in Settings
    BY <1>1, SettingsTypes
  <2> HIDE DEF st, op
  <2>2. st.providers = IF op.kind \in SavesProvider THEN server.providers \cup {op.id}
                       ELSE IF op.kind = "delete-provider" THEN server.providers \ {op.id} ELSE server.providers
    BY <2>1, StoredFacts
  <2> QED
    BY <2>2 DEF st, op, Registers
<1>3. (Mutating(t)' <=> Mutating(t)) /\ \A kinds : Runs(t, kinds)' <=> Runs(t, kinds)
  BY <1>1, SameOperation
<1>4. SettingsTypeOK' /\ task' \in [Tasks -> AnyTask] /\ TasksFit'
  <2>1. /\ registry' \subseteq Providers /\ page' \in Settings /\ cached' \in Settings /\ menu' \in Settings
        /\ selected' \in Models \cup {NoValue} /\ chosenBy' \in Choosers /\ ops' \in 0..MaxOps
        /\ races' \subseteq Disturbances
    BY <1>1, SettingsTypes
  <2> QED
    BY <1>1, <2>1, TypesAfterOne
<1>5. RegistryFollows'
  <2>1. CASE op.kind \in Registers
    <3>1. IsStored(t)' /\ task'[t].got = server'.providers
      BY <1>1, <2>1 DEF IsStored
    <3> QED
      BY <3>1 DEF RegistryFollows
  <2>2. CASE op.kind \notin Registers
    BY <1>1, <1>2, <2>2, RegistryStays
  <2> QED
    BY <2>1, <2>2
<1>6. OneByOne' /\ Met'
  BY <1>1, <1>3, OneByOneStays
<1>7. ReferencesFollow'
  <2> SUFFICES ASSUME Orderly' PROVE NothingDangles' /\ ProvidersKnown'
    BY DEF ReferencesFollow
  <2>1. Orderly
    BY <1>1, AlreadyOrderly
  <2> QED
    BY <2>1, ExecuteKnows
<1> QED
  BY <1>4, <1>5, <1>6, <1>7 DEF BaseInv

\* What telling the registry does.
LEMMA InitializeFacts ==
    ASSUME BaseInv, NEW t \in Tasks, InitializeRegistry(t)
    PROVE  /\ Mutating(t) /\ LiveTask(t) /\ task[t].stage = "stored" /\ registry' = task[t].got
           /\ task[t].op.kind \in Registers /\ task[t].got \subseteq Providers
           /\ races' = races \cup (IF \E u \in Tasks \ {t} : LiveTask(u) /\ task[u].stage = "stored"
                                   THEN {"registry"} ELSE {})
           /\ UNCHANGED <<server, page, cached, menu, selected, chosenBy, ops>>
           /\ OthersKeptTask(t) /\ TasksAfter /\ LiveTask(t)' /\ Mutating(t)'
           /\ \A u \in Tasks \ {t} : task'[u] = task[u]
           /\ task'[t] \in AnyTask /\ TaskFits(task'[t])
           /\ task'[t].op = task[t].op /\ task'[t].stage = "done" /\ task'[t].snap = task[t].snap
           /\ task'[t].stale = task[t].stale /\ task'[t].crossed = task[t].crossed
<1> DEFINE op == task[t].op
<1>1. /\ LiveTask(t) /\ task[t].stage = "stored" /\ registry' = task[t].got
      /\ task' = [task EXCEPT ![t].stage = "done"]
      /\ races' = races \cup (IF \E u \in Tasks \ {t} : LiveTask(u) /\ task[u].stage = "stored"
                              THEN {"registry"} ELSE {})
      /\ UNCHANGED <<server, page, cached, menu, selected, chosenBy, ops>>
  BY DEF InitializeRegistry, shownVars, selectorVars
<1>2. op.kind \in Registers /\ task[t].got \subseteq Providers /\ TaskFits(task[t])
  BY <1>1, SettingsTypes DEF TaskFits
<1>3. op.kind \in Mutations /\ op.kind \notin Reads /\ op.kind # "chat-default" /\ Mutating(t)
  BY <1>1, <1>2, Kinds DEF Mutating, Runs
<1>4. /\ OthersKeptTask(t) /\ TasksAfter /\ LiveTask(t)' /\ \A u \in Tasks \ {t} : task'[u] = task[u]
      /\ task'[t] \in AnyTask
      /\ task'[t].op = op /\ task'[t].stage = "done" /\ task'[t].snap = task[t].snap
      /\ task'[t].stale = task[t].stale /\ task'[t].crossed = task[t].crossed
  <2>1. "done" \in Stages
    BY DEF Stages
  <2> QED
    BY <1>1, <2>1, StageMoves
<1>5. TaskFits(task'[t])
  BY <1>1, <1>2, <1>3, <1>4 DEF TaskFits, LiveTask
<1>6. Mutating(t)'
  BY <1>3, <1>4 DEF Mutating, Runs
<1> QED
  BY <1>1, <1>2, <1>3, <1>4, <1>5, <1>6

LEMMA InitializeRegistryKeepsBase ==
    ASSUME BaseInv, NEW t \in Tasks, InitializeRegistry(t)
    PROVE  BaseInv'
<1> DEFINE op == task[t].op
<1>1. /\ Mutating(t) /\ LiveTask(t) /\ task[t].stage = "stored" /\ registry' = task[t].got
      /\ op.kind \in Registers /\ task[t].got \subseteq Providers
      /\ races' = races \cup (IF \E u \in Tasks \ {t} : LiveTask(u) /\ task[u].stage = "stored"
                              THEN {"registry"} ELSE {})
      /\ UNCHANGED <<server, page, cached, menu, selected, chosenBy, ops>>
      /\ OthersKeptTask(t) /\ TasksAfter /\ LiveTask(t)'
      /\ \A u \in Tasks \ {t} : task'[u] = task[u]
      /\ task'[t] \in AnyTask /\ TaskFits(task'[t])
      /\ task'[t].op = task[t].op /\ task'[t].stage = "done" /\ task'[t].snap = task[t].snap
      /\ task'[t].crossed = task[t].crossed
  BY InitializeFacts
<1>2. races \subseteq races'
  BY <1>1
<1>3. op.kind \in Mutations /\ op.kind \notin Reads /\ op.kind # "chat-default"
  BY <1>1, Kinds
<1>6. (\A kinds : Runs(t, kinds)' <=> Runs(t, kinds)) /\ (Mutating(t)' <=> Mutating(t)) /\ Added' = Added
  BY <1>1, SameOperation
<1>7. \A u \in Tasks \ {t} : task'[u].op = task[u].op /\ task'[u].stage = task[u].stage /\ (LiveTask(u)' <=> LiveTask(u))
  BY <1>1 DEF LiveTask
<1>8. \A u \in Tasks : IsStored(u) => LiveTask(u)
  BY DEF IsStored, LiveTask
<1>9. races' \cap {"registry", "lost"} = {} =>
          (\A u \in Tasks \ {t} : ~IsStored(u)) /\ task[t].got = server.providers
  <2> SUFFICES ASSUME races' \cap {"registry", "lost"} = {}
               PROVE  (\A u \in Tasks \ {t} : ~IsStored(u)) /\ task[t].got = server.providers
    OBVIOUS
  <2>1. races \cap {"registry", "lost"} = {} /\ \A u \in Tasks \ {t} : ~(LiveTask(u) /\ task[u].stage = "stored")
    BY <1>1
  <2>2. \A u \in Tasks \ {t} : ~IsStored(u)
    BY <1>8, <2>1 DEF IsStored
  <2> QED
    BY <1>1, <2>1, <2>2 DEF BaseInv, RegistryFollows, IsStored
<1>10. RegistryFollows'
  <2> SUFFICES ASSUME races' \cap {"registry", "lost"} = {}
               PROVE  (\A u \in Tasks : ~IsStored(u)') /\ registry' = server'.providers
    BY DEF RegistryFollows
  <2>1. \A u \in Tasks : ~IsStored(u)'
    BY <1>1, <1>7, <1>9 DEF IsStored
  <2> QED
    BY <1>1, <1>9, <2>1
<1>11. Orderly' => Orderly /\ "registry" \notin races'
  <2> SUFFICES ASSUME Orderly' PROVE Orderly /\ "registry" \notin races'
    OBVIOUS
  <2>1. Orderly
    BY <1>2, AlreadyOrderly
  <2>2. \A u \in Tasks : Mutating(u) => u = t
    BY <1>1, <2>1, AloneWhenOrderly
  <2>3. \A u \in Tasks \ {t} : ~(LiveTask(u) /\ task[u].stage = "stored")
    <3> SUFFICES ASSUME NEW u \in Tasks \ {t}, LiveTask(u), task[u].stage = "stored" PROVE FALSE
      OBVIOUS
    <3>1. task[u].op.kind \in Registers
      BY SettingsTypes DEF TaskFits
    <3>2. Mutating(u)
      BY <3>1, Kinds DEF Mutating, Runs
    <3> QED
      BY <2>2, <3>2
  <2>4. races' = races
    BY <1>1, <2>3
  <2> QED
    BY <2>1, <2>4 DEF BaseInv, OneByOne
<1>12. OneByOne' /\ Met'
  BY <1>1, <1>2, <1>6, <1>11, OneByOneStays
<1>13. ReferencesFollow'
  <2> SUFFICES ASSUME Orderly' PROVE NothingDangles' /\ ProvidersKnown'
    BY DEF ReferencesFollow
  <2>1. Orderly /\ races' \cap {"registry", "lost"} = {}
    BY <1>11 DEF Orderly
  <2>2. registry' = server.providers
    BY <1>1, <1>9, <2>1
  <2>3. ProvidersKnown /\ TaskKnows(t)
    BY <2>1 DEF BaseInv, ReferencesFollow, ProvidersKnown
  <2>4. Removed \subseteq Removed'
    <3> SUFFICES ASSUME NEW p \in Providers, NEW u \in Tasks, Runs(u, {"delete-provider"}),
                        task[u].stage \in {"stored", "done"}, task[u].op.id = p
                 PROVE  p \in Removed'
      BY DEF Removed
    <3>1. Runs(u, {"delete-provider"})' /\ task'[u].stage \in {"stored", "done"} /\ task'[u].op.id = p
      <4>1. CASE u = t
        BY <1>1, <1>6, <4>1
      <4>2. CASE u # t
        BY <1>7, <4>2 DEF Runs
      <4> QED
        BY <4>1, <4>2
    <3> QED
      BY <3>1 DEF Removed
  <2>5. TaskKnows(t)'
    <3>1. ~Runs(t, PageReads)' /\ ~Runs(t, {"chat-default"})'
      BY <1>3, <1>6, Kinds DEF Runs
    <3>2. Runs(t, Optimistic)' => task'[t].snap.providers \subseteq server'.providers
      BY <1>1, <1>6, <2>3 DEF TaskKnows
    <3>3. Runs(t, SavesProvider)' => task'[t].op.id \in server'.providers
      BY <1>1, <1>6, <2>3 DEF TaskKnows
    <3> QED
      BY <1>1, <3>1, <3>2, <3>3 DEF TaskKnows
  <2> QED
    BY <1>1, <1>2, <1>6, <2>1, <2>2, <2>3, <2>4, <2>5, KnownAgain DEF ProvidersKnown
<1>15. SettingsTypeOK' /\ task' \in [Tasks -> AnyTask] /\ TasksFit'
  <2>1. /\ server' \in Settings /\ registry' \subseteq Providers /\ page' \in Settings /\ cached' \in Settings
        /\ menu' \in Settings /\ selected' \in Models \cup {NoValue} /\ chosenBy' \in Choosers
        /\ ops' \in 0..MaxOps /\ races' \subseteq Disturbances
    BY <1>1, SettingsTypes DEF Disturbances
  <2> QED
    BY <1>1, <2>1, TypesAfterOne
<1> QED
  BY <1>10, <1>12, <1>13, <1>15 DEF BaseInv

-----------------------------------------------------------------------------
(* The workspace's settings: what begins. *)

\* When the history does not name an overlap, there was none.
LEMMA NoOverlap ==
    ASSUME NEW op, OverlapsOf(op) \subseteq races'
    PROVE  /\ "index" \notin races' =>
                  /\ op.kind = "settings-index-refresh" => \A t \in Tasks : ~Runs(t, Mutations)
                  /\ op.kind \in Mutations => \A t \in Tasks : ~Runs(t, {"settings-index-refresh"})
           /\ "default" \notin races' =>
                  /\ op.kind = "chat-default" => \A t \in Tasks : ~Runs(t, Reads \cup Mutations)
                  /\ op.kind \in Reads \cup Mutations => \A t \in Tasks : ~Runs(t, {"chat-default"})
           /\ "mutations" \notin races' /\ op.kind \in Mutations => \A t \in Tasks : ~Runs(t, Mutations)
<1>1. /\ "index" \in OverlapsOf(op) <=> Overlap(op, {"settings-index-refresh"}, Mutations)
      /\ "default" \in OverlapsOf(op) <=> Overlap(op, {"chat-default"}, Reads \cup Mutations)
      /\ "mutations" \in OverlapsOf(op) <=> Overlap(op, Mutations, Mutations)
  BY DEF OverlapsOf
<1>3. ASSUME "index" \notin races'
      PROVE  /\ op.kind = "settings-index-refresh" => \A t \in Tasks : ~Runs(t, Mutations)
             /\ op.kind \in Mutations => \A t \in Tasks : ~Runs(t, {"settings-index-refresh"})
  <2>1. ~Overlap(op, {"settings-index-refresh"}, Mutations)
    BY <1>1, <1>3
  <2> QED
    BY <2>1 DEF Overlap
<1>4. ASSUME "default" \notin races'
      PROVE  /\ op.kind = "chat-default" => \A t \in Tasks : ~Runs(t, Reads \cup Mutations)
             /\ op.kind \in Reads \cup Mutations => \A t \in Tasks : ~Runs(t, {"chat-default"})
  <2>1. ~Overlap(op, {"chat-default"}, Reads \cup Mutations)
    BY <1>1, <1>4
  <2> QED
    BY <2>1 DEF Overlap
<1>5. ASSUME "mutations" \notin races', op.kind \in Mutations
      PROVE  \A t \in Tasks : ~Runs(t, Mutations)
  <2>1. ~Overlap(op, Mutations, Mutations)
    BY <1>1, <1>5
  <2> QED
    BY <1>5, <2>1 DEF Overlap
<1> QED
  BY <1>3, <1>4, <1>5

LEMMA OverlapsKnown ==
    ASSUME NEW op
    PROVE  OverlapsOf(op) \subseteq {"index", "default", "mutations"}
BY DEF OverlapsOf

\* What the selector shows of the settings it is given.
LEMMA Applied ==
    ASSUME NEW s \in Settings, ApplySettings(s), selected \in Models \cup {NoValue}, chosenBy \in Choosers
    PROVE  /\ menu' = s /\ menu' \in Settings /\ selected' \in Models \cup {NoValue} /\ chosenBy' \in Choosers
           /\ chosenBy' = "settings" => selected' = Preferred(s)
<1>1. Preferred(s) \in Models \cup {NoValue}
  BY PreferredFacts
<1> QED
  BY <1>1 DEF ApplySettings, Choosers

LEMMA SnapshotFacts ==
    ASSUME NEW op
    PROVE  /\ op.kind \in Optimistic => Snapshot(op) = page
           /\ op.kind = "chat-default" => Snapshot(op) = [model |-> selected, chosenBy |-> chosenBy]
           /\ op.kind \notin Optimistic \cup {"chat-default"} => Snapshot(op) = NoValue
BY Kinds DEF Snapshot

\* What the page projects of an operation.
LEMMA ProjectFacts ==
    ASSUME page \in Settings, NEW op \in Offers, op.kind \in Optimistic
    PROVE  /\ Project(op) \in Settings
           /\ Project(op).providers = IF op.kind = "save-provider" THEN page.providers \cup {op.id} ELSE page.providers
<1>1. CASE op.kind = "save-provider"
  <2> DEFINE id == op.id
             P == page.providers \cup {id}
             Q == page.pending \cup {id}
             a == [page EXCEPT !.providers = P]
             e == [a EXCEPT !.pending = Q]
  <2>1. id \in Providers
    BY <1>1, ArgumentFacts DEF Registers, SavesProvider
  <2>2. P \in SUBSET Providers /\ Q \in SUBSET Providers
    BY <2>1 DEF Settings
  <2>3. Project(op) = e
    BY <1>1 DEF Project, ProjectPending
  <2> HIDE DEF P, Q
  <2>4. a \in Settings /\ a.providers = P
    BY <2>2 DEF Settings
  <2> HIDE DEF a
  <2>5. e \in Settings /\ e.providers = P
    BY <2>2, <2>4 DEF Settings
  <2> HIDE DEF e
  <2> QED
    BY <1>1, <2>3, <2>5 DEF P
<1>2. CASE op.kind # "save-provider"
  <2> DEFINE e == Effect(op, page)
  <2>1. Project(op) = e
    BY <1>2 DEF Project
  <2>2. e = Effect(op, page)
    OBVIOUS
  <2> HIDE DEF e
  <2>3. e \in Settings /\ e.providers = page.providers
    <3>1. op.kind \notin SavesProvider /\ op.kind # "delete-provider"
      BY <1>2, Kinds DEF SavesProvider
    <3> QED
      BY <2>2, <3>1, EffectFacts
  <2> QED
    BY <1>2, <2>1, <2>3
<1> QED
  BY <1>1, <1>2

\* What the start of a mutation does to the page and to the operations under way.
LEMMA RunMutationFacts ==
    ASSUME BaseInv, NEW t \in Tasks, NEW op \in Offers, RunMutation(t, op)
    PROVE  /\ ~LiveTask(t) /\ ops < MaxOps /\ Offered(op) /\ ops' = ops + 1
           /\ races' = races \cup OverlapsOf(op) \cup Unavailable(op)
           /\ UNCHANGED <<server, registry>>
           /\ OthersKeptTask(t) /\ TasksAfter /\ task'[t] \in AnyTask /\ TaskFits(task'[t])
           /\ task'[t].op = op /\ task'[t].stage = "sent" /\ task'[t].stale = FALSE
           /\ task'[t].crossed = Crossed(op) /\ task'[t].snap = Snapshot(op)
           /\ \A u \in Tasks \ {t} : /\ Mutating(u) => task'[u].crossed = TRUE
                                     /\ Runs(u, Superseded(op)) => task'[u].stale = TRUE
                                     /\ ~Runs(u, Superseded(op)) => task'[u].stale = task[u].stale
                                     /\ op.kind \in Optimistic /\ Runs(u, SelectorRead) => task'[u].crossed = TRUE
           /\ op.kind \in Optimistic => page' = Project(op) /\ cached' = page' /\ ApplySettings(page')
           /\ op.kind = "chat-default" =>
                  selected' = op.id /\ chosenBy' = "settings" /\ UNCHANGED <<page, cached, menu>>
           /\ op.kind \notin Optimistic \cup {"chat-default"} =>
                  UNCHANGED <<page, cached, menu, selected, chosenBy>>
           /\ page'.providers = IF op.kind = "save-provider" THEN page.providers \cup {op.id} ELSE page.providers
           /\ page' \in Settings /\ cached' \in Settings /\ menu' \in Settings
           /\ selected' \in Models \cup {NoValue} /\ chosenBy' \in Choosers
<1> DEFINE c == Crossed(op)
           snap == Snapshot(op)
           K == Superseded(op)
           X == Mutations \cup (IF op.kind \in Optimistic THEN SelectorRead ELSE {})
           b == [Begun(op, snap) EXCEPT !.crossed = c]
<1>1. /\ ~LiveTask(t) /\ ops < MaxOps /\ Offered(op) /\ ops' = ops + 1
      /\ races' = races \cup OverlapsOf(op) \cup Unavailable(op)
      /\ UNCHANGED <<server, registry>>
  BY DEF RunMutation
<1>0. Superseding(t, K, X, b)
  BY DEF RunMutation, Superseding
<1>2. /\ op.kind \in Optimistic => page' = Project(op) /\ cached' = page' /\ ApplySettings(page')
      /\ op.kind = "chat-default" =>
             selected' = op.id /\ chosenBy' = "settings" /\ UNCHANGED <<page, cached, menu>>
      /\ op.kind \notin Optimistic \cup {"chat-default"} => UNCHANGED <<page, cached, menu, selected, chosenBy>>
  BY Kinds DEF RunMutation, UpdateSettings, shownVars, selectorVars
<1>3. /\ page \in Settings /\ cached \in Settings /\ menu \in Settings
      /\ selected \in Models \cup {NoValue} /\ chosenBy \in Choosers
  BY SettingsTypes
<1>4. c \in BOOLEAN
  BY DEF Crossed
<1>5. /\ snap \in {NoValue} \cup Settings \cup Selections
      /\ op.kind \in Optimistic => snap \in Settings
      /\ op.kind = "chat-default" => snap \in Selections
  <2>1. [model |-> selected, chosenBy |-> chosenBy] \in Selections
    BY <1>3 DEF Selections
  <2> QED
    BY <1>3, <2>1, Kinds DEF Snapshot
<1>6. b = [Begun(op, snap) EXCEPT !.crossed = c]
  OBVIOUS
<1>7. \A u \in Tasks : /\ Mutating(u) => Runs(u, X)
                       /\ op.kind \in Optimistic /\ Runs(u, SelectorRead) => Runs(u, X)
  BY DEF Mutating, Runs
<1> HIDE DEF b, snap, c, K, X
<1>8. /\ b \in AnyTask /\ TaskFits(b)
      /\ b.op = op /\ b.stage = "sent" /\ b.snap = snap /\ b.stale = FALSE /\ b.crossed = c
  <2> DEFINE a == Begun(op, snap)
  <2>0. a = Begun(op, snap)
    OBVIOUS
  <2>1. b = [a EXCEPT !.crossed = c]
    BY <1>6
  <2> HIDE DEF a
  <2>2. a = [op |-> op, stage |-> "sent", snap |-> snap, got |-> NoValue, stale |-> FALSE, crossed |-> FALSE]
    BY ONLY <2>0 DEF Begun, IdleTask
  <2>3. b = [op |-> op, stage |-> "sent", snap |-> snap, got |-> NoValue, stale |-> FALSE, crossed |-> c]
    BY ONLY <2>1, <2>2
  <2>4. /\ op \in {NoValue} \cup Offers \cup ReadOps /\ "sent" \in Stages
        /\ NoValue \in {NoValue} \cup Settings \cup (SUBSET Providers) /\ FALSE \in BOOLEAN
    BY DEF Stages
  <2>5. b \in AnyTask
    BY ONLY <1>4, <1>5, <2>3, <2>4 DEF AnyTask
  <2>6. b.op = op /\ b.stage = "sent" /\ b.snap = snap /\ b.stale = FALSE /\ b.crossed = c
    BY ONLY <2>3
  <2>7. op.kind \notin Reads
    BY OfferFacts, Kinds
  <2>8. TaskFits(b)
    BY <1>5, <2>6, <2>7 DEF TaskFits
  <2> QED
    BY <2>5, <2>6, <2>8
<1>9. /\ OthersKeptTask(t) /\ task'[t] = b /\ TasksAfter
      /\ \A u \in Tasks \ {t} : /\ Runs(u, K) => task'[u].stale = TRUE
                                /\ Runs(u, X) => task'[u].crossed = TRUE
                                /\ ~Runs(u, K) => task'[u].stale = task[u].stale
  BY ONLY BaseInv, t \in Tasks, <1>0, SupersedingStep
<1>10. /\ page' \in Settings
       /\ page'.providers = IF op.kind = "save-provider" THEN page.providers \cup {op.id} ELSE page.providers
  <2>1. CASE op.kind \in Optimistic
    BY <1>2, <1>3, <2>1, ProjectFacts
  <2>2. CASE op.kind \notin Optimistic
    <3>1. op.kind # "save-provider" /\ page' = page
      BY <1>2, <2>2 DEF Optimistic
    <3> QED
      BY <1>3, <3>1
  <2> QED
    BY <2>1, <2>2
<1>11. /\ cached' \in Settings /\ menu' \in Settings
       /\ selected' \in Models \cup {NoValue} /\ chosenBy' \in Choosers
  <2>1. CASE op.kind \in Optimistic
    <3> DEFINE p == page'
    <3>1. p \in Settings /\ ApplySettings(p) /\ cached' = p
      BY <1>2, <1>10, <2>1
    <3> HIDE DEF p
    <3> QED
      BY <1>3, <3>1, Applied
  <2>2. CASE op.kind = "chat-default"
    BY <1>2, <1>3, <2>2, ArgumentFacts DEF Choosers
  <2>3. CASE op.kind \notin Optimistic \cup {"chat-default"}
    BY <1>2, <1>3, <2>3
  <2> QED
    BY <2>1, <2>2, <2>3
<1>12. \A u \in Tasks \ {t} : /\ Mutating(u) => task'[u].crossed = TRUE
                              /\ Runs(u, Superseded(op)) => task'[u].stale = TRUE
                              /\ ~Runs(u, Superseded(op)) => task'[u].stale = task[u].stale
                              /\ op.kind \in Optimistic /\ Runs(u, SelectorRead) => task'[u].crossed = TRUE
  BY <1>7, <1>9 DEF K
<1>13. /\ OthersKeptTask(t) /\ TasksAfter /\ task'[t] \in AnyTask /\ TaskFits(task'[t])
       /\ task'[t].op = op /\ task'[t].stage = "sent" /\ task'[t].stale = FALSE
       /\ task'[t].crossed = Crossed(op) /\ task'[t].snap = Snapshot(op)
  BY <1>8, <1>9 DEF c, snap
<1> QED
  BY <1>1, <1>2, <1>10, <1>11, <1>12, <1>13

LEMMA RunMutationKeepsBase ==
    ASSUME BaseInv, NEW t \in Tasks, NEW op \in Offers, RunMutation(t, op)
    PROVE  BaseInv'
<1>1. /\ ~LiveTask(t) /\ ops < MaxOps /\ Offered(op) /\ ops' = ops + 1
      /\ races' = races \cup OverlapsOf(op) \cup Unavailable(op)
      /\ UNCHANGED <<server, registry>>
      /\ OthersKeptTask(t) /\ TasksAfter /\ task'[t] \in AnyTask /\ TaskFits(task'[t])
      /\ task'[t].op = op /\ task'[t].stage = "sent" /\ task'[t].stale = FALSE
      /\ task'[t].crossed = Crossed(op) /\ task'[t].snap = Snapshot(op)
      /\ \A u \in Tasks \ {t} : Mutating(u) => task'[u].crossed = TRUE
      /\ page'.providers = IF op.kind = "save-provider" THEN page.providers \cup {op.id} ELSE page.providers
      /\ page' \in Settings /\ cached' \in Settings /\ menu' \in Settings
      /\ selected' \in Models \cup {NoValue} /\ chosenBy' \in Choosers
  BY RunMutationFacts
<1>2. op.kind \in Mutations /\ op.kind \notin Reads
  BY OfferFacts, Kinds
<1>3. /\ races \subseteq races' /\ ("registry" \in races' => "registry" \in races)
      /\ races' \subseteq races \cup {"index", "default", "mutations", "unavailable"}
      /\ Unavailable(op) \subseteq races'
  BY <1>1, OverlapsKnown DEF Unavailable
<1>4. /\ "index" \notin races' => \A u \in Tasks : ~Runs(u, {"settings-index-refresh"})
      /\ "mutations" \notin races' => \A u \in Tasks : ~Runs(u, Mutations)
  <2>1. OverlapsOf(op) \subseteq races'
    BY <1>1
  <2> QED
    BY <1>2, <2>1, NoOverlap
<1>5. task[t].stage = "idle" /\ LiveTask(t)' /\ \A kinds : ~Runs(t, kinds)
  BY <1>1 DEF LiveTask, Runs
<1>7. \A u \in Tasks \ {t} : /\ StaysTask(u)
                             /\ Mutating(u)' <=> Mutating(u)
                             /\ Runs(u, {"settings-index-refresh"})' <=> Runs(u, {"settings-index-refresh"})
  BY <1>1, OthersStay
<1>8. ~Runs(t, {"settings-index-refresh"})' /\ ~Runs(t, PageReads)' /\ Mutating(t)'
  BY <1>1, <1>2, <1>5, Kinds DEF Runs, Mutating
<1>9. RegistryFollows'
  BY <1>1, <1>3, <1>5, RegistryStays
<1>10. OneByOne'
  <2> SUFFICES ASSUME Orderly'
               PROVE  /\ "registry" \notin races'
                      /\ \A u, v \in Tasks : Mutating(u)' /\ Mutating(v)' => u = v
                      /\ \A u, v \in Tasks : Runs(u, {"settings-index-refresh"})' => ~Mutating(v)'
    BY DEF OneByOne
  <2>1. Orderly /\ "index" \notin races' /\ "mutations" \notin races'
    BY <1>3, AlreadyOrderly DEF Orderly
  <2>2. "registry" \notin races'
    BY <1>3, <2>1 DEF BaseInv, OneByOne
  <2>3. \A u \in Tasks \ {t} : ~Mutating(u)' /\ ~Runs(u, {"settings-index-refresh"})'
    BY <1>4, <1>7, <2>1 DEF Mutating
  <2> QED
    BY <1>8, <2>2, <2>3
<1>11. Met'
  <2> SUFFICES ASSUME NEW u \in Tasks, NEW v \in Tasks, Mutating(u)', Mutating(v)', u # v
               PROVE  task'[u].crossed
    BY DEF Met
  <2>1. CASE u = t
    <3>1. Mutating(v)
      BY <1>7, <2>1
    <3> QED
      BY <1>1, <2>1, <3>1 DEF Crossed, Mutating
  <2>2. CASE u # t
    BY <1>1, <1>7, <2>2
  <2> QED
    BY <2>1, <2>2
<1>12. ReferencesFollow'
  <2> SUFFICES ASSUME Orderly' PROVE NothingDangles' /\ ProvidersKnown'
    BY DEF ReferencesFollow
  <2>1. Orderly /\ "mutations" \notin races'
    BY <1>3, AlreadyOrderly DEF Orderly
  <2>2. \A u \in Tasks : ~Mutating(u)
    BY <1>4, <2>1 DEF Mutating
  <2>3. \A u \in Tasks : ~Runs(u, {"delete-provider"}) /\ ~Runs(u, {"save-provider"})
    BY <2>2, Kinds DEF Mutating, Runs, Mutations, Checked, Registers, SavesProvider
  <2>4. Removed = {} /\ Added = {}
    BY <2>3 DEF Removed, Added
  <2>5. ProvidersKnown
    BY <2>1 DEF BaseInv, ReferencesFollow
  <2>6. page.providers \subseteq server.providers
    BY <2>4, <2>5 DEF ProvidersKnown
  <2>7. page'.providers \subseteq server.providers \cup Removed' \cup Added'
    <3>1. CASE op.kind = "save-provider"
      <4>1. Runs(t, {"save-provider"})' /\ task'[t].op.id = op.id
        BY <1>1, <1>5, <3>1 DEF Runs
      <4>2. op.id \in Providers
        BY <3>1, ArgumentFacts DEF Registers, SavesProvider
      <4>3. op.id \in Added'
        BY <4>1, <4>2 DEF Added
      <4> QED
        BY <1>1, <2>6, <3>1, <4>3
    <3>2. CASE op.kind # "save-provider"
      BY <1>1, <2>6, <3>2
    <3> QED
      BY <3>1, <3>2
  <2>8. TaskKnows(t)'
    <3>1. Runs(t, Optimistic)' => task'[t].snap.providers \subseteq server'.providers
      <4>1. Runs(t, Optimistic)' => op.kind \in Optimistic
        BY <1>1 DEF Runs
      <4>2. op.kind \in Optimistic => Snapshot(op) = page
        BY SnapshotFacts
      <4> QED
        BY <1>1, <2>6, <4>1, <4>2
    <3>2. Available' /\ Runs(t, {"chat-default"})' => ProviderOf[task'[t].op.id] \in server'.providers
      <4> SUFFICES ASSUME Available', Runs(t, {"chat-default"})'
                   PROVE  ProviderOf[op.id] \in server.providers
        BY <1>1
      <4>1. op.kind = "chat-default"
        BY <1>1 DEF Runs
      <4>2. Unavailable(op) = {}
        BY <1>3 DEF Available, Unavailable
      <4> QED
        BY <2>6, <4>1, <4>2 DEF Unavailable
    <3>3. task'[t].stage \notin {"done", "stored", "checked"}
      BY <1>1
    <3> QED
      BY <3>1, <3>2, <3>3 DEF TaskKnows
  <2> QED
    BY <1>1, <1>3, <2>1, <2>4, <2>5, <2>7, <2>8, KnownAgain DEF ProvidersKnown
<1>13. SettingsTypeOK' /\ task' \in [Tasks -> AnyTask] /\ TasksFit'
  <2>1. /\ server' \in Settings /\ registry' \subseteq Providers /\ ops' \in 0..MaxOps
        /\ races' \subseteq Disturbances
    BY <1>1, <1>3, SettingsTypes, SettingsAssumption DEF Disturbances
  <2> QED
    BY <1>1, <2>1, TypesAfterOne
<1> QED
  BY <1>9, <1>10, <1>11, <1>12, <1>13 DEF BaseInv

LEMMA RunLatestFacts ==
    ASSUME BaseInv, NEW t \in Tasks, NEW kind \in Reads, RunLatest(t, kind)
    PROVE  /\ ~LiveTask(t) /\ races' = races \cup OverlapsOf([kind |-> kind])
           /\ UNCHANGED <<server, registry, page, cached>> /\ ops' \in 0..MaxOps
           /\ OthersKeptTask(t) /\ TasksAfter /\ \A u \in Tasks \ {t} : task'[u] = task[u]
           /\ task'[t] \in AnyTask /\ TaskFits(task'[t]) /\ task'[t].op.kind = kind /\ LiveTask(t)'
           /\ task'[t].stage = "sent" /\ task'[t].stale = FALSE /\ task'[t].crossed = FALSE
           /\ kind \in SelectorRead => ApplySettings(cached)
           /\ kind \notin SelectorRead => UNCHANGED <<menu, selected, chosenBy>>
           /\ menu' \in Settings /\ selected' \in Models \cup {NoValue} /\ chosenBy' \in Choosers
<1> DEFINE b == Reading(kind)
<1>1. /\ ~LiveTask(t) /\ task' = [task EXCEPT ![t] = b]
      /\ races' = races \cup OverlapsOf([kind |-> kind])
      /\ UNCHANGED <<server, registry, page, cached>>
      /\ kind \in SelectorRead => ApplySettings(cached)
      /\ kind \notin SelectorRead => UNCHANGED <<menu, selected, chosenBy>>
  BY DEF RunLatest
<1>7. ops' \in 0..MaxOps
  <2>1. ops' = ops \/ (ops < MaxOps /\ ops' = ops + 1)
    BY DEF RunLatest
  <2> QED
    BY <2>1, SettingsTypes, SettingsAssumption
<1>2. /\ b \in AnyTask /\ TaskFits(b) /\ b.op.kind = kind /\ b.stage = "sent" /\ b.stale = FALSE /\ b.crossed = FALSE
  BY ReadingFacts
<1> HIDE DEF b
<1>3. OthersKeptTask(t) /\ task'[t] = b /\ TasksAfter /\ \A u \in Tasks \ {t} : task'[u] = task[u]
  BY <1>1, OneTaskKeeps
<1>4. LiveTask(t)'
  BY <1>2, <1>3 DEF LiveTask
<1>5. /\ cached \in Settings /\ menu \in Settings /\ selected \in Models \cup {NoValue} /\ chosenBy \in Choosers
  BY SettingsTypes
<1>6. menu' \in Settings /\ selected' \in Models \cup {NoValue} /\ chosenBy' \in Choosers
  <2>1. CASE kind \in SelectorRead
    BY <1>1, <1>5, <2>1, Applied
  <2>2. CASE kind \notin SelectorRead
    BY <1>1, <1>5, <2>2
  <2> QED
    BY <2>1, <2>2
<1> QED
  BY <1>1, <1>2, <1>3, <1>4, <1>6, <1>7

LEMMA RunLatestKeepsBase ==
    ASSUME BaseInv, NEW t \in Tasks, NEW kind \in Reads, RunLatest(t, kind)
    PROVE  BaseInv'
<1>1. /\ ~LiveTask(t) /\ races' = races \cup OverlapsOf([kind |-> kind])
      /\ UNCHANGED <<server, registry, page, cached>> /\ ops' \in 0..MaxOps
      /\ OthersKeptTask(t) /\ TasksAfter /\ \A u \in Tasks \ {t} : task'[u] = task[u]
      /\ task'[t] \in AnyTask /\ TaskFits(task'[t]) /\ task'[t].op.kind = kind /\ LiveTask(t)'
      /\ task'[t].stage = "sent" /\ task'[t].stale = FALSE
      /\ menu' \in Settings /\ selected' \in Models \cup {NoValue} /\ chosenBy' \in Choosers
  BY RunLatestFacts
<1>2. kind \notin Mutations
  BY Kinds
<1>3. /\ races \subseteq races' /\ ("registry" \in races' => "registry" \in races)
      /\ races' \subseteq races \cup {"index", "default", "mutations"}
      /\ "index" \notin races' =>
             (kind = "settings-index-refresh" => \A u \in Tasks : ~Runs(u, Mutations))
  <2> DEFINE op == [kind |-> kind]
  <2>1. op.kind = kind /\ races' = races \cup OverlapsOf(op)
    BY <1>1
  <2> HIDE DEF op
  <2> QED
    BY <2>1, NoOverlap, OverlapsKnown
<1>4. task[t].stage = "idle" /\ ~Mutating(t)' /\ \A kinds : ~Runs(t, kinds)
  BY <1>1, <1>2 DEF LiveTask, Mutating, Runs
<1>5. RegistryFollows'
  BY <1>1, <1>3, <1>4, RegistryStays
<1>6. \A u \in Tasks : Mutating(u)' => u # t /\ Mutating(u) /\ task'[u].crossed = task[u].crossed
  BY <1>1, <1>4 DEF Mutating, Runs, LiveTask
<1>7. "index" \notin races' => \A u, v \in Tasks : Runs(u, {"settings-index-refresh"})' /\ Mutating(v)' =>
                                  Runs(u, {"settings-index-refresh"}) /\ Mutating(v)
  <2> SUFFICES ASSUME "index" \notin races', NEW u \in Tasks, NEW v \in Tasks,
                      Runs(u, {"settings-index-refresh"})', Mutating(v)'
               PROVE  Runs(u, {"settings-index-refresh"})
    BY <1>6
  <2>1. CASE u = t
    BY <1>1, <1>3, <1>6, <2>1 DEF Runs, Mutating
  <2>2. CASE u # t
    BY <1>1, <2>2 DEF Runs, LiveTask
  <2> QED
    BY <2>1, <2>2
<1>8. OneByOne'
  <2> SUFFICES ASSUME Orderly'
               PROVE  /\ "registry" \notin races'
                      /\ \A u, v \in Tasks : Mutating(u)' /\ Mutating(v)' => u = v
                      /\ \A u, v \in Tasks : Runs(u, {"settings-index-refresh"})' => ~Mutating(v)'
    BY DEF OneByOne
  <2>1. Orderly /\ "index" \notin races'
    BY <1>3, AlreadyOrderly DEF Orderly
  <2>2. /\ "registry" \notin races
        /\ \A u, v \in Tasks : Mutating(u) /\ Mutating(v) => u = v
        /\ \A u, v \in Tasks : Runs(u, {"settings-index-refresh"}) => ~Mutating(v)
    BY <2>1 DEF BaseInv, OneByOne
  <2> QED
    BY <1>3, <1>6, <1>7, <2>1, <2>2
<1>9. Met'
  BY <1>6 DEF BaseInv, Met
<1>10. ReferencesFollow'
  <2> SUFFICES ASSUME Orderly' PROVE NothingDangles' /\ ProvidersKnown'
    BY DEF ReferencesFollow
  <2>1. Orderly
    BY <1>3, AlreadyOrderly
  <2>2. Removed \subseteq Removed' /\ Added \subseteq Added'
    BY <1>1, <1>4, RemovedStays
  <2>3. ProvidersKnown
    BY <2>1 DEF BaseInv, ReferencesFollow
  <2>4. TaskKnows(t)'
    <3>1. ~Runs(t, {"chat-default"})'
      BY <1>1, <1>2 DEF Runs, Mutations
    <3>2. ~Runs(t, Optimistic)'
      BY <1>1, <1>2, Kinds DEF Runs
    <3> QED
      BY <1>1, <3>1, <3>2 DEF TaskKnows
  <2> QED
    BY <1>1, <1>3, <2>1, <2>2, <2>3, <2>4, KnownAgain DEF ProvidersKnown
<1>11. SettingsTypeOK' /\ task' \in [Tasks -> AnyTask] /\ TasksFit'
  <2>1. /\ server' \in Settings /\ registry' \subseteq Providers /\ page' \in Settings /\ cached' \in Settings
        /\ ops' \in 0..MaxOps /\ races' \subseteq Disturbances
    BY <1>1, <1>3, SettingsTypes DEF Disturbances
  <2> QED
    BY <1>1, <2>1, TypesAfterOne
<1> QED
  BY <1>5, <1>8, <1>9, <1>10, <1>11 DEF BaseInv

-----------------------------------------------------------------------------
(* The workspace's settings: the reads. *)

\* A task that only reads is no mutation.
LEMMA ReaderFacts ==
    ASSUME BaseInv, NEW t \in Tasks, Runs(t, Reads)
    PROVE  /\ LiveTask(t) /\ ~Mutating(t) /\ task[t].op.kind \in Reads /\ task[t].op.kind \notin Mutations
           /\ ~Runs(t, Mutations) /\ ~Runs(t, Optimistic) /\ ~Runs(t, SavesProvider) /\ ~Runs(t, ChangesChoices)
           /\ ~Runs(t, {"chat-default"}) /\ ~Runs(t, {"delete-provider"}) /\ ~Runs(t, {"save-provider"})
           /\ task[t].stage \in {"sent", "done", "applied"}
           /\ task[t].stage = "done" => task[t].got \in Settings
           /\ TaskFits(task[t])
<1>1. LiveTask(t) /\ task[t].op.kind \in Reads /\ task[t].op.kind \notin Mutations
  BY Kinds DEF Runs
<1>3. TaskFits(task[t])
  BY SettingsTypes
<1>4. /\ task[t].stage \in {"sent", "done", "applied"}
      /\ task[t].stage = "done" => task[t].got \in Settings
  BY <1>1, <1>3 DEF TaskFits, LiveTask
<1>5. /\ "chat-default" \in Mutations /\ "delete-provider" \in Mutations /\ "save-provider" \in Mutations
      /\ Optimistic \subseteq Mutations /\ SavesProvider \subseteq Mutations /\ ChangesChoices \subseteq Mutations
  BY Kinds DEF Mutations, Optimistic, Checked, Registers
<1> QED
  BY <1>1, <1>3, <1>4, <1>5 DEF Mutating, Runs

\* What the page shows is known, as the invariant says.
LEMMA PageKnown ==
    ASSUME BaseInv, Orderly
    PROVE  page.providers \subseteq server.providers \cup Removed \cup Added
BY DEF BaseInv, ReferencesFollow, ProvidersKnown

\* A step of a read, but for what it shows.
LEMMA ReadStepKeepsBase ==
    ASSUME BaseInv, NEW t \in Tasks, Runs(t, Reads), OthersKeptTask(t), TasksAfter,
           task'[t] \in AnyTask, TaskFits(task'[t]), task'[t].stage # "stored",
           ~LiveTask(t)' \/ task'[t].op = task[t].op,
           UNCHANGED <<server, registry>>, page' \in Settings, cached' \in Settings, menu' \in Settings,
           selected' \in Models \cup {NoValue}, chosenBy' \in Choosers, ops' \in 0..MaxOps,
           races \subseteq races', races' \subseteq races \cup {"read"},
           Orderly => page'.providers \subseteq server.providers \cup Removed \cup Added,
           LiveTask(t)' /\ task'[t].stage = "done" => task'[t].got = GetSettings
    PROVE  BaseInv'
<1>1. /\ LiveTask(t) /\ task[t].stage # "stored" /\ task[t].op.kind \in Reads /\ task[t].op.kind \notin Mutations
  BY ReaderFacts
<1>2. LiveTask(t)' => task'[t].op.kind \in Reads /\ task'[t].op.kind \notin Mutations
  BY <1>1
<1>3. ~Mutating(t)' /\ (Runs(t, {"settings-index-refresh"})' => Runs(t, {"settings-index-refresh"}))
  BY <1>1, <1>2 DEF Mutating, Runs
<1>4. ReferencesFollow'
  <2> SUFFICES ASSUME Orderly' PROVE NothingDangles' /\ ProvidersKnown'
    BY DEF ReferencesFollow
  <2>1. Orderly
    BY AlreadyOrderly
  <2>2. Removed \subseteq Removed' /\ Added \subseteq Added'
    BY ReaderFacts, RemovedStays
  <2>3. ProvidersKnown
    BY <2>1 DEF BaseInv, ReferencesFollow
  <2>4. TaskKnows(t)'
    <3>1. GetSettings.providers = registry
      BY SettingsTypes, GetFacts
    <3>2. Runs(t, PageReads)' /\ task'[t].stage = "done" => task'[t].got.providers \subseteq server'.providers \cup Removed'
      BY <2>2, <2>3, <3>1 DEF Runs, ProvidersKnown
    <3>3. ~Runs(t, Optimistic)' /\ ~Runs(t, SavesProvider)'
      BY <1>2, Kinds DEF Runs
    <3>4. ~Runs(t, {"chat-default"})' /\ ~Runs(t, {"delete-provider"})'
      BY <1>2 DEF Runs, Mutations, Checked, Registers
    <3> QED
      BY <3>2, <3>3, <3>4 DEF TaskKnows
  <2> QED
    BY <2>1, <2>2, <2>3, <2>4, KnownAgain DEF ProvidersKnown
<1>5. races' \subseteq Disturbances /\ ("registry" \in races' => "registry" \in races)
  BY SettingsTypes DEF Disturbances
<1> QED
  BY <1>1, <1>3, <1>4, <1>5, BaseAgain

LEMMA AnswerFacts ==
    ASSUME BaseInv, NEW t \in Tasks, Answer(t)
    PROVE  /\ Runs(t, Reads) /\ task[t].stage = "sent"
           /\ UNCHANGED <<server, registry, page, cached, menu, selected, chosenBy, ops, races>>
           /\ OthersKeptTask(t) /\ TasksAfter /\ \A u \in Tasks \ {t} : task'[u] = task[u]
           /\ LiveTask(t)' /\ task'[t] \in AnyTask /\ TaskFits(task'[t])
           /\ task'[t].op = task[t].op /\ task'[t].stage = "done" /\ task'[t].got = GetSettings
           /\ task'[t].stale = task[t].stale /\ task'[t].crossed = task[t].crossed
<1>1. /\ Runs(t, Reads) /\ task[t].stage = "sent"
      /\ task' = [task EXCEPT ![t].stage = "done", ![t].got = GetSettings]
      /\ UNCHANGED <<server, registry, page, cached, menu, selected, chosenBy, ops, races>>
  BY DEF Answer, shownVars, selectorVars
<1>2. /\ LiveTask(t) /\ task[t].op.kind \in Reads /\ task[t].op.kind \notin Mutations /\ TaskFits(task[t])
  BY <1>1, ReaderFacts
<1>3. GetSettings \in Settings
  BY SettingsTypes, GetFacts
<1>4. /\ OthersKeptTask(t) /\ TasksAfter /\ \A u \in Tasks \ {t} : task'[u] = task[u]
      /\ LiveTask(t)' /\ task'[t] \in AnyTask
      /\ task'[t].op = task[t].op /\ task'[t].stage = "done" /\ task'[t].got = GetSettings
      /\ task'[t].stale = task[t].stale /\ task'[t].crossed = task[t].crossed
  <2> DEFINE g == GetSettings
             b == [task[t] EXCEPT !.stage = "done", !.got = g]
  <2>1. task' = [task EXCEPT ![t] = b]
    BY <1>1, SettingsTypes
  <2>2. task[t] \in AnyTask /\ "done" \in Stages /\ g \in {NoValue} \cup Settings \cup (SUBSET Providers)
    BY <1>3, SettingsTypes DEF Stages
  <2> HIDE DEF g
  <2>3. /\ b \in AnyTask /\ b.op = task[t].op /\ b.stage = "done"
        /\ b.got = g /\ b.stale = task[t].stale /\ b.crossed = task[t].crossed
    BY ONLY <2>2 DEF AnyTask
  <2> HIDE DEF b
  <2>4. OthersKeptTask(t) /\ TasksAfter /\ task'[t] = b /\ \A u \in Tasks \ {t} : task'[u] = task[u]
    BY <2>1, OneTaskKeeps
  <2> QED
    BY <2>3, <2>4 DEF LiveTask, g
<1>5. TaskFits(task'[t])
  BY <1>2, <1>3, <1>4, Kinds DEF TaskFits, LiveTask
<1> QED
  BY <1>1, <1>4, <1>5

LEMMA AnswerKeepsBase ==
    ASSUME BaseInv, NEW t \in Tasks, Answer(t)
    PROVE  BaseInv'
<1>1. /\ Runs(t, Reads)
      /\ UNCHANGED <<server, registry, page, cached, menu, selected, chosenBy, ops, races>>
      /\ OthersKeptTask(t) /\ TasksAfter
      /\ task'[t] \in AnyTask /\ TaskFits(task'[t])
      /\ task'[t].op = task[t].op /\ task'[t].stage = "done" /\ task'[t].got = GetSettings
  BY AnswerFacts
<1>2. /\ page' \in Settings /\ cached' \in Settings /\ menu' \in Settings
      /\ selected' \in Models \cup {NoValue} /\ chosenBy' \in Choosers /\ ops' \in 0..MaxOps
      /\ Orderly => page'.providers \subseteq server.providers \cup Removed \cup Added
  BY <1>1, SettingsTypes, PageKnown
<1> QED
  BY <1>1, <1>2, ReadStepKeepsBase

\* A refresh of the page: what it has read is shown and cached.
LEMMA ApplyPayloadFacts ==
    ASSUME BaseInv, NEW t \in Tasks, ApplySettingsPayload(t)
    PROVE  /\ Runs(t, PageReads) /\ Runs(t, Reads) /\ task[t].stage = "done" /\ ~task[t].stale
           /\ task[t].got \in Settings /\ page' = task[t].got /\ cached' = task[t].got
           /\ UNCHANGED <<server, registry, menu, selected, chosenBy, ops, races>>
           /\ OthersKeptTask(t) /\ TasksAfter /\ task'[t] \in AnyTask /\ TaskFits(task'[t])
           /\ \/ /\ task[t].op.kind = "settings-refresh" /\ LiveTask(t)' /\ task'[t].op = task[t].op
                 /\ task'[t].stage = "applied"
              \/ task[t].op.kind # "settings-refresh" /\ ~LiveTask(t)' /\ task'[t].stage = "idle"
           /\ \A u \in Tasks \ {t} : /\ task'[u].stale = task[u].stale
                                     /\ Runs(u, SelectorRead) => task'[u].crossed = TRUE
                                     /\ ~Runs(u, SelectorRead) => task'[u].crossed = task[u].crossed
<1> DEFINE S == Supersede({}, SelectorRead)
           a == S[t]
           c == [a EXCEPT !.stage = "applied", !.got = NoValue]
           b == IF a.op.kind = "settings-refresh" THEN c ELSE IdleTask
<1>1. /\ Runs(t, PageReads) /\ task[t].stage = "done" /\ ~task[t].stale
      /\ page' = task[t].got /\ cached' = task[t].got
      /\ UNCHANGED <<server, registry, menu, selected, chosenBy, ops, races>>
  BY DEF ApplySettingsPayload
<1>2. Runs(t, Reads) /\ LiveTask(t)
  BY <1>1, Kinds DEF Runs
<1>3. TaskFits(task[t]) /\ task[t].got \in Settings
  BY <1>1, <1>2, ReaderFacts
<1>4. /\ S \in [Tasks -> AnyTask]
      /\ \A u \in Tasks :
           /\ S[u] = task[u] \/ (LiveTask(u) /\ \E k, x \in BOOLEAN :
                        S[u] = [task[u] EXCEPT !.stale = @ \/ k, !.crossed = @ \/ x])
           /\ Runs(u, {}) => S[u].stale = TRUE
           /\ Runs(u, SelectorRead) => S[u].crossed = TRUE
           /\ ~Runs(u, {}) => S[u].stale = task[u].stale
           /\ ~Runs(u, SelectorRead) => S[u].crossed = task[u].crossed
  BY SupersedeKeeps
<1>5. task' = [S EXCEPT ![t] = b]
  BY <1>4 DEF ApplySettingsPayload
<1>6. a \in AnyTask /\ a.op = task[t].op
  <2> DEFINE d == task[t]
  <2>1. d \in AnyTask
    BY SettingsTypes
  <2>2. a = d \/ (\E k, x \in BOOLEAN : a = [d EXCEPT !.stale = d.stale \/ k, !.crossed = d.crossed \/ x])
    BY <1>4
  <2> HIDE DEF a, d, S
  <2>3. a.op = d.op
    BY ONLY <2>1, <2>2 DEF AnyTask
  <2> QED
    BY <1>4, <2>3 DEF a, d
<1> HIDE DEF a, S
<1>7. c \in AnyTask /\ c.op = a.op /\ c.stage = "applied"
  <2>1. "applied" \in Stages /\ NoValue \in {NoValue} \cup Settings \cup (SUBSET Providers)
    BY DEF Stages
  <2> QED
    BY ONLY <1>6, <2>1 DEF AnyTask
<1> HIDE DEF c
<1>8. b \in AnyTask /\ TaskFits(b)
  <2>1. CASE a.op.kind = "settings-refresh"
    <3>1. b = c /\ c.op = task[t].op
      BY <1>6, <1>7, <2>1
    <3>2. "settings-refresh" \in Reads /\ "settings-refresh" \notin Mutations
      BY Kinds
    <3>3. c.op \in Offers \cup ReadOps /\ c.op.kind \in Reads /\ c.op.kind \notin Mutations
      BY <1>2, <1>3, <1>6, <2>1, <3>1, <3>2 DEF TaskFits, LiveTask
    <3>4. TaskFits(c)
      BY <1>6, <1>7, <2>1, <3>3 DEF TaskFits
    <3> QED
      BY <1>7, <3>1, <3>4
  <2>2. CASE a.op.kind # "settings-refresh"
    BY <2>2, IdleFits
  <2> QED
    BY <2>1, <2>2
<1>9. \/ task[t].op.kind = "settings-refresh" /\ b.op = task[t].op /\ b.stage = "applied"
      \/ task[t].op.kind # "settings-refresh" /\ b.stage = "idle"
  BY <1>6, <1>7, IdleFits
<1> HIDE DEF b
<1>10. /\ OthersKeptTask(t) /\ task'[t] = b /\ TasksAfter
       /\ \A u \in Tasks \ {t} : /\ Runs(u, {}) => task'[u].stale = TRUE
                                 /\ Runs(u, SelectorRead) => task'[u].crossed = TRUE
                                 /\ ~Runs(u, {}) => task'[u].stale = task[u].stale
                                 /\ ~Runs(u, SelectorRead) => task'[u].crossed = task[u].crossed
  <2>1. Superseding(t, {}, SelectorRead, b)
    BY <1>5 DEF Superseding, S
  <2> QED
    BY ONLY BaseInv, t \in Tasks, <2>1, SupersedingStep
<1>11. \A u \in Tasks : ~Runs(u, {})
  BY DEF Runs
<1> QED
  BY <1>1, <1>2, <1>3, <1>8, <1>9, <1>10, <1>11 DEF LiveTask

LEMMA ApplyPayloadKeepsBase ==
    ASSUME BaseInv, NEW t \in Tasks, ApplySettingsPayload(t)
    PROVE  BaseInv'
<1>1. /\ Runs(t, PageReads) /\ Runs(t, Reads) /\ task[t].stage = "done" /\ ~task[t].stale
      /\ task[t].got \in Settings /\ page' = task[t].got /\ cached' = task[t].got
      /\ UNCHANGED <<server, registry, menu, selected, chosenBy, ops, races>>
      /\ OthersKeptTask(t) /\ TasksAfter /\ task'[t] \in AnyTask /\ TaskFits(task'[t])
      /\ ~LiveTask(t)' \/ task'[t].op = task[t].op
      /\ task'[t].stage \in {"idle", "applied"}
  BY ApplyPayloadFacts
<1>2. Orderly => page'.providers \subseteq server.providers \cup Removed \cup Added
  <2> SUFFICES ASSUME Orderly PROVE page'.providers \subseteq server.providers \cup Removed \cup Added
    OBVIOUS
  <2>1. TaskKnows(t)
    BY DEF BaseInv, ReferencesFollow, ProvidersKnown
  <2> QED
    BY <1>1, <2>1 DEF TaskKnows
<1>3. /\ page' \in Settings /\ cached' \in Settings /\ menu' \in Settings
      /\ selected' \in Models \cup {NoValue} /\ chosenBy' \in Choosers /\ ops' \in 0..MaxOps
  BY <1>1, SettingsTypes
<1>4. task'[t].stage # "stored" /\ task'[t].stage # "done"
  BY <1>1
<1>5. Runs(t, Reads) /\ OthersKeptTask(t) /\ TasksAfter /\ UNCHANGED <<server, registry>> /\ races' = races
  BY <1>1
<1>6. task'[t] \in AnyTask /\ TaskFits(task'[t])
  BY <1>1
<1>7. ~LiveTask(t)' \/ task'[t].op = task[t].op
  BY <1>1
<1> QED
  BY ONLY BaseInv, t \in Tasks, <1>2, <1>3, <1>4, <1>5, <1>6, <1>7, ReadStepKeepsBase

LEMMA PrepareSelectorFacts ==
    ASSUME BaseInv, NEW t \in Tasks, PrepareSelector(t)
    PROVE  /\ Runs(t, Reads) /\ LiveTask(t) /\ task[t].stage = "applied" /\ task[t].op.kind = "settings-refresh"
           /\ UNCHANGED <<server, registry, page, ops, races>>
           /\ cached' = page /\ ApplySettings(page)
           /\ OthersKeptTask(t) /\ task'[t] = IdleTask /\ TasksAfter
           /\ \A u \in Tasks \ {t} : /\ Runs(u, SelectorRead) => task'[u].stale = TRUE /\ task'[u].crossed = TRUE
                                     /\ ~Runs(u, SelectorRead) => /\ task'[u].stale = task[u].stale
                                                                  /\ task'[u].crossed = task[u].crossed
<1>1. /\ LiveTask(t) /\ task[t].stage = "applied" /\ cached' = page /\ ApplySettings(page)
      /\ UNCHANGED <<server, registry, page, ops, races>>
      /\ Superseding(t, SelectorRead, SelectorRead, IdleTask)
  BY DEF PrepareSelector, Superseding
<1>2. task[t].op.kind = "settings-refresh"
  BY <1>1, SettingsTypes DEF TaskFits
<1>3. Runs(t, Reads)
  BY <1>1, <1>2, Kinds DEF Runs
<1> DEFINE b == IdleTask
<1> HIDE DEF b
<1>4. /\ OthersKeptTask(t) /\ task'[t] = b /\ TasksAfter
      /\ \A u \in Tasks \ {t} : /\ Runs(u, SelectorRead) => task'[u].stale = TRUE
                                /\ Runs(u, SelectorRead) => task'[u].crossed = TRUE
                                /\ ~Runs(u, SelectorRead) => task'[u].stale = task[u].stale
                                /\ ~Runs(u, SelectorRead) => task'[u].crossed = task[u].crossed
  <2>1. Superseding(t, SelectorRead, SelectorRead, b)
    BY <1>1 DEF b
  <2> QED
    BY ONLY BaseInv, t \in Tasks, <2>1, SupersedingStep
<1> QED
  BY <1>1, <1>2, <1>3, <1>4 DEF b

LEMMA PrepareSelectorKeepsBase ==
    ASSUME BaseInv, NEW t \in Tasks, PrepareSelector(t)
    PROVE  BaseInv'
<1>1. /\ Runs(t, Reads) /\ UNCHANGED <<server, registry, page, ops, races>>
      /\ cached' = page /\ ApplySettings(page)
      /\ OthersKeptTask(t) /\ task'[t] = IdleTask /\ TasksAfter
  BY PrepareSelectorFacts
<1>2. page \in Settings /\ selected \in Models \cup {NoValue} /\ chosenBy \in Choosers /\ ops \in 0..MaxOps
  BY SettingsTypes
<1>3. /\ menu' \in Settings /\ selected' \in Models \cup {NoValue} /\ chosenBy' \in Choosers
  BY <1>1, <1>2, Applied
<1>4. /\ task'[t] \in AnyTask /\ TaskFits(task'[t]) /\ task'[t].stage = "idle" /\ ~LiveTask(t)'
  BY <1>1, IdleKeeps
<1>5. Orderly => page'.providers \subseteq server.providers \cup Removed \cup Added
  BY <1>1, PageKnown
<1> QED
  BY <1>1, <1>2, <1>3, <1>4, <1>5, ReadStepKeepsBase

LEMMA ApplyToSelectorFacts ==
    ASSUME BaseInv, NEW t \in Tasks, ApplyToSelector(t)
    PROVE  /\ Runs(t, Reads) /\ Runs(t, SelectorRead) /\ task[t].stage = "done" /\ ~task[t].stale
           /\ task[t].got \in Settings /\ ApplySettings(task[t].got)
           /\ cached' = (IF task[t].crossed THEN cached ELSE task[t].got)
           /\ UNCHANGED <<server, registry, page, ops, races>>
           /\ OthersKeptTask(t) /\ task'[t] = IdleTask /\ TasksAfter
           /\ \A u \in Tasks \ {t} : task'[u] = task[u]
<1> DEFINE b == IdleTask
<1>1. /\ Runs(t, SelectorRead) /\ task[t].stage = "done" /\ ~task[t].stale
      /\ task' = [task EXCEPT ![t] = b] /\ LoadStores(t) /\ ApplySettings(task[t].got)
      /\ UNCHANGED <<server, registry, page, ops, races>>
  BY DEF ApplyToSelector
<1>2. Runs(t, Reads)
  BY <1>1, Kinds DEF Runs
<1>3. task[t].got \in Settings
  BY <1>1, <1>2, ReaderFacts
<1>4. cached' = (IF task[t].crossed THEN cached ELSE task[t].got)
  BY <1>1 DEF LoadStores
<1>5. OthersKeptTask(t) /\ task'[t] = b /\ TasksAfter /\ \A u \in Tasks \ {t} : task'[u] = task[u]
  <2> HIDE DEF b
  <2> QED
    BY <1>1, OneTaskKeeps
<1> QED
  BY <1>1, <1>2, <1>3, <1>4, <1>5

LEMMA ApplyToSelectorKeepsBase ==
    ASSUME BaseInv, NEW t \in Tasks, ApplyToSelector(t)
    PROVE  BaseInv'
<1>1. /\ Runs(t, Reads) /\ UNCHANGED <<server, registry, page, ops, races>>
      /\ task[t].got \in Settings /\ ApplySettings(task[t].got)
      /\ cached' = (IF task[t].crossed THEN cached ELSE task[t].got)
      /\ OthersKeptTask(t) /\ task'[t] = IdleTask /\ TasksAfter
  BY ApplyToSelectorFacts
<1>2. /\ page \in Settings /\ cached \in Settings
      /\ selected \in Models \cup {NoValue} /\ chosenBy \in Choosers /\ ops \in 0..MaxOps
  BY SettingsTypes
<1>3. /\ menu' \in Settings /\ selected' \in Models \cup {NoValue} /\ chosenBy' \in Choosers
  <2> DEFINE g == task[t].got
  <2>1. g \in Settings /\ ApplySettings(g)
    BY <1>1
  <2> HIDE DEF g
  <2> QED
    BY <1>2, <2>1, Applied
<1>4. /\ task'[t] \in AnyTask /\ TaskFits(task'[t]) /\ task'[t].stage = "idle" /\ ~LiveTask(t)'
  BY <1>1, IdleKeeps
<1>5. Orderly => page'.providers \subseteq server.providers \cup Removed \cup Added
  BY <1>1, PageKnown
<1>6. cached' \in Settings
  BY <1>1, <1>2
<1> QED
  BY <1>1, <1>2, <1>3, <1>4, <1>5, <1>6, ReadStepKeepsBase

LEMMA DropStaleFacts ==
    ASSUME BaseInv, NEW t \in Tasks, DropStale(t)
    PROVE  /\ Runs(t, Reads) /\ task[t].stage = "done" /\ task[t].stale
           /\ task[t].got \in Settings
           /\ cached' = (IF Runs(t, SelectorRead) /\ ~task[t].crossed THEN task[t].got ELSE cached)
           /\ UNCHANGED <<server, registry, page, menu, selected, chosenBy, ops, races>>
           /\ OthersKeptTask(t) /\ task'[t] = IdleTask /\ TasksAfter
           /\ \A u \in Tasks \ {t} : task'[u] = task[u]
<1> DEFINE b == IdleTask
<1>1. /\ Runs(t, Reads) /\ task[t].stage = "done" /\ task[t].stale
      /\ task' = [task EXCEPT ![t] = b] /\ LoadStores(t)
      /\ UNCHANGED <<server, registry, page, menu, selected, chosenBy, ops, races>>
  BY DEF DropStale
<1>3. task[t].got \in Settings
  BY <1>1, ReaderFacts
<1>4. cached' = (IF Runs(t, SelectorRead) /\ ~task[t].crossed THEN task[t].got ELSE cached)
  BY <1>1 DEF LoadStores
<1>5. OthersKeptTask(t) /\ task'[t] = b /\ TasksAfter /\ \A u \in Tasks \ {t} : task'[u] = task[u]
  <2> HIDE DEF b
  <2> QED
    BY <1>1, OneTaskKeeps
<1> QED
  BY <1>1, <1>3, <1>4, <1>5

LEMMA ReadFailsFacts ==
    ASSUME BaseInv, NEW t \in Tasks, ReadFails(t)
    PROVE  /\ Runs(t, Reads) /\ races' = races \cup {"read"} /\ ops' \in 0..MaxOps
           /\ UNCHANGED <<server, registry, page, cached, menu, selected, chosenBy>>
           /\ OthersKeptTask(t) /\ task'[t] = IdleTask /\ TasksAfter
<1> DEFINE b == IdleTask
<1>1. /\ Runs(t, Reads) /\ ops < MaxOps /\ ops' = ops + 1 /\ races' = races \cup {"read"}
      /\ task' = [task EXCEPT ![t] = b]
      /\ UNCHANGED <<server, registry, page, cached, menu, selected, chosenBy>>
  BY DEF ReadFails, shownVars, selectorVars
<1>2. ops' \in 0..MaxOps
  BY <1>1, SettingsTypes, SettingsAssumption
<1>3. OthersKeptTask(t) /\ task'[t] = b /\ TasksAfter
  <2> HIDE DEF b
  <2> QED
    BY <1>1, OneTaskKeeps
<1> QED
  BY <1>1, <1>2, <1>3

LEMMA ReadEndsKeepsBase ==
    ASSUME BaseInv, NEW t \in Tasks, DropStale(t) \/ ReadFails(t)
    PROVE  BaseInv'
<1>1. /\ Runs(t, Reads) /\ races \subseteq races' /\ races' \subseteq races \cup {"read"} /\ ops' \in 0..MaxOps
      /\ UNCHANGED <<server, registry, page, menu, selected, chosenBy>>
      /\ cached' \in {cached, task[t].got} /\ (cached' = cached \/ task[t].got \in Settings)
      /\ OthersKeptTask(t) /\ task'[t] = IdleTask /\ TasksAfter
  <2>1. CASE DropStale(t)
    BY <2>1, DropStaleFacts, SettingsTypes
  <2>2. CASE ReadFails(t)
    BY <2>2, ReadFailsFacts
  <2> QED
    BY <2>1, <2>2
<1>2. /\ page' \in Settings /\ cached' \in Settings /\ menu' \in Settings
      /\ selected' \in Models \cup {NoValue} /\ chosenBy' \in Choosers
  BY <1>1, SettingsTypes
<1>4. /\ task'[t] \in AnyTask /\ TaskFits(task'[t]) /\ task'[t].stage = "idle" /\ ~LiveTask(t)'
  BY <1>1, IdleKeeps
<1>5. Orderly => page'.providers \subseteq server.providers \cup Removed \cup Added
  BY <1>1, PageKnown
<1> QED
  BY <1>1, <1>2, <1>4, <1>5, ReadStepKeepsBase

-----------------------------------------------------------------------------
(* The workspace's settings: what the selector is given without an operation. *)

LEMMA FromCacheFacts ==
    ASSUME BaseInv, PrepareFromCache
    PROVE  /\ ApplySettings(cached) /\ races' = races \cup Outdated(cached)
           /\ UNCHANGED <<server, registry, page, cached, ops>>
           /\ AllKeptTask /\ TasksAfter
           /\ \A u \in Tasks : /\ Runs(u, SelectorRead) => task'[u].stale = TRUE
                               /\ ~Runs(u, SelectorRead) => task'[u].stale = task[u].stale
                               /\ task'[u].crossed = task[u].crossed
<1> DEFINE S == Supersede(SelectorRead, {})
<1>1. /\ ApplySettings(cached) /\ races' = races \cup Outdated(cached)
      /\ UNCHANGED <<server, registry, page, cached, ops>> /\ task' = S
  BY DEF PrepareFromCache
<1>2. /\ S \in [Tasks -> AnyTask]
      /\ \A u \in Tasks :
           /\ S[u] = task[u] \/ (LiveTask(u) /\ \E k, c \in BOOLEAN :
                        S[u] = [task[u] EXCEPT !.stale = @ \/ k, !.crossed = @ \/ c])
           /\ Runs(u, SelectorRead) => S[u].stale = TRUE
           /\ Runs(u, {}) => S[u].crossed = TRUE
           /\ ~Runs(u, SelectorRead) => S[u].stale = task[u].stale
           /\ ~Runs(u, {}) => S[u].crossed = task[u].crossed
  BY SupersedeKeeps
<1> HIDE DEF S
<1>3. AllKeptTask /\ TasksAfter
  BY <1>1, <1>2 DEF AllKeptTask, KeptTask, TasksAfter
<1>4. \A u \in Tasks : ~Runs(u, {})
  BY DEF Runs
<1> QED
  BY <1>1, <1>2, <1>3, <1>4

LEMMA SelectionFacts ==
    ASSUME BaseInv, ReleaseSelection \/ \E m \in Models : RestoreSelection(m)
    PROVE  /\ UNCHANGED <<server, registry, page, cached, menu, task, races>>
           /\ selected' \in Models \cup {NoValue} /\ chosenBy' \in {"chat", "closed"}
           /\ chosenBy' = "settings" => FALSE
           /\ ops' \in 0..MaxOps /\ AllKeptTask /\ TasksAfter
<1>1. UNCHANGED task
  BY DEF ReleaseSelection, RestoreSelection
<1>2. AllKeptTask /\ TasksAfter
  BY <1>1, SettingsTypes DEF AllKeptTask, KeptTask, TasksAfter
<1>3. /\ UNCHANGED <<server, registry, page, cached, menu, races>>
      /\ selected' \in Models \cup {NoValue} /\ chosenBy' \in {"chat", "closed"} /\ ops' \in 0..MaxOps
  BY SettingsTypes, SettingsAssumption DEF ReleaseSelection, RestoreSelection
<1> QED
  BY <1>1, <1>2, <1>3

LEMMA SelectorStepKeepsBase ==
    ASSUME BaseInv, PrepareFromCache \/ ReleaseSelection \/ \E m \in Models : RestoreSelection(m)
    PROVE  BaseInv'
<1>1. CASE PrepareFromCache
  <2>1. /\ ApplySettings(cached) /\ races' = races \cup Outdated(cached)
        /\ UNCHANGED <<server, registry, page, cached, ops>> /\ AllKeptTask /\ TasksAfter
    BY <1>1, FromCacheFacts
  <2>2. cached \in Settings /\ selected \in Models \cup {NoValue} /\ chosenBy \in Choosers /\ ops \in 0..MaxOps
    BY SettingsTypes
  <2>3. /\ menu' \in Settings /\ selected' \in Models \cup {NoValue} /\ chosenBy' \in Choosers
    BY <2>1, <2>2, Applied
  <2>4. races \subseteq races' /\ races' \subseteq Disturbances /\ ("registry" \in races' => "registry" \in races)
    BY <2>1, SettingsTypes DEF Outdated, Disturbances
  <2> QED
    BY <2>1, <2>2, <2>3, <2>4, BaseOfAll
<1>2. CASE ReleaseSelection \/ \E m \in Models : RestoreSelection(m)
  <2>1. /\ UNCHANGED <<server, registry, page, cached, menu, races>>
        /\ selected' \in Models \cup {NoValue} /\ chosenBy' \in {"chat", "closed"}
        /\ ops' \in 0..MaxOps /\ AllKeptTask /\ TasksAfter
    BY <1>2, SelectionFacts
  <2>2. /\ cached' \in Settings /\ menu' \in Settings /\ chosenBy' \in Choosers /\ races' \subseteq Disturbances
    BY <2>1, SettingsTypes DEF Choosers
  <2> QED
    BY <2>1, <2>2, BaseOfAll
<1> QED
  BY <1>1, <1>2

-----------------------------------------------------------------------------
(* The workspace's settings: the answer to a mutation. *)

\* What the choice of a default leaves in the cache and the selector.
LEMMA ChoiceFacts ==
    ASSUME menu \in Settings, selected \in Models \cup {NoValue}, chosenBy \in Choosers, CacheChoice
    PROVE  /\ cached' \in Settings /\ cached'.providers = menu.providers /\ cached'.models = menu.models
           /\ menu' \in Settings /\ selected' \in Models \cup {NoValue} /\ chosenBy' \in Choosers
           /\ menu' = cached'
<1> DEFINE s == [menu EXCEPT !.default = NoValue]
<1>1. s \in Settings /\ s.providers = menu.providers /\ s.models = menu.models
  BY DEF Settings
<1>2. cached' = s /\ ApplySettings(s)
  BY DEF CacheChoice
<1> HIDE DEF s
<1> QED
  BY <1>1, <1>2, Applied

\* What each commit supersedes and crosses.
CommitCrosses(op) == IF CommitStores(op) THEN SelectorRead ELSE {}
LEMMA CommitFacts ==
    ASSUME BaseInv, NEW t \in Tasks, Commit(t)
    PROVE  /\ Runs(t, Mutations) /\ LiveTask(t) /\ task[t].stage = "done" /\ Mutating(t)
           /\ task[t].op \in Offers /\ task[t].op.kind \in Mutations
           /\ UNCHANGED <<server, registry, ops, races>>
           /\ OthersKeptTask(t) /\ TasksAfter /\ task'[t] \in AnyTask /\ TaskFits(task'[t])
           /\ task'[t].op.kind = ReconcileKind(task[t].op) /\ task'[t].stage = "sent" /\ task'[t].stale = FALSE
           /\ \A u \in Tasks \ {t} :
                 /\ Runs(u, CommitSupersedes(task[t].op)) => task'[u].stale = TRUE
                 /\ Runs(u, CommitCrosses(task[t].op)) => task'[u].crossed = TRUE
                 /\ ~Runs(u, CommitSupersedes(task[t].op)) => task'[u].stale = task[u].stale
                 /\ ~Runs(u, CommitCrosses(task[t].op)) => task'[u].crossed = task[u].crossed
           /\ \/ task[t].op.kind \in Projected \ {"chat-default"} /\ UNCHANGED <<page, cached, menu, selected, chosenBy>>
              \/ task[t].op.kind = "chat-default" /\ CacheChoice /\ UNCHANGED page
              \/ task[t].op.kind \notin Projected /\ UpdateSettings(Effect(task[t].op, page))
<1> DEFINE op == task[t].op
           k == ReconcileKind(op)
           b == Reading(k)
           S == CommitSupersedes(op)
           C == CommitCrosses(op)
<1>1. /\ Runs(t, Mutations) /\ LiveTask(t) /\ task[t].stage = "done" /\ Mutating(t)
      /\ op \in Offers /\ op.kind \in Mutations /\ UNCHANGED <<server, registry, ops, races>>
  BY LiveFacts DEF Commit, Runs
<1>2. k \in Reads
  BY Kinds DEF ReconcileKind
<1>3. \/ op.kind \in Projected \ {"chat-default"} /\ UNCHANGED <<page, cached, menu, selected, chosenBy>>
      \/ op.kind = "chat-default" /\ CacheChoice /\ UNCHANGED page
      \/ op.kind \notin Projected /\ UpdateSettings(Effect(op, page))
  BY DEF Commit, shownVars, selectorVars
<1>4. Superseding(t, S, C, b)
  BY DEF Commit, Superseding, CommitCrosses
<1>5. /\ b \in AnyTask /\ TaskFits(b) /\ b.op.kind = k /\ b.stage = "sent" /\ b.stale = FALSE
  <2>1. b = Reading(k)
    OBVIOUS
  <2> HIDE DEF b, k
  <2> QED
    BY <1>2, <2>1, ReadingFacts
<1>6. /\ OthersKeptTask(t) /\ task'[t] = b /\ TasksAfter
      /\ \A u \in Tasks \ {t} : /\ Runs(u, S) => task'[u].stale = TRUE
                                /\ Runs(u, C) => task'[u].crossed = TRUE
                                /\ ~Runs(u, S) => task'[u].stale = task[u].stale
                                /\ ~Runs(u, C) => task'[u].crossed = task[u].crossed
  <2> HIDE DEF b, S, C
  <2> QED
    BY ONLY BaseInv, t \in Tasks, <1>4, SupersedingStep
<1> HIDE DEF b
<1> QED
  BY <1>1, <1>3, <1>5, <1>6

\* What it leaves of the page.
LEMMA CommitPage ==
    ASSUME BaseInv, NEW t \in Tasks, Commit(t)
    PROVE  /\ page' \in Settings /\ cached' \in Settings /\ menu' \in Settings
           /\ selected' \in Models \cup {NoValue} /\ chosenBy' \in Choosers
           /\ page'.providers = IF task[t].op.kind \in SavesProvider THEN page.providers \cup {task[t].op.id}
                                ELSE IF task[t].op.kind = "delete-provider" THEN page.providers \ {task[t].op.id}
                                ELSE page.providers
<1> DEFINE op == task[t].op
<1>1. /\ op \in Offers
      /\ \/ op.kind \in Projected \ {"chat-default"} /\ UNCHANGED <<page, cached, menu, selected, chosenBy>>
         \/ op.kind = "chat-default" /\ CacheChoice /\ UNCHANGED page
         \/ op.kind \notin Projected /\ UpdateSettings(Effect(op, page))
  BY CommitFacts
<1>2. /\ page \in Settings /\ cached \in Settings /\ menu \in Settings
      /\ selected \in Models \cup {NoValue} /\ chosenBy \in Choosers
  BY SettingsTypes
<1>3. op.kind \in Projected => op.kind \notin SavesProvider /\ op.kind # "delete-provider"
  BY DEF Projected, OptimisticIndex, SavesProvider
<1>4. CASE op.kind \in Projected \ {"chat-default"}
  <2>1. UNCHANGED <<page, cached, menu, selected, chosenBy>>
    BY <1>1, <1>4
  <2> QED
    BY <1>2, <1>3, <1>4, <2>1
<1>5. CASE op.kind = "chat-default"
  <2>1. op.kind \in Projected
    BY <1>5 DEF Projected
  <2>2. CacheChoice /\ UNCHANGED page
    BY <1>1, <1>5, <2>1
  <2> QED
    BY <1>2, <1>3, <2>1, <2>2, ChoiceFacts
<1>6. CASE op.kind \notin Projected
  <2> DEFINE e == Effect(op, page)
             o == op
  <2>1. /\ page' = e /\ cached' = e /\ ApplySettings(e)
    BY <1>1, <1>6 DEF UpdateSettings, Projected
  <2>2. e = Effect(o, page) /\ o \in Offers
    BY <1>1
  <2> HIDE DEF e, o
  <2>3. /\ e \in Settings
        /\ e.providers = IF o.kind \in SavesProvider THEN page.providers \cup {o.id}
                         ELSE IF o.kind = "delete-provider" THEN page.providers \ {o.id} ELSE page.providers
    BY <1>2, <2>2, EffectFacts
  <2>4. menu' \in Settings /\ selected' \in Models \cup {NoValue} /\ chosenBy' \in Choosers
    BY <1>2, <2>1, <2>3, Applied
  <2> QED
    BY <2>1, <2>3, <2>4 DEF o
<1> QED
  BY <1>4, <1>5, <1>6

LEMMA CommitKeepsBase ==
    ASSUME BaseInv, NEW t \in Tasks, Commit(t)
    PROVE  BaseInv'
<1> DEFINE op == task[t].op
<1>1. /\ Runs(t, Mutations) /\ LiveTask(t) /\ task[t].stage = "done" /\ Mutating(t)
      /\ op.kind \in Mutations /\ op.kind \notin Reads
      /\ UNCHANGED <<server, registry, ops, races>>
  BY Kinds, CommitFacts
<1>2. /\ OthersKeptTask(t) /\ TasksAfter /\ task'[t] \in AnyTask /\ TaskFits(task'[t])
      /\ task'[t].op.kind = ReconcileKind(op) /\ task'[t].stage = "sent" /\ task'[t].stale = FALSE
      /\ \A u \in Tasks \ {t} : Runs(u, CommitSupersedes(op)) => task'[u].stale = TRUE
  BY CommitFacts
<1>3. /\ page' \in Settings /\ cached' \in Settings /\ menu' \in Settings
      /\ selected' \in Models \cup {NoValue} /\ chosenBy' \in Choosers
      /\ page'.providers = IF op.kind \in SavesProvider THEN page.providers \cup {op.id}
                           ELSE IF op.kind = "delete-provider" THEN page.providers \ {op.id} ELSE page.providers
  BY CommitPage
<1>4. /\ task'[t].op.kind \in Reads /\ task'[t].op.kind \notin Mutations
      /\ task'[t].op.kind \in {"settings-refresh", "model-selector-settings"}
  BY <1>2, Kinds DEF ReconcileKind
<1>5. /\ ~Mutating(t)' /\ ~Runs(t, {"settings-index-refresh"})' /\ ~Runs(t, {"chat-default"})'
      /\ ~Runs(t, Optimistic)' /\ ~Runs(t, {"save-provider"})' /\ ~Runs(t, SavesProvider)'
      /\ ~Runs(t, {"delete-provider"})'
  BY <1>4, Kinds DEF Mutating, Runs, SavesProvider
<1>6. /\ "settings-refresh" \in CommitSupersedes(op) \/ op.kind = "chat-default"
  BY Kinds DEF CommitSupersedes, Projected, OptimisticIndex, ReconcileKind, Local, PageReads, Reads
<1>9. ReferencesFollow'
  <2> SUFFICES ASSUME Orderly' PROVE NothingDangles' /\ ProvidersKnown'
    BY DEF ReferencesFollow
  <2>1. Orderly
    BY <1>1, AlreadyOrderly
  <2>2. /\ \A u \in Tasks : Mutating(u) => u = t
        /\ \A u \in Tasks : ~Runs(u, {"settings-index-refresh"})
    BY <1>1, <2>1, AloneWhenOrderly
  <2>3. registry = server.providers
    BY <1>1, <2>1, <2>2, RegistryWhenAlone
  <2>4. ProvidersKnown /\ TaskKnows(t)
    BY <2>1 DEF BaseInv, ReferencesFollow, ProvidersKnown
  <2>5. /\ Removed \subseteq {op.id} /\ Added \subseteq {op.id}
        /\ op.kind # "delete-provider" => Removed = {}
        /\ op.kind # "save-provider" => Added = {}
    BY <1>1, <2>1, <2>2, OnlyMutation DEF Runs
  <2>6. \A u \in Tasks \ {t} : Runs(u, PageReads) /\ task[u].stage = "done" /\ ~task'[u].stale => Removed \subseteq Removed'
    <3> SUFFICES ASSUME NEW u \in Tasks \ {t}, Runs(u, PageReads), ~task'[u].stale PROVE Removed = {}
      OBVIOUS
    <3>1. Runs(u, {"settings-refresh"})
      BY <2>2, Kinds DEF Runs
    <3>2. "settings-refresh" \notin CommitSupersedes(op)
      BY <1>2, <3>1 DEF Runs
    <3> QED
      BY <1>6, <2>5, <3>2
  <2>7. page'.providers \subseteq server.providers
    <3>1. page.providers \subseteq server.providers \cup Removed \cup Added
      BY <2>4 DEF ProvidersKnown
    <3>2. CASE op.kind = "delete-provider"
      <4>1. page'.providers = page.providers \ {op.id}
        BY <1>3, <3>2 DEF SavesProvider
      <4> QED
        BY <2>5, <3>1, <3>2, <4>1
    <3>3. CASE op.kind \in SavesProvider
      <4>1. op.id \in server.providers
        BY <1>1, <2>4, <3>3 DEF TaskKnows, Runs
      <4>2. op.kind # "delete-provider"
        BY <3>3 DEF SavesProvider
      <4> QED
        BY <1>3, <2>5, <3>1, <3>3, <4>1, <4>2
    <3>4. CASE op.kind \notin SavesProvider /\ op.kind # "delete-provider"
      <4>1. Removed = {} /\ Added = {}
        BY <2>5, <3>4 DEF SavesProvider
      <4> QED
        BY <1>3, <3>1, <3>4, <4>1
    <3> QED
      BY <3>2, <3>3, <3>4
  <2>8. TaskKnows(t)'
    BY <1>2, <1>5 DEF TaskKnows
  <2> QED
    BY <1>1, <1>2, <2>1, <2>3, <2>6, <2>7, <2>8, KnownAgain
<1>11. /\ ops' \in 0..MaxOps /\ races' \subseteq Disturbances /\ races' = races
  BY <1>1, SettingsTypes DEF Disturbances
<1> QED
  BY <1>1, <1>2, <1>3, <1>5, <1>9, <1>11, BaseAgain

\* What a rollback gives back.
LEMMA RestoredFacts ==
    ASSUME page \in Settings, NEW op, NEW snap \in Settings
    PROVE  /\ Restored(op, snap) \in Settings
           /\ Restored(op, snap).providers = IF op.kind = "workspace-timezone" THEN page.providers ELSE snap.providers
<1> DEFINE r == Restored(op, snap)
           z == snap.zone
<1>1. CASE op.kind = "workspace-timezone"
  <2>1. r = [page EXCEPT !.zone = z]
    BY <1>1 DEF Restored
  <2>2. z \in BOOLEAN
    BY DEF Settings
  <2> HIDE DEF r, z
  <2>3. r \in Settings /\ r.providers = page.providers
    BY <2>1, <2>2 DEF Settings
  <2> QED
    BY <1>1, <2>3 DEF r
<1>2. CASE op.kind # "workspace-timezone"
  BY <1>2 DEF Restored
<1> QED
  BY <1>1, <1>2

LEMMA RollbackFacts ==
    ASSUME BaseInv, NEW t \in Tasks, Rollback(t)
    PROVE  /\ Runs(t, Mutations) /\ LiveTask(t) /\ task[t].stage = "failed" /\ Mutating(t)
           /\ task[t].op.kind \in Mutations /\ task[t].op \in Offers
           /\ UNCHANGED <<server, registry, ops>>
           /\ task[t].op.kind \in Optimistic => task[t].snap \in Settings
           /\ task[t].op.kind = "chat-default" => task[t].snap \in Selections
           /\ OthersKeptTask(t) /\ task'[t] = IdleTask /\ TasksAfter
           /\ \/ /\ task[t].op.kind \in Optimistic
                 /\ UpdateSettings(Restored(task[t].op, task[t].snap))
                 /\ races' = races \cup Undone(t) \cup Outdated(Restored(task[t].op, task[t].snap))
                 /\ \A u \in Tasks \ {t} :
                       /\ Runs(u, Local) => task'[u].stale = TRUE
                       /\ Runs(u, SelectorRead) => task'[u].crossed = TRUE
                       /\ ~Runs(u, Local) => task'[u].stale = task[u].stale
                       /\ ~Runs(u, SelectorRead) => task'[u].crossed = task[u].crossed
              \/ /\ task[t].op.kind \notin Optimistic
                 /\ UNCHANGED <<page, cached, menu>> /\ \A u \in Tasks \ {t} : task'[u] = task[u]
                 /\ \/ /\ task[t].op.kind = "chat-default" /\ races' = races
                       /\ selected' = task[t].snap.model /\ chosenBy' = task[t].snap.chosenBy
                    \/ /\ task[t].op.kind # "chat-default" /\ UNCHANGED <<selected, chosenBy>>
                       /\ races' = races \cup (IF task[t].op.kind \in PutsOff THEN Undone(t) ELSE {})
<1> DEFINE op == task[t].op
           snap == task[t].snap
           b == IdleTask
<1>1. /\ Runs(t, Mutations) /\ LiveTask(t) /\ op.kind \in Mutations /\ TaskFits(task[t])
      /\ task[t].stage = "failed" /\ Mutating(t) /\ op \in Offers
      /\ UNCHANGED <<server, registry, ops>>
  BY SettingsTypes, LiveFacts DEF Rollback, Runs
<1>2. /\ op.kind \in Optimistic => snap \in Settings
      /\ op.kind = "chat-default" => snap \in Selections
  BY <1>1 DEF TaskFits, LiveTask
<1>4. CASE op.kind \in Optimistic
  <2>1. /\ UpdateSettings(Restored(op, snap)) /\ task' = [Supersede(Local, SelectorRead) EXCEPT ![t] = b]
        /\ races' = races \cup Undone(t) \cup Outdated(Restored(op, snap))
    BY <1>4, Kinds DEF Rollback
  <2> HIDE DEF b
  <2>2. Superseding(t, Local, SelectorRead, b)
    BY <2>1 DEF Superseding
  <2>3. /\ OthersKeptTask(t) /\ task'[t] = b /\ TasksAfter
        /\ \A u \in Tasks \ {t} : /\ Runs(u, Local) => task'[u].stale = TRUE
                                  /\ Runs(u, SelectorRead) => task'[u].crossed = TRUE
                                  /\ ~Runs(u, Local) => task'[u].stale = task[u].stale
                                  /\ ~Runs(u, SelectorRead) => task'[u].crossed = task[u].crossed
    BY ONLY BaseInv, t \in Tasks, <2>2, SupersedingStep
  <2> QED
    BY <1>1, <1>2, <1>4, <2>1, <2>3 DEF b
<1>5. CASE op.kind \notin Optimistic
  <2>1. /\ task' = [task EXCEPT ![t] = b] /\ UNCHANGED <<page, cached, menu>>
        /\ \/ /\ op.kind = "chat-default" /\ races' = races
              /\ selected' = snap.model /\ chosenBy' = snap.chosenBy
           \/ /\ op.kind # "chat-default" /\ UNCHANGED <<selected, chosenBy>>
              /\ races' = races \cup (IF op.kind \in PutsOff THEN Undone(t) ELSE {})
    BY <1>5 DEF Rollback, shownVars, selectorVars
  <2> HIDE DEF b
  <2>3. OthersKeptTask(t) /\ task'[t] = b /\ TasksAfter /\ \A u \in Tasks \ {t} : task'[u] = task[u]
    BY <2>1, OneTaskKeeps
  <2> QED
    BY <1>1, <1>2, <1>5, <2>1, <2>3 DEF b
<1> QED
  BY <1>4, <1>5

LEMMA RollbackPage ==
    ASSUME BaseInv, NEW t \in Tasks, Rollback(t)
    PROVE  /\ page' \in Settings /\ cached' \in Settings /\ menu' \in Settings
           /\ selected' \in Models \cup {NoValue} /\ chosenBy' \in Choosers
           /\ \/ page'.providers = page.providers /\ task[t].op.kind # "save-provider"
              \/ task[t].op.kind \in Optimistic /\ page'.providers = task[t].snap.providers
           /\ races \subseteq races' /\ races' \subseteq races \cup {"undone", "outdated"}
<1> DEFINE op == task[t].op
           snap == task[t].snap
           r == Restored(op, snap)
<1>1. /\ page \in Settings /\ cached \in Settings /\ menu \in Settings
      /\ selected \in Models \cup {NoValue} /\ chosenBy \in Choosers
  BY SettingsTypes
<1>2. Undone(t) \subseteq {"undone"} /\ Outdated(r) \subseteq {"outdated"}
  BY DEF Undone, Outdated
<1>3. CASE op.kind \in Optimistic
  <2>1. /\ page' = r /\ cached' = r /\ ApplySettings(r) /\ races' = races \cup Undone(t) \cup Outdated(r)
        /\ snap \in Settings
    BY <1>3, RollbackFacts DEF UpdateSettings
  <2>2. r \in Settings /\ r.providers = IF op.kind = "workspace-timezone" THEN page.providers ELSE snap.providers
    BY <1>1, <2>1, RestoredFacts
  <2> HIDE DEF r
  <2>3. menu' \in Settings /\ selected' \in Models \cup {NoValue} /\ chosenBy' \in Choosers
    BY <1>1, <2>1, <2>2, Applied
  <2> QED
    BY <1>2, <1>3, <2>1, <2>2, <2>3
<1>4. CASE op.kind \notin Optimistic
  <2>1. /\ UNCHANGED <<page, cached, menu>>
        /\ \/ op.kind = "chat-default" /\ races' = races /\ selected' = snap.model /\ chosenBy' = snap.chosenBy
           \/ /\ UNCHANGED <<selected, chosenBy>>
              /\ races' = races \cup (IF op.kind \in PutsOff THEN Undone(t) ELSE {})
        /\ op.kind = "chat-default" => snap \in Selections
    BY <1>4, RollbackFacts
  <2>2. selected' \in Models \cup {NoValue} /\ chosenBy' \in Choosers
    BY <1>1, <2>1 DEF Selections
  <2>3. op.kind # "save-provider"
    BY <1>4 DEF Optimistic
  <2> QED
    BY <1>1, <1>2, <2>1, <2>2, <2>3
<1> QED
  BY <1>3, <1>4

LEMMA RollbackKeepsBase ==
    ASSUME BaseInv, NEW t \in Tasks, Rollback(t)
    PROVE  BaseInv'
<1> DEFINE op == task[t].op
<1>1. /\ Runs(t, Mutations) /\ LiveTask(t) /\ task[t].stage = "failed" /\ Mutating(t) /\ op.kind \in Mutations
      /\ UNCHANGED <<server, registry, ops>>
      /\ OthersKeptTask(t) /\ task'[t] = IdleTask /\ TasksAfter
  BY RollbackFacts
<1>2. /\ page' \in Settings /\ cached' \in Settings /\ menu' \in Settings
      /\ selected' \in Models \cup {NoValue} /\ chosenBy' \in Choosers
      /\ \/ page'.providers = page.providers /\ op.kind # "save-provider"
         \/ op.kind \in Optimistic /\ page'.providers = task[t].snap.providers
      /\ races \subseteq races' /\ races' \subseteq races \cup {"undone", "outdated"}
  BY RollbackPage
<1>3. /\ task'[t] \in AnyTask /\ TaskFits(task'[t]) /\ task'[t].stage = "idle" /\ ~LiveTask(t)'
      /\ ~Mutating(t)' /\ \A kinds : ~Runs(t, kinds)'
  BY <1>1, IdleKeeps
<1>7. ReferencesFollow'
  <2> SUFFICES ASSUME Orderly' PROVE NothingDangles' /\ ProvidersKnown'
    BY DEF ReferencesFollow
  <2>1. Orderly
    BY <1>2, AlreadyOrderly
  <2>2. \A u \in Tasks : Mutating(u) => u = t
    BY <1>1, <2>1, AloneWhenOrderly
  <2>3. registry = server.providers
    BY <1>1, <2>1, <2>2, RegistryWhenAlone
  <2>4. ProvidersKnown /\ TaskKnows(t)
    BY <2>1 DEF BaseInv, ReferencesFollow, ProvidersKnown
  <2>5. Removed = {} /\ (op.kind # "save-provider" => Added = {}) /\ Removed \subseteq Removed'
    BY <1>1, <2>1, <2>2, OnlyMutation, RemovedStays DEF Runs
  <2>6. page'.providers \subseteq server.providers
    <3>1. op.kind \in Optimistic => task[t].snap.providers \subseteq server.providers
      BY <1>1, <2>4 DEF TaskKnows, Runs
    <3> QED
      BY <1>2, <2>4, <2>5, <3>1 DEF ProvidersKnown
  <2>7. TaskKnows(t)'
    BY <1>3 DEF TaskKnows
  <2> QED
    BY <1>1, <1>2, <2>1, <2>3, <2>5, <2>6, <2>7, KnownAgain
<1>9. /\ ops' \in 0..MaxOps /\ races' \subseteq Disturbances /\ ("registry" \in races' => "registry" \in races)
  BY <1>1, <1>2, SettingsTypes DEF Disturbances
<1> QED
  BY <1>1, <1>2, <1>3, <1>7, <1>9, BaseAgain

-----------------------------------------------------------------------------
(* The workspace's settings: what is shown, after steps that leave the store and the *)
(* mutations under way alone.                                                        *)

MutationsStay ==
    \A u \in Tasks :
        /\ Mutating(u)' <=> Mutating(u)
        /\ Mutating(u) => /\ task'[u].op = task[u].op /\ task'[u].snap = task[u].snap
                          /\ task'[u].crossed = task[u].crossed
                          /\ Early(u)' <=> Early(u)

LEMMA SameSettings ==
    ASSUME UNCHANGED <<server, registry>>
    PROVE  GetSettings' = GetSettings /\ (DefaultIsListed' <=> DefaultIsListed)
BY DEF GetSettings, ListChatModels, DefaultIsListed

\* A kind of mutation is under way after the step if it was before.
LEMMA MutationsRun ==
    ASSUME MutationsStay, NEW u \in Tasks, NEW kinds, \A k \in kinds : k \in Mutations
    PROVE  Runs(u, kinds)' <=> Runs(u, kinds)
<1>1. /\ Mutating(u)' <=> Mutating(u)
      /\ Mutating(u) => task'[u].op = task[u].op
  BY DEF MutationsStay
<1> QED
  BY <1>1 DEF Mutating, Runs

LEMMA StillSame ==
    ASSUME MutationsStay
    PROVE  /\ Still' <=> Still
           /\ StoreStill' <=> StoreStill
           /\ ChoicesStill' <=> ChoicesStill
           /\ \A u \in Tasks : /\ Runs(u, Optimistic)' <=> Runs(u, Optimistic)
                               /\ Runs(u, {"chat-default"})' <=> Runs(u, {"chat-default"})
                               /\ Runs(u, ChangesChoices)' <=> Runs(u, ChangesChoices)
<1>1. ASSUME NEW u \in Tasks
      PROVE  /\ Runs(u, Optimistic)' <=> Runs(u, Optimistic)
             /\ Runs(u, {"chat-default"})' <=> Runs(u, {"chat-default"})
             /\ Runs(u, ChangesChoices)' <=> Runs(u, ChangesChoices)
             /\ Mutating(u)' <=> Mutating(u)
             /\ Mutating(u) => (Hidden(u)' <=> Hidden(u)) /\ (Early(u)' <=> Early(u))
             /\ Runs(u, ChangesChoices) => Mutating(u)
  <2>1. /\ \A k \in Optimistic : k \in Mutations
        /\ \A k \in {"chat-default"} : k \in Mutations
        /\ \A k \in ChangesChoices : k \in Mutations
    BY Kinds DEF Mutations
  <2>2. Mutating(u) => (Hidden(u)' <=> Hidden(u)) /\ (Early(u)' <=> Early(u))
    BY DEF MutationsStay, Hidden
  <2>3. Mutating(u)' <=> Mutating(u)
    BY DEF MutationsStay
  <2>4. Runs(u, ChangesChoices) => Mutating(u)
    BY <2>1 DEF Runs, Mutating
  <2>5. Runs(u, Optimistic)' <=> Runs(u, Optimistic)
    BY <2>1, MutationsRun
  <2>6. Runs(u, {"chat-default"})' <=> Runs(u, {"chat-default"})
    BY <2>1, MutationsRun
  <2>7. Runs(u, ChangesChoices)' <=> Runs(u, ChangesChoices)
    BY <2>1, MutationsRun
  <2> QED
    BY <2>2, <2>3, <2>4, <2>5, <2>6, <2>7
<1>2. Still' <=> Still
  BY <1>1 DEF Still
<1>3. StoreStill' <=> StoreStill
  BY <1>1 DEF StoreStill
<1>4. ChoicesStill' <=> ChoicesStill
  BY <1>1 DEF ChoicesStill
<1> QED
  BY <1>1, <1>2, <1>3, <1>4

LEMMA RollbacksStay ==
    ASSUME MutationsStay, RollbacksFit, UNCHANGED <<server, registry, page>>
    PROVE  RollbacksFit'
<1> SUFFICES ASSUME NEW u \in Tasks, Runs(u, Optimistic)', Early(u)', ~task'[u].crossed
             PROVE  SettingsFit(Restored(task[u].op, task[u].snap))'
  BY DEF RollbacksFit
<1>1. Runs(u, Optimistic)
  BY StillSame
<1>2. Mutating(u)
  BY <1>1, Kinds DEF Runs, Mutating
<1>3. Early(u) /\ ~task[u].crossed /\ task'[u].op = task[u].op /\ task'[u].snap = task[u].snap
  BY <1>2 DEF MutationsStay
<1>4. SettingsFit(Restored(task[u].op, task[u].snap))
  BY <1>1, <1>3 DEF RollbacksFit
<1>5. GetSettings' = GetSettings
  BY SameSettings
<1> QED
  BY <1>3, <1>4, <1>5 DEF SettingsFit, Restored, WithoutDefault

\* While a default is chosen no other operation is under way.
LEMMA NoDefaultNow ==
    ASSUME DefaultFits, NEW t \in Tasks, LiveTask(t), ~Runs(t, {"chat-default"})
    PROVE  \A u \in Tasks : ~Runs(u, {"chat-default"})
BY DEF DefaultFits

\* What a step of a read leaves alone.
LEMMA ReadStepStays ==
    ASSUME BaseInv, AllFits, NEW t \in Tasks, Runs(t, Reads), OthersKeptTask(t),
           ~LiveTask(t)' \/ task'[t].op = task[t].op, UNCHANGED <<server, registry>>,
           \A u \in Tasks \ {t} : Mutating(u) => task'[u].crossed = task[u].crossed
    PROVE  /\ MutationsStay /\ DefaultIsListed' /\ IndexReadAlone' /\ DefaultFits'
           /\ page' = page => RollbacksFit'
<1>1. /\ LiveTask(t) /\ ~Mutating(t) /\ task[t].op.kind \notin Mutations /\ ~Runs(t, {"chat-default"})
  BY ReaderFacts
<1>2. ~Mutating(t)' /\ (Runs(t, {"settings-index-refresh"})' => Runs(t, {"settings-index-refresh"}))
  BY <1>1 DEF Mutating, Runs
<1>3. \A u \in Tasks \ {t} : /\ task'[u].op = task[u].op /\ task'[u].stage = task[u].stage
                             /\ task'[u].snap = task[u].snap
                             /\ Mutating(u)' <=> Mutating(u)
                             /\ Runs(u, {"settings-index-refresh"})' <=> Runs(u, {"settings-index-refresh"})
  BY OthersStay DEF StaysTask
<1>4. MutationsStay
  BY <1>1, <1>2, <1>3 DEF MutationsStay, Early
<1>5. DefaultIsListed'
  BY SameSettings DEF AllFits
<1>6. IndexReadAlone'
  BY <1>1, <1>2, <1>3 DEF IndexReadAlone, AllFits
<1>7. DefaultFits'
  <2>1. \A u \in Tasks : ~Runs(u, {"chat-default"})
    BY <1>1, NoDefaultNow DEF AllFits
  <2> QED
    BY <1>4, <2>1, StillSame DEF DefaultFits
<1>8. page' = page => RollbacksFit'
  BY <1>4, RollbacksStay DEF AllFits
<1> QED
  BY <1>4, <1>5, <1>6, <1>7, <1>8

\* What the reads of the page and of the selector have brought, when nothing new has come.
LEMMA PageReadsStay ==
    ASSUME PageReadsFit, StoreStill' => StoreStill, UNCHANGED <<server, registry>>,
           \A u \in Tasks : Runs(u, PageReads)' /\ task'[u].stage = "done" /\ ~task'[u].stale =>
               \/ task'[u].got = GetSettings
               \/ Runs(u, PageReads) /\ task[u].stage = "done" /\ ~task[u].stale /\ task'[u].got = task[u].got
    PROVE  PageReadsFit'
<1>1. GetSettings' = GetSettings
  BY SameSettings
<1> QED
  BY <1>1 DEF PageReadsFit

LEMMA SelectorReadsStay ==
    ASSUME BaseInv, SelectorReadsFit, ChoicesStill' => ChoicesStill, UNCHANGED <<server, registry>>,
           \A u \in Tasks : SelectorAnswer(u)' =>
               \/ task'[u].got = GetSettings
               \/ SelectorAnswer(u) /\ task'[u].got = task[u].got
    PROVE  SelectorReadsFit'
<1> SUFFICES ASSUME ChoicesStill', NEW u \in Tasks, SelectorAnswer(u)' PROVE ChoicesFit(task[u].got)'
  BY DEF SelectorReadsFit
<1>1. GetSettings' = GetSettings
  BY SameSettings
<1>2. CASE SelectorAnswer(u) /\ task'[u].got = task[u].got
  <2>1. ChoicesFit(task[u].got)
    BY <1>2 DEF SelectorReadsFit
  <2> QED
    BY <1>1, <1>2, <2>1 DEF ChoicesFit, ListingsFit
<1>3. CASE task'[u].got = GetSettings
  <2>1. GetSettings.providers = registry /\ GetSettings.default = server.default
    BY SettingsTypes, GetFacts
  <2> QED
    BY <1>1, <1>3, <2>1 DEF ChoicesFit, ListingsFit
<1> QED
  BY <1>2, <1>3

-----------------------------------------------------------------------------
(* The workspace's settings: what is shown, after each step of a read. *)

\* A refresh, or a read of the selector, that another task has under way stays so.
LEMMA RefreshStays ==
    ASSUME BaseInv, NEW t \in Tasks, OthersKeptTask(t), RefreshUnderWay,
           \A u \in Tasks \ {t} : Runs(u, {"settings-refresh"}) => task'[u].stale = task[u].stale,
           ~(Runs(t, {"settings-refresh"}) /\ task[t].stage \in {"sent", "done"} /\ ~task[t].stale)
    PROVE  RefreshUnderWay'
<1>1. PICK u \in Tasks : Runs(u, {"settings-refresh"}) /\ task[u].stage \in {"sent", "done"} /\ ~task[u].stale
  BY DEF RefreshUnderWay
<1>2. u # t
  BY <1>1
<1>3. Runs(u, {"settings-refresh"})' /\ task'[u].stage = task[u].stage
  BY <1>1, <1>2, OthersStay DEF StaysTask
<1>4. ~task'[u].stale
  BY <1>1, <1>2
<1> QED
  BY <1>1, <1>3, <1>4 DEF RefreshUnderWay

LEMMA SelectorStays ==
    ASSUME BaseInv, NEW t \in Tasks, OthersKeptTask(t), SelectorUnderWay, RefreshUnderWay => RefreshUnderWay',
           \A u \in Tasks \ {t} : Runs(u, SelectorRead) => task'[u].stale = task[u].stale,
           ~(LiveTask(t) /\ task[t].stage = "applied"), ~(Runs(t, SelectorRead) /\ ~task[t].stale)
    PROVE  SelectorUnderWay'
<1>1. CASE RefreshUnderWay
  BY <1>1 DEF SelectorUnderWay
<1>2. CASE \E u \in Tasks : LiveTask(u) /\ task[u].stage = "applied"
  <2>1. PICK u \in Tasks : LiveTask(u) /\ task[u].stage = "applied"
    BY <1>2
  <2>2. u # t
    BY <2>1
  <2>3. LiveTask(u)' /\ task'[u].stage = "applied"
    BY <2>1, <2>2, OthersStay DEF StaysTask
  <2> QED
    BY <2>3 DEF SelectorUnderWay
<1>3. CASE \E u \in Tasks : Runs(u, SelectorRead) /\ ~task[u].stale
  <2>1. PICK u \in Tasks : Runs(u, SelectorRead) /\ ~task[u].stale
    BY <1>3
  <2>2. u # t
    BY <2>1
  <2>3. Runs(u, SelectorRead)' /\ ~task'[u].stale
    BY <2>1, <2>2, OthersStay
  <2> QED
    BY <2>3 DEF SelectorUnderWay
<1> QED
  BY <1>1, <1>2, <1>3 DEF SelectorUnderWay

\* Nothing shows that is not stored: then no mutation has changed anything.
LEMMA StillIsStill ==
    ASSUME Still
    PROVE  StoreStill /\ ChoicesStill
<1>1. \A u \in Tasks : Runs(u, ChangesChoices) => Mutating(u)
  BY Kinds DEF Runs, Mutating
<1> QED
  BY <1>1 DEF Still, StoreStill, ChoicesStill, Hidden

LEMMA AnswerShows ==
    ASSUME BaseInv, AllFits, NEW t \in Tasks, Answer(t)
    PROVE  AllFits'
<1>1. /\ Runs(t, Reads) /\ task[t].stage = "sent"
      /\ UNCHANGED <<server, registry, page, cached, menu, selected, chosenBy, ops, races>>
      /\ OthersKeptTask(t) /\ \A u \in Tasks \ {t} : task'[u] = task[u]
      /\ LiveTask(t)' /\ task'[t].op = task[t].op /\ task'[t].stage = "done" /\ task'[t].got = GetSettings
      /\ task'[t].stale = task[t].stale
  BY AnswerFacts
<1>2. /\ MutationsStay /\ DefaultIsListed' /\ IndexReadAlone' /\ DefaultFits' /\ RollbacksFit'
  BY <1>1, ReadStepStays
<1>3. \A u \in Tasks : /\ LiveTask(u)' <=> LiveTask(u)
                       /\ \A kinds : Runs(u, kinds)' <=> Runs(u, kinds)
                       /\ task'[u].stale = task[u].stale
                       /\ u # t => task'[u] = task[u]
  <2> TAKE u \in Tasks
  <2>1. LiveTask(t)
    BY <1>1 DEF Runs
  <2>2. task'[u].op = task[u].op /\ (LiveTask(u)' <=> LiveTask(u)) /\ task'[u].stale = task[u].stale
    BY <1>1, <2>1 DEF LiveTask
  <2> QED
    BY <1>1, <2>2 DEF Runs
<1>4. PageReadsFit'
  BY <1>1, <1>2, <1>3, StillSame, PageReadsStay DEF AllFits
<1>5. SelectorReadsFit'
  <2>1. \A u \in Tasks : SelectorAnswer(u)' =>
            task'[u].got = GetSettings \/ (SelectorAnswer(u) /\ task'[u].got = task[u].got)
    BY <1>1, <1>3 DEF SelectorAnswer
  <2> QED
    BY <1>1, <1>2, <2>1, StillSame, SelectorReadsStay DEF AllFits
<1>6. ShownFits'
  <2>1. RefreshUnderWay => RefreshUnderWay'
    BY <1>1, <1>3 DEF RefreshUnderWay
  <2>2. SelectorUnderWay => SelectorUnderWay'
    BY <1>1, <1>3, <2>1 DEF SelectorUnderWay
  <2>3. \A u \in Tasks : LiveTask(u)' /\ task'[u].stage = "applied" => LiveTask(u) /\ task[u].stage = "applied"
    BY <1>1, <1>3
  <2>4. GetSettings' = GetSettings /\ (Still' <=> Still) /\ ShownFits
    BY <1>1, <1>2, SameSettings, StillSame DEF AllFits
  <2> QED
    BY <1>1, <2>1, <2>2, <2>3, <2>4 DEF ShownFits, SettingsFit, ListingsFit, ChoicesFit, SelectionFits, WithoutDefault
<1> QED
  BY <1>2, <1>4, <1>5, <1>6 DEF AllFits

\* The settings as they are read suit the page, the cache and the selector.
LEMMA GetFits ==
    ASSUME BaseInv, NEW s, s = GetSettings
    PROVE  SettingsFit(s) /\ ListingsFit(s) /\ ChoicesFit(s)
<1>1. GetSettings.providers = registry /\ GetSettings.default = server.default
  BY SettingsTypes, GetFacts
<1> QED
  BY <1>1 DEF SettingsFit, ListingsFit, ChoicesFit

\* So does what has the same but for another page's zone.
LEMMA RestoredZoneFits ==
    ASSUME BaseInv, page \in Settings, NEW snap \in Settings, NEW op, op.kind = "workspace-timezone",
           SettingsFit(Restored(op, snap))
    PROVE  snap.zone = server.zone
<1> DEFINE z == snap.zone
           r == [page EXCEPT !.zone = z]
           g == GetSettings
           N == NoValue
<1>1. WithoutDefault(r) = WithoutDefault(g)
  BY DEF SettingsFit, Restored
<1>2. g \in Settings /\ g.zone = server.zone /\ z \in BOOLEAN
  BY SettingsTypes, GetFacts DEF Settings
<1> HIDE DEF g, z
<1>3. r \in Settings /\ r.zone = z
  BY <1>2 DEF Settings
<1> HIDE DEF r
<1>4. [r EXCEPT !.default = N] = [g EXCEPT !.default = N]
  BY <1>1 DEF WithoutDefault
<1> HIDE DEF N
<1>5. [r EXCEPT !.default = N].zone = r.zone /\ [g EXCEPT !.default = N].zone = g.zone
  BY <1>2, <1>3 DEF Settings
<1>6. z = server.zone
  BY <1>2, <1>3, <1>4, <1>5
<1> QED
  BY <1>6 DEF z

LEMMA SameZone ==
    ASSUME NEW s \in Settings, NEW z, z = s.zone
    PROVE  [s EXCEPT !.zone = z] = s
BY DEF Settings

LEMMA OptimisticSnap ==
    ASSUME BaseInv, NEW t \in Tasks, Runs(t, Optimistic)
    PROVE  task[t].snap \in Settings /\ task[t].op \in Offers
<1>1. LiveTask(t) /\ task[t].op.kind \in Optimistic /\ task[t].op.kind \in Mutations
  BY Kinds DEF Runs
<1>2. TaskFits(task[t]) /\ task[t].stage # "idle"
  BY <1>1, SettingsTypes DEF LiveTask
<1>3. task[t].op \in Offers
  BY <1>1, LiveFacts
<1> QED
  BY <1>1, <1>2, <1>3 DEF TaskFits

LEMMA ApplyPayloadShows ==
    ASSUME BaseInv, AllFits, NEW t \in Tasks, ApplySettingsPayload(t)
    PROVE  AllFits'
<1>1. /\ Runs(t, PageReads) /\ Runs(t, Reads) /\ task[t].stage = "done" /\ ~task[t].stale
      /\ page' = task[t].got /\ cached' = task[t].got
      /\ UNCHANGED <<server, registry, menu, selected, chosenBy, ops, races>>
      /\ OthersKeptTask(t)
      /\ \/ /\ task[t].op.kind = "settings-refresh" /\ LiveTask(t)' /\ task'[t].op = task[t].op
            /\ task'[t].stage = "applied"
         \/ task[t].op.kind # "settings-refresh" /\ ~LiveTask(t)' /\ task'[t].stage = "idle"
      /\ \A u \in Tasks \ {t} : /\ task'[u].stale = task[u].stale
                                /\ ~Runs(u, SelectorRead) => task'[u].crossed = task[u].crossed
  BY ApplyPayloadFacts
<1>2. \A u \in Tasks : Mutating(u) => ~Runs(u, SelectorRead)
  BY Kinds DEF Mutating, Runs
<1>3. ~LiveTask(t)' \/ task'[t].op = task[t].op
  BY <1>1
<1>4. MutationsStay /\ DefaultIsListed' /\ IndexReadAlone' /\ DefaultFits'
  BY <1>1, <1>2, <1>3, ReadStepStays
<1>5. \A u \in Tasks \ {t} : /\ StaysTask(u) /\ task'[u].op = task[u].op /\ task'[u].stage = task[u].stage
                             /\ task'[u].got = task[u].got /\ (LiveTask(u)' <=> LiveTask(u))
                             /\ \A kinds : Runs(u, kinds)' <=> Runs(u, kinds)
  BY <1>1, OthersStay DEF StaysTask
<1>6. GetSettings' = GetSettings
  BY <1>1, SameSettings
<1>7. StoreStill => page' = GetSettings /\ cached' = GetSettings
  BY <1>1 DEF AllFits, PageReadsFit
<1>8. PageReadsFit'
  BY <1>1, <1>4, <1>5, StillSame, PageReadsStay DEF AllFits
<1>9. SelectorReadsFit'
  <2>1. \A u \in Tasks : SelectorAnswer(u)' => SelectorAnswer(u) /\ task'[u].got = task[u].got
    <3> SUFFICES ASSUME NEW u \in Tasks, SelectorAnswer(u)'
                 PROVE  SelectorAnswer(u) /\ task'[u].got = task[u].got
      OBVIOUS
    <3>1. u # t
      BY <1>1 DEF SelectorAnswer
    <3> QED
      BY <1>1, <1>5, <3>1 DEF SelectorAnswer, StaysTask
  <2> QED
    BY <1>1, <1>4, <2>1, StillSame, SelectorReadsStay DEF AllFits
<1>10. RollbacksFit'
  <2> SUFFICES ASSUME NEW u \in Tasks, Runs(u, Optimistic)', Early(u)', ~task'[u].crossed
               PROVE  SettingsFit(Restored(task[u].op, task[u].snap))'
    BY DEF RollbacksFit
  <2>1. Runs(u, Optimistic)
    BY <1>4, StillSame
  <2>2. Mutating(u)
    BY <2>1, Kinds DEF Runs, Mutating
  <2>3. Early(u) /\ ~task[u].crossed /\ task'[u].op = task[u].op /\ task'[u].snap = task[u].snap
    BY <1>4, <2>2 DEF MutationsStay
  <2>4. SettingsFit(Restored(task[u].op, task[u].snap))
    BY <2>1, <2>3 DEF RollbacksFit, AllFits
  <2>5. StoreStill
    <3>1. \A v \in Tasks : Mutating(v) => v = u
      BY <2>2, <2>3 DEF BaseInv, Met
    <3> QED
      BY <2>3, <3>1 DEF StoreStill
  <2> DEFINE op == task[u].op
             snap == task[u].snap
  <2>6. page' = GetSettings /\ GetSettings \in Settings
    BY <1>7, <2>5, SettingsTypes, GetFacts
  <2>7. CASE op.kind = "workspace-timezone"
    <3>1. snap \in Settings /\ page \in Settings
      BY <2>1, OptimisticSnap, SettingsTypes
    <3>2. snap.zone = server.zone
      <4> DEFINE o == task[u].op
                 s == task[u].snap
      <4>1. o.kind = "workspace-timezone" /\ s \in Settings /\ SettingsFit(Restored(o, s))
        BY <2>4, <2>7, <3>1
      <4> HIDE DEF o, s
      <4>2. s.zone = server.zone
        BY ONLY BaseInv, <3>1, <4>1, RestoredZoneFits
      <4> QED
        BY <4>2 DEF s
    <3>3. snap.zone = GetSettings.zone
      BY <3>2, SettingsTypes, GetFacts
    <3>4. [page' EXCEPT !.zone = snap.zone] = GetSettings
      <4> DEFINE g == GetSettings
                 z == snap.zone
      <4>1. g \in Settings /\ z = g.zone /\ page' = g
        BY <2>6, <3>3
      <4> HIDE DEF g, z
      <4>2. [g EXCEPT !.zone = z] = g
        BY <4>1, SameZone
      <4> QED
        BY <4>1, <4>2 DEF g, z
    <3>5. Restored(task[u].op, task[u].snap)' = GetSettings
      BY <2>3, <2>7, <3>4 DEF Restored
    <3> QED
      BY <1>6, <3>5 DEF SettingsFit
  <2>8. CASE op.kind # "workspace-timezone"
    BY <1>6, <2>3, <2>4, <2>8 DEF SettingsFit, Restored
  <2> QED
    BY <2>7, <2>8
<1>11. ShownFits'
  <2> SUFFICES ASSUME Still'
               PROVE  /\ page' = GetSettings /\ cached' = GetSettings
                      /\ (ChoicesFit(menu)' /\ SelectionFits') \/ SelectorUnderWay'
    <3>1. page' = GetSettings => SettingsFit(page)'
      BY <1>6 DEF SettingsFit
    <3>2. cached' = GetSettings => ListingsFit(cached)'
      <4>1. ListingsFit(GetSettings)
        BY GetFits
      <4> QED
        BY <1>1, <1>6, <4>1 DEF ListingsFit
    <3> QED
      BY <1>6, <3>1, <3>2 DEF ShownFits
  <2>1. Still /\ ShownFits
    BY <1>4, StillSame DEF AllFits
  <2>2. page' = GetSettings /\ cached' = GetSettings
    BY <1>7, <2>1, StillIsStill
  <2>3. CASE task[t].op.kind = "settings-refresh"
    <3>1. SelectorUnderWay'
      BY <1>1, <2>3 DEF SelectorUnderWay
    <3> QED
      BY <2>2, <3>1
  <2>4. CASE task[t].op.kind # "settings-refresh"
    <3>1. ~Runs(t, {"settings-refresh"}) /\ ~Runs(t, SelectorRead)
      BY <1>1, <2>4, Kinds DEF Runs
    <3>2. RefreshUnderWay => RefreshUnderWay'
      BY <1>1, <3>1, RefreshStays
    <3>3. SelectorUnderWay => SelectorUnderWay'
      BY <1>1, <3>1, <3>2, SelectorStays
    <3>4. (ChoicesFit(menu) /\ SelectionFits) \/ SelectorUnderWay
      BY <2>1 DEF ShownFits
    <3>5. ChoicesFit(menu) /\ SelectionFits => ChoicesFit(menu)' /\ SelectionFits'
      BY <1>1, <1>6 DEF ChoicesFit, ListingsFit, SelectionFits
    <3> QED
      BY <2>2, <3>3, <3>4, <3>5
  <2> QED
    BY <2>3, <2>4
<1> QED
  BY <1>4, <1>8, <1>9, <1>10, <1>11 DEF AllFits

LEMMA PrepareSelectorShows ==
    ASSUME BaseInv, AllFits, NEW t \in Tasks, PrepareSelector(t)
    PROVE  AllFits'
<1>1. /\ Runs(t, Reads) /\ LiveTask(t) /\ task[t].stage = "applied" /\ task[t].op.kind = "settings-refresh"
      /\ UNCHANGED <<server, registry, page, ops, races>>
      /\ cached' = page /\ ApplySettings(page)
      /\ OthersKeptTask(t) /\ task'[t] = IdleTask
      /\ \A u \in Tasks \ {t} : /\ ~Runs(u, SelectorRead) => /\ task'[u].stale = task[u].stale
                                                             /\ task'[u].crossed = task[u].crossed
  BY PrepareSelectorFacts
<1>2. \A u \in Tasks : Mutating(u) => ~Runs(u, SelectorRead)
  BY Kinds DEF Mutating, Runs
<1>3. ~LiveTask(t)'
  BY <1>1, IdleKeeps
<1>4. MutationsStay /\ DefaultIsListed' /\ IndexReadAlone' /\ DefaultFits' /\ RollbacksFit'
  BY <1>1, <1>2, <1>3, ReadStepStays
<1>5. \A u \in Tasks \ {t} : /\ StaysTask(u) /\ task'[u].op = task[u].op /\ task'[u].stage = task[u].stage
                             /\ task'[u].got = task[u].got /\ (LiveTask(u)' <=> LiveTask(u))
                             /\ \A kinds : Runs(u, kinds)' <=> Runs(u, kinds)
  BY <1>1, OthersStay DEF StaysTask
<1>6. GetSettings' = GetSettings
  BY <1>1, SameSettings
<1>7. ~Runs(t, PageReads)' /\ ~Runs(t, SelectorRead)'
  BY <1>3 DEF Runs
<1>8. PageReadsFit'
  <2>1. \A u \in Tasks : Runs(u, PageReads)' /\ task'[u].stage = "done" /\ ~task'[u].stale =>
            Runs(u, PageReads) /\ task[u].stage = "done" /\ ~task[u].stale /\ task'[u].got = task[u].got
    BY <1>5, <1>7 DEF StaysTask
  <2> QED
    BY <1>1, <1>4, <2>1, StillSame, PageReadsStay DEF AllFits
<1>9. SelectorReadsFit'
  <2>1. \A u \in Tasks : SelectorAnswer(u)' => SelectorAnswer(u) /\ task'[u].got = task[u].got
    BY <1>5, <1>7 DEF SelectorAnswer, StaysTask
  <2> QED
    BY <1>1, <1>4, <2>1, StillSame, SelectorReadsStay DEF AllFits
<1>10. ShownFits'
  <2> SUFFICES ASSUME Still' PROVE ShownFits'
    BY DEF ShownFits
  <2>1. Still /\ ShownFits
    BY <1>4, StillSame DEF AllFits
  <2>2. RefreshUnderWay => RefreshUnderWay'
    <3>1. \A u \in Tasks : Runs(u, {"settings-refresh"}) => ~Runs(u, SelectorRead)
      BY Kinds DEF Runs
    <3> QED
      BY <1>1, <3>1, RefreshStays
  <2>3. page = GetSettings \/ RefreshUnderWay
    BY <1>1, <2>1 DEF ShownFits
  <2>4. CASE RefreshUnderWay
    <3>1. RefreshUnderWay' /\ SelectorUnderWay'
      BY <2>2, <2>4 DEF SelectorUnderWay
    <3> QED
      BY <3>1 DEF ShownFits
  <2>5. CASE page = GetSettings
    <3>1. SettingsFit(page) /\ ListingsFit(page) /\ ChoicesFit(page) /\ page \in Settings
      BY <2>5, GetFits, SettingsTypes
    <3>2. page' = page /\ cached' = page /\ menu' = page
      BY <1>1 DEF ApplySettings
    <3>3. chosenBy' = "settings" => selected' = Preferred(GetSettings)
      BY <1>1, <2>5 DEF ApplySettings
    <3> QED
      BY <1>1, <1>6, <2>5, <3>1, <3>2, <3>3 DEF ShownFits, SettingsFit, ListingsFit, ChoicesFit, SelectionFits, WithoutDefault
  <2> QED
    BY <2>3, <2>4, <2>5
<1> QED
  BY <1>4, <1>8, <1>9, <1>10 DEF AllFits

\* A read of the selector, or one that is void, ends: the others and the page stay.
LEMMA ReadEnds ==
    ASSUME BaseInv, AllFits, NEW t \in Tasks, Runs(t, Reads), task[t].stage = "done",
           OthersKeptTask(t), task'[t] = IdleTask, \A u \in Tasks \ {t} : task'[u] = task[u],
           UNCHANGED <<server, registry, page>>
    PROVE  /\ MutationsStay /\ DefaultIsListed' /\ IndexReadAlone' /\ DefaultFits' /\ RollbacksFit'
           /\ PageReadsFit' /\ SelectorReadsFit'
           /\ \A u \in Tasks : LiveTask(u)' /\ task'[u].stage = "applied" => LiveTask(u) /\ task[u].stage = "applied"
           /\ Runs(t, SelectorRead) \/ task[t].stale => (RefreshUnderWay => RefreshUnderWay')
           /\ task[t].stale => (SelectorUnderWay => SelectorUnderWay')
<1>3. ~LiveTask(t)'
  BY IdleKeeps
<1>4. MutationsStay /\ DefaultIsListed' /\ IndexReadAlone' /\ DefaultFits' /\ RollbacksFit'
  BY <1>3, ReadStepStays
<1>7. ~Runs(t, PageReads)' /\ ~Runs(t, SelectorRead)'
  BY <1>3 DEF Runs
<1>8. PageReadsFit'
  <2>1. \A u \in Tasks : Runs(u, PageReads)' /\ task'[u].stage = "done" /\ ~task'[u].stale =>
            Runs(u, PageReads) /\ task[u].stage = "done" /\ ~task[u].stale /\ task'[u].got = task[u].got
    BY <1>7 DEF Runs, LiveTask
  <2> QED
    BY <1>4, <2>1, StillSame, PageReadsStay DEF AllFits
<1>9. SelectorReadsFit'
  <2>1. \A u \in Tasks : SelectorAnswer(u)' => SelectorAnswer(u) /\ task'[u].got = task[u].got
    BY <1>7 DEF SelectorAnswer, Runs, LiveTask
  <2> QED
    BY <1>4, <2>1, StillSame, SelectorReadsStay DEF AllFits
<1>10. \A u \in Tasks : LiveTask(u)' /\ task'[u].stage = "applied" => LiveTask(u) /\ task[u].stage = "applied"
  BY <1>3 DEF LiveTask
<1>11. Runs(t, SelectorRead) \/ task[t].stale => (RefreshUnderWay => RefreshUnderWay')
  <2>1. Runs(t, SelectorRead) => ~Runs(t, {"settings-refresh"})
    BY Kinds DEF Runs
  <2> QED
    BY <2>1, RefreshStays
<1>12. task[t].stale => (SelectorUnderWay => SelectorUnderWay')
  BY <1>11, SelectorStays
<1> QED
  BY <1>4, <1>8, <1>9, <1>10, <1>11, <1>12

LEMMA ApplyToSelectorShows ==
    ASSUME BaseInv, AllFits, NEW t \in Tasks, ApplyToSelector(t)
    PROVE  AllFits'
<1>1. /\ Runs(t, Reads) /\ Runs(t, SelectorRead) /\ task[t].stage = "done" /\ ~task[t].stale
      /\ task[t].got \in Settings /\ ApplySettings(task[t].got)
      /\ cached' = (IF task[t].crossed THEN cached ELSE task[t].got)
      /\ UNCHANGED <<server, registry, page, ops, races>>
      /\ OthersKeptTask(t) /\ task'[t] = IdleTask
      /\ \A u \in Tasks \ {t} : task'[u] = task[u]
  BY ApplyToSelectorFacts
<1>2. /\ MutationsStay /\ DefaultIsListed' /\ IndexReadAlone' /\ DefaultFits' /\ RollbacksFit'
      /\ PageReadsFit' /\ SelectorReadsFit'
      /\ \A u \in Tasks : LiveTask(u)' /\ task'[u].stage = "applied" => LiveTask(u) /\ task[u].stage = "applied"
      /\ RefreshUnderWay => RefreshUnderWay'
  BY <1>1, ReadEnds
<1>3. GetSettings' = GetSettings
  BY <1>1, SameSettings
<1>4. ShownFits'
  <2> SUFFICES ASSUME Still' PROVE ShownFits'
    BY DEF ShownFits
  <2>1. Still /\ ShownFits /\ ChoicesStill
    BY <1>2, StillSame, StillIsStill DEF AllFits
  <2>2. ChoicesFit(task[t].got)
    BY <1>1, <2>1 DEF AllFits, SelectorReadsFit, SelectorAnswer
  <2>3. ListingsFit(cached)' \/ RefreshUnderWay'
    BY <1>1, <1>2, <1>3, <2>1, <2>2 DEF ShownFits, ChoicesFit, ListingsFit
  <2>4. ChoicesFit(menu)' /\ SelectionFits'
    <3> DEFINE g == task[t].got
    <3>1. menu' = g /\ (chosenBy' = "settings" => selected' = Preferred(g))
      BY <1>1 DEF ApplySettings
    <3>2. g.providers = GetSettings.providers /\ g.models = GetSettings.models /\ g.default = GetSettings.default
      BY <2>2, SettingsTypes, GetFacts DEF ChoicesFit, ListingsFit
    <3>3. Preferred(g) = Preferred(GetSettings)
      BY <3>2, PreferredSame
    <3> QED
      BY <1>1, <1>3, <2>2, <3>1, <3>3 DEF ChoicesFit, ListingsFit, SelectionFits
  <2>5. SettingsFit(page)' \/ RefreshUnderWay'
    BY <1>1, <1>2, <1>3, <2>1 DEF ShownFits, SettingsFit, WithoutDefault
  <2>6. \A u \in Tasks : LiveTask(u)' /\ task'[u].stage = "applied" => page' = GetSettings' \/ RefreshUnderWay'
    BY <1>1, <1>2, <1>3, <2>1 DEF ShownFits
  <2> QED
    BY <2>3, <2>4, <2>5, <2>6 DEF ShownFits
<1> QED
  BY <1>2, <1>4 DEF AllFits

LEMMA DropStaleShows ==
    ASSUME BaseInv, AllFits, NEW t \in Tasks, DropStale(t)
    PROVE  AllFits'
<1>1. /\ Runs(t, Reads) /\ task[t].stage = "done" /\ task[t].stale
      /\ cached' = (IF Runs(t, SelectorRead) /\ ~task[t].crossed THEN task[t].got ELSE cached)
      /\ UNCHANGED <<server, registry, page, menu, selected, chosenBy, ops, races>>
      /\ OthersKeptTask(t) /\ task'[t] = IdleTask
      /\ \A u \in Tasks \ {t} : task'[u] = task[u]
  BY DropStaleFacts
<1>2. /\ MutationsStay /\ DefaultIsListed' /\ IndexReadAlone' /\ DefaultFits' /\ RollbacksFit'
      /\ PageReadsFit' /\ SelectorReadsFit'
      /\ \A u \in Tasks : LiveTask(u)' /\ task'[u].stage = "applied" => LiveTask(u) /\ task[u].stage = "applied"
      /\ RefreshUnderWay => RefreshUnderWay'
      /\ SelectorUnderWay => SelectorUnderWay'
  BY <1>1, ReadEnds
<1>3. GetSettings' = GetSettings
  BY <1>1, SameSettings
<1>4. ShownFits'
  <2> SUFFICES ASSUME Still' PROVE ShownFits'
    BY DEF ShownFits
  <2>1. Still /\ ShownFits /\ ChoicesStill
    BY <1>2, StillSame, StillIsStill DEF AllFits
  <2>2. Runs(t, SelectorRead) /\ ~task[t].crossed => ChoicesFit(task[t].got)
    BY <1>1, <2>1 DEF AllFits, SelectorReadsFit, SelectorAnswer
  <2>3. ListingsFit(cached)' \/ RefreshUnderWay'
    BY <1>1, <1>2, <1>3, <2>1, <2>2 DEF ShownFits, ChoicesFit, ListingsFit
  <2>4. (ChoicesFit(menu)' /\ SelectionFits') \/ SelectorUnderWay'
    BY <1>1, <1>2, <1>3, <2>1 DEF ShownFits, ChoicesFit, ListingsFit, SelectionFits
  <2>5. SettingsFit(page)' \/ RefreshUnderWay'
    BY <1>1, <1>2, <1>3, <2>1 DEF ShownFits, SettingsFit, WithoutDefault
  <2>6. \A u \in Tasks : LiveTask(u)' /\ task'[u].stage = "applied" => page' = GetSettings' \/ RefreshUnderWay'
    BY <1>1, <1>2, <1>3, <2>1 DEF ShownFits
  <2> QED
    BY <2>3, <2>4, <2>5, <2>6 DEF ShownFits
<1> QED
  BY <1>2, <1>4 DEF AllFits

LEMMA RunLatestShows ==
    ASSUME BaseInv, AllFits, NEW t \in Tasks, NEW kind \in Reads, RunLatest(t, kind), Undisturbed'
    PROVE  AllFits'
<1>1. /\ ~LiveTask(t) /\ races' = races \cup OverlapsOf([kind |-> kind])
      /\ UNCHANGED <<server, registry, page, cached>>
      /\ OthersKeptTask(t) /\ \A u \in Tasks \ {t} : task'[u] = task[u]
      /\ task'[t].op.kind = kind /\ LiveTask(t)'
      /\ task'[t].stage = "sent" /\ task'[t].stale = FALSE
      /\ kind \in SelectorRead => ApplySettings(cached)
      /\ kind \notin SelectorRead => UNCHANGED <<menu, selected, chosenBy>>
  BY RunLatestFacts
<1>2. kind \notin Mutations
  BY Kinds
<1>3. /\ \A u \in Tasks : ~Runs(u, {"chat-default"})
      /\ kind = "settings-index-refresh" => \A u \in Tasks : ~Runs(u, Mutations)
  <2> DEFINE op == [kind |-> kind]
  <2>1. op.kind = kind /\ OverlapsOf(op) \subseteq races'
    BY <1>1
  <2> HIDE DEF op
  <2>2. "default" \notin races' /\ "index" \notin races'
    BY DEF Undisturbed
  <2> QED
    BY <2>1, <2>2, NoOverlap
<1>4. ~Mutating(t) /\ ~Mutating(t)' /\ \A kinds : ~Runs(t, kinds)
  BY <1>1, <1>2 DEF Mutating, Runs
<1>5. \A u \in Tasks \ {t} : /\ LiveTask(u)' <=> LiveTask(u)
                             /\ \A kinds : Runs(u, kinds)' <=> Runs(u, kinds)
                             /\ Mutating(u)' <=> Mutating(u)
                             /\ Early(u)' <=> Early(u)
  BY <1>1 DEF LiveTask, Runs, Mutating, Early
<1>6. MutationsStay
  BY <1>1, <1>4, <1>5 DEF MutationsStay
<1>7. DefaultIsListed' /\ GetSettings' = GetSettings
  BY <1>1, SameSettings DEF AllFits
<1>8. IndexReadAlone'
  <2>1. Runs(t, {"settings-index-refresh"})' => kind = "settings-index-refresh"
    BY <1>1 DEF Runs
  <2> QED
    BY <1>3, <1>4, <1>5, <2>1 DEF IndexReadAlone, AllFits, Mutating
<1>9. PageReadsFit'
  <2>1. \A u \in Tasks : Runs(u, PageReads)' /\ task'[u].stage = "done" /\ ~task'[u].stale =>
            Runs(u, PageReads) /\ task[u].stage = "done" /\ ~task[u].stale /\ task'[u].got = task[u].got
    BY <1>1, <1>5
  <2> QED
    BY <1>1, <1>6, <2>1, StillSame, PageReadsStay DEF AllFits
<1>10. SelectorReadsFit'
  <2>1. \A u \in Tasks : SelectorAnswer(u)' => SelectorAnswer(u) /\ task'[u].got = task[u].got
    BY <1>1, <1>5 DEF SelectorAnswer
  <2> QED
    BY <1>1, <1>6, <2>1, StillSame, SelectorReadsStay DEF AllFits
<1>11. RollbacksFit'
  BY <1>1, <1>6, RollbacksStay DEF AllFits
<1>12. DefaultFits'
  BY <1>3, <1>6, StillSame DEF DefaultFits
<1>13. ShownFits'
  <2> SUFFICES ASSUME Still' PROVE ShownFits'
    BY DEF ShownFits
  <2>1. Still /\ ShownFits
    BY <1>6, StillSame DEF AllFits
  <2>2. RefreshUnderWay => RefreshUnderWay'
    <3>1. ~(Runs(t, {"settings-refresh"}) /\ task[t].stage \in {"sent", "done"} /\ ~task[t].stale)
      BY <1>4
    <3>2. \A u \in Tasks \ {t} : Runs(u, {"settings-refresh"}) => task'[u].stale = task[u].stale
      BY <1>1
    <3> QED
      BY <1>1, <3>1, <3>2, RefreshStays
  <2>3. (ChoicesFit(menu)' /\ SelectionFits') \/ SelectorUnderWay'
    <3>1. CASE kind \in SelectorRead
      BY <1>1, <3>1 DEF SelectorUnderWay, Runs
    <3>2. CASE kind \notin SelectorRead
      <4>1. SelectorUnderWay => SelectorUnderWay'
        <5>1. ~Runs(t, SelectorRead) /\ ~LiveTask(t)
          BY <1>1, <1>4
        <5>2. \A u \in Tasks \ {t} : Runs(u, SelectorRead) => task'[u].stale = task[u].stale
          BY <1>1
        <5> QED
          BY <1>1, <2>2, <5>1, <5>2, SelectorStays
      <4> QED
        BY <1>1, <1>7, <2>1, <3>2, <4>1 DEF ShownFits, ChoicesFit, ListingsFit, SelectionFits
    <3> QED
      BY <3>1, <3>2
  <2>4. ListingsFit(cached)' \/ RefreshUnderWay'
    BY <1>1, <1>7, <2>1, <2>2 DEF ShownFits, ListingsFit
  <2>5. SettingsFit(page)' \/ RefreshUnderWay'
    BY <1>1, <1>7, <2>1, <2>2 DEF ShownFits, SettingsFit, WithoutDefault
  <2>6. \A u \in Tasks : LiveTask(u)' /\ task'[u].stage = "applied" => page' = GetSettings' \/ RefreshUnderWay'
    <3>1. \A u \in Tasks : LiveTask(u)' /\ task'[u].stage = "applied" => LiveTask(u) /\ task[u].stage = "applied"
      BY <1>1, <1>5
    <3> QED
      BY <1>1, <1>7, <2>1, <2>2, <3>1 DEF ShownFits
  <2> QED
    BY <2>3, <2>4, <2>5, <2>6 DEF ShownFits
<1> QED
  BY <1>7, <1>8, <1>9, <1>10, <1>11, <1>12, <1>13 DEF AllFits

\* After a step that starts and ends nothing, and leaves the page alone.
LEMMA AllKeptStays ==
    ASSUME BaseInv, AllFits, AllKeptTask, UNCHANGED <<server, registry, page, cached>>,
           \A u \in Tasks : /\ task'[u].crossed = task[u].crossed
                            /\ ~Runs(u, SelectorRead) => task'[u].stale = task[u].stale
    PROVE  /\ MutationsStay /\ DefaultIsListed' /\ IndexReadAlone' /\ PageReadsFit' /\ SelectorReadsFit'
           /\ RollbacksFit' /\ GetSettings' = GetSettings
           /\ RefreshUnderWay => RefreshUnderWay'
           /\ Still' => /\ SettingsFit(page)' \/ RefreshUnderWay'
                        /\ \A u \in Tasks : LiveTask(u)' /\ task'[u].stage = "applied" =>
                                                page' = GetSettings' \/ RefreshUnderWay'
                        /\ ListingsFit(cached)' \/ RefreshUnderWay'
<1>1. \A u \in Tasks : /\ StaysTask(u)
                       /\ \A kinds : Runs(u, kinds)' <=> Runs(u, kinds)
                       /\ Mutating(u)' <=> Mutating(u)
  BY AllStay
<1>2. MutationsStay
  BY <1>1 DEF MutationsStay, StaysTask, Early
<1>3. DefaultIsListed' /\ GetSettings' = GetSettings
  BY SameSettings DEF AllFits
<1>4. IndexReadAlone'
  BY <1>1 DEF IndexReadAlone, AllFits
<1>5. PageReadsFit'
  <2>1. \A u \in Tasks : Runs(u, PageReads)' /\ task'[u].stage = "done" /\ ~task'[u].stale =>
            Runs(u, PageReads) /\ task[u].stage = "done" /\ ~task[u].stale /\ task'[u].got = task[u].got
    BY <1>1 DEF StaysTask
  <2> QED
    BY <1>2, <2>1, StillSame, PageReadsStay DEF AllFits
<1>6. SelectorReadsFit'
  <2>1. \A u \in Tasks : SelectorAnswer(u)' => SelectorAnswer(u) /\ task'[u].got = task[u].got
    BY <1>1 DEF SelectorAnswer, StaysTask
  <2> QED
    BY <1>2, <2>1, StillSame, SelectorReadsStay DEF AllFits
<1>7. RollbacksFit'
  BY <1>2, RollbacksStay DEF AllFits
<1>8. RefreshUnderWay => RefreshUnderWay'
  <2> SUFFICES ASSUME NEW u \in Tasks, Runs(u, {"settings-refresh"}), task[u].stage \in {"sent", "done"}, ~task[u].stale
               PROVE  Runs(u, {"settings-refresh"})' /\ task'[u].stage \in {"sent", "done"} /\ ~task'[u].stale
    BY DEF RefreshUnderWay
  <2>1. ~Runs(u, SelectorRead)
    BY Kinds DEF Runs
  <2> QED
    BY <1>1, <2>1 DEF StaysTask
<1>9. ASSUME Still'
      PROVE  /\ SettingsFit(page)' \/ RefreshUnderWay'
             /\ \A u \in Tasks : LiveTask(u)' /\ task'[u].stage = "applied" => page' = GetSettings' \/ RefreshUnderWay'
             /\ ListingsFit(cached)' \/ RefreshUnderWay'
  <2>1. Still /\ ShownFits
    BY <1>2, <1>9, StillSame DEF AllFits
  <2>2. \A u \in Tasks : LiveTask(u)' /\ task'[u].stage = "applied" => LiveTask(u) /\ task[u].stage = "applied"
    BY <1>1 DEF StaysTask
  <2> QED
    BY <1>3, <1>8, <2>1, <2>2 DEF ShownFits, SettingsFit, ListingsFit, WithoutDefault
<1> QED
  BY <1>2, <1>3, <1>4, <1>5, <1>6, <1>7, <1>8, <1>9

LEMMA FromCacheShows ==
    ASSUME BaseInv, AllFits, PrepareFromCache, Undisturbed'
    PROVE  AllFits'
<1>1. /\ ApplySettings(cached) /\ races' = races \cup Outdated(cached)
      /\ UNCHANGED <<server, registry, page, cached, ops>> /\ AllKeptTask
      /\ \A u \in Tasks : /\ ~Runs(u, SelectorRead) => task'[u].stale = task[u].stale
                          /\ task'[u].crossed = task[u].crossed
  BY FromCacheFacts
<1>2. cached.default = server.default
  BY <1>1 DEF Outdated, Undisturbed
<1>3. /\ MutationsStay /\ DefaultIsListed' /\ IndexReadAlone' /\ PageReadsFit' /\ SelectorReadsFit'
      /\ RollbacksFit' /\ GetSettings' = GetSettings
      /\ RefreshUnderWay => RefreshUnderWay'
      /\ Still' => /\ SettingsFit(page)' \/ RefreshUnderWay'
                   /\ \A u \in Tasks : LiveTask(u)' /\ task'[u].stage = "applied" =>
                                           page' = GetSettings' \/ RefreshUnderWay'
                   /\ ListingsFit(cached)' \/ RefreshUnderWay'
  BY <1>1, AllKeptStays
<1>4. menu' = cached /\ (chosenBy' = "settings" => selected' = Preferred(cached))
  BY <1>1 DEF ApplySettings
<1>5. ShownFits'
  <2> SUFFICES ASSUME Still' PROVE (ChoicesFit(menu)' /\ SelectionFits') \/ SelectorUnderWay'
    BY <1>3 DEF ShownFits
  <2>1. CASE RefreshUnderWay'
    BY <2>1 DEF SelectorUnderWay
  <2>2. CASE ListingsFit(cached)'
    <3>1. cached.providers = GetSettings.providers /\ cached.models = GetSettings.models
          /\ cached.default = GetSettings.default
      BY <1>1, <1>2, <1>3, <2>2, SettingsTypes, GetFacts DEF ListingsFit
    <3>2. Preferred(cached) = Preferred(GetSettings)
      BY <3>1, PreferredSame
    <3> QED
      BY <1>1, <1>2, <1>3, <1>4, <2>2, <3>2 DEF ChoicesFit, ListingsFit, SelectionFits
  <2> QED
    BY <1>3, <2>1, <2>2
<1>6. DefaultFits'
  <2> SUFFICES ASSUME NEW u \in Tasks, Runs(u, {"chat-default"})'
               PROVE  /\ \A v \in Tasks \ {u} : ~LiveTask(v)'
                      /\ task'[u].op.id \in server'.models
                      /\ SettingsFit(page)' /\ ListingsFit(cached)' /\ ListingsFit(menu)'
                      /\ Early(u)' => /\ menu'.default = server'.default
                                      /\ task'[u].snap.chosenBy = "settings" =>
                                             task'[u].snap.model = Preferred(GetSettings)'
    BY DEF DefaultFits
  <2>1. /\ \A v \in Tasks : /\ LiveTask(v)' <=> LiveTask(v)
                            /\ task'[v].op = task[v].op /\ task'[v].stage = task[v].stage
                            /\ task'[v].snap = task[v].snap
        /\ Runs(u, {"chat-default"})
    BY <1>1, AllStay DEF StaysTask
  <2>2. /\ \A v \in Tasks \ {u} : ~LiveTask(v)
        /\ task[u].op.id \in server.models
        /\ SettingsFit(page) /\ ListingsFit(cached)
        /\ Early(u) => (task[u].snap.chosenBy = "settings" => task[u].snap.model = Preferred(GetSettings))
    BY <2>1 DEF AllFits, DefaultFits
  <2>3. Preferred(GetSettings)' = Preferred(GetSettings)
    BY <1>3
  <2>4. SettingsFit(page)' /\ ListingsFit(cached)' /\ ListingsFit(menu)'
    BY <1>1, <1>3, <1>4, <2>2 DEF SettingsFit, ListingsFit, WithoutDefault
  <2>5. Early(u)' <=> Early(u)
    BY <2>1 DEF Early
  <2> QED
    BY <1>1, <1>2, <1>4, <2>1, <2>2, <2>3, <2>4, <2>5
<1> QED
  BY <1>3, <1>5, <1>6 DEF AllFits

LEMMA SelectionShows ==
    ASSUME BaseInv, AllFits, ReleaseSelection \/ \E m \in Models : RestoreSelection(m)
    PROVE  AllFits'
<1>1. /\ UNCHANGED <<server, registry, page, cached, menu, task, races>>
      /\ chosenBy' # "settings" /\ AllKeptTask
  BY SelectionFacts
<1>3. /\ MutationsStay /\ DefaultIsListed' /\ IndexReadAlone' /\ PageReadsFit' /\ SelectorReadsFit'
      /\ RollbacksFit' /\ GetSettings' = GetSettings
      /\ Still' => /\ SettingsFit(page)' \/ RefreshUnderWay'
                   /\ \A u \in Tasks : LiveTask(u)' /\ task'[u].stage = "applied" =>
                                           page' = GetSettings' \/ RefreshUnderWay'
                   /\ ListingsFit(cached)' \/ RefreshUnderWay'
  BY <1>1, AllKeptStays
<1>4. SelectorUnderWay' <=> SelectorUnderWay
  BY <1>1 DEF SelectorUnderWay, RefreshUnderWay, Runs, LiveTask
<1>5. ShownFits'
  <2> SUFFICES ASSUME Still' PROVE (ChoicesFit(menu)' /\ SelectionFits') \/ SelectorUnderWay'
    BY <1>3 DEF ShownFits
  <2>1. Still /\ ShownFits
    BY <1>3, StillSame DEF AllFits
  <2> QED
    BY <1>1, <1>3, <1>4, <2>1 DEF ShownFits, ChoicesFit, ListingsFit, SelectionFits
<1>6. DefaultFits'
  <2>1. Preferred(GetSettings)' = Preferred(GetSettings)
    BY <1>3
  <2>2. \A u \in Tasks : /\ Runs(u, {"chat-default"})' <=> Runs(u, {"chat-default"})
                         /\ LiveTask(u)' <=> LiveTask(u)
                         /\ Early(u)' <=> Early(u)
    BY <1>1 DEF Runs, LiveTask, Early
  <2>3. SettingsFit(page)' = SettingsFit(page) /\ ListingsFit(cached)' = ListingsFit(cached) /\ ListingsFit(menu)' = ListingsFit(menu)
    BY <1>1, <1>3 DEF SettingsFit, ListingsFit, WithoutDefault
  <2> QED
    BY <1>1, <2>1, <2>2, <2>3 DEF DefaultFits, AllFits
<1> QED
  BY <1>3, <1>5, <1>6 DEF AllFits

-----------------------------------------------------------------------------
(* The workspace's settings: what is shown, after each step of a mutation. *)

\* A mutation that is checked, or fails, before it has changed anything.
LEMMA EarlyStepShows ==
    ASSUME BaseInv, AllFits, NEW t \in Tasks, Mutating(t), task[t].stage \in {"sent", "checked"},
           NEW s \in {"checked", "failed"}, task' = [task EXCEPT ![t].stage = s],
           UNCHANGED <<server, registry, shownVars>>
    PROVE  AllFits'
<1>1. LiveTask(t) /\ ~Runs(t, Reads)
  BY Kinds DEF Mutating, Runs
<1>2. s \in Stages /\ s # "idle" /\ UNCHANGED <<page, cached, menu, selected, chosenBy>>
  BY DEF Stages, shownVars, selectorVars
<1>3. /\ OthersKeptTask(t) /\ \A u \in Tasks \ {t} : task'[u] = task[u]
      /\ LiveTask(t)' /\ task'[t].op = task[t].op /\ task'[t].stage = s /\ task'[t].snap = task[t].snap
      /\ task'[t].stale = task[t].stale /\ task'[t].crossed = task[t].crossed
  BY <1>1, <1>2, StageMoves
<1>4. \A u \in Tasks : /\ LiveTask(u)' <=> LiveTask(u)
                       /\ task'[u].op = task[u].op /\ task'[u].snap = task[u].snap
                       /\ task'[u].stale = task[u].stale /\ task'[u].crossed = task[u].crossed
                       /\ u # t => task'[u] = task[u]
                       /\ Early(u)' <=> Early(u)
  BY <1>1, <1>3 DEF LiveTask, Early
<1>5. \A u \in Tasks : (\A kinds : Runs(u, kinds)' <=> Runs(u, kinds)) /\ (Mutating(u)' <=> Mutating(u))
  BY <1>4 DEF Runs, Mutating
<1>6. MutationsStay
  BY <1>4, <1>5 DEF MutationsStay
<1>7. DefaultIsListed' /\ GetSettings' = GetSettings
  BY SameSettings DEF AllFits
<1>8. IndexReadAlone'
  BY <1>5 DEF IndexReadAlone, AllFits
<1>9. ~Runs(t, PageReads) /\ ~Runs(t, SelectorRead) /\ ~Runs(t, {"settings-refresh"})
  BY <1>1, Kinds DEF Runs
<1>10. PageReadsFit'
  <2>1. \A u \in Tasks : Runs(u, PageReads)' /\ task'[u].stage = "done" /\ ~task'[u].stale =>
            Runs(u, PageReads) /\ task[u].stage = "done" /\ ~task[u].stale /\ task'[u].got = task[u].got
    BY <1>4, <1>5, <1>9
  <2> QED
    BY <1>6, <2>1, StillSame, PageReadsStay DEF AllFits
<1>11. SelectorReadsFit'
  <2>1. \A u \in Tasks : SelectorAnswer(u)' => SelectorAnswer(u) /\ task'[u].got = task[u].got
    BY <1>4, <1>5, <1>9 DEF SelectorAnswer
  <2> QED
    BY <1>6, <2>1, StillSame, SelectorReadsStay DEF AllFits
<1>12. RollbacksFit'
  BY <1>2, <1>6, RollbacksStay DEF AllFits
<1>13. ShownFits'
  <2>1. RefreshUnderWay => RefreshUnderWay'
    BY <1>3, <1>9, RefreshStays
  <2>2. SelectorUnderWay => SelectorUnderWay'
    BY <1>3, <1>9, <2>1, SelectorStays
  <2>3. \A u \in Tasks : LiveTask(u)' /\ task'[u].stage = "applied" => LiveTask(u) /\ task[u].stage = "applied"
    BY <1>3, <1>4
  <2>4. (Still' => Still) /\ ShownFits
    BY <1>6, StillSame DEF AllFits
  <2> QED
    BY <1>2, <1>7, <2>1, <2>2, <2>3, <2>4 DEF ShownFits, SettingsFit, ListingsFit, ChoicesFit, SelectionFits, WithoutDefault
<1>14. DefaultFits'
  <2>1. Preferred(GetSettings)' = Preferred(GetSettings)
    BY <1>7
  <2>2. SettingsFit(page)' = SettingsFit(page) /\ ListingsFit(cached)' = ListingsFit(cached) /\ ListingsFit(menu)' = ListingsFit(menu)
    BY <1>2, <1>7 DEF SettingsFit, ListingsFit, WithoutDefault
  <2> QED
    BY <1>2, <1>4, <1>5, <2>1, <2>2 DEF DefaultFits, AllFits
<1> QED
  BY <1>7, <1>8, <1>10, <1>11, <1>12, <1>13, <1>14 DEF AllFits

LEMMA EarlyStepsShow ==
    ASSUME BaseInv, AllFits, NEW t \in Tasks, CheckSettings(t) \/ Refuse(t) \/ MutationFails(t), Undisturbed'
    PROVE  AllFits'
<1>1. CASE CheckSettings(t)
  <2>1. /\ Runs(t, Checked) /\ task[t].stage = "sent" /\ UNCHANGED <<server, registry, shownVars>>
        /\ \/ task' = [task EXCEPT ![t].stage = "checked"]
           \/ task' = [task EXCEPT ![t].stage = "failed"]
    BY <1>1 DEF CheckSettings
  <2>2. Mutating(t)
    BY <2>1, Kinds DEF Mutating, Runs
  <2> QED
    BY <2>1, <2>2, EarlyStepShows
<1>2. CASE Refuse(t)
  <2>1. /\ Mutating(t) /\ task[t].stage \in {"sent", "checked"} /\ task' = [task EXCEPT ![t].stage = "failed"]
        /\ UNCHANGED <<server, registry, shownVars>>
    BY <1>2 DEF Refuse, ReadyToExecute, Mutating
  <2> QED
    BY <2>1, EarlyStepShows
<1>3. CASE MutationFails(t)
  <2>1. /\ Mutating(t) /\ task[t].stage \in {"sent", "checked", "stored", "done"}
        /\ task' = [task EXCEPT ![t].stage = "failed"]
        /\ races' = races \cup (IF task[t].stage \in {"stored", "done"} THEN {"lost"} ELSE {})
        /\ UNCHANGED <<server, registry, shownVars>>
    BY <1>3 DEF MutationFails, Mutating
  <2>2. task[t].stage \in {"sent", "checked"}
    BY <2>1 DEF Undisturbed
  <2> QED
    BY <2>1, <2>2, EarlyStepShows
<1> QED
  BY <1>1, <1>2, <1>3

\* Two mutations that are under way have met: the other one is crossed.
LEMMA OthersCrossed ==
    ASSUME BaseInv, NEW t \in Tasks, OthersKeptTask(t), Mutating(t)
    PROVE  \A u \in Tasks \ {t} : Runs(u, Optimistic)' => task'[u].crossed
<1> SUFFICES ASSUME NEW u \in Tasks \ {t}, Runs(u, Optimistic)' PROVE task'[u].crossed
  OBVIOUS
<1>1. Runs(u, Optimistic) /\ StaysTask(u)
  BY OthersStay
<1>2. Mutating(u)
  BY <1>1, Kinds DEF Runs, Mutating
<1>3. task[u].crossed
  BY <1>2 DEF BaseInv, Met
<1> QED
  BY <1>1, <1>3 DEF StaysTask

\* What is listed of the settings with another default.
LEMMA ListedFacts ==
    ASSUME BaseInv, NEW e \in Settings, server' = e, UNCHANGED registry, DefaultIsListed,
           e.models = server.models, e.default \in server.models,
           e.pending = server.pending, e.index = server.index, e.active = server.active, e.auto = server.auto,
           e.zone = server.zone
    PROVE  /\ GetSettings'.models = GetSettings.models
           /\ WithoutDefault(GetSettings)' = WithoutDefault(GetSettings)
<1> DEFINE g == GetSettings
           h == GetSettings'
           N == NoValue
<1>0. server \in Settings /\ registry \subseteq Providers /\ server' \in Settings /\ registry' \subseteq Providers
  BY SettingsTypes
<1>1. /\ g \in Settings /\ g.providers = registry /\ g.default = server.default /\ g.models = ListChatModels(server)
      /\ g.pending = server.pending /\ g.index = server.index
      /\ g.active = server.active /\ g.auto = server.auto /\ g.zone = server.zone
  BY <1>0, GetFacts
<1>2. /\ h \in Settings /\ h.providers = registry /\ h.models = ListChatModels(e)
      /\ h.pending = e.pending /\ h.index = e.index
      /\ h.active = e.active /\ h.auto = e.auto /\ h.zone = e.zone
  <2> DEFINE M == ListChatModels(e)
             a == [e EXCEPT !.providers = registry]
  <2>1. M \in SUBSET Models /\ registry \in SUBSET Providers
    BY <1>0 DEF ListChatModels, Settings
  <2>2. h = [a EXCEPT !.models = M]
    BY DEF GetSettings
  <2> HIDE DEF M, h
  <2>3. /\ a \in Settings /\ a.providers = registry
        /\ a.pending = e.pending /\ a.index = e.index
        /\ a.active = e.active /\ a.auto = e.auto /\ a.zone = e.zone
    BY <2>1 DEF Settings
  <2> HIDE DEF a
  <2>4. /\ h \in Settings /\ h.models = M
        /\ h.providers = a.providers
        /\ h.pending = a.pending /\ h.index = a.index
        /\ h.active = a.active /\ h.auto = a.auto /\ h.zone = a.zone
    BY <2>1, <2>2, <2>3 DEF Settings
  <2> QED
    BY <2>3, <2>4 DEF M
<1>3. ListChatModels(server) = server.models /\ ListChatModels(e) = server.models
  BY DEF ListChatModels, DefaultIsListed
<1>4. h.models = g.models
  BY <1>1, <1>2, <1>3
<1>5. [h EXCEPT !.default = N] = [g EXCEPT !.default = N]
  <2> HIDE DEF g, h, N
  <2> QED
    BY <1>1, <1>2, <1>4 DEF Settings
<1> QED
  BY <1>4, <1>5 DEF WithoutDefault

LEMMA ListedModelsAgain ==
    ASSUME server' \in Settings, registry' \subseteq Providers
    PROVE  GetSettings'.models = ListChatModels(server)'
<1> DEFINE M == ListChatModels(server)'
           a == [server' EXCEPT !.providers = registry']
           h == GetSettings'
<1>1. h = [a EXCEPT !.models = M]
  BY DEF GetSettings
<1> HIDE DEF M, h
<1>2. DOMAIN a = DOMAIN server' /\ "models" \in DOMAIN server'
  BY DEF Settings
<1> HIDE DEF a
<1>3. h.models = M
  BY <1>1, <1>2
<1> QED
  BY <1>3 DEF M, h

LEMMA ExecuteShows ==
    ASSUME BaseInv, AllFits, NEW t \in Tasks, Execute(t)
    PROVE  AllFits'
<1> DEFINE op == task[t].op
           e == server'
<1>1. /\ Mutating(t) /\ LiveTask(t) /\ op \in Offers /\ Accepts(op)
      /\ op.kind \in Mutations
      /\ task[t].stage = IF op.kind \in Checked THEN "checked" ELSE "sent"
      /\ e = Stored(op, server) /\ e \in Settings
      /\ UNCHANGED <<registry, page, cached, menu, selected, chosenBy, ops, races>>
      /\ OthersKeptTask(t) /\ LiveTask(t)' /\ Mutating(t)'
      /\ \A u \in Tasks \ {t} : task'[u] = task[u]
      /\ task'[t].op = op
      /\ task'[t].stage = IF op.kind \in Registers THEN "stored" ELSE "done"
  BY ExecuteFacts
<1>2. /\ e.models = IF op.kind = "delete-provider" THEN {m \in server.models : ProviderOf[m] # op.id}
                    ELSE IF op.kind = "save-model" THEN server.models \cup {op.id}
                    ELSE IF op.kind = "delete-model" THEN server.models \ {op.id} ELSE server.models
      /\ e.default = IF op.kind = "chat-default" THEN op.id
                     ELSE IF op.kind = "delete-provider" /\ server.default \in Models
                             /\ ProviderOf[server.default] = op.id
                          THEN NoValue ELSE server.default
  <2> DEFINE o == op
             x == e
  <2>1. o \in Offers /\ x = Stored(o, server) /\ server \in Settings
    BY <1>1, SettingsTypes
  <2> HIDE DEF o, x
  <2>2. /\ x.models = IF o.kind = "delete-provider" THEN {m \in server.models : ProviderOf[m] # o.id}
                      ELSE IF o.kind = "save-model" THEN server.models \cup {o.id}
                      ELSE IF o.kind = "delete-model" THEN server.models \ {o.id} ELSE server.models
        /\ x.default = IF o.kind = "chat-default" THEN o.id
                       ELSE IF o.kind = "delete-provider" /\ server.default \in Models
                               /\ ProviderOf[server.default] = o.id
                            THEN NoValue ELSE server.default
    BY <2>1, StoredFacts
  <2> QED
    BY <2>2 DEF o, x
<1>3. ~Early(t)' /\ ~StoreStill' /\ ~Still'
  <2>1. ~Early(t)'
    BY <1>1 DEF Early
  <2> QED
    BY <1>1, <2>1 DEF StoreStill, Still, Hidden
<1>4. \A u \in Tasks : /\ task'[u].op = task[u].op /\ (LiveTask(u)' <=> LiveTask(u))
                       /\ \A kinds : Runs(u, kinds)' <=> Runs(u, kinds)
                       /\ Mutating(u)' <=> Mutating(u)
  BY <1>1 DEF LiveTask, Runs, Mutating
<1>5. IndexReadAlone'
  BY <1>4 DEF IndexReadAlone, AllFits
<1>6. PageReadsFit' /\ ShownFits'
  BY <1>3 DEF PageReadsFit, ShownFits
<1>7. RollbacksFit'
  <2>1. \A u \in Tasks \ {t} : Runs(u, Optimistic)' => task'[u].crossed
    BY <1>1, OthersCrossed
  <2> QED
    BY <1>3, <2>1 DEF RollbacksFit
<1>8. op.kind = "chat-default" =>
         /\ \A u \in Tasks \ {t} : ~LiveTask(u)
         /\ op.id \in server.models /\ SettingsFit(page) /\ ListingsFit(cached) /\ ListingsFit(menu)
  BY <1>1 DEF DefaultFits, AllFits, Runs
<1>9. DefaultIsListed'
  <2>1. server.default \in server.models \cup {NoValue} /\ server.models \subseteq Models
    BY SettingsTypes DEF AllFits, DefaultIsListed, Settings
  <2>2. op.kind = "delete-model" => op.id # server.default
    BY <1>1 DEF Accepts
  <2>3. CASE op.kind = "chat-default"
    BY <1>2, <1>8, <2>3 DEF DefaultIsListed
  <2>4. CASE op.kind = "delete-provider"
    BY <1>2, <2>1, <2>4 DEF DefaultIsListed
  <2>5. CASE op.kind \notin {"chat-default", "delete-provider"}
    BY <1>2, <2>1, <2>2, <2>5 DEF DefaultIsListed
  <2> QED
    BY <2>3, <2>4, <2>5
<1>10. SelectorReadsFit'
  <2>1. CASE op.kind \in ChangesChoices
    <3>1. Runs(t, ChangesChoices)'
      BY <1>1, <2>1 DEF Runs
    <3>2. ~ChoicesStill'
      BY <1>3, <3>1 DEF ChoicesStill
    <3> QED
      BY <3>2 DEF SelectorReadsFit
  <2>2. CASE op.kind \notin ChangesChoices
    <3>1. op.kind \notin {"delete-provider", "save-model", "delete-model", "chat-default"}
      BY <2>2 DEF ChangesChoices, Registers
    <3>2. e.models = server.models /\ e.default = server.default
      BY <1>2, <3>1
    <3>3. GetSettings'.models = GetSettings.models
      <4>1. GetSettings.models = ListChatModels(server)
        BY SettingsTypes, GetFacts
      <4>2. GetSettings'.models = ListChatModels(server)'
        <5>1. server' \in Settings /\ registry' \subseteq Providers
          BY <1>1, SettingsTypes
        <5> QED
          BY <5>1, ListedModelsAgain
      <4>3. ListChatModels(server)' = ListChatModels(server)
        BY <3>2 DEF ListChatModels
      <4> QED
        BY <4>1, <4>2, <4>3
    <3> SUFFICES ASSUME ChoicesStill', NEW u \in Tasks, SelectorAnswer(u)' PROVE ChoicesFit(task[u].got)'
      BY DEF SelectorReadsFit
    <3>4. ~Runs(t, ChangesChoices) /\ ~Runs(t, SelectorRead)
      BY <1>1, <2>2, Kinds DEF Runs
    <3>5. u # t
      BY <1>4, <3>4 DEF SelectorAnswer
    <3>6. SelectorAnswer(u) /\ task'[u].got = task[u].got
      BY <1>1, <1>4, <3>5 DEF SelectorAnswer
    <3>7. ChoicesStill
      BY <1>1, <1>4, <3>4 DEF ChoicesStill, Early
    <3>8. ChoicesFit(task[u].got)
      BY <3>6, <3>7 DEF SelectorReadsFit, AllFits
    <3> QED
      BY <1>1, <3>2, <3>3, <3>6, <3>8 DEF ChoicesFit, ListingsFit
  <2> QED
    BY <2>1, <2>2
<1>11. DefaultFits'
  <2>1. CASE op.kind # "chat-default"
    <3>1. ~Runs(t, {"chat-default"})
      BY <2>1 DEF Runs
    <3>2. \A u \in Tasks : ~Runs(u, {"chat-default"})'
      BY <1>1, <1>4, <3>1, NoDefaultNow DEF AllFits
    <3> QED
      BY <3>2 DEF DefaultFits
  <2>2. CASE op.kind = "chat-default"
    <3> SUFFICES ASSUME NEW u \in Tasks, Runs(u, {"chat-default"})'
                 PROVE  /\ \A v \in Tasks \ {u} : ~LiveTask(v)'
                        /\ task'[u].op.id \in server'.models
                        /\ SettingsFit(page)' /\ ListingsFit(cached)' /\ ListingsFit(menu)'
                        /\ ~Early(u)'
      BY DEF DefaultFits
    <3>1. u = t
      BY <1>4, <1>8, <2>2 DEF Runs
    <3>2. /\ e.models = server.models /\ e.default = op.id
      BY <1>2, <2>2
    <3>3. /\ e.pending = server.pending /\ e.index = server.index /\ e.active = server.active
          /\ e.auto = server.auto /\ e.zone = server.zone
      <4> DEFINE id == op.id
      <4>1. e = [server EXCEPT !.default = id] /\ server \in Settings
        BY <1>1, <2>2, SettingsTypes DEF Stored
      <4> HIDE DEF id, e
      <4> QED
        BY <4>1 DEF Settings
    <3>4. /\ GetSettings'.models = GetSettings.models
          /\ WithoutDefault(GetSettings)' = WithoutDefault(GetSettings)
      <4> DEFINE x == e
      <4>1. /\ x \in Settings /\ server' = x /\ registry' = registry /\ DefaultIsListed
            /\ x.models = server.models /\ x.default \in server.models
            /\ x.pending = server.pending /\ x.index = server.index /\ x.active = server.active
            /\ x.auto = server.auto /\ x.zone = server.zone
        BY <1>1, <1>8, <2>2, <3>2, <3>3 DEF AllFits
      <4> HIDE DEF x
      <4> QED
        BY ONLY BaseInv, <4>1, ListedFacts
    <3>5. SettingsFit(page)' /\ ListingsFit(cached)' /\ ListingsFit(menu)'
      BY <1>1, <1>8, <2>2, <3>4 DEF SettingsFit, ListingsFit, WithoutDefault
    <3> QED
      BY <1>1, <1>3, <1>4, <1>8, <2>2, <3>1, <3>2, <3>5
  <2> QED
    BY <2>1, <2>2
<1> QED
  BY <1>5, <1>6, <1>7, <1>9, <1>10, <1>11 DEF AllFits

LEMMA InitializeShows ==
    ASSUME BaseInv, AllFits, NEW t \in Tasks, InitializeRegistry(t)
    PROVE  AllFits'
<1>1. /\ Mutating(t) /\ LiveTask(t) /\ task[t].op.kind \in Registers
      /\ UNCHANGED <<server, page, cached, menu, selected, chosenBy, ops>>
      /\ OthersKeptTask(t) /\ LiveTask(t)' /\ Mutating(t)'
      /\ \A u \in Tasks \ {t} : task'[u] = task[u]
      /\ task'[t].op = task[t].op /\ task'[t].stage = "done"
  BY InitializeFacts
<1>2. ~Early(t)' /\ Runs(t, ChangesChoices)'
  BY <1>1 DEF Early, Runs, ChangesChoices
<1>3. ~StoreStill' /\ ~Still' /\ ~ChoicesStill'
  BY <1>1, <1>2 DEF StoreStill, Still, ChoicesStill, Hidden
<1>4. \A u \in Tasks : /\ \A kinds : Runs(u, kinds)' <=> Runs(u, kinds)
                       /\ Mutating(u)' <=> Mutating(u)
  BY <1>1 DEF LiveTask, Runs, Mutating
<1>5. IndexReadAlone'
  BY <1>4 DEF IndexReadAlone, AllFits
<1>6. PageReadsFit' /\ ShownFits' /\ SelectorReadsFit'
  BY <1>3 DEF PageReadsFit, ShownFits, SelectorReadsFit
<1>7. RollbacksFit'
  <2>1. \A u \in Tasks \ {t} : Runs(u, Optimistic)' => task'[u].crossed
    BY <1>1, OthersCrossed
  <2> QED
    BY <1>2, <2>1 DEF RollbacksFit
<1>8. DefaultIsListed'
  BY <1>1 DEF DefaultIsListed, AllFits
<1>9. DefaultFits'
  <2>1. ~Runs(t, {"chat-default"})
    BY <1>1 DEF Runs, Registers, SavesProvider
  <2>2. \A u \in Tasks : ~Runs(u, {"chat-default"})'
    BY <1>1, <1>4, <2>1, NoDefaultNow DEF AllFits
  <2> QED
    BY <2>2 DEF DefaultFits
<1> QED
  BY <1>5, <1>6, <1>7, <1>8, <1>9 DEF AllFits

LEMMA RunMutationShows ==
    ASSUME BaseInv, AllFits, NEW t \in Tasks, NEW op \in Offers, RunMutation(t, op), Undisturbed'
    PROVE  AllFits'
<1>1. /\ ~LiveTask(t) /\ Offered(op) /\ OverlapsOf(op) \subseteq races'
      /\ UNCHANGED <<server, registry>>
      /\ OthersKeptTask(t)
      /\ task'[t].op = op /\ task'[t].stage = "sent" /\ task'[t].stale = FALSE
      /\ task'[t].crossed = Crossed(op) /\ task'[t].snap = Snapshot(op)
      /\ \A u \in Tasks \ {t} : /\ Mutating(u) => task'[u].crossed = TRUE
                                /\ ~Runs(u, Superseded(op)) => task'[u].stale = task[u].stale
      /\ op.kind \in Optimistic => page' = Project(op)
      /\ op.kind = "chat-default" =>
             selected' = op.id /\ chosenBy' = "settings" /\ UNCHANGED <<page, cached, menu>>
      /\ op.kind \notin Optimistic \cup {"chat-default"} =>
             UNCHANGED <<page, cached, menu, selected, chosenBy>>
  <2>1. /\ ~LiveTask(t) /\ Offered(op) /\ races' = races \cup OverlapsOf(op) \cup Unavailable(op)
        /\ UNCHANGED <<server, registry>>
        /\ OthersKeptTask(t)
        /\ task'[t].op = op /\ task'[t].stage = "sent" /\ task'[t].stale = FALSE
        /\ task'[t].crossed = Crossed(op) /\ task'[t].snap = Snapshot(op)
    BY RunMutationFacts
  <2>2. \A u \in Tasks \ {t} : /\ Mutating(u) => task'[u].crossed = TRUE
                               /\ ~Runs(u, Superseded(op)) => task'[u].stale = task[u].stale
    BY RunMutationFacts
  <2>3. /\ op.kind \in Optimistic => page' = Project(op)
        /\ op.kind = "chat-default" =>
               selected' = op.id /\ chosenBy' = "settings" /\ UNCHANGED <<page, cached, menu>>
        /\ op.kind \notin Optimistic \cup {"chat-default"} =>
               UNCHANGED <<page, cached, menu, selected, chosenBy>>
    BY RunMutationFacts
  <2>4. OverlapsOf(op) \subseteq races'
    BY <2>1
  <2> QED
    BY <2>1, <2>2, <2>3, <2>4
<1>2. op.kind \in Mutations /\ op.kind \notin Reads
  BY OfferFacts, Kinds
<1>3. /\ op.kind = "chat-default" => \A u \in Tasks : ~Runs(u, Reads \cup Mutations)
      /\ \A u \in Tasks : ~Runs(u, {"chat-default"})
      /\ \A u \in Tasks : ~Runs(u, {"settings-index-refresh"})
  <2>1. "default" \notin races' /\ "index" \notin races'
    BY DEF Undisturbed
  <2> QED
    BY <1>1, <1>2, <2>1, NoOverlap
<1>4. /\ LiveTask(t)' /\ Mutating(t)' /\ ~Mutating(t) /\ \A kinds : ~Runs(t, kinds)
      /\ ~Runs(t, {"settings-index-refresh"})' /\ ~Runs(t, PageReads)' /\ ~Runs(t, SelectorRead)'
  BY <1>1, <1>2, Kinds DEF Runs, Mutating, LiveTask
<1>5. \A u \in Tasks \ {t} : /\ StaysTask(u) /\ (LiveTask(u)' <=> LiveTask(u))
                             /\ \A kinds : Runs(u, kinds)' <=> Runs(u, kinds)
                             /\ Mutating(u)' <=> Mutating(u)
                             /\ Early(u)' <=> Early(u)
                             /\ Hidden(u)' => Hidden(u)
  <2> TAKE u \in Tasks \ {t}
  <2>1. StaysTask(u) /\ (\A kinds : Runs(u, kinds)' <=> Runs(u, kinds)) /\ (Mutating(u)' <=> Mutating(u))
    BY <1>1, OthersStay
  <2>2. (Early(u)' <=> Early(u)) /\ (LiveTask(u)' <=> LiveTask(u))
    BY <2>1 DEF StaysTask, Early
  <2>3. Hidden(u)' => Hidden(u)
    BY <2>1, <2>2 DEF StaysTask, Hidden
  <2> QED
    BY <2>1, <2>2, <2>3
<1>6. DefaultIsListed' /\ GetSettings' = GetSettings
  BY <1>1, SameSettings DEF AllFits
<1>7. IndexReadAlone'
  BY <1>3, <1>4, <1>5 DEF IndexReadAlone
<1>8. (StoreStill' => StoreStill) /\ (ChoicesStill' => ChoicesStill)
  BY <1>4, <1>5 DEF StoreStill, ChoicesStill
<1>9. PageReadsFit'
  <2>1. \A u \in Tasks : Runs(u, PageReads)' /\ task'[u].stage = "done" /\ ~task'[u].stale =>
            Runs(u, PageReads) /\ task[u].stage = "done" /\ ~task[u].stale /\ task'[u].got = task[u].got
    BY <1>4, <1>5 DEF StaysTask
  <2> QED
    BY <1>1, <1>8, <2>1, PageReadsStay DEF AllFits
<1>10. SelectorReadsFit'
  <2>1. \A u \in Tasks : SelectorAnswer(u)' => SelectorAnswer(u) /\ task'[u].got = task[u].got
    BY <1>4, <1>5 DEF SelectorAnswer, StaysTask
  <2> QED
    BY <1>1, <1>8, <2>1, SelectorReadsStay DEF AllFits
<1>11. ~Crossed(op) /\ op.kind \in PutsOff => (\A u \in Tasks : ~Mutating(u)) /\ ~RefreshUnderWay
  BY DEF Crossed, Mutating
<1>12. RollbacksFit'
  <2> SUFFICES ASSUME NEW u \in Tasks, Runs(u, Optimistic)', ~task'[u].crossed
               PROVE  SettingsFit(Restored(task[u].op, task[u].snap))'
    BY DEF RollbacksFit
  <2>1. u = t
    <3> SUFFICES ASSUME u # t PROVE FALSE
      OBVIOUS
    <3>1. Mutating(u)
      BY <1>5, Kinds DEF Runs, Mutating
    <3> QED
      BY <1>1, <3>1
  <2>2. op.kind \in Optimistic /\ ~Crossed(op) /\ op.kind \in PutsOff
    BY <1>1, <2>1 DEF Runs, PutsOff
  <2>3. Still /\ ShownFits
    BY <1>11, <2>2 DEF Still, AllFits
  <2>4. SettingsFit(page) /\ page \in Settings
    BY <1>11, <2>2, <2>3, SettingsTypes DEF ShownFits
  <2>5. task'[t].snap = page
    BY <1>1, <2>2, SnapshotFacts
  <2>7. Restored(task[u].op, task[u].snap)' = page
    <3>1. CASE op.kind = "workspace-timezone"
      <4> DEFINE y == ~page.zone
                 z == page.zone
                 p == [page EXCEPT !.zone = y]
      <4>1. page' = p
        BY <1>1, <2>2, <3>1 DEF Project, Effect, SavesProvider
      <4>2. z \in BOOLEAN /\ y \in BOOLEAN
        BY <2>4 DEF Settings
      <4>3. [p EXCEPT !.zone = z] = page
        <5> HIDE DEF y
        <5> QED
          BY <2>4, <4>2 DEF Settings
      <4> HIDE DEF p
      <4>4. Restored(task[u].op, task[u].snap)' = [page' EXCEPT !.zone = z]
        BY <1>1, <2>1, <2>5, <3>1 DEF Restored
      <4> QED
        BY <4>1, <4>3, <4>4
    <3>2. CASE op.kind # "workspace-timezone"
      BY <1>1, <2>1, <2>5, <3>2 DEF Restored
    <3> QED
      BY <3>1, <3>2
  <2> QED
    BY <1>6, <2>4, <2>7 DEF SettingsFit, WithoutDefault
<1>13. ShownFits'
  <2> SUFFICES ASSUME Still' PROVE ShownFits'
    BY DEF ShownFits
  <2>1. /\ op.kind \notin Optimistic \cup {"chat-default"}
        /\ op.kind = "save-model" => ~Crossed(op)
    BY <1>1, <1>4 DEF Still, Hidden
  <2>2. Still /\ ShownFits
    BY <1>4, <1>5 DEF Still, AllFits
  <2>3. op.kind = "save-model" => ~RefreshUnderWay
    BY <1>11, <2>1 DEF PutsOff
  <2>4. Superseded(op) \subseteq {"settings-refresh"} /\ (op.kind # "save-model" => Superseded(op) = {})
    BY <2>1 DEF Superseded
  <2>5. RefreshUnderWay => RefreshUnderWay'
    <3>1. CASE op.kind = "save-model"
      BY <2>3, <3>1
    <3>2. CASE op.kind # "save-model"
      <4>1. \A u \in Tasks \ {t} : task'[u].stale = task[u].stale
        BY <1>1, <2>4, <3>2 DEF Runs
      <4> QED
        BY <1>1, <1>4, <4>1, RefreshStays
    <3> QED
      BY <3>1, <3>2
  <2>6. SelectorUnderWay => SelectorUnderWay'
    <3>1. \A u \in Tasks \ {t} : Runs(u, SelectorRead) => task'[u].stale = task[u].stale
      BY <1>1, <2>4, Kinds DEF Runs
    <3> QED
      BY <1>1, <1>4, <2>5, <3>1, SelectorStays
  <2>7. \A u \in Tasks : LiveTask(u)' /\ task'[u].stage = "applied" => LiveTask(u) /\ task[u].stage = "applied"
    BY <1>1, <1>5 DEF StaysTask
  <2>8. UNCHANGED <<page, cached, menu, selected, chosenBy>>
    BY <1>1, <2>1
  <2> QED
    BY <1>1, <1>6, <2>2, <2>5, <2>6, <2>7, <2>8
       DEF ShownFits, SettingsFit, ListingsFit, ChoicesFit, SelectionFits, WithoutDefault
<1>14. DefaultFits'
  <2>1. \A u \in Tasks \ {t} : ~Runs(u, {"chat-default"})'
    BY <1>3, <1>5
  <2>2. CASE op.kind # "chat-default"
    <3>1. ~Runs(t, {"chat-default"})'
      BY <1>1, <2>2 DEF Runs
    <3> QED
      BY <2>1, <3>1 DEF DefaultFits
  <2>3. CASE op.kind = "chat-default"
    <3>1. \A u \in Tasks : ~LiveTask(u)
      BY <1>3, <2>3, LiveFacts DEF Runs
    <3>2. Still /\ ~RefreshUnderWay /\ ~SelectorUnderWay
      BY <3>1 DEF Still, RefreshUnderWay, SelectorUnderWay, Mutating, Runs
    <3>3. SettingsFit(page) /\ ListingsFit(cached) /\ ChoicesFit(menu) /\ SelectionFits
      BY <3>2 DEF AllFits, ShownFits
    <3>4. op.id \in server.models
      <4>1. op.id \in menu.models
        BY <1>1, <2>3 DEF Offered, Registers, SavesProvider
      <4>2. menu.models = ListChatModels(server)
        BY <3>3, SettingsTypes, GetFacts DEF ChoicesFit, ListingsFit
      <4>3. ListChatModels(server) = server.models
        BY DEF ListChatModels, AllFits, DefaultIsListed
      <4> QED
        BY <4>1, <4>2, <4>3
    <3>5. task'[t].snap = [model |-> selected, chosenBy |-> chosenBy]
      BY <1>1, <2>3, SnapshotFacts
    <3>6. task'[t].snap.chosenBy = "settings" => task'[t].snap.model = Preferred(GetSettings)
      BY <3>3, <3>5 DEF SelectionFits
    <3>7. \A u \in Tasks \ {t} : ~LiveTask(u)'
      BY <1>5, <3>1
    <3>8. UNCHANGED <<server, registry, page, cached, menu>>
      BY <1>1, <2>3
    <3>9. SettingsFit(page)' /\ ListingsFit(cached)' /\ ListingsFit(menu)' /\ menu'.default = server'.default
      BY <1>6, <3>3, <3>8 DEF SettingsFit, ListingsFit, ChoicesFit, WithoutDefault
    <3>10. Preferred(GetSettings)' = Preferred(GetSettings)
      BY <1>6
    <3> QED
      BY <1>1, <2>1, <3>4, <3>6, <3>7, <3>8, <3>9, <3>10 DEF DefaultFits
  <2> QED
    BY <2>2, <2>3
<1> QED
  BY <1>6, <1>7, <1>9, <1>10, <1>12, <1>13, <1>14 DEF AllFits

\* The others of a step that ends a mutation: they are where they were, and void or
\* crossed at most.
LEMMA OthersWhere ==
    ASSUME BaseInv, NEW t \in Tasks, OthersKeptTask(t)
    PROVE  \A u \in Tasks \ {t} :
               /\ LiveTask(u)' <=> LiveTask(u)
               /\ \A kinds : Runs(u, kinds)' <=> Runs(u, kinds)
               /\ Mutating(u)' <=> Mutating(u)
               /\ Early(u)' <=> Early(u)
               /\ Hidden(u)' => Hidden(u)
               /\ SelectorAnswer(u)' => SelectorAnswer(u)
               /\ ~task'[u].stale => ~task[u].stale
               /\ task'[u].op = task[u].op /\ task'[u].stage = task[u].stage
               /\ task'[u].snap = task[u].snap /\ task'[u].got = task[u].got
<1> TAKE u \in Tasks \ {t}
<1>1. StaysTask(u) /\ (\A kinds : Runs(u, kinds)' <=> Runs(u, kinds)) /\ (Mutating(u)' <=> Mutating(u))
  BY OthersStay
<1>2. (Early(u)' <=> Early(u)) /\ (LiveTask(u)' <=> LiveTask(u))
  BY <1>1 DEF StaysTask, Early
<1>3. Hidden(u)' => Hidden(u)
  BY <1>1, <1>2 DEF StaysTask, Hidden
<1>4. SelectorAnswer(u)' => SelectorAnswer(u)
  BY <1>1 DEF StaysTask, SelectorAnswer
<1> QED
  BY <1>1, <1>2, <1>3, <1>4 DEF StaysTask

\* What a commit makes void.
LEMMA CommitVoids ==
    ASSUME NEW op, op.kind \in Mutations
    PROVE  /\ op.kind # "chat-default" => "settings-refresh" \in CommitSupersedes(op)
                                          /\ ReconcileKind(op) = "settings-refresh"
           /\ op.kind = "chat-default" => ReconcileKind(op) = "model-selector-settings"
           /\ op.kind \in ChangesChoices \ {"chat-default"} =>
                  "model-selector-settings" \in CommitSupersedes(op) /\ "model-selector-settings" \in CommitCrosses(op)
<1>1. op.kind \in ChangesChoices \ {"chat-default"} => op.kind \notin Projected
  BY DEF ChangesChoices, Registers, SavesProvider, Projected, OptimisticIndex
<1>2. op.kind \notin Projected => "model-selector-settings" \in CommitSupersedes(op) /\ CommitStores(op)
  BY Kinds DEF CommitSupersedes, CommitStores, Local, Reads
<1>3. op.kind \notin Projected => "model-selector-settings" \in CommitCrosses(op)
  BY <1>2, Kinds DEF CommitCrosses
<1>4. op.kind # "chat-default" => "settings-refresh" \in CommitSupersedes(op)
  BY DEF CommitSupersedes, ReconcileKind, Local, Reads, PageReads
<1> QED
  BY <1>1, <1>2, <1>3, <1>4 DEF ReconcileKind

LEMMA CommitShows ==
    ASSUME BaseInv, AllFits, NEW t \in Tasks, Commit(t)
    PROVE  AllFits'
<1> DEFINE op == task[t].op
<1>1. /\ Runs(t, Mutations) /\ LiveTask(t) /\ task[t].stage = "done" /\ Mutating(t)
      /\ op.kind \in Mutations /\ UNCHANGED <<server, registry>>
      /\ OthersKeptTask(t) /\ TaskFits(task'[t])
      /\ task'[t].op.kind = ReconcileKind(op) /\ task'[t].stage = "sent" /\ task'[t].stale = FALSE
  BY CommitFacts
<1>2. \A u \in Tasks \ {t} :
          /\ Runs(u, CommitSupersedes(op)) => task'[u].stale = TRUE
          /\ Runs(u, CommitCrosses(op)) => task'[u].crossed = TRUE
  BY CommitFacts
<1>3. \A u \in Tasks \ {t} :
          /\ LiveTask(u)' <=> LiveTask(u)
          /\ \A kinds : Runs(u, kinds)' <=> Runs(u, kinds)
          /\ Mutating(u)' <=> Mutating(u)
          /\ Early(u)' <=> Early(u)
          /\ SelectorAnswer(u)' => SelectorAnswer(u)
          /\ ~task'[u].stale => ~task[u].stale
          /\ task'[u].stage = task[u].stage /\ task'[u].got = task[u].got
  BY <1>1, OthersWhere
<1>4. /\ LiveTask(t)' /\ task'[t].op.kind \in {"settings-refresh", "model-selector-settings"}
      /\ ~Mutating(t)' /\ ~Runs(t, {"settings-index-refresh"})' /\ ~Runs(t, {"chat-default"})'
      /\ ~Runs(t, Optimistic)' /\ ~SelectorAnswer(t)'
  <2>1. task'[t].op.kind \in {"settings-refresh", "model-selector-settings"}
    BY <1>1 DEF ReconcileKind
  <2> QED
    BY <1>1, <2>1, Kinds DEF LiveTask, Mutating, Runs, SelectorAnswer
<1>5. GetSettings' = GetSettings /\ DefaultIsListed'
  BY <1>1, SameSettings DEF AllFits
<1>6. IndexReadAlone'
  BY <1>3, <1>4 DEF IndexReadAlone, AllFits
<1>7. \A u \in Tasks \ {t} : ~Runs(u, {"settings-index-refresh"}) /\ ~Runs(u, {"chat-default"})
  <2>1. \A u \in Tasks : ~Runs(u, {"settings-index-refresh"})
    BY <1>1 DEF IndexReadAlone, AllFits
  <2>2. ASSUME NEW u \in Tasks \ {t} PROVE ~Runs(u, {"chat-default"})
    BY <1>1 DEF DefaultFits, AllFits
  <2> QED
    BY <2>1, <2>2
<1>8. DefaultFits'
  BY <1>3, <1>4, <1>7 DEF DefaultFits
<1>9. op.kind = "chat-default" =>
          /\ \A u \in Tasks \ {t} : ~LiveTask(u)
          /\ SettingsFit(page) /\ ListingsFit(cached) /\ ListingsFit(menu)
  BY <1>1 DEF DefaultFits, AllFits, Runs
<1>10. PageReadsFit'
  <2> SUFFICES ASSUME NEW u \in Tasks, Runs(u, PageReads)', task'[u].stage = "done", ~task'[u].stale
               PROVE  FALSE
    BY DEF PageReadsFit
  <2>1. u # t /\ Runs(u, PageReads) /\ LiveTask(u)
    BY <1>1, <1>3 DEF Runs
  <2>2. op.kind # "chat-default"
    BY <1>9, <2>1
  <2>3. task[u].op.kind = "settings-refresh"
    BY <1>7, <2>1, Kinds DEF Runs
  <2>4. Runs(u, CommitSupersedes(op))
    BY <1>1, <2>1, <2>2, <2>3, CommitVoids DEF Runs
  <2> QED
    BY <1>2, <2>1, <2>4
<1>11. SelectorReadsFit'
  <2>1. CASE op.kind \in ChangesChoices
    <3> SUFFICES ASSUME NEW u \in Tasks, SelectorAnswer(u)' PROVE FALSE
      BY DEF SelectorReadsFit
    <3>1. u # t
      BY <1>4
    <3>2. SelectorAnswer(u) /\ LiveTask(u) /\ task[u].op.kind = "model-selector-settings"
      BY <1>3, <3>1, Kinds DEF SelectorAnswer, Runs
    <3>3. op.kind # "chat-default"
      BY <1>9, <3>1, <3>2
    <3>4. Runs(u, CommitSupersedes(op)) /\ Runs(u, CommitCrosses(op))
      BY <1>1, <2>1, <3>2, <3>3, CommitVoids DEF Runs
    <3> QED
      BY <1>2, <3>1, <3>4 DEF SelectorAnswer
  <2>2. CASE op.kind \notin ChangesChoices
    <3>1. ~Runs(t, ChangesChoices)
      BY <2>2 DEF Runs
    <3>2. ChoicesStill' => ChoicesStill
      BY <1>3, <3>1 DEF ChoicesStill
    <3>3. \A u \in Tasks : SelectorAnswer(u)' => SelectorAnswer(u) /\ task'[u].got = task[u].got
      BY <1>3, <1>4
    <3> QED
      BY <1>1, <3>2, <3>3, SelectorReadsStay DEF AllFits
  <2> QED
    BY <2>1, <2>2
<1>12. RollbacksFit'
  <2>1. \A u \in Tasks \ {t} : Runs(u, Optimistic)' => task'[u].crossed
    BY <1>1, OthersCrossed
  <2> QED
    BY <1>4, <2>1 DEF RollbacksFit
<1>13. ShownFits'
  <2>1. CASE op.kind # "chat-default"
    <3>1. Runs(t, {"settings-refresh"})'
      BY <1>1, <1>4, <2>1, CommitVoids DEF Runs
    <3>2. RefreshUnderWay'
      BY <1>1, <3>1 DEF RefreshUnderWay
    <3> QED
      BY <3>2 DEF ShownFits, SelectorUnderWay
  <2>2. CASE op.kind = "chat-default"
    <3>1. CacheChoice /\ UNCHANGED page
      BY <2>2, CommitFacts DEF Projected
    <3>2. cached'.providers = menu.providers /\ cached'.models = menu.models
      BY <3>1, SettingsTypes, ChoiceFacts
    <3>3. SettingsFit(page)' /\ ListingsFit(cached)'
      BY <1>1, <1>5, <1>9, <2>2, <3>1, <3>2 DEF SettingsFit, ListingsFit, WithoutDefault
    <3>4. Runs(t, SelectorRead)'
      BY <1>1, <1>4, <2>2, CommitVoids, Kinds DEF Runs
    <3>5. SelectorUnderWay'
      BY <1>1, <3>4 DEF SelectorUnderWay
    <3>6. \A u \in Tasks : ~(LiveTask(u)' /\ task'[u].stage = "applied")
      BY <1>1, <1>3, <1>9, <2>2
    <3> QED
      BY <3>3, <3>5, <3>6 DEF ShownFits
  <2> QED
    BY <2>1, <2>2
<1> QED
  BY <1>5, <1>6, <1>8, <1>10, <1>11, <1>12, <1>13 DEF AllFits

\* Settings that differ in nothing, nor in their default.
LEMMA DefaultAgain ==
    ASSUME NEW r \in Settings, NEW g \in Settings, WithoutDefault(r) = WithoutDefault(g), r.default = g.default
    PROVE  r = g
<1> DEFINE N == NoValue
<1>1. [r EXCEPT !.default = N] = [g EXCEPT !.default = N]
  BY DEF WithoutDefault
<1> HIDE DEF N
<1>2. /\ [r EXCEPT !.default = N].providers = r.providers /\ [g EXCEPT !.default = N].providers = g.providers
      /\ [r EXCEPT !.default = N].pending = r.pending /\ [g EXCEPT !.default = N].pending = g.pending
      /\ [r EXCEPT !.default = N].index = r.index /\ [g EXCEPT !.default = N].index = g.index
      /\ [r EXCEPT !.default = N].active = r.active /\ [g EXCEPT !.default = N].active = g.active
      /\ [r EXCEPT !.default = N].auto = r.auto /\ [g EXCEPT !.default = N].auto = g.auto
      /\ [r EXCEPT !.default = N].models = r.models /\ [g EXCEPT !.default = N].models = g.models
      /\ [r EXCEPT !.default = N].zone = r.zone /\ [g EXCEPT !.default = N].zone = g.zone
  BY DEF Settings
<1>3. /\ r.providers = g.providers /\ r.pending = g.pending /\ r.index = g.index /\ r.active = g.active
      /\ r.auto = g.auto /\ r.models = g.models /\ r.zone = g.zone
  BY <1>1, <1>2
<1> QED
  BY <1>3 DEF Settings

\* What every rollback leaves alone: it ends a mutation, that is all that the store sees.
LEMMA RollbackStays ==
    ASSUME BaseInv, AllFits, NEW t \in Tasks, Rollback(t)
    PROVE  /\ DefaultIsListed' /\ IndexReadAlone' /\ DefaultFits' /\ PageReadsFit' /\ SelectorReadsFit'
           /\ StoreStill' => StoreStill
           /\ \A u \in Tasks \ {t} : Runs(u, Optimistic)' => task'[u].crossed
           /\ ~LiveTask(t)' /\ GetSettings' = GetSettings
           /\ \A u \in Tasks : LiveTask(u)' /\ task'[u].stage = "applied" => LiveTask(u) /\ task[u].stage = "applied"
<1>1. /\ LiveTask(t) /\ Mutating(t) /\ Early(t)
      /\ UNCHANGED <<server, registry>> /\ OthersKeptTask(t) /\ task'[t] = IdleTask
  BY RollbackFacts DEF Early
<1>2. \A u \in Tasks \ {t} :
          /\ LiveTask(u)' <=> LiveTask(u)
          /\ \A kinds : Runs(u, kinds)' <=> Runs(u, kinds)
          /\ Mutating(u)' <=> Mutating(u)
          /\ Early(u)' <=> Early(u)
          /\ SelectorAnswer(u)' => SelectorAnswer(u)
          /\ ~task'[u].stale => ~task[u].stale
          /\ task'[u].stage = task[u].stage /\ task'[u].got = task[u].got
  BY <1>1, OthersWhere
<1>3. ~LiveTask(t)' /\ ~Mutating(t)' /\ (\A kinds : ~Runs(t, kinds)') /\ ~SelectorAnswer(t)'
  BY <1>1, IdleKeeps DEF SelectorAnswer
<1>4. GetSettings' = GetSettings /\ DefaultIsListed'
  BY <1>1, SameSettings DEF AllFits
<1>5. IndexReadAlone'
  BY <1>2, <1>3 DEF IndexReadAlone, AllFits
<1>6. DefaultFits'
  <2>1. \A u \in Tasks \ {t} : ~Runs(u, {"chat-default"})
    <3> SUFFICES ASSUME NEW u \in Tasks \ {t} PROVE ~Runs(u, {"chat-default"})
      OBVIOUS
    <3> QED
      BY <1>1 DEF DefaultFits, AllFits
  <2> QED
    BY <1>2, <1>3, <2>1 DEF DefaultFits
<1>7. (StoreStill' => StoreStill) /\ (ChoicesStill' => ChoicesStill)
  BY <1>1, <1>2 DEF StoreStill, ChoicesStill
<1>8. PageReadsFit'
  <2>1. \A u \in Tasks : Runs(u, PageReads)' /\ task'[u].stage = "done" /\ ~task'[u].stale =>
            Runs(u, PageReads) /\ task[u].stage = "done" /\ ~task[u].stale /\ task'[u].got = task[u].got
    BY <1>2, <1>3
  <2> QED
    BY <1>1, <1>7, <2>1, PageReadsStay DEF AllFits
<1>9. SelectorReadsFit'
  <2>1. \A u \in Tasks : SelectorAnswer(u)' => SelectorAnswer(u) /\ task'[u].got = task[u].got
    BY <1>2, <1>3
  <2> QED
    BY <1>1, <1>7, <2>1, SelectorReadsStay DEF AllFits
<1>10. \A u \in Tasks \ {t} : Runs(u, Optimistic)' => task'[u].crossed
  BY <1>1, OthersCrossed
<1>11. \A u \in Tasks : LiveTask(u)' /\ task'[u].stage = "applied" => LiveTask(u) /\ task[u].stage = "applied"
  BY <1>2, <1>3
<1> QED
  BY <1>3, <1>4, <1>5, <1>6, <1>7, <1>8, <1>9, <1>10, <1>11

\* The exact snapshot comes back: the page, the cache and the selector show the store's.
LEMMA OptimisticRollbackShows ==
    ASSUME BaseInv, AllFits, NEW t \in Tasks, Rollback(t), task[t].op.kind \in Optimistic, Undisturbed'
    PROVE  AllFits'
<1> DEFINE op == task[t].op
           r == Restored(op, task[t].snap)
<1>1. /\ Mutating(t) /\ Early(t) /\ Runs(t, Optimistic) /\ task[t].snap \in Settings
      /\ UNCHANGED <<server, registry>> /\ UpdateSettings(r)
      /\ races' = races \cup Undone(t) \cup Outdated(r)
      /\ chosenBy \in Choosers /\ selected \in Models \cup {NoValue} /\ page \in Settings
  BY RollbackFacts, Kinds, SettingsTypes DEF Early, Runs
<1>2. ~task[t].crossed /\ r.default = server.default
  <2>1. "undone" \notin races' /\ "outdated" \notin races'
    BY DEF Undisturbed
  <2>2. Undone(t) \subseteq races' /\ Outdated(r) \subseteq races'
    BY <1>1
  <2>3. task[t].crossed => "undone" \in Undone(t)
    BY DEF Undone
  <2>4. r.default # server.default => "outdated" \in Outdated(r)
    BY DEF Outdated
  <2> QED
    BY <2>1, <2>2, <2>3, <2>4
<1>3. r \in Settings
  BY <1>1, RestoredFacts
<1>4. SettingsFit(r)
  BY <1>1, <1>2 DEF RollbacksFit, AllFits
<1>5. r = GetSettings
  <2>1. GetSettings \in Settings /\ GetSettings.default = server.default
    BY SettingsTypes, GetFacts
  <2> HIDE DEF r
  <2> QED
    BY <1>2, <1>3, <1>4, <2>1, DefaultAgain DEF SettingsFit
<1>6. /\ DefaultIsListed' /\ IndexReadAlone' /\ DefaultFits' /\ PageReadsFit' /\ SelectorReadsFit'
      /\ \A u \in Tasks \ {t} : Runs(u, Optimistic)' => task'[u].crossed
      /\ ~LiveTask(t)' /\ GetSettings' = GetSettings
  BY RollbackStays
<1>7. RollbacksFit'
  BY <1>6 DEF RollbacksFit, Runs
<1>8. page' = GetSettings /\ cached' = GetSettings /\ ApplySettings(r)
  BY <1>1, <1>5 DEF UpdateSettings
<1>9. menu' = GetSettings /\ (chosenBy' = "settings" => selected' = Preferred(GetSettings))
  <2> HIDE DEF r
  <2>1. menu' = r /\ (chosenBy' = "settings" => selected' = Preferred(r))
    BY <1>1, <1>3, <1>8, Applied
  <2> QED
    BY <1>5, <2>1
<1>10. ShownFits'
  <2>1. SettingsFit(GetSettings) /\ ListingsFit(GetSettings) /\ ChoicesFit(GetSettings)
    BY GetFits
  <2>2. Preferred(GetSettings)' = Preferred(GetSettings)
    BY <1>6
  <2>3. SettingsFit(page)' /\ page' = GetSettings'
    BY <1>6, <1>8, <2>1 DEF SettingsFit, WithoutDefault
  <2>4. ListingsFit(cached)' /\ ChoicesFit(menu)'
    BY <1>1, <1>6, <1>8, <1>9, <2>1 DEF ChoicesFit, ListingsFit
  <2>5. SelectionFits'
    BY <1>9, <2>2 DEF SelectionFits
  <2> QED
    BY <2>3, <2>4, <2>5 DEF ShownFits
<1> QED
  BY <1>6, <1>7, <1>10 DEF AllFits

\* A default that was not stored: the earlier choice comes back.
LEMMA ChoiceRollbackShows ==
    ASSUME BaseInv, AllFits, NEW t \in Tasks, Rollback(t), task[t].op.kind = "chat-default"
    PROVE  AllFits'
<1>1. /\ LiveTask(t) /\ Runs(t, {"chat-default"}) /\ Early(t) /\ OthersKeptTask(t)
      /\ UNCHANGED <<server, registry, page, cached, menu>>
      /\ selected' = task[t].snap.model /\ chosenBy' = task[t].snap.chosenBy
  BY RollbackFacts DEF Early, Runs, Optimistic, OptimisticIndex
<1>2. /\ \A u \in Tasks \ {t} : ~LiveTask(u)
      /\ SettingsFit(page) /\ ListingsFit(cached) /\ ListingsFit(menu) /\ menu.default = server.default
      /\ task[t].snap.chosenBy = "settings" => task[t].snap.model = Preferred(GetSettings)
  BY <1>1 DEF DefaultFits, AllFits
<1>3. /\ DefaultIsListed' /\ IndexReadAlone' /\ DefaultFits' /\ PageReadsFit' /\ SelectorReadsFit'
      /\ \A u \in Tasks \ {t} : Runs(u, Optimistic)' => task'[u].crossed
      /\ ~LiveTask(t)' /\ GetSettings' = GetSettings
  BY RollbackStays
<1>4. RollbacksFit'
  BY <1>3 DEF RollbacksFit, Runs
<1>5. ShownFits'
  <2>1. \A u \in Tasks : ~LiveTask(u)'
    BY <1>1, <1>2, <1>3, OthersWhere
  <2>2. Preferred(GetSettings)' = Preferred(GetSettings)
    BY <1>3
  <2>3. SettingsFit(page)' /\ ListingsFit(cached)' /\ ChoicesFit(menu)'
    BY <1>1, <1>2, <1>3 DEF SettingsFit, ChoicesFit, ListingsFit, WithoutDefault
  <2>4. SelectionFits'
    BY <1>1, <1>2, <2>2 DEF SelectionFits
  <2> QED
    BY <2>1, <2>3, <2>4 DEF ShownFits
<1> QED
  BY <1>3, <1>4, <1>5 DEF AllFits

\* The others show nothing before they are confirmed.
LEMMA PlainRollbackShows ==
    ASSUME BaseInv, AllFits, NEW t \in Tasks, Rollback(t),
           task[t].op.kind \notin Optimistic \cup {"chat-default"}, Undisturbed'
    PROVE  AllFits'
<1> DEFINE op == task[t].op
<1>1. /\ LiveTask(t) /\ Mutating(t) /\ Early(t) /\ op.kind \in Mutations /\ OthersKeptTask(t)
      /\ task[t].stage = "failed"
      /\ UNCHANGED <<server, registry, page, cached, menu, selected, chosenBy>>
      /\ races' = races \cup (IF op.kind \in PutsOff THEN Undone(t) ELSE {})
      /\ \A u \in Tasks \ {t} : task'[u] = task[u]
  BY RollbackFacts DEF Early
<1>2. Hidden(t)
  <2>1. op.kind = "save-model" => Undone(t) \subseteq races'
    BY <1>1 DEF PutsOff
  <2>2. task[t].crossed => "undone" \in Undone(t)
    BY DEF Undone
  <2>3. "undone" \notin races'
    BY DEF Undisturbed
  <2> QED
    BY <1>1, <2>1, <2>2, <2>3 DEF Hidden
<1>3. /\ DefaultIsListed' /\ IndexReadAlone' /\ DefaultFits' /\ PageReadsFit' /\ SelectorReadsFit'
      /\ \A u \in Tasks \ {t} : Runs(u, Optimistic)' => task'[u].crossed
      /\ ~LiveTask(t)' /\ GetSettings' = GetSettings
      /\ \A u \in Tasks : LiveTask(u)' /\ task'[u].stage = "applied" => LiveTask(u) /\ task[u].stage = "applied"
  BY RollbackStays
<1>4. RollbacksFit'
  BY <1>3 DEF RollbacksFit, Runs
<1>5. \A u \in Tasks \ {t} : (Mutating(u)' <=> Mutating(u)) /\ (Hidden(u)' => Hidden(u))
  BY <1>1, OthersWhere
<1>6. ShownFits'
  <2> SUFFICES ASSUME Still' PROVE ShownFits'
    BY DEF ShownFits
  <2>1. Still /\ ShownFits
    BY <1>2, <1>5 DEF Still, AllFits
  <2>2. op.kind \notin Reads
    BY <1>1, Kinds
  <2>3. RefreshUnderWay => RefreshUnderWay'
    BY <1>1, RefreshStays
  <2>4. ~Runs(t, SelectorRead)
    BY <2>2, Kinds DEF Runs
  <2>5. SelectorUnderWay => SelectorUnderWay'
    BY <1>1, <2>3, <2>4, SelectorStays
  <2> QED
    BY <1>1, <1>3, <2>1, <2>3, <2>5
       DEF ShownFits, SettingsFit, ListingsFit, ChoicesFit, SelectionFits, WithoutDefault
<1> QED
  BY <1>3, <1>4, <1>6 DEF AllFits

LEMMA RollbackShows ==
    ASSUME BaseInv, AllFits, NEW t \in Tasks, Rollback(t), Undisturbed'
    PROVE  AllFits'
<1>1. CASE task[t].op.kind \in Optimistic
  BY <1>1, OptimisticRollbackShows
<1>2. CASE task[t].op.kind = "chat-default"
  BY <1>2, ChoiceRollbackShows
<1>3. CASE task[t].op.kind \notin Optimistic \cup {"chat-default"}
  BY <1>3, PlainRollbackShows
<1> QED
  BY <1>1, <1>2, <1>3

-----------------------------------------------------------------------------
(* The workspace's settings: the theorems. *)

LEMMA SettingsStart == SettingsInit => SettingsInv
<1> SUFFICES ASSUME SettingsInit PROVE SettingsInv
  OBVIOUS
<1>1. /\ registry = server.providers /\ page = GetSettings /\ cached = page /\ menu = page
      /\ selected = Preferred(page) /\ chosenBy = "settings"
      /\ task = [t \in Tasks |-> IdleTask] /\ ops = 0 /\ races = {}
      /\ server = [providers |-> Providers, pending |-> {}, index |-> InitialIndex,
                   active |-> InitialActive, auto |-> {}, models |-> Models,
                   default |-> InitialDefault, zone |-> FALSE]
  BY DEF SettingsInit
<1>2. /\ server.providers = Providers /\ server.index = InitialIndex /\ server.models = Models
      /\ server.default = InitialDefault
  BY <1>1
<1>3. server \in Settings
  BY ONLY <1>1, SettingsAssumption DEF Settings
<1>4. registry \subseteq Providers
  BY <1>1, <1>2
<1>5. page \in Settings
  BY <1>1, <1>3, <1>4, GetFacts
<1>6. selected \in Models \cup {NoValue}
  BY <1>1, <1>5, PreferredFacts
<1>7. \A t \in Tasks : task[t] = IdleTask /\ task[t].stage = "idle" /\ task[t] \in AnyTask /\ TaskFits(task[t])
  BY <1>1, IdleFits
<1>8. task \in [Tasks -> AnyTask]
  BY <1>1, IdleFits
<1>9. \A t \in Tasks : ~LiveTask(t) /\ ~IsStored(t) /\ ~Mutating(t)
  BY <1>7 DEF LiveTask, IsStored, Mutating, Runs
<1>10. \A kinds : \A t \in Tasks : ~Runs(t, kinds)
  BY <1>9 DEF Runs
<1>11. SettingsTypeOK
  <2>1. /\ chosenBy \in {"settings", "chat", "closed"} /\ ops \in 0..MaxOps
        /\ races \subseteq {"index", "default", "mutations", "registry", "lost", "read",
                            "undone", "outdated", "unavailable"}
    <3>1. ops = 0 /\ MaxOps \in Nat
      BY <1>1, SettingsAssumption
    <3>2. ops \in 0..MaxOps
      BY ONLY <3>1
    <3> QED
      BY <1>1, <3>2
  <2>2. ASSUME NEW t \in Tasks
        PROVE  /\ task[t].stage \in {"idle", "sent", "checked", "stored", "done", "applied", "failed"}
               /\ LiveTask(t) <=> task[t].stage # "idle"
               /\ Runs(t, Reads) => task[t].stage \in {"sent", "done", "applied"}
    BY <1>7, <1>10 DEF LiveTask
  <2>3. cached \in Settings /\ menu \in Settings
    BY <1>1, <1>5
  <2> QED
    BY <1>3, <1>4, <1>5, <1>6, <2>1, <2>2, <2>3 DEF SettingsTypeOK
<1>12. RegistryFollows
  BY <1>1, <1>9 DEF RegistryFollows
<1>13. OneByOne /\ Met
  BY <1>1, <1>9, <1>10 DEF OneByOne, Met
<1>14. ReferencesFollow
  <2>1. UsedProviders(server) \subseteq server.providers
    BY <1>2, SettingsAssumption DEF UsedProviders, Exists
  <2>2. server.default \in Models => ProviderOf[server.default] \in server.providers
    BY <1>2, SettingsAssumption
  <2>3. page.providers = registry
    BY <1>1, <1>3, <1>4, GetFacts
  <2>4. \A t \in Tasks : TaskKnows(t)
    BY <1>10 DEF TaskKnows
  <2> QED
    BY <1>1, <2>1, <2>2, <2>3, <2>4 DEF ReferencesFollow, NothingDangles, ProvidersKnown
<1>15. BaseInv
  BY <1>7, <1>8, <1>11, <1>12, <1>13, <1>14 DEF BaseInv, TasksFit
<1>16. AllFits
  <2>1. SettingsFit(page) /\ ListingsFit(cached) /\ ChoicesFit(menu)
    BY <1>1, <1>15, GetFits
  <2>2. SelectionFits
    BY <1>1 DEF SelectionFits
  <2>3. ShownFits
    BY <1>9, <2>1, <2>2 DEF ShownFits
  <2>4. DefaultIsListed
    BY <1>2, SettingsAssumption DEF DefaultIsListed
  <2>5. IndexReadAlone /\ PageReadsFit /\ SelectorReadsFit /\ RollbacksFit /\ DefaultFits
    BY <1>10 DEF IndexReadAlone, PageReadsFit, SelectorReadsFit, SelectorAnswer, RollbacksFit, DefaultFits
  <2> QED
    BY <2>3, <2>4, <2>5 DEF AllFits
<1> QED
  BY <1>15, <1>16 DEF SettingsInv, ShownFollows

\* The history only grows.
LEMMA RacesGrow ==
    ASSUME BaseInv, [SettingsNext]_settingsVars
    PROVE  races \subseteq races'
<1>1. CASE UNCHANGED settingsVars
  BY <1>1 DEF settingsVars
<1>2. ASSUME NEW t \in Tasks, NEW op \in Offers, RunMutation(t, op) PROVE races \subseteq races'
  BY <1>2 DEF RunMutation
<1>3. ASSUME NEW t \in Tasks, NEW kind \in Reads, RunLatest(t, kind) PROVE races \subseteq races'
  BY <1>3 DEF RunLatest
<1>4. ASSUME NEW t \in Tasks, CheckSettings(t) \/ Execute(t) \/ Refuse(t) \/ InitializeRegistry(t) \/ MutationFails(t)
      PROVE  races \subseteq races'
  BY <1>4 DEF CheckSettings, Execute, Refuse, InitializeRegistry, MutationFails
<1>5. ASSUME NEW t \in Tasks, Commit(t) PROVE races \subseteq races'
  BY <1>5, CommitFacts
<1>6. ASSUME NEW t \in Tasks, Rollback(t) PROVE races \subseteq races'
  BY <1>6, RollbackPage
<1>7. ASSUME NEW t \in Tasks, Answer(t) \/ ApplySettingsPayload(t) \/ PrepareSelector(t)
      PROVE  races \subseteq races'
  BY <1>7 DEF Answer, ApplySettingsPayload, PrepareSelector
<1>8. ASSUME NEW t \in Tasks, ApplyToSelector(t) \/ DropStale(t) \/ ReadFails(t)
      PROVE  races \subseteq races'
  BY <1>8 DEF ApplyToSelector, DropStale, ReadFails
<1>9. ASSUME PrepareFromCache \/ ReleaseSelection \/ \E m \in Models : RestoreSelection(m)
      PROVE  races \subseteq races'
  BY <1>9 DEF PrepareFromCache, ReleaseSelection, RestoreSelection
<1> QED
  BY <1>1, <1>2, <1>3, <1>4, <1>5, <1>6, <1>7, <1>8, <1>9 DEF SettingsNext

LEMMA SettingsSteps == SettingsInv /\ [SettingsNext]_settingsVars => SettingsInv'
<1> SUFFICES ASSUME SettingsInv, [SettingsNext]_settingsVars PROVE SettingsInv'
  OBVIOUS
<1>0. BaseInv /\ (Undisturbed' => AllFits)
  <2>1. BaseInv /\ (Undisturbed => AllFits)
    BY DEF SettingsInv, ShownFollows
  <2>2. races \subseteq races'
    BY <2>1, RacesGrow
  <2> QED
    BY <2>1, <2>2, AlreadyOrderly
<1>1. CASE UNCHANGED settingsVars
  <2>1. /\ server' = server /\ registry' = registry /\ page' = page /\ cached' = cached /\ menu' = menu
        /\ selected' = selected /\ chosenBy' = chosenBy /\ task' = task /\ ops' = ops /\ races' = races
    BY <1>1 DEF settingsVars
  <2>2. BaseInv'
    <3>1. AllKeptTask /\ TasksAfter
      BY <2>1, <1>0, SettingsTypes DEF AllKeptTask, KeptTask, TasksAfter
    <3> QED
      BY <1>0, <2>1, <3>1, SettingsTypes, BaseOfAll
  <2>3. Undisturbed' => AllFits'
    <3>1. AllFits => AllFits'
      <4>1. \A t \in Tasks : (LiveTask(t)' <=> LiveTask(t)) /\ (Mutating(t)' <=> Mutating(t))
                             /\ (\A kinds : Runs(t, kinds)' <=> Runs(t, kinds))
                             /\ (Early(t)' <=> Early(t)) /\ (Hidden(t)' <=> Hidden(t))
                             /\ (SelectorAnswer(t)' <=> SelectorAnswer(t))
        BY <2>1 DEF LiveTask, Mutating, Runs, Early, Hidden, SelectorAnswer
      <4>2. GetSettings' = GetSettings /\ (DefaultIsListed' <=> DefaultIsListed)
        BY <2>1, SameSettings
      <4>3. \A s : (SettingsFit(s)' <=> SettingsFit(s)) /\ (ListingsFit(s)' <=> ListingsFit(s)) /\ (ChoicesFit(s)' <=> ChoicesFit(s))
        BY <2>1, <4>2 DEF SettingsFit, ListingsFit, ChoicesFit, WithoutDefault
      <4>4. ASSUME AllFits PROVE IndexReadAlone' /\ PageReadsFit' /\ SelectorReadsFit'
        <5>1. IndexReadAlone'
          BY <4>1, <4>4 DEF IndexReadAlone, AllFits
        <5>2. PageReadsFit'
          BY <2>1, <4>1, <4>2, <4>4 DEF PageReadsFit, StoreStill, AllFits
        <5>3. SelectorReadsFit'
          BY <2>1, <4>1, <4>2, <4>4 DEF SelectorReadsFit, ChoicesStill, ChoicesFit, ListingsFit, AllFits
        <5> QED
          BY <5>1, <5>2, <5>3
      <4>5. ASSUME AllFits PROVE RollbacksFit' /\ DefaultFits'
        <5>1. MutationsStay
          BY <2>1, <4>1 DEF MutationsStay
        <5>2. RollbacksFit'
          BY <2>1, <4>5, <5>1, RollbacksStay DEF AllFits
        <5>3. DefaultFits'
          BY <2>1, <4>1, <4>2, <4>5 DEF DefaultFits, SettingsFit, ListingsFit, WithoutDefault, AllFits
        <5> QED
          BY <5>2, <5>3
      <4>6. ASSUME AllFits PROVE ShownFits'
        <5>1. (RefreshUnderWay' <=> RefreshUnderWay) /\ (SelectorUnderWay' <=> SelectorUnderWay)
          BY <2>1, <4>1 DEF RefreshUnderWay, SelectorUnderWay
        <5>2. Still' <=> Still
          BY <4>1 DEF Still
        <5>3. SelectionFits' <=> SelectionFits
          BY <2>1, <4>2 DEF SelectionFits
        <5>4. ShownFits
          BY <4>6 DEF AllFits
        <5> QED
          BY <2>1, <4>1, <4>2, <5>1, <5>2, <5>3, <5>4 DEF ShownFits, SettingsFit, ListingsFit, ChoicesFit, WithoutDefault
      <4> QED
        BY <4>2, <4>4, <4>5, <4>6 DEF AllFits
    <3> QED
      BY <1>0, <3>1
  <2> QED
    BY <2>2, <2>3 DEF SettingsInv, ShownFollows
<1>2. ASSUME NEW t \in Tasks, NEW op \in Offers, RunMutation(t, op) PROVE SettingsInv'
  BY <1>0, <1>2, RunMutationKeepsBase, RunMutationShows DEF SettingsInv, ShownFollows
<1>3. ASSUME NEW t \in Tasks, NEW kind \in Reads, RunLatest(t, kind) PROVE SettingsInv'
  BY <1>0, <1>3, RunLatestKeepsBase, RunLatestShows DEF SettingsInv, ShownFollows
<1>4. ASSUME NEW t \in Tasks, CheckSettings(t) \/ Refuse(t) \/ MutationFails(t) PROVE SettingsInv'
  BY <1>0, <1>4, CheckSettingsKeepsBase, RefuseKeepsBase, MutationFailsKeepsBase, EarlyStepsShow
     DEF SettingsInv, ShownFollows
<1>5. ASSUME NEW t \in Tasks, Execute(t) \/ InitializeRegistry(t) PROVE SettingsInv'
  BY <1>0, <1>5, ExecuteKeepsBase, InitializeRegistryKeepsBase, ExecuteShows, InitializeShows
     DEF SettingsInv, ShownFollows
<1>6. ASSUME NEW t \in Tasks, Commit(t) PROVE SettingsInv'
  BY <1>0, <1>6, CommitKeepsBase, CommitShows DEF SettingsInv, ShownFollows
<1>7. ASSUME NEW t \in Tasks, Rollback(t) PROVE SettingsInv'
  BY <1>0, <1>7, RollbackKeepsBase, RollbackShows DEF SettingsInv, ShownFollows
<1>8. ASSUME NEW t \in Tasks, Answer(t) PROVE SettingsInv'
  BY <1>0, <1>8, AnswerKeepsBase, AnswerShows DEF SettingsInv, ShownFollows
<1>9. ASSUME NEW t \in Tasks, ApplySettingsPayload(t) PROVE SettingsInv'
  BY <1>0, <1>9, ApplyPayloadKeepsBase, ApplyPayloadShows DEF SettingsInv, ShownFollows
<1>10. ASSUME NEW t \in Tasks, PrepareSelector(t) PROVE SettingsInv'
  BY <1>0, <1>10, PrepareSelectorKeepsBase, PrepareSelectorShows DEF SettingsInv, ShownFollows
<1>11. ASSUME NEW t \in Tasks, ApplyToSelector(t) PROVE SettingsInv'
  BY <1>0, <1>11, ApplyToSelectorKeepsBase, ApplyToSelectorShows DEF SettingsInv, ShownFollows
<1>12. ASSUME NEW t \in Tasks, DropStale(t) PROVE SettingsInv'
  BY <1>0, <1>12, ReadEndsKeepsBase, DropStaleShows DEF SettingsInv, ShownFollows
<1>13. ASSUME NEW t \in Tasks, ReadFails(t) PROVE SettingsInv'
  <2>1. ~Undisturbed'
    BY <1>0, <1>13, ReadFailsFacts DEF Undisturbed
  <2> QED
    BY <1>0, <1>13, <2>1, ReadEndsKeepsBase DEF SettingsInv, ShownFollows
<1>14. ASSUME PrepareFromCache PROVE SettingsInv'
  BY <1>0, <1>14, SelectorStepKeepsBase, FromCacheShows DEF SettingsInv, ShownFollows
<1>15. ASSUME ReleaseSelection \/ \E m \in Models : RestoreSelection(m) PROVE SettingsInv'
  BY <1>0, <1>15, SelectorStepKeepsBase, SelectionShows DEF SettingsInv, ShownFollows
<1> QED
  BY <1>1, <1>2, <1>3, <1>4, <1>5, <1>6, <1>7, <1>8, <1>9, <1>10, <1>11, <1>12, <1>13, <1>14, <1>15
     DEF SettingsNext

\* The inductive invariant of the workspace's settings.
THEOREM SettingsInductive == SettingsSpec => []SettingsInv
BY SettingsStart, SettingsSteps, PTL DEF SettingsSpec

LEMMA SettingsAgreed == SettingsInv => SettingsAgree
<1> SUFFICES ASSUME SettingsInv PROVE SettingsAgree
  OBVIOUS
<1>1. ASSUME Quiet, Undisturbed
      PROVE  SettingsFit(page) /\ SelectionFits
  <2>1. Still /\ ~RefreshUnderWay /\ ~SelectorUnderWay
    BY <1>1 DEF Quiet, Still, Mutating, RefreshUnderWay, SelectorUnderWay, Runs
  <2>2. ShownFits
    BY <1>1 DEF SettingsInv, ShownFollows, AllFits
  <2> QED
    BY <2>1, <2>2 DEF ShownFits
<1>2. QuietPageIsServer /\ QuietSelectionIsDefault
  BY <1>1 DEF QuietPageIsServer, QuietSelectionIsDefault, SettingsFit, SelectionFits
<1>3. RegistryIsStore
  BY DEF SettingsInv, BaseInv, RegistryFollows, RegistryIsStore, IsStored
<1> QED
  BY <1>2, <1>3 DEF SettingsAgree

\* Once nothing is under way the settings page shows what is stored, the selector the
\* stored default, and the backend knows the providers of the store, whether mutations
\* were confirmed or rolled back; but for the overlaps and failures that the history
\* names (settings-ui.js, model-selector.js, settings-coordinator.js).
THEOREM SettingsStayAgreed == SettingsSpec => []SettingsAgree
BY SettingsAgreed, SettingsInductive, PTL

LEMMA NothingDanglesNow == SettingsInv => NoDanglingReference
BY DEF SettingsInv, BaseInv, ReferencesFollow, Orderly, NothingDangles, Available, NoDanglingReference

\* Operations that follow each other leave no embedding index without its provider, and
\* no default model unless one was chosen whose provider the settings listed no more
\* (provider-store.js, settings-coordinator.js, model-selector.js).
THEOREM NothingStaysDangling == SettingsSpec => []NoDanglingReference
BY NothingDanglesNow, SettingsInductive, PTL
=============================================================================
