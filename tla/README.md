# Chat Context RAG: a TLA+ verification project

Chat Context RAG archives chats (Discord, WhatsApp), embeds them into one or more
embedding indexes and answers questions over them. Its backend is a FastAPI process over
PostgreSQL, its clients are an Electron desktop application and a Node web gateway, and a
Discord bot runs in either of them. The interesting part of the program is not any single
function: it is durable work (indexing jobs, projections, synchronisation cursors) that
several processes and many asynchronous handlers share through a database, while any of
them may crash, stall, retry, be cancelled or answer late. That is what is modelled here.

Contents:

1. [Inventory](#1-inventory) of the system
2. [Modules](#2-modules) and the plan
3. [IndexingPipeline](#3-indexingpipeline): the durable indexing pipeline, and GenerationStore
4. [ReadModels](#4-readmodels): the persistent UI projections
5. [DiscordBotSync](#5-discordbotsync): the bot's archive synchronisation
6. [The clients](#6-the-clients): page, desktop application and bot
7. [What makes progress](#7-what-makes-progress): questions to the bot, live indexing
8. [What is proved](#8-what-is-proved)
9. [Disagreements with the documentation](#9-disagreements-with-the-documentation)
10. [What is not modelled](#10-what-is-not-modelled)

To check a run: `tlc -workers 2 -config pipeline.cfg MCIndexingPipeline.tla`; to check the
proofs: `tlapm M.tla` for each of `IndexingPipelineProofs`, `ReadModelsProofs`,
`DiscordBotSyncProofs`, `ProgressProofs`, `DesktopProofs`, `PageProofs`, `SettingsProofs` and
`ClientProofs`. `PROJECT.json` maps every definition to
the lines it models, every property to a mutant of the code that breaks it, and every hazard
to the line where it bites.

## 1. Inventory

### Backend (`backend/`, Python)

| component | state it keeps | operations | interacts with | hard behaviour | what makes it correct |
|---|---|---|---|---|---|
| Ingestion sessions and raw archive (`raw_repository`, `raw_message_writer`, `services`) | `ingestion_sessions`, `ingestion_session_messages`, `source_messages` | create, store a batch, finish, queue indexing later | every connector calls it; finishing queues jobs | storing races closing; edits race running jobs | no stored message is forgotten by the jobs of its session |
| Indexing jobs (`indexing_job_repository`, `indexing_job_sql`, `pending_indexing`, `job_lease`) | `indexing_jobs`, `indexing_job_messages` | queue, claim, renew, retry, cancel, fail, complete | the worker claims; users retry and cancel | leases expire under live workers; retry of a job whose old worker is late | a late worker cannot publish; every job ends |
| Indexing worker (`indexing_worker`, `raw_message_reader`, `chunking`) | thread state, server-side cursor | prepare, read, embed, stage, publish, mark ready | provider gateway, staging, jobs | provider errors, crashes between two transactions | the staged generation is the job's snapshot |
| Staging and publication (`index_staging`, `hybrid_repository`) | `rag_staged_chunks`, `rag_chunks` and their links | prepare, stage, commit | worker, search | overlapping jobs of one index | publication is atomic, disjoint, never loses a message |
| Embedding indexes (`embedding_indexes`, `embedding_index_support`) | `embedding_indexes`, active index | create, activate, delete, auto-sync, sync, rebuild, mark ready or failed | jobs, settings, chat | mark_ready races session closing; delete races activate | one active ready index; a build ends |
| Archive reset (`raw_archive_reset`) | all archive tables | truncate | waits for open cursors | lock order with the staging of an open job | nothing dangles |
| Read models (`read_models/`) | `read_model_refresh_state`, summaries | invalidate, claim, compute, publish, retry, reset, read | every writer, UI reads | invalidation during a refresh, lost leases, two-statement reads | "current" is never said of old values |
| Integration sync state | `integration_sync_states` | list, upsert | Discord bot | whole-row overwrite | see Discord bot |
| WhatsApp import | a session per import | parse, import, finish | ingestion | failure in the middle | session is closed either way |
| Chat and adaptive agent | rounds and evidence of one answer | plan, call tools, answer, stream | retrieval, provider, sessions | budgets, tool failures, repair rounds | bounded rounds, cited evidence exists |
| Chat sessions | `chat_sessions`, messages | create, append, truncate, delete | chat, UI | truncate races append | order and pairing of turns |
| Hybrid retrieval | none | fuse vector and text ranks | chat, bot | ties | deterministic order |
| Discord bot backend | bot settings, answers audit | answer, record delivery | bot | late delivery update | one delivery state |
| Migration export | `migration_exports` snapshot | create, page, delete | archive migration | archive changes while paging | a page sequence is one snapshot |
| Provider registry, model gateway | settings | select, call | worker, chat | network errors | (I/O) |

### Desktop, gateway and bot (`electron/`, `web/`, `runtime/`, `renderer/`, JavaScript)

| component | state it keeps | hard behaviour | what makes it correct |
|---|---|---|---|
| Discord bot archive sync (`discord-bot*.js`) | channel states in memory, write queues, batcher buffers, the client | many handlers at once, queued whole-state writes, un-awaited catch-up, crashes | cursors claim only what is archived; a stop holds; live messages are kept |
| Discord bot questions (`discord-bot-questions`, `-queue`) | one running and five waiting questions per room, cooldowns | admission while a question ends | bound, order, no stuck room |
| Discord browser scanner | one scan, a stall monitor | stop during a page, stall timeouts | one scan at a time, batches not lost |
| Archive migration (`archive-migration*.js`, `migration-*.js`) | a persisted transfer with an acknowledged cursor | lost responses, retries, restart | each page imported at least once, remote session closed |
| Desktop processes (`backend-process`, `main`) | child processes | closing during a restart, two recoveries at once, an exit that stops nothing | at most one backend, none after the end |
| Desktop stores and IPC (`provider-store`, `connection-*`, token stores, IPC handlers) | files of providers, target and token | a file changes between a request and the write | what is stored was tested and belongs together |
| Shared runtime (`sse-client`, `ndjson-stream`, `settings-coordinator`) | streams, queued settings writes | reconnects, partial frames, out-of-order answers | no lost frame, last write wins |
| Web gateway (`auth`, `event-hub`, `indexing-monitor`, ...) | sessions, subscribers | expiry, slow subscribers | no event to an expired session |
| Renderer coordinators | the page's view of all of the above | late answers | stale answers are dropped |

How they interact: connectors (bot, scanner, WhatsApp, migration) create ingestion
sessions, store batches and finish them by HTTP; finishing queues jobs in the same
transaction; the indexing worker, a thread of the API process, claims jobs from the same
database; every transaction that changes canonical data also invalidates projections, which
a second thread refreshes under an advisory lock; chat and search read the published
chunks of the active index at any moment. There is no message broker: all coordination is
rows, row locks, leases and two advisory locks.

## 2. Modules

| module | models | checked by | proofs |
|---|---|---|---|
| `IndexingPipeline` | sessions, archive, jobs, leases, worker, staging, publication, index status, reset: one module, because the parts share rows and transactions | `pipeline`, `fencing`, `settle`, `edit_during_job`, `rebuild`, `catchup_gap` | `IndexingPipelineProofs` |
| `GenerationStore` | what all that promises to a search: the abstract specification that `IndexingPipeline` implements | `fencing` | `IndexingPipelineProofs` |
| `ReadModels` | invalidation, refresh workers, publication, reads of the UI projections | `read_models`, `torn_response` | `ReadModelsProofs` |
| `DiscordBotSync` | connection, history import, catch-up, live batches, commands and state writes of one channel | `discord_sync`, `discord_gap` | `DiscordBotSyncProofs` |
| `DiscordBotQuestions` | admission, queue, answer, delivery and audit of questions to the bot | `progress` | `ProgressProofs` |
| `LiveIndexing` | how a page follows the jobs: monitors, pushes, polls | `progress` | `ProgressProofs` |
| `WorkspaceSettings` | providers, default model and indexes as page, cache, model selector, store, database and backend process hold them | `clients` | `SettingsProofs` |
| `DiscordBotRuntime` | connect, pause, resume, disconnect and restore of the bot's client | `clients` | `DesktopProofs` |
| `BotSettingsPage` | answer model and permissions: page, directory of the bot, database | `clients` | `SettingsProofs` |
| `ArchiveMigration` | the transfer of a local archive to a server, and its panel | `clients` | `DesktopProofs` |
| `ChannelScan` | the browser scanner with its managed scan | `clients` | `DesktopProofs` |
| `OverviewStatus` | the cached status of the archive and the timers that read it again | `clients` | `PageProofs` |
| `PagedLists` | chunks, breakdowns and answer history, a page of rows at a time | `clients` | `PageProofs` |
| `DesktopConnection` | the stored target of the desktop application, tests and saves | `clients` | `DesktopProofs` |
| `DesktopProcess` | the backend process: start, recoveries, and the ends of the application | `clients` | `DesktopProofs` |
| `ChatPage` | questions, opened chats, composer and the backend that stores the turns | `clients` | `PageProofs` |
| `ChatHistory` | the list of recent chats with renames and deletions | `clients` | `PageProofs` |

`MCIndexingPipeline`, `MCReadModels` and `MCDiscordBotSync` give the constants their small
values. `MCClients` and `MCProgress` put components side by side: they extend the modules of the
components, so that their properties are those of the theorems, and a variable `focus` says
which one a behaviour is about, so that each has exactly the behaviours of its module and one
run checks them all. The others do not move: in `MCClients` a component that is out of
focus has a state of rest in which its properties say nothing (`SettingsRest` and so on), and `View`
keeps TLC from telling states apart by what rests. That a component in focus keeps its invariant in the
composition is proved in `ProgressProofs` and `ClientProofs`. The components are not composed further because
nothing that is modelled connects them: they meet in the backend, whose own modules are the first
three of the table.

### Plan

The order is by what a failure would cost: a corrupted or shrinking index first, then
statements about freshness, then sources, then everything that only affects one client.

1. *(done)* `IndexingPipeline`, its runs and the proofs of its type invariant, of whole
   generations, of disjoint publication, of atomic publication and of stable readiness; for one
   worker process and no rebuild also of lasting searchability and complete coverage.
2. *(done)* `ReadModels`, its runs and the proofs of freshness, kept invalidations and
   advancing publication.
3. *(done)* `DiscordBotSync`, its runs, and the proofs of all its properties but the documented one
   that `discord_gap` refutes.
4. *(done)* `GenerationStore`, the refinement as a property of a run and as a theorem.
5. *(done)* The client side (section 6), the questions and the live page (section 7), with the
   proofs of every safety property that a run checks.
6. To model: the two transactions in which an index is deleted
   (`embedding_indexes.py:173-186`), so far one step of `WorkspaceSettings`, and the rows of
   the read models that come and go with it; the lock queues of `TRUNCATE` against an open
   job cursor.
7. To check against a reference definition: the chunker, rank fusion, the parser of WhatsApp
   exports, NDJSON framing.

## 3. IndexingPipeline

**State.** `version` is the content of `source_messages` (0 while a message is unknown, then
one number per edit). `session` holds the status and the linked messages of each ingestion
session; `job` the rows of `indexing_jobs`, one per session and index as the table's unique
constraint says; `created` their order of `created_at`. `snapshot`, `staged` and `published`
are the job's message list, the staged and the published generation: a chunk is a function
from its messages to the versions it was rendered from. `edited[i]` stands for the timestamp
comparison `chunk.updated_at < message.updated_at`: the code never compares anything else.
`pc`, `task`, `todo`, `missing` are the locals of the worker thread of each process.
A worker id is used once, so a restarted process is a new member of `Workers`.

**Actions.** One action is one database transaction, or one in-process step between two of
them. The users' and connectors' transactions are `CreateSession`, `StoreMessages`,
`FinishSession`, `QueueSessionIndexing`, `QueueSync`, `QueueRebuild`, `QueuePending`, `Retry`,
`Cancel`, `DeleteAll`. The worker's are `Start`, `Claim`, `PrepareTotal` (the snapshot),
`PrepareStaging`, `OpenCursor`, `StageBatch`, `CommitStaged`, `MarkReadySelect`,
`MarkReadyCommit`, and after an error `FailJob` and `MarkFailed`. Faults are `Raise` (a provider
or database error anywhere), `Crash`, `Abandon` (a lost call outside the attempt's own error
handling), a lease that runs out although it is being renewed (a stalled process,
`ExpireLease`) and the renewal that notices (`RenewLease`). Transactions that PostgreSQL
would make wait have the wait as a guard: `RowLocked` for the index row of `mark_ready`,
`CursorOpen` for the server-side cursor that `TRUNCATE` waits for.

**Abstractions.** `Groups` partitions the messages into the runs that the chunker may join
(same conversation, near in time): chunks never cross a run, and within a run the model joins
what the snapshot holds. Parts of a text that is too long for one chunk are one chunk here.
Contents, hashes, embeddings, counts, progress and the pruning of old rows are left out.

**Runs and bounds.**

| run | instance | shows |
|---|---|---|
| `pipeline` | 2 messages in one run, 2 sessions, 2 processes one after the other, 2 versions, 1 fault, 1 retry | types, disjoint and whole generations, atomic publication, nothing searchable disappears, completed jobs cover their session, ready indexes stay ready |
| `fencing` | 2 messages in separate runs, 1 session, 3 processes of which 2 alive at once, 2 faults, 1 retry | whole generations and the refinement of `GenerationStore` under two live workers of one job: the lease and the `worker_id` assertions fence the late one off |
| `settle` | 1 message, an initial build in progress, 2 sessions and one for a catch-up, rebuild allowed, 2 processes one after the other, 1 fault, fairness | every job ends, and the index leaves `building` |
| `edit_during_job`, `rebuild`, `catchup_gap` | the smallest instance with the case | violations, see section 9 |

Two messages that share a chunk are enough for every overlap the commit can see (own message,
neighbour pulled in by the snapshot, neighbour edited meanwhile); two jobs of one index are
enough for one to replace the other's chunks; two batches (`BatchSize = 1`, two chunks) are
enough for a fault between them. `pipeline` uses symmetry and a view that forgets the snapshot
rows of jobs at rest, which every attempt replaces before it reads them.

**What does not hold, by design.** With two worker processes alive, `SearchableStays` fails: two
overlapping jobs of one index may each replace the chunk that holds the other's message. The
documentation runs one worker per workspace, and the property is checked with `Replicas = 1`.
A crash between the commit of the job and `mark_ready` (`indexing_worker.py:140`) leaves an
index `building`: the job is completed, so nobody claims it again. `BuildEnds` therefore
exempts behaviours with a fault; the gap itself is listed as a hazard.

**Fairness.** Weak fairness of each worker's steps (the thread runs and polls every second) and of
the expiry of a lease that nobody renews (time passes). Nothing is assumed of users, of
connectors or of faults.

**GenerationStore.** The abstract specification has two variables: the text of every message
and, per index, the chunks a search can return. It changes by `Write` (texts only get newer),
by `Publish` (a set of stored messages is cut into disjoint chunks with texts those messages
had, and replaces exactly the published chunks it touches, or all of them in an index that may
be rebuilt) and by `Clear`. `IndexingPipeline` names it with
`Store == INSTANCE GenerationStore WITH text <- version, search <- published, ...`, and
`ImplementsStore == Store!Spec` says that everything else, sessions, jobs, staging, leases,
retries, two workers of one job, is invisible to a search. `Replaceable` is not only the
indexes a user may rebuild: a job of kind `rebuild` may be carried over from an earlier run
of the process.

## 4. ReadModels

**State.** `messages` and `indexed` are the canonical tables reduced to the counts that the
projections show. `row` is `read_model_refresh_state` (requested and published revision, status,
lease owner); `lease` and `due` say which lease and which debounce or back-off time lies in the
future. `summary` holds the projected values; `pc`, `claim`, `view` are the refresh thread, what it
claimed and its REPEATABLE READ snapshot; `reading` is a GET request between its two statements.

**Actions.** `StoreMessages`, `PublishIndex`, `Activate`, `RequestRefresh`, `ResetArchive` are the
writers, each with the invalidation that its transaction contains. `Start` upgrades the schema
version, `Claim` takes the advisory lock and a row, `Compute` reads the snapshot, `Publish`
completes under the owner and revision checks of `_complete`; `Superseded`, `LeaseLost`, `Raise`,
`RequeueSuperseded` and `RecordFailure` are its other outcomes; `Disconnect` and `Crash` lose the
session and with it the lock. `ReadValues` and `ReadMetadata` are the two statements of a read.
The candidate order of a claim and `SKIP LOCKED` are abstracted to any claimable row; a poll
that finds nothing is no step. Rows of indexes that are created or deleted later are left
to the plan.

**Runs.** `read_models` has the archive projection and one index projection, two processes, one
message, requested revisions up to 3 and one fault. One message is enough to make old and new
counts differ, three revisions to have a claim superseded twice, two processes to have one take
over from the other. It checks safety and, under weak fairness of the refresh threads and of
time, that every stale projection becomes current. `torn_response` is the violation of section 9.

## 5. DiscordBotSync

**State.** Message ids are numbers in the order of posting. `posted` is what Discord has, `stored`
what the archive has; `created` and `running` are the bot's ingestion sessions. `db` is the
channel's row of `integration_sync_states`, `mem` its copy in `DiscordBotStateStore.states`,
`writes` the promise chain of `enqueue` and `sent` whether the backend has executed its head.
`buffer` is the batcher's, `conn` the client, and `task` the handlers that are between two awaits,
each with its own copy of the state, as the closures have.

**Actions.** A step of a handler runs from one await to the next. `Connect`, `ReadStates`, `Load`,
`CatchUpTracked`, `Disconnect`, `Destroy` are the connection; `Post` and `Edit` are Discord's events;
`SyncCommand`, `StopCommand` the slash commands; `OpenSession`, `OpenNewSession`, `Import`,
`LastPage`, `FinishSync` the paging of a history or a catch-up (the two loops differ in the
direction of the page, the cursors they advance and what an empty page means); `Flush`,
`ImportLive`, `FinishLive` a live batch; `SendWrite`, `AckWrite` the two halves of a queued write.
`Refused`, `RequestFails` (executed or not), `WriteFails` and `Crash` are failures, `StopSession` and
`RecordError` the catch blocks. Fetching a page and importing it are one action, because the
fetch changes nothing but the handler; whether the session still runs is decided at the import.

**Runs and bounds.** `discord_sync`: up to two messages, pages of one, two handlers at a time, two
ingestion sessions, any number of reconnections and stops, one failure. Two handlers are what
it takes to have a write prepared before another one's; one failure reaches every catch block and
the restart. With pages of one, every page but the empty one is full; `discord_gap` uses pages
of two and three messages. The bounds in the guards are `Budget` (sessions), one stop at
a time, and an edit only as the first message of a batch.

**What the properties leave out.** `StopHolds` exempts a connection that read the states before the
stop (`load` does not keep a stop, `refresh` does): such a load is what ends `told = "stopped"`.
`NoOrphanSession`, that every running session is held by a handler which will close it, and
`LiveIsKept` hold as long as no request fails: a failed flush drops its batch and a crash leaves
its session running. `HistoryIsComplete` needs no such condition.

**What the proof corrected.** The first attempt at an inductive invariant showed four places where
the module said less than the code. The queue's head was executed as it had been queued; the code
saves what `update` makes of the state known at that moment, and nothing for an unknown channel
(`SendWrite`). The answer of such a write takes over a stop only if the channel is known
(`AckWrite`). A load was exempt from `StopHolds` for as long as its connection lasted, which hid
that a load after the stop is harmless (`Load` now looks at what it has read). And a crash forgot
that a stop had been answered (`Crash`). With three handlers TLC violated the old `StopHolds`.

## 6. The clients

What the modules of this section have in common: a page, a window or a bot handler starts an
operation, waits for an answer, and assigns what it got, while other operations do the same.
Each module holds the state of both sides, one record per operation under way (`task`, `job`,
`call`, `request`, `read`, `mutation`), and one action per piece of code between two awaits.
The bound on operations under way is the size of that set, the bound on how many are started
a constant. A request may fail before or after it was executed where the code distinguishes
nothing.

The properties say what holds once everything has been answered, or never stops holding, and
exempt, by name, the overlaps for which the code does not keep them: a history variable
records that such an overlap has happened. The exemptions are as much a result as the
properties: each is a sequence of legal operations after which the statement is false.

| module | state and code | property | exempted |
|---|---|---|---|
| `WorkspaceSettings` | `server` and `registry`: provider store, rows of indexes, providers the backend process was told (`settings-coordinator`, `provider-store`); `page`, `cached`, `menu`: the three copies of the settings in `settings-ui`, `workspaceCache` and `model-selector`; `selected`, `chosenBy`: the selection; `task`: `runMutation` and `runLatest` of the interaction coordinator | `SettingsAgree`: at rest the page and the backend agree with the store and the selector shows its default, after optimistic changes, commits, late answers and rollbacks. `NoDanglingReference`: no index and no default model without its provider | see below |
| `DiscordBotRuntime` | `store`: token and switch files; `bot`: fields of the controller; `client`: life of each Discord client; `botCall`: `connect`, `pause`, `resume`, `disconnect`, `restore` | `OffMeansOff`: no client is left running that is not the controller's or that is switched off; status and files agree | an older connection fails after a newer one is in place; the token is removed while the bot resumes |
| `BotSettingsPage` | `savedSettings`: database; `directory`: `DiscordBotDirectory.persisted`, which the bot obeys; `botSettings`, `guild`, `results`: the page | `PermissionsAgree`: bot, page and database agree, and a server permits only its own roles and members | a refresh that read before a save returns after it; the bot's copy is replaced while the model is saved (model only); roles of another server on display; a save answered after a switch; failures |
| `ArchiveMigration` | `file`: `archive-migration.json`; `exports`: snapshots of the local backend; `session`: the server; `call`, `runningCall`, `pauseRequested`: the controller; `panel`, `wire`: what the window shows | `ArchiveArrives`: the checkpoint claims only what the server has; nothing is removed, completed or indexed before everything arrived. `MigrationRests`: no snapshot is left over, and the panel always offers a next step | two starts, or a forget and another call, together; `index` is answered when the file is gone or of another migration; a start that fails, or a crash, after the snapshot was made and before the state file was written; a pause after the transfer has stopped |
| `ChannelScan` | `view`: the Discord page; `scan`: scanner and managed scan with `seen`, `pending`, confirmations, stalls; `archive` | `NothingDiscoveredIsDropped`: what a scan observed is stored when it ends. `CompletedScanIsWhole`: "completed" means the first message was reached without a gap | the last flush fails or the application ends; Discord is slow twice in a row at the top |
| `OverviewStatus` | `statusEntry`, `statusRequest`: the workspace cache with its superseded requests; `shown`: page and timers | `StatusIsFollowed`: what the cache calls fresh knows of a job's end that the page was told; a page that shows a read model in preparation will look again | nothing is cached yet: the first status was invalidated before it was answered |
| `PagedLists` | `table`: rows, cursor and button of an appended list; `answerHistory`: its offset, filter and label | `PagesAreInOrder`: no page is missing or shown twice; the label is about what is listed | the first page is drawn again, or the button released, while a next page is awaited; pages answered in another order, or not at all |
| `DesktopConnection` | `saved`: `connection.json`; `running`; `form`; `action`: test, save and start of a migration between request and answer | `TargetsAreTrusted`: nothing goes to an insecure origin that was not accepted, no token to another server, no untested target is stored | none |
| `DesktopProcess` | `app`, `starting`, `recovery`, `closing`: `main.js`; `process`, `child`: `BackendProcess` and the operating system | `NoBackendIsLeft`: an ended application leaves no backend on the port; a run has one | crash of the application; its restart after a saved connection; the window is closed in the middle of a restart of the backend; two such restarts at once |
| `ChatPage` | `chat`: chats with context and turns; `question`: request, entry and mark; `chatPage`: active chat, history, composer; `opening`, `switching`, `deleting` | `ConversationsAreStored`: a chat holds only turns of its own context, the history sent with a question is of its own chat, "stored" is true | the history, when an answer returned to another conversation or a second question preceded the first answer |
| `ChatHistory` | `stored`: backend; `summaries`, `listEntry`: list and cache; `read`, `mutation` | `ListIsServer`: at rest the list is the backend's; a deleted chat does not come back | a lost request; a snapshot that undoes another change; a rename that shares an older read |

**What the settings exempt.** `races` names them: a request that has changed the store and whose answer is
lost ("lost"), a read that fails ("read"), a refresh of the index state during a change ("index"), a default
chosen while anything else is under way ("default"), and two outcomes of a rollback. A failed mutation
that has met another one restores a page that is older than the other, and one that had superseded a
refresh leaves it undone, because nothing is read after a failure ("undone"); and what is restored can give
the selector a default older than the stored one ("outdated"). All other rollbacks are checked. Two
registrations that race ("registry") concern the backend's list only; overlapping mutations ("mutations")
and a model that is chosen although the settings list its provider no more ("unavailable") concern
`NoDanglingReference`, which is therefore about operations that follow each other: the race between the check
of a deletion and the deletion is a known exception and not caught.

**Details that decide.** The cache is what the selector shows until a read is answered. A confirmed choice
caches the defaults under the names `providerId` and `model` (`model-selector.js:237`), which
`applySettings` does not read (`:56-57`), so the selector jumps to the first available model and back
when the read is answered (`CacheChoice`). `index` of a migration is a call that keeps the state it loaded
while the server is asked, and writes that state back. `this.persisted.model = await ...`
(`discord-bot-directory.js:22`) assigns to the copy that was current before the wait
(`UpdateMissesDirectory`). The restart after a saved connection is `app.relaunch` and `app.exit`
(`main.js:291`): `window-all-closed` is not emitted, and nothing stops the backend (`RestartForConnection`).

**Run and bounds.** `clients` checks all eleven. Two interchangeable operations under way reach
every overlap that a property exempts, because each of these races is between two operations; the
bot has three clients, so that a connection can be superseded by one that is superseded. `MaxOps =
2` is two mutations of the settings, or a mutation that fails, or a mutation and a restored chat
or a refresh of the indexes, `MaxBotCalls = 4` four calls and restarts, so that a pause and a
resume meet a connection; `MaxJobs = 4` two overlapping loads and two saves; `MaxCalls = 3` a
start, a resume, an indexing or a forget, and another of them; `MaxMishaps = 2` a lost request and
a crash; `MaxRuns = 2` and `MaxTroubles = 2` a run after one in which a backend hung and a
recovery gave up, or the application crashed; two recoveries under way are what two transfers of
overlapping starts can ask for; `MaxLag = 2` progress messages that have not been rendered; two
scans with one trouble (`MaxScans = 2`, `MaxScanTroubles = 1`) of three messages, two on display
at a time, are a scan that lost or kept what it had and one that resumes; `MaxStatusActs = 3`,
`MaxReads = 5`, `MaxInputs = 5`, `MaxMoves = 3`, `MaxListActs = 3` bound what the user does. The
run has about one million distinct states. Symmetry permutes the operations and the identifiers
that are only compared. Every bound stops behaviours, so deadlock is not checked.

**Assumptions about what is outside.** A destroyed Discord client never becomes ready. Discord adds
older messages when a channel is scrolled to its top; what the scripts read of it is the model.
One stored chat is being opened at a time, and `member` and `role` lists for synchronisation and for
questions are handled alike, so one of them stands for both. The rows of paged lists do not
change while they are read.

**A safeguard that is never reached.** `WrongCount` of `ArchiveMigration`, the comparison of the two
totals before a snapshot is removed, does not fire: the server acknowledges a batch only after
it has stored it. It is kept because it is the code's last line against what the model excludes.

## 7. What makes progress

**DiscordBotQuestions.** `stage` is how far each question is (captured, admitted and waiting, answered,
sent in parts, recorded); `pending` and `running` are the queue of each room, `cooling` the members in
cooldown, `asking` those permitted; `sent` is what is visible in Discord, `audit` the row of the
answer in the backend. `Handle` and `Submit` are the admission, `RunNext` the loop of the queue,
`Answered`, `SendPart`, `RecordDelivery`, `ReportFailure` the steps of one answer; `AnswerFails`, `SendFails`
(the message may have been posted all the same), `RecordFails` and `BotEnds` are faults; permissions
change at any time. `admitted` is a history of admissions. `AnswersInOrder` says that a room answers
one question at a time in the order of admission, that its queue is bounded and never stands still,
and that the audit calls an answer delivered only if all of it is visible. The converse does not
hold: a part may be posted by a request that is reported as failed. `QuestionsEnd` says that
every question is answered, refused or reported unless the process ends.

**LiveIndexing.** `monitor` is the polling of `IndexingMonitor` (or of the main process), `wire` what it
pushes, `linked` the event stream; `list` is what the page holds of active jobs with its timer, `poll`
and `read` its own requests. Pushes are lost while the stream is down, a monitor dies of one failed
read, statuses may be older than pushes. `EndedJobsDisappear` says that a job that is over does not
stay on a visible page for ever, because while any job is listed a poll is scheduled or under way.

**Run, bounds, fairness.** `progress`: three questions of two members in one room, answers of two parts,
one waiting question (`MaximumPending = 1`; the code has five), one fault; one job, one monitor, one
status read, one command, one push under way; 187,936 distinct states. Three questions are one in
progress, one waiting and one refused; a part sent and a part failed need two parts. Weak fairness is
assumed of each question's next step (requests end, in an answer or an error, and the queue's loop
continues on the event loop), of the silence timer, of each status read and of the page's poll.
Nothing is assumed of users, of monitors, of the stream or of the worker.

## 8. What is proved

TLAPS proves, for any number of messages, sessions, indexes, processes, members, rooms,
questions, pages, attempts, servers, backends, clients, scans, chats, providers, models and requests
under way, and any bounds:

| theorem | module | statement |
|---|---|---|
| `TypeCorrect` | `IndexingPipelineProofs` | `Spec => []TypeOK`: types, an owner exactly on running jobs, a job exactly on busy workers |
| `GenerationsAreWhole` | | `Spec => []GenerationWhole` |
| `MessagesPublishedOnce` | | `Spec => []PublishedOnce` |
| `PublicationIsAtomic` | | `Spec => AtomicPublication` |
| `ReadyStays` | | `Spec => ReadyIsStable` |
| `CompletedJobsCover` | | for one process and no rebuild: `Spec => []CompletedJobCovers` |
| `SearchableMessagesStay` | | for one process and no rebuild: `Spec => SearchableStays` |
| `PipelineImplementsStore` | | `Spec => ImplementsStore`: the pipeline implements `GenerationStore` |
| `TypeCorrect` | `ReadModelsProofs` | `Spec => []TypeOK` |
| `FreshnessIsExact` | | `Spec => []FreshIsExact` |
| `InvalidationsKept` | | `Spec => []NoLostInvalidation` |
| `PublicationOnlyAdvances` | | `Spec => PublicationAdvances` |
| `AnswersStayInOrder` | `ProgressProofs` | `QuestionsSpec => []AnswersInOrder` |
| `LiveInductive` | | `LiveSpec => []LiveInv` |
| `ActiveJobsStayCovered` | | `LiveSpec => []PollCoversActiveJobs` |
| `ProgressIsTyped` | | `FairSpec => []ProgressTypeOK`, of the composition `MCProgress` |
| `ProgressKeepsPromises` | | `FairSpec => [](AnswersInOrder /\ PollCoversActiveJobs)`, of the same |
| `TypesKept` | `DiscordBotSyncProofs` | `Spec => []TypeOK` |
| `CompleteHistories` | | `Spec => []HistoryIsComplete` |
| `StopsHold` | | `Spec => []StopHolds` |
| `NoOrphans` | | `Spec => []NoOrphanSession` |
| `LiveMessagesKept` | | `Spec => LiveIsKept` |
| `MigrationTypes` | `DesktopProofs` | `MigrationSpec => []MigrationTypeOK` |
| `ArchiveIsComplete` | | `MigrationSpec => []ArchiveArrives` |
| `MigrationComesToRest` | | `MigrationSpec => []MigrationRests` |
| `ConnectionIsTyped` | | `ConnectionSpec => []ConnectionTypeOK` |
| `TargetsStayTrusted` | | `ConnectionSpec => []TargetsAreTrusted` |
| `ProcessIsTyped` | | `ProcessSpec => []ProcessTypeOK` |
| `BackendsEnd` | | `ProcessSpec => []NoBackendIsLeft` |
| `ScanIsTyped` | | `ScanSpec => []ScanTypeOK` |
| `NothingIsDropped` | | `ScanSpec => []NothingDiscoveredIsDropped` |
| `CompletedIsWhole` | | `ScanSpec => []CompletedScanIsWhole` |
| `RuntimeIsTyped` | | `RuntimeSpec => []RuntimeTypeOK` |
| `OffStaysOff` | | `RuntimeSpec => []OffMeansOff` |
| `StatusStaysFollowed` | `PageProofs` | `StatusSpec => []StatusIsFollowed` |
| `PagesStayInOrder` | | `ListsSpec => []PagesAreInOrder` |
| `ConversationsStayStored` | | `ChatSpec => []ConversationsAreStored` |
| `ListStaysServer` | | `HistorySpec => []ListIsServer` |
| `PermissionsStayAgreed` | `SettingsProofs` | `BotPageSpec => []PermissionsAgree` |
| `SettingsStayAgreed` | | `SettingsSpec => []SettingsAgree` |
| `NothingStaysDangling` | | `SettingsSpec => []NoDanglingReference` |
| `ClientsAreTyped` | `ClientProofs` | `Spec => []ClientsTypeOK`, of the composition `MCClients` |
| `ClientsKeepPromises` | | `Spec => []` each of the fourteen properties that `clients` checks, of the same |

In `DesktopProofs`, `PageProofs` and `SettingsProofs` the inductive invariants are theorems as well
(`MigrationInductive`, `ConnectionInductive`, `ProcessInductive`, `ScanInductive`, `RuntimeInductive`,
`StatusInductive`, `ListsInductive`, `ChatInductive`, `HistoryInductive`, `BotPageInductive`,
`SettingsInductive`); each contains the type invariant of its module.

**Assumptions.** `ConstantsAssumption` (null values are not ids, bounds are numbers) and
`GroupsPartition` (the chunker's runs partition the messages) for the pipeline,
`ReadModelsAssumption` for the read models, `QuestionsAssumption` (every question has a member and
a room, answers have parts) for the questions, `DiscordBotSyncAssumption` (pages and numbers of
messages are natural, null values are not ids) for the bot, `MigrationAssumption`,
`ConnectionAssumption` and `ProcessAssumption` (bounds are natural, null values are not ids, insecure
origins are origins) for the desktop, `RuntimeAssumption` (no token or client is the null value) for
the bot's client, `StatusAssumption`, `ListsAssumption`, `ChatAssumption`, `HistoryAssumption`,
`BotPageAssumption` and `SettingsAssumption` (bounds are natural, null values are not ids, functions of the
constants have their domains, a list has a page) and `LiveAssumption` for the page, `ComponentsAssumption`
(only components there are come into focus) for the composition, and `ScanAssumption` for the scanner: a channel has a message, the page shows at
least two messages and the first one is confirmed by at least two looks. The application asks for
twelve (`discord-channel-scanner.js:22`); with one, a scan would end at its first look at the top, whatever
Discord has still to load, and with a window of one message it would skip every second one. TLC evaluates them in every run of their module.

Two theorems of the pipeline assume more, `OneProcess` (`Replicas = 1`) and `NoRebuildAsked`
(`Rebuildable = {} /\ Carried = {}`), because without it the statements are false of the code. With
two worker processes an older job can commit after a newer one of the same index and take a message
out of the search that the newer had published, without any failure. And a rebuild publishes only
its snapshot, as run `rebuild` shows. One process is what `Dockerfile:15` and
`electron/backend-process.js:44` start; the leases are written for more.

**The pipeline's argument.** `GenerationWhole` speaks of a worker in the middle of its batches. It is
not inductive: one step earlier, when the cursor opens, staging has to be empty (`CleanStart`),
and when a job's snapshot is staged all of it has to be stored (`Known`), or the chunks of the
snapshot would miss what the archive no longer has. The inductive invariant is
`Inv == TypeOK /\ Known /\ CleanStart /\ GenerationWhole /\ PublishedOnce`. Most actions are handled by
one lemma: a step that leaves a worker's own job, ownership and staging alone, or takes the
ownership away, does not disturb it (`Undisturbed`). The rest are the five steps of an attempt.
`PublishedOnce` follows at the commit because the chunks that survive are disjoint from the
snapshot and the staged ones partition it (`ChunksOfPartition`). The action properties follow from
`Inv` and one case per action.

**The argument for `SearchableStays` and `CompletedJobCovers`.** A commit deletes the chunks that
overlap its snapshot, so a message stays searchable if no such chunk holds a message outside of
the snapshot; and the job covers its session if what the snapshot leaves out is published. Both are
true when the snapshot is made, and have to be true still at the commit: that is `Prepared`, a
part of `SearchInv`. It stays true because nobody else publishes in between (`OneAlive`), nothing but
increments is queued (`OnlyIncrements`), and the session of a job is closed, so that it takes no
more messages (`SessionsClosed`).

**The refinement's argument.** A step of the pipeline that leaves `version` and `published` alone is a
stutter of the store; `StoreMessages` is `Write`, `DeleteAll` is `Clear`. What remains is the
commit, which has to be a `Publish`. That needs two facts `Inv` does not hold: the texts that were
staged, or read by a worker that still owns its job, are versions their messages had
(`TextsWereStored`; an edit may have replaced them since), and only indexes that may be rebuilt have
rebuild jobs (`RebuildsAreAllowed`). `StoreInv` adds both to `Inv`. By `GenerationWhole` the staged
chunks are the job's snapshot and by their disjointness each message has one text in them, so they
are a `Generation` of a cut of the snapshot (`ChunksAreAGeneration`), and `CommitPublishes` concludes.

**The questions' argument.** `RoomInOrder` is not inductive: it does not say that waiting questions
have the stage of waiting ones, are distinct, and belong to the room, nor that the room of an
active question is running; without these a second queue loop could start. `QueueInv` says so per
room, and describes the waiting questions position by position, which an admission extends at one
end and `RunNext` shortens at the other. `AuditInv` relates the stage of an answer to the parts sent:
all of them when the delivery is recorded, not all before. `IInv` is both with the types.

**The live page's argument.** `EndedJobsDisappear` is liveness, but what would break it is a state in which
a job is listed and nothing will look at it: the reading of a list, a push, a poll's answer, the silence
timer and the visibility of the page each set or clear the timer. `PollCoversActiveJobs` says there is no
such state; with the types, and that a monitor and a command know their job, it is inductive (`LiveInv`).
That the poll that is scheduled is also made and answered is what fairness adds, and TLC checks.

**The read models' argument.** `FreshIsExact` is about ready rows; a row becomes ready by the
publication of a snapshot taken earlier. `SnapshotSound` says that what a worker computed is
exact as long as no newer revision has been requested, `ClaimSound` that a claim is never ahead
of its row and that nothing newer was published under it, `Requested` that no revision is
published before it was requested; with `Current` and the types they are inductive (`IInv`).

**The bot's argument.** The properties speak of `db`, but what will be in it is in the copies of the
handlers and in the queue. `IInv` says of every state in the model that it is `Sound`: its cursors are
archived, and so is everything down from the oldest one if it calls its history complete. What a
handler relies on is stated relative to its surroundings `Now`, of which every step only makes more
(`Grows`), so one lemma shows that the other handlers' steps keep it. Soundness comes from the paging:
a history page holds the messages next below its edge, so a short one reaches down to the first
message (`HistoryPage`), and the edge never is below the oldest cursor (`EdgeFits`). `Queue` says that
the queue holds one entry of each handler that saves, and that an executed head is what the
backend holds; thus a save that overwrites another, or is executed without an answer, leaves a sound
`db`. `Held` is `NoOrphanSession`; a handler that is `Past` the end of its session has closed it.
`Stops` says that after a stop the backend and the memory are not tracking, which the queued writes
cannot change because each is merged with the memory before it is sent, or that after a crash
nothing is left that could write (`Quiet`).

**The migration's argument.** Again what a call relies on is stated relative to what only moves
forward: a snapshot that still exists stays what it was, and a session of the server never loses what
it has (`Advances`). `TransferOK` says of the state a call holds that the pages before its offset are
in its session; the file, the copy of every call, and the one that a running transfer works on are all
`Truthful` in this sense (`Base`), hence the comparison of totals and the removal come after the last page.
`MigrationRests` has two halves. `Panel`: the last message on the wire to the window, or what the
window shows if there is none, decides which buttons it offers, and no call ends without a message
that offers one, unless the history says so. `Snapshots`: as long as nothing that is exempted
happened (`OrderlyCalls`), every snapshot is that of the file or held by the one call that has just made it
(`KeptIsKnown`, `CreatesAlone`) or is about to forget it (`ForgetsOnce`, `ForgetsTheFile`).

**The connection's argument.** None of the three statements is inductive: they speak of the moment of a
request, while an empty field means what is stored at the moment of the save. `ConnectionInv` says that
the stored origin and token are one pair, entered and tested together, and that the stored
acknowledgement was given (`SavedIsSound`); that a tick belongs to the origin in the form
(`FormIsSound`); and that an action under way with an explicit origin or token tests exactly these
(`ActionIsSound`). Then what a save writes is, field by field, the pair it has tested or the pair that
is stored (`PreparedIsSound`), whatever other action has written in between.

**The processes' argument.** `ProcessInv` follows the backend of the current run: the application knows
it, or is in the first half of a restart that has noted it as its victim (`BackendIsKnown`), and at the
two places where a backend is spawned there is none (`NoneWhereSpawned`), since the second half waits for
the victim. All three hold as long as no two restarts have overlapped (`SingleRestart`), and then at most
one is between its halves (`RestartsAlone`). So a stop finds the one backend there is, except between
the halves, which is an exemption; the other endings stop nothing and are named when they leave one. An earlier run's backend is never mistaken for a current one because no process has a
later run than the application (`RunsFit`).

**The scanner's argument.** `CompletedScanIsWhole` speaks of the first message and of the archive, but
a gap would arise far from both, between two looks at the page. `NoticedIsGapless` says that what
was noticed is everything from some message on, and how far the page may be ahead of it: at a look not at
all, before the next scroll by one message, before the next look by two (`Reached`), which is what the
two messages of a window cover; a change of the channel goes back to its end, a resumption to a message that is
stored. `ObservedIsKept` says that what was noticed is stored or pending, so that what is left when
a scan ends with nothing pending is stored. The first message is noticed when a scan ends
without a stop (`EndsAreSound`), because the confirming look showed at the top what the one before
had shown, and Discord was not slow.

**The bot's client's argument.** `OffMeansOff` is about the moments at which every call is answered;
`RuntimeInv` says what holds between. Every login is awaited by a call (`LoginsAreAwaited`), so a client
that still logs in at rest is a destroyed one; until an older failure has intervened the current client is the
only one that runs, and the switch is on once it is ready (`OneClient`); the controller's fields are what the
files say all along, since a call changes both together, and a resumed token is still stored
unless it was removed meanwhile (`StatusFollows`).

**The page's arguments.** Each of these properties speaks of a moment of rest or of what is on display,
while the danger is in an answer that is still under way. The invariants therefore say the same of
what a request has read as the property says of what is shown.

- *Status* (`StatusInv`). Since an end was marked, no job is active, and every request that has read and
  is not superseded knows it (`EndIsKnown`): whoever may still fill the cache fills it with the truth. The
  timer is set with every rendering of a pending summary over a cached status (`SummaryHasTimer`).
- *Lists* (`ListsInv`). A request belongs to the list that is open (`ListsFit`); one next page at most is
  awaited, with the button disabled, and it is the one the rows ask for (`RowsAreInOrder`); the
  request for a page of the history is that of the offset (`LabelsAreInOrder`).
- *Conversations* (`ChatInv`). `Of` says that a question belongs to a chat: it continues it, is stored in it, or
  has failed. The turns of a chat are the questions stored there under its context, and conversely
  (`TurnsAreStored`, `QuestionsAreStored`); what the page shows, and what was sent along with a
  question, is `Of` one chat (`PageFits`, `HistoriesFit`). For a conversation whose chat does not exist yet
  this needs that only one of its questions is waiting, which is the exemption.
- *List of chats* (`HistoryInv`). At most one read is kept by the cache, and it is the one that reaches the
  list (`OneReadIsKept`). Chat by chat, the list, or the read it waits for, has what the backend has, unless
  an answer has just saved the chat or its deletion is being confirmed (`ListFollows`). A deleted chat is
  absent from both (`GoneStayGone`).
- *Bot settings* (`BotInv`). What was written stays until its operation ends, because a server has one
  save at a time (`OneChange`, `ChangesAreStored`); the directory lacks at most what was written and not yet told
  to it (`DirectoryFollows`), the page, and every read that is not void, at most a change under way
  (`PageFollows`); the subjects of a server, of its results and of its searches are its own (`ServersFit`).

**The settings' argument.** `SettingsInv` is `BaseInv`, which holds always, and `ShownFollows`, which holds
until the history names what `SettingsAgree` exempts. `BaseInv` has, beside the types, `RegistryFollows`: among the
registrations that are stored and not yet told to the backend, the last one has the providers of the
store. `OneByOne`: as long as the history names no overlap, there is one mutation at a time and none
while the indexes are read. Under that condition `ReferencesFollow` bounds what anybody may offer or
choose from: the registry, the page, and every read that is not stale, know no provider but those stored, those
whose deletion is stored and still to be confirmed to the page (`Removed`), and, for the page, the one it shows
optimistically (`Added`). Thus a deletion that was checked is still unrefused when it is executed, and no
choice is offered between a deletion and its confirmation.

`ShownFollows` is `SettingsAgree` before rest. What a read that will be applied or cached has brought is what the
store has, until a mutation changes it (`PageReadsFit`, `SelectorReadsFit`): a mutation that changes the store is
committed, and its commit supersedes those reads. While no mutation shows that is not stored (`Still`), the
page has the settings or a refresh is under way, so has the cache, and the menu and the selection are right or
a read of the selector will follow (`ShownFits`). What a failed change gives back is right as long as it has met no
other mutation (`RollbacksFit`), which is why the meetings have to be known (`Met`). A choice of the
default model has the page for itself until the history names an overlap of it, and remembers the selection
that was right (`DefaultFits`).

**The compositions' argument.** A step of a component in focus is a step of its module and leaves
the others alone, so its invariant is kept by the lemma that keeps it there. A component
that is not in focus rests in a state of few values, which the guards and the exemptions of its
properties cover (`DesktopInv`, `PageInv`).

**Only model-checked.** Liveness (`JobsSettle`, `BuildEnds`, `RefreshSettles`, `QuestionsEnd`,
`EndedJobsDisappear`): temporal reasoning under fairness is out of this prover's reach. Every invariant
and every action property that a passing run checks is a theorem, two of them under the assumptions above.

## 9. Disagreements with the documentation

Each of these is a run that TLC finds violated; `PROJECT.json` quotes the line.

- `edit_during_job`: an edit between the reading of the job's cursor and its commit is older than
  the published chunk, so no later job re-embeds it.
- `rebuild`: the snapshot of a rebuild leaves out what is up to date, and its commit deletes all
  chunks first: rebuilding an up-to-date index publishes an empty one.
- `catchup_gap`: a session that closes between the catch-up selection of `mark_ready` and its commit
  gets neither a catch-up nor a job.
- `torn_response`: values and metadata of one response are two statements; a refresh in between
  labels old values as current.
- `discord_gap`: live messages are flushed before and while the startup catch-up runs and move the
  newest cursor past messages that it has not fetched.

Others were met while modelling the clients. They have no run of their own; they are why the
properties of section 6 have the exemptions they have:

- "an older server snapshot cannot replace a newer local commit" (`docs/renderer-shell.md:177-178`):
  refreshes of the index state and mutations use different revision keys, so the answer of a
  refresh that was sent before a change can replace it (`races` of `WorkspaceSettings`).
- "the snapshot is retained whenever verification or cleanup fails" (`docs/setup.md:196-197`): a
  deletion that was executed although its answer was lost is a failed cleanup without a snapshot.
- "one central status poll follows it" (`docs/renderer-shell.md:211-213`): no timer is set if the
  first status was invalidated while its request was under way.
- Mutations invalidate the list of chats, and a read in flight is shared
  (`docs/renderer-shell.md:151-155`): the reconciliation of a rename can be answered by a
  read that was sent before it.
- "changing any of these composer settings starts a new chat" (`docs/chat-retrieval.md:161-162`): a
  chosen model ends the chat only when its save is confirmed, so a question asked meanwhile goes
  to the old chat with the new model and is refused; a source that is no longer listed, or a new
  default model, changes the composer and keeps the chat.
- "rolled back from an exact snapshot when the authoritative request fails" (`docs/renderer-shell.md:160-161`):
  the snapshot is of all the settings the page shows. A rollback also takes back what another mutation
  has confirmed meanwhile, nothing is read again after it, and the selector can be given an older
  default (`"undone"` and `"outdated"`).
- "A successful mutation updates local state and the workspace cache" (`docs/renderer-shell.md:173-174`): the
  confirmed default is cached under names that the selector does not read, so its selection jumps
  to another model until the reconciling read is answered, and stays there if that fails.
- "A referenced provider cannot be deleted" (`docs/model-settings.md:83`): the check and the deletion are
  separate steps, and a new default is not checked at all (`settings-coordinator.js:36-57`). An index or a
  default stored in between, or chosen although its provider is listed no more, has no provider.
- A default model of the bot that is saved while the settings are read is in the database, and the bot
  and its page keep the old one (`discord-bot-directory.js:22`).
- `index` of a migration that is answered after the state was removed, and perhaps made anew, writes the
  old state over it (`archive-migration.js:95-109`); a new snapshot has no owner then.
- "then persists the encrypted token and restarts the application" (`docs/architecture.md:66`): the restart
  stops no backend, so that the backend of the last run keeps the port of the next.
- A question whose answer stream is lost is marked as not stored although its turn may have been.

## 10. What is not modelled

- *WhatsApp import.* One more client of the ingestion sessions of `IndexingPipeline`; its own code is
  line-by-line recognition of text.
- *Chat and adaptive agent, hybrid retrieval.* A sequential loop around model calls, whose decisions
  are the model's answers, and a stateless fusion of two rankings. How answers are streamed,
  cancelled and stored is in `ChatPage`.
- *Provider registry, model gateway.* Network calls; their failures are faults of the modules above.
- *Login, passwords, encryption, request parsing, NDJSON framing.* Pure conversions or comparisons of
  secrets, without state that a second actor changes.
- *Markup, formatting, dialogs, the shell, DOM extraction.* Drawing and reading of a page.
- *Merging of synchronisation states at the end of a migration* (`web/migration-router.js:68-84`). It is
  one successful request of `ArchiveMigration`; its read, merge and write are three requests, between
  which a bot of the server could move a cursor.
- *Two transactions of an index deletion, lock queues of TRUNCATE.* In the plan.
- *The user's own scrolling during a scan.* `ChannelScan` is a Discord page that only the scanner moves.
- *Edits of a listed chat model.* They are one more `save-model`; a marking of the settings cache as stale
  makes the next read of it a request, which `WorkspaceSettings` allows at any time.
- *Several channels of the bot.* They share no cursor; they do share the client and the state load.

Message contents, hashes, embeddings and ranking values do not influence the control that is
modelled. `PROJECT.json` lists every component with its status. One defect outside the modules was
met while reading: `PostgresEmbeddingIndexRepository.create` uses `uuid`, which the module does not
import (`embedding_indexes.py:76`).
