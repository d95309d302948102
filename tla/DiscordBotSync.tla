---------------------------- MODULE DiscordBotSync ----------------------------
(***************************************************************************)
(* How the Discord bot archives one tracked channel: a history import and a *)
(* catch-up page through Discord and save cursors, live messages are        *)
(* buffered and flushed, commands start and stop the tracking. All of them  *)
(* are asynchronous tasks of one process; they share the in-memory channel  *)
(* state, whose writes to the backend are queued one after the other, each  *)
(* write replacing the whole state.                                         *)
(*                                                                          *)
(* A step of a task runs from one await to the next. Message ids are the    *)
(* order of posting; the label and error fields of a state are left out.    *)
(***************************************************************************)
EXTENDS Integers, Sequences, FiniteSets, FiniteSetsExt

CONSTANTS
    Tasks,         \* concurrent invocations of the bot's handlers
    PageSize,      \* messages per page of Discord's history (100)
    MaxId,         \* bound: messages posted to the channel
    MaxSessions,   \* bound: ingestion sessions opened
    MaxFaults      \* bound: crashes and failed requests

ASSUME DiscordBotSyncAssumption ==
    /\ PageSize \in Nat \ {0}
    /\ {MaxId, MaxSessions, MaxFaults} \subseteq Nat
    /\ {"nothing", "stopped"} \cap Tasks = {}

VARIABLES
    posted,     \* messages 1..posted are in the channel
    stored,     \* the ones in source_messages
    created,    \* ingestion sessions of the bot: 1..created exist,
    running,    \* and these are still running
    db,         \* the row of integration_sync_states
    mem,        \* stateStore.states
    writes,     \* the write queue of the channel; its head is being executed
    sent,       \* whether the backend has executed the head
    buffer,     \* the live messages of the batcher
    conn,       \* the Discord client
    task,       \* the running handlers
    told,       \* the stop command under way, then its answer: until a sync command or
                \* a connection that read the states before the stop
    faults

vars == <<posted, stored, created, running, db, mem, writes, sent, buffer, conn, task, told,
          faults>>
sessionVars == <<created, running>>
archiveVars == <<stored, sessionVars>>
queueVars   == <<db, mem, writes, sent>>

-----------------------------------------------------------------------------

\* Cursors and session ids are 0 where the program has null.
NoState == [known |-> FALSE, oldest |-> 0, newest |-> 0, session |-> 0, done |-> FALSE,
            tracking |-> FALSE]
NewState == [NoState EXCEPT !.known = TRUE, !.tracking = TRUE]

\* mergeState: the defaults, overridden by what is known, overridden by tracking.
Merged(state, tracking) ==
    [(IF state.known THEN state ELSE NewState) EXCEPT !.tracking = tracking]

\* A running handler: what it does, the step it is at, the step after a pending
\* write, its copy of the channel state, its ingestion session, where its paging
\* stands, the messages in hand, whether the connection it started on is still open,
\* whether a command started it and whether its catch block is in force.
NoTask == [kind |-> "none", pc |-> "none", next |-> "none", state |-> NoState, session |-> 0,
           edge |-> 0, page |-> {}, online |-> FALSE, command |-> FALSE, guarded |-> FALSE]

Free(t)    == task[t] = NoTask
Syncing(t) == task[t].kind \in {"history", "catchup"}
At(t, pc)  == task[t].pc = pc

\* Bound: a handler that may open a session starts only if one is left.
Budget == created + Cardinality({t \in Tasks : ~Free(t)}) < MaxSessions

\* Events reach the handlers from the login on, before the states are loaded.
Listening == conn \in {"login", "loaded", "on", "closing"}

\* The permissions of a command are loaded after the states of the first connection.
Permitted == Listening /\ (mem.known \/ conn # "login")

Init ==
    /\ posted \in 0..MaxId
    /\ stored = {}
    /\ created = 0
    /\ running = {}
    /\ db = NoState
    /\ mem = NoState
    /\ writes = <<>>
    /\ sent = FALSE
    /\ buffer = {}
    /\ conn = "off"
    /\ task = [t \in Tasks |-> NoTask]
    /\ told = "nothing"
    /\ faults = 0

-----------------------------------------------------------------------------
(* The serialised state writes. *)

\* Mutant of PreserveStop: a write may switch the tracking on again.
KeepAsIs(state) == state

\* preserveStop
PreserveStop(state) ==
    IF mem.known /\ ~mem.tracking THEN [state EXCEPT !.tracking = FALSE] ELSE state

Enqueue(t, state) == writes' = Append(writes, [task |-> t, state |-> state])

\* Task t, changed to r, saves a state and goes on at next once the write has run.
\* NoState stands for what the memory holds by then (stateStore.update).
Save(t, r, state, next) ==
    /\ Enqueue(t, state)
    /\ task' = [task EXCEPT ![t] = [r EXCEPT !.pc = "saving", !.next = next]]

\* The entry takes the state that the backend has saved and will answer with; an
\* update of a channel that the memory does not know sends nothing.
SendWrite ==
    LET asked == Head(writes).state
        state == PreserveStop(IF asked.known THEN asked ELSE mem)
    IN
    /\ writes # <<>>
    /\ ~sent
    /\ db' = IF state.known THEN state ELSE db
    /\ writes' = [writes EXCEPT ![1].state = state]
    /\ sent' = TRUE
    /\ UNCHANGED <<posted, archiveVars, mem, buffer, conn, task, told, faults>>

\* The memory takes the saved state over, and the task goes on with it.
AckWrite ==
    LET t == Head(writes).task
        r == task[t]
        saved == PreserveStop(Head(writes).state)
    IN
    /\ writes # <<>>
    /\ sent
    /\ mem' = IF saved.known THEN saved ELSE mem
    /\ writes' = Tail(writes)
    /\ sent' = FALSE
    /\ task' = [task EXCEPT ![t] =
                  IF r.next = "end" THEN NoTask
                  ELSE IF r.next = "refresh"
                  THEN [NoTask EXCEPT !.kind = r.kind, !.pc = "refresh", !.command = TRUE]
                  ELSE [r EXCEPT !.pc = r.next, !.next = "none", !.state = saved,
                                 !.guarded = @ \/ r.next = "fetch"]]
    /\ told' = IF told = t THEN "stopped" ELSE told
    /\ UNCHANGED <<posted, archiveVars, db, buffer, conn, faults>>

-----------------------------------------------------------------------------
(* Connection. *)

\* The listeners are registered and the client logs in; then the states are read.
Connect(t) ==
    /\ conn = "off"
    /\ Free(t)
    /\ conn' = "login"
    /\ task' = [task EXCEPT ![t] = [NoTask EXCEPT !.kind = "load", !.pc = "refresh"]]
    /\ UNCHANGED <<posted, archiveVars, queueVars, buffer, told, faults>>

\* The client is destroyed, and with it the connection of the handlers; task t ends.
GoOffline(t) ==
    /\ conn' = "off"
    /\ task' = [u \in Tasks |-> IF u = t THEN NoTask ELSE [task[u] EXCEPT !.online = FALSE]]

\* listSyncStates, of load and of refresh; refresh waits for the writes first.
ReadStates(t) ==
    /\ At(t, "refresh")
    /\ task[t].kind = "load" \/ writes = <<>>
    /\ task' = [task EXCEPT ![t] = [@ EXCEPT !.pc = "read", !.state = db]]
    /\ UNCHANGED <<posted, archiveVars, queueVars, buffer, conn, told, faults>>

\* load replaces the memory by what it read, whatever happened to it since, a stop
\* included.
Load(t) ==
    LET read == task[t].state IN
    /\ At(t, "read") /\ task[t].kind = "load"
    /\ mem' = read
    /\ conn' = IF conn = "login" THEN "loaded" ELSE conn
    /\ told' = IF read.known /\ ~read.tracking THEN told ELSE "nothing"
    /\ task' = [task EXCEPT ![t] = NoTask]
    /\ UNCHANGED <<posted, archiveVars, db, writes, sent, buffer, faults>>

\* refresh keeps a stop.
TakeStates(t) ==
    /\ At(t, "read") /\ Syncing(t)
    /\ mem' = PreserveStop(task[t].state)
    /\ task' = [task EXCEPT ![t] = NoTask]
    /\ UNCHANGED <<posted, archiveVars, db, writes, sent, buffer, conn, told, faults>>

Begin(t, state, command) ==
    /\ Free(t)
    /\ Budget
    /\ task' = [task EXCEPT ![t] =
                  [NoTask EXCEPT !.kind = IF state.done THEN "catchup" ELSE "history",
                                 !.pc = "open", !.state = state, !.online = TRUE,
                                 !.command = command]]

\* catchUpTrackedChannels, which connect does not wait for.
CatchUpTracked(t) ==
    /\ conn = "loaded"
    /\ conn' = "on"
    /\ IF mem.known /\ mem.tracking
       THEN Begin(t, Merged(mem, TRUE), FALSE)
       ELSE UNCHANGED task
    /\ UNCHANGED <<posted, archiveVars, queueVars, buffer, told, faults>>

\* disconnect flushes the buffer and waits for that first.
Disconnect(t) ==
    /\ conn \in {"loaded", "on"}
    /\ Free(t)
    /\ IF buffer = {}
       THEN /\ GoOffline(t)
            /\ UNCHANGED buffer
       ELSE /\ Budget
            /\ task' = [task EXCEPT ![t] = [NoTask EXCEPT !.kind = "flush", !.pc = "create",
                                                          !.page = buffer, !.command = TRUE]]
            /\ buffer' = {}
            /\ conn' = "closing"
    /\ UNCHANGED <<posted, archiveVars, queueVars, told, faults>>

Destroy(t) ==
    /\ conn = "closing"
    /\ Free(t)
    /\ \A u \in Tasks : ~(task[u].kind = "flush" /\ task[u].command)
    /\ GoOffline(t)
    /\ UNCHANGED <<posted, archiveVars, queueVars, buffer, told, faults>>

\* A created or edited message is buffered if its channel is tracked, whatever
\* else is running. (Bound: an edit is the first message of its batch.)
Post ==
    /\ posted < MaxId
    /\ posted' = posted + 1
    /\ buffer' = IF Listening /\ mem.known /\ mem.tracking
                 THEN buffer \cup {posted + 1} ELSE buffer
    /\ UNCHANGED <<archiveVars, queueVars, conn, task, told, faults>>

Edit(m) ==
    /\ Listening /\ mem.known /\ mem.tracking
    /\ m <= posted
    /\ buffer = {}
    /\ buffer' = buffer \cup {m}
    /\ UNCHANGED <<posted, archiveVars, queueVars, conn, task, told, faults>>

\* /chatcontext sync
SyncCommand(t) ==
    /\ Permitted
    /\ mem' = Merged(mem, TRUE)
    /\ Begin(t, Merged(mem, TRUE), TRUE)
    /\ told' = "nothing"
    /\ UNCHANGED <<posted, archiveVars, db, writes, sent, buffer, conn, faults>>

\* /chatcontext stop; the state before it is kept for a failed write. (Bound: one
\* stop at a time.)
StopCommand(t) ==
    LET state == Merged(mem, FALSE) IN
    /\ Permitted
    /\ Free(t)
    /\ \A u \in Tasks : task[u].kind # "stop"
    /\ mem' = state
    /\ told' = t
    /\ Save(t, [NoTask EXCEPT !.kind = "stop", !.state = mem, !.command = TRUE], state, "end")
    /\ UNCHANGED <<posted, archiveVars, db, sent, buffer, conn, faults>>

-----------------------------------------------------------------------------
(* History import and catch-up. *)

\* Where the paging starts: below the oldest or above the newest cursor.
StartEdge(t, state) ==
    IF task[t].kind = "catchup" THEN state.newest
    ELSE IF state.done THEN 0 ELSE state.oldest

\* createSession, whose id the sync saves before it goes on.
CreateSession(t) ==
    LET state == [task[t].state EXCEPT !.session = created + 1]
        r     == [task[t] EXCEPT !.session = created + 1]
    IN
    /\ created' = created + 1
    /\ running' = running \cup {created + 1}
    /\ IF Syncing(t)
       THEN Save(t, [r EXCEPT !.edge = StartEdge(t, state)], state, "fetch")
       ELSE /\ task' = [task EXCEPT ![t] = [r EXCEPT !.pc = "import"]]
            /\ UNCHANGED writes

\* openSession: a stored session is used again only while it is running.
OpenSession(t) ==
    LET state == task[t].state IN
    /\ At(t, "open")
    /\ \/ /\ state.session = 0
          /\ CreateSession(t)
       \/ /\ state.session \in running
          /\ task' = [task EXCEPT ![t] = [@ EXCEPT !.pc = "fetch", !.session = state.session,
                                                   !.edge = StartEdge(t, state),
                                                   !.guarded = TRUE]]
          /\ UNCHANGED <<writes, sessionVars>>
       \/ /\ state.session \notin running \cup {0}
          /\ Save(t, task[t], [state EXCEPT !.session = 0], "create")
          /\ UNCHANGED sessionVars
    /\ UNCHANGED <<posted, stored, db, mem, sent, buffer, conn, told, faults>>

\* The session of a cleared state or of a live batch.
OpenNewSession(t) ==
    /\ At(t, "create")
    /\ CreateSession(t)
    /\ UNCHANGED <<posted, stored, db, mem, sent, buffer, conn, told, faults>>

\* One page of Discord's history: the newest messages below the edge or the oldest
\* above it; without an edge the newest ones.
PageOf(kind, edge) ==
    LET found == {m \in 1..posted : \/ edge = 0
                                    \/ kind = "history" /\ m < edge
                                    \/ kind = "catchup" /\ m > edge}
        nearer(m, n) == IF kind = "catchup" /\ edge # 0 THEN n < m ELSE n > m
    IN {m \in found : Cardinality({n \in found : nearer(m, n)}) < PageSize}

Lower(cursor, m) == IF cursor = 0 THEN m ELSE Min({cursor, m})

\* Mutant of Advanced: a history is complete with any page.
AdvancedDone(t, page) ==
    [task[t].state EXCEPT !.oldest = Lower(@, Min(page)), !.newest = Max(page \cup {@}),
                          !.done = TRUE]

\* The state after a page.
Advanced(t, page) ==
    LET s == [task[t].state EXCEPT !.newest = Max(page \cup {@})]
    IN IF task[t].kind = "catchup" THEN s
       ELSE [s EXCEPT !.oldest = Lower(@, Min(page)), !.done = Cardinality(page) < PageSize]

\* An empty page ends the paging, and a history is then complete.
LastPage(t) ==
    /\ At(t, "fetch")
    /\ task[t].online
    /\ PageOf(task[t].kind, task[t].edge) = {}
    /\ IF task[t].kind = "history"
       THEN Save(t, task[t], [task[t].state EXCEPT !.done = TRUE], "finish")
       ELSE /\ task' = [task EXCEPT ![t].pc = "finish"]
            /\ UNCHANGED writes
    /\ UNCHANGED <<posted, archiveVars, db, mem, sent, buffer, conn, told, faults>>

\* A page is fetched (which changes nothing but task t) and imported, and the cursors
\* are saved; a short page is the last one.
Import(t) ==
    LET page == PageOf(task[t].kind, task[t].edge)
        next == IF Cardinality(page) < PageSize THEN "finish" ELSE "fetch"
        edge == IF task[t].kind = "history" THEN Min(page) ELSE Max(page)
    IN
    /\ At(t, "fetch")
    /\ task[t].online
    /\ page # {}
    /\ task[t].session \in running
    /\ stored' = stored \cup page
    /\ Save(t, [task[t] EXCEPT !.edge = edge], Advanced(t, page), next)
    /\ UNCHANGED <<posted, sessionVars, db, mem, sent, buffer, conn, told, faults>>

\* The session is completed and forgotten; a command then refreshes the states.
FinishSync(t) ==
    /\ Syncing(t) /\ At(t, "finish")
    /\ task[t].session \in running
    /\ running' = running \ {task[t].session}
    /\ Save(t, task[t], [task[t].state EXCEPT !.session = 0],
            IF task[t].command THEN "refresh" ELSE "end")
    /\ UNCHANGED <<posted, stored, created, db, mem, sent, buffer, conn, told, faults>>

-----------------------------------------------------------------------------
(* Live messages. *)

\* A timer or a full buffer: the batcher forgets the buffer before it stores it.
Flush(t) ==
    /\ buffer # {}
    /\ Free(t)
    /\ Budget
    /\ task' = [task EXCEPT ![t] = [NoTask EXCEPT !.kind = "flush", !.pc = "create",
                                                  !.page = buffer]]
    /\ buffer' = {}
    /\ UNCHANGED <<posted, archiveVars, queueVars, conn, told, faults>>

\* Mutant of ImportLive: the batch counts as stored when it is sent.
ImportLiveUnstored(t) ==
    /\ task[t].kind = "flush" /\ At(t, "import")
    /\ task' = [task EXCEPT ![t].pc = "finish"]
    /\ UNCHANGED <<posted, archiveVars, queueVars, buffer, conn, told, faults>>

ImportLive(t) ==
    /\ task[t].kind = "flush" /\ At(t, "import")
    /\ stored' = stored \cup task[t].page
    /\ task' = [task EXCEPT ![t].pc = "finish"]
    /\ UNCHANGED <<posted, sessionVars, queueVars, buffer, conn, told, faults>>

\* The session is completed, and updateCursor writes what memory holds now, with
\* the newest cursor moved on.
FinishLive(t) ==
    /\ task[t].kind = "flush" /\ At(t, "finish")
    /\ running' = running \ {task[t].session}
    /\ IF mem.known
       THEN Save(t, task[t], [mem EXCEPT !.newest = Max(task[t].page \cup {@})], "end")
       ELSE /\ task' = [task EXCEPT ![t] = NoTask]
            /\ UNCHANGED writes
    /\ UNCHANGED <<posted, stored, created, db, mem, sent, buffer, conn, told, faults>>

-----------------------------------------------------------------------------
(* Failures. *)

\* What an error does to task t: inside its try block it stops its session, outside
\* a startup catch-up still records the error.
Thrown(t) ==
    LET r == task[t] IN
    IF r.guarded \/ (r.kind = "flush" /\ r.session # 0)
    THEN [r EXCEPT !.pc = "failed", !.next = "none", !.guarded = FALSE]
    ELSE IF Syncing(t) /\ ~r.command /\ r.next # "end"
    THEN [r EXCEPT !.pc = "raise", !.next = "none"]
    ELSE NoTask

\* The request is refused: the session is not running or the client is gone.
Refused(t) ==
    /\ \/ At(t, "fetch") /\ ~task[t].online
       \/ /\ task[t].session \notin running
          /\ \/ At(t, "fetch") /\ PageOf(task[t].kind, task[t].edge) # {}
             \/ Syncing(t) /\ At(t, "finish")
    /\ task' = [task EXCEPT ![t] = Thrown(t)]
    /\ UNCHANGED <<posted, archiveVars, queueVars, buffer, conn, told, faults>>

\* The catch block forgets the session.
Forget(t) ==
    IF Syncing(t)
    THEN Save(t, task[t], [task[t].state EXCEPT !.session = 0],
              IF task[t].command THEN "end" ELSE "raise")
    ELSE /\ task' = [task EXCEPT ![t] = NoTask]
         /\ UNCHANGED writes

\* Mutant of StopSession: a failed import leaves its session open.
StopSessionNot(t) ==
    /\ At(t, "failed")
    /\ Forget(t)
    /\ UNCHANGED <<posted, archiveVars, db, mem, sent, buffer, conn, told, faults>>

\* The catch block: the session is stopped, if it is still running, and forgotten.
StopSession(t) ==
    /\ At(t, "failed")
    /\ running' = running \ {task[t].session}
    /\ Forget(t)
    /\ UNCHANGED <<posted, stored, created, db, mem, sent, buffer, conn, told, faults>>

\* A failed startup catch-up writes its error into the latest state.
RecordError(t) ==
    /\ At(t, "raise")
    /\ Save(t, task[t], NoState, "end")
    /\ UNCHANGED <<posted, archiveVars, db, mem, sent, buffer, conn, told, faults>>

\* The backend executes the request of task t although its answer is lost.
Executed(t) ==
    LET r == task[t] IN
    \/ /\ r.pc = "fetch" /\ r.session \in running /\ task[t].online
       /\ stored' = stored \cup PageOf(r.kind, r.edge)
       /\ UNCHANGED sessionVars
    \/ /\ r.pc = "import"
       /\ stored' = stored \cup r.page
       /\ UNCHANGED sessionVars
    \/ /\ r.pc = "create" \/ (r.pc = "open" /\ r.state.session = 0)
       /\ created' = created + 1
       /\ running' = running \cup {created + 1}
       /\ UNCHANGED stored
    \/ /\ r.pc = "finish"
       /\ running' = running \ {r.session}
       /\ UNCHANGED <<stored, created>>

\* A request gets no answer, or an error; of a catch block's stop it is ignored.
RequestFails(t) ==
    /\ faults < MaxFaults
    /\ faults' = faults + 1
    /\ task[t].pc \in {"open", "create", "fetch", "import", "finish", "refresh", "failed"}
    /\ UNCHANGED archiveVars \/ Executed(t)
    /\ \/ At(t, "failed") /\ Forget(t) /\ UNCHANGED conn
       \/ task[t].kind = "load" /\ GoOffline(t) /\ UNCHANGED writes
       \/ /\ ~At(t, "failed") /\ task[t].kind # "load"
          /\ task' = [task EXCEPT ![t] = Thrown(t)]
          /\ UNCHANGED <<writes, conn>>
    /\ UNCHANGED <<posted, db, mem, sent, buffer, told>>

\* Mutant of WriteFails: the queue tries a failed write again.
WriteFailsAndStays ==
    LET t == Head(writes).task IN
    /\ writes # <<>>
    /\ faults < MaxFaults
    /\ faults' = faults + 1
    /\ UNCHANGED writes
    /\ sent' = FALSE
    /\ mem' = IF task[t].kind = "stop" THEN task[t].state ELSE mem
    /\ told' = IF told = t THEN "nothing" ELSE told
    /\ task' = [task EXCEPT ![t] = Thrown(t)]
    /\ UNCHANGED <<posted, archiveVars, db, buffer, conn>>

\* A state write fails, executed or not; a stop command takes its change back.
WriteFails ==
    LET t == Head(writes).task IN
    /\ writes # <<>>
    /\ faults < MaxFaults
    /\ faults' = faults + 1
    /\ writes' = Tail(writes)
    /\ sent' = FALSE
    /\ mem' = IF task[t].kind = "stop" THEN task[t].state ELSE mem
    /\ told' = IF told = t THEN "nothing" ELSE told
    /\ task' = [task EXCEPT ![t] = Thrown(t)]
    /\ UNCHANGED <<posted, archiveVars, db, buffer, conn>>

\* The process ends: memory, buffer, queue and tasks are lost, and a stop command
\* under way is never answered.
Crash ==
    /\ faults < MaxFaults
    /\ faults' = faults + 1
    /\ conn' = "off"
    /\ mem' = NoState
    /\ writes' = <<>>
    /\ sent' = FALSE
    /\ buffer' = {}
    /\ task' = [t \in Tasks |-> NoTask]
    /\ told' = IF told = "stopped" THEN told ELSE "nothing"
    /\ UNCHANGED <<posted, archiveVars, db>>

-----------------------------------------------------------------------------

Work(t) ==
    \/ ReadStates(t) \/ Load(t) \/ TakeStates(t) \/ OpenSession(t) \/ OpenNewSession(t)
    \/ LastPage(t) \/ Import(t) \/ FinishSync(t) \/ ImportLive(t) \/ FinishLive(t)
    \/ Refused(t) \/ StopSession(t) \/ RecordError(t)

Next ==
    \/ Post \/ Crash \/ SendWrite \/ AckWrite \/ WriteFails
    \/ \E m \in 1..MaxId : Edit(m)
    \/ \E t \in Tasks : \/ Connect(t) \/ CatchUpTracked(t) \/ Disconnect(t) \/ Destroy(t)
                        \/ SyncCommand(t) \/ StopCommand(t) \/ Flush(t)
                        \/ Work(t) \/ RequestFails(t)

Spec == Init /\ [][Next]_vars

-----------------------------------------------------------------------------
(* Properties. *)

State == [known: BOOLEAN, oldest: 0..MaxId, newest: 0..MaxId, session: Nat,
          done: BOOLEAN, tracking: BOOLEAN]

\* Types; a task waits in the write queue exactly once while it is saving.
TypeOK ==
    /\ posted \in 0..MaxId
    /\ stored \subseteq 1..posted
    /\ running \subseteq 1..created
    /\ {db, mem} \subseteq State
    /\ \A k \in DOMAIN writes : writes[k].state \in State
    /\ \A t \in Tasks :
          Cardinality({k \in DOMAIN writes : writes[k].task = t}) = IF At(t, "saving") THEN 1 ELSE 0
    /\ sent \in BOOLEAN
    /\ buffer \subseteq 1..posted
    /\ conn \in {"off", "login", "loaded", "on", "closing"}
    /\ told \in {"nothing", "stopped"} \cup Tasks

\* A history that the stored state calls complete is in the archive from the first
\* message up to the oldest cursor, and the cursors themselves are archived,
\* whatever was interrupted, repeated or overwritten by another handler's write.
HistoryIsComplete ==
    /\ db.done => 1..db.oldest \subseteq stored
    /\ {db.oldest, db.newest} \ {0} \subseteq stored

\* Once /chatcontext stop has answered, no handler that was or is still running
\* switches the tracking of the channel on again; only a later sync command does, or
\* a connection whose states were read before the stop.
StopHolds == told = "stopped" => ~db.tracking /\ ~mem.tracking

\* As long as no request fails and the process lives, every running ingestion
\* session belongs to a handler that will close it.
NoOrphanSession ==
    faults = 0 => \A s \in running : \E t \in Tasks : task[t].session = s

Live == buffer \cup UNION {task[t].page : t \in Tasks}

\* A live message that the bot has taken is buffered or in a batch until it is
\* archived, as long as no request fails (a failed flush drops its batch).
LiveIsKept == [][faults' = 0 => Live \subseteq Live' \cup stored']_vars

\* docs/architecture.md: "Startup catches up from the newest cursor before listening
\* for live message create and update events". A catch-up never looks below the
\* newest cursor, so when no handler is at work everything between the two stored
\* cursors must be archived.
CursorsLeaveNoGap ==
    (\A t \in Tasks : Free(t)) /\ db.oldest # 0 => db.oldest..db.newest \subseteq stored
=============================================================================
