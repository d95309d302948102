-------------------------- MODULE ArchiveMigration --------------------------
(***************************************************************************)
(* Moving a local archive to a server: the controller in the Electron main   *)
(* process, its state file, the exports of the local backend, the migration  *)
(* sessions behind the gateway, and the panel that shows the progress.       *)
(*                                                                           *)
(* A task is one call of a window.  Start and resume become the transfer of  *)
(* the state they hold; forget waits for it.  Requests may fail, or be       *)
(* executed with their answer lost; each is tried MaxAttempts times.  The    *)
(* messages are numbered in the order of the export.                         *)
(***************************************************************************)
EXTENDS Naturals, Sequences, FiniteSets

CONSTANTS
    Total,        \* messages in the local archive
    PageSize,     \* messages in a page of the export, at most
    Exports,      \* snapshots that may be made (a bound)
    Sessions,     \* migration sessions the server may create (a bound)
    Calls,        \* calls under way together (a bound)
    MaxAttempts,
    Nil,          \* no export, no session, no state
    MaxCalls,     \* bound: calls started
    MaxMishaps,   \* bound: failed requests and crashes
    MaxLag        \* bound: messages on their way to the panel, but for those of one step

VARIABLES
    file,         \* archive-migration.json
    exports,      \* the local backend's snapshots: new, kept or deleted
    session,      \* the server's migration sessions
    call,         \* the calls under way
    runningCall,  \* this.runningPromise
    pauseRequested,
    panel,        \* the phase that the panel shows
    wire,         \* progress and answers on their way to the panel
    counts,       \* calls and mishaps so far
    history       \* history: which overlaps there were

migrationVars == <<file, exports, session, call, runningCall, pauseRequested, panel, wire, counts, history>>

----------------------------------------------------------------------------
Active == {"preparing", "uploading", "retrying", "syncing", "verifying", "cleaning_snapshot"}
Resumable == {"paused", "failed", "interrupted"}
Phases == Active \cup Resumable \cup {"completed"}
State == [phase : Phases, export : Exports, session : Sessions \cup {Nil}, cursor : 0..Total,
          completed : BOOLEAN, deleted : BOOLEAN, queued : BOOLEAN]
ASSUME MigrationAssumption ==
    /\ {Total, PageSize, MaxAttempts} \subseteq Nat /\ MaxAttempts # 0
    /\ Nil \notin State /\ Nil \notin Sessions /\ Nil \notin Calls

InitialState(e) == [phase |-> "preparing", export |-> e, session |-> Nil, cursor |-> 0,
                    completed |-> FALSE, deleted |-> FALSE, queued |-> FALSE]

NoCall == [op |-> "none", pc |-> "none", state |-> Nil, attempt |-> 0, page |-> 0]
FreeCall(c) == call[c] = NoCall
CallAt(c, pc) == call[c].pc = pc
Ended(c) == [call EXCEPT ![c] = NoCall]
Transfers(c) == call[c].op = "transfer"
Held(c) == call[c].state
Complete(s) == session[s].linked = 1..Total

Begins == counts.calls < MaxCalls /\ counts' = [counts EXCEPT !.calls = @ + 1]
Mishap == counts.mishaps < MaxMishaps /\ counts' = [counts EXCEPT !.mishaps = @ + 1]
Tell(phases) == Len(wire) < MaxLag /\ wire' = wire \o phases
Note(happened, what) == history' = IF happened THEN history \cup {what} ELSE history

\* persist: the file and the progress follow every change of the state.
Persist(c, s, pc) ==
    /\ file' = s
    /\ Tell(<<s.phase>>)
    /\ call' = [call EXCEPT ![c].state = s, ![c].pc = pc, ![c].attempt = 1]
\* The transfer ends: its promise settles, and the running one is forgotten.
Settle(c, s, answer) ==
    /\ file' = s
    /\ Tell(<<s.phase>> \o answer)
    /\ call' = Ended(c)
    /\ runningCall' = Nil
    /\ UNCHANGED <<exports, session, pauseRequested, panel>>

----------------------------------------------------------------------------
(* start, resume, pause, getStatus, index, forget. *)

Unfinished == file # Nil /\ file.phase # "completed"

\* startMigration of the panel: inspect both sides, then ask.
Inspect(c) ==
    /\ FreeCall(c) /\ Begins
    /\ panel = "idle"
    /\ call' = [call EXCEPT ![c] = [NoCall EXCEPT !.op = "start", !.pc = "inspect"]]
    /\ UNCHANGED <<file, exports, session, runningCall, pauseRequested, panel, wire, history>>

\* start: what it checks here is acted upon two awaits later.
Start(c) ==
    /\ CallAt(c, "inspect")
    /\ panel' = "preparing"
    /\ IF runningCall = Nil /\ ~Unfinished
       THEN call' = [call EXCEPT ![c].pc = "snapshot"] /\ UNCHANGED wire
       ELSE call' = Ended(c) /\ Tell(<<"ask">>)
    /\ Note(\E d \in Calls \ {c} : call[d].op \in {"start", "forget"}, "start")
    /\ UNCHANGED <<file, exports, session, runningCall, pauseRequested, counts>>

\* createSourceSnapshot: the export first, the synchronisation states after it.
CreateSourceSnapshot(c) ==
    /\ CallAt(c, "snapshot")
    /\ \E e \in Exports :
        /\ exports[e] = "new"
        /\ exports' = [exports EXCEPT ![e] = "kept"]
        /\ call' = [call EXCEPT ![c].pc = "states", ![c].state = InitialState(e)]
    /\ UNCHANGED <<file, session, runningCall, pauseRequested, panel, wire, counts, history>>

Run(c, s) ==
    /\ pauseRequested' = FALSE
    /\ runningCall' = c
    /\ file' = s
    /\ Tell(<<s.phase>>)
    /\ call' = [call EXCEPT ![c] = [op |-> "transfer", state |-> s, attempt |-> 1, page |-> s.cursor,
                  pc |-> IF s.deleted THEN "end" ELSE IF s.session = Nil THEN "session" ELSE "page"]]

StartTransfer(c) ==
    /\ CallAt(c, "states")
    /\ Run(c, Held(c))
    /\ Note(runningCall # Nil, "start")
    /\ UNCHANGED <<exports, session, panel, counts>>

StartFails(c) ==
    /\ call[c].op = "start" /\ Mishap
    /\ call' = Ended(c)
    /\ Tell(<<"ask">>)
    /\ Note(call[c].pc = "states", "orphan export")
    /\ UNCHANGED <<file, exports, session, runningCall, pauseRequested, panel>>

\* resume; while a transfer runs it only waits for it.  The panel shows it at once.
Resume(c) ==
    /\ FreeCall(c) /\ Begins
    /\ panel \in Resumable /\ runningCall = Nil
    /\ panel' = "uploading"
    /\ IF file = Nil \/ ~Unfinished
       THEN Tell(<<"ask">>) /\ UNCHANGED <<file, call, runningCall, pauseRequested>>
       ELSE Run(c, [file EXCEPT !.phase = "uploading"])
    /\ Note(\E d \in Calls : ~FreeCall(d), "resume")
    /\ UNCHANGED <<exports, session>>

\* pause: the reply says "pausing" even if nothing is running any more.
Pause ==
    /\ Begins
    /\ panel = "uploading" /\ file # Nil
    /\ IF file.phase = "completed"
       THEN Tell(<<"completed">>) /\ UNCHANGED pauseRequested
       ELSE Tell(<<"pausing", "pausing">>) /\ pauseRequested' = TRUE
    /\ Note(runningCall = Nil, "late pause")
    /\ UNCHANGED <<file, exports, session, call, runningCall, panel>>

\* interruptOrphanedState, when the application starts and when the status is read.
Interrupted(f) == IF f # Nil /\ f.phase \in Active THEN [f EXCEPT !.phase = "interrupted"] ELSE f
ShownPhase(f) == IF f = Nil THEN "idle" ELSE f.phase

GetStatus ==
    /\ file' = IF runningCall = Nil THEN Interrupted(file) ELSE file
    /\ UNCHANGED <<exports, session, call, runningCall, pauseRequested, counts, history>>

\* index: the server queues jobs for the migrated messages; a second time for none.  What it
\* persists after the answer is the state that it has loaded before the request.
Index(c) ==
    /\ FreeCall(c) /\ Begins
    /\ panel = "completed" /\ file # Nil
    /\ file.phase = "completed" /\ file.session # Nil
    /\ call' = [call EXCEPT ![c] = [NoCall EXCEPT !.op = "index", !.pc = "index", !.state = file]]
    /\ UNCHANGED <<file, exports, session, runningCall, pauseRequested, panel, wire, history>>

Queued(c) == session' = [session EXCEPT ![Held(c).session].indexed = TRUE]

IndexQueued(c) ==
    /\ CallAt(c, "index") /\ Queued(c)
    /\ file' = [Held(c) EXCEPT !.queued = TRUE]
    /\ Tell(<<"completed", "completed">>)
    /\ call' = Ended(c)
    /\ Note(file = Nil \/ file.export # Held(c).export, "index")
    /\ UNCHANGED <<exports, runningCall, pauseRequested, panel, counts>>

\* The request fails, or its answer is lost; the panel only says so.
IndexFails(c) ==
    /\ CallAt(c, "index") /\ Mishap
    /\ Queued(c) \/ UNCHANGED session
    /\ call' = Ended(c)
    /\ UNCHANGED <<file, exports, runningCall, pauseRequested, panel, wire, history>>

\* forget: pause the transfer, wait until it has ended, then give up what it left.
Forget(c) ==
    /\ FreeCall(c) /\ Begins
    /\ panel \in Resumable \cup {"completed"}
    /\ pauseRequested' = TRUE
    /\ call' = [call EXCEPT ![c] = [NoCall EXCEPT !.op = "forget", !.pc = "wait"]]
    /\ Note(\E d \in Calls : call[d].op \in {"start", "transfer", "forget"}, "forget")
    /\ UNCHANGED <<file, exports, session, runningCall, panel, wire>>

ForgetLoads(c) ==
    /\ CallAt(c, "wait") /\ runningCall = Nil
    /\ IF file = Nil THEN call' = Ended(c) /\ Tell(<<"idle">>)
       ELSE call' = [call EXCEPT ![c].pc = "close", ![c].state = file] /\ UNCHANGED wire
    /\ UNCHANGED <<file, exports, session, runningCall, pauseRequested, panel, counts, history>>

\* closeRemoteSession and deleteSourceSnapshot; that they fail is not noticed.
CloseRemoteSession(c) ==
    /\ CallAt(c, "close")
    /\ LET s == Held(c)
           open == s.session # Nil /\ ~s.completed /\ s.phase # "completed"
       IN \/ open /\ session' = [session EXCEPT ![s.session].status = "completed"] /\ UNCHANGED counts
          \/ ~open /\ UNCHANGED <<session, counts>>
          \/ open /\ Mishap /\ UNCHANGED session
    /\ call' = [call EXCEPT ![c].pc = "delete"]
    /\ UNCHANGED <<file, exports, runningCall, pauseRequested, panel, wire, history>>

\* Mutant of DeleteSourceSnapshot: forgetting a migration keeps its snapshot.
KeepSourceSnapshot(c) ==
    /\ CallAt(c, "delete")
    /\ file' = Nil
    /\ call' = Ended(c)
    /\ Tell(<<"idle">>)
    /\ UNCHANGED <<exports, session, runningCall, pauseRequested, panel, counts, history>>

DeleteSourceSnapshot(c) ==
    /\ CallAt(c, "delete")
    /\ LET s == Held(c) IN
       \/ /\ exports' = IF s.deleted THEN exports ELSE [exports EXCEPT ![s.export] = "deleted"]
          /\ UNCHANGED <<counts, history>>
       \/ /\ ~s.deleted /\ Mishap
          /\ Note(TRUE, "orphan export") /\ UNCHANGED exports
    /\ file' = Nil
    /\ call' = Ended(c)
    /\ Tell(<<"idle">>)
    /\ UNCHANGED <<session, runningCall, pauseRequested, panel>>

----------------------------------------------------------------------------
(* The transfer: each step is one request and what follows its answer. *)

\* What a request changes on the other side, and whether that side accepts it.
Accepted(c) ==
    LET s == Held(c) IN
    CASE CallAt(c, "session") -> \E n \in Sessions : session[n].status = "none"
      [] call[c].pc \in {"page", "verify", "clean"} -> exports[s.export] = "kept"
      [] CallAt(c, "batch") -> session[s.session].status = "running"
      [] OTHER -> TRUE

BatchEnds(c) == {Held(c).cursor + 1, call[c].page} \ {Held(c).cursor}

Requested(c, end, n) ==
    LET s == Held(c) IN
    CASE CallAt(c, "session") ->
            session' = [session EXCEPT ![n].status = "running"] /\ UNCHANGED exports
      [] CallAt(c, "batch") ->
            session' = [session EXCEPT ![s.session].linked = @ \cup (s.cursor + 1)..end] /\ UNCHANGED exports
      [] CallAt(c, "complete") ->
            session' = [session EXCEPT ![s.session].status = "completed"] /\ UNCHANGED exports
      [] CallAt(c, "clean") ->
            exports' = [exports EXCEPT ![s.export] = "deleted"] /\ UNCHANGED session
      [] OTHER -> UNCHANGED <<session, exports>>

\* transferPages: pause between two requests, the next batch of the page, the next
\* page, or the end of the export.
PageDone(s) == s.cursor + PageSize >= Total
Exact(c) == Complete(Held(c).session)

NextRequest(s, page) ==
    IF pauseRequested THEN "paused" ELSE IF s.cursor < page THEN "batch"
    ELSE IF page = Total THEN "sync" ELSE "page"
PhaseAt(pc) == IF pc = "sync" THEN "syncing" ELSE "uploading"
Uploading(c, s, page) ==
    LET pc == NextRequest(s, page) IN Persist(c, [s EXCEPT !.phase = PhaseAt(pc)], pc)

\* checkpointBatch: only once the server has confirmed the whole batch.
CheckpointBatch(s, end) == [s EXCEPT !.cursor = end]

\* execute: a retried request that succeeds restores its phase.
Answered(c, end, n) ==
    LET s == Held(c) IN
    \/ /\ CallAt(c, "session")
       /\ Uploading(c, [s EXCEPT !.session = n], s.cursor)
    \/ /\ CallAt(c, "page")
       /\ LET last == IF PageDone(s) THEN Total ELSE s.cursor + PageSize
              pc == NextRequest(s, last)
              next == [s EXCEPT !.phase = PhaseAt(pc)]
          IN /\ call' = [call EXCEPT ![c].page = last, ![c].attempt = 1, ![c].pc = pc, ![c].state = next]
             /\ file' = IF next # s THEN next ELSE file
             /\ Tell(IF next # s THEN <<next.phase>> ELSE <<>>)
    \/ CallAt(c, "batch") /\ Uploading(c, CheckpointBatch(s, end), call[c].page)
    \* finalize: synchronisation states, the exact count, completion, the exact count
    \* on both sides again, and only then the snapshot is removed.
    \/ CallAt(c, "sync") /\ Persist(c, [s EXCEPT !.phase = "syncing"],
                                    IF s.completed THEN "verify" ELSE "complete")
    \/ CallAt(c, "complete") /\ Persist(c, [s EXCEPT !.phase = "verifying", !.completed = TRUE], "verify")
    \/ CallAt(c, "verify") /\ Persist(c, [s EXCEPT !.phase = "cleaning_snapshot"], "clean")
    \/ CallAt(c, "clean") /\ Persist(c, [s EXCEPT !.phase = "cleaning_snapshot", !.deleted = TRUE], "end")

Verifies(c) == call[c].pc \in {"sync", "complete", "verify"} => Exact(c)

Succeeds(c) ==
    /\ Transfers(c) /\ Accepted(c) /\ Verifies(c)
    /\ \E end \in BatchEnds(c) \cup {0}, n \in Sessions :
        /\ CallAt(c, "batch") <=> end # 0
        /\ CallAt(c, "session") => session[n].status = "none"
        /\ Requested(c, end, n) /\ Answered(c, end, n)
    /\ UNCHANGED <<runningCall, pauseRequested, panel, counts, history>>

\* Mutant of Retry: the page counts as acknowledged before it is sent again.
RetryCheckpoints(c) ==
    IF call[c].attempt < MaxAttempts
    THEN /\ file' = [Held(c) EXCEPT !.phase = "retrying", !.cursor = call[c].page]
         /\ Tell(<<"retrying">>)
         /\ call' = [call EXCEPT ![c].state = file', ![c].attempt = @ + 1]
         /\ UNCHANGED <<runningCall, pauseRequested, panel>>
    ELSE /\ file' = [Held(c) EXCEPT !.phase = "failed"]
         /\ Tell(<<"failed", "ask">>)
         /\ call' = Ended(c) /\ runningCall' = Nil
         /\ UNCHANGED <<pauseRequested, panel>>

\* The attempt fails: it is refused, or lost, before or after it was executed.
Retry(c) ==
    IF call[c].attempt < MaxAttempts
    THEN /\ file' = [Held(c) EXCEPT !.phase = "retrying"]
         /\ Tell(<<"retrying">>)
         /\ call' = [call EXCEPT ![c].state = file', ![c].attempt = @ + 1]
         /\ UNCHANGED <<runningCall, pauseRequested, panel>>
    ELSE /\ file' = [Held(c) EXCEPT !.phase = "failed"]
         /\ Tell(<<"failed", "ask">>)
         /\ call' = Ended(c) /\ runningCall' = Nil
         /\ UNCHANGED <<pauseRequested, panel>>

Requests == {"session", "page", "batch", "sync", "complete", "verify", "clean"}
RequestFails(c) ==
    /\ Transfers(c) /\ call[c].pc \in Requests
    /\ \/ Accepted(c) /\ Mishap /\ UNCHANGED <<session, exports>>
       \/ /\ Accepted(c) /\ Mishap
          /\ \E end \in BatchEnds(c) \cup {0}, n \in Sessions :
                /\ CallAt(c, "batch") <=> end # 0
                /\ CallAt(c, "session") => session[n].status = "none"
                /\ Requested(c, end, n)
       \/ ~Accepted(c) /\ UNCHANGED <<session, exports, counts>>
    /\ Retry(c)
    /\ UNCHANGED history

\* A count that does not match is not tried again.  It is unreachable unless a batch was
\* acknowledged without being stored: a safeguard of the code that is kept here as one.
WrongCount(c) ==
    /\ Transfers(c) /\ ~Verifies(c)
    /\ Settle(c, [Held(c) EXCEPT !.phase = "failed"], <<"ask">>)
    /\ UNCHANGED <<counts, history>>

\* markPaused, markCompleted.
TransferEnds(c) ==
    /\ Transfers(c) /\ call[c].pc \in {"paused", "end"}
    /\ LET phase == IF CallAt(c, "paused") THEN "paused" ELSE "completed" IN
       Settle(c, [Held(c) EXCEPT !.phase = phase], <<phase>>)
    /\ UNCHANGED <<counts, history>>

----------------------------------------------------------------------------
(* The panel, and crashes of the application. *)

\* renderMigrationStatus; after a failed call the panel asks for the status.
PanelRenders ==
    /\ wire # <<>>
    /\ IF Head(wire) = "ask"
       THEN GetStatus /\ wire' = Append(Tail(wire), ShownPhase(file')) /\ UNCHANGED panel
       ELSE /\ panel' = Head(wire) /\ wire' = Tail(wire)
            /\ UNCHANGED <<file, exports, session, call, runningCall, pauseRequested, counts, history>>

\* refreshArchiveMigration, whenever the settings are opened.
PanelOpens ==
    /\ wire = <<>>
    /\ GetStatus /\ panel' = ShownPhase(file') /\ UNCHANGED wire

\* The process ends; the next one finds an active phase in the file.
Crash ==
    /\ Mishap
    /\ file' = Interrupted(file)
    /\ call' = [c \in Calls |-> NoCall]
    /\ runningCall' = Nil /\ pauseRequested' = FALSE
    /\ panel' = ShownPhase(file') /\ wire' = <<>>
    /\ Note(\E c \in Calls : CallAt(c, "states"), "orphan export")
    /\ UNCHANGED <<exports, session>>

----------------------------------------------------------------------------
MigrationInit ==
    /\ file = Nil
    /\ exports = [e \in Exports |-> "new"]
    /\ session = [s \in Sessions |-> [status |-> "none", linked |-> {}, indexed |-> FALSE]]
    /\ call = [c \in Calls |-> NoCall]
    /\ runningCall = Nil /\ pauseRequested = FALSE
    /\ panel = "idle" /\ wire = <<>>
    /\ counts = [calls |-> 0, mishaps |-> 0] /\ history = {}

MigrationNext ==
    \/ \E c \in Calls :
        \/ Inspect(c) \/ Start(c) \/ CreateSourceSnapshot(c) \/ StartTransfer(c) \/ StartFails(c)
        \/ Resume(c) \/ Index(c) \/ IndexQueued(c) \/ IndexFails(c) \/ Forget(c) \/ ForgetLoads(c) \/ CloseRemoteSession(c) \/ DeleteSourceSnapshot(c)
        \/ Succeeds(c) \/ RequestFails(c) \/ WrongCount(c) \/ TransferEnds(c)
    \/ Pause \/ PanelRenders \/ PanelOpens \/ Crash

MigrationSpec == MigrationInit /\ [][MigrationNext]_migrationVars

----------------------------------------------------------------------------
MigrationTypeOK ==
    /\ file \in State \cup {Nil}
    /\ exports \in [Exports -> {"new", "kept", "deleted"}]
    /\ session \in [Sessions -> [status : {"none", "running", "completed"},
                                 linked : SUBSET (1..Total), indexed : BOOLEAN]]
    /\ runningCall \in Calls \cup {Nil} /\ pauseRequested \in BOOLEAN
    /\ \A c \in Calls : Transfers(c) => Held(c) \in State /\ call[c].attempt \in 1..MaxAttempts
    /\ history \subseteq {"start", "resume", "forget", "index", "late pause", "orphan export"}

\* docs/setup.md: progress is checkpointed only after the server acknowledges the
\* complete batch.  What the file says is there is there, through lost answers,
\* retries, pauses, crashes and resumed transfers.
CheckpointIsAcknowledged ==
    file # Nil /\ file.session # Nil => 1..file.cursor \subseteq session[file.session].linked

\* Nothing is given up before it has arrived: a snapshot is removed by the transfer,
\* and messages are indexed on the server, only when all of them are there.
CompletedIsComplete ==
    /\ file # Nil /\ (file.deleted \/ file.phase = "completed") =>
            Complete(file.session) /\ session[file.session].status = "completed"
    /\ \A s \in Sessions : session[s].indexed => Complete(s)

UnderWay == \E c \in Calls : ~FreeCall(c)

\* A migration leaves no snapshot behind: when nothing is under way the only one kept is that
\* of the state file, unless starts overlapped ("start") or a forget overlapped what it gives up
\* ("forget"), a late answer of index wrote back the state of a migration that was forgotten or
\* followed by another ("index"), or a request that nobody repeats was lost ("orphan export").
NoOrphanExport ==
    ~UnderWay /\ history \cap {"start", "forget", "index", "orphan export"} = {} =>
        \A e \in Exports : exports[e] = "kept" => file # Nil /\ file.export = e

\* docs/architecture.md: paused, interrupted and failed states expose resume.  Once
\* everything is rendered and no transfer runs, the panel shows a phase that offers
\* a next step, unless the pause came when the transfer had already stopped.
PanelOffersNextStep ==
    ~UnderWay /\ wire = <<>> /\ "late pause" \notin history =>
        panel \in {"idle", "completed"} \cup Resumable

\* The archive arrives whole, and nothing is given up before it has.
ArchiveArrives == CheckpointIsAcknowledged /\ CompletedIsComplete

\* A migration that has come to rest can be resumed or ended, and leaves no snapshot.
MigrationRests == NoOrphanExport /\ PanelOffersNextStep
=============================================================================
