---------------------------- MODULE LiveIndexing ----------------------------
(***************************************************************************)
(* How a page learns of the indexing jobs.  A monitor polls the backend for  *)
(* each job it was told of and pushes what it reads; the push is lost when   *)
(* the event stream is down, and a monitor dies of one failed read.  The     *)
(* page therefore also polls the active jobs that have been silent, and the  *)
(* overview, whose cache is in OverviewStatus, renders whole statuses of its *)
(* own that may be older than what was pushed.                               *)
(***************************************************************************)
EXTENDS Naturals, Sequences, FiniteSets

CONSTANTS
    Jobs,
    Monitors,     \* polls of the monitors under way together (a bound)
    Reads,        \* status requests of the page under way together (a bound)
    NoJob,
    MaxCommands,  \* bound: commands of the user
    MaxLiveFaults,\* bound: failed reads, lost streams
    MaxWire       \* bound: pushes under way

ASSUME LiveAssumption ==
    NoJob \notin Jobs /\ MaxCommands \in Nat /\ MaxLiveFaults \in Nat /\ MaxWire \in Nat

VARIABLES
    local,        \* Electron with a local backend: pushes travel by IPC
    status,       \* the jobs in the backend's database
    monitor,      \* IndexingMonitor.poll, or monitorIndexingJob of Electron
    linked,       \* the event stream is connected
    wire,         \* pushes under way to the page
    list,         \* latestJobs, as far as they are active, lastPushAt and the poll's timer
    poll,         \* pollActiveJobs
    kept,         \* the jobs in the cached status
    read,         \* requests for a status
    command,      \* queueing, cancelling or retrying of a job
    tally         \* commands and faults so far

liveVars == <<local, status, monitor, linked, wire, list, poll, kept, read, command, tally>>

----------------------------------------------------------------------------
\* Queued and running differ in the order and the wording of the list only; so do failed and
\* cancelled.
States == {"none", "active", "completed", "failed"}

\* What a status lists.
ActiveJobs == {j \in Jobs : status[j] = "active"}

FreeMonitor == [job |-> NoJob, pc |-> "off", active |-> FALSE]
FreeRead == [pc |-> "free", got |-> {}]
NoCommand == [op |-> "none", job |-> NoJob, pc |-> "none"]

Faulty == tally.faults < MaxLiveFaults /\ tally' = [tally EXCEPT !.faults = @ + 1]
Commanded == tally.commands < MaxCommands /\ tally' = [tally EXCEPT !.commands = @ + 1]

----------------------------------------------------------------------------
\* The backend's worker, of which only the job's status is seen here.
JobEnds(j) ==
    /\ status[j] = "active"
    /\ \E s \in {"completed", "failed"} : status' = [status EXCEPT ![j] = s]
    /\ UNCHANGED <<local, monitor, linked, wire, list, poll, kept, read, command, tally>>

----------------------------------------------------------------------------
(* The monitors and the event stream. *)

Watched(j) == \E m \in Monitors : monitor[m].job = j

\* start: the server polls a job once, Electron as often as it is told to.
StartMonitor(j) ==
    IF ~local /\ Watched(j) THEN UNCHANGED monitor
    ELSE \E m \in Monitors :
            /\ monitor[m] = FreeMonitor
            /\ monitor' = [monitor EXCEPT ![m] = [FreeMonitor EXCEPT !.job = j, !.pc = "waiting"]]

MonitorReads(m) ==
    /\ monitor[m].pc = "waiting"
    /\ monitor' = [monitor EXCEPT ![m].pc = "read", ![m].active = status[monitor[m].job] = "active"]
    /\ UNCHANGED <<local, status, linked, wire, list, poll, kept, read, command, tally>>

\* Published to whoever is connected, and polled again until the job is over.
MonitorPublishes(m) ==
    /\ monitor[m].pc = "read"
    /\ IF linked THEN Len(wire) < MaxWire /\ wire' = Append(wire, [job |-> monitor[m].job, active |-> monitor[m].active])
       ELSE UNCHANGED wire
    /\ monitor' = [monitor EXCEPT ![m] = IF @.active THEN [@ EXCEPT !.pc = "waiting", !.active = FALSE]
                                         ELSE FreeMonitor]
    /\ UNCHANGED <<local, status, linked, list, poll, kept, read, command, tally>>

\* One failed read ends the monitor; nobody listens to "indexing-error".
MonitorDies(m) ==
    /\ monitor[m].pc = "waiting" /\ Faulty
    /\ monitor' = [monitor EXCEPT ![m] = FreeMonitor]
    /\ UNCHANGED <<local, status, linked, wire, list, poll, kept, read, command>>

\* EventSource and SseClient connect again, without the events they have missed.
StreamBreaks ==
    /\ ~local /\ linked /\ Faulty
    /\ linked' = FALSE /\ wire' = <<>>
    /\ UNCHANGED <<local, status, monitor, list, poll, kept, read, command>>

StreamConnects ==
    /\ ~linked /\ linked' = TRUE
    /\ UNCHANGED <<local, status, monitor, wire, list, poll, kept, read, command, tally>>

----------------------------------------------------------------------------
(* The page's list of jobs. *)

\* schedulePoll
Scheduled(l) == [l EXCEPT !.timer = l.jobs # {} /\ ~l.hidden]
\* render: the list of a status replaces the page's.
Rendered(l, jobs) == Scheduled([l EXCEPT !.jobs = jobs])

\* applyProgress of a job that a push or a retry tells of; only an active one is looked at again.
Progress(j, active) ==
    IF active THEN Scheduled([list EXCEPT !.jobs = @ \cup {j}, !.pushed = @ \cup {j}])
    ELSE [list EXCEPT !.jobs = @ \ {j}, !.pushed = @ \cup {j}]

PushArrives ==
    /\ wire # <<>>
    /\ list' = Progress(Head(wire).job, Head(wire).active)
    /\ wire' = Tail(wire)
    /\ UNCHANGED <<local, status, monitor, linked, poll, kept, read, command, tally>>

\* Twelve seconds without a push.
JobFallsSilent(j) ==
    /\ j \in list.pushed
    /\ list' = [list EXCEPT !.pushed = @ \ {j}]
    /\ UNCHANGED <<local, status, monitor, linked, wire, poll, kept, read, command, tally>>

\* refreshStatus, of a timer, a command or the user: what is cached is shown at once, even
\* if it is older than the list, then the status is read.
RefreshStatus ==
    /\ list' = Rendered(list, kept)
    /\ \/ \E x \in Reads : read[x].pc = "free" /\ read' = [read EXCEPT ![x].pc = "sent"]
       \/ (\E x \in Reads : read[x].pc # "free") /\ UNCHANGED read

OverviewRefreshes ==
    /\ RefreshStatus
    /\ UNCHANGED <<local, status, monitor, linked, wire, poll, kept, command, tally>>

StatusRead(x) ==
    /\ read[x].pc = "sent"
    /\ read' = [read EXCEPT ![x] = [pc |-> "answered", got |-> ActiveJobs]]
    /\ UNCHANGED <<local, status, monitor, linked, wire, list, poll, kept, command, tally>>

\* Every answer is rendered, in the order of arrival.
StatusAnswered(x) ==
    /\ read[x].pc = "answered"
    /\ list' = Rendered(list, read[x].got)
    /\ kept' = read[x].got
    /\ read' = [read EXCEPT ![x] = FreeRead]
    /\ UNCHANGED <<local, status, monitor, linked, wire, poll, command, tally>>

StatusFails(x) ==
    /\ read[x].pc # "free" /\ Faulty
    /\ read' = [read EXCEPT ![x] = FreeRead]
    /\ UNCHANGED <<local, status, monitor, linked, wire, list, poll, kept, command>>

----------------------------------------------------------------------------
(* The page's own poll of the active jobs. *)

\* Mutant of NeedsFallbackPoll: the page relies on the pushes.
NeedsFallbackPollNever == FALSE

NeedsFallbackPoll == list.jobs \ list.pushed # {}

PollActiveJobs ==
    /\ list.timer
    /\ IF poll.pc = "free" /\ ~NeedsFallbackPoll THEN list' = Scheduled(list)
       ELSE list' = [list EXCEPT !.timer = FALSE]
    /\ poll' = IF poll.pc = "free" /\ NeedsFallbackPoll THEN [poll EXCEPT !.pc = "sent"] ELSE poll
    /\ UNCHANGED <<local, status, monitor, linked, wire, kept, read, command, tally>>

PollRead ==
    /\ poll.pc = "sent"
    /\ poll' = [pc |-> "answered", got |-> ActiveJobs]
    /\ UNCHANGED <<local, status, monitor, linked, wire, list, kept, read, command, tally>>

\* replaceActiveJobs
PollAnswered ==
    /\ poll.pc = "answered"
    /\ list' = Rendered(list, poll.got)
    /\ poll' = FreeRead
    /\ UNCHANGED <<local, status, monitor, linked, wire, kept, read, command, tally>>

PollFails ==
    /\ poll.pc # "free" /\ Faulty
    /\ poll' = FreeRead /\ list' = Scheduled(list)
    /\ UNCHANGED <<local, status, monitor, linked, wire, kept, read, command>>

----------------------------------------------------------------------------
(* The user: hiding the page, and the commands on jobs. *)

Hide ==
    /\ ~list.hidden /\ Commanded
    /\ list' = [list EXCEPT !.hidden = TRUE, !.timer = FALSE]
    /\ UNCHANGED <<local, status, monitor, linked, wire, poll, kept, read, command>>

Unhide ==
    /\ list.hidden
    /\ list' = Scheduled([list EXCEPT !.hidden = FALSE])
    /\ UNCHANGED <<local, status, monitor, linked, wire, poll, kept, read, command, tally>>

Send(op, j) ==
    /\ command.pc = "none" /\ Commanded
    /\ command' = [op |-> op, job |-> j, pc |-> "sent"]
    /\ UNCHANGED <<local, status, monitor, linked, wire, list, poll, kept, read>>

\* The pending button, an active row's button, the history's button.
QueuePendingMessages(j) == list.jobs = {} /\ Send("queue", j)
CancelJob(j) == j \in list.jobs /\ Send("cancel", j)
RetryJob(j) == status[j] = "failed" /\ Send("retry", j)

\* The backend's part; the server's router watches what is answered, Electron only
\* what it has queued.
Permitted == [queue |-> States \ {"active"}, cancel |-> {"active"}, retry |-> {"failed"}]
CommandExecuted ==
    /\ command.pc = "sent" /\ status[command.job] \in Permitted[command.op]
    /\ status' = [status EXCEPT ![command.job] = IF command.op = "cancel" THEN "failed" ELSE "active"]
    /\ command' = [command EXCEPT !.pc = "answered"]
    /\ IF command.op = "queue" \/ ~local THEN StartMonitor(command.job) ELSE UNCHANGED monitor
    /\ UNCHANGED <<local, linked, wire, list, poll, kept, read, tally>>

CommandRefused ==
    /\ command.pc = "sent" /\ status[command.job] \notin Permitted[command.op]
    /\ command' = NoCommand
    /\ UNCHANGED <<local, status, monitor, linked, wire, list, poll, kept, read, tally>>

\* A retry is shown at once, anything else by a new status.
CommandAnswered ==
    /\ command.pc = "answered" /\ command' = NoCommand
    /\ IF command.op = "retry" THEN list' = Progress(command.job, TRUE) /\ UNCHANGED read ELSE RefreshStatus
    /\ UNCHANGED <<local, status, monitor, linked, wire, poll, kept, tally>>

----------------------------------------------------------------------------
\* The jobs that an import has queued are watched: startSessionJobs.
LiveInit ==
    /\ local \in BOOLEAN
    /\ status \in [Jobs -> {"none", "active"}]
    /\ \E watch \in [Monitors -> Jobs \cup {NoJob}] :
         /\ \A j \in Jobs : Cardinality({m \in Monitors : watch[m] = j}) = IF status[j] = "active" THEN 1 ELSE 0
         /\ monitor = [m \in Monitors |-> [FreeMonitor EXCEPT !.job = watch[m],
                                              !.pc = IF watch[m] = NoJob THEN "off" ELSE "waiting"]]
    /\ linked = TRUE /\ wire = <<>>
    /\ list = Rendered([jobs |-> {}, pushed |-> {}, hidden |-> FALSE, timer |-> FALSE], ActiveJobs)
    /\ poll = FreeRead /\ kept = ActiveJobs
    /\ read = [x \in Reads |-> FreeRead]
    /\ command = NoCommand /\ tally = [commands |-> 0, faults |-> 0]

LiveNext ==
    \/ \E j \in Jobs : JobEnds(j) \/ JobFallsSilent(j) \/ QueuePendingMessages(j) \/ CancelJob(j) \/ RetryJob(j)
    \/ \E m \in Monitors : MonitorReads(m) \/ MonitorPublishes(m) \/ MonitorDies(m)
    \/ \E x \in Reads : StatusRead(x) \/ StatusAnswered(x) \/ StatusFails(x)
    \/ StreamBreaks \/ StreamConnects \/ PushArrives \/ OverviewRefreshes
    \/ PollActiveJobs \/ PollRead \/ PollAnswered \/ PollFails
    \/ Hide \/ Unhide \/ CommandExecuted \/ CommandRefused \/ CommandAnswered

LiveSpec == LiveInit /\ [][LiveNext]_liveVars

\* Timers fire, requests are answered and events are handled.  Nothing is assumed of the
\* worker, the monitors, the stream or the user.
LiveFairSpec ==
    /\ LiveSpec
    /\ \A j \in Jobs : WF_liveVars(JobFallsSilent(j))
    /\ \A x \in Reads : WF_liveVars(StatusRead(x)) /\ WF_liveVars(StatusAnswered(x))
    /\ WF_liveVars(PollActiveJobs) /\ WF_liveVars(PollRead) /\ WF_liveVars(PollAnswered)
    /\ WF_liveVars(PushArrives)

----------------------------------------------------------------------------
(* Properties *)

LiveTypeOK ==
    /\ local \in BOOLEAN /\ linked \in BOOLEAN
    /\ status \in [Jobs -> States]
    /\ monitor \in [Monitors -> [job : Jobs \cup {NoJob}, pc : {"off", "waiting", "read"}, active : BOOLEAN]]
    /\ wire \in Seq([job : Jobs, active : BOOLEAN])
    /\ list \in [jobs : SUBSET Jobs, pushed : SUBSET Jobs, hidden : BOOLEAN, timer : BOOLEAN]
    /\ poll \in [pc : {"free", "sent", "answered"}, got : SUBSET Jobs]
    /\ kept \subseteq Jobs
    /\ read \in [Reads -> [pc : {"free", "sent", "answered"}, got : SUBSET Jobs]]
    /\ command \in [op : {"none", "queue", "cancel", "retry"}, job : Jobs \cup {NoJob},
                    pc : {"none", "sent", "answered"}]
    /\ tally \in [commands : 0..MaxCommands, faults : 0..MaxLiveFaults]

\* A visible page that shows an active job will look at it again, whatever was answered,
\* lost or hidden in between: its poll is scheduled or under way.
PollCoversActiveJobs == list.jobs # {} /\ ~list.hidden => list.timer \/ poll.pc # "free"

\* A job that is over for good does not stay on a visible page for ever, even if its
\* push was lost or an older answer has put it back: the poll covers it to the end.
EndedJobsDisappear ==
    /\ []PollCoversActiveJobs
    /\ \A j \in Jobs : <>[](status[j] # "active" /\ ~list.hidden) => <>[](j \notin list.jobs)
=============================================================================
