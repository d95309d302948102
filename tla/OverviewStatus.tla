--------------------------- MODULE OverviewStatus ---------------------------
(***************************************************************************)
(* The status of the archive on the page: the workspace cache's entry for    *)
(* it, the requests that fill the entry, and the timers that read it again   *)
(* while a job is active or the read model is being prepared.  What the      *)
(* cache holds is shown at once; an invalidation supersedes the requests     *)
(* under way, whose answers are then shown but no longer kept.               *)
(***************************************************************************)
EXTENDS Naturals

CONSTANTS
    StatusReads,    \* requests for the status under way together (a bound)
    MaxChanges,     \* bound: changes of the backend that the page does not make
    MaxStatusActs   \* bound: acts of the user, and failed requests

ASSUME StatusAssumption == MaxChanges \in Nat /\ MaxStatusActs \in Nat

VARIABLES
    backend,       \* what a status would say: is a job active, is the read model preparing
    statusEntry,   \* workspaceCache's entry: value, hasValue, whether it is fresh
    statusRequest, \* requests for the status; inFlight is the one that is not superseded
    shown,         \* the page: latestStatus, its visibility, its timers
    acts,          \* changes and acts so far
    marked         \* history: the end of a job since which the page has invalidated the entry

statusVars == <<backend, statusEntry, statusRequest, shown, acts, marked>>

----------------------------------------------------------------------------
Status == [active : BOOLEAN, pending : BOOLEAN]
NoStatus == [active |-> FALSE, pending |-> FALSE]
FreeStatusRequest == [pc |-> "free", stale |-> FALSE, got |-> NoStatus]

Acted == acts.acts < MaxStatusActs /\ acts' = [acts EXCEPT !.acts = @ + 1]
Changed == acts.changes < MaxChanges /\ acts' = [acts EXCEPT !.changes = @ + 1]

----------------------------------------------------------------------------
(* The backend: jobs start and end, and leave the read model to be refreshed. *)

JobStarts ==
    /\ ~backend.active /\ Changed
    /\ backend' = [backend EXCEPT !.active = TRUE] /\ marked' = FALSE
    /\ UNCHANGED <<statusEntry, statusRequest, shown>>

\* The push of the end reaches the page: refreshAfterTerminal.
JobEndsAndIsPushed ==
    /\ backend.active
    /\ backend' = [active |-> FALSE, pending |-> TRUE]
    /\ shown' = [shown EXCEPT !.terminalTimer = TRUE]
    /\ UNCHANGED <<statusEntry, statusRequest, acts, marked>>

ProjectionRefreshed ==
    /\ backend.pending /\ backend' = [backend EXCEPT !.pending = FALSE]
    /\ UNCHANGED <<statusEntry, statusRequest, shown, acts, marked>>

----------------------------------------------------------------------------
(* The cache. *)

Invalidated(e) == [e EXCEPT !.fresh = FALSE]
SupersededRequests(r) ==
    [x \in StatusReads |-> IF r[x].pc = "free" THEN r[x] ELSE [r[x] EXCEPT !.stale = TRUE]]

InFlight(r) == \E x \in StatusReads : r[x].pc # "free" /\ ~r[x].stale
\* load: a request that is still valid is shared, else there is a new one.
Load(r) ==
    IF InFlight(r) THEN statusRequest' = r
    ELSE \E x \in StatusReads : r[x].pc = "free" /\ statusRequest' = [r EXCEPT ![x].pc = "sent"]

RequestRead(x) ==
    /\ statusRequest[x].pc = "sent"
    /\ statusRequest' = [statusRequest EXCEPT ![x].pc = "read", ![x].got = backend]
    /\ UNCHANGED <<backend, statusEntry, shown, acts, marked>>

\* Mutant of Kept: an answer is kept although its request was superseded.
KeptAnyway(x) == [has |-> TRUE, fresh |-> TRUE, value |-> statusRequest[x].got]

Kept(x) ==
    IF statusRequest[x].stale THEN statusEntry
    ELSE [has |-> TRUE, fresh |-> TRUE, value |-> statusRequest[x].got]

\* statusMaximumAgeMs has passed.
EntryAges ==
    /\ statusEntry.fresh /\ statusEntry' = Invalidated(statusEntry)
    /\ UNCHANGED <<backend, statusRequest, shown, acts, marked>>

----------------------------------------------------------------------------
(* The overview. *)

\* renderStatus: latestStatus, and scheduleStatusRefresh.
Rendered(v, s) == [v EXCEPT !.status = s, !.rendered = TRUE,
                            !.statusTimer = ~v.hidden /\ (s.pending \/ s.active)]
\* refreshProjectionConsumers: a summary that has become ready invalidates the entry.
ProjectionFinished(v, s) == v.rendered /\ v.status.pending /\ ~s.pending

\* refreshStatus, forced
RefreshStatus(v, e, r) ==
    LET finished == e.has /\ ProjectionFinished(v, e.value) IN
    /\ shown' = IF e.has THEN Rendered(v, e.value) ELSE v
    /\ statusEntry' = IF finished THEN Invalidated(e) ELSE e
    /\ Load(IF finished THEN SupersededRequests(r) ELSE r)

RenderStatus(s, e, r) ==
    /\ shown' = Rendered(shown, s)
    /\ statusEntry' = IF ProjectionFinished(shown, s) THEN Invalidated(e) ELSE e
    /\ statusRequest' = IF ProjectionFinished(shown, s) THEN SupersededRequests(r) ELSE r

\* open: what is fresh is not read again.
OpenOverview ==
    /\ Acted
    /\ IF statusEntry.has /\ statusEntry.fresh THEN RenderStatus(statusEntry.value, statusEntry, statusRequest)
       ELSE RefreshStatus(shown, statusEntry, statusRequest)
    /\ UNCHANGED <<backend, marked>>

\* refreshWorkspaceData after an import or a clear, and refreshOverview after a command on a job:
\* markDatabaseChanged, then the status.
WorkspaceChanged ==
    /\ Acted
    /\ RefreshStatus(shown, Invalidated(statusEntry), SupersededRequests(statusRequest))
    /\ UNCHANGED <<backend, marked>>

StatusTimerFires ==
    /\ shown.statusTimer
    /\ RefreshStatus([shown EXCEPT !.statusTimer = FALSE], statusEntry, statusRequest)
    /\ UNCHANGED <<backend, acts, marked>>

TerminalTimerFires ==
    /\ shown.terminalTimer
    /\ RefreshStatus([shown EXCEPT !.terminalTimer = FALSE], Invalidated(statusEntry),
                     SupersededRequests(statusRequest))
    /\ marked' = ~backend.active
    /\ UNCHANGED <<backend, acts>>

StatusAnswered(x) ==
    /\ statusRequest[x].pc = "read"
    /\ RenderStatus(statusRequest[x].got, Kept(x), [statusRequest EXCEPT ![x] = FreeStatusRequest])
    /\ UNCHANGED <<backend, acts, marked>>

\* Only a toast: the next look is up to the timers.
StatusFails(x) ==
    /\ statusRequest[x].pc # "free" /\ Acted
    /\ statusRequest' = [statusRequest EXCEPT ![x] = FreeStatusRequest]
    /\ UNCHANGED <<backend, statusEntry, shown, marked>>

\* visibilitychange
Hide ==
    /\ ~shown.hidden /\ Acted
    /\ shown' = [shown EXCEPT !.hidden = TRUE, !.statusTimer = FALSE]
    /\ UNCHANGED <<backend, statusEntry, statusRequest, marked>>

Unhide ==
    /\ shown.hidden
    /\ LET v == [shown EXCEPT !.hidden = FALSE] IN
       IF v.rendered THEN RefreshStatus(v, statusEntry, statusRequest)
       ELSE shown' = v /\ UNCHANGED <<statusEntry, statusRequest>>
    /\ UNCHANGED <<backend, acts, marked>>

----------------------------------------------------------------------------
StatusInit ==
    /\ backend \in Status /\ marked = FALSE
    /\ statusEntry = [has |-> FALSE, fresh |-> FALSE, value |-> NoStatus]
    /\ statusRequest = [x \in StatusReads |-> FreeStatusRequest]
    /\ shown = [status |-> NoStatus, rendered |-> FALSE, hidden |-> FALSE,
                statusTimer |-> FALSE, terminalTimer |-> FALSE]
    /\ acts = [changes |-> 0, acts |-> 0]

StatusNext ==
    \/ JobStarts \/ JobEndsAndIsPushed \/ ProjectionRefreshed \/ EntryAges
    \/ OpenOverview \/ WorkspaceChanged \/ StatusTimerFires \/ TerminalTimerFires \/ Hide \/ Unhide
    \/ \E x \in StatusReads : RequestRead(x) \/ StatusAnswered(x) \/ StatusFails(x)

StatusSpec == StatusInit /\ [][StatusNext]_statusVars

----------------------------------------------------------------------------
(* Properties *)

StatusTypeOK ==
    /\ backend \in Status /\ marked \in BOOLEAN
    /\ statusEntry \in [has : BOOLEAN, fresh : BOOLEAN, value : Status]
    /\ statusRequest \in [StatusReads -> [pc : {"free", "sent", "read"}, stale : BOOLEAN, got : Status]]
    /\ shown \in [status : Status, rendered : BOOLEAN, hidden : BOOLEAN,
                  statusTimer : BOOLEAN, terminalTimer : BOOLEAN]
    /\ acts \in [changes : 0..MaxChanges, acts : 0..MaxStatusActs]

\* Once the page has invalidated the status for the end of a job, what the cache offers as
\* fresh does not list the job as active, in whatever order the answers arrive.
FreshEntryKnowsTheEnd == marked /\ statusEntry.fresh => ~statusEntry.value.active

\* "One central status poll follows" a read model that is not ready (docs/renderer-shell.md
\* 211-213): once anything is cached, a visible page that shows the model pending has a
\* timer or a request, for the cached status sets the timer before the request that may
\* fail.  What escapes is a first status that was invalidated before it was answered.
CachedSummaryIsFollowed ==
    statusEntry.has /\ shown.rendered /\ shown.status.pending /\ ~shown.hidden
        => shown.statusTimer \/ \E x \in StatusReads : statusRequest[x].pc # "free"

\* The status on the page is neither taken for fresh when it is outdated nor left as it
\* is while it is known to be about to change.
StatusIsFollowed == FreshEntryKnowsTheEnd /\ CachedSummaryIsFollowed
=============================================================================
