----------------------------- MODULE PageProofs -----------------------------
(***************************************************************************)
(* What holds of the parts of the page that read from the backend: of        *)
(* OverviewStatus, PagedLists, ChatPage and ChatHistory, for any number of   *)
(* requests, pages, questions and chats under way together, and however      *)
(* often the user acts and requests fail.                                    *)
(***************************************************************************)
EXTENDS OverviewStatus, PagedLists, ChatPage, ChatHistory, TLAPS

-----------------------------------------------------------------------------
(* The status: the inductive invariant. *)

StatusEntry == [has : BOOLEAN, fresh : BOOLEAN, value : Status]
StatusRequest == [pc : {"free", "sent", "read"}, stale : BOOLEAN, got : Status]
ShownStatus == [status : Status, rendered : BOOLEAN, hidden : BOOLEAN,
                statusTimer : BOOLEAN, terminalTimer : BOOLEAN]

\* Since the end that was marked no job is active, and whoever has read the status since may
\* say so; the others are superseded.
EndIsKnown ==
    marked =>
        /\ ~backend.active
        /\ statusEntry.fresh => ~statusEntry.value.active
        /\ \A x \in StatusReads :
             statusRequest[x].pc = "read" /\ ~statusRequest[x].stale => ~statusRequest[x].got.active

\* With a cached status the timer is set whenever a pending summary is rendered: no request
\* has to succeed for it.
SummaryHasTimer ==
    statusEntry.has /\ shown.rendered /\ shown.status.pending /\ ~shown.hidden => shown.statusTimer

StatusInv == StatusTypeOK /\ EndIsKnown /\ SummaryHasTimer

-----------------------------------------------------------------------------
(* The status: its data. *)

LEMMA StatusTypes ==
  ASSUME StatusTypeOK
  PROVE  /\ backend \in Status /\ marked \in BOOLEAN /\ statusEntry \in StatusEntry
         /\ statusRequest \in [StatusReads -> StatusRequest] /\ shown \in ShownStatus
         /\ acts \in [changes : 0..MaxChanges, acts : 0..MaxStatusActs]
BY DEF StatusTypeOK, StatusEntry, StatusRequest, ShownStatus

LEMMA StatusTypesAgain ==
  ASSUME backend' \in Status, marked' \in BOOLEAN, statusEntry' \in StatusEntry,
         statusRequest' \in [StatusReads -> StatusRequest], shown' \in ShownStatus,
         acts' \in [changes : 0..MaxChanges, acts : 0..MaxStatusActs]
  PROVE  StatusTypeOK'
BY DEF StatusTypeOK, StatusEntry, StatusRequest, ShownStatus

\* Counting an act or a change stays within the bounds.
LEMMA CountsActs ==
  ASSUME acts \in [changes : 0..MaxChanges, acts : 0..MaxStatusActs], Acted \/ Changed
  PROVE  acts' \in [changes : 0..MaxChanges, acts : 0..MaxStatusActs]
<1>1. acts.acts < MaxStatusActs => acts.acts + 1 \in 0..MaxStatusActs
    BY StatusAssumption
<1>2. acts.changes < MaxChanges => acts.changes + 1 \in 0..MaxChanges
    BY StatusAssumption
<1> QED
    BY <1>1, <1>2 DEF Acted, Changed

\* An invalidated entry is not fresh and otherwise the same.
LEMMA InvalidatedEntry ==
  ASSUME NEW e \in StatusEntry
  PROVE  /\ Invalidated(e) \in StatusEntry /\ ~Invalidated(e).fresh
         /\ Invalidated(e).has = e.has /\ Invalidated(e).value = e.value
BY DEF Invalidated, StatusEntry

\* Superseding touches no more than the mark, and leaves no request that is still valid.
LEMMA SupersededAreStale ==
  ASSUME NEW r \in [StatusReads -> StatusRequest]
  PROVE  /\ SupersededRequests(r) \in [StatusReads -> StatusRequest]
         /\ \A x \in StatusReads : /\ SupersededRequests(r)[x].pc = r[x].pc
                                   /\ SupersededRequests(r)[x].got = r[x].got
                                   /\ r[x].stale => SupersededRequests(r)[x].stale
                                   /\ r[x].pc # "free" => SupersededRequests(r)[x].stale
BY DEF SupersededRequests, StatusRequest

\* A load reads nothing yet: whatever has read the status had done so before.
LEMMA LoadReadsNothing ==
  ASSUME NEW r \in [StatusReads -> StatusRequest], Load(r)
  PROVE  /\ statusRequest' \in [StatusReads -> StatusRequest]
         /\ \A x \in StatusReads : statusRequest'[x].pc = "read" => statusRequest'[x] = r[x]
<1>1. CASE InFlight(r)
    BY <1>1 DEF Load
<1>2. CASE ~InFlight(r)
  <2>1. PICK x \in StatusReads : r[x].pc = "free" /\ statusRequest' = [r EXCEPT ![x].pc = "sent"]
      BY <1>2 DEF Load
  <2> QED
      BY <2>1 DEF StatusRequest
<1> QED
    BY <1>1, <1>2

\* What is rendered is what was given, and a visible pending summary sets the timer.
LEMMA RenderedStatus ==
  ASSUME NEW v \in ShownStatus, NEW s \in Status
  PROVE  /\ Rendered(v, s) \in ShownStatus
         /\ Rendered(v, s).status = s /\ Rendered(v, s).hidden = v.hidden
         /\ s.pending /\ ~v.hidden => Rendered(v, s).statusTimer
BY DEF Rendered, ShownStatus, Status

-----------------------------------------------------------------------------
(* The status: what the handlers have in common. *)

\* What may be known about an entry and about requests when an end has been marked.
Knows(e, r) ==
    /\ e.fresh => ~e.value.active
    /\ \A x \in StatusReads : r[x].pc = "read" /\ ~r[x].stale => ~r[x].got.active

LEMMA KnowsAfterInvalidation ==
  ASSUME NEW e \in StatusEntry, NEW r \in [StatusReads -> StatusRequest]
  PROVE  Knows(Invalidated(e), SupersededRequests(r))
BY InvalidatedEntry, SupersededAreStale, Zenon DEF Knows

\* refreshStatus keeps the types, the knowledge of an end, and the timer of a cached summary.
LEMMA RefreshStatusKeeps ==
  ASSUME NEW v \in ShownStatus, NEW e \in StatusEntry, NEW r \in [StatusReads -> StatusRequest],
         RefreshStatus(v, e, r)
  PROVE  /\ shown' \in ShownStatus /\ statusEntry' \in StatusEntry
         /\ statusRequest' \in [StatusReads -> StatusRequest]
         /\ Knows(e, r) => Knows(statusEntry', statusRequest')
         /\ statusEntry'.has /\ shown'.status.pending /\ ~shown'.hidden => shown'.statusTimer
<1> DEFINE finished == e.has /\ ProjectionFinished(v, e.value)
           q == IF finished THEN SupersededRequests(r) ELSE r
<1>1. /\ shown' = IF e.has THEN Rendered(v, e.value) ELSE v
      /\ statusEntry' = IF finished THEN Invalidated(e) ELSE e
      /\ Load(q)
    BY DEF RefreshStatus
<1>2. e.value \in Status
    BY DEF StatusEntry
<1>3. statusEntry' \in StatusEntry /\ statusEntry'.has = e.has
    BY <1>1, InvalidatedEntry
<1>4. shown' \in ShownStatus
    BY <1>1, <1>2, RenderedStatus
<1>5. q \in [StatusReads -> StatusRequest]
    BY SupersededAreStale
<1>6. /\ statusRequest' \in [StatusReads -> StatusRequest]
      /\ \A x \in StatusReads : statusRequest'[x].pc = "read" => statusRequest'[x] = q[x]
    BY <1>1, <1>5, LoadReadsNothing
<1>7. Knows(e, r) => Knows(statusEntry', q)
    BY <1>1, KnowsAfterInvalidation
<1>8. Knows(statusEntry', q) => Knows(statusEntry', statusRequest')
    BY <1>6 DEF Knows
<1>9. statusEntry'.has /\ shown'.status.pending /\ ~shown'.hidden => shown'.statusTimer
    BY <1>1, <1>2, <1>3, RenderedStatus
<1> QED
    BY <1>3, <1>4, <1>6, <1>7, <1>8, <1>9

LEMMA RenderStatusKeeps ==
  ASSUME shown \in ShownStatus, NEW s \in Status, NEW e \in StatusEntry,
         NEW r \in [StatusReads -> StatusRequest], RenderStatus(s, e, r)
  PROVE  /\ shown' \in ShownStatus /\ statusEntry' \in StatusEntry
         /\ statusRequest' \in [StatusReads -> StatusRequest]
         /\ Knows(e, r) => Knows(statusEntry', statusRequest')
         /\ shown'.status.pending /\ ~shown'.hidden => shown'.statusTimer
<1>1. /\ shown' = Rendered(shown, s)
      /\ statusEntry' = IF ProjectionFinished(shown, s) THEN Invalidated(e) ELSE e
      /\ statusRequest' = IF ProjectionFinished(shown, s) THEN SupersededRequests(r) ELSE r
    BY DEF RenderStatus
<1> QED
    BY <1>1, RenderedStatus, InvalidatedEntry, SupersededAreStale, KnowsAfterInvalidation

\* The two halves of EndIsKnown.
LEMMA KnownEnd ==
  ASSUME EndIsKnown
  PROVE  marked => ~backend.active /\ Knows(statusEntry, statusRequest)
BY DEF EndIsKnown, Knows

LEMMA KnownEndAgain ==
  ASSUME marked' => ~backend'.active /\ Knows(statusEntry', statusRequest')
  PROVE  EndIsKnown'
BY DEF EndIsKnown, Knows

LEMMA StatusStarts ==
  ASSUME StatusInit PROVE StatusInv
<1>1. NoStatus \in Status
    BY DEF NoStatus, Status
<1>2. 0 \in 0..MaxChanges /\ 0 \in 0..MaxStatusActs
    BY StatusAssumption
<1>3. FreeStatusRequest \in StatusRequest
    BY <1>1 DEF FreeStatusRequest, StatusRequest
<1>4. StatusTypeOK
    BY <1>1, <1>2, <1>3 DEF StatusInit, StatusTypeOK, StatusRequest
<1> QED
    BY <1>4 DEF StatusInit, StatusInv, EndIsKnown, SummaryHasTimer

-----------------------------------------------------------------------------
(* The status: every step keeps the invariant. *)

LEMMA BackendKeeps ==
  ASSUME StatusInv, JobStarts \/ JobEndsAndIsPushed \/ ProjectionRefreshed PROVE StatusInv'
<1> USE StatusTypes DEF StatusInv
<1>1. CASE JobStarts
  <2>1. backend' \in Status
      BY <1>1 DEF JobStarts, Status
  <2>2. StatusTypeOK'
      BY <1>1, <2>1, CountsActs, StatusTypesAgain DEF JobStarts
  <2> QED
      BY <1>1, <2>2 DEF JobStarts, EndIsKnown, SummaryHasTimer
<1>2. CASE JobEndsAndIsPushed
  <2>1. backend' \in Status /\ shown' \in ShownStatus
      BY <1>2 DEF JobEndsAndIsPushed, Status, ShownStatus
  <2>2. StatusTypeOK'
      BY <1>2, <2>1, StatusTypesAgain DEF JobEndsAndIsPushed
  <2> QED
      BY <1>2, <2>2 DEF JobEndsAndIsPushed, EndIsKnown, SummaryHasTimer, ShownStatus
<1>3. CASE ProjectionRefreshed
  <2>1. backend' \in Status /\ backend'.active = backend.active
      BY <1>3 DEF ProjectionRefreshed, Status
  <2>2. StatusTypeOK'
      BY <1>3, <2>1, StatusTypesAgain DEF ProjectionRefreshed
  <2> QED
      BY <1>3, <2>1, <2>2 DEF ProjectionRefreshed, EndIsKnown, SummaryHasTimer
<1> QED
    BY <1>1, <1>2, <1>3

LEMMA RequestReadKeeps ==
  ASSUME StatusInv, NEW x \in StatusReads, RequestRead(x) PROVE StatusInv'
<1> USE StatusTypes DEF StatusInv, RequestRead
<1>1. statusRequest' \in [StatusReads -> StatusRequest]
    BY DEF StatusRequest
<1>2. StatusTypeOK'
    BY <1>1, StatusTypesAgain
<1>3. /\ statusRequest'[x].got = backend
      /\ \A y \in StatusReads \ {x} : statusRequest'[y] = statusRequest[y]
    BY DEF StatusRequest
<1>4. EndIsKnown'
    BY <1>3 DEF EndIsKnown
<1> QED
    BY <1>2, <1>4 DEF SummaryHasTimer

LEMMA EntryAgesKeeps ==
  ASSUME StatusInv, EntryAges PROVE StatusInv'
<1> USE StatusTypes DEF StatusInv, EntryAges
<1>1. statusEntry' \in StatusEntry /\ ~statusEntry'.fresh /\ statusEntry'.has = statusEntry.has
    BY InvalidatedEntry
<1>2. StatusTypeOK'
    BY <1>1, StatusTypesAgain
<1> QED
    BY <1>1, <1>2 DEF EndIsKnown, SummaryHasTimer

LEMMA OpenOverviewKeeps ==
  ASSUME StatusInv, OpenOverview PROVE StatusInv'
<1> USE StatusTypes DEF StatusInv, OpenOverview
<1>1. \/ RenderStatus(statusEntry.value, statusEntry, statusRequest)
      \/ RefreshStatus(shown, statusEntry, statusRequest)
    OBVIOUS
<1>2. statusEntry.value \in Status
    BY DEF StatusEntry
<1>3. /\ shown' \in ShownStatus /\ statusEntry' \in StatusEntry
      /\ statusRequest' \in [StatusReads -> StatusRequest]
      /\ Knows(statusEntry, statusRequest) => Knows(statusEntry', statusRequest')
      /\ statusEntry'.has /\ shown'.status.pending /\ ~shown'.hidden => shown'.statusTimer
    BY <1>1, <1>2, RenderStatusKeeps, RefreshStatusKeeps
<1>4. StatusTypeOK'
    BY <1>3, CountsActs, StatusTypesAgain
<1>5. EndIsKnown'
    BY <1>3, KnownEnd, KnownEndAgain
<1> QED
    BY <1>3, <1>4, <1>5 DEF SummaryHasTimer

LEMMA WorkspaceChangedKeeps ==
  ASSUME StatusInv, WorkspaceChanged PROVE StatusInv'
<1> USE StatusTypes DEF StatusInv, WorkspaceChanged
<1> DEFINE e == Invalidated(statusEntry)
           r == SupersededRequests(statusRequest)
<1>1. e \in StatusEntry /\ r \in [StatusReads -> StatusRequest] /\ Knows(e, r)
    BY InvalidatedEntry, SupersededAreStale, KnowsAfterInvalidation
<1>2. RefreshStatus(shown, e, r)
    OBVIOUS
<1>3. /\ shown' \in ShownStatus /\ statusEntry' \in StatusEntry
      /\ statusRequest' \in [StatusReads -> StatusRequest] /\ Knows(statusEntry', statusRequest')
      /\ statusEntry'.has /\ shown'.status.pending /\ ~shown'.hidden => shown'.statusTimer
    BY <1>1, <1>2, RefreshStatusKeeps
<1>4. StatusTypeOK'
    BY <1>3, CountsActs, StatusTypesAgain
<1>5. EndIsKnown'
    BY <1>3, KnownEnd, KnownEndAgain
<1> QED
    BY <1>3, <1>4, <1>5 DEF SummaryHasTimer

LEMMA StatusTimerKeeps ==
  ASSUME StatusInv, StatusTimerFires PROVE StatusInv'
<1> USE StatusTypes DEF StatusInv, StatusTimerFires
<1>1. [shown EXCEPT !.statusTimer = FALSE] \in ShownStatus
    BY DEF ShownStatus
<1>2. /\ shown' \in ShownStatus /\ statusEntry' \in StatusEntry
      /\ statusRequest' \in [StatusReads -> StatusRequest]
      /\ Knows(statusEntry, statusRequest) => Knows(statusEntry', statusRequest')
      /\ statusEntry'.has /\ shown'.status.pending /\ ~shown'.hidden => shown'.statusTimer
    BY <1>1, RefreshStatusKeeps
<1>3. StatusTypeOK'
    BY <1>2, StatusTypesAgain
<1>4. EndIsKnown'
    BY <1>2, KnownEnd, KnownEndAgain
<1> QED
    BY <1>2, <1>3, <1>4 DEF SummaryHasTimer

\* Here the end of a job is marked: everything that was read before it is superseded.
LEMMA TerminalTimerKeeps ==
  ASSUME StatusInv, TerminalTimerFires PROVE StatusInv'
<1> USE StatusTypes DEF StatusInv, TerminalTimerFires
<1> DEFINE v == [shown EXCEPT !.terminalTimer = FALSE]
           e == Invalidated(statusEntry)
           r == SupersededRequests(statusRequest)
<1>1. v \in ShownStatus
    BY DEF ShownStatus
<1>2. e \in StatusEntry /\ r \in [StatusReads -> StatusRequest] /\ Knows(e, r)
    BY InvalidatedEntry, SupersededAreStale, KnowsAfterInvalidation
<1>3. RefreshStatus(v, e, r)
    OBVIOUS
<1>4. /\ shown' \in ShownStatus /\ statusEntry' \in StatusEntry
      /\ statusRequest' \in [StatusReads -> StatusRequest] /\ Knows(statusEntry', statusRequest')
      /\ statusEntry'.has /\ shown'.status.pending /\ ~shown'.hidden => shown'.statusTimer
    BY <1>1, <1>2, <1>3, RefreshStatusKeeps
<1>5. marked' \in BOOLEAN /\ (marked' => ~backend'.active)
    BY DEF Status
<1>6. StatusTypeOK'
    BY <1>4, <1>5, StatusTypesAgain
<1>7. EndIsKnown'
    BY <1>4, <1>5, KnownEndAgain
<1> QED
    BY <1>4, <1>6, <1>7 DEF SummaryHasTimer

\* An answer whose request is still valid is kept, and knows what the backend knew.
LEMMA StatusAnsweredKeeps ==
  ASSUME StatusInv, NEW x \in StatusReads, StatusAnswered(x) PROVE StatusInv'
<1> USE StatusTypes DEF StatusInv, StatusAnswered
<1> DEFINE r == [statusRequest EXCEPT ![x] = FreeStatusRequest]
<1>1. NoStatus \in Status
    BY DEF NoStatus, Status
<1>2. r \in [StatusReads -> StatusRequest]
    BY <1>1 DEF FreeStatusRequest, StatusRequest
<1>3. statusRequest[x].got \in Status
    BY DEF StatusRequest
<1>4. Kept(x) \in StatusEntry
    BY <1>3 DEF Kept, StatusEntry
<1>5. marked => Knows(Kept(x), r)
    BY KnownEnd DEF Knows, Kept, FreeStatusRequest, EndIsKnown
<1>6. RenderStatus(statusRequest[x].got, Kept(x), r)
    OBVIOUS
<1>7. /\ shown' \in ShownStatus /\ statusEntry' \in StatusEntry
      /\ statusRequest' \in [StatusReads -> StatusRequest]
      /\ Knows(Kept(x), r) => Knows(statusEntry', statusRequest')
      /\ shown'.status.pending /\ ~shown'.hidden => shown'.statusTimer
    BY <1>2, <1>3, <1>4, <1>6, RenderStatusKeeps
<1>8. StatusTypeOK'
    BY <1>7, StatusTypesAgain
<1>9. EndIsKnown'
    BY <1>5, <1>7, KnownEnd, KnownEndAgain
<1> QED
    BY <1>7, <1>8, <1>9 DEF SummaryHasTimer

LEMMA StatusFailsKeeps ==
  ASSUME StatusInv, NEW x \in StatusReads, StatusFails(x) PROVE StatusInv'
<1> USE StatusTypes DEF StatusInv, StatusFails
<1>1. NoStatus \in Status
    BY DEF NoStatus, Status
<1>2. statusRequest' \in [StatusReads -> StatusRequest]
    BY <1>1 DEF FreeStatusRequest, StatusRequest
<1>3. StatusTypeOK'
    BY <1>2, CountsActs, StatusTypesAgain
<1>4. EndIsKnown'
    BY DEF EndIsKnown, FreeStatusRequest
<1> QED
    BY <1>3, <1>4 DEF SummaryHasTimer

LEMMA HideKeeps ==
  ASSUME StatusInv, Hide PROVE StatusInv'
<1> USE StatusTypes DEF StatusInv, Hide
<1>1. shown' \in ShownStatus /\ shown'.hidden
    BY DEF ShownStatus
<1>2. StatusTypeOK'
    BY <1>1, CountsActs, StatusTypesAgain
<1> QED
    BY <1>1, <1>2 DEF EndIsKnown, SummaryHasTimer

LEMMA UnhideKeeps ==
  ASSUME StatusInv, Unhide PROVE StatusInv'
<1> USE StatusTypes DEF StatusInv, Unhide
<1> DEFINE v == [shown EXCEPT !.hidden = FALSE]
<1>1. v \in ShownStatus /\ v.rendered = shown.rendered
    BY DEF ShownStatus
<1>2. CASE v.rendered
  <2>1. RefreshStatus(v, statusEntry, statusRequest)
      BY <1>2
  <2>2. /\ shown' \in ShownStatus /\ statusEntry' \in StatusEntry
        /\ statusRequest' \in [StatusReads -> StatusRequest]
        /\ Knows(statusEntry, statusRequest) => Knows(statusEntry', statusRequest')
        /\ statusEntry'.has /\ shown'.status.pending /\ ~shown'.hidden => shown'.statusTimer
      BY <1>1, <2>1, RefreshStatusKeeps
  <2>3. StatusTypeOK'
      BY <2>2, StatusTypesAgain
  <2>4. EndIsKnown'
      BY <2>2, KnownEnd, KnownEndAgain
  <2> QED
      BY <2>2, <2>3, <2>4 DEF SummaryHasTimer
<1>3. CASE ~v.rendered
  <2>1. shown' = v /\ UNCHANGED <<statusEntry, statusRequest>>
      BY <1>3
  <2>2. StatusTypeOK'
      BY <1>1, <2>1, StatusTypesAgain
  <2> QED
      BY <1>1, <1>3, <2>1, <2>2 DEF EndIsKnown, SummaryHasTimer
<1> QED
    BY <1>2, <1>3

LEMMA StatusSteps ==
  ASSUME StatusInv, [StatusNext]_statusVars PROVE StatusInv'
<1>1. CASE UNCHANGED statusVars
  <2>1. UNCHANGED <<backend, statusEntry, statusRequest, shown, acts, marked>>
      BY <1>1 DEF statusVars
  <2> QED
      BY <2>1 DEF StatusInv, StatusTypeOK, EndIsKnown, SummaryHasTimer
<1>2. CASE \E x \in StatusReads : RequestRead(x) \/ StatusAnswered(x) \/ StatusFails(x)
    BY <1>2, RequestReadKeeps, StatusAnsweredKeeps, StatusFailsKeeps
<1>3. CASE JobStarts \/ JobEndsAndIsPushed \/ ProjectionRefreshed \/ EntryAges
    BY <1>3, BackendKeeps, EntryAgesKeeps
<1>4. CASE OpenOverview \/ WorkspaceChanged \/ StatusTimerFires \/ TerminalTimerFires \/ Hide \/ Unhide
    BY <1>4, OpenOverviewKeeps, WorkspaceChangedKeeps, StatusTimerKeeps, TerminalTimerKeeps, HideKeeps,
       UnhideKeeps
<1> QED
    BY <1>1, <1>2, <1>3, <1>4 DEF StatusNext

-----------------------------------------------------------------------------
(* The status: theorems. *)

\* The invariant of the status holds initially, and every step keeps it.
THEOREM StatusInductive == StatusSpec => []StatusInv
<1>1. StatusInit => StatusInv
    BY StatusStarts
<1>2. StatusInv /\ [StatusNext]_statusVars => StatusInv'
    BY StatusSteps
<1> QED
    BY <1>1, <1>2, PTL DEF StatusSpec

LEMMA StatusFollowed == StatusInv => StatusIsFollowed
<1>1. StatusInv => FreshEntryKnowsTheEnd
    BY DEF StatusInv, EndIsKnown, FreshEntryKnowsTheEnd
<1>2. StatusInv => CachedSummaryIsFollowed
    BY DEF StatusInv, SummaryHasTimer, CachedSummaryIsFollowed
<1> QED
    BY <1>1, <1>2 DEF StatusIsFollowed

\* For any number of requests and in whatever order they are answered, superseded or fail: a
\* fresh status knows of the end that the page was told of, and a visible pending summary is
\* followed.
THEOREM StatusStaysFollowed == StatusSpec => []StatusIsFollowed
BY StatusFollowed, StatusInductive, PTL

-----------------------------------------------------------------------------
(* The paged lists: the inductive invariant. *)

Table == [rows : Seq(Pages), next : Pages \cup {0}, busy : BOOLEAN, failed : BOOLEAN, cached : BOOLEAN]
AnswerHistory == [offset : Pages, filter : Servers, listed : [page : Pages \cup {0}, server : Servers],
                  label : Pages \cup {0}, first : BOOLEAN, last : BOOLEAN]
PageRequest == [of : {"none", "first", "next", "page"}, page : Pages \cup {0}, server : Servers \cup {"none"}]

\* A request belongs to the list that is shown; an empty list has no next page, and the chunks
\* are cached as soon as there are any.
ListsFit ==
    /\ openings <= reads
    /\ table.rows = <<>> => table.next = 0
    /\ kind = "chunks" => ~table.failed /\ (table.rows # <<>> => table.cached)
    /\ \A r \in PageRequests :
         /\ pageRequest[r].of = "page" =>
              kind = "history" /\ pageRequest[r].page \in Pages /\ pageRequest[r].server \in Servers
         /\ pageRequest[r].of \in {"first", "next"} => kind # "history"
         /\ pageRequest[r].of = "next" /\ kind = "chunks" => pageRequest[r].page # 0 /\ table.cached

\* Unless another read got in between, one next page at a time is awaited, with the button
\* disabled, and it is the one that the rows ask for.
RowsAreInOrder ==
    overtaken \cap {"first page", "button"} = {} =>
        /\ \A i \in DOMAIN table.rows : table.rows[i] = i
        /\ table.rows # <<>> => table.next = After(Len(table.rows))
        /\ \A r \in PageRequests :
             pageRequest[r].of = "next" => table.busy /\ pageRequest[r].page = table.next
        /\ \A r, q \in PageRequests : pageRequest[r].of = "next" /\ pageRequest[q].of = "next" => r = q

\* The label is the listed page's; the only request under way is for the page of the offset.
LabelsAreInOrder ==
    overtaken = {} =>
        /\ answerHistory.label = answerHistory.listed.page
        /\ \A r \in PageRequests :
             pageRequest[r].of = "page" =>
                 \/ pageRequest[r].page = answerHistory.offset
                 \/ \E q \in PageRequests \ {r} : pageRequest[q].of = "page"

ListsInv == ListsTypeOK /\ ListsFit /\ RowsAreInOrder /\ LabelsAreInOrder

-----------------------------------------------------------------------------
(* The paged lists: their data. *)

LEMMA ListsTypes ==
  ASSUME ListsTypeOK
  PROVE  /\ kind \in {"chunks", "breakdown", "history"} /\ openings \in 0..MaxReads
         /\ table \in Table /\ answerHistory \in AnswerHistory
         /\ pageRequest \in [PageRequests -> PageRequest]
         /\ reads \in 0..MaxReads /\ overtaken \subseteq {"first page", "button", "page", "failed page"}
BY DEF ListsTypeOK, Table, AnswerHistory, PageRequest

LEMMA ListsTypesAgain ==
  ASSUME kind' \in {"chunks", "breakdown", "history"}, openings' \in 0..MaxReads,
         table' \in Table, answerHistory' \in AnswerHistory,
         pageRequest' \in [PageRequests -> PageRequest],
         reads' \in 0..MaxReads, overtaken' \subseteq {"first page", "button", "page", "failed page"}
  PROVE  ListsTypeOK'
BY DEF ListsTypeOK, Table, AnswerHistory, PageRequest

LEMMA PageNumbers ==
  /\ 1 \in Pages
  /\ \A p \in Pages : p \in Nat /\ After(p) \in Pages \cup {0}
  /\ \A p \in Pages : After(p) # 0 => After(p) = p + 1
BY ListsAssumption DEF Pages, After

\* Starting a read stays within the bound.
LEMMA CountsReads ==
  ASSUME reads \in 0..MaxReads, reads < MaxReads
  PROVE  reads + 1 \in 0..MaxReads
BY ListsAssumption

LEMMA CountsOpenings ==
  ASSUME reads \in 0..MaxReads, openings \in 0..MaxReads, openings <= reads, reads < MaxReads
  PROVE  /\ openings + 1 \in 0..MaxReads /\ openings + 1 <= reads + 1
         /\ openings <= reads + 1
BY ListsAssumption

\* A new request takes a free slot and leaves the others alone.
RequestIsMade(r, of, p, s) ==
    /\ pageRequest[r].of = "none"
    /\ pageRequest'[r].of = of /\ pageRequest'[r].page = p /\ pageRequest'[r].server = s
    /\ \A q \in PageRequests \ {r} : pageRequest'[q] = pageRequest[q]

LEMMA AskedForPage ==
  ASSUME pageRequest \in [PageRequests -> PageRequest], reads \in 0..MaxReads,
         NEW of \in {"first", "next", "page"}, NEW p \in Pages \cup {0}, NEW s \in Servers \cup {"none"},
         AskForPage(of, p, s)
  PROVE  /\ reads < MaxReads /\ reads' = reads + 1
         /\ pageRequest' \in [PageRequests -> PageRequest]
         /\ \E r \in PageRequests : RequestIsMade(r, of, p, s)
<1>1. PICK r \in PageRequests : /\ pageRequest[r] = FreePageRequest
                                /\ pageRequest' = [pageRequest EXCEPT ![r] = [of |-> of, page |-> p, server |-> s]]
    BY DEF AskForPage
<1>2. reads < MaxReads /\ reads' = reads + 1
    BY DEF AskForPage
<1>3. [of |-> of, page |-> p, server |-> s] \in PageRequest
    BY DEF PageRequest
<1>4. pageRequest' \in [PageRequests -> PageRequest]
    BY <1>1, <1>3
<1>5. pageRequest[r].of = "none"
    BY <1>1 DEF FreePageRequest
<1>6. pageRequest'[r].of = of /\ pageRequest'[r].page = p /\ pageRequest'[r].server = s
    BY <1>1
<1>7. \A q \in PageRequests \ {r} : pageRequest'[q] = pageRequest[q]
    BY <1>1
<1> QED
    BY <1>2, <1>4, <1>5, <1>6, <1>7 DEF RequestIsMade

\* A request that ends leaves its slot free and the others alone.
LEMMA EndedRequest ==
  ASSUME pageRequest \in [PageRequests -> PageRequest], NEW r \in PageRequests, RequestEnds(r)
  PROVE  /\ pageRequest' \in [PageRequests -> PageRequest]
         /\ pageRequest'[r].of = "none"
         /\ \A q \in PageRequests \ {r} : pageRequest'[q] = pageRequest[q]
<1>1. FreePageRequest \in PageRequest /\ FreePageRequest.of = "none"
    BY DEF FreePageRequest, PageRequest
<1> QED
    BY <1>1 DEF RequestEnds

LEMMA FirstPageOfTable ==
  ASSUME NEW t \in Table
  PROVE  /\ FirstPage(t) \in Table
         /\ FirstPage(t).rows = <<1>> /\ FirstPage(t).next = After(1)
         /\ FirstPage(t).busy = t.busy /\ FirstPage(t).cached = t.cached /\ ~FirstPage(t).failed
<1>1. <<1>> \in Seq(Pages) /\ After(1) \in Pages \cup {0}
    BY PageNumbers
<1>2. DOMAIN t = {"rows", "next", "busy", "failed", "cached"}
    BY DEF Table
<1> QED
    BY <1>1, <1>2 DEF FirstPage, Table

\* One page is the list of the pages up to it.
LEMMA OnePage ==
  /\ DOMAIN <<1>> = {1} /\ <<1>>[1] = 1 /\ Len(<<1>>) = 1 /\ <<1>> # <<>>
OBVIOUS

LEMMA AppendedTable ==
  ASSUME NEW t \in Table, NEW p \in Pages
  PROVE  /\ Appended(t, p) \in Table
         /\ Appended(t, p).next = After(p) /\ Appended(t, p).cached = t.cached /\ ~Appended(t, p).failed
         /\ Appended(t, p).busy = t.busy
         /\ \/ Appended(t, p).rows = Append(t.rows, p)
            \/ Appended(t, p).rows = t.rows /\ kind = "breakdown" /\ \E i \in DOMAIN t.rows : t.rows[i] = p
<1>1. t.rows \in Seq(Pages) /\ Append(t.rows, p) \in Seq(Pages)
    BY DEF Table
<1>2. After(p) \in Pages \cup {0}
    BY PageNumbers
<1>3. /\ DOMAIN t = {"rows", "next", "busy", "failed", "cached"}
      /\ t.busy \in BOOLEAN /\ t.cached \in BOOLEAN
    BY DEF Table
<1>4. CASE kind = "breakdown" /\ p \in {t.rows[i] : i \in DOMAIN t.rows}
  <2>1. Appended(t, p) = [t EXCEPT !.rows = t.rows, !.next = After(p), !.failed = FALSE]
      BY <1>4 DEF Appended
  <2>2. \E i \in DOMAIN t.rows : t.rows[i] = p
      BY <1>4
  <2> QED
      BY <1>1, <1>2, <1>4, <2>1, <2>2 DEF Table
<1>5. CASE ~(kind = "breakdown" /\ p \in {t.rows[i] : i \in DOMAIN t.rows})
  <2>1. Appended(t, p) = [t EXCEPT !.rows = Append(t.rows, p), !.next = After(p), !.failed = FALSE]
      BY <1>5 DEF Appended
  <2> QED
      BY <1>1, <1>2, <2>1 DEF Table
<1> QED
    BY <1>4, <1>5

LEMMA RowsWithPage ==
  ASSUME NEW s \in Seq(Pages), NEW p \in Pages
  PROVE  Append(s, p) # <<>> /\ ((\E i \in DOMAIN s : s[i] = p) => s # <<>>)
<1>1. Len(Append(s, p)) = Len(s) + 1 /\ Len(s) \in Nat
    OBVIOUS
<1>2. Len(<<>>) = 0 /\ DOMAIN <<>> = {}
    OBVIOUS
<1>3. Append(s, p) # <<>>
    BY <1>1, <1>2
<1> QED
    BY <1>2, <1>3

\* The page after 1, ..., n makes the list 1, ..., n + 1.
LEMMA NextPageFits ==
  ASSUME NEW s \in Seq(Pages), \A i \in DOMAIN s : s[i] = i, NEW p \in Pages, p = Len(s) + 1
  PROVE  /\ \A i \in DOMAIN Append(s, p) : Append(s, p)[i] = i
         /\ Len(Append(s, p)) = p /\ Append(s, p) # <<>>
         /\ \A i \in DOMAIN s : s[i] # p
<1>1. Len(s) \in Nat /\ DOMAIN s = 1..Len(s)
    OBVIOUS
<1>2. /\ DOMAIN Append(s, p) = 1..(Len(s) + 1) /\ Len(Append(s, p)) = Len(s) + 1
      /\ \A i \in 1..Len(s) : Append(s, p)[i] = s[i]
      /\ Append(s, p)[Len(s) + 1] = p
    OBVIOUS
<1> QED
    BY <1>1, <1>2

-----------------------------------------------------------------------------
(* The paged lists: every action keeps the invariant. *)

LEMMA ListsStarts ==
  ASSUME ListsInit PROVE ListsInv
<1>1. PICK s \in Servers :
        answerHistory = [offset |-> 1, filter |-> s, listed |-> [page |-> 0, server |-> s], label |-> 0,
                         first |-> TRUE, last |-> TRUE]
    BY DEF ListsInit
<1>2. answerHistory \in AnswerHistory /\ answerHistory.label = answerHistory.listed.page
    BY <1>1, PageNumbers DEF AnswerHistory
<1>3. table \in Table /\ table.rows = <<>> /\ table.next = 0 /\ ~table.failed
    BY DEF ListsInit, Table
<1>4. FreePageRequest \in PageRequest /\ FreePageRequest.of = "none"
    BY DEF FreePageRequest, PageRequest
<1>5. /\ pageRequest \in [PageRequests -> PageRequest]
      /\ \A r \in PageRequests : pageRequest[r].of = "none"
    BY <1>4 DEF ListsInit
<1>6. 0 \in 0..MaxReads
    BY ListsAssumption
<1>7. ListsTypeOK
    BY <1>2, <1>3, <1>5, <1>6 DEF ListsInit, ListsTypeOK, Table, AnswerHistory, PageRequest
<1>8. ListsFit
    BY <1>3, <1>5 DEF ListsInit, ListsFit
<1>9. RowsAreInOrder
  <2>1. DOMAIN table.rows = {}
      BY <1>3
  <2> QED
      BY <1>3, <1>5, <2>1 DEF RowsAreInOrder
<1>10. LabelsAreInOrder
    BY <1>2, <1>5 DEF LabelsAreInOrder
<1> QED
    BY <1>7, <1>8, <1>9, <1>10 DEF ListsInv

\* What the lists share is the same for a step that leaves the history alone.
LEMMA LabelsAgain ==
  ASSUME pageRequest \in [PageRequests -> PageRequest], LabelsAreInOrder, UNCHANGED answerHistory,
         overtaken \subseteq overtaken',
         \A r \in PageRequests : pageRequest[r].of = "page" \/ pageRequest'[r].of = "page" =>
                                     pageRequest'[r] = pageRequest[r]
  PROVE  LabelsAreInOrder'
<1>1. overtaken' = {} => overtaken = {}
    OBVIOUS
<1>2. \A r \in PageRequests : pageRequest'[r].of = "page" <=> pageRequest[r].of = "page"
    OBVIOUS
<1> QED
    BY <1>1, <1>2 DEF LabelsAreInOrder

\* A first page is rendered, or not, by a read of the first page that starts or ends.
LEMMA FirstPageIsShown ==
  ASSUME ListsTypeOK, RowsAreInOrder, table' \in Table,
         \/ /\ table'.rows = << 1 >> /\ table'.next = After(1) /\ Overtakes
         \/ /\ table'.rows = table.rows /\ table'.next = table.next /\ UNCHANGED overtaken
            /\ table.busy => table'.busy,
         \A r \in PageRequests : pageRequest'[r].of = "next" => pageRequest'[r] = pageRequest[r]
  PROVE  RowsAreInOrder'
<1>1. CASE table'.rows = <<1>> /\ table'.next = After(1) /\ Overtakes
  <2> SUFFICES ASSUME overtaken' \cap {"first page", "button"} = {} PROVE RowsAreInOrder'
      BY DEF RowsAreInOrder
  <2>1. \A r \in PageRequests : pageRequest[r].of # "next"
      BY <1>1 DEF Overtakes, PagesUnderWay
  <2>2. \A r \in PageRequests : pageRequest'[r].of # "next"
      BY <2>1
  <2>3. /\ \A i \in DOMAIN table'.rows : table'.rows[i] = i
        /\ table'.next = After(Len(table'.rows))
      BY <1>1, OnePage
  <2> QED
      BY <2>2, <2>3 DEF RowsAreInOrder
<1>2. CASE /\ table'.rows = table.rows /\ table'.next = table.next /\ UNCHANGED overtaken
           /\ table.busy => table'.busy
    BY <1>2 DEF RowsAreInOrder
<1> QED
    BY <1>1, <1>2

LEMMA OvertakesTypes ==
  ASSUME ListsTypeOK, Overtakes
  PROVE  /\ overtaken' \subseteq {"first page", "button", "page", "failed page"}
         /\ overtaken \subseteq overtaken'
BY ListsTypes DEF Overtakes

\* Reading the first page shows the cached one at once, and asks for it unless that is done.
LEMMA LoadFirstPageKeeps ==
  ASSUME ListsInv, NEW b \in BOOLEAN, LoadFirstPage(b), kind # "history", UNCHANGED <<kind, answerHistory>>,
         table.busy => b, openings' \in {openings, openings + 1}
  PROVE  ListsInv'
<1> USE ListsTypes DEF ListsInv
<1> DEFINE t == IF table.cached THEN FirstPage(table)
                ELSE IF kind = "chunks" THEN [table EXCEPT !.rows = <<>>] ELSE table
<1>1. /\ table.rows \in Seq(Pages) /\ table.next \in Pages \cup {0}
      /\ table.busy \in BOOLEAN /\ table.failed \in BOOLEAN /\ table.cached \in BOOLEAN
    BY DEF Table
<1>2. /\ t \in Table /\ t.cached = table.cached /\ (kind = "chunks" => ~t.failed)
      /\ \/ table.cached /\ t.rows = <<1>> /\ t.next = After(1)
         \/ ~table.cached /\ t.rows = table.rows /\ t.next = table.next
  <2>1. CASE table.cached
      BY <2>1, FirstPageOfTable
  <2>2. CASE ~table.cached /\ kind = "chunks"
    <3>1. table.rows = <<>> /\ ~table.failed
        BY <2>2 DEF ListsFit
    <3> QED
        BY <2>2, <3>1 DEF Table
  <2>3. CASE ~table.cached /\ kind # "chunks"
      BY <2>3
  <2> QED
      BY <2>1, <2>2, <2>3
<1>3. table' = [t EXCEPT !.busy = b]
    BY DEF LoadFirstPage
<1>4. /\ table' \in Table /\ table'.cached = table.cached /\ (kind = "chunks" => ~table'.failed)
      /\ table'.busy = b /\ table'.rows = t.rows /\ table'.next = t.next
  <2> HIDE DEF t
  <2> QED
      BY <1>2, <1>3 DEF Table
<1>5. /\ overtaken' \subseteq {"first page", "button", "page", "failed page"}
      /\ overtaken \subseteq overtaken'
    BY OvertakesTypes DEF LoadFirstPage
<1>6. /\ reads < MaxReads /\ reads' = reads + 1
      /\ pageRequest' \in [PageRequests -> PageRequest]
      /\ \A r \in PageRequests :
           \/ pageRequest'[r] = pageRequest[r]
           \/ pageRequest[r].of = "none" /\ pageRequest'[r].of = "first"
  <2>1. CASE PagesUnderWay("first") # {}
      BY <2>1 DEF LoadFirstPage
  <2>2. CASE PagesUnderWay("first") = {}
    <3>1. AskForPage("first", 1, "none")
        BY <2>2 DEF LoadFirstPage
    <3>2. /\ reads < MaxReads /\ reads' = reads + 1
          /\ pageRequest' \in [PageRequests -> PageRequest]
          /\ \E r \in PageRequests : RequestIsMade(r, "first", 1, "none")
      <4>1. 1 \in Pages \cup {0} /\ "none" \in Servers \cup {"none"}
          BY PageNumbers
      <4> QED
          BY <3>1, <4>1, AskedForPage
    <3>3. PICK r \in PageRequests : RequestIsMade(r, "first", 1, "none")
        BY <3>2
    <3>4. ASSUME NEW q \in PageRequests
          PROVE  \/ pageRequest'[q] = pageRequest[q]
                 \/ pageRequest[q].of = "none" /\ pageRequest'[q].of = "first"
        BY <3>3 DEF RequestIsMade
    <3> QED
        BY <3>2, <3>4
  <2> QED
      BY <2>1, <2>2
<1>7. reads' \in 0..MaxReads /\ openings' \in 0..MaxReads /\ openings' <= reads'
  <2>1. openings <= reads
      BY DEF ListsFit
  <2>2. reads \in 0..MaxReads /\ openings \in 0..MaxReads /\ reads < MaxReads /\ reads' = reads + 1
      BY <1>6
  <2>3. reads + 1 \in 0..MaxReads
      BY <2>2, CountsReads
  <2>4. openings + 1 \in 0..MaxReads /\ openings + 1 <= reads + 1 /\ openings <= reads + 1
      BY <2>1, <2>2, CountsOpenings
  <2> QED
      BY <2>2, <2>3, <2>4
<1>8. ListsTypeOK'
    BY <1>4, <1>5, <1>6, <1>7, ListsTypesAgain
<1>9. ListsFit'
  <2>1. table'.rows = <<>> => table'.next = 0
    <3>1. table.rows = <<>> => table.next = 0
        BY DEF ListsFit
    <3>2. CASE t.rows = <<1>>
        BY <1>4, <3>2, OnePage
    <3>3. CASE t.rows = table.rows /\ t.next = table.next
        BY <1>4, <3>1, <3>3
    <3> HIDE DEF t
    <3> QED
        BY <1>2, <3>2, <3>3
  <2>2. kind = "chunks" => (table'.rows # <<>> => table'.cached)
    <3>1. kind = "chunks" => (table.rows # <<>> => table.cached)
        BY DEF ListsFit
    <3> HIDE DEF t
    <3> QED
        BY <1>2, <1>4, <3>1
  <2> HIDE DEF t
  <2>3. \A r \in PageRequests :
          /\ pageRequest'[r].of \in {"page", "next"} => pageRequest'[r] = pageRequest[r]
          /\ pageRequest'[r].of # "page" \/ pageRequest[r].of = "page"
      BY <1>6
  <2>4. \A r \in PageRequests : pageRequest[r].of # "page"
      BY DEF ListsFit
  <2>5. \A r \in PageRequests : pageRequest[r].of = "next" /\ kind = "chunks" =>
                                   pageRequest[r].page # 0 /\ table.cached
      BY DEF ListsFit
  <2> QED
      BY ZenonT(60), <1>4, <1>7, <2>1, <2>2, <2>3, <2>4, <2>5 DEF ListsFit
<1>10. RowsAreInOrder'
  <2>1. CASE table.cached
    <3>1. Overtakes
        BY <2>1 DEF LoadFirstPage
    <3> QED
        BY <1>2, <1>4, <1>6, <2>1, <3>1, FirstPageIsShown
  <2>2. CASE ~table.cached
    <3>1. UNCHANGED overtaken
        BY <2>2 DEF LoadFirstPage
    <3> QED
        BY <1>2, <1>4, <1>6, <2>2, <3>1, FirstPageIsShown
  <2> QED
      BY <2>1, <2>2
<1>11. LabelsAreInOrder'
    BY <1>5, <1>6, LabelsAgain
<1> QED
    BY <1>8, <1>9, <1>10, <1>11

LEMMA OpenListKeeps ==
  ASSUME ListsInv, OpenList PROVE ListsInv'
BY LoadFirstPageKeeps DEF OpenList

LEMMA LoadInitialKeeps ==
  ASSUME ListsInv, LoadInitial PROVE ListsInv'
<1>1. table.busy \in BOOLEAN
    BY ListsTypes DEF ListsInv, Table
<1> QED
    BY <1>1, LoadFirstPageKeeps DEF LoadInitial

LEMMA FirstPageAnsweredKeeps ==
  ASSUME ListsInv, NEW r \in PageRequests, FirstPageAnswered(r) PROVE ListsInv'
<1> USE ListsTypes DEF ListsInv, FirstPageAnswered
<1>1. pageRequest[r].of = "first"
    BY DEF PagesUnderWay
<1>2. kind # "history"
    BY <1>1 DEF ListsFit
<1>3. /\ pageRequest' \in [PageRequests -> PageRequest]
      /\ pageRequest'[r].of = "none"
      /\ \A q \in PageRequests \ {r} : pageRequest'[q] = pageRequest[q]
    BY EndedRequest
<1>4. /\ FirstPage(table) \in Table /\ FirstPage(table).rows = <<1>>
      /\ FirstPage(table).next = After(1) /\ ~FirstPage(table).failed
    BY FirstPageOfTable
<1>5. /\ table' \in Table /\ table'.rows = <<1>> /\ table'.next = After(1)
      /\ ~table'.failed /\ table'.cached
    BY <1>4 DEF Table
<1>6. /\ overtaken' \subseteq {"first page", "button", "page", "failed page"}
      /\ overtaken \subseteq overtaken'
    BY OvertakesTypes
<1>7. ListsTypeOK'
    BY <1>3, <1>5, <1>6, ListsTypesAgain
<1>8. ListsFit'
    BY <1>2, <1>3, <1>5, OnePage DEF ListsFit
<1>9. RowsAreInOrder'
    BY <1>3, <1>5, FirstPageIsShown
<1>10. LabelsAreInOrder'
    BY <1>1, <1>3, <1>6, LabelsAgain
<1> QED
    BY <1>7, <1>8, <1>9, <1>10

LEMMA FirstPageFailsKeeps ==
  ASSUME ListsInv, NEW r \in PageRequests, FirstPageFails(r) PROVE ListsInv'
<1> USE ListsTypes DEF ListsInv, FirstPageFails
<1>1. pageRequest[r].of = "first"
    BY DEF PagesUnderWay
<1>2. /\ pageRequest' \in [PageRequests -> PageRequest]
      /\ pageRequest'[r].of = "none"
      /\ \A q \in PageRequests \ {r} : pageRequest'[q] = pageRequest[q]
    BY EndedRequest
<1>3. /\ table' \in Table /\ table'.rows = table.rows /\ table'.next = table.next
      /\ table'.busy = table.busy /\ table'.cached = table.cached
      /\ (kind = "chunks" => table'.failed = table.failed)
    BY DEF Table
<1>4. ListsTypeOK'
    BY <1>2, <1>3, ListsTypesAgain
<1>5. ListsFit'
    BY <1>2, <1>3 DEF ListsFit
<1>6. RowsAreInOrder'
    BY <1>2, <1>3, FirstPageIsShown
<1>7. LabelsAreInOrder'
    BY <1>1, <1>2, LabelsAgain
<1> QED
    BY <1>4, <1>5, <1>6, <1>7

LEMMA OverviewOpenedKeeps ==
  ASSUME ListsInv, OverviewOpened PROVE ListsInv'
<1> USE ListsTypes DEF ListsInv, OverviewOpened
<1>1. /\ table' \in Table /\ table'.rows = table.rows /\ table'.next = table.next
      /\ table'.failed = table.failed /\ table'.cached = table.cached
    BY DEF Table
<1>2. openings' \in 0..MaxReads /\ openings' <= reads
  <2>1. openings \in 0..MaxReads /\ openings <= reads /\ openings > 0 /\ reads \in 0..MaxReads
      BY DEF ListsFit
  <2>2. openings' = openings - 1
      OBVIOUS
  <2> QED
      BY ONLY <2>1, <2>2, ListsAssumption
<1>3. ListsTypeOK'
    BY <1>1, <1>2, ListsTypesAgain
<1>4. ListsFit'
    BY <1>1, <1>2 DEF ListsFit
<1>5. RowsAreInOrder'
  <2> SUFFICES ASSUME overtaken' \cap {"first page", "button"} = {} PROVE RowsAreInOrder'
      BY DEF RowsAreInOrder
  <2>1. \A r \in PageRequests : pageRequest[r].of # "next"
      BY DEF PagesUnderWay
  <2>2. overtaken \cap {"first page", "button"} = {}
      OBVIOUS
  <2> QED
      BY <1>1, <2>1, <2>2 DEF RowsAreInOrder
<1>6. LabelsAreInOrder'
    BY LabelsAgain
<1> QED
    BY <1>3, <1>4, <1>5, <1>6

LEMMA LoadMoreKeeps ==
  ASSUME ListsInv, LoadMore PROVE ListsInv'
<1> USE ListsTypes DEF ListsInv, LoadMore
<1>1. table.next \in Pages \cup {0} /\ "none" \in Servers \cup {"none"}
    BY DEF Table
<1>2. /\ reads < MaxReads /\ reads' = reads + 1 /\ pageRequest' \in [PageRequests -> PageRequest]
      /\ \E r \in PageRequests : RequestIsMade(r, "next", table.next, "none")
    BY <1>1, AskedForPage
<1>3. PICK r \in PageRequests : RequestIsMade(r, "next", table.next, "none")
    BY <1>2
<1>4. /\ pageRequest[r].of = "none" /\ pageRequest'[r].of = "next" /\ pageRequest'[r].page = table.next
      /\ \A q \in PageRequests \ {r} : pageRequest'[q] = pageRequest[q]
    BY <1>3 DEF RequestIsMade
<1>5. /\ table' \in Table /\ table'.rows = table.rows /\ table'.next = table.next /\ table'.busy
      /\ table'.failed = table.failed /\ table'.cached = table.cached
    BY DEF Table
<1>6. reads' \in 0..MaxReads /\ openings <= reads'
  <2>1. openings <= reads
      BY DEF ListsFit
  <2> QED
      BY <1>2, <2>1, CountsReads, CountsOpenings
<1>7. ListsTypeOK'
    BY <1>2, <1>5, <1>6, ListsTypesAgain
<1>8. ListsFit'
  <2>1. kind = "chunks" => table.next # 0 /\ table.cached
      BY DEF ListsFit
  <2> QED
      BY ZenonT(60), <1>4, <1>5, <1>6, <2>1 DEF ListsFit
<1>9. RowsAreInOrder'
  <2> SUFFICES ASSUME overtaken \cap {"first page", "button"} = {} PROVE RowsAreInOrder'
      BY DEF RowsAreInOrder
  <2>1. \A q \in PageRequests : pageRequest[q].of # "next"
      BY DEF RowsAreInOrder
  <2>2. \A q \in PageRequests : pageRequest'[q].of = "next" => q = r
      BY <1>4, <2>1
  <2> QED
      BY <1>4, <1>5, <2>2 DEF RowsAreInOrder
<1>10. LabelsAreInOrder'
    BY <1>4, LabelsAgain
<1> QED
    BY <1>7, <1>8, <1>9, <1>10

\* The page that the rows ask for goes on where they end.
LEMMA MoreIsInOrder ==
  ASSUME ListsInv, overtaken \cap {"first page", "button"} = {},
         NEW r \in PageRequests, pageRequest[r].of = "next", pageRequest[r].page # 0
  PROVE  /\ pageRequest[r].page \in Pages /\ pageRequest[r].page = Len(table.rows) + 1
         /\ table.rows \in Seq(Pages) /\ \A i \in DOMAIN table.rows : table.rows[i] = i
<1> USE ListsTypes DEF ListsInv
<1> DEFINE p == pageRequest[r].page
<1>1. p = table.next /\ table.next # 0
    BY DEF RowsAreInOrder
<1>2. table.rows # <<>>
    BY <1>1 DEF ListsFit
<1>3. table.next = After(Len(table.rows)) /\ \A i \in DOMAIN table.rows : table.rows[i] = i
    BY <1>2 DEF RowsAreInOrder
<1>4. table.rows \in Seq(Pages) /\ table.next \in Pages \cup {0}
    BY DEF Table
<1>5. table.next = Len(table.rows) + 1
    BY <1>1, <1>3 DEF After
<1> QED
    BY <1>1, <1>3, <1>4, <1>5

LEMMA MoreAnsweredKeeps ==
  ASSUME ListsInv, NEW r \in PageRequests, MoreAnswered(r) PROVE ListsInv'
<1> USE ListsTypes DEF ListsInv, MoreAnswered
<1> DEFINE p == pageRequest[r].page
           t == IF p = 0 THEN FirstPage(table) ELSE Appended(table, p)
<1>1. pageRequest[r].of = "next" /\ p \in Pages \cup {0}
    BY DEF PagesUnderWay, PageRequest
<1>2. kind # "history" /\ (kind = "chunks" => p # 0 /\ table.cached)
    BY <1>1 DEF ListsFit
<1>3. /\ pageRequest' \in [PageRequests -> PageRequest]
      /\ pageRequest'[r].of = "none"
      /\ \A q \in PageRequests \ {r} : pageRequest'[q] = pageRequest[q]
    BY EndedRequest
<1>4. t \in Table /\ ~t.failed /\ t.cached = table.cached /\ t.rows # <<>>
  <2>1. CASE p = 0
      BY <2>1, FirstPageOfTable, OnePage
  <2>2. CASE p # 0
    <3>1. /\ Appended(table, p) \in Table /\ ~Appended(table, p).failed
          /\ Appended(table, p).cached = table.cached
          /\ \/ Appended(table, p).rows = Append(table.rows, p)
             \/ Appended(table, p).rows = table.rows /\ \E i \in DOMAIN table.rows : table.rows[i] = p
        BY <1>1, <2>2, AppendedTable
    <3>2. table.rows \in Seq(Pages)
        BY DEF Table
    <3>3. Append(table.rows, p) # <<>>
        BY <1>1, <2>2, <3>2, RowsWithPage
    <3>4. (\E i \in DOMAIN table.rows : table.rows[i] = p) => table.rows # <<>>
        BY <1>1, <2>2, <3>2, RowsWithPage
    <3> QED
        BY <2>2, <3>1, <3>3, <3>4
  <2> QED
      BY <2>1, <2>2
<1>5. table' = [t EXCEPT !.busy = FALSE]
    OBVIOUS
<1>6. /\ table' \in Table /\ ~table'.failed /\ table'.cached = table.cached
      /\ table'.rows = t.rows /\ table'.next = t.next
  <2> HIDE DEF t
  <2> QED
      BY <1>4, <1>5 DEF Table
<1>7. ListsTypeOK'
    BY <1>3, <1>6, ListsTypesAgain
<1>8. ListsFit'
  <2> HIDE DEF t, p
  <2> QED
      BY <1>2, <1>3, <1>4, <1>6 DEF ListsFit
<1>9. RowsAreInOrder'
  <2> SUFFICES ASSUME overtaken \cap {"first page", "button"} = {} PROVE RowsAreInOrder'
      BY DEF RowsAreInOrder
  <2>1. \A q \in PageRequests : pageRequest[q].of = "next" => q = r
      BY <1>1 DEF RowsAreInOrder
  <2>2. \A q \in PageRequests : pageRequest'[q].of # "next"
      BY <1>3, <2>1
  <2>3. (\A i \in DOMAIN t.rows : t.rows[i] = i) /\ t.next = After(Len(t.rows))
    <3>1. CASE p = 0
        BY <3>1, FirstPageOfTable, OnePage
    <3>2. CASE p # 0
      <4>1. /\ p \in Pages /\ p = Len(table.rows) + 1
            /\ table.rows \in Seq(Pages) /\ \A i \in DOMAIN table.rows : table.rows[i] = i
          BY <1>1, <3>2, MoreIsInOrder
      <4>2. /\ \A i \in DOMAIN Append(table.rows, p) : Append(table.rows, p)[i] = i
            /\ Len(Append(table.rows, p)) = p
            /\ \A i \in DOMAIN table.rows : table.rows[i] # p
          BY <4>1, NextPageFits
      <4>3. t = Appended(table, p)
          BY <3>2
      <4>4. t.next = After(p) /\ t.rows = Append(table.rows, p)
        <5>1. table \in Table
            OBVIOUS
        <5> HIDE DEF t, p
        <5>2. /\ Appended(table, p).next = After(p)
              /\ \/ Appended(table, p).rows = Append(table.rows, p)
                 \/ Appended(table, p).rows = table.rows /\ \E i \in DOMAIN table.rows : table.rows[i] = p
            BY ONLY <4>1, <5>1, AppendedTable
        <5> QED
            BY ONLY <4>2, <4>3, <5>2
      <4> QED
          BY <4>2, <4>4
    <3> QED
        BY <3>1, <3>2
  <2> HIDE DEF t, p
  <2> QED
      BY <1>6, <2>2, <2>3 DEF RowsAreInOrder
<1>10. LabelsAreInOrder'
    BY <1>1, <1>3, LabelsAgain
<1> QED
    BY <1>7, <1>8, <1>9, <1>10

LEMMA MoreFailsKeeps ==
  ASSUME ListsInv, NEW r \in PageRequests, MoreFails(r) PROVE ListsInv'
<1> USE ListsTypes DEF ListsInv, MoreFails
<1>1. pageRequest[r].of = "next"
    BY DEF PagesUnderWay
<1>2. /\ pageRequest' \in [PageRequests -> PageRequest]
      /\ pageRequest'[r].of = "none"
      /\ \A q \in PageRequests \ {r} : pageRequest'[q] = pageRequest[q]
    BY EndedRequest
<1>3. /\ table' \in Table /\ table'.rows = table.rows /\ table'.next = table.next
      /\ table'.cached = table.cached /\ (kind = "chunks" => ~table'.failed)
    BY DEF Table
<1>4. ListsTypeOK'
    BY <1>2, <1>3, ListsTypesAgain
<1>5. ListsFit'
    BY ZenonT(60), <1>2, <1>3 DEF ListsFit
<1>6. RowsAreInOrder'
  <2> SUFFICES ASSUME overtaken \cap {"first page", "button"} = {} PROVE RowsAreInOrder'
      BY DEF RowsAreInOrder
  <2>1. \A q \in PageRequests : pageRequest[q].of = "next" => q = r
      BY <1>1 DEF RowsAreInOrder
  <2>2. \A q \in PageRequests : pageRequest'[q].of # "next"
      BY <1>2, <2>1
  <2> QED
      BY <1>3, <2>2 DEF RowsAreInOrder
<1>7. LabelsAreInOrder'
    BY <1>1, <1>2, LabelsAgain
<1> QED
    BY <1>4, <1>5, <1>6, <1>7

\* A step of the answers' history leaves the appended list alone.
LEMMA RowsAgain ==
  ASSUME pageRequest \in [PageRequests -> PageRequest], RowsAreInOrder, UNCHANGED table,
         overtaken \subseteq overtaken',
         \A r \in PageRequests : pageRequest'[r].of = "next" => pageRequest'[r] = pageRequest[r]
  PROVE  RowsAreInOrder'
<1> SUFFICES ASSUME overtaken' \cap {"first page", "button"} = {} PROVE RowsAreInOrder'
    BY DEF RowsAreInOrder
<1>1. overtaken \cap {"first page", "button"} = {}
    OBVIOUS
<1> QED
    BY <1>1 DEF RowsAreInOrder

LEMMA LoadPageKeeps ==
  ASSUME ListsInv, NEW p, LoadPage(p) PROVE ListsInv'
<1> USE ListsTypes DEF ListsInv, LoadPage
<1>1. answerHistory.filter \in Servers /\ p \in Pages
    BY DEF AnswerHistory
<1>2. /\ reads < MaxReads /\ reads' = reads + 1 /\ pageRequest' \in [PageRequests -> PageRequest]
      /\ \E r \in PageRequests : RequestIsMade(r, "page", p, answerHistory.filter)
    BY <1>1, AskedForPage
<1>3. PICK r \in PageRequests : RequestIsMade(r, "page", p, answerHistory.filter)
    BY <1>2
<1>4. /\ pageRequest[r].of = "none" /\ pageRequest'[r].of = "page" /\ pageRequest'[r].page = p
      /\ pageRequest'[r].server = answerHistory.filter
      /\ \A q \in PageRequests \ {r} : pageRequest'[q] = pageRequest[q]
    BY <1>3 DEF RequestIsMade
<1>5. /\ answerHistory' \in AnswerHistory /\ answerHistory'.offset = p
      /\ answerHistory'.label = answerHistory.label /\ answerHistory'.listed = answerHistory.listed
    BY <1>1 DEF AnswerHistory
<1>6. reads' \in 0..MaxReads /\ openings <= reads'
  <2>1. openings <= reads
      BY DEF ListsFit
  <2> QED
      BY <1>2, <2>1, CountsReads, CountsOpenings
<1>7. ListsTypeOK'
    BY <1>2, <1>5, <1>6, ListsTypesAgain
<1>8. ListsFit'
    BY <1>1, <1>4, <1>6 DEF ListsFit
<1>9. RowsAreInOrder'
    BY <1>4, RowsAgain
<1>10. LabelsAreInOrder'
    BY <1>4, <1>5 DEF LabelsAreInOrder
<1> QED
    BY <1>7, <1>8, <1>9, <1>10

LEMMA ChooseServerKeeps ==
  ASSUME ListsInv, NEW s \in Servers, ChooseServer(s) PROVE ListsInv'
<1> USE ListsTypes DEF ListsInv, ChooseServer
<1>1. /\ answerHistory' \in AnswerHistory /\ answerHistory'.offset = answerHistory.offset
      /\ answerHistory'.label = answerHistory.label /\ answerHistory'.listed = answerHistory.listed
    BY DEF AnswerHistory
<1>2. ListsTypeOK'
    BY <1>1, ListsTypesAgain
<1>3. ListsFit'
    BY DEF ListsFit
<1>4. RowsAreInOrder'
    BY RowsAgain
<1>5. LabelsAreInOrder'
    BY <1>1 DEF LabelsAreInOrder
<1> QED
    BY <1>2, <1>3, <1>4, <1>5

LEMMA PageAnsweredKeeps ==
  ASSUME ListsInv, NEW r \in PageRequests, PageAnswered(r) PROVE ListsInv'
<1> USE ListsTypes DEF ListsInv, PageAnswered
<1>1. pageRequest[r].of = "page"
    BY DEF PagesUnderWay
<1>2. /\ kind = "history" /\ pageRequest[r].page \in Pages /\ pageRequest[r].server \in Servers
      /\ answerHistory.offset \in Pages
    BY <1>1 DEF ListsFit, AnswerHistory
<1>3. /\ pageRequest' \in [PageRequests -> PageRequest]
      /\ pageRequest'[r].of = "none"
      /\ \A q \in PageRequests \ {r} : pageRequest'[q] = pageRequest[q]
    BY EndedRequest
<1>4. /\ answerHistory' \in AnswerHistory /\ answerHistory'.offset = answerHistory.offset
      /\ answerHistory'.label = answerHistory.offset
      /\ answerHistory'.listed.page = pageRequest[r].page
  <2> DEFINE l == [page |-> pageRequest[r].page, server |-> pageRequest[r].server]
             f == answerHistory.offset = 1
             z == answerHistory.offset >= LastPage
  <2>1. l \in [page : Pages \cup {0}, server : Servers] /\ l.page = pageRequest[r].page
      BY <1>2
  <2>3. f \in BOOLEAN
      BY Zenon
  <2>4. z \in BOOLEAN
    <3>1. answerHistory.offset \in Nat /\ LastPage \in Nat
        BY <1>2, PageNumbers, ListsAssumption
    <3> QED
        BY ONLY <3>1
  <2>2. answerHistory' = [answerHistory EXCEPT !.listed = l, !.label = answerHistory.offset,
                                               !.first = f, !.last = z]
      OBVIOUS
  <2> HIDE DEF l, f, z
  <2> QED
      BY <1>2, <2>1, <2>2, <2>3, <2>4 DEF AnswerHistory
<1>5. /\ overtaken' \subseteq {"first page", "button", "page", "failed page"}
      /\ overtaken \subseteq overtaken'
    OBVIOUS
<1>6. ListsTypeOK'
    BY <1>3, <1>4, <1>5, ListsTypesAgain
<1>7. ListsFit'
    BY <1>2, <1>3 DEF ListsFit
<1>8. RowsAreInOrder'
    BY <1>3, <1>5, RowsAgain
<1>9. LabelsAreInOrder'
  <2> SUFFICES ASSUME overtaken' = {} PROVE LabelsAreInOrder'
      BY DEF LabelsAreInOrder
  <2>1. overtaken = {} /\ \A q \in PageRequests : pageRequest[q].of = "page" => q = r
      BY DEF PagesUnderWay
  <2>2. pageRequest[r].page = answerHistory.offset
      BY <1>1, <2>1 DEF LabelsAreInOrder
  <2>3. \A q \in PageRequests : pageRequest'[q].of # "page"
      BY <1>3, <2>1
  <2> QED
      BY <1>4, <2>2, <2>3 DEF LabelsAreInOrder
<1> QED
    BY <1>6, <1>7, <1>8, <1>9

LEMMA PageFailsKeeps ==
  ASSUME ListsInv, NEW r \in PageRequests, PageFails(r) PROVE ListsInv'
<1> USE ListsTypes DEF ListsInv, PageFails
<1>1. pageRequest[r].of = "page"
    BY DEF PagesUnderWay
<1>2. /\ pageRequest' \in [PageRequests -> PageRequest]
      /\ pageRequest'[r].of = "none"
      /\ \A q \in PageRequests \ {r} : pageRequest'[q] = pageRequest[q]
    BY EndedRequest
<1>3. /\ overtaken' \subseteq {"first page", "button", "page", "failed page"}
      /\ overtaken \subseteq overtaken' /\ overtaken' # {}
    OBVIOUS
<1>4. ListsTypeOK'
    BY <1>2, <1>3, ListsTypesAgain
<1>5. ListsFit'
    BY <1>1, <1>2 DEF ListsFit
<1>6. RowsAreInOrder'
    BY <1>2, <1>3, RowsAgain
<1>7. LabelsAreInOrder'
    BY <1>3 DEF LabelsAreInOrder
<1> QED
    BY <1>4, <1>5, <1>6, <1>7

LEMMA ListsSteps ==
  ASSUME ListsInv, [ListsNext]_listVars PROVE ListsInv'
<1>1. CASE UNCHANGED listVars
  <2>1. UNCHANGED <<kind, table, openings, answerHistory, pageRequest, reads, overtaken>>
      BY <1>1 DEF listVars
  <2>2. ListsTypeOK' = ListsTypeOK /\ ListsFit' = ListsFit
      BY <2>1 DEF ListsTypeOK, ListsFit
  <2>3. RowsAreInOrder => RowsAreInOrder'
      BY <2>1 DEF RowsAreInOrder
  <2>4. LabelsAreInOrder => LabelsAreInOrder'
      BY <2>1 DEF LabelsAreInOrder
  <2> QED
      BY <2>2, <2>3, <2>4 DEF ListsInv
<1>2. CASE OpenList \/ LoadInitial \/ OverviewOpened \/ LoadMore
    BY <1>2, OpenListKeeps, LoadInitialKeeps, OverviewOpenedKeeps, LoadMoreKeeps
<1>3. CASE Filter \/ PreviousPage \/ NextPage
    BY <1>3, LoadPageKeeps DEF Filter, PreviousPage, NextPage
<1>4. CASE \E s \in Servers : ChooseServer(s)
    BY <1>4, ChooseServerKeeps
<1>5. CASE \E r \in PageRequests : FirstPageAnswered(r) \/ FirstPageFails(r) \/ MoreAnswered(r) \/ MoreFails(r)
    BY <1>5, FirstPageAnsweredKeeps, FirstPageFailsKeeps, MoreAnsweredKeeps, MoreFailsKeeps
<1>6. CASE \E r \in PageRequests : PageAnswered(r) \/ PageFails(r)
    BY <1>6, PageAnsweredKeeps, PageFailsKeeps
<1> QED
    BY <1>1, <1>2, <1>3, <1>4, <1>5, <1>6 DEF ListsNext

-----------------------------------------------------------------------------
(* The paged lists: theorems. *)

\* The invariant of the lists holds initially, and every step keeps it.
THEOREM ListsInductive == ListsSpec => []ListsInv
<1>1. ListsInit => ListsInv
    BY ListsStarts
<1>2. ListsInv /\ [ListsNext]_listVars => ListsInv'
    BY ListsSteps
<1> QED
    BY <1>1, <1>2, PTL DEF ListsSpec

LEMMA PagesInOrder == ListsInv => PagesAreInOrder
<1>1. ListsInv => ListHasNoGap
    BY DEF ListsInv, RowsAreInOrder, ListHasNoGap
<1>2. ListsInv => LabelIsListed
    BY DEF ListsInv, LabelsAreInOrder, LabelIsListed
<1> QED
    BY <1>1, <1>2 DEF PagesAreInOrder

\* For lists of any length and any number of reads: rows that are read page by page have no gap
\* and no repetition, and the history lists the page it is labelled with, unless an answer came
\* in another order than it was asked for.
THEOREM PagesStayInOrder == ListsSpec => []PagesAreInOrder
BY PagesInOrder, ListsInductive, PTL

-----------------------------------------------------------------------------
(* The conversation: the inductive invariant. *)

StoredChat == [state : {"free", "stored", "deleted"}, turns : SUBSET Questions, context : Context]
ChatQuestion == [mark : {"none", "waiting", "persisted", "failed"},
                 backend : {"none", "sent", "stored", "refused"},
                 chat : Chats \cup {NoChat}, at : Chats \cup {NoChat}, context : Context,
                 history : SUBSET Questions, current : BOOLEAN, mixed : BOOLEAN]
Page == [active : Chats \cup {NoChat}, history : SUBSET Questions, composer : Context,
         unavailable : BOOLEAN, keep : BOOLEAN, readOnly : BOOLEAN, mixed : BOOLEAN]
Opening == [chat : Chats \cup {NoChat}, read : BOOLEAN, turns : SUBSET Questions]
Switching == [model : ComposerModels \cup {NoChat}, before : ComposerModels \cup {NoChat}, keep : BOOLEAN]
Deletion == [chat : Chats \cup {NoChat}, done : BOOLEAN]

StoredAt(p, c) == question[p].backend = "stored" /\ question[p].at = c

\* A question belongs to a chat: it failed, continues the chat, or is stored there.
Of(p, c) == question[p].mark = "failed" \/ (c # NoChat /\ (question[p].chat = c \/ StoredAt(p, c)))

\* The turns of the chats are the stored questions, with the context of their chat.
TurnsAreStored ==
    \A c \in Chats :
      /\ chat[c].state # "stored" => chat[c].turns = {}
      /\ \A q \in chat[c].turns : StoredAt(q, c)

QuestionsAreStored ==
    \A q \in Questions :
      /\ question[q].backend = "stored" =>
           LET c == question[q].at IN
           /\ c \in Chats /\ question[q].chat \in {NoChat, c}
           /\ chat[c].state # "free" /\ question[q].context = chat[c].context
           /\ chat[c].state = "stored" => q \in chat[c].turns
      /\ question[q].mark = "persisted" => question[q].backend = "stored"
      /\ question[q].mark = "none" => question[q].backend = "none" /\ question[q].chat = NoChat

\* The history of a question was of the chat that the question continues.
HistoriesFit ==
    \A q \in Questions :
      ~question[q].mixed => \A p \in question[q].history : Of(p, question[q].chat)

\* So is the conversation of the page; a chat not yet created has one question waiting at most.
PageFits ==
    /\ ~chatPage.mixed =>
         /\ \A p \in chatPage.history :
              \/ Of(p, chatPage.active)
              \/ chatPage.active = NoChat /\ Waiting(p) /\ question[p].chat = NoChat
         /\ chatPage.active = NoChat =>
              \A p, q \in chatPage.history : Waiting(p) /\ Waiting(q) => p = q
    /\ \A q \in Questions : question[q].current => q \in chatPage.history

OpeningFits ==
    /\ opening.read => opening.chat # NoChat
    /\ \A p \in opening.turns : StoredAt(p, opening.chat)
    /\ switching # NoSwitch => switching.before \in ComposerModels

ChatInv == ChatTypeOK /\ TurnsAreStored /\ QuestionsAreStored /\ HistoriesFit /\ PageFits /\ OpeningFits

-----------------------------------------------------------------------------
(* The conversation: its data. *)

LEMMA ChatTypes ==
  ASSUME ChatTypeOK
  PROVE  /\ chat \in [Chats -> StoredChat] /\ question \in [Questions -> ChatQuestion]
         /\ chatPage \in Page /\ opening \in Opening /\ switching \in Switching /\ deleting \in Deletion
         /\ moves \in 0..MaxMoves /\ chatTroubles \in 0..MaxChatTroubles
BY DEF ChatTypeOK, StoredChat, ChatQuestion, Page, Opening, Switching, Deletion

LEMMA ChatTypesAgain ==
  ASSUME chat' \in [Chats -> StoredChat], question' \in [Questions -> ChatQuestion],
         chatPage' \in Page, opening' \in Opening, switching' \in Switching, deleting' \in Deletion,
         moves' \in 0..MaxMoves, chatTroubles' \in 0..MaxChatTroubles
  PROVE  ChatTypeOK'
BY DEF ChatTypeOK, StoredChat, ChatQuestion, Page, Opening, Switching, Deletion

LEMMA CountsMoves ==
  /\ moves \in 0..MaxMoves /\ Move => moves' \in 0..MaxMoves
  /\ chatTroubles \in 0..MaxChatTroubles /\ ChatTrouble => chatTroubles' \in 0..MaxChatTroubles
BY ChatAssumption DEF Move, ChatTrouble

\* What a step may do to a question: it stays failed, stored, and with the chat it named.
Grows(p) ==
    /\ question[p].mark = "failed" => question'[p].mark = "failed"
    /\ question[p].backend = "stored" => question'[p].backend = "stored" /\ question'[p].at = question[p].at
    /\ question[p].chat # NoChat => question'[p].chat = question[p].chat

LEMMA OfStays ==
  ASSUME NEW p \in Questions, NEW c, Grows(p)
  PROVE  (StoredAt(p, c) => StoredAt(p, c)') /\ (Of(p, c) => Of(p, c)')
BY DEF Grows, StoredAt, Of

\* A conversation that is left, opened or begun anew.
LEMMA LeftQuestions ==
  ASSUME question \in [Questions -> ChatQuestion], question' = Left
  PROVE  /\ question' \in [Questions -> ChatQuestion]
         /\ \A q \in Questions :
              /\ question'[q].mark = question[q].mark /\ question'[q].backend = question[q].backend
              /\ question'[q].chat = question[q].chat /\ question'[q].at = question[q].at
              /\ question'[q].context = question[q].context /\ question'[q].history = question[q].history
              /\ question'[q].mixed = question[q].mixed /\ ~question'[q].current
              /\ Grows(q)
<1>1. ASSUME NEW q \in Questions
      PROVE  /\ question'[q] \in ChatQuestion
             /\ question'[q].mark = question[q].mark /\ question'[q].backend = question[q].backend
             /\ question'[q].chat = question[q].chat /\ question'[q].at = question[q].at
             /\ question'[q].context = question[q].context /\ question'[q].history = question[q].history
             /\ question'[q].mixed = question[q].mixed /\ ~question'[q].current
  <2>1. question[q] \in ChatQuestion /\ question'[q] = [question[q] EXCEPT !.current = FALSE]
      BY DEF Left
  <2> QED
      BY <2>1 DEF ChatQuestion
<1>2. \A q \in Questions : Grows(q)
    BY <1>1 DEF Grows
<1> QED
    BY <1>1, <1>2 DEF Left

LEMMA LeftKeeps ==
  ASSUME ChatInv, question' = Left, UNCHANGED chat,
         \A p \in chatPage'.history : StoredAt(p, chatPage'.active),
         chatPage'.history \subseteq Questions, chatPage'.history # {} => chatPage'.active # NoChat
  PROVE  /\ question' \in [Questions -> ChatQuestion]
         /\ TurnsAreStored' /\ QuestionsAreStored' /\ HistoriesFit' /\ PageFits'
         /\ \A q \in Questions : Grows(q)
<1> USE ChatTypes DEF ChatInv
<1>1. /\ question' \in [Questions -> ChatQuestion]
      /\ \A q \in Questions :
           /\ question'[q].mark = question[q].mark /\ question'[q].backend = question[q].backend
           /\ question'[q].chat = question[q].chat /\ question'[q].at = question[q].at
           /\ question'[q].context = question[q].context /\ question'[q].history = question[q].history
           /\ question'[q].mixed = question[q].mixed /\ ~question'[q].current
           /\ Grows(q)
    BY LeftQuestions
<1>2. TurnsAreStored'
  <2>1. \A c \in Chats : chat[c].turns \subseteq Questions
      BY DEF StoredChat
  <2> QED
      BY <1>1, <2>1 DEF TurnsAreStored, StoredAt
<1>3. QuestionsAreStored'
    BY <1>1 DEF QuestionsAreStored
<1>4. HistoriesFit'
  <2>1. \A q \in Questions : question[q].history \subseteq Questions
      BY DEF ChatQuestion
  <2> QED
      BY <1>1, <2>1, OfStays DEF HistoriesFit
<1>5. PageFits'
  <2>1. \A p \in chatPage'.history : Of(p, chatPage.active)'
      BY <1>1 DEF Of, StoredAt
  <2>2. chatPage'.active = NoChat => chatPage'.history = {}
      OBVIOUS
  <2> QED
      BY <1>1, <2>1, <2>2 DEF PageFits
<1> QED
    BY <1>1, <1>2, <1>3, <1>4, <1>5

\* A step that leaves the questions, the chats and the conversation alone.
LEMMA ConversationKeeps ==
  ASSUME TurnsAreStored, QuestionsAreStored, HistoriesFit, PageFits, UNCHANGED <<chat, question>>,
         chatPage'.active = chatPage.active, chatPage'.history = chatPage.history,
         chatPage'.mixed = chatPage.mixed
  PROVE  TurnsAreStored' /\ QuestionsAreStored' /\ HistoriesFit' /\ PageFits'
<1>1. TurnsAreStored'
    BY DEF TurnsAreStored, StoredAt
<1>2. QuestionsAreStored'
    BY DEF QuestionsAreStored
<1>3. HistoriesFit'
    BY DEF HistoriesFit, Of, StoredAt
<1>4. PageFits'
    BY DEF PageFits, Of, StoredAt, Waiting
<1> QED
    BY <1>1, <1>2, <1>3, <1>4

\* What has been read of an opened chat stays true, and a pending switch can be taken back.
LEMMA OpeningAgain ==
  ASSUME ChatInv, \A q \in Questions : Grows(q), opening' \in {opening, NoOpening},
         switching' \in {switching, NoSwitch}
  PROVE  OpeningFits'
<1> USE ChatTypes DEF ChatInv
<1>1. opening.turns \subseteq Questions
    BY DEF Opening
<1>2. CASE opening' = opening
    BY <1>1, <1>2, OfStays DEF OpeningFits
<1>3. CASE opening' = NoOpening
    BY <1>3 DEF OpeningFits, NoOpening
<1> QED
    BY <1>2, <1>3

LEMMA ChatNothings ==
  /\ NoOpening \in Opening /\ NoSwitch \in Switching /\ NoDeletion \in Deletion
  /\ ~NoOpening.read /\ NoOpening.turns = {} /\ ~NoDeletion.done
BY DEF NoOpening, Opening, NoSwitch, Switching, NoDeletion, Deletion

LEMMA EmptiedPage ==
  ASSUME NEW p \in Page
  PROVE  /\ Emptied(p) \in Page /\ Emptied(p).history = {} /\ Emptied(p).active = NoChat
         /\ ~Emptied(p).mixed
BY DEF Emptied, Page

-----------------------------------------------------------------------------
(* The conversation: every action keeps the invariant. *)

LEMMA ChatStarts ==
  ASSUME ChatInit PROVE ChatInv
<1>1. PICK m \in ComposerModels :
      /\ chat = [c \in Chats |-> [state |-> "free", turns |-> {}, context |-> [scope |-> All, model |-> m]]]
      /\ question = [q \in Questions |->
           [mark |-> "none", backend |-> "none", chat |-> NoChat, at |-> NoChat,
            context |-> [scope |-> All, model |-> m], history |-> {}, current |-> FALSE, mixed |-> FALSE]]
      /\ chatPage = [active |-> NoChat, history |-> {}, composer |-> [scope |-> All, model |-> m],
                     unavailable |-> FALSE, keep |-> FALSE, readOnly |-> FALSE, mixed |-> FALSE]
      /\ opening = NoOpening /\ switching = NoSwitch /\ deleting = NoDeletion /\ moves = 0 /\ chatTroubles = 0
    BY DEF ChatInit
<1>2. [scope |-> All, model |-> m] \in Context
    BY ChatAssumption DEF Context
<1>3. /\ chat \in [Chats -> StoredChat]
      /\ \A c \in Chats : chat[c].turns = {}
    BY <1>1, <1>2 DEF StoredChat
<1>4. /\ question \in [Questions -> ChatQuestion]
      /\ \A q \in Questions : /\ question[q].mark = "none" /\ question[q].backend = "none"
                              /\ question[q].chat = NoChat /\ question[q].history = {}
                              /\ ~question[q].current
    BY <1>1, <1>2 DEF ChatQuestion
<1>5. chatPage \in Page /\ chatPage.history = {}
    BY <1>1, <1>2 DEF Page
<1>6. 0 \in 0..MaxMoves /\ 0 \in 0..MaxChatTroubles
    BY ChatAssumption
<1>7. ChatTypeOK
    BY <1>1, <1>3, <1>4, <1>5, <1>6, ChatNothings
       DEF ChatTypeOK, StoredChat, ChatQuestion, Page, Opening, Switching, Deletion
<1>8. TurnsAreStored
    BY <1>3 DEF TurnsAreStored
<1>9. QuestionsAreStored
    BY <1>4 DEF QuestionsAreStored
<1>10. HistoriesFit
    BY <1>4 DEF HistoriesFit
<1>11. PageFits
    BY <1>4, <1>5 DEF PageFits
<1>12. OpeningFits
    BY <1>1, ChatNothings DEF OpeningFits
<1> QED
    BY <1>7, <1>8, <1>9, <1>10, <1>11, <1>12 DEF ChatInv

LEMMA AskKeeps ==
  ASSUME ChatInv, NEW q \in Questions, Ask(q) PROVE ChatInv'
<1> USE ChatTypes DEF ChatInv
<1> DEFINE H == chatPage.history
           m == chatPage.mixed \/ SecondOfNewChat
<1>1. /\ chatPage.active \in Chats \cup {NoChat} /\ H \subseteq Questions /\ chatPage.composer \in Context
      /\ m \in BOOLEAN
    BY DEF Page
<1>2. question[q].mark = "none" /\ question[q].backend = "none" /\ question[q].chat = NoChat
    BY DEF Ask, QuestionsAreStored
<1>3. /\ question' \in [Questions -> ChatQuestion]
      /\ question'[q].mark = "waiting" /\ question'[q].backend = "sent" /\ question'[q].chat = chatPage.active
      /\ question'[q].history = H /\ question'[q].mixed = m
      /\ \A p \in Questions \ {q} : question'[p] = question[p]
  <2> DEFINE n == [mark |-> "waiting", backend |-> "sent", chat |-> chatPage.active, at |-> NoChat,
                   context |-> chatPage.composer, history |-> H, current |-> TRUE, mixed |-> m]
  <2>1. question' = [question EXCEPT ![q] = n]
      BY DEF Ask
  <2>2. /\ n \in ChatQuestion /\ n.mark = "waiting" /\ n.backend = "sent" /\ n.chat = chatPage.active
        /\ n.history = H /\ n.mixed = m
    <3> HIDE DEF H, m
    <3> QED
        BY <1>1 DEF ChatQuestion
  <2> HIDE DEF n
  <2> QED
      BY <2>1, <2>2
<1>4. /\ chatPage' \in Page /\ chatPage'.history = H \cup {q} /\ chatPage'.mixed = m
      /\ chatPage'.active = chatPage.active
  <2>1. chatPage' = [chatPage EXCEPT !.history = H \cup {q}, !.mixed = m]
      BY DEF Ask
  <2> HIDE DEF m
  <2> QED
      BY <1>1, <2>1 DEF Page
<1>5. UNCHANGED <<chat, opening, switching, deleting, moves, chatTroubles>>
    BY DEF Ask
<1>6. \A p \in Questions : Grows(p)
  <2>1. Grows(q)
      BY <1>2 DEF Grows
  <2>2. \A p \in Questions \ {q} : Grows(p)
      BY <1>3 DEF Grows
  <2> QED
      BY <2>1, <2>2
<1>7. ChatTypeOK'
    BY <1>3, <1>4, <1>5, ChatTypesAgain
<1>8. TurnsAreStored'
  <2>1. \A c \in Chats : chat[c].turns \subseteq Questions
      BY DEF StoredChat
  <2> QED
      BY <1>5, <1>6, <2>1, OfStays DEF TurnsAreStored
<1>9. QuestionsAreStored'
    BY <1>2, <1>3, <1>5 DEF QuestionsAreStored
<1>10. ~m => \A p \in H : Of(p, chatPage.active)
    BY DEF PageFits, SecondOfNewChat
<1>11. HistoriesFit'
  <2>1. \A p \in Questions : question[p].history \subseteq Questions
      BY DEF ChatQuestion
  <2>2. ASSUME NEW p \in Questions \ {q}, ~question'[p].mixed
        PROVE  \A s \in question'[p].history : Of(s, question[p].chat)'
    <3>1. question'[p] = question[p]
        BY <1>3
    <3>2. \A s \in question[p].history : Of(s, question[p].chat)
        BY <2>2, <3>1 DEF HistoriesFit
    <3>3. \A s \in question[p].history : Grows(s)
        BY <1>6, <2>1
    <3> QED
        BY <3>1, <3>2, <3>3 DEF Grows, Of, StoredAt
  <2>3. ~m => \A s \in H : Of(s, chatPage.active)'
    <3>1. \A s \in H : Grows(s)
        BY <1>1, <1>6
    <3> QED
        BY <1>4, <1>10, <3>1 DEF Grows, Of, StoredAt
  <2> QED
      BY ZenonT(60), <1>3, <1>4, <2>2, <2>3 DEF HistoriesFit, Of, StoredAt
<1>12. PageFits'
  <2>1. ASSUME ~m, NEW p \in H \cup {q}
        PROVE  \/ Of(p, chatPage.active)'
               \/ chatPage.active = NoChat /\ Waiting(p)' /\ question'[p].chat = NoChat
    <3>1. CASE p = q
        BY <1>3, <1>4, <3>1 DEF Of, Waiting
    <3>2. CASE p # q
      <4>1. p \in H /\ Grows(p) /\ Of(p, chatPage.active)
          BY <1>1, <1>6, <1>10, <2>1, <3>2
      <4> QED
          BY <1>4, <4>1 DEF Grows, Of, StoredAt
    <3> QED
        BY <3>1, <3>2
  <2>2. ASSUME ~m, chatPage.active = NoChat, NEW p \in H \cup {q}, Waiting(p)'
        PROVE  p = q
    <3>1. ASSUME p # q PROVE FALSE
      <4>1. p \in H /\ question'[p] = question[p]
          BY <1>1, <1>3, <3>1
      <4> QED
          BY <2>2, <4>1 DEF SecondOfNewChat, Waiting
    <3> QED
        BY <3>1
  <2>3. \A p \in Questions : question'[p].current => p \in H \cup {q}
      BY <1>3 DEF PageFits
  <2> HIDE DEF H, m
  <2> QED
      BY <1>4, <2>1, <2>2, <2>3 DEF PageFits
<1>13. OpeningFits'
    BY <1>5, <1>6, OpeningAgain
<1> QED
    BY <1>7, <1>8, <1>9, <1>11, <1>12, <1>13

LEMMA SaveTurnKeeps ==
  ASSUME ChatInv, NEW q \in Questions, NEW c \in Chats, SaveTurn(q, c) PROVE ChatInv'
<1> USE ChatTypes DEF ChatInv
<1> DEFINE n == [state |-> "stored", turns |-> chat[c].turns \cup {q}, context |-> question[q].context]
<1>1. /\ question[q].backend = "sent" /\ question[q].context \in Context /\ chat[c] \in StoredChat
      /\ chat[c].turns \subseteq Questions
    BY DEF SaveTurn, ChatQuestion, StoredChat
<1>2. /\ question[q].chat \in {NoChat, c} /\ chat[c].state \in {"free", "stored"}
      /\ chat[c].state = "stored" => chat[c].context = question[q].context
    BY DEF SaveTurn, Continues, Creates, ChatExists
<1>3. /\ chat' \in [Chats -> StoredChat] /\ chat'[c] = n
      /\ \A d \in Chats \ {c} : chat'[d] = chat[d]
  <2>1. n \in StoredChat
      BY <1>1 DEF StoredChat
  <2>2. chat' = [chat EXCEPT ![c] = n]
      BY DEF SaveTurn
  <2> HIDE DEF n
  <2> QED
      BY <2>1, <2>2
<1>4. n.state = "stored" /\ n.turns = chat[c].turns \cup {q} /\ n.context = question[q].context
    OBVIOUS
<1>5. /\ question' \in [Questions -> ChatQuestion]
      /\ question'[q].backend = "stored" /\ question'[q].at = c
      /\ question'[q].mark = question[q].mark /\ question'[q].chat = question[q].chat
      /\ question'[q].context = question[q].context /\ question'[q].history = question[q].history
      /\ question'[q].mixed = question[q].mixed /\ question'[q].current = question[q].current
      /\ \A p \in Questions \ {q} : question'[p] = question[p]
  <2> DEFINE s == [question[q] EXCEPT !.backend = "stored", !.at = c]
  <2>1. question' = [question EXCEPT ![q] = s]
      BY DEF SaveTurn, ChatQuestion
  <2>2. /\ s \in ChatQuestion /\ s.backend = "stored" /\ s.at = c
        /\ s.mark = question[q].mark /\ s.chat = question[q].chat
        /\ s.context = question[q].context /\ s.history = question[q].history
        /\ s.mixed = question[q].mixed /\ s.current = question[q].current
    <3>1. question[q] \in ChatQuestion
        OBVIOUS
    <3> QED
        BY ONLY <3>1 DEF ChatQuestion
  <2> HIDE DEF s
  <2> QED
      BY <2>1, <2>2
<1>6. UNCHANGED <<chatPage, opening, switching, deleting, moves, chatTroubles>>
    BY DEF SaveTurn
<1>7. \A p \in Questions : Grows(p)
    BY <1>1, <1>5 DEF Grows
<1>8. ChatTypeOK'
    BY <1>3, <1>5, <1>6, ChatTypesAgain
<1> HIDE DEF n
<1>9. TurnsAreStored'
  <2>1. ASSUME NEW d \in Chats, NEW p \in chat'[d].turns PROVE StoredAt(p, d)'
    <3>1. CASE p = q /\ d = c
        BY <1>5, <3>1 DEF StoredAt
    <3>2. CASE p \in chat[d].turns
      <4>1. p \in Questions /\ StoredAt(p, d)
          BY <3>2 DEF TurnsAreStored, StoredChat
      <4> QED
          BY <1>7, <4>1, OfStays
    <3>3. p \in chat[d].turns \/ (p = q /\ d = c)
        BY <1>3, <1>4
    <3> QED
        BY <3>1, <3>2, <3>3
  <2>2. \A d \in Chats : chat'[d].state # "stored" => chat'[d].turns = {}
      BY <1>3, <1>4 DEF TurnsAreStored
  <2> QED
      BY <2>1, <2>2 DEF TurnsAreStored
<1>10. QuestionsAreStored'
  <2>1. ASSUME NEW p \in Questions, question'[p].backend = "stored"
        PROVE  LET d == question'[p].at IN
               /\ d \in Chats /\ question'[p].chat \in {NoChat, d}
               /\ chat'[d].state # "free" /\ question'[p].context = chat'[d].context
               /\ chat'[d].state = "stored" => p \in chat'[d].turns
    <3>1. CASE p = q
        BY <1>2, <1>3, <1>4, <1>5, <3>1
    <3>2. CASE p # q
      <4> DEFINE d == question[p].at
      <4>1. question'[p] = question[p]
          BY <1>5, <3>2
      <4>2. /\ d \in Chats /\ question[p].chat \in {NoChat, d}
            /\ chat[d].state # "free" /\ question[p].context = chat[d].context
            /\ chat[d].state = "stored" => p \in chat[d].turns
          BY <2>1, <4>1 DEF QuestionsAreStored
      <4>3. CASE d = c
          BY <1>2, <1>3, <1>4, <4>1, <4>2, <4>3
      <4>4. CASE d # c
          BY <1>3, <4>1, <4>2, <4>4
      <4> QED
          BY <4>3, <4>4
    <3> QED
        BY <3>1, <3>2
  <2>2. \A p \in Questions :
          /\ question'[p].mark = "persisted" => question'[p].backend = "stored"
          /\ question'[p].mark = "none" => question'[p].backend = "none" /\ question'[p].chat = NoChat
      BY <1>1, <1>5 DEF QuestionsAreStored
  <2> QED
      BY <2>1, <2>2 DEF QuestionsAreStored
<1>11. HistoriesFit'
  <2>1. \A p \in Questions : /\ question[p].history \subseteq Questions
                             /\ question'[p].history = question[p].history
                             /\ question'[p].chat = question[p].chat
                             /\ question'[p].mixed = question[p].mixed
      BY <1>5 DEF ChatQuestion
  <2> QED
      BY <1>7, <2>1, OfStays DEF HistoriesFit
<1>12. PageFits'
  <2>1. \A p \in Questions : /\ question'[p].mark = question[p].mark
                             /\ question'[p].chat = question[p].chat
                             /\ question'[p].current = question[p].current
      BY <1>5
  <2>2. chatPage.history \subseteq Questions
      BY DEF Page
  <2> QED
      BY <1>6, <1>7, <2>1, <2>2, OfStays DEF PageFits, Waiting
<1>13. OpeningFits'
    BY <1>6, <1>7, OpeningAgain
<1> QED
    BY <1>8, <1>9, <1>10, <1>11, <1>12, <1>13

\* A question that fails on the page, or is refused by the backend.
LEMMA QuestionEnds ==
  ASSUME ChatInv, NEW q \in Questions, NEW s \in ChatQuestion, question' = [question EXCEPT ![q] = s],
         s.chat = question[q].chat, s.at = question[q].at, s.context = question[q].context,
         s.history = question[q].history, s.current = question[q].current, s.mixed = question[q].mixed,
         s.backend = question[q].backend \/ (question[q].backend = "sent" /\ s.backend = "refused"),
         s.mark = question[q].mark \/ (question[q].mark = "waiting" /\ s.mark = "failed"),
         question[q].backend = "sent" \/ s.backend = question[q].backend,
         UNCHANGED <<chat, chatPage, opening, switching, deleting, moves>>,
         chatTroubles' \in 0..MaxChatTroubles
  PROVE  ChatInv'
<1> USE ChatTypes DEF ChatInv
<1>1. /\ question' \in [Questions -> ChatQuestion] /\ question'[q] = s
      /\ \A p \in Questions \ {q} : question'[p] = question[p]
    OBVIOUS
<1>2. \A p \in Questions : Grows(p)
    BY <1>1 DEF Grows
<1>3. ChatTypeOK'
    BY <1>1, ChatTypesAgain
<1>4. TurnsAreStored'
  <2>1. \A c \in Chats : chat[c].turns \subseteq Questions
      BY DEF StoredChat
  <2> QED
      BY <1>2, <2>1, OfStays DEF TurnsAreStored
<1>5. QuestionsAreStored'
  <2>1. s.backend = "stored" => question[q].backend = "stored"
      OBVIOUS
  <2>2. s.mark = "persisted" => s.backend = "stored"
      BY DEF QuestionsAreStored
  <2>3. s.mark = "none" => s.backend = "none" /\ s.chat = NoChat
      BY DEF QuestionsAreStored
  <2> QED
      BY <1>1, <2>1, <2>2, <2>3 DEF QuestionsAreStored
<1>6. HistoriesFit'
  <2>1. \A p \in Questions : /\ question[p].history \subseteq Questions
                             /\ question'[p].history = question[p].history
                             /\ question'[p].chat = question[p].chat
                             /\ question'[p].mixed = question[p].mixed
      BY <1>1 DEF ChatQuestion
  <2> QED
      BY <1>2, <2>1, OfStays DEF HistoriesFit
<1>7. PageFits'
  <2>1. \A p \in Questions : /\ question'[p].chat = question[p].chat
                             /\ question'[p].current = question[p].current
                             /\ Waiting(p)' => Waiting(p)
                             /\ Waiting(p) => Waiting(p)' \/ question'[p].mark = "failed"
      BY <1>1 DEF Waiting
  <2>2. chatPage.history \subseteq Questions
      BY DEF Page
  <2>3. ASSUME NEW p \in chatPage.history, ~chatPage.mixed
        PROVE  \/ Of(p, chatPage.active)'
               \/ chatPage'.active = NoChat /\ Waiting(p)' /\ question'[p].chat = NoChat
    <3>1. CASE Of(p, chatPage.active)
        BY <1>2, <2>2, <3>1 DEF Grows, Of, StoredAt
    <3>2. CASE chatPage.active = NoChat /\ Waiting(p) /\ question[p].chat = NoChat
        BY <2>1, <2>2, <3>2 DEF Of
    <3> QED
        BY <2>3, <3>1, <3>2 DEF PageFits
  <2> QED
      BY <2>1, <2>2, <2>3 DEF PageFits
<1>8. OpeningFits'
    BY <1>2, OpeningAgain
<1> QED
    BY <1>3, <1>4, <1>5, <1>6, <1>7, <1>8

LEMMA QuestionFailsKeeps ==
  ASSUME ChatInv, NEW q \in Questions, QuestionFails(q) PROVE ChatInv'
<1> USE ChatTypes DEF ChatInv
<1> DEFINE s == [question[q] EXCEPT !.mark = "failed"]
<1>1. question[q] \in ChatQuestion
    OBVIOUS
<1>2. /\ s \in ChatQuestion /\ s.mark = "failed" /\ s.backend = question[q].backend
      /\ s.chat = question[q].chat /\ s.at = question[q].at /\ s.context = question[q].context
      /\ s.history = question[q].history /\ s.current = question[q].current /\ s.mixed = question[q].mixed
    BY ONLY <1>1 DEF ChatQuestion
<1>3. question' = [question EXCEPT ![q] = s] /\ question[q].mark = "waiting"
    BY DEF QuestionFails, Waiting
<1>4. UNCHANGED <<chat, chatPage, opening, switching, deleting, moves>> /\ chatTroubles' \in 0..MaxChatTroubles
    BY CountsMoves DEF QuestionFails
<1> HIDE DEF s
<1> QED
    BY <1>2, <1>3, <1>4, QuestionEnds

LEMMA QuestionRefusedKeeps ==
  ASSUME ChatInv, NEW q \in Questions, RefuseQuestion(q) \/ StreamCancelled(q) PROVE ChatInv'
<1> USE ChatTypes DEF ChatInv
<1> DEFINE s == [question[q] EXCEPT !.backend = "refused"]
<1>1. question[q] \in ChatQuestion
    OBVIOUS
<1>2. /\ s \in ChatQuestion /\ s.mark = question[q].mark /\ s.backend = "refused"
      /\ s.chat = question[q].chat /\ s.at = question[q].at /\ s.context = question[q].context
      /\ s.history = question[q].history /\ s.current = question[q].current /\ s.mixed = question[q].mixed
    BY ONLY <1>1 DEF ChatQuestion
<1>3. question' = [question EXCEPT ![q] = s] /\ question[q].backend = "sent"
    BY DEF RefuseQuestion, StreamCancelled
<1>4. UNCHANGED <<chat, chatPage, opening, switching, deleting, moves>> /\ chatTroubles' \in 0..MaxChatTroubles
    BY CountsMoves DEF RefuseQuestion, StreamCancelled
<1> HIDE DEF s
<1> QED
    BY <1>2, <1>3, <1>4, QuestionEnds

\* An answer names the chat of the conversation it came to, or the conversation is mixed from then on.
LEMMA AnswerArrivesKeeps ==
  ASSUME ChatInv, NEW q \in Questions, AnswerArrives(q) PROVE ChatInv'
<1> USE ChatTypes DEF ChatInv
<1> DEFINE s == [question[q] EXCEPT !.mark = "persisted"]
           c == question[q].at
           H == chatPage.history
           m == chatPage.mixed \/ ~question[q].current \/ chatPage.active # question[q].chat
<1>1. question[q] \in ChatQuestion
    OBVIOUS
<1>2. /\ s \in ChatQuestion /\ s.mark = "persisted" /\ s.backend = question[q].backend
      /\ s.chat = question[q].chat /\ s.at = question[q].at /\ s.context = question[q].context
      /\ s.history = question[q].history /\ s.current = question[q].current /\ s.mixed = question[q].mixed
    BY ONLY <1>1 DEF ChatQuestion
<1>3. question' = [question EXCEPT ![q] = s] /\ Waiting(q) /\ question[q].backend = "stored"
    BY DEF AnswerArrives
<1> HIDE DEF s
<1>4. /\ question' \in [Questions -> ChatQuestion] /\ question'[q] = s
      /\ \A p \in Questions \ {q} : question'[p] = question[p]
    BY <1>2, <1>3
<1>5. UNCHANGED <<chat, opening, switching, deleting, moves, chatTroubles>>
    BY DEF AnswerArrives
<1>6. c \in Chats /\ question[q].chat \in {NoChat, c} /\ c # NoChat
    BY <1>3, ChatAssumption DEF QuestionsAreStored
<1>7. /\ chatPage' \in Page /\ chatPage'.history = H \cup {q} /\ chatPage'.mixed = m /\ chatPage'.active = c
  <2>1. chatPage' = [chatPage EXCEPT !.active = c, !.history = H \cup {q}, !.mixed = m]
      BY DEF AnswerArrives
  <2>2. m \in BOOLEAN /\ H \subseteq Questions
      BY DEF Page, ChatQuestion
  <2> HIDE DEF m, H, c
  <2> QED
      BY <1>6, <2>1, <2>2 DEF Page
<1>8. \A p \in Questions : Grows(p)
    BY <1>2, <1>3, <1>4 DEF Grows, Waiting
<1>9. ChatTypeOK'
    BY <1>4, <1>5, <1>7, ChatTypesAgain
<1>10. TurnsAreStored'
  <2>1. \A d \in Chats : chat[d].turns \subseteq Questions
      BY DEF StoredChat
  <2> QED
      BY <1>5, <1>8, <2>1, OfStays DEF TurnsAreStored
<1>11. QuestionsAreStored'
    BY <1>2, <1>3, <1>4, <1>5 DEF QuestionsAreStored
<1>12. HistoriesFit'
  <2>1. \A p \in Questions : /\ question[p].history \subseteq Questions
                             /\ question'[p].history = question[p].history
                             /\ question'[p].chat = question[p].chat
                             /\ question'[p].mixed = question[p].mixed
      BY <1>2, <1>4 DEF ChatQuestion
  <2> QED
      BY <1>8, <2>1, OfStays DEF HistoriesFit
<1>13. PageFits'
  <2>1. ASSUME NEW p \in H \cup {q}, ~m PROVE Of(p, chatPage.active)'
    <3>1. CASE p = q
        BY <1>2, <1>3, <1>4, <1>6, <1>7, <3>1 DEF Of, StoredAt
    <3>2. CASE p # q
      <4>1. p \in H /\ p \in Questions /\ Grows(p)
          BY <1>8, <3>2 DEF Page
      <4>2. Of(p, chatPage.active) \/ (chatPage.active = NoChat /\ Waiting(p))
          BY <2>1, <4>1 DEF PageFits
      <4>3. q \in H /\ chatPage.active = question[q].chat
          BY <2>1 DEF PageFits
      <4>4. ~(chatPage.active = NoChat /\ Waiting(p))
          BY <1>3, <2>1, <3>2, <4>1, <4>3 DEF PageFits
      <4> HIDE DEF c
      <4>5. Of(p, c)
          BY <1>6, <4>2, <4>3, <4>4 DEF Of
      <4> QED
          BY <1>7, <4>1, <4>5 DEF Grows, Of, StoredAt
    <3> QED
        BY <3>1, <3>2
  <2>2. \A p \in Questions : question'[p].current => p \in H \cup {q}
      BY <1>2, <1>4 DEF PageFits
  <2>3. ~m => \A p \in chatPage'.history : Of(p, chatPage.active)'
      BY <1>7, <2>1
  <2> HIDE DEF m, H, c
  <2> QED
      BY <1>6, <1>7, <2>2, <2>3 DEF PageFits
<1>14. OpeningFits'
    BY <1>5, <1>8, OpeningAgain
<1> QED
    BY <1>9, <1>10, <1>11, <1>12, <1>13, <1>14

\* The composer, the list and the switch change without touching the conversation.
LEMMA ComposerKeeps ==
  ASSUME ChatInv, UNCHANGED <<chat, question>>, chatPage' \in Page,
         chatPage'.active = chatPage.active, chatPage'.history = chatPage.history,
         chatPage'.mixed = chatPage.mixed,
         opening' \in Opening, switching' \in Switching, deleting' \in Deletion,
         moves' \in 0..MaxMoves, chatTroubles' \in 0..MaxChatTroubles, OpeningFits'
  PROVE  ChatInv'
<1> USE ChatTypes DEF ChatInv
<1>1. ChatTypeOK'
    BY ChatTypesAgain
<1> QED
    BY <1>1, ConversationKeeps

LEMMA NothingGrows ==
  ASSUME UNCHANGED question PROVE \A p \in Questions : Grows(p)
BY DEF Grows

LEMMA RefreshChatScopesKeeps ==
  ASSUME ChatInv, RefreshChatScopes PROVE ChatInv'
<1> USE ChatTypes DEF ChatInv, RefreshChatScopes
<1>1. /\ chatPage' \in Page /\ chatPage'.active = chatPage.active /\ chatPage'.history = chatPage.history
      /\ chatPage'.mixed = chatPage.mixed
    BY ChatAssumption DEF Page, Context
<1>2. OpeningFits'
    BY NothingGrows, OpeningAgain
<1> QED
    BY <1>1, <1>2, CountsMoves, ComposerKeeps

LEMMA ApplySelectorSettingsKeeps ==
  ASSUME ChatInv, NEW m \in ComposerModels, ApplySelectorSettings(m) PROVE ChatInv'
<1> USE ChatTypes DEF ChatInv, ApplySelectorSettings
<1>1. /\ chatPage' \in Page /\ chatPage'.active = chatPage.active /\ chatPage'.history = chatPage.history
      /\ chatPage'.mixed = chatPage.mixed
    BY DEF Page, Context
<1>2. OpeningFits'
    BY NothingGrows, OpeningAgain
<1> QED
    BY <1>1, <1>2, CountsMoves, ComposerKeeps

LEMMA SelectModelKeeps ==
  ASSUME ChatInv, NEW m \in ComposerModels, SelectModel(m) PROVE ChatInv'
<1> USE ChatTypes DEF ChatInv, SelectModel
<1>1. chatPage.composer.model \in ComposerModels /\ chatPage.keep \in BOOLEAN
    BY DEF Page, Context
<1>2. /\ chatPage' \in Page /\ chatPage'.active = chatPage.active /\ chatPage'.history = chatPage.history
      /\ chatPage'.mixed = chatPage.mixed
    BY DEF Page, Context
<1>3. switching' \in Switching /\ switching'.before \in ComposerModels
    BY <1>1 DEF Switching
<1>4. OpeningFits'
  <2>1. \A p \in opening.turns : StoredAt(p, opening.chat)'
      BY DEF OpeningFits, StoredAt
  <2> QED
      BY <1>3, <2>1 DEF OpeningFits, StoredAt
<1> QED
    BY <1>2, <1>3, <1>4, CountsMoves, ComposerKeeps

LEMMA RestoreProjectedSelectionKeeps ==
  ASSUME ChatInv, RestoreProjectedSelection PROVE ChatInv'
<1> USE ChatTypes DEF ChatInv, RestoreProjectedSelection
<1>1. switching.before \in ComposerModels /\ switching.keep \in BOOLEAN
    BY DEF OpeningFits, Switching
<1>2. /\ chatPage' \in Page /\ chatPage'.active = chatPage.active /\ chatPage'.history = chatPage.history
      /\ chatPage'.mixed = chatPage.mixed
    BY <1>1 DEF Page, Context
<1>3. OpeningFits'
    BY NothingGrows, OpeningAgain
<1> QED
    BY <1>2, <1>3, CountsMoves, ChatNothings, ComposerKeeps

LEMMA RestoreSessionKeeps ==
  ASSUME ChatInv, NEW c \in Chats, RestoreSession(c) PROVE ChatInv'
<1> USE ChatTypes DEF ChatInv, RestoreSession
<1>1. opening' \in Opening /\ ~opening'.read /\ opening'.turns = {}
    BY DEF NoOpening, Opening
<1>2. OpeningFits'
    BY <1>1 DEF OpeningFits
<1> QED
    BY <1>1, <1>2, CountsMoves, ComposerKeeps

LEMMA GetChatSessionKeeps ==
  ASSUME ChatInv, GetChatSession PROVE ChatInv'
<1> USE ChatTypes DEF ChatInv, GetChatSession
<1>1. CASE ChatExists(opening.chat)
  <2>1. opening.chat \in Chats
      BY DEF Opening
  <2>2. chat[opening.chat].turns \subseteq Questions
      BY <2>1 DEF StoredChat
  <2>3. /\ opening' \in Opening /\ opening'.chat = opening.chat
        /\ opening'.turns = chat[opening.chat].turns
      BY <1>1, <2>2 DEF Opening
  <2>4. \A p \in chat[opening.chat].turns : StoredAt(p, opening.chat)
      BY <2>1 DEF TurnsAreStored
  <2>5. OpeningFits'
      BY <2>3, <2>4 DEF OpeningFits, StoredAt
  <2> QED
      BY <2>3, <2>5, ComposerKeeps
<1>2. CASE ~ChatExists(opening.chat)
  <2>1. opening' = NoOpening
      BY <1>2
  <2>2. OpeningFits'
      BY <2>1, NothingGrows, OpeningAgain
  <2> QED
      BY <2>1, <2>2, ChatNothings, ComposerKeeps
<1> QED
    BY <1>1, <1>2

LEMMA DeleteSessionKeeps ==
  ASSUME ChatInv, NEW c \in Chats, DeleteSession(c) PROVE ChatInv'
<1> USE ChatTypes DEF ChatInv, DeleteSession
<1>1. deleting' \in Deletion
    BY DEF Deletion
<1>2. OpeningFits'
    BY NothingGrows, OpeningAgain
<1> QED
    BY <1>1, <1>2, CountsMoves, ComposerKeeps

\* A conversation that is emptied keeps nothing of what it was about.
LEMMA EmptiedKeeps ==
  ASSUME ChatInv, question' = Left, UNCHANGED <<chat, opening>>, chatPage' \in Page, chatPage'.history = {},
         switching' \in {switching, NoSwitch}, deleting' \in {deleting, NoDeletion},
         moves' \in 0..MaxMoves, chatTroubles' \in 0..MaxChatTroubles
  PROVE  ChatInv'
<1> USE ChatTypes DEF ChatInv
<1>1. /\ question' \in [Questions -> ChatQuestion]
      /\ TurnsAreStored' /\ QuestionsAreStored' /\ HistoriesFit' /\ PageFits'
      /\ \A q \in Questions : Grows(q)
    BY LeftKeeps
<1>2. OpeningFits'
    BY <1>1, OpeningAgain
<1>3. ChatTypeOK'
    BY <1>1, ChatNothings, ChatTypesAgain
<1> QED
    BY <1>1, <1>2, <1>3

LEMMA HandleScopeChangeKeeps ==
  ASSUME ChatInv, NEW s \in Scopes, HandleScopeChange(s) PROVE ChatInv'
<1> USE ChatTypes DEF ChatInv, HandleScopeChange
<1>1. [chatPage EXCEPT !.composer.scope = s, !.unavailable = FALSE] \in Page
    BY DEF Page, Context
<1>2. chatPage' \in Page /\ chatPage'.history = {}
    BY <1>1, EmptiedPage
<1> QED
    BY <1>2, CountsMoves, EmptiedKeeps

LEMMA CommitSelectionKeeps ==
  ASSUME ChatInv, CommitSelection PROVE ChatInv'
<1> USE ChatTypes DEF ChatInv, CommitSelection
<1>1. chatPage' \in Page /\ chatPage'.history = {}
    BY EmptiedPage
<1> QED
    BY <1>1, EmptiedKeeps

LEMMA StartNewChatKeeps ==
  ASSUME ChatInv, StartNewChat PROVE ChatInv'
<1> USE ChatTypes DEF ChatInv, StartNewChat
<1>1. [chatPage EXCEPT !.keep = FALSE] \in Page
    BY DEF Page
<1>2. chatPage' \in Page /\ chatPage'.history = {}
    BY <1>1, EmptiedPage
<1> QED
    BY <1>2, CountsMoves, EmptiedKeeps

LEMMA CommitDeleteKeeps ==
  ASSUME ChatInv, CommitDelete PROVE ChatInv'
<1> USE ChatTypes DEF ChatInv, CommitDelete
<1>1. CASE deleting.chat = chatPage.active
  <2>1. [chatPage EXCEPT !.keep = FALSE] \in Page
      BY DEF Page
  <2>2. chatPage' \in Page /\ chatPage'.history = {}
      BY <1>1, <2>1, EmptiedPage
  <2> QED
      BY <1>1, <2>2, EmptiedKeeps
<1>2. CASE deleting.chat # chatPage.active
  <2>1. UNCHANGED <<chatPage, question>>
      BY <1>2
  <2>2. OpeningFits'
      BY <2>1, NothingGrows, OpeningAgain
  <2> QED
      BY <2>1, <2>2, ChatNothings, ComposerKeeps
<1> QED
    BY <1>1, <1>2

LEMMA ApplyRestoredSessionKeeps ==
  ASSUME ChatInv, ApplyRestoredSession PROVE ChatInv'
<1> USE ChatTypes DEF ChatInv
<1> DEFINE c == opening.chat
<1>1. /\ c \in Chats /\ c # NoChat /\ opening.turns \subseteq Questions
      /\ \A p \in opening.turns : StoredAt(p, c)
    BY DEF ApplyRestoredSession, OpeningFits, Opening
<1>2. chat[c].context \in Context
    BY <1>1 DEF StoredChat
<1>3. PICK sourceAvailable \in BOOLEAN, modelAvailable \in BOOLEAN :
        chatPage' = [active |-> c, history |-> opening.turns, composer |-> chat[c].context,
                     unavailable |-> ~sourceAvailable, keep |-> TRUE,
                     readOnly |-> ~(sourceAvailable /\ modelAvailable), mixed |-> FALSE]
    BY DEF ApplyRestoredSession
<1>4. question' = Left /\ opening' = NoOpening
      /\ UNCHANGED <<chat, switching, deleting, moves, chatTroubles>>
    BY DEF ApplyRestoredSession
<1>5. /\ chatPage' \in Page /\ chatPage'.history = opening.turns /\ chatPage'.active = c
  <2> HIDE DEF c
  <2> QED
      BY <1>1, <1>2, <1>3 DEF Page
<1> HIDE DEF c
<1>6. /\ question' \in [Questions -> ChatQuestion]
      /\ TurnsAreStored' /\ QuestionsAreStored' /\ HistoriesFit' /\ PageFits'
      /\ \A q \in Questions : Grows(q)
    BY <1>1, <1>4, <1>5, LeftKeeps
<1>7. OpeningFits'
    BY <1>4, <1>6, OpeningAgain
<1>8. ChatTypeOK'
    BY <1>4, <1>5, <1>6, ChatNothings, ChatTypesAgain
<1> QED
    BY <1>6, <1>7, <1>8

LEMMA DeleteExecutedKeeps ==
  ASSUME ChatInv, DeleteExecuted PROVE ChatInv'
<1> USE ChatTypes DEF ChatInv
<1> DEFINE c == deleting.chat
           s == [chat[c] EXCEPT !.state = "deleted", !.turns = {}]
<1>1. c \in Chats /\ deleting' = [deleting EXCEPT !.done = TRUE] /\ deleting' \in Deletion
    BY DEF DeleteExecuted, Deletion
<1>2. chat[c] \in StoredChat
    BY <1>1
<1>3. /\ s \in StoredChat /\ s.state = "deleted" /\ s.turns = {} /\ s.context = chat[c].context
    BY <1>2 DEF StoredChat
<1>4. chat' = [chat EXCEPT ![c] = s]
    BY <1>1 DEF DeleteExecuted
<1>5. UNCHANGED <<question, chatPage, opening, switching, moves, chatTroubles>>
    BY DEF DeleteExecuted
<1> HIDE DEF c, s
<1>6. chat' \in [Chats -> StoredChat] /\ chat'[c] = s /\ \A d \in Chats \ {c} : chat'[d] = chat[d]
    BY <1>1, <1>3, <1>4
<1>7. TurnsAreStored'
    BY <1>3, <1>5, <1>6 DEF TurnsAreStored, StoredAt
<1>8. QuestionsAreStored'
    BY <1>3, <1>5, <1>6 DEF QuestionsAreStored
<1>9. HistoriesFit' /\ PageFits'
    BY <1>5 DEF HistoriesFit, PageFits, Of, StoredAt, Waiting
<1>10. OpeningFits'
    BY <1>5, NothingGrows, OpeningAgain
<1>11. ChatTypeOK'
    BY <1>1, <1>5, <1>6, ChatTypesAgain
<1> QED
    BY <1>7, <1>8, <1>9, <1>10, <1>11

LEMMA ChatSteps ==
  ASSUME ChatInv, [ChatNext]_chatVars PROVE ChatInv'
<1>1. CASE UNCHANGED chatVars
  <2>1. UNCHANGED <<chat, question, chatPage, opening, switching, deleting, moves, chatTroubles>>
      BY <1>1 DEF chatVars
  <2>2. OpeningFits'
      BY <2>1, NothingGrows, OpeningAgain
  <2>3. /\ chat \in [Chats -> StoredChat] /\ question \in [Questions -> ChatQuestion]
        /\ chatPage \in Page /\ opening \in Opening /\ switching \in Switching /\ deleting \in Deletion
        /\ moves \in 0..MaxMoves /\ chatTroubles \in 0..MaxChatTroubles
      BY ChatTypes DEF ChatInv
  <2> QED
      BY <2>1, <2>2, <2>3, ComposerKeeps
<1>2. CASE \E q \in Questions : \/ Ask(q) \/ RefuseQuestion(q) \/ AnswerArrives(q) \/ QuestionFails(q)
                                \/ StreamCancelled(q) \/ \E c \in Chats : SaveTurn(q, c)
    BY <1>2, AskKeeps, QuestionRefusedKeeps, AnswerArrivesKeeps, QuestionFailsKeeps, SaveTurnKeeps
<1>3. CASE RefreshChatScopes \/ \E s \in Scopes : HandleScopeChange(s)
    BY <1>3, RefreshChatScopesKeeps, HandleScopeChangeKeeps
<1>4. CASE \E m \in ComposerModels : ApplySelectorSettings(m) \/ SelectModel(m)
    BY <1>4, ApplySelectorSettingsKeeps, SelectModelKeeps
<1>5. CASE CommitSelection \/ RestoreProjectedSelection \/ StartNewChat
    BY <1>5, CommitSelectionKeeps, RestoreProjectedSelectionKeeps, StartNewChatKeeps
<1>6. CASE \E c \in Chats : RestoreSession(c) \/ DeleteSession(c)
    BY <1>6, RestoreSessionKeeps, DeleteSessionKeeps
<1>7. CASE GetChatSession \/ ApplyRestoredSession \/ DeleteExecuted \/ CommitDelete
    BY <1>7, GetChatSessionKeeps, ApplyRestoredSessionKeeps, DeleteExecutedKeeps, CommitDeleteKeeps
<1> QED
    BY <1>1, <1>2, <1>3, <1>4, <1>5, <1>6, <1>7 DEF ChatNext

-----------------------------------------------------------------------------
(* The conversation: theorems. *)

\* The invariant of the conversation holds initially, and every step keeps it.
THEOREM ChatInductive == ChatSpec => []ChatInv
<1>1. ChatInit => ChatInv
    BY ChatStarts
<1>2. ChatInv /\ [ChatNext]_chatVars => ChatInv'
    BY ChatSteps
<1> QED
    BY <1>1, <1>2, PTL DEF ChatSpec

LEMMA ConversationsStored == ChatInv => ConversationsAreStored
<1> USE ChatTypes DEF ChatInv
<1>1. ChatInv => TurnsShareTheContext
  <2>1. ASSUME ChatInv, NEW c \in Chats, NEW q \in chat[c].turns
        PROVE  question[q].context = chat[c].context
    <3>1. q \in Questions /\ StoredAt(q, c)
        BY <2>1 DEF TurnsAreStored, StoredChat
    <3> QED
        BY <2>1, <3>1 DEF StoredAt, QuestionsAreStored
  <2> QED
      BY <2>1 DEF TurnsShareTheContext
<1>2. ChatInv => HistoryIsOfTheChat
  <2>1. ASSUME ChatInv, NEW q \in Questions, question[q].backend = "stored", ~question[q].mixed,
               NEW p \in question[q].history, question[p].backend = "stored", question[p].mark # "failed"
        PROVE  question[p].at = question[q].at
    <3>1. p \in Questions
        BY <2>1 DEF ChatQuestion
    <3>2. question[q].chat \in {NoChat, question[q].at} /\ question[p].chat \in {NoChat, question[p].at}
        BY <2>1, <3>1 DEF QuestionsAreStored
    <3>3. Of(p, question[q].chat)
        BY <2>1 DEF HistoriesFit
    <3> QED
        BY <2>1, <3>2, <3>3 DEF Of, StoredAt
  <2> QED
      BY <2>1 DEF HistoryIsOfTheChat
<1>3. ChatInv => PersistedIsStored
  <2>1. ASSUME ChatInv, NEW q \in Questions, question[q].mark = "persisted"
        PROVE  LET c == question[q].at IN
               /\ c # NoChat
               /\ ChatExists(c) => q \in chat[c].turns
               /\ \A d \in Chats \ {c} : q \notin chat[d].turns
      BY <2>1, ChatAssumption DEF QuestionsAreStored, TurnsAreStored, StoredAt, ChatExists
  <2> QED
      BY <2>1 DEF PersistedIsStored
<1> QED
    BY <1>1, <1>2, <1>3 DEF ConversationsAreStored

\* For any number of questions and chats, however opened, new, switched and deleted chats and
\* late answers interleave: the turns of a chat share its context, the history that went with a
\* stored question is of its chat, and a persisted question is in its chat and in no other.
THEOREM ConversationsStayStored == ChatSpec => []ConversationsAreStored
BY ConversationsStored, ChatInductive, PTL

-----------------------------------------------------------------------------
(* The list of the chats: the inductive invariant. *)

ListRead == [pc : {"free", "sent", "read"}, kept : BOOLEAN, shown : BOOLEAN, got : List]
ListMutation == [pc : {"free", "rename", "delete", "renamed", "deleted", "failed"},
                 chat : RecentChats \cup {Absent}, title : Titles \cup {Absent}, before : List]
ListTally == [acts : 0..MaxListActs, troubles : 0..MaxListTroubles]

\* One read at most is kept by the cache, and it is the one that reaches the list.
OneReadIsKept(r) ==
    /\ \A x \in ListReads : /\ r[x].kept = r[x].shown
                            /\ r[x].kept => r[x].pc # "free"
    /\ \A x, y \in ListReads : r[x].kept /\ r[y].kept => x = y

MutationsFit ==
    \A x \in ListMutations :
      /\ mutation[x].pc \in {"free", "delete", "deleted"} => mutation[x].title = Absent
      /\ mutation[x].pc \in {"rename", "renamed"} => mutation[x].title # Absent
      /\ mutation[x].pc \in {"rename", "delete", "renamed", "deleted"} => mutation[x].chat \in RecentChats

BeingDeleted(c) == \E x \in ListMutations : mutation[x].pc = "deleted" /\ mutation[x].chat = c

\* While no rename is pending, the list, or the read that it waits for, has what the backend
\* has, but for new chats and deletions that the page has not heard of.
ListFollows ==
    ~missed /\ (\A x \in ListMutations : mutation[x].title = Absent) =>
        \A c \in RecentChats :
          \/ c \in answersSaved \/ BeingDeleted(c)
          \/ /\ \A x \in ListReads : read[x].kept /\ read[x].pc = "read" => read[x].got[c] = stored[c]
             /\ (\A x \in ListReads : ~read[x].kept) => summaries[c] = stored[c]

\* Neither the list nor a read that it waits for has a chat whose deletion has been confirmed.
GoneStayGone ==
    /\ \A c \in gone : stored[c] = Absent
    /\ ~missed => \A c \in gone :
         \/ BeingDeleted(c)
         \/ /\ summaries[c] = Absent
            /\ \A x \in ListReads : read[x].kept /\ read[x].pc = "read" => read[x].got[c] = Absent

HistoryInv ==
    /\ HistoryTypeOK /\ OneReadIsKept(read) /\ MutationsFit
    /\ summaries = listEntry.value
    /\ ListFollows /\ GoneStayGone

-----------------------------------------------------------------------------
(* The list of the chats: its data. *)

LEMMA HistoryTypes ==
  ASSUME HistoryTypeOK
  PROVE  /\ stored \in List /\ summaries \in List
         /\ listEntry \in [has : BOOLEAN, value : List]
         /\ read \in [ListReads -> ListRead] /\ mutation \in [ListMutations -> ListMutation]
         /\ answersSaved \subseteq RecentChats /\ gone \subseteq RecentChats /\ missed \in BOOLEAN
         /\ listTally \in ListTally
BY DEF HistoryTypeOK, ListRead, ListMutation, ListTally

LEMMA HistoryTypesAgain ==
  ASSUME stored' \in List, summaries' \in List, listEntry' \in [has : BOOLEAN, value : List],
         read' \in [ListReads -> ListRead], mutation' \in [ListMutations -> ListMutation],
         answersSaved' \subseteq RecentChats, gone' \subseteq RecentChats, missed' \in BOOLEAN,
         listTally' \in ListTally
  PROVE  HistoryTypeOK'
BY DEF HistoryTypeOK, ListRead, ListMutation, ListTally

LEMMA CountsListActs ==
  ASSUME listTally \in ListTally
  PROVE  (Act => listTally' \in ListTally) /\ (ListTrouble => listTally' \in ListTally)
<1>1. ASSUME Act PROVE listTally' \in ListTally
  <2>1. listTally.acts \in 0..MaxListActs /\ listTally.acts < MaxListActs
      BY <1>1 DEF Act, ListTally
  <2>2. listTally.acts + 1 \in 0..MaxListActs
      BY <2>1, HistoryAssumption
  <2> QED
      BY <1>1, <2>2 DEF Act, ListTally
<1>2. ASSUME ListTrouble PROVE listTally' \in ListTally
  <2>1. listTally.troubles \in 0..MaxListTroubles /\ listTally.troubles < MaxListTroubles
      BY <1>2 DEF ListTrouble, ListTally
  <2>2. listTally.troubles + 1 \in 0..MaxListTroubles
      BY <2>1, HistoryAssumption
  <2> QED
      BY <1>2, <2>2 DEF ListTrouble, ListTally
<1> QED
    BY <1>1, <1>2

LEMMA ListNothings ==
  /\ Empty \in List /\ \A c \in RecentChats : Empty[c] = Absent
  /\ FreeRead \in ListRead /\ FreeRead.pc = "free" /\ ~FreeRead.kept /\ ~FreeRead.shown
  /\ FreeMutation \in ListMutation /\ FreeMutation.pc = "free" /\ FreeMutation.title = Absent
<1>1. Empty \in List /\ \A c \in RecentChats : Empty[c] = Absent
    BY DEF Empty, List
<1> QED
    BY <1>1 DEF FreeRead, ListRead, FreeMutation, ListMutation

LEMMA RevisedReads ==
  ASSUME NEW r \in [ListReads -> ListRead]
  PROVE  /\ Revised(r) \in [ListReads -> ListRead]
         /\ \A x \in ListReads : Revised(r)[x].pc = r[x].pc /\ ~Revised(r)[x].kept
<1>1. ASSUME NEW x \in ListReads
      PROVE  /\ [r[x] EXCEPT !.kept = FALSE] \in ListRead
             /\ [r[x] EXCEPT !.kept = FALSE].pc = r[x].pc /\ ~[r[x] EXCEPT !.kept = FALSE].kept
    BY DEF ListRead
<1> QED
    BY <1>1 DEF Revised

LEMMA ReadsWithoutList ==
  ASSUME NEW r \in [ListReads -> ListRead]
  PROVE  /\ SupersededReads(r) \in [ListReads -> ListRead]
         /\ \A x \in ListReads : /\ SupersededReads(r)[x].pc = r[x].pc
                                 /\ SupersededReads(r)[x].kept = r[x].kept
                                 /\ SupersededReads(r)[x].got = r[x].got
                                 /\ ~SupersededReads(r)[x].shown
<1>1. ASSUME NEW x \in ListReads
      PROVE  /\ [r[x] EXCEPT !.shown = FALSE] \in ListRead
             /\ [r[x] EXCEPT !.shown = FALSE].pc = r[x].pc
             /\ [r[x] EXCEPT !.shown = FALSE].kept = r[x].kept
             /\ [r[x] EXCEPT !.shown = FALSE].got = r[x].got
             /\ ~[r[x] EXCEPT !.shown = FALSE].shown
    BY DEF ListRead
<1> QED
    BY <1>1 DEF SupersededReads

\* A rename makes every read under way useless.
LEMMA RevisedAndSuperseded ==
  ASSUME read \in [ListReads -> ListRead], read' = SupersededReads(Revised(read))
  PROVE  /\ read' \in [ListReads -> ListRead] /\ OneReadIsKept(read')
         /\ \A x \in ListReads : ~read'[x].kept
<1>1. Revised(read) \in [ListReads -> ListRead] /\ \A x \in ListReads : ~Revised(read)[x].kept
    BY RevisedReads
<1>2. /\ read' \in [ListReads -> ListRead]
      /\ \A x \in ListReads : ~read'[x].kept /\ ~read'[x].shown
    BY <1>1, ReadsWithoutList
<1>3. \A x \in ListReads : read'[x].kept = read'[x].shown
    BY <1>2 DEF ListRead
<1> QED
    BY <1>2, <1>3 DEF OneReadIsKept

\* The newest read of the list is the one that is kept, and it starts anew if none was.
LEMMA LoadedLatest ==
  ASSUME NEW r \in [ListReads -> ListRead], LoadLatest(r),
         \A x \in ListReads : r[x].kept => r[x].pc # "free",
         \A x, y \in ListReads : r[x].kept /\ r[y].kept => x = y
  PROVE  /\ read' \in [ListReads -> ListRead] /\ OneReadIsKept(read')
         /\ \E x \in ListReads : read'[x].kept
         /\ (\A x \in ListReads : ~r[x].kept) =>
              \A x \in ListReads : read'[x].kept => read'[x].pc = "sent"
<1>1. PICK x \in ListReads :
        /\ IF \E y \in ListReads : r[y].kept THEN r[x].kept ELSE r[x].pc = "free"
        /\ read' = [SupersededReads(r) EXCEPT ![x].pc = IF @ = "free" THEN "sent" ELSE @,
                                              ![x].kept = TRUE, ![x].shown = TRUE]
    BY DEF LoadLatest
<1> DEFINE s == SupersededReads(r)
           p == IF r[x].pc = "free" THEN "sent" ELSE r[x].pc
           n == [s[x] EXCEPT !.pc = p, !.kept = TRUE, !.shown = TRUE]
<1>2. /\ s \in [ListReads -> ListRead]
      /\ \A y \in ListReads : s[y].pc = r[y].pc /\ s[y].kept = r[y].kept /\ ~s[y].shown
    BY ReadsWithoutList
<1>3. s[x] \in ListRead /\ r[x] \in ListRead /\ p \in {"sent", "read"}
    BY <1>2 DEF ListRead
<1>4. n \in ListRead /\ n.pc = p /\ n.kept /\ n.shown
  <2> HIDE DEF p, s
  <2> QED
      BY <1>3 DEF ListRead
<1>5. read' = [s EXCEPT ![x] = n]
  <2>1. s[x].pc = r[x].pc
      BY <1>2
  <2> QED
      BY <1>1, <1>2, <2>1
<1> HIDE DEF n, s
<1>6. /\ read' \in [ListReads -> ListRead] /\ read'[x] = n
      /\ \A y \in ListReads \ {x} : read'[y] = s[y]
    BY <1>2, <1>4, <1>5
<1>7. \A y \in ListReads \ {x} : ~r[y].kept
    BY <1>1
<1>8. \A y \in ListReads \ {x} : ~read'[y].kept /\ ~read'[y].shown
    BY <1>2, <1>6, <1>7
<1>9. read'[x].kept /\ read'[x].shown /\ read'[x].pc = p
    BY <1>4, <1>6
<1>10. OneReadIsKept(read')
  <2>1. \A y \in ListReads : read'[y].kept \in BOOLEAN /\ read'[y].shown \in BOOLEAN
      BY <1>6 DEF ListRead
  <2>2. \A y \in ListReads : read'[y].kept = read'[y].shown
      BY <1>8, <1>9, <2>1
  <2>3. \A y \in ListReads : read'[y].kept => read'[y].pc # "free"
      BY <1>3, <1>8, <1>9
  <2>4. \A y, z \in ListReads : read'[y].kept /\ read'[z].kept => y = z
      BY <1>8
  <2> QED
      BY <2>2, <2>3, <2>4 DEF OneReadIsKept
<1>11. (\A y \in ListReads : ~r[y].kept) => p = "sent"
    BY <1>1
<1> HIDE DEF p
<1> QED
    BY <1>6, <1>8, <1>9, <1>10, <1>11

-----------------------------------------------------------------------------
(* The list of the chats: every action keeps the invariant. *)

LEMMA HistoryStarts ==
  ASSUME HistoryInit PROVE HistoryInv
<1>1. PICK first \in ListReads :
        read = [x \in ListReads |->
                  IF x = first THEN [FreeRead EXCEPT !.pc = "sent", !.kept = TRUE, !.shown = TRUE] ELSE FreeRead]
    BY DEF HistoryInit
<1> DEFINE n == [FreeRead EXCEPT !.pc = "sent", !.kept = TRUE, !.shown = TRUE]
<1>2. n \in ListRead /\ n.pc = "sent" /\ n.kept /\ n.shown
    BY ListNothings DEF FreeRead, ListRead
<1>3. read = [x \in ListReads |-> IF x = first THEN n ELSE FreeRead]
    BY <1>1
<1> HIDE DEF n
<1>4. read \in [ListReads -> ListRead] /\ OneReadIsKept(read)
    BY <1>2, <1>3, ListNothings DEF OneReadIsKept, ListRead
<1>5. listTally \in ListTally
    BY HistoryAssumption DEF HistoryInit, ListTally
<1>6. mutation \in [ListMutations -> ListMutation] /\ \A x \in ListMutations : mutation[x] = FreeMutation
    BY ListNothings DEF HistoryInit
<1>7. HistoryTypeOK
    BY <1>4, <1>5, <1>6, ListNothings DEF HistoryInit, HistoryTypeOK, ListRead, ListMutation, ListTally
<1>8. MutationsFit
    BY <1>6, ListNothings DEF MutationsFit
<1>9. summaries = listEntry.value /\ ListFollows /\ GoneStayGone
    BY DEF HistoryInit, ListFollows, GoneStayGone
<1> QED
    BY <1>4, <1>7, <1>8, <1>9 DEF HistoryInv

LEMMA ServerReadsKeeps ==
  ASSUME HistoryInv, NEW x \in ListReads, ServerReads(x) PROVE HistoryInv'
<1> USE HistoryTypes DEF HistoryInv
<1> DEFINE n == [read[x] EXCEPT !.pc = "read", !.got = stored]
<1>1. read[x] \in ListRead /\ stored \in List
    OBVIOUS
<1>2. n \in ListRead /\ n.pc = "read" /\ n.got = stored /\ n.kept = read[x].kept /\ n.shown = read[x].shown
    BY ONLY <1>1 DEF ListRead
<1>3. read' = [read EXCEPT ![x] = n]
    BY DEF ServerReads
<1> HIDE DEF n
<1>4. /\ read' \in [ListReads -> ListRead] /\ read'[x] = n
      /\ \A y \in ListReads \ {x} : read'[y] = read[y]
    BY <1>2, <1>3
<1>5. UNCHANGED <<stored, summaries, listEntry, mutation, answersSaved, listTally, gone, missed>>
    BY DEF ServerReads
<1>6. HistoryTypeOK'
    BY <1>4, <1>5, HistoryTypesAgain
<1>7. OneReadIsKept(read')
    BY <1>2, <1>4 DEF OneReadIsKept
<1>8. MutationsFit'
    BY <1>5 DEF MutationsFit
<1>9. \A y \in ListReads : /\ read'[y].kept = read[y].kept
                           /\ \/ read'[y] = read[y]
                              \/ read'[y].got = stored
    BY <1>2, <1>4
<1>10. ListFollows'
    BY <1>5, <1>9 DEF ListFollows, BeingDeleted
<1>11. GoneStayGone'
    BY <1>5, <1>9 DEF GoneStayGone, BeingDeleted
<1> QED
    BY <1>5, <1>6, <1>7, <1>8, <1>10, <1>11

\* A request that ends, answered or not.
LEMMA FreedRead ==
  ASSUME read \in [ListReads -> ListRead], OneReadIsKept(read), NEW x \in ListReads,
         read' = [read EXCEPT ![x] = FreeRead]
  PROVE  /\ read' \in [ListReads -> ListRead] /\ OneReadIsKept(read')
         /\ ~read'[x].kept /\ \A y \in ListReads \ {x} : read'[y] = read[y]
BY ListNothings DEF OneReadIsKept, ListRead

LEMMA ReadAnsweredKeeps ==
  ASSUME HistoryInv, NEW x \in ListReads, ReadAnswered(x) PROVE HistoryInv'
<1> USE HistoryTypes DEF HistoryInv
<1>1. /\ read' \in [ListReads -> ListRead] /\ OneReadIsKept(read')
      /\ ~read'[x].kept /\ \A y \in ListReads \ {x} : read'[y] = read[y]
    BY FreedRead DEF ReadAnswered
<1>2. read[x].got \in List /\ read[x].kept \in BOOLEAN /\ read[x].shown = read[x].kept /\ read[x].pc = "read"
    BY DEF ReadAnswered, ListRead, OneReadIsKept
<1>3. UNCHANGED <<stored, mutation, answersSaved, listTally, gone>>
    BY DEF ReadAnswered
<1>4. missed' \in BOOLEAN /\ (~missed' => ~missed \/ (read[x].kept /\ read[x].got = stored))
    BY <1>2 DEF ReadAnswered
<1>5. MutationsFit'
    BY <1>3 DEF MutationsFit
<1>6. (\A c \in gone : stored[c] = Absent)'
    BY <1>3 DEF GoneStayGone
<1>7. CASE read[x].kept
  <2>1. /\ summaries' = read[x].got /\ listEntry' \in [has : BOOLEAN, value : List]
        /\ listEntry'.value = read[x].got
      BY <1>2, <1>7 DEF ReadAnswered
  <2>2. \A y \in ListReads : ~read'[y].kept
      BY <1>1, <1>7 DEF OneReadIsKept
  <2>3. HistoryTypeOK'
      BY <1>1, <1>2, <1>3, <1>4, <2>1, HistoryTypesAgain
  <2>4. ListFollows'
      BY <1>2, <1>3, <1>4, <1>7, <2>1, <2>2 DEF ListFollows, BeingDeleted
  <2>5. GoneStayGone'
      BY <1>2, <1>3, <1>4, <1>6, <1>7, <2>1, <2>2 DEF GoneStayGone, BeingDeleted
  <2> QED
      BY <1>1, <1>5, <2>1, <2>3, <2>4, <2>5
<1>8. CASE ~read[x].kept
  <2>1. UNCHANGED <<summaries, listEntry>>
      BY <1>2, <1>8 DEF ReadAnswered
  <2>2. \A y \in ListReads : read'[y].kept => read'[y] = read[y]
      BY <1>1
  <2>3. (\A y \in ListReads : ~read'[y].kept) => \A y \in ListReads : ~read[y].kept
      BY <1>1, <1>8
  <2>4. ~missed' => ~missed
      BY <1>4, <1>8
  <2>5. HistoryTypeOK'
      BY <1>1, <1>3, <1>4, <2>1, HistoryTypesAgain
  <2>6. ListFollows'
      BY <1>3, <2>1, <2>2, <2>3, <2>4 DEF ListFollows, BeingDeleted
  <2>7. GoneStayGone'
      BY <1>3, <1>6, <2>1, <2>2, <2>4 DEF GoneStayGone, BeingDeleted
  <2> QED
      BY <1>1, <1>5, <2>1, <2>5, <2>6, <2>7
<1> QED
    BY <1>2, <1>7, <1>8

LEMMA ListReadFailsKeeps ==
  ASSUME HistoryInv, NEW x \in ListReads, ListReadFails(x) PROVE HistoryInv'
<1> USE HistoryTypes DEF HistoryInv
<1>1. read' \in [ListReads -> ListRead] /\ OneReadIsKept(read')
    BY FreedRead DEF ListReadFails
<1>2. UNCHANGED <<stored, summaries, listEntry, mutation, answersSaved, gone>> /\ missed' = TRUE
    BY DEF ListReadFails
<1>3. HistoryTypeOK'
    BY <1>1, <1>2, CountsListActs, HistoryTypesAgain DEF ListReadFails
<1>4. MutationsFit' /\ ListFollows' /\ GoneStayGone'
    BY <1>2 DEF MutationsFit, ListFollows, GoneStayGone
<1> QED
    BY <1>1, <1>2, <1>3, <1>4

LEMMA AnswerSavedKeeps ==
  ASSUME HistoryInv, NEW c \in RecentChats, NEW t \in Titles, AnswerSaved(c, t) PROVE HistoryInv'
<1> USE HistoryTypes DEF HistoryInv, AnswerSaved
<1>1. stored' \in List /\ \A d \in RecentChats \ {c} : stored'[d] = stored[d]
    BY DEF List
<1>2. HistoryTypeOK'
    BY <1>1, CountsListActs, HistoryTypesAgain
<1>3. MutationsFit'
    BY DEF MutationsFit
<1>4. ListFollows'
    BY <1>1 DEF ListFollows, BeingDeleted
<1>5. GoneStayGone'
    BY <1>1 DEF GoneStayGone, BeingDeleted
<1> QED
    BY <1>2, <1>3, <1>4, <1>5

\* A list that is read anew has what the backend will have then.
LEMMA ReadAnew ==
  ASSUME read' \in [ListReads -> ListRead],
         \E x \in ListReads : read'[x].kept,
         \A x \in ListReads : read'[x].kept => read'[x].pc = "sent",
         \A c \in gone' : stored'[c] = Absent,
         ~missed' => \A c \in gone' : BeingDeleted(c)' \/ summaries'[c] = Absent
  PROVE  ListFollows' /\ GoneStayGone'
BY DEF ListFollows, GoneStayGone

LEMMA ResponseSavedKeeps ==
  ASSUME HistoryInv, NEW c \in RecentChats, ResponseSaved(c) PROVE HistoryInv'
<1> USE HistoryTypes DEF HistoryInv
<1>1. /\ Revised(read) \in [ListReads -> ListRead]
      /\ \A x \in ListReads : ~Revised(read)[x].kept
    BY RevisedReads
<1>2. LoadLatest(Revised(read)) /\ summaries' = IF listEntry.has THEN listEntry.value ELSE summaries
    BY DEF ResponseSaved, RefreshList
<1>3. /\ read' \in [ListReads -> ListRead] /\ OneReadIsKept(read')
      /\ \E x \in ListReads : read'[x].kept
      /\ \A x \in ListReads : read'[x].kept => read'[x].pc = "sent"
    BY <1>1, <1>2, LoadedLatest
<1>4. /\ UNCHANGED <<stored, listEntry, mutation, listTally, gone, missed>>
      /\ answersSaved' \subseteq RecentChats
    BY DEF ResponseSaved
<1>5. summaries' = summaries
    BY <1>2
<1>6. HistoryTypeOK'
    BY <1>3, <1>4, <1>5, HistoryTypesAgain
<1>7. MutationsFit'
    BY <1>4 DEF MutationsFit
<1>8. ListFollows' /\ GoneStayGone'
  <2>1. \A d \in gone' : stored'[d] = Absent
      BY <1>4 DEF GoneStayGone
  <2>2. ~missed' => \A d \in gone' : BeingDeleted(d)' \/ summaries'[d] = Absent
      BY <1>4, <1>5 DEF GoneStayGone, BeingDeleted
  <2> QED
      BY <1>3, <2>1, <2>2, ReadAnew
<1> QED
    BY <1>3, <1>4, <1>5, <1>6, <1>7, <1>8

\* A mutation that begins, goes on or ends leaves the other ones alone.
LEMMA ChangedMutation ==
  ASSUME mutation \in [ListMutations -> ListMutation], MutationsFit,
         NEW x \in ListMutations, NEW n \in ListMutation, mutation' = [mutation EXCEPT ![x] = n],
         n.pc \in {"free", "delete", "deleted"} => n.title = Absent,
         n.pc \in {"rename", "renamed"} => n.title # Absent,
         n.pc \in {"rename", "delete", "renamed", "deleted"} => n.chat \in RecentChats
  PROVE  /\ mutation' \in [ListMutations -> ListMutation] /\ MutationsFit'
         /\ mutation'[x] = n /\ \A y \in ListMutations \ {x} : mutation'[y] = mutation[y]
         /\ \A c : BeingDeleted(c) /\ ~(mutation[x].pc = "deleted" /\ mutation[x].chat = c) => BeingDeleted(c)'
<1>1. /\ mutation' \in [ListMutations -> ListMutation]
      /\ mutation'[x] = n /\ \A y \in ListMutations \ {x} : mutation'[y] = mutation[y]
    OBVIOUS
<1>2. MutationsFit'
    BY <1>1 DEF MutationsFit
<1>3. \A c : BeingDeleted(c) /\ ~(mutation[x].pc = "deleted" /\ mutation[x].chat = c) => BeingDeleted(c)'
    BY <1>1 DEF BeingDeleted
<1> QED
    BY <1>1, <1>2, <1>3

LEMMA StoredSummaries ==
  ASSUME NEW list \in List, StoreSummaries(list)
  PROVE  /\ summaries' = list /\ summaries' \in List
         /\ listEntry' \in [has : BOOLEAN, value : List] /\ summaries' = listEntry'.value
BY DEF StoreSummaries

LEMMA RenameSessionKeeps ==
  ASSUME HistoryInv, NEW x \in ListMutations, NEW c \in RecentChats, NEW t \in Titles,
         RenameSession(x, c, t)
  PROVE  HistoryInv'
<1> USE HistoryTypes DEF HistoryInv
<1> DEFINE n == [pc |-> "rename", chat |-> c, title |-> t, before |-> summaries]
           list == [summaries EXCEPT ![c] = t]
<1>1. n \in ListMutation /\ n.pc = "rename" /\ n.title = t /\ n.chat = c /\ t # Absent
    BY HistoryAssumption DEF ListMutation
<1>2. mutation[x].pc = "free" /\ mutation' = [mutation EXCEPT ![x] = n] /\ summaries[c] # Absent
    BY DEF RenameSession
<1> HIDE DEF n
<1>3. /\ mutation' \in [ListMutations -> ListMutation] /\ MutationsFit' /\ mutation'[x] = n
      /\ \A d : BeingDeleted(d) => BeingDeleted(d)'
    BY <1>1, <1>2, ChangedMutation
<1>4. list \in List /\ \A d \in RecentChats \ {c} : list[d] = summaries[d]
    BY DEF List
<1>5. /\ summaries' = list /\ summaries' \in List
      /\ listEntry' \in [has : BOOLEAN, value : List] /\ summaries' = listEntry'.value
    BY <1>4, StoredSummaries DEF RenameSession
<1>6. /\ read' \in [ListReads -> ListRead] /\ OneReadIsKept(read')
      /\ \A y \in ListReads : ~read'[y].kept
    BY RevisedAndSuperseded DEF RenameSession
<1>7. UNCHANGED <<stored, answersSaved, gone, missed>> /\ listTally' \in ListTally
    BY CountsListActs DEF RenameSession
<1> HIDE DEF list
<1>8. HistoryTypeOK'
    BY <1>3, <1>5, <1>6, <1>7, HistoryTypesAgain
<1>9. ListFollows'
    BY <1>1, <1>3 DEF ListFollows
<1>10. GoneStayGone'
    BY <1>2, <1>3, <1>4, <1>5, <1>6, <1>7 DEF GoneStayGone
<1> QED
    BY <1>3, <1>5, <1>6, <1>8, <1>9, <1>10

LEMMA DeleteListedSessionKeeps ==
  ASSUME HistoryInv, NEW x \in ListMutations, NEW c \in RecentChats, DeleteListedSession(x, c)
  PROVE  HistoryInv'
<1> USE HistoryTypes DEF HistoryInv
<1> DEFINE n == [FreeMutation EXCEPT !.pc = "delete", !.chat = c]
<1>1. n \in ListMutation /\ n.pc = "delete" /\ n.title = Absent /\ n.chat = c
    BY ListNothings DEF FreeMutation, ListMutation
<1>2. mutation[x].pc = "free" /\ mutation' = [mutation EXCEPT ![x] = n]
    BY DEF DeleteListedSession
<1> HIDE DEF n
<1>3. /\ mutation' \in [ListMutations -> ListMutation] /\ MutationsFit' /\ mutation'[x] = n
      /\ \A y \in ListMutations \ {x} : mutation'[y] = mutation[y]
      /\ \A d : BeingDeleted(d) => BeingDeleted(d)'
    BY <1>1, <1>2, ChangedMutation
<1>4. UNCHANGED <<stored, summaries, listEntry, read, answersSaved, gone, missed>> /\ listTally' \in ListTally
    BY CountsListActs DEF DeleteListedSession
<1>5. HistoryTypeOK'
    BY <1>3, <1>4, HistoryTypesAgain
<1>6. mutation[x].title = Absent
    BY <1>2 DEF MutationsFit
<1>7. ListFollows'
    BY <1>3, <1>4, <1>6 DEF ListFollows
<1>8. GoneStayGone'
    BY <1>3, <1>4 DEF GoneStayGone
<1> QED
    BY <1>3, <1>4, <1>5, <1>7, <1>8 DEF OneReadIsKept

LEMMA ExecuteMutationKeeps ==
  ASSUME HistoryInv, NEW x \in ListMutations, ExecuteMutation(x) PROVE HistoryInv'
<1> USE HistoryTypes DEF HistoryInv
<1> DEFINE c == mutation[x].chat
           t == mutation[x].title
<1>1. /\ mutation[x] \in ListMutation /\ mutation[x].pc \in {"rename", "delete"} /\ c \in RecentChats
      /\ t \in Titles \cup {Absent} /\ (mutation[x].pc = "delete" => t = Absent)
      /\ (mutation[x].pc = "rename" => t # Absent)
    BY DEF ExecuteMutation, MutationsFit, ListMutation
<1>2. UNCHANGED <<summaries, listEntry, read, answersSaved, listTally, missed>>
    BY DEF ExecuteMutation
<1>3. CASE stored[c] = Absent /\ mutation' = [mutation EXCEPT ![x].pc = "failed"] /\ UNCHANGED <<stored, gone>>
  <2> DEFINE n == [mutation[x] EXCEPT !.pc = "failed"]
  <2>1. n \in ListMutation /\ n.pc = "failed" /\ n.title = t
      BY <1>1 DEF ListMutation
  <2>2. mutation' = [mutation EXCEPT ![x] = n]
      BY <1>3
  <2> HIDE DEF n
  <2>3. /\ mutation' \in [ListMutations -> ListMutation] /\ MutationsFit' /\ mutation'[x] = n
        /\ \A y \in ListMutations \ {x} : mutation'[y] = mutation[y]
        /\ \A d : BeingDeleted(d) => BeingDeleted(d)'
      BY <1>1, <2>1, <2>2, ChangedMutation
  <2>4. HistoryTypeOK'
      BY <1>2, <1>3, <2>3, HistoryTypesAgain
  <2>5. ListFollows'
      BY <1>2, <1>3, <2>1, <2>3 DEF ListFollows
  <2>6. GoneStayGone'
      BY <1>2, <1>3, <2>3 DEF GoneStayGone
  <2> QED
      BY <1>2, <2>3, <2>4, <2>5, <2>6 DEF OneReadIsKept
<1>4. CASE /\ stored[c] # Absent
           /\ mutation' = [mutation EXCEPT ![x].pc = IF @ = "rename" THEN "renamed" ELSE "deleted"]
           /\ stored' = [stored EXCEPT ![c] = t]
           /\ gone' = IF mutation[x].pc = "delete" THEN gone \cup {c} ELSE gone
  <2> DEFINE p == IF mutation[x].pc = "rename" THEN "renamed" ELSE "deleted"
             n == [mutation[x] EXCEPT !.pc = p]
  <2>1. /\ n \in ListMutation /\ n.pc = p /\ n.title = t /\ n.chat = c
        /\ (mutation[x].pc = "rename" => p = "renamed") /\ (mutation[x].pc = "delete" => p = "deleted")
      BY <1>1 DEF ListMutation
  <2>2. mutation' = [mutation EXCEPT ![x] = n]
      BY <1>4
  <2> HIDE DEF n, p
  <2>3. /\ mutation' \in [ListMutations -> ListMutation] /\ MutationsFit' /\ mutation'[x] = n
        /\ \A y \in ListMutations \ {x} : mutation'[y] = mutation[y]
        /\ \A d : BeingDeleted(d) => BeingDeleted(d)'
      BY <1>1, <2>1, <2>2, ChangedMutation
  <2>4. stored' \in List /\ stored'[c] = t /\ \A d \in RecentChats \ {c} : stored'[d] = stored[d]
      BY <1>1, <1>4 DEF List
  <2>5. gone' \subseteq RecentChats
      BY <1>1, <1>4
  <2>6. HistoryTypeOK'
      BY <1>2, <2>3, <2>4, <2>5, HistoryTypesAgain
  <2>8. CASE mutation[x].pc = "delete"
    <3>1. ListFollows'
      <4> SUFFICES ASSUME ~missed', \A y \in ListMutations : mutation'[y].title = Absent, NEW d \in RecentChats,
                          d \notin answersSaved', ~BeingDeleted(d)'
                   PROVE  /\ \A y \in ListReads : read'[y].kept /\ read'[y].pc = "read" => read'[y].got[d] = stored'[d]
                          /\ (\A y \in ListReads : ~read'[y].kept) => summaries'[d] = stored'[d]
          BY DEF ListFollows
      <4>1. d # c
        <5>1. ASSUME d = c PROVE FALSE
          <6>1. mutation'[x].pc = "deleted" /\ mutation'[x].chat = d
              BY <2>1, <2>3, <2>8, <5>1
          <6> QED
              BY <6>1 DEF BeingDeleted
        <5> QED
            BY <5>1
      <4>2. stored'[d] = stored[d] /\ ~BeingDeleted(d) /\ ~missed /\ d \notin answersSaved
          BY <1>2, <2>3, <2>4, <4>1
      <4>3. \A y \in ListMutations : mutation[y].title = Absent
          BY <1>1, <2>3, <2>8
      <4> QED
          BY <1>2, <4>2, <4>3 DEF ListFollows
    <3>2. GoneStayGone'
      <4>1. \A d \in gone' : stored'[d] = Absent
          BY <1>1, <1>4, <2>4, <2>8 DEF GoneStayGone
      <4>2. ASSUME ~missed, NEW d \in gone, d # c
            PROVE  \/ BeingDeleted(d)'
                   \/ /\ summaries'[d] = Absent
                      /\ \A y \in ListReads : read'[y].kept /\ read'[y].pc = "read" => read'[y].got[d] = Absent
          BY <1>2, <2>3, <4>2 DEF GoneStayGone
      <4>3. ASSUME NEW d, d = c PROVE BeingDeleted(d)'
        <5>1. mutation'[x].pc = "deleted" /\ mutation'[x].chat = d
            BY <2>1, <2>3, <2>8, <4>3
        <5> QED
            BY <5>1 DEF BeingDeleted
      <4>4. gone' = gone \cup {c}
          BY <1>4, <2>8
      <4> HIDE DEF c
      <4> QED
          BY <1>2, <4>1, <4>2, <4>3, <4>4 DEF GoneStayGone
    <3> QED
        BY <1>2, <2>3, <2>6, <3>1, <3>2 DEF OneReadIsKept
  <2>9. CASE mutation[x].pc = "rename"
    <3>1. ListFollows'
      <4>1. mutation'[x].title # Absent
          BY <1>1, <2>1, <2>3, <2>9
      <4> QED
          BY <4>1 DEF ListFollows
    <3>2. GoneStayGone'
      <4>1. gone' = gone /\ c \notin gone
          BY <1>4, <2>9 DEF GoneStayGone
      <4>2. \A d \in gone : stored'[d] = Absent
          BY <2>4, <4>1 DEF GoneStayGone
      <4> QED
          BY <1>2, <2>3, <4>1, <4>2 DEF GoneStayGone
    <3> QED
        BY <1>2, <2>3, <2>6, <3>1, <3>2 DEF OneReadIsKept
  <2> QED
      BY <1>1, <2>8, <2>9
<1> QED
    BY <1>3, <1>4 DEF ExecuteMutation, MutatedChat

LEMMA MutationLostKeeps ==
  ASSUME HistoryInv, NEW x \in ListMutations, MutationLost(x) PROVE HistoryInv'
<1> USE HistoryTypes DEF HistoryInv
<1> DEFINE n == [mutation[x] EXCEPT !.pc = "failed"]
<1>1. mutation[x] \in ListMutation
    OBVIOUS
<1>2. n \in ListMutation /\ n.pc = "failed"
    BY ONLY <1>1 DEF ListMutation
<1>3. mutation' = [mutation EXCEPT ![x] = n]
    BY DEF MutationLost
<1> HIDE DEF n
<1>4. mutation' \in [ListMutations -> ListMutation] /\ MutationsFit'
    BY <1>2, <1>3, ChangedMutation
<1>5. UNCHANGED <<stored, summaries, listEntry, read, answersSaved, gone>> /\ missed' = TRUE
    BY DEF MutationLost
<1>6. HistoryTypeOK'
    BY <1>4, <1>5, CountsListActs, HistoryTypesAgain DEF MutationLost
<1>7. ListFollows' /\ GoneStayGone'
    BY <1>5 DEF ListFollows, GoneStayGone
<1> QED
    BY <1>4, <1>5, <1>6, <1>7 DEF OneReadIsKept

\* A mutation is done with: its slot is free.
LEMMA FreedMutation ==
  ASSUME mutation \in [ListMutations -> ListMutation], MutationsFit,
         NEW x \in ListMutations, mutation' = [mutation EXCEPT ![x] = FreeMutation]
  PROVE  /\ mutation' \in [ListMutations -> ListMutation] /\ MutationsFit'
         /\ mutation'[x] = FreeMutation /\ \A y \in ListMutations \ {x} : mutation'[y] = mutation[y]
         /\ \A c : BeingDeleted(c) /\ ~(mutation[x].pc = "deleted" /\ mutation[x].chat = c) => BeingDeleted(c)'
BY ListNothings, ChangedMutation

LEMMA CommitRenameKeeps ==
  ASSUME HistoryInv, NEW x \in ListMutations, CommitRename(x) PROVE HistoryInv'
<1> USE HistoryTypes DEF HistoryInv
<1>1. mutation[x].pc = "renamed" /\ mutation' = [mutation EXCEPT ![x] = FreeMutation]
    BY DEF CommitRename
<1>2. /\ mutation' \in [ListMutations -> ListMutation] /\ MutationsFit'
      /\ \A c : BeingDeleted(c) => BeingDeleted(c)'
    BY <1>1, FreedMutation
<1>3. LoadLatest(read) /\ summaries' = summaries /\ UNCHANGED <<stored, listEntry, answersSaved, listTally, gone>>
    BY DEF CommitRename, RefreshList
<1>4. /\ read' \in [ListReads -> ListRead] /\ OneReadIsKept(read')
      /\ \E y \in ListReads : read'[y].kept
      /\ (\A y \in ListReads : ~read[y].kept) =>
           \A y \in ListReads : read'[y].kept => read'[y].pc = "sent"
  <2>1. /\ \A y \in ListReads : read[y].kept => read[y].pc # "free"
        /\ \A y, z \in ListReads : read[y].kept /\ read[z].kept => y = z
      BY DEF OneReadIsKept
  <2> QED
      BY <1>3, <2>1, LoadedLatest
<1>5. missed' \in BOOLEAN /\ (~missed' => ~missed /\ \A y \in ListReads : ~read[y].kept)
    BY DEF CommitRename
<1>6. HistoryTypeOK'
    BY <1>2, <1>3, <1>4, <1>5, HistoryTypesAgain
<1>7. \A c \in gone' : stored'[c] = Absent
    BY <1>3 DEF GoneStayGone
<1>8. ListFollows' /\ GoneStayGone'
  <2>1. CASE missed'
      BY <1>7, <2>1 DEF ListFollows, GoneStayGone
  <2>2. CASE ~missed'
    <3>1. \A c \in gone' : BeingDeleted(c)' \/ summaries'[c] = Absent
        BY <1>2, <1>3, <1>5, <2>2 DEF GoneStayGone
    <3> QED
        BY <1>4, <1>5, <1>7, <2>2, <3>1, ReadAnew
  <2> QED
      BY <2>1, <2>2
<1> QED
    BY <1>2, <1>3, <1>4, <1>6, <1>8

LEMMA CommitListedDeleteKeeps ==
  ASSUME HistoryInv, NEW x \in ListMutations, CommitListedDelete(x) PROVE HistoryInv'
<1> USE HistoryTypes DEF HistoryInv
<1> DEFINE c == mutation[x].chat
           list == [summaries EXCEPT ![c] = Absent]
<1>1. /\ mutation[x].pc = "deleted" /\ mutation' = [mutation EXCEPT ![x] = FreeMutation]
      /\ c \in RecentChats
    BY DEF CommitListedDelete, MutationsFit
<1>2. /\ mutation' \in [ListMutations -> ListMutation] /\ MutationsFit'
      /\ \A d : BeingDeleted(d) /\ c # d => BeingDeleted(d)'
    BY <1>1, FreedMutation
<1>3. list \in List /\ list[c] = Absent /\ \A d \in RecentChats \ {c} : list[d] = summaries[d]
    BY <1>1 DEF List
<1>4. /\ summaries' = list /\ summaries' \in List
      /\ listEntry' \in [has : BOOLEAN, value : List] /\ summaries' = listEntry'.value
    BY <1>3, StoredSummaries DEF CommitListedDelete, MutatedChat
<1>5. LoadLatest(Revised(read)) /\ UNCHANGED <<stored, answersSaved, listTally, gone, missed>>
    BY DEF CommitListedDelete
<1>6. /\ Revised(read) \in [ListReads -> ListRead]
      /\ \A y \in ListReads : ~Revised(read)[y].kept
    BY RevisedReads
<1>7. /\ read' \in [ListReads -> ListRead] /\ OneReadIsKept(read')
      /\ \E y \in ListReads : read'[y].kept
      /\ \A y \in ListReads : read'[y].kept => read'[y].pc = "sent"
    BY <1>5, <1>6, LoadedLatest
<1> HIDE DEF c, list
<1>8. HistoryTypeOK'
    BY <1>2, <1>4, <1>5, <1>7, HistoryTypesAgain
<1>9. ListFollows' /\ GoneStayGone'
  <2>1. \A d \in gone' : stored'[d] = Absent
      BY <1>5 DEF GoneStayGone
  <2>2. ASSUME ~missed', NEW d \in gone' PROVE BeingDeleted(d)' \/ summaries'[d] = Absent
    <3>1. CASE d = c
        BY <1>3, <1>4, <3>1
    <3>2. CASE d # c
      <4>1. d \in RecentChats /\ (BeingDeleted(d) \/ summaries[d] = Absent)
          BY <1>5, <2>2 DEF GoneStayGone
      <4> QED
          BY <1>2, <1>3, <1>4, <3>2, <4>1
    <3> QED
        BY <3>1, <3>2
  <2> QED
      BY <1>7, <2>1, <2>2, ReadAnew
<1> QED
    BY <1>2, <1>4, <1>7, <1>8, <1>9

LEMMA RollbackMutationKeeps ==
  ASSUME HistoryInv, NEW x \in ListMutations, RollbackMutation(x) PROVE HistoryInv'
<1> USE HistoryTypes DEF HistoryInv
<1>1. mutation[x].pc = "failed" /\ mutation' = [mutation EXCEPT ![x] = FreeMutation]
    BY DEF RollbackMutation
<1>2. /\ mutation' \in [ListMutations -> ListMutation] /\ MutationsFit'
      /\ mutation'[x] = FreeMutation /\ \A y \in ListMutations \ {x} : mutation'[y] = mutation[y]
      /\ \A d : BeingDeleted(d) => BeingDeleted(d)'
    BY <1>1, FreedMutation
<1>3. UNCHANGED <<stored, answersSaved, listTally, gone>>
    BY DEF RollbackMutation
<1>4. \A c \in gone' : stored'[c] = Absent
    BY <1>3 DEF GoneStayGone
<1>5. CASE mutation[x].title = Absent
  <2>1. UNCHANGED <<summaries, listEntry, read, missed>>
      BY <1>5 DEF RollbackMutation
  <2>2. HistoryTypeOK'
      BY <1>2, <1>3, <2>1, HistoryTypesAgain
  <2>3. (\A y \in ListMutations : mutation'[y].title = Absent) =>
          \A y \in ListMutations : mutation[y].title = Absent
      BY <1>2, <1>5
  <2>4. ListFollows'
      BY <1>2, <1>3, <2>1, <2>3 DEF ListFollows
  <2>5. GoneStayGone'
      BY <1>2, <1>3, <2>1 DEF GoneStayGone
  <2> QED
      BY <1>2, <2>1, <2>2, <2>4, <2>5 DEF OneReadIsKept
<1>6. CASE mutation[x].title # Absent
  <2> DEFINE list == mutation[x].before
  <2>1. list \in List
      BY DEF ListMutation
  <2>2. /\ summaries' = list /\ summaries' \in List
        /\ listEntry' \in [has : BOOLEAN, value : List] /\ summaries' = listEntry'.value
      BY <1>6, <2>1, StoredSummaries DEF RollbackMutation
  <2>3. /\ read' \in [ListReads -> ListRead] /\ OneReadIsKept(read')
        /\ \A y \in ListReads : ~read'[y].kept
      BY <1>6, RevisedAndSuperseded DEF RollbackMutation
  <2>4. missed' \in BOOLEAN /\ (~missed' => list = stored)
      BY <1>6 DEF RollbackMutation
  <2> HIDE DEF list
  <2>5. HistoryTypeOK'
      BY <1>2, <1>3, <2>2, <2>3, <2>4, HistoryTypesAgain
  <2>6. ListFollows'
      BY <1>3, <2>2, <2>3, <2>4 DEF ListFollows
  <2>7. GoneStayGone'
      BY <1>3, <1>4, <2>2, <2>3, <2>4 DEF GoneStayGone
  <2> QED
      BY <1>2, <2>2, <2>3, <2>5, <2>6, <2>7
<1> QED
    BY <1>5, <1>6

LEMMA HistorySteps ==
  ASSUME HistoryInv, [HistoryNext]_historyVars PROVE HistoryInv'
<1>1. CASE UNCHANGED historyVars
  <2>1. UNCHANGED <<stored, summaries, listEntry, read, mutation, answersSaved, listTally, gone, missed>>
      BY <1>1 DEF historyVars
  <2>2. HistoryTypeOK' = HistoryTypeOK /\ MutationsFit' = MutationsFit
      BY <2>1 DEF HistoryTypeOK, MutationsFit
  <2>3. OneReadIsKept(read')
      BY <2>1 DEF HistoryInv
  <2>4. ListFollows' = ListFollows /\ GoneStayGone' = GoneStayGone
      BY <2>1 DEF ListFollows, GoneStayGone, BeingDeleted
  <2> QED
      BY <2>1, <2>2, <2>3, <2>4 DEF HistoryInv
<1>2. CASE \E x \in ListReads : ServerReads(x) \/ ReadAnswered(x) \/ ListReadFails(x)
    BY <1>2, ServerReadsKeeps, ReadAnsweredKeeps, ListReadFailsKeeps
<1>3. CASE \E c \in RecentChats : ResponseSaved(c) \/ \E t \in Titles : AnswerSaved(c, t)
    BY <1>3, ResponseSavedKeeps, AnswerSavedKeeps
<1>4. CASE \E x \in ListMutations : ExecuteMutation(x) \/ MutationLost(x) \/ CommitRename(x)
    BY <1>4, ExecuteMutationKeeps, MutationLostKeeps, CommitRenameKeeps
<1>5. CASE \E x \in ListMutations : CommitListedDelete(x) \/ RollbackMutation(x)
    BY <1>5, CommitListedDeleteKeeps, RollbackMutationKeeps
<1>6. CASE \E x \in ListMutations : \E c \in RecentChats :
             DeleteListedSession(x, c) \/ \E t \in Titles : RenameSession(x, c, t)
    BY <1>6, DeleteListedSessionKeeps, RenameSessionKeeps
<1> QED
    BY <1>1, <1>2, <1>3, <1>4, <1>5, <1>6 DEF HistoryNext

-----------------------------------------------------------------------------
(* The list of the chats: theorems. *)

\* The invariant of the list holds initially, and every step keeps it.
THEOREM HistoryInductive == HistorySpec => []HistoryInv
<1>1. HistoryInit => HistoryInv
    BY HistoryStarts
<1>2. HistoryInv /\ [HistoryNext]_historyVars => HistoryInv'
    BY HistorySteps
<1> QED
    BY <1>1, <1>2, PTL DEF HistorySpec

LEMMA ListIsOfServer == HistoryInv => ListIsServer
<1>1. HistoryInv => QuietListIsServer
  <2> SUFFICES ASSUME HistoryInv, \A x \in ListReads : read[x].pc = "free",
                      \A x \in ListMutations : mutation[x].pc = "free", answersSaved = {}, ~missed
               PROVE  summaries = stored /\ listEntry.value = stored
      BY DEF QuietListIsServer
  <2>1. \A x \in ListReads : ~read[x].kept
      BY DEF HistoryInv, OneReadIsKept
  <2>2. \A x \in ListMutations : mutation[x].title = Absent
      BY DEF HistoryInv, MutationsFit
  <2>3. \A c \in RecentChats : ~BeingDeleted(c)
      BY DEF BeingDeleted
  <2>4. \A c \in RecentChats : summaries[c] = stored[c]
      BY <2>1, <2>2, <2>3 DEF HistoryInv, ListFollows
  <2>5. summaries \in List /\ stored \in List
      BY HistoryTypes DEF HistoryInv
  <2>6. summaries = stored
      BY <2>4, <2>5 DEF List
  <2> QED
      BY <2>6 DEF HistoryInv
<1>2. HistoryInv => DeletedChatIsGone
    BY DEF HistoryInv, GoneStayGone, BeingDeleted, DeletedChatIsGone, MutatedChat
<1> QED
    BY <1>1, <1>2 DEF ListIsServer

\* For any number of chats, reads, renames and deletions, in whatever order they are answered: a
\* list with nothing under way is the backend's, and a chat that was deleted stays off it.
THEOREM ListStaysServer == HistorySpec => []ListIsServer
BY ListIsOfServer, HistoryInductive, PTL
=============================================================================
