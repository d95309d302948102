----------------------------- MODULE PagedLists -----------------------------
(***************************************************************************)
(* The lists that the page reads a page of rows at a time.  The chunks and   *)
(* the three breakdowns of the overview append the next page to what they    *)
(* show; the first page is read again whenever the overview is opened or     *)
(* refreshed, or the read model has been rebuilt.  The history of the bot's  *)
(* answers shows one page of one server at a time.  Nothing orders their     *)
(* answers.  The rows themselves do not change while they are read.          *)
(***************************************************************************)
EXTENDS Naturals, Sequences, FiniteSets

CONSTANTS
    LastPage,     \* pages of the list
    PageRequests, \* requests under way together (a bound)
    Servers,      \* what the history can be filtered by
    MaxReads      \* bound: reads started

ASSUME ListsAssumption == LastPage \in Nat \ {0} /\ MaxReads \in Nat

VARIABLES
    kind,         \* which of the lists is shown: "chunks", "breakdown" or "history"
    table,        \* the appended list: its rows' pages, where the next begins, its button
    openings,     \* open and refresh of the overview that have not ended
    answerHistory, \* the history: its offset and filter, and what is listed and labelled
    pageRequest,
    reads,        \* reads started
    overtaken     \* history variable: which answers came in another order than was asked

listVars == <<kind, table, openings, answerHistory, pageRequest, reads, overtaken>>

----------------------------------------------------------------------------
Pages == 1..LastPage
After(p) == IF p < LastPage THEN p + 1 ELSE 0     \* no cursor after the last page
FreePageRequest == [of |-> "none", page |-> 0, server |-> "none"]

AskForPage(of, p, s) ==
    /\ reads < MaxReads /\ reads' = reads + 1
    /\ \E r \in PageRequests : pageRequest[r] = FreePageRequest
                           /\ pageRequest' = [pageRequest EXCEPT ![r] = [of |-> of, page |-> p, server |-> s]]
PagesUnderWay(of) == {r \in PageRequests : pageRequest[r].of = of}
RequestEnds(r) == pageRequest' = [pageRequest EXCEPT ![r] = FreePageRequest]

----------------------------------------------------------------------------
(* The chunks and the breakdowns. *)

\* renderPage and renderChunkPage of a first page replace the rows, ...
FirstPage(t) == [t EXCEPT !.rows = <<1>>, !.next = After(1), !.failed = FALSE]
\* ... those of a later one append them; a breakdown skips labels that it has already.
Appended(t, p) ==
    [t EXCEPT !.rows = IF kind = "breakdown" /\ p \in {t.rows[i] : i \in DOMAIN t.rows} THEN @
                       ELSE Append(@, p),
              !.next = After(p), !.failed = FALSE]

\* A first page that is rendered while the next one is awaited.
Overtakes == overtaken' = overtaken \cup (IF PagesUnderWay("next") # {} THEN {"first page"} ELSE {})

\* loadFirstChunkPage, loadFirstPage: the cached page at once, then a shared request for it.
LoadFirstPage(busy) ==
    /\ table' = [IF table.cached THEN FirstPage(table)
                 ELSE IF kind = "chunks" THEN [table EXCEPT !.rows = <<>>] ELSE table EXCEPT !.busy = busy]
    /\ IF table.cached THEN Overtakes ELSE UNCHANGED overtaken
    /\ IF PagesUnderWay("first") # {} THEN reads < MaxReads /\ reads' = reads + 1 /\ UNCHANGED pageRequest
       ELSE AskForPage("first", 1, "none")

\* open and refresh: the button of the chunks waits for everything that the overview reads.
OpenList ==
    /\ kind = "chunks" /\ openings' = openings + 1
    /\ LoadFirstPage(TRUE)
    /\ UNCHANGED <<kind, answerHistory>>

\* loadInitial: also when the read model was rebuilt; the button is not touched.
LoadInitial ==
    /\ kind = "breakdown" /\ LoadFirstPage(table.busy)
    /\ UNCHANGED <<kind, openings, answerHistory>>

FirstPageAnswered(r) ==
    /\ r \in PagesUnderWay("first") /\ RequestEnds(r)
    /\ table' = [FirstPage(table) EXCEPT !.cached = TRUE] /\ Overtakes
    /\ UNCHANGED <<kind, openings, answerHistory, reads>>

\* A failed breakdown offers its button again, the chunks only if nothing is cached.
FirstPageFails(r) ==
    /\ r \in PagesUnderWay("first") /\ RequestEnds(r)
    /\ table' = IF kind = "breakdown" THEN [table EXCEPT !.failed = TRUE] ELSE table
    /\ UNCHANGED <<kind, openings, answerHistory, reads, overtaken>>

OverviewOpened ==
    /\ openings > 0 /\ PagesUnderWay("first") = {}
    /\ openings' = openings - 1 /\ table' = [table EXCEPT !.busy = FALSE]
    /\ overtaken' = overtaken \cup (IF PagesUnderWay("next") # {} THEN {"button"} ELSE {})
    /\ UNCHANGED <<kind, answerHistory, pageRequest, reads>>

\* Mutant of LoadMore: the button is not disabled while the next page is awaited.
LoadMoreAgain ==
    /\ kind # "history"
    /\ table.next # 0 \/ table.failed
    /\ AskForPage("next", table.next, "none")
    /\ table' = [table EXCEPT !.busy = TRUE]
    /\ UNCHANGED <<kind, openings, answerHistory, overtaken>>

\* loadMore, loadNext: from where the list ends; a breakdown that shows nothing begins anew.
LoadMore ==
    /\ kind # "history" /\ ~table.busy
    /\ table.next # 0 \/ table.failed
    /\ AskForPage("next", table.next, "none")
    /\ table' = [table EXCEPT !.busy = TRUE]
    /\ UNCHANGED <<kind, openings, answerHistory, overtaken>>

MoreAnswered(r) ==
    /\ r \in PagesUnderWay("next") /\ RequestEnds(r)
    /\ table' = [IF pageRequest[r].page = 0 THEN FirstPage(table) ELSE Appended(table, pageRequest[r].page)
                 EXCEPT !.busy = FALSE]
    /\ UNCHANGED <<kind, openings, answerHistory, reads, overtaken>>

MoreFails(r) ==
    /\ r \in PagesUnderWay("next") /\ RequestEnds(r)
    /\ table' = [table EXCEPT !.busy = FALSE, !.failed = kind = "breakdown"]
    /\ UNCHANGED <<kind, openings, answerHistory, reads, overtaken>>

----------------------------------------------------------------------------
(* The history of the bot's answers. *)

\* loadPage: the offset is the page's before its rows have come.
LoadPage(p) ==
    /\ kind = "history" /\ p \in Pages
    /\ AskForPage("page", p, answerHistory.filter)
    /\ answerHistory' = [answerHistory EXCEPT !.offset = p]
    /\ UNCHANGED <<kind, table, openings, overtaken>>

Filter == LoadPage(1)
\* The buttons are those of the page rendered last, the offset the newest one.
PreviousPage ==
    ~answerHistory.first /\ LoadPage(IF answerHistory.offset > 1 THEN answerHistory.offset - 1 ELSE 1)
NextPage == ~answerHistory.last /\ LoadPage(answerHistory.offset + 1)

\* A server is chosen in the filter, to be applied by the next read, whichever that is.
ChooseServer(s) ==
    /\ kind = "history" /\ s # answerHistory.filter
    /\ answerHistory' = [answerHistory EXCEPT !.filter = s]
    /\ UNCHANGED <<kind, table, openings, pageRequest, reads, overtaken>>

\* The rows are the answer's, the label and the buttons the newest offset's.
PageAnswered(r) ==
    /\ r \in PagesUnderWay("page") /\ RequestEnds(r)
    /\ answerHistory' =
         [answerHistory EXCEPT
             !.listed = [page |-> pageRequest[r].page, server |-> pageRequest[r].server],
             !.label = answerHistory.offset, !.first = answerHistory.offset = 1,
             !.last = answerHistory.offset >= LastPage]
    /\ overtaken' = overtaken \cup (IF PagesUnderWay("page") # {r} THEN {"page"} ELSE {})
    /\ UNCHANGED <<kind, table, openings, reads>>

PageFails(r) ==
    /\ r \in PagesUnderWay("page") /\ RequestEnds(r)
    /\ overtaken' = overtaken \cup {"failed page"}
    /\ UNCHANGED <<kind, table, openings, answerHistory, reads>>

----------------------------------------------------------------------------
ListsInit ==
    /\ kind \in {"chunks", "breakdown", "history"}
    /\ table = [rows |-> <<>>, next |-> 0, busy |-> FALSE, failed |-> FALSE, cached |-> FALSE]
    /\ openings = 0
    /\ \E s \in Servers :
         answerHistory = [offset |-> 1, filter |-> s, listed |-> [page |-> 0, server |-> s], label |-> 0,
                          first |-> TRUE, last |-> TRUE]
    /\ pageRequest = [r \in PageRequests |-> FreePageRequest]
    /\ reads = 0 /\ overtaken = {}

ListsNext ==
    \/ OpenList \/ LoadInitial \/ OverviewOpened \/ LoadMore
    \/ Filter \/ PreviousPage \/ NextPage \/ \E s \in Servers : ChooseServer(s)
    \/ \E r \in PageRequests : \/ FirstPageAnswered(r) \/ FirstPageFails(r)
                           \/ MoreAnswered(r) \/ MoreFails(r) \/ PageAnswered(r) \/ PageFails(r)

ListsSpec == ListsInit /\ [][ListsNext]_listVars

----------------------------------------------------------------------------
(* Properties *)

ListsTypeOK ==
    /\ kind \in {"chunks", "breakdown", "history"} /\ openings \in 0..MaxReads
    /\ table \in [rows : Seq(Pages), next : Pages \cup {0}, busy : BOOLEAN, failed : BOOLEAN, cached : BOOLEAN]
    /\ answerHistory \in [offset : Pages, filter : Servers, listed : [page : Pages \cup {0}, server : Servers],
                          label : Pages \cup {0}, first : BOOLEAN, last : BOOLEAN]
    /\ pageRequest \in [PageRequests -> [of : {"none", "first", "next", "page"}, page : Pages \cup {0},
                                 server : Servers \cup {"none"}]]
    /\ reads \in 0..MaxReads /\ overtaken \subseteq {"first page", "button", "page", "failed page"}

\* A list shows the pages 1, 2, ... without a gap or a repetition and goes on where it ends,
\* unless its first page was shown again, or its button released, by another read while the
\* next page was awaited: then the list jumps.
ListHasNoGap ==
    overtaken \cap {"first page", "button"} = {} =>
        /\ \A i \in DOMAIN table.rows : table.rows[i] = i
        /\ table.rows # <<>> => table.next = After(Len(table.rows))

\* With every request answered, in order, the history lists the page that its label and its
\* buttons are about.
LabelIsListed ==
    overtaken = {} /\ PagesUnderWay("page") = {} => answerHistory.label = answerHistory.listed.page

\* Whatever is read page by page is shown as the pages it is said to be.
PagesAreInOrder == ListHasNoGap /\ LabelIsListed
=============================================================================
