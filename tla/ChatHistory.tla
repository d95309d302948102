---------------------------- MODULE ChatHistory ----------------------------
(***************************************************************************)
(* The list of the recent chats on the page: the workspace cache's entry for *)
(* it, the reads that fill the entry, of which the newest alone reaches the  *)
(* list, and the renames and deletions that the list shows.  A list is a     *)
(* function from chats to titles; its order and its length are left out.     *)
(***************************************************************************)
EXTENDS Naturals, FiniteSets

CONSTANTS
    RecentChats,
    Titles,
    Absent,         \* the title of a chat that a list does not have
    ListReads,      \* requests for the list under way together (a bound)
    ListMutations,  \* renames and deletions under way together (a bound)
    MaxListActs,    \* bound: answers, renames and deletions
    MaxListTroubles \* bound: requests that fail

ASSUME HistoryAssumption ==
    Absent \notin RecentChats /\ Absent \notin Titles /\ MaxListActs \in Nat /\ MaxListTroubles \in Nat

VARIABLES
    stored,       \* the backend's chats
    summaries,    \* the list on the page
    listEntry,    \* workspaceCache's entry: value, hasValue
    read,         \* requests: is its answer still kept by the cache, does it reach the list
    mutation,     \* runMutation: key, projected title, snapshot
    answersSaved, \* chats whose answer is on its way to responseSaved
    listTally,
    gone,         \* history: chats that the backend has deleted, whose identifiers are not used again
    missed        \* history: something was lost since the list was last right

historyVars == <<stored, summaries, listEntry, read, mutation, answersSaved, listTally, gone, missed>>

----------------------------------------------------------------------------
List == [RecentChats -> Titles \cup {Absent}]
Empty == [c \in RecentChats |-> Absent]
FreeRead == [pc |-> "free", kept |-> FALSE, shown |-> FALSE, got |-> Empty]
FreeMutation == [pc |-> "free", chat |-> Absent, title |-> Absent, before |-> Empty]

Act == listTally.acts < MaxListActs /\ listTally' = [listTally EXCEPT !.acts = @ + 1]
ListTrouble == listTally.troubles < MaxListTroubles /\ listTally' = [listTally EXCEPT !.troubles = @ + 1]
MutationIsPending(kind, c) == \E x \in ListMutations : mutation[x].pc = kind /\ mutation[x].chat = c

----------------------------------------------------------------------------
(* workspaceCache and runLatest *)

\* Mutant of Revised: the cache keeps the answers of the reads under way.
RevisedNot(r) == r

\* A new revision of the entry: the reads under way are no longer kept.
Revised(r) == [x \in ListReads |-> [r[x] EXCEPT !.kept = FALSE]]
\* supersede: no read under way reaches the list.
SupersededReads(r) == [x \in ListReads |-> [r[x] EXCEPT !.shown = FALSE]]

\* load in runLatest: the request that is still valid is shared, else there is a new one.
LoadLatest(r) ==
    \E x \in ListReads :
      /\ IF \E y \in ListReads : r[y].kept THEN r[x].kept ELSE r[x].pc = "free"
      /\ read' = [SupersededReads(r) EXCEPT ![x].pc = IF @ = "free" THEN "sent" ELSE @,
                                       ![x].kept = TRUE, ![x].shown = TRUE]

\* storeProjectedSummaries
StoreSummaries(list) ==
    /\ summaries' = list
    /\ listEntry' = [has |-> TRUE, value |-> list]

\* refresh(true)
RefreshList(list, e, r) ==
    /\ summaries' = IF e.has THEN e.value ELSE list
    /\ LoadLatest(r)

----------------------------------------------------------------------------
(* Reads. *)

ServerReads(x) ==
    /\ read[x].pc = "sent"
    /\ read' = [read EXCEPT ![x].pc = "read", ![x].got = stored]
    /\ UNCHANGED <<stored, summaries, listEntry, mutation, answersSaved, listTally, gone, missed>>

ReadAnswered(x) ==
    /\ read[x].pc = "read"
    /\ listEntry' = IF read[x].kept THEN [has |-> TRUE, value |-> read[x].got] ELSE listEntry
    /\ summaries' = IF read[x].shown THEN read[x].got ELSE summaries
    /\ missed' = (missed /\ ~(read[x].shown /\ read[x].got = stored))
    /\ read' = [read EXCEPT ![x] = FreeRead]
    /\ UNCHANGED <<stored, mutation, answersSaved, listTally, gone>>

\* refresh swallows the error: showReconcileFailure is never called.
ListReadFails(x) ==
    /\ read[x].pc # "free" /\ ListTrouble
    /\ read' = [read EXCEPT ![x] = FreeRead] /\ missed' = TRUE
    /\ UNCHANGED <<stored, summaries, listEntry, mutation, answersSaved, gone>>

----------------------------------------------------------------------------
(* An answer that the backend has saved creates a chat. *)

AnswerSaved(c, t) ==
    /\ Act /\ stored[c] = Absent /\ c \notin gone
    /\ stored' = [stored EXCEPT ![c] = t] /\ answersSaved' = answersSaved \cup {c}
    /\ UNCHANGED <<summaries, listEntry, read, mutation, gone, missed>>

ResponseSaved(c) ==
    /\ c \in answersSaved /\ answersSaved' = answersSaved \ {c}
    /\ RefreshList(summaries, listEntry, Revised(read))
    /\ UNCHANGED <<stored, listEntry, mutation, listTally, gone, missed>>

----------------------------------------------------------------------------
(* renameSession and deleteSession *)

\* projectRename
RenameSession(x, c, t) ==
    /\ mutation[x].pc = "free" /\ summaries[c] # Absent /\ ~MutationIsPending("rename", c)
    /\ Act
    /\ mutation' = [mutation EXCEPT ![x] = [pc |-> "rename", chat |-> c, title |-> t, before |-> summaries]]
    /\ StoreSummaries([summaries EXCEPT ![c] = t])
    /\ read' = SupersededReads(Revised(read))
    /\ UNCHANGED <<stored, answersSaved, gone, missed>>

DeleteListedSession(x, c) ==
    /\ mutation[x].pc = "free" /\ summaries[c] # Absent /\ ~MutationIsPending("delete", c)
    /\ Act
    /\ mutation' = [mutation EXCEPT ![x] = [FreeMutation EXCEPT !.pc = "delete", !.chat = c]]
    /\ UNCHANGED <<stored, summaries, listEntry, read, answersSaved, gone, missed>>

MutatedChat(x) == mutation[x].chat

\* The backend: neither finds a chat that has been deleted.
ExecuteMutation(x) ==
    /\ mutation[x].pc \in {"rename", "delete"}
    /\ \/ /\ stored[MutatedChat(x)] = Absent
          /\ mutation' = [mutation EXCEPT ![x].pc = "failed"] /\ UNCHANGED <<stored, gone>>
       \/ /\ stored[MutatedChat(x)] # Absent
          /\ mutation' = [mutation EXCEPT ![x].pc = IF @ = "rename" THEN "renamed" ELSE "deleted"]
          /\ stored' = [stored EXCEPT ![MutatedChat(x)] = mutation[x].title]
          /\ gone' = IF mutation[x].pc = "delete" THEN gone \cup {MutatedChat(x)} ELSE gone
    /\ UNCHANGED <<summaries, listEntry, read, answersSaved, listTally, missed>>

\* The request or its answer is lost.
MutationLost(x) ==
    /\ mutation[x].pc \in {"rename", "delete", "renamed", "deleted"} /\ ListTrouble
    /\ mutation' = [mutation EXCEPT ![x].pc = "failed"] /\ missed' = TRUE
    /\ UNCHANGED <<stored, summaries, listEntry, read, answersSaved, gone>>

\* The list stays projected; refresh(true) follows, and shares a read that is still kept, even
\* if the backend had answered it before the rename: the old title then comes back.
CommitRename(x) ==
    /\ mutation[x].pc = "renamed" /\ mutation' = [mutation EXCEPT ![x] = FreeMutation]
    /\ RefreshList(summaries, listEntry, read)
    /\ missed' = (missed \/ \E y \in ListReads : read[y].kept)
    /\ UNCHANGED <<stored, listEntry, answersSaved, listTally, gone>>

CommitListedDelete(x) ==
    /\ mutation[x].pc = "deleted" /\ mutation' = [mutation EXCEPT ![x] = FreeMutation]
    /\ StoreSummaries([summaries EXCEPT ![MutatedChat(x)] = Absent])
    /\ LoadLatest(Revised(read))
    /\ UNCHANGED <<stored, answersSaved, listTally, gone, missed>>

\* restoreRename shows its snapshot, whatever happened to the list since.
RollbackMutation(x) ==
    /\ mutation[x].pc = "failed" /\ mutation' = [mutation EXCEPT ![x] = FreeMutation]
    /\ IF mutation[x].title = Absent THEN UNCHANGED <<summaries, listEntry, read, missed>>
       ELSE /\ StoreSummaries(mutation[x].before) /\ read' = SupersededReads(Revised(read))
            /\ missed' = (missed \/ mutation[x].before # stored)
    /\ UNCHANGED <<stored, answersSaved, listTally, gone>>

----------------------------------------------------------------------------
\* The page has just started, and asked for the list: refresh.
HistoryInit ==
    /\ stored \in List /\ summaries = Empty
    /\ listEntry = [has |-> FALSE, value |-> Empty]
    /\ \E first \in ListReads :
         read = [x \in ListReads |->
                   IF x = first THEN [FreeRead EXCEPT !.pc = "sent", !.kept = TRUE, !.shown = TRUE]
                   ELSE FreeRead]
    /\ mutation = [x \in ListMutations |-> FreeMutation]
    /\ answersSaved = {} /\ listTally = [acts |-> 0, troubles |-> 0]
    /\ gone = {} /\ missed = TRUE

HistoryNext ==
    \/ \E x \in ListReads : ServerReads(x) \/ ReadAnswered(x) \/ ListReadFails(x)
    \/ \E c \in RecentChats : ResponseSaved(c) \/ \E t \in Titles : AnswerSaved(c, t)
    \/ \E x \in ListMutations :
         \/ ExecuteMutation(x) \/ MutationLost(x) \/ CommitRename(x) \/ CommitListedDelete(x) \/ RollbackMutation(x)
         \/ \E c \in RecentChats : DeleteListedSession(x, c) \/ \E t \in Titles : RenameSession(x, c, t)

HistorySpec == HistoryInit /\ [][HistoryNext]_historyVars

----------------------------------------------------------------------------
(* Properties *)

HistoryTypeOK ==
    /\ stored \in List /\ summaries \in List
    /\ listEntry \in [has : BOOLEAN, value : List]
    /\ read \in [ListReads -> [pc : {"free", "sent", "read"}, kept : BOOLEAN, shown : BOOLEAN, got : List]]
    /\ mutation \in [ListMutations -> [pc : {"free", "rename", "delete", "renamed", "deleted", "failed"},
                                   chat : RecentChats \cup {Absent}, title : Titles \cup {Absent}, before : List]]
    /\ answersSaved \subseteq RecentChats /\ gone \subseteq RecentChats /\ missed \in BOOLEAN
    /\ listTally \in [acts : 0..MaxListActs, troubles : 0..MaxListTroubles]

\* A chat that was deleted here does not come back with a read that was sent before the deletion;
\* only the snapshot of a rename that fails later shows it again.
DeletedChatIsGone ==
    ~missed => \A c \in gone :
      \/ \E x \in ListMutations : MutatedChat(x) = c
      \/ summaries[c] = Absent /\ listEntry.value[c] = Absent

\* When nothing is under way the list, and what the cache would show, is the backend's, in
\* whatever order reads, renames, deletions and answers came, unless a request was lost, a
\* snapshot undid the change of another, or a rename shared a read from before it.
QuietListIsServer ==
    /\ \A x \in ListReads : read[x].pc = "free"
    /\ \A x \in ListMutations : mutation[x].pc = "free"
    /\ answersSaved = {} /\ ~missed
    => summaries = stored /\ listEntry.value = stored

\* The list of chats is the backend's, and a deleted chat is off it for good.
ListIsServer == QuietListIsServer /\ DeletedChatIsGone
=============================================================================
