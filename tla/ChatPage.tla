------------------------------ MODULE ChatPage ------------------------------
(***************************************************************************)
(* The conversation of one page: the composer, the questions under way, the  *)
(* stored chats that are opened, and the backend that stores the turns.      *)
(* The retrieval mode is changed, persisted and compared like the source, so *)
(* a member of Scopes stands for both; a turn is named by its question.      *)
(***************************************************************************)
EXTENDS Naturals, FiniteSets

CONSTANTS
    Questions,      \* questions asked (a bound)
    Chats,          \* chats that the backend creates (a bound)
    Scopes,         \* sources of an answer; All is the whole archive
    All,
    ComposerModels,
    NoChat,         \* no chat, no scope, no model
    MaxMoves,       \* bound: what the user does besides asking
    MaxChatTroubles \* bound: lost answers, failing providers and requests

ASSUME ChatAssumption ==
    /\ All \in Scopes /\ NoChat \notin Chats /\ MaxMoves \in Nat /\ MaxChatTroubles \in Nat

VARIABLES
    chat,         \* the backend: context, turns and existence of each chat
    question,     \* each question: its request, where the backend and its entry stand
    chatPage,     \* activeSessionId, conversationHistory, the composer
    opening,      \* restoreSession under way (one at a time, a bound), and what it has read
    switching,    \* the pending mutation "chat-default", with its snapshot
    deleting,     \* the pending mutation "delete-chat"
    moves, chatTroubles

chatVars == <<chat, question, chatPage, opening, switching, deleting, moves, chatTroubles>>

----------------------------------------------------------------------------
Context == [scope : Scopes, model : ComposerModels]
NoOpening == [chat |-> NoChat, read |-> FALSE, turns |-> {}]
NoSwitch == [model |-> NoChat, before |-> NoChat, keep |-> FALSE]
NoDeletion == [chat |-> NoChat, done |-> FALSE]

ChatExists(c) == chat[c].state = "stored"
Waiting(q) == question[q].mark = "waiting"
Move == moves < MaxMoves /\ moves' = moves + 1
ChatTrouble == chatTroubles < MaxChatTroubles /\ chatTroubles' = chatTroubles + 1

\* resetConversation: what is under way belongs to a conversation that has been left.
Left == [q \in Questions |-> [question[q] EXCEPT !.current = FALSE]]
Emptied(p) == [p EXCEPT !.active = NoChat, !.history = {}, !.readOnly = FALSE, !.mixed = FALSE]

----------------------------------------------------------------------------
(* A question: submitChatQuestion and requestAnswer.  Enter in the composer   *)
(* submits also while the button is disabled.                                *)

SecondOfNewChat == chatPage.active = NoChat /\ \E p \in chatPage.history : Waiting(p)

Ask(q) ==
    /\ question[q].mark = "none" /\ ~chatPage.readOnly
    /\ question' = [question EXCEPT ![q] =
         [mark |-> "waiting", backend |-> "sent", chat |-> chatPage.active, at |-> NoChat,
          context |-> chatPage.composer, history |-> chatPage.history, current |-> TRUE,
          mixed |-> chatPage.mixed \/ SecondOfNewChat]]
    /\ chatPage' = [chatPage EXCEPT !.history = @ \cup {q}, !.mixed = @ \/ SecondOfNewChat]
    /\ UNCHANGED <<chat, opening, switching, deleting, moves, chatTroubles>>

\* Mutant of Continues: the context of the chat is not compared.
ContinuesAnyway(q, c) == ChatExists(c) /\ question[q].chat = c

\* _lock_or_create with _validate_context
Continues(q, c) == ChatExists(c) /\ question[q].chat = c /\ chat[c].context = question[q].context
Creates(q, c) == question[q].chat = NoChat /\ chat[c].state = "free"

\* answer and save_turn
SaveTurn(q, c) ==
    /\ question[q].backend = "sent" /\ (Continues(q, c) \/ Creates(q, c))
    /\ chat' = [chat EXCEPT ![c] = [state |-> "stored", turns |-> @.turns \cup {q},
                                    context |-> question[q].context]]
    /\ question' = [question EXCEPT ![q].backend = "stored", ![q].at = c]
    /\ UNCHANGED <<chatPage, opening, switching, deleting, moves, chatTroubles>>

\* The chat has been deleted, its context is another one, or the provider fails.
RefuseQuestion(q) ==
    /\ question[q].backend = "sent"
    /\ \/ question[q].chat # NoChat /\ ~Continues(q, question[q].chat) /\ UNCHANGED chatTroubles
       \/ ChatTrouble
    /\ question' = [question EXCEPT ![q].backend = "refused"]
    /\ UNCHANGED <<chat, chatPage, opening, switching, deleting, moves>>

\* The record "final" of the stream, or the answer of POST /chat.
AnswerArrives(q) ==
    LET c == question[q].at IN
    /\ Waiting(q) /\ question[q].backend = "stored"
    /\ question' = [question EXCEPT ![q].mark = "persisted"]
    /\ chatPage' = [chatPage EXCEPT !.active = c, !.history = @ \cup {q},
                            !.mixed = @ \/ ~question[q].current \/ chatPage.active # question[q].chat]
    /\ UNCHANGED <<chat, opening, switching, deleting, moves, chatTroubles>>

\* The record "error"; or no answer: a deadline, a broken or malformed stream, no "final".
QuestionFails(q) ==
    /\ Waiting(q)
    /\ \/ question[q].backend = "refused" /\ UNCHANGED chatTroubles
       \/ question[q].backend \in {"sent", "stored"} /\ ChatTrouble
    /\ question' = [question EXCEPT ![q].mark = "failed"]
    /\ UNCHANGED <<chat, chatPage, opening, switching, deleting, moves>>

\* publish: the backend notices at its next tool step that the stream was closed.
StreamCancelled(q) ==
    /\ question[q].mark = "failed" /\ question[q].backend = "sent"
    /\ question' = [question EXCEPT ![q].backend = "refused"]
    /\ UNCHANGED <<chat, chatPage, opening, switching, deleting, moves, chatTroubles>>

----------------------------------------------------------------------------
(* The composer. *)

\* renderScopeResponse: a source that is not listed is left, without a change event, so the
\* conversation stays; the source of a restored chat is kept.
RefreshChatScopes ==
    /\ Move
    /\ ~chatPage.unavailable /\ chatPage' = [chatPage EXCEPT !.composer.scope = All]
    /\ UNCHANGED <<chat, question, opening, switching, deleting, chatTroubles>>

\* applySettings of the selector: the default of the moment, unless the chat has been restored.
ApplySelectorSettings(m) ==
    /\ Move
    /\ ~chatPage.keep /\ chatPage' = [chatPage EXCEPT !.composer.model = m]
    /\ UNCHANGED <<chat, question, opening, switching, deleting, chatTroubles>>

HandleScopeChange(s) ==
    /\ Move
    /\ s # chatPage.composer.scope
    /\ chatPage' = Emptied([chatPage EXCEPT !.composer.scope = s, !.unavailable = FALSE])
    /\ question' = Left
    /\ UNCHANGED <<chat, opening, switching, deleting, chatTroubles>>

\* selectModel: the model is projected at once, the conversation ends with the commit.
SelectModel(m) ==
    /\ Move
    /\ switching = NoSwitch
    /\ switching' = [model |-> m, before |-> chatPage.composer.model, keep |-> chatPage.keep]
    /\ chatPage' = [chatPage EXCEPT !.composer.model = m, !.keep = FALSE]
    /\ UNCHANGED <<chat, question, opening, deleting, chatTroubles>>

CommitSelection ==
    /\ switching # NoSwitch /\ switching' = NoSwitch
    /\ chatPage' = Emptied(chatPage) /\ question' = Left
    /\ UNCHANGED <<chat, opening, deleting, moves, chatTroubles>>

RestoreProjectedSelection ==
    /\ switching # NoSwitch /\ ChatTrouble /\ switching' = NoSwitch
    /\ chatPage' = [chatPage EXCEPT !.composer.model = switching.before, !.keep = switching.keep]
    /\ UNCHANGED <<chat, question, opening, deleting, moves>>

StartNewChat ==
    /\ Move
    /\ chatPage' = Emptied([chatPage EXCEPT !.keep = FALSE]) /\ question' = Left
    /\ UNCHANGED <<chat, opening, switching, deleting, chatTroubles>>

----------------------------------------------------------------------------
(* A stored chat is opened: restoreSession and applyRestoredSession. *)

RestoreSession(c) ==
    /\ Move
    /\ opening = NoOpening /\ chat[c].state # "free"
    /\ opening' = [NoOpening EXCEPT !.chat = c]
    /\ UNCHANGED <<chat, question, chatPage, switching, deleting, chatTroubles>>

GetChatSession ==
    /\ opening.chat # NoChat /\ ~opening.read
    /\ opening' = IF ChatExists(opening.chat)
                  THEN [opening EXCEPT !.read = TRUE, !.turns = chat[opening.chat].turns]
                  ELSE NoOpening
    /\ UNCHANGED <<chat, question, chatPage, switching, deleting, moves, chatTroubles>>

\* After a refresh of the scopes and the models, which offer the source and the model or not.
ApplyRestoredSession ==
    LET context == chat[opening.chat].context IN
    /\ opening.read /\ opening' = NoOpening
    /\ \E sourceAvailable, modelAvailable \in BOOLEAN :
         /\ context.scope = All => sourceAvailable
         /\ chatPage' = [active |-> opening.chat, history |-> opening.turns, composer |-> context,
                         unavailable |-> ~sourceAvailable, keep |-> TRUE,
                         readOnly |-> ~(sourceAvailable /\ modelAvailable), mixed |-> FALSE]
    /\ question' = Left
    /\ UNCHANGED <<chat, switching, deleting, moves, chatTroubles>>

\* deleteSession, from the list of the chats
DeleteSession(c) ==
    /\ Move
    /\ deleting = NoDeletion /\ ChatExists(c)
    /\ deleting' = [chat |-> c, done |-> FALSE]
    /\ UNCHANGED <<chat, question, chatPage, opening, switching, chatTroubles>>

DeleteExecuted ==
    /\ deleting.chat # NoChat /\ ~deleting.done
    /\ deleting' = [deleting EXCEPT !.done = TRUE]
    /\ chat' = [chat EXCEPT ![deleting.chat].state = "deleted", ![deleting.chat].turns = {}]
    /\ UNCHANGED <<question, chatPage, opening, switching, moves, chatTroubles>>

CommitDelete ==
    /\ deleting.done /\ deleting' = NoDeletion
    /\ IF deleting.chat = chatPage.active
       THEN chatPage' = Emptied([chatPage EXCEPT !.keep = FALSE]) /\ question' = Left
       ELSE UNCHANGED <<chatPage, question>>
    /\ UNCHANGED <<chat, opening, switching, moves, chatTroubles>>

----------------------------------------------------------------------------
ChatInit ==
    \E m \in ComposerModels :
      /\ chat = [c \in Chats |-> [state |-> "free", turns |-> {}, context |-> [scope |-> All, model |-> m]]]
      /\ question = [q \in Questions |->
           [mark |-> "none", backend |-> "none", chat |-> NoChat, at |-> NoChat,
            context |-> [scope |-> All, model |-> m], history |-> {}, current |-> FALSE, mixed |-> FALSE]]
      /\ chatPage = [active |-> NoChat, history |-> {}, composer |-> [scope |-> All, model |-> m],
                     unavailable |-> FALSE, keep |-> FALSE, readOnly |-> FALSE, mixed |-> FALSE]
      /\ opening = NoOpening /\ switching = NoSwitch /\ deleting = NoDeletion /\ moves = 0 /\ chatTroubles = 0

ChatNext ==
    \/ \E q \in Questions :
         \/ Ask(q) \/ RefuseQuestion(q) \/ AnswerArrives(q) \/ QuestionFails(q) \/ StreamCancelled(q)
         \/ \E c \in Chats : SaveTurn(q, c)
    \/ RefreshChatScopes
    \/ \E s \in Scopes : HandleScopeChange(s)
    \/ \E m \in ComposerModels : ApplySelectorSettings(m) \/ SelectModel(m)
    \/ CommitSelection \/ RestoreProjectedSelection \/ StartNewChat
    \/ \E c \in Chats : RestoreSession(c) \/ DeleteSession(c)
    \/ GetChatSession \/ ApplyRestoredSession \/ DeleteExecuted \/ CommitDelete

ChatSpec == ChatInit /\ [][ChatNext]_chatVars

----------------------------------------------------------------------------
(* Properties *)

ChatTypeOK ==
    /\ chat \in [Chats -> [state : {"free", "stored", "deleted"}, turns : SUBSET Questions, context : Context]]
    /\ question \in [Questions ->
         [mark : {"none", "waiting", "persisted", "failed"}, backend : {"none", "sent", "stored", "refused"},
          chat : Chats \cup {NoChat}, at : Chats \cup {NoChat}, context : Context,
          history : SUBSET Questions, current : BOOLEAN, mixed : BOOLEAN]]
    /\ chatPage \in [active : Chats \cup {NoChat}, history : SUBSET Questions, composer : Context,
                     unavailable : BOOLEAN, keep : BOOLEAN, readOnly : BOOLEAN, mixed : BOOLEAN]
    /\ opening \in [chat : Chats \cup {NoChat}, read : BOOLEAN, turns : SUBSET Questions]
    /\ switching \in [model : ComposerModels \cup {NoChat}, before : ComposerModels \cup {NoChat}, keep : BOOLEAN]
    /\ deleting \in [chat : Chats \cup {NoChat}, done : BOOLEAN]
    /\ moves \in 0..MaxMoves
    /\ chatTroubles \in 0..MaxChatTroubles

\* A continuation has the context of its chat, however the composer and the active chat have
\* come apart (a late answer, a projected model, a source that has vanished): every turn that
\* a chat holds was asked with the settings that the chat was created with.
TurnsShareTheContext ==
    \A c \in Chats : \A q \in chat[c].turns : question[q].context = chat[c].context

\* The history that goes with a stored question tells of its own chat only: no turn that another
\* chat has stored, in spite of opened, new, deleted and switched chats.  It is not so after an
\* answer came to a conversation that the user had left, or after a second question was submitted
\* before the first answer had named the chat.
HistoryIsOfTheChat ==
    \A q \in Questions :
      question[q].backend = "stored" /\ ~question[q].mixed
        => \A p \in question[q].history :
             question[p].backend = "stored" /\ question[p].mark # "failed"
               => question[p].at = question[q].at

\* The mark of a stored question is true: its turn is in the chat of its answer until the chat
\* is deleted, and in no other chat.
PersistedIsStored ==
    \A q \in Questions :
      question[q].mark = "persisted" =>
        LET c == question[q].at IN
        /\ c # NoChat
        /\ ChatExists(c) => q \in chat[c].turns
        /\ \A d \in Chats \ {c} : q \notin chat[d].turns

\* The chats that are stored, and what the page says of them, belong together.
ConversationsAreStored == TurnsShareTheContext /\ HistoryIsOfTheChat /\ PersistedIsStored
=============================================================================
