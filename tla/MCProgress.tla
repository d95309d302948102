----------------------------- MODULE MCProgress -----------------------------
(***************************************************************************)
(* The two client components whose progress is checked, side by side for    *)
(* TLC: focus says whether a behavior is about the questions that the bot   *)
(* answers or about a page that follows the indexing jobs; the other        *)
(* component rests in one state.  Nothing modelled connects the two.        *)
(***************************************************************************)
EXTENDS DiscordBotQuestions, LiveIndexing, TLC

CONSTANTS q1, q2, q3, u1, u2, r1   \* questions, their authors, the room

VARIABLE focus

Author == (q1 :> u1) @@ (q2 :> u2) @@ (q3 :> u1)
Room == (q1 :> r1) @@ (q2 :> r1) @@ (q3 :> r1)

vars == <<focus, questionVars, liveVars>>

----------------------------------------------------------------------------
Asking == focus = "questions"
Following == focus = "live"

\* What a component at rest is like: no job was ever queued, no question is left.
LiveRests ==
    /\ local /\ linked /\ wire = <<>>
    /\ status = [j \in Jobs |-> "none"]
    /\ monitor = [m \in Monitors |-> FreeMonitor]

QuestionsRest ==
    /\ stage = [q \in Questions |-> "refused"]
    /\ pending = [r \in Rooms |-> <<>>] /\ running = {} /\ cooling = {} /\ asking = {}
    /\ sent = [q \in Questions |-> 0] /\ audit = [q \in Questions |-> "none"]
    /\ admitted = [r \in Rooms |-> <<>>] /\ botFaults = 0

Init ==
    /\ LiveInit
    /\ \/ focus = "questions" /\ QuestionsInit /\ LiveRests
       \/ focus = "live" /\ QuestionsRest

Next ==
    \/ Asking /\ QuestionsNext /\ UNCHANGED <<focus, liveVars>>
    \/ Following /\ LiveNext /\ UNCHANGED <<focus, questionVars>>

\* The fairness of the two modules, each for the component in focus.
QuestionsGoOn == \A q \in Questions : WF_questionVars(Asking /\ QuestionStep(q))

PageGoesOn ==
    /\ \A j \in Jobs : WF_liveVars(Following /\ JobFallsSilent(j))
    /\ \A x \in Reads : WF_liveVars(Following /\ StatusRead(x))
    /\ \A x \in Reads : WF_liveVars(Following /\ StatusAnswered(x))
    /\ WF_liveVars(Following /\ PollActiveJobs) /\ WF_liveVars(Following /\ PollRead)
    /\ WF_liveVars(Following /\ PollAnswered) /\ WF_liveVars(Following /\ PushArrives)

FairSpec == Init /\ [][Next]_vars /\ QuestionsGoOn /\ PageGoesOn

----------------------------------------------------------------------------
\* Every variable of the two components has its type.
ProgressTypeOK == QuestionsTypeOK /\ LiveTypeOK
=============================================================================
