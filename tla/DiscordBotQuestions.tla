------------------------ MODULE DiscordBotQuestions ------------------------
(***************************************************************************)
(* Questions that members put to the Discord bot: admission, the queue of   *)
(* each room, the answer of the backend, its delivery in several messages    *)
(* and the audit row of the answer.                                          *)
(***************************************************************************)
EXTENDS Naturals, Sequences

CONSTANTS
    Questions,      \* messages that mention the bot or reply to it
    Users, Rooms,
    AuthorOf, RoomOf,
    Parts,          \* Discord messages one answer is split into
    MaximumPending, \* questions that wait in a room (5)
    MaxFaults       \* bound: failed or lost requests, and ends of the process

ASSUME QuestionsAssumption ==
    /\ AuthorOf \in [Questions -> Users] /\ RoomOf \in [Questions -> Rooms]
    /\ Parts \in Nat \ {0}
    /\ MaximumPending \in Nat /\ MaxFaults \in Nat

VARIABLES
    stage,      \* how far each question is
    pending,    \* queue.channels: the waiting questions of a room
    running,    \* rooms whose queue is running
    cooling,    \* users whose last accepted question is younger than the cooldown
    asking,     \* ask_subjects: the users who may ask
    sent,       \* parts of the answer that are visible in Discord
    audit,      \* the delivery status of the answer's row in the backend
    admitted,   \* history: the questions of a room in the order of their admission
    botFaults

questionVars == <<stage, pending, running, cooling, asking, sent, audit, admitted, botFaults>>
queueVars == <<pending, running, cooling, admitted>>

Stages == {"new", "capturing", "waiting", "answering", "sending", "recording", "confirming",
           "failing", "reporting", "ended", "refused", "dead"}
Active(q) == stage[q] \in {"answering", "sending", "recording", "confirming", "failing", "reporting"}
At(q, s) == stage[q] = s
To(q, s) == stage' = [stage EXCEPT ![q] = s]
Fault == botFaults < MaxFaults /\ botFaults' = botFaults + 1

----------------------------------------------------------------------------
\* A message without a trigger is no question; the context is read after the check
\* of the permission, and an unreadable context does not stop the question.
Permits(u) == u \in asking

Handle(q) ==
    /\ At(q, "new")
    /\ To(q, IF Permits(AuthorOf[q]) THEN "capturing" ELSE "refused")
    /\ UNCHANGED <<queueVars, asking, sent, audit, botFaults>>

Full(r) == r \in running /\ Len(pending[r]) >= MaximumPending

\* Mutant of Submit: a question starts although the room's queue is running.
SubmitAtOnce(q) ==
    LET r == RoomOf[q]
        u == AuthorOf[q]
    IN /\ At(q, "capturing")
       /\ IF u \in cooling \/ Full(r)
          THEN To(q, "refused") /\ UNCHANGED queueVars
          ELSE /\ cooling' = cooling \cup {u}
               /\ admitted' = [admitted EXCEPT ![r] = Append(@, q)]
               /\ running' = running \cup {r}
               /\ To(q, "answering") /\ UNCHANGED pending
       /\ UNCHANGED <<asking, sent, audit, botFaults>>

\* queue.submit.
Submit(q) ==
    LET r == RoomOf[q]
        u == AuthorOf[q]
    IN /\ At(q, "capturing")
       /\ IF u \in cooling \/ Full(r)
          THEN To(q, "refused") /\ UNCHANGED queueVars
          ELSE /\ cooling' = cooling \cup {u}
               /\ admitted' = [admitted EXCEPT ![r] = Append(@, q)]
               /\ running' = running \cup {r}
               /\ IF r \in running
                  THEN To(q, "waiting") /\ pending' = [pending EXCEPT ![r] = Append(@, q)]
                  ELSE To(q, "answering") /\ UNCHANGED pending
       /\ UNCHANGED <<asking, sent, audit, botFaults>>

CooldownEnds(u) ==
    /\ u \in cooling
    /\ cooling' = cooling \ {u}
    /\ UNCHANGED <<stage, pending, running, asking, sent, audit, admitted, botFaults>>

\* The answer, with a row of its own in the audit; an error or a timeout ends the
\* question with a reply, whether or not the backend has finished.
Answered(q) ==
    /\ At(q, "answering")
    /\ To(q, "sending")
    /\ audit' = [audit EXCEPT ![q] = "pending"]
    /\ UNCHANGED <<queueVars, asking, sent, botFaults>>

AnswerFails(q) ==
    /\ At(q, "answering") /\ Fault
    /\ To(q, "reporting")
    /\ audit' \in {audit, [audit EXCEPT ![q] = "pending"]}
    /\ UNCHANGED <<queueVars, asking, sent>>

\* Mutant of SendPart: the loop runs once too often.
SendPartTooMany(q) ==
    /\ At(q, "sending")
    /\ sent' = [sent EXCEPT ![q] = @ + 1]
    /\ To(q, IF sent[q] = Parts THEN "recording" ELSE "sending")
    /\ UNCHANGED <<queueVars, asking, audit, botFaults>>

\* deliverDiscordAnswer: the parts one after the other.
SendPart(q) ==
    /\ At(q, "sending")
    /\ sent' = [sent EXCEPT ![q] = @ + 1]
    /\ To(q, IF sent[q] + 1 = Parts THEN "recording" ELSE "sending")
    /\ UNCHANGED <<queueVars, asking, audit, botFaults>>

\* The message is posted or not.
SendFails(q) ==
    /\ At(q, "sending") /\ Fault
    /\ To(q, "failing")
    /\ sent' \in {sent, [sent EXCEPT ![q] = @ + 1]}
    /\ UNCHANGED <<queueVars, asking, audit>>

\* recordDiscordAnswerDelivery, once more if it failed, and the record of a failure.
RecordedAs(q) == IF At(q, "failing") THEN "failed" ELSE "delivered"
AfterRecord(q) == IF At(q, "recording") THEN "ended" ELSE "reporting"

RecordDelivery(q) ==
    /\ stage[q] \in {"recording", "confirming", "failing"}
    /\ audit' = [audit EXCEPT ![q] = RecordedAs(q)]
    /\ To(q, AfterRecord(q))
    /\ UNCHANGED <<queueVars, asking, sent, botFaults>>

\* The request fails, executed or not.
RecordFails(q) ==
    /\ stage[q] \in {"recording", "confirming", "failing"} /\ Fault
    /\ audit' \in {audit, [audit EXCEPT ![q] = RecordedAs(q)]}
    /\ To(q, IF At(q, "recording") THEN "confirming" ELSE "reporting")
    /\ UNCHANGED <<queueVars, asking, sent>>

ReportFailure(q) ==
    /\ At(q, "reporting")
    /\ To(q, "ended")
    /\ UNCHANGED <<queueVars, asking, sent, audit, botFaults>>

\* Mutant of RunNext: the queue stops after one question.
RunNextNot(r) ==
    /\ r \in running
    /\ \A q \in Questions : RoomOf[q] = r => ~Active(q)
    /\ running' = running \ {r}
    /\ UNCHANGED <<stage, pending, cooling, asking, sent, audit, admitted, botFaults>>

\* run: the operation has ended, the next one of the room starts.
RunNext(r) ==
    /\ r \in running
    /\ \A q \in Questions : RoomOf[q] = r => ~Active(q)
    /\ IF pending[r] = << >>
       THEN running' = running \ {r} /\ UNCHANGED <<stage, pending>>
       ELSE /\ To(Head(pending[r]), "answering")
            /\ pending' = [pending EXCEPT ![r] = Tail(@)]
            /\ UNCHANGED running
    /\ UNCHANGED <<cooling, asking, sent, audit, admitted, botFaults>>

\* updatePermissions reaches the questions that come after it only.
UpdatePermissions(users) ==
    /\ users # asking
    /\ asking' = users
    /\ UNCHANGED <<stage, queueVars, sent, audit, botFaults>>

\* The queue and the questions live in memory.
BotEnds ==
    /\ Fault
    /\ stage' = [q \in Questions |->
         IF stage[q] \in {"new", "ended", "refused"} THEN stage[q] ELSE "dead"]
    /\ pending' = [r \in Rooms |-> << >>] /\ running' = {} /\ cooling' = {}
    /\ admitted' = [r \in Rooms |-> << >>]
    /\ UNCHANGED <<asking, sent, audit>>

----------------------------------------------------------------------------
QuestionsInit ==
    /\ stage = [q \in Questions |-> "new"]
    /\ pending = [r \in Rooms |-> << >>] /\ running = {} /\ cooling = {}
    /\ asking = Users
    /\ sent = [q \in Questions |-> 0]
    /\ audit = [q \in Questions |-> "none"]
    /\ admitted = [r \in Rooms |-> << >>]
    /\ botFaults = 0

QuestionStep(q) ==
    \/ Handle(q) \/ Submit(q) \/ Answered(q) \/ SendPart(q) \/ RecordDelivery(q) \/ ReportFailure(q)
    \/ RunNext(RoomOf[q])

QuestionsNext ==
    \/ \E q \in Questions :
        \/ Handle(q) \/ Submit(q) \/ Answered(q) \/ AnswerFails(q) \/ SendPart(q) \/ SendFails(q)
        \/ RecordDelivery(q) \/ RecordFails(q) \/ ReportFailure(q)
    \/ \E r \in Rooms : RunNext(r)
    \/ \E u \in Users : CooldownEnds(u)
    \/ \E users \in SUBSET Users : UpdatePermissions(users)
    \/ BotEnds

QuestionsSpec == QuestionsInit /\ [][QuestionsNext]_questionVars
QuestionsFairSpec == QuestionsSpec /\ \A q \in Questions : WF_questionVars(QuestionStep(q))

----------------------------------------------------------------------------
QuestionsTypeOK ==
    /\ stage \in [Questions -> Stages]
    /\ pending \in [Rooms -> Seq(Questions)] /\ running \subseteq Rooms
    /\ cooling \subseteq Users /\ asking \subseteq Users
    /\ sent \in [Questions -> 0..Parts]
    /\ audit \in [Questions -> {"none", "pending", "delivered", "failed"}]
    /\ admitted \in [Rooms -> Seq(Questions)]
    /\ botFaults \in 0..MaxFaults

\* The questions of a room are answered one at a time and in the order in which they
\* were admitted: the waiting ones are the last of those admitted, only the one before
\* them may be in progress, and no question waits in a room whose queue stands still.
RoomInOrder == \A r \in Rooms :
    LET begun == Len(admitted[r]) - Len(pending[r])
    IN /\ begun >= 0
       /\ pending[r] = SubSeq(admitted[r], begun + 1, Len(admitted[r]))
       /\ Len(pending[r]) <= MaximumPending
       /\ pending[r] # << >> => r \in running
       /\ \A q \in Questions :
             RoomOf[q] = r /\ Active(q) => begun > 0 /\ q = admitted[r][begun]

\* The audit never calls an answer delivered of which a part is missing in Discord,
\* whichever requests fail and are repeated. (The converse does not hold: a message
\* may be posted although the request that posts it fails.)
AuditIsTrue == \A q \in Questions : audit[q] = "delivered" => sent[q] = Parts

\* What members see and what the audit says of it are in order.
AnswersInOrder == RoomInOrder /\ AuditIsTrue

\* Every message that mentions the bot is answered, refused or reported as failed,
\* unless the process ends: no failure leaves a room's queue standing.
QuestionsEnd == \A q \in Questions :
    At(q, "new") ~> stage[q] \in {"ended", "refused", "dead"}
=============================================================================
