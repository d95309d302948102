---------------------------- MODULE ProgressProofs ----------------------------
(***************************************************************************)
(* The order of the answers to the bot's questions and the truth of their    *)
(* audit, for any number of questions, members, rooms, message parts and     *)
(* faults; the cover of the active jobs by a page's own poll, for any number *)
(* of jobs, monitors, status reads, commands and faults; and both of the two *)
(* side by side.                                                             *)
(***************************************************************************)
EXTENDS MCProgress, SequenceTheorems, TLAPS

-----------------------------------------------------------------------------
(* The questions: the inductive invariant. *)

Begun(r) == Len(admitted[r]) - Len(pending[r])

\* RoomInOrder, element by element. It is inductive once it is known that the
\* waiting questions are distinct, wait for nothing else, and that a room in which
\* a question is in progress is running.
QueueInv(r) ==
    /\ Begun(r) >= 0
    /\ \A i \in 1..Len(pending[r]) :
          /\ pending[r][i] = admitted[r][Begun(r) + i]
          /\ At(pending[r][i], "waiting") /\ RoomOf[pending[r][i]] = r
    /\ \A i, j \in 1..Len(pending[r]) : i # j => pending[r][i] # pending[r][j]
    /\ Len(pending[r]) <= MaximumPending
    /\ pending[r] # << >> => r \in running
    /\ \A q \in Questions :
          RoomOf[q] = r /\ Active(q) =>
              r \in running /\ Begun(r) > 0 /\ q = admitted[r][Begun(r)]

\* All parts are visible when the delivery is recorded, not all before the last one
\* has been sent.
AuditInv(q) ==
    /\ audit[q] = "delivered" => sent[q] = Parts
    /\ stage[q] \in {"new", "capturing", "waiting", "answering", "sending"} => sent[q] < Parts
    /\ stage[q] \in {"recording", "confirming"} => sent[q] = Parts

IInv ==
    /\ QuestionsTypeOK
    /\ \A r \in Rooms : QueueInv(r)
    /\ \A q \in Questions : AuditInv(q)

USE QuestionsAssumption DEF questionVars, queueVars, At, To, Fault

-----------------------------------------------------------------------------
(* The questions: types. *)

LEMMA InitType == QuestionsInit => QuestionsTypeOK
BY DEF QuestionsInit, QuestionsTypeOK, Stages

LEMMA NextType ==
    ASSUME IInv, [QuestionsNext]_questionVars
    PROVE  QuestionsTypeOK'
<1> USE DEF QuestionsTypeOK, Stages
<1>0. QuestionsTypeOK /\ \A q \in Questions : AuditInv(q)
    BY DEF IInv
<1>1. ASSUME NEW q \in Questions, Handle(q) PROVE QuestionsTypeOK'
    BY <1>0, <1>1 DEF Handle
<1>2. ASSUME NEW q \in Questions, Submit(q) PROVE QuestionsTypeOK'
  <2> DEFINE r == RoomOf[q]
  <2>1. r \in Rooms /\ AuthorOf[q] \in Users
      OBVIOUS
  <2>2. \A s \in Rooms : /\ Append(pending[s], q) \in Seq(Questions)
                         /\ Append(admitted[s], q) \in Seq(Questions)
      BY <1>0, AppendProperties
  <2>3. CASE AuthorOf[q] \in cooling \/ Full(r)
      BY <1>0, <1>2, <2>3 DEF Submit
  <2>4. CASE ~(AuthorOf[q] \in cooling \/ Full(r)) /\ r \in running
      BY <1>0, <1>2, <2>1, <2>2, <2>4 DEF Submit
  <2>5. CASE ~(AuthorOf[q] \in cooling \/ Full(r)) /\ r \notin running
      BY <1>0, <1>2, <2>1, <2>2, <2>5 DEF Submit
  <2> QED
      BY <2>3, <2>4, <2>5
<1>3. ASSUME NEW q \in Questions, Answered(q) \/ AnswerFails(q) PROVE QuestionsTypeOK'
  <2>1. /\ UNCHANGED <<queueVars, asking, sent>>
        /\ stage' = [stage EXCEPT ![q] = "sending"] \/ stage' = [stage EXCEPT ![q] = "reporting"]
      BY <1>3 DEF Answered, AnswerFails
  <2>2. botFaults' \in 0..MaxFaults
      BY <1>0, <1>3 DEF Answered, AnswerFails
  <2>3. audit' = audit \/ audit' = [audit EXCEPT ![q] = "pending"]
      BY <1>3 DEF Answered, AnswerFails
  <2>4. audit' \in [Questions -> {"none", "pending", "delivered", "failed"}]
      BY <1>0, <2>3
  <2> QED
      BY <1>0, <2>1, <2>2, <2>4
<1>4. ASSUME NEW q \in Questions, SendPart(q) \/ SendFails(q) PROVE QuestionsTypeOK'
  <2>1. /\ UNCHANGED <<queueVars, asking, audit>> /\ sent[q] < Parts
        /\ \E s \in {"recording", "sending", "failing"} : stage' = [stage EXCEPT ![q] = s]
      BY <1>0, <1>4 DEF SendPart, SendFails, AuditInv
  <2>2. botFaults' \in 0..MaxFaults
      BY <1>0, <1>4 DEF SendPart, SendFails
  <2>3. sent' = sent \/ sent' = [sent EXCEPT ![q] = @ + 1]
      BY <1>4 DEF SendPart, SendFails
  <2>4. sent' \in [Questions -> 0..Parts]
    <3>1. sent[q] + 1 \in 0..Parts
        BY <1>0, <2>1
    <3> QED
        BY <1>0, <2>3, <3>1
  <2> QED
      BY <1>0, <2>1, <2>2, <2>4
<1>5. ASSUME NEW q \in Questions, RecordDelivery(q) \/ RecordFails(q) PROVE QuestionsTypeOK'
  <2>1. /\ UNCHANGED <<queueVars, asking, sent>>
        /\ \/ stage' = [stage EXCEPT ![q] = "ended"]
           \/ stage' = [stage EXCEPT ![q] = "confirming"]
           \/ stage' = [stage EXCEPT ![q] = "reporting"]
    <3>1. AfterRecord(q) \in {"ended", "reporting"}
        BY DEF AfterRecord
    <3> QED
        BY <1>5, <3>1 DEF RecordDelivery, RecordFails
  <2>2. botFaults' \in 0..MaxFaults
      BY <1>0, <1>5 DEF RecordDelivery, RecordFails
  <2>3. audit' = audit \/ audit' = [audit EXCEPT ![q] = RecordedAs(q)]
      BY <1>5 DEF RecordDelivery, RecordFails
  <2>4. audit' \in [Questions -> {"none", "pending", "delivered", "failed"}]
      BY <1>0, <2>3 DEF RecordedAs
  <2> QED
      BY <1>0, <2>1, <2>2, <2>4
<1>6. ASSUME NEW q \in Questions, ReportFailure(q) PROVE QuestionsTypeOK'
    BY <1>0, <1>6 DEF ReportFailure
<1>7. ASSUME NEW r \in Rooms, RunNext(r) PROVE QuestionsTypeOK'
  <2>1. CASE pending[r] = << >>
      BY <1>0, <1>7, <2>1 DEF RunNext
  <2>2. CASE pending[r] # << >>
    <3>1. Head(pending[r]) \in Questions /\ Tail(pending[r]) \in Seq(Questions)
        BY <1>0, <2>2, HeadTailProperties
    <3> QED
        BY <1>0, <1>7, <2>2, <3>1 DEF RunNext
  <2> QED
      BY <2>1, <2>2
<1>8. ASSUME \/ \E u \in Users : CooldownEnds(u)
             \/ \E users \in SUBSET Users : UpdatePermissions(users)
             \/ UNCHANGED questionVars
      PROVE  QuestionsTypeOK'
    BY <1>0, <1>8 DEF CooldownEnds, UpdatePermissions
<1>9. CASE BotEnds
  <2>1. << >> \in Seq(Questions)
      BY EmptySeq
  <2> QED
      BY <1>0, <1>9, <2>1 DEF BotEnds
<1> QED
    BY <1>1, <1>2, <1>3, <1>4, <1>5, <1>6, <1>7, <1>8, <1>9 DEF QuestionsNext

-----------------------------------------------------------------------------
(* The queues. *)

\* A step that moves questions that do not wait, and none into progress.
LEMMA QueueKept ==
    ASSUME QuestionsTypeOK, NEW r \in Rooms, QueueInv(r),
           UNCHANGED <<pending, running, admitted>>,
           \A q \in Questions : At(q, "waiting") => stage'[q] = stage[q],
           \A q \in Questions : Active(q)' => Active(q)
    PROVE  QueueInv(r)'
<1>1. \A i \in 1..Len(pending[r]) : pending[r][i] \in Questions
    BY DEF QuestionsTypeOK
<1> QED
    BY <1>1 DEF QueueInv, Begun

\* A step of another room, which moves questions of that room only.
LEMMA QueueOfOthers ==
    ASSUME QuestionsTypeOK, NEW r \in Rooms, QueueInv(r),
           pending'[r] = pending[r], admitted'[r] = admitted[r],
           r \in running' <=> r \in running,
           \A q \in Questions : RoomOf[q] = r => stage'[q] = stage[q]
    PROVE  QueueInv(r)'
<1>1. \A i \in 1..Len(pending[r]) : pending[r][i] \in Questions
    BY ElementOfSeq DEF QuestionsTypeOK
<1>2. Begun(r)' = Begun(r)
    BY DEF Begun
<1>3. \A q \in Questions : RoomOf[q] = r => (Active(q)' <=> Active(q))
    BY DEF Active
<1>4. \A i \in 1..Len(pending[r]) :
          At(pending[r][i], "waiting")' /\ RoomOf[pending[r][i]] = r
    BY <1>1 DEF QueueInv
<1> QED
    BY <1>2, <1>3, <1>4 DEF QueueInv

LEMMA TypeFacts ==
    ASSUME IInv, NEW r \in Rooms
    PROVE  /\ pending[r] \in Seq(Questions) /\ admitted[r] \in Seq(Questions)
           /\ \A i \in 1..Len(pending[r]) : pending[r][i] \in Questions
           /\ Len(pending[r]) \in Nat /\ Len(admitted[r]) \in Nat
           /\ QueueInv(r)
           /\ stage \in [Questions -> Stages]
           /\ pending \in [Rooms -> Seq(Questions)] /\ admitted \in [Rooms -> Seq(Questions)]
<1>1. pending[r] \in Seq(Questions) /\ admitted[r] \in Seq(Questions)
    BY DEF IInv, QuestionsTypeOK
<1> QED
    BY <1>1, ElementOfSeq, LenProperties DEF IInv, QuestionsTypeOK

LEMMA SubmitQueue ==
    ASSUME IInv, NEW q \in Questions, Submit(q), NEW r \in Rooms
    PROVE  QueueInv(r)'
<1>0. /\ pending[r] \in Seq(Questions) /\ admitted[r] \in Seq(Questions)
      /\ \A i \in 1..Len(pending[r]) : pending[r][i] \in Questions
      /\ Len(pending[r]) \in Nat /\ Len(admitted[r]) \in Nat
      /\ QueueInv(r)
      /\ stage \in [Questions -> Stages]
      /\ pending \in [Rooms -> Seq(Questions)] /\ admitted \in [Rooms -> Seq(Questions)]
    BY TypeFacts
<1>1. /\ stage[q] = "capturing" /\ stage'[q] # "capturing"
      /\ \A x \in Questions \ {q} : stage'[x] = stage[x]
    BY <1>0 DEF Submit
<1>2. CASE AuthorOf[q] \in cooling \/ Full(RoomOf[q])
  <2>1. UNCHANGED <<pending, running, admitted>> /\ stage'[q] = "refused"
      BY <1>2, <1>0 DEF Submit
  <2>2. \A x \in Questions : At(x, "waiting") => stage'[x] = stage[x]
      BY <1>1
  <2>3. \A x \in Questions : Active(x)' => Active(x)
      BY <1>1, <2>1 DEF Active
  <2> QED
      BY <2>1, <2>2, <2>3, QueueKept, <1>0 DEF IInv
<1>3. CASE ~(AuthorOf[q] \in cooling \/ Full(RoomOf[q])) /\ r # RoomOf[q]
  <2>1. /\ pending'[r] = pending[r] /\ admitted'[r] = admitted[r]
        /\ running' = running \cup {RoomOf[q]}
      BY <1>3, <1>0 DEF Submit
  <2>2. r \in running' <=> r \in running
      BY <1>3, <2>1
  <2>3. \A x \in Questions : RoomOf[x] = r => stage'[x] = stage[x]
      BY <1>1, <1>3
  <2> QED
      BY <2>1, <2>2, <2>3, QueueOfOthers, <1>0 DEF IInv
<1>4. CASE ~(AuthorOf[q] \in cooling \/ Full(RoomOf[q])) /\ r = RoomOf[q]
  <2> DEFINE A == admitted[r]
             W == pending[r]
             a == Len(A)
             w == Len(W)
             A2 == Append(A, q)
             W2 == Append(W, q)
  <2>1. admitted'[r] = A2 /\ r \in running'
      BY <1>4, <1>0 DEF Submit
  <2>2. a \in Nat /\ Len(A2) = a + 1 /\ A2[a + 1] = q /\ \A i \in 1..a : A2[i] = A[i]
      BY <1>0, AppendProperties
  <2>3. w \in Nat /\ Len(W2) = w + 1 /\ W2[w + 1] = q /\ \A i \in 1..w : W2[i] = W[i]
      BY <1>0, AppendProperties
  <2>4. \A i \in 1..w : /\ W[i] \in Questions /\ W[i] # q /\ RoomOf[W[i]] = r
                        /\ stage'[W[i]] = "waiting" /\ W[i] = A[(a - w) + i]
      BY ZenonT(60), <1>1, <1>0 DEF QueueInv, Begun
  <2>5. a >= w /\ w <= MaximumPending /\ \A i, j \in 1..w : i # j => W[i] # W[j]
      BY <1>0 DEF QueueInv, Begun
  <2>6. Begun(r)' = Len(admitted'[r]) - Len(pending'[r])
      BY DEF Begun
  <2>7. ASSUME NEW x \in Questions, RoomOf[x] = r, Active(x)
        PROVE  r \in running /\ a - w > 0 /\ x = A[a - w]
      BY <1>0, <2>7 DEF QueueInv, Begun
  <2>8. CASE r \in running
    <3>1. pending'[r] = W2 /\ stage'[q] = "waiting"
        BY <1>4, <2>8, <1>0 DEF Submit
    <3>2. w < MaximumPending
        BY <1>4, <2>3, <2>5, <2>8 DEF Full
    <3> HIDE DEF a, w, A2, W2
    <3>3. Begun(r)' = a - w
        BY <2>1, <2>2, <2>3, <2>6, <3>1
    <3>4. ASSUME NEW i \in 1..(w + 1)
          PROVE  W2[i] = A2[(a - w) + i] /\ stage'[W2[i]] = "waiting" /\ RoomOf[W2[i]] = r
      <4>1. CASE i = w + 1
        <5>1. (a - w) + i = a + 1
            BY <2>2, <2>3, <4>1
        <5> QED
            BY <1>4, <2>2, <2>3, <3>1, <4>1, <5>1
      <4>2. CASE i # w + 1
        <5>1. i \in 1..w
            BY <2>3, <4>2
        <5>2. (a - w) + i \in 1..a
            BY <2>2, <2>3, <2>5, <5>1
        <5>3. W2[i] = W[i] /\ A2[(a - w) + i] = A[(a - w) + i]
            BY <2>2, <2>3, <5>1, <5>2
        <5> QED
            BY <2>4, <5>1, <5>3
      <4> QED
          BY <4>1, <4>2
    <3>5. ASSUME NEW i \in 1..(w + 1), NEW j \in 1..(w + 1), i # j
          PROVE  W2[i] # W2[j]
      <4>1. (i \in 1..w \/ i = w + 1) /\ (j \in 1..w \/ j = w + 1)
          BY <2>3
      <4> QED
          BY <2>3, <2>4, <2>5, <3>5, <4>1
    <3>6. ASSUME NEW x \in Questions, RoomOf[x] = r, Active(x)'
          PROVE  a - w > 0 /\ x = A2[a - w]
      <4>1. x # q /\ Active(x)
          BY <1>1, <3>1, <3>6 DEF Active
      <4>2. a - w > 0 /\ x = A[a - w]
          BY <2>7, <3>6, <4>1
      <4>3. a - w \in 1..a
          BY <2>2, <2>3, <4>2
      <4> QED
          BY <2>2, <4>2, <4>3
    <3>7. w + 1 <= MaximumPending /\ a - w >= 0
        BY <2>2, <2>3, <2>5, <3>2
    <3> QED
        BY <2>1, <2>3, <3>1, <3>3, <3>4, <3>5, <3>6, <3>7 DEF QueueInv
  <2>9. CASE r \notin running
    <3>1. W = << >> /\ w = 0
        BY <2>9, <1>0 DEF QueueInv
    <3>2. pending'[r] = W
        BY <1>4, <2>9 DEF Submit
    <3>3. \A x \in Questions : RoomOf[x] = r /\ Active(x)' => x = q
        BY <1>1, <2>7, <2>9 DEF Active
    <3>4. Len(pending'[r]) = w
        BY <3>2
    <3> HIDE DEF a, w, A2
    <3>5. Begun(r)' = a + 1
        BY <2>1, <2>2, <2>6, <3>1, <3>4
    <3> QED
        BY <2>1, <2>2, <2>5, <3>1, <3>2, <3>3, <3>4, <3>5 DEF QueueInv
  <2> QED
      BY <2>8, <2>9
<1> QED
    BY <1>2, <1>3, <1>4

LEMMA RunNextQueue ==
    ASSUME IInv, NEW s \in Rooms, RunNext(s), NEW r \in Rooms
    PROVE  QueueInv(r)'
<1>0. /\ pending[r] \in Seq(Questions) /\ admitted[r] \in Seq(Questions)
      /\ \A i \in 1..Len(pending[r]) : pending[r][i] \in Questions
      /\ Len(pending[r]) \in Nat /\ Len(admitted[r]) \in Nat
      /\ QueueInv(r)
      /\ stage \in [Questions -> Stages]
      /\ pending \in [Rooms -> Seq(Questions)] /\ admitted \in [Rooms -> Seq(Questions)]
    BY TypeFacts
<1>9. /\ pending[s] \in Seq(Questions) /\ admitted[s] \in Seq(Questions)
      /\ \A i \in 1..Len(pending[s]) : pending[s][i] \in Questions
      /\ Len(pending[s]) \in Nat /\ Len(admitted[s]) \in Nat
      /\ QueueInv(s)
      /\ stage \in [Questions -> Stages]
      /\ pending \in [Rooms -> Seq(Questions)] /\ admitted \in [Rooms -> Seq(Questions)]
    BY TypeFacts
<1>1. CASE pending[s] = << >>
  <2>1. UNCHANGED <<pending, admitted, stage>> /\ running' = running \ {s}
      BY <1>1 DEF RunNext
  <2>2. \A x \in Questions : stage'[x] = stage[x]
      BY <2>1
  <2>3. CASE r # s
    <3>1. r \in running' <=> r \in running
        BY <2>1, <2>3
    <3> QED
        BY <2>1, <2>2, <3>1, QueueOfOthers, <1>0 DEF IInv
  <2>4. CASE r = s
    <3>1. \A x \in Questions : RoomOf[x] = r => ~Active(x)'
        BY <2>1, <2>4 DEF RunNext, Active
    <3>2. pending'[r] = << >> /\ Begun(r)' = Begun(r) /\ Len(pending'[r]) = 0
        BY <1>1, <2>1, <2>4 DEF Begun
    <3>3. Begun(r) >= 0
        BY <1>0 DEF QueueInv
    <3> QED
        BY <3>1, <3>2, <3>3 DEF QueueInv
  <2> QED
      BY <2>3, <2>4
<1>2. CASE pending[s] # << >>
  <2> DEFINE W == pending[s]
             next == W[1]
  <2>1. /\ W \in Seq(Questions) /\ Len(W) \in Nat \ {0} /\ Head(W) = next /\ next \in Questions
        /\ Len(Tail(W)) = Len(W) - 1 /\ \A i \in 1..(Len(W) - 1) : Tail(W)[i] = W[i + 1]
      BY <1>2, <1>9, HeadTailProperties, EmptySeq
  <2>2. /\ pending' = [pending EXCEPT ![s] = Tail(W)]
        /\ stage' = [stage EXCEPT ![next] = "answering"]
        /\ UNCHANGED <<running, admitted>>
      BY <1>2, <2>1 DEF RunNext
  <2>3. RoomOf[next] = s /\ stage[next] = "waiting" /\ s \in running
      BY <1>2, <2>1, <1>9 DEF QueueInv
  <2>4. /\ stage'[next] = "answering"
        /\ \A x \in Questions \ {next} : stage'[x] = stage[x]
      BY <2>1, <2>2, <1>0
  <2>5. CASE r # s
    <3>1. pending'[r] = pending[r]
        BY <2>2, <2>5, <1>0
    <3>2. \A x \in Questions : RoomOf[x] = r => stage'[x] = stage[x]
        BY <2>3, <2>4, <2>5
    <3> QED
        BY <2>2, <3>1, <3>2, QueueOfOthers, <1>0 DEF IInv
  <2>6. CASE r = s
    <3>1. pending'[r] = Tail(W) /\ admitted'[r] = admitted[r] /\ r \in running'
        BY <2>2, <2>3, <2>6, <1>0
    <3>2. Begun(r)' = Begun(r) + 1 /\ Begun(r) \in Nat
        BY <2>1, <2>6, <3>1, <1>0 DEF Begun, QueueInv
    <3>3. ASSUME NEW i \in 1..(Len(W) - 1)
          PROVE  /\ Tail(W)[i] = admitted[r][Begun(r) + 1 + i]
                 /\ stage'[Tail(W)[i]] = "waiting" /\ RoomOf[Tail(W)[i]] = r
      <4>1. i + 1 \in 1..Len(W) /\ i + 1 # 1 /\ 1 \in 1..Len(W)
          BY <2>1
      <4>2. W[i + 1] \in Questions /\ W[i + 1] # next /\ RoomOf[W[i + 1]] = r
          BY <2>6, <4>1, <1>0 DEF QueueInv
      <4>3. W[i + 1] = admitted[r][Begun(r) + (i + 1)] /\ stage[W[i + 1]] = "waiting"
          BY <2>6, <4>1, <1>0 DEF QueueInv
      <4>4. Begun(r) + (i + 1) = Begun(r) + 1 + i
          BY <3>2
      <4> QED
          BY <2>1, <2>4, <4>2, <4>3, <4>4
    <3>4. ASSUME NEW i \in 1..(Len(W) - 1), NEW j \in 1..(Len(W) - 1), i # j
          PROVE  Tail(W)[i] # Tail(W)[j]
      <4>1. i + 1 \in 1..Len(W) /\ j + 1 \in 1..Len(W) /\ i + 1 # j + 1
          BY <2>1, <3>4
      <4> QED
          BY <2>1, <2>6, <4>1, <1>0 DEF QueueInv
    <3>5. \A x \in Questions : RoomOf[x] = r /\ Active(x)' => x = next
        BY <2>4, <2>6 DEF RunNext, Active
    <3>6. next = admitted[r][Begun(r) + 1]
        BY <2>1, <2>6, <1>0 DEF QueueInv
    <3>7. Len(Tail(W)) <= MaximumPending
      <4>1. Len(W) <= MaximumPending
          BY <2>6, <1>0 DEF QueueInv
      <4> QED
          BY <2>1, <4>1
    <3>8. Begun(r)' >= 0 /\ Begun(r)' > 0
        BY <3>2
    <3> HIDE DEF W, next
    <3> QED
        BY <2>1, <3>1, <3>2, <3>3, <3>4, <3>5, <3>6, <3>7, <3>8 DEF QueueInv
  <2> QED
      BY <2>5, <2>6
<1> QED
    BY <1>1, <1>2

LEMMA NextQueue ==
    ASSUME IInv, [QuestionsNext]_questionVars, NEW r \in Rooms
    PROVE  QueueInv(r)'
<1>0. QuestionsTypeOK /\ QueueInv(r) /\ stage \in [Questions -> Stages]
    BY DEF IInv, QuestionsTypeOK
<1>1. CASE \E q \in Questions : Submit(q)
    BY <1>1, SubmitQueue
<1>2. CASE \E s \in Rooms : RunNext(s)
    BY <1>2, RunNextQueue
<1>3. CASE BotEnds
  <2>1. pending'[r] = << >> /\ admitted'[r] = << >> /\ Len(pending'[r]) = 0 /\ Len(admitted'[r]) = 0
      BY <1>3 DEF BotEnds
  <2>2. \A q \in Questions : ~Active(q)'
      BY <1>3 DEF BotEnds, Active
  <2> QED
      BY <2>1, <2>2 DEF QueueInv, Begun
<1>4. ASSUME NEW q \in Questions,
             \/ Handle(q) \/ Answered(q) \/ AnswerFails(q) \/ SendPart(q) \/ SendFails(q)
             \/ RecordDelivery(q) \/ RecordFails(q) \/ ReportFailure(q)
      PROVE  QueueInv(r)'
  <2>1. UNCHANGED <<pending, running, admitted>> /\ stage[q] # "waiting"
      BY <1>4 DEF Handle, Answered, AnswerFails, SendPart, SendFails, RecordDelivery,
                  RecordFails, ReportFailure
  <2>2. /\ \A x \in Questions \ {q} : stage'[x] = stage[x]
        /\ Active(q)' => Active(q)
    <3>1. CASE Handle(q)
        BY <1>0, <3>1 DEF Handle, Active
    <3>2. CASE ~Handle(q)
      <4>1. Active(q)
          BY <1>4, <3>2 DEF Answered, AnswerFails, SendPart, SendFails, RecordDelivery,
                            RecordFails, ReportFailure, Active
      <4>2. \A x \in Questions \ {q} : stage'[x] = stage[x]
          BY <1>0, <1>4, <3>2 DEF Answered, AnswerFails, SendPart, SendFails,
                                  RecordDelivery, RecordFails, ReportFailure
      <4> QED
          BY <4>1, <4>2
    <3> QED
        BY <3>1, <3>2
  <2>3. \A x \in Questions : Active(x)' => Active(x)
      BY <2>2 DEF Active
  <2>4. \A x \in Questions : At(x, "waiting") => stage'[x] = stage[x]
      BY <2>1, <2>2
  <2> QED
      BY <1>0, <2>1, <2>3, <2>4, QueueKept
<1>5. CASE UNCHANGED <<stage, pending, running, admitted>>
    BY <1>0, <1>5, QueueKept DEF Active
<1> QED
    BY <1>1, <1>2, <1>3, <1>4, <1>5 DEF QuestionsNext, CooldownEnds, UpdatePermissions

-----------------------------------------------------------------------------
(* The audit. *)

LEMMA NextAudit ==
    ASSUME IInv, [QuestionsNext]_questionVars, NEW x \in Questions
    PROVE  AuditInv(x)'
<1> USE DEF QuestionsTypeOK, AuditInv
<1>0. QuestionsTypeOK /\ \A q \in Questions : AuditInv(q)
    BY DEF IInv
<1>1. ASSUME NEW q \in Questions, Handle(q) \/ Submit(q) PROVE AuditInv(x)'
    BY <1>0, <1>1 DEF Handle, Submit
<1>2. ASSUME NEW q \in Questions, Answered(q) \/ AnswerFails(q) PROVE AuditInv(x)'
    BY <1>0, <1>2 DEF Answered, AnswerFails
<1>3. ASSUME NEW q \in Questions, SendPart(q) \/ SendFails(q) PROVE AuditInv(x)'
  <2>1. /\ audit' = audit /\ sent[q] < Parts /\ stage[q] = "sending" /\ sent[q] \in Nat
        /\ \A y \in Questions \ {q} : stage'[y] = stage[y]
      BY <1>0, <1>3 DEF SendPart, SendFails
  <2>2. \A y \in Questions \ {q} : sent'[y] = sent[y]
    <3>1. sent' = sent \/ sent' = [sent EXCEPT ![q] = @ + 1]
        BY <1>3 DEF SendPart, SendFails
    <3> QED
        BY <1>0, <3>1
  <2>3. audit[q] # "delivered"
      BY <1>0, <2>1
  <2>4. CASE SendPart(q)
    <3>1. sent'[q] = sent[q] + 1 /\ stage'[q] = IF sent[q] + 1 = Parts THEN "recording" ELSE "sending"
        BY <1>0, <2>4 DEF SendPart
    <3>2. CASE x = q
      <4>1. CASE sent[q] + 1 = Parts
          BY <2>1, <2>3, <3>1, <3>2, <4>1
      <4>2. CASE sent[q] + 1 # Parts
        <5>1. sent[q] + 1 < Parts
            BY <2>1, <4>2
        <5> QED
            BY <2>1, <2>3, <3>1, <3>2, <4>2, <5>1
      <4> QED
          BY <4>1, <4>2
    <3>3. CASE x # q
        BY <1>0, <2>1, <2>2, <3>3
    <3> QED
        BY <3>2, <3>3
  <2>5. CASE SendFails(q)
    <3>1. stage'[q] = "failing"
        BY <1>0, <2>5 DEF SendFails
    <3> QED
        BY <1>0, <2>1, <2>2, <2>3, <3>1
  <2> QED
      BY <1>3, <2>4, <2>5
<1>4. ASSUME NEW q \in Questions, RecordDelivery(q) \/ RecordFails(q) PROVE AuditInv(x)'
    BY <1>0, <1>4 DEF RecordDelivery, RecordFails, RecordedAs, AfterRecord
<1>5. ASSUME NEW q \in Questions, ReportFailure(q) PROVE AuditInv(x)'
    BY <1>0, <1>5 DEF ReportFailure
<1>6. ASSUME NEW r \in Rooms, RunNext(r) PROVE AuditInv(x)'
  <2>1. CASE pending[r] = << >>
      BY <1>0, <1>6, <2>1 DEF RunNext
  <2>2. CASE pending[r] # << >>
    <3>1. pending[r] \in Seq(Questions) /\ QueueInv(r)
        BY DEF IInv
    <3>2. Head(pending[r]) = pending[r][1] /\ 1 \in 1..Len(pending[r])
          /\ Head(pending[r]) \in Questions
        BY <2>2, <3>1, HeadTailProperties, EmptySeq
    <3>3. stage[Head(pending[r])] = "waiting"
        BY <3>1, <3>2 DEF QueueInv
    <3> QED
        BY <1>0, <1>6, <2>2, <3>2, <3>3 DEF RunNext
  <2> QED
      BY <2>1, <2>2
<1>7. CASE BotEnds
    BY <1>0, <1>7 DEF BotEnds
<1>8. CASE UNCHANGED <<stage, sent, audit>>
    BY <1>0, <1>8
<1> QED
    BY <1>1, <1>2, <1>3, <1>4, <1>5, <1>6, <1>7, <1>8
    DEF QuestionsNext, CooldownEnds, UpdatePermissions

-----------------------------------------------------------------------------
(* The questions: the theorem. *)

LEMMA InitIInv == QuestionsInit => IInv
<1> SUFFICES ASSUME QuestionsInit PROVE IInv
    OBVIOUS
<1>1. \A r \in Rooms : Len(pending[r]) = 0 /\ Len(admitted[r]) = 0 /\ pending[r] = << >>
    BY DEF QuestionsInit
<1>2. \A q \in Questions : stage[q] = "new" /\ sent[q] = 0 /\ audit[q] = "none"
    BY DEF QuestionsInit
<1>3. \A r \in Rooms : Begun(r) = 0
    BY <1>1 DEF Begun
<1>4. \A q \in Questions : ~Active(q)
    BY <1>2 DEF Active
<1>5. \A r \in Rooms : QueueInv(r)
    BY <1>1, <1>3, <1>4 DEF QueueInv
<1>6. \A q \in Questions : AuditInv(q)
  <2>1. 0 < Parts
      OBVIOUS
  <2> QED
      BY <1>2, <2>1 DEF AuditInv
<1> QED
    BY <1>5, <1>6, InitType DEF IInv

LEMMA NextIInv == IInv /\ [QuestionsNext]_questionVars => IInv'
BY NextType, NextQueue, NextAudit DEF IInv

LEMMA InOrder == IInv => AnswersInOrder
<1> SUFFICES ASSUME IInv PROVE AnswersInOrder
    OBVIOUS
<1>1. ASSUME NEW r \in Rooms
      PROVE  pending[r] = SubSeq(admitted[r], Begun(r) + 1, Len(admitted[r]))
  <2> DEFINE A == admitted[r]
             W == pending[r]
             b == Begun(r)
             T == SubSeq(A, b + 1, Len(A))
  <2>1. /\ A \in Seq(Questions) /\ W \in Seq(Questions) /\ Len(A) \in Nat /\ Len(W) \in Nat
        /\ \A i \in 1..Len(A) : A[i] \in Questions
        /\ QueueInv(r)
      BY TypeFacts, ElementOfSeq
  <2>2. b = Len(A) - Len(W) /\ b >= 0 /\ \A i \in 1..Len(W) : W[i] = A[b + i]
      BY <2>1 DEF QueueInv, Begun
  <2> HIDE DEF A, W, b
  <2>3. b + 1 \in Int /\ Len(A) \in Int /\ \A i \in (b + 1)..Len(A) : A[i] \in Questions
      BY <2>1, <2>2
  <2>4. /\ T \in Seq(Questions)
        /\ Len(T) = IF b + 1 <= Len(A) THEN Len(A) - (b + 1) + 1 ELSE 0
        /\ \A i \in 1..(Len(A) - (b + 1) + 1) : T[i] = A[(b + 1) + i - 1]
      BY <2>3, SubSeqProperties
  <2> HIDE DEF T
  <2>5. Len(T) = Len(W) /\ \A i \in 1..Len(W) : T[i] = W[i]
    <3>1. Len(A) - (b + 1) + 1 = Len(W)
        BY <2>1, <2>2
    <3>2. Len(T) = Len(W)
        BY <2>1, <2>2, <2>4
    <3>3. ASSUME NEW i \in 1..Len(W) PROVE T[i] = W[i]
      <4>1. (b + 1) + i - 1 = b + i
          BY <2>1, <2>2
      <4> QED
          BY ZenonT(60), <2>2, <2>4, <3>1, <4>1
    <3> QED
        BY <3>2, <3>3
  <2>6. T = W
      BY <2>1, <2>4, <2>5, SeqEqual
  <2> QED
      BY <2>6 DEF T, W, A, b
<1>2. RoomInOrder
  <2>1. ASSUME NEW r \in Rooms PROVE QueueInv(r)
      BY DEF IInv
  <2> QED
      BY <1>1, <2>1 DEF RoomInOrder, QueueInv, Begun
<1>3. AuditIsTrue
    BY DEF AuditIsTrue, AuditInv, IInv
<1> QED
    BY <1>2, <1>3 DEF AnswersInOrder

\* Every room answers its questions one at a time and in the order of their
\* admission, and no audit row calls an answer delivered of which a part is missing,
\* for any number of members, rooms, parts, faults and restarts.
THEOREM AnswersStayInOrder == QuestionsSpec => []AnswersInOrder
BY InitIInv, NextIInv, InOrder, PTL DEF QuestionsSpec
-----------------------------------------------------------------------------
(* The live page: the inductive invariant. *)

LiveMonitor == [job : Jobs \cup {NoJob}, pc : {"off", "waiting", "read"}, active : BOOLEAN]
LiveRead == [pc : {"free", "sent", "answered"}, got : SUBSET Jobs]
LivePush == [job : Jobs, active : BOOLEAN]
LiveList == [jobs : SUBSET Jobs, pushed : SUBSET Jobs, hidden : BOOLEAN, timer : BOOLEAN]
LiveCommand == [op : {"none", "queue", "cancel", "retry"}, job : Jobs \cup {NoJob},
                pc : {"none", "sent", "answered"}]
LiveTally == [commands : 0..MaxCommands, faults : 0..MaxLiveFaults]

\* A monitor that polls, and a command under way, know their job.
JobsAreNamed ==
    /\ \A m \in Monitors : monitor[m].pc # "off" => monitor[m].job \in Jobs
    /\ command.pc # "none" => command.job \in Jobs /\ command.op # "none"

LiveInv == LiveTypeOK /\ JobsAreNamed /\ PollCoversActiveJobs

-----------------------------------------------------------------------------
(* The live page: its data. *)

LEMMA LiveTypes ==
  ASSUME LiveTypeOK
  PROVE  /\ local \in BOOLEAN /\ linked \in BOOLEAN /\ status \in [Jobs -> States]
         /\ monitor \in [Monitors -> LiveMonitor] /\ wire \in Seq(LivePush) /\ list \in LiveList
         /\ poll \in LiveRead /\ kept \in SUBSET Jobs /\ read \in [Reads -> LiveRead]
         /\ command \in LiveCommand /\ tally \in LiveTally
BY DEF LiveTypeOK, LiveMonitor, LiveRead, LivePush, LiveList, LiveCommand, LiveTally

LEMMA LiveTypesAgain ==
  ASSUME local' \in BOOLEAN, linked' \in BOOLEAN, status' \in [Jobs -> States],
         monitor' \in [Monitors -> LiveMonitor], wire' \in Seq(LivePush), list' \in LiveList,
         poll' \in LiveRead, kept' \in SUBSET Jobs, read' \in [Reads -> LiveRead],
         command' \in LiveCommand, tally' \in LiveTally
  PROVE  LiveTypeOK'
BY DEF LiveTypeOK, LiveMonitor, LiveRead, LivePush, LiveList, LiveCommand, LiveTally

\* Counting a command or a fault stays within the bounds.
LEMMA LiveCounts ==
  ASSUME tally \in LiveTally, Faulty \/ Commanded
  PROVE  tally' \in LiveTally
<1>1. tally.commands < MaxCommands => tally.commands + 1 \in 0..MaxCommands
    BY LiveAssumption DEF LiveTally
<1>2. tally.faults < MaxLiveFaults => tally.faults + 1 \in 0..MaxLiveFaults
    BY LiveAssumption DEF LiveTally
<1> QED
    BY <1>1, <1>2 DEF Faulty, Commanded, LiveTally

\* The poll is scheduled for a list with jobs on a visible page, and only for one.
LEMMA ScheduledFacts ==
  ASSUME NEW l \in LiveList
  PROVE  /\ Scheduled(l) \in LiveList
         /\ Scheduled(l).jobs = l.jobs /\ Scheduled(l).pushed = l.pushed /\ Scheduled(l).hidden = l.hidden
         /\ Scheduled(l).jobs # {} /\ ~Scheduled(l).hidden => Scheduled(l).timer
BY DEF Scheduled, LiveList

LEMMA RenderedFacts ==
  ASSUME NEW l \in LiveList, NEW jobs \in SUBSET Jobs
  PROVE  /\ Rendered(l, jobs) \in LiveList
         /\ Rendered(l, jobs).jobs # {} /\ ~Rendered(l, jobs).hidden => Rendered(l, jobs).timer
<1> DEFINE k == [l EXCEPT !.jobs = jobs]
<1>1. k \in LiveList
    BY DEF LiveList
<1> HIDE DEF k
<1>2. Scheduled(k) \in LiveList /\ (Scheduled(k).jobs # {} /\ ~Scheduled(k).hidden => Scheduled(k).timer)
    BY <1>1, ScheduledFacts
<1>3. Rendered(l, jobs) = Scheduled(k)
    BY DEF Rendered, k
<1> QED
    BY <1>2, <1>3

\* A job that is told to be active is scheduled for; one that is over leaves fewer to look at.
LEMMA ProgressFacts ==
  ASSUME LiveInv, NEW j \in Jobs, NEW active \in BOOLEAN, list' = Progress(j, active), poll' = poll
  PROVE  list' \in LiveList /\ PollCoversActiveJobs'
<1>1. list \in LiveList
    BY LiveTypes DEF LiveInv
<1>2. CASE active
  <2> DEFINE k == [list EXCEPT !.jobs = @ \cup {j}, !.pushed = @ \cup {j}]
  <2>1. k \in LiveList
      BY <1>1 DEF LiveList
  <2>2. list' = Scheduled(k)
      BY <1>2 DEF Progress
  <2> HIDE DEF k
  <2> QED
      BY <2>1, <2>2, ScheduledFacts DEF PollCoversActiveJobs
<1>3. CASE ~active
  <2>1. list' = [list EXCEPT !.jobs = @ \ {j}, !.pushed = @ \cup {j}]
      BY <1>3 DEF Progress
  <2>2. list' \in LiveList /\ list'.jobs = list.jobs \ {j} /\ list'.hidden = list.hidden /\ list'.timer = list.timer
      BY <1>1, <2>1, ZenonT(60) DEF LiveList
  <2> QED
      BY <2>2 DEF LiveInv, PollCoversActiveJobs
<1> QED
    BY <1>2, <1>3

\* The list that is kept is shown at once, and read again.
LEMMA RefreshStatusFacts ==
  ASSUME LiveInv, RefreshStatus
  PROVE  list' \in LiveList /\ read' \in [Reads -> LiveRead] /\ PollCoversActiveJobs'
<1>1. list \in LiveList /\ kept \in SUBSET Jobs /\ read \in [Reads -> LiveRead]
    BY LiveTypes DEF LiveInv
<1>2. list' = Rendered(list, kept)
    BY DEF RefreshStatus
<1>3. list' \in LiveList /\ PollCoversActiveJobs'
    BY <1>1, <1>2, RenderedFacts DEF PollCoversActiveJobs
<1>4. read' \in [Reads -> LiveRead]
    BY <1>1 DEF RefreshStatus, LiveRead
<1> QED
    BY <1>3, <1>4

\* Watching a job, or not, changes nothing but the monitor that starts.
LEMMA StartMonitorFacts ==
  ASSUME LiveInv, NEW j \in Jobs, StartMonitor(j)
  PROVE  /\ monitor' \in [Monitors -> LiveMonitor]
         /\ \A m \in Monitors : monitor'[m].pc # "off" => monitor'[m].job \in Jobs
<1>1. monitor \in [Monitors -> LiveMonitor] /\ \A m \in Monitors : monitor[m].pc # "off" => monitor[m].job \in Jobs
    BY LiveTypes DEF LiveInv, JobsAreNamed
<1>2. CASE UNCHANGED monitor
    BY <1>1, <1>2
<1>3. ASSUME NEW m \in Monitors,
             monitor' = [monitor EXCEPT ![m] = [FreeMonitor EXCEPT !.job = j, !.pc = "waiting"]]
      PROVE  /\ monitor' \in [Monitors -> LiveMonitor]
             /\ \A n \in Monitors : monitor'[n].pc # "off" => monitor'[n].job \in Jobs
  <2> DEFINE b == [FreeMonitor EXCEPT !.job = j, !.pc = "waiting"]
  <2>1. b \in LiveMonitor /\ b.job \in Jobs
      BY DEF FreeMonitor, LiveMonitor
  <2> HIDE DEF b
  <2>2. monitor' = [monitor EXCEPT ![m] = b]
      BY <1>3 DEF b
  <2> QED
      BY <1>1, <2>1, <2>2
<1> QED
    BY <1>2, <1>3 DEF StartMonitor
-----------------------------------------------------------------------------
(* The live page: each action keeps the inductive invariant. *)

LEMMA LiveStarts == LiveInit => LiveInv
<1> SUFFICES ASSUME LiveInit PROVE LiveInv
    OBVIOUS
<1>1. ActiveJobs \in SUBSET Jobs
    BY DEF ActiveJobs
<1>2. FreeRead \in LiveRead /\ NoCommand \in LiveCommand /\ [commands |-> 0, faults |-> 0] \in LiveTally
    BY LiveAssumption DEF FreeRead, LiveRead, NoCommand, LiveCommand, LiveTally
<1>3. list \in LiveList /\ PollCoversActiveJobs
  <2> DEFINE l == [jobs |-> {}, pushed |-> {}, hidden |-> FALSE, timer |-> FALSE]
  <2>1. l \in LiveList
      BY DEF LiveList
  <2>2. list = Rendered(l, ActiveJobs)
      BY DEF LiveInit
  <2> HIDE DEF l
  <2> QED
      BY <1>1, <2>1, <2>2, RenderedFacts DEF PollCoversActiveJobs
<1>4. PICK watch \in [Monitors -> Jobs \cup {NoJob}] :
        monitor = [m \in Monitors |-> [FreeMonitor EXCEPT !.job = watch[m],
                                          !.pc = IF watch[m] = NoJob THEN "off" ELSE "waiting"]]
    BY DEF LiveInit
<1>5. ASSUME NEW m \in Monitors
      PROVE  monitor[m] \in LiveMonitor /\ (monitor[m].pc # "off" => monitor[m].job \in Jobs)
  <2>1. /\ monitor[m] = [job |-> watch[m], pc |-> IF watch[m] = NoJob THEN "off" ELSE "waiting", active |-> FALSE]
        /\ watch[m] \in Jobs \cup {NoJob}
      BY <1>4 DEF FreeMonitor
  <2> QED
      BY <2>1 DEF LiveMonitor
<1>6. monitor \in [Monitors -> LiveMonitor]
    BY <1>4, <1>5
<1>7. status \in [Jobs -> States] /\ wire \in Seq(LivePush)
  <2>1. << >> \in Seq(LivePush)
      OBVIOUS
  <2> QED
      BY <2>1 DEF LiveInit, States
<1>8. LiveTypeOK
    BY <1>1, <1>2, <1>3, <1>6, <1>7 DEF LiveInit, LiveTypeOK, LiveMonitor, LiveRead, LivePush, LiveList,
       LiveCommand, LiveTally
<1>9. JobsAreNamed
    BY <1>5 DEF JobsAreNamed, LiveInit, NoCommand
<1> QED
    BY <1>3, <1>8, <1>9 DEF LiveInv

\* The backend's worker, the stream and the pushes.
LEMMA WorkerAndStreamKeep ==
  ASSUME LiveInv, (\E j \in Jobs : JobEnds(j)) \/ StreamBreaks \/ StreamConnects \/ PushArrives
  PROVE  LiveInv'
<1>1. /\ status \in [Jobs -> States] /\ wire \in Seq(LivePush) /\ list \in LiveList /\ tally \in LiveTally
      /\ linked \in BOOLEAN
    BY LiveTypes DEF LiveInv
<1>2. ASSUME NEW j \in Jobs, JobEnds(j) PROVE LiveInv'
  <2>1. status' \in [Jobs -> States]
      BY <1>1, <1>2 DEF JobEnds, States
  <2> QED
      BY <1>2, <2>1, LiveTypes, LiveTypesAgain DEF JobEnds, LiveInv, JobsAreNamed, PollCoversActiveJobs
<1>3. ASSUME StreamBreaks PROVE LiveInv'
  <2>1. << >> \in Seq(LivePush)
      OBVIOUS
  <2>2. tally' \in LiveTally /\ wire' \in Seq(LivePush) /\ linked' \in BOOLEAN
      BY <1>1, <1>3, <2>1, LiveCounts DEF StreamBreaks
  <2> QED
      BY <1>3, <2>2, LiveTypes, LiveTypesAgain DEF StreamBreaks, LiveInv, JobsAreNamed, PollCoversActiveJobs
<1>4. ASSUME StreamConnects PROVE LiveInv'
    BY <1>4, LiveTypes, LiveTypesAgain DEF StreamConnects, LiveInv, JobsAreNamed, PollCoversActiveJobs
<1>5. ASSUME PushArrives PROVE LiveInv'
  <2>1. Head(wire) \in LivePush /\ Tail(wire) \in Seq(LivePush)
      BY <1>1, <1>5, HeadTailProperties DEF PushArrives
  <2>2. Head(wire).job \in Jobs /\ Head(wire).active \in BOOLEAN
      BY <2>1 DEF LivePush
  <2>3. list' \in LiveList /\ PollCoversActiveJobs'
      BY <1>5, <2>2, ProgressFacts DEF PushArrives
  <2> QED
      BY <1>5, <2>1, <2>3, LiveTypes, LiveTypesAgain DEF PushArrives, LiveInv, JobsAreNamed
<1> QED
    BY <1>2, <1>3, <1>4, <1>5

\* The monitors.
LEMMA MonitorsKeep ==
  ASSUME LiveInv, NEW m \in Monitors, MonitorReads(m) \/ MonitorPublishes(m) \/ MonitorDies(m)
  PROVE  LiveInv'
<1>1. /\ monitor \in [Monitors -> LiveMonitor] /\ wire \in Seq(LivePush) /\ tally \in LiveTally
      /\ \A n \in Monitors : monitor[n].pc # "off" => monitor[n].job \in Jobs
      /\ monitor[m].pc # "off"
    BY LiveTypes DEF LiveInv, JobsAreNamed, MonitorReads, MonitorPublishes, MonitorDies
<1>2. FreeMonitor \in LiveMonitor /\ FreeMonitor.pc = "off"
    BY DEF FreeMonitor, LiveMonitor
<1>3. ASSUME monitor' \in [Monitors -> LiveMonitor], wire' \in Seq(LivePush), tally' \in LiveTally,
             \A n \in Monitors : monitor'[n].pc # "off" => monitor'[n].job \in Jobs,
             UNCHANGED <<local, status, linked, list, poll, kept, read, command>>
      PROVE  LiveInv'
    BY <1>3, LiveTypes, LiveTypesAgain DEF LiveInv, JobsAreNamed, PollCoversActiveJobs
<1>4. ASSUME MonitorReads(m) PROVE LiveInv'
  <2>1. /\ monitor' \in [Monitors -> LiveMonitor]
        /\ \A n \in Monitors : monitor'[n].job = monitor[n].job /\ (monitor[n].pc = "off" => monitor'[n].pc = "off")
      BY <1>1, <1>4, ZenonT(60) DEF MonitorReads, LiveMonitor
  <2> QED
      BY <1>1, <1>3, <1>4, <2>1 DEF MonitorReads
<1>5. ASSUME MonitorPublishes(m) PROVE LiveInv'
  <2>1. [job |-> monitor[m].job, active |-> monitor[m].active] \in LivePush
      BY <1>1 DEF LiveMonitor, LivePush
  <2>2. wire' \in Seq(LivePush)
      BY <1>1, <1>5, <2>1, AppendProperties DEF MonitorPublishes
  <2>3. /\ monitor' \in [Monitors -> LiveMonitor]
        /\ \A n \in Monitors : monitor'[n].pc # "off" => monitor'[n].job = monitor[n].job /\ monitor[n].pc # "off"
      BY <1>1, <1>2, <1>5 DEF MonitorPublishes, LiveMonitor
  <2> QED
      BY <1>1, <1>3, <1>5, <2>2, <2>3 DEF MonitorPublishes
<1>6. ASSUME MonitorDies(m) PROVE LiveInv'
  <2>1. tally' \in LiveTally
      BY <1>1, <1>6, LiveCounts DEF MonitorDies
  <2>2. /\ monitor' \in [Monitors -> LiveMonitor]
        /\ \A n \in Monitors : monitor'[n].pc # "off" => monitor'[n].job \in Jobs
      BY <1>1, <1>2, <1>6 DEF MonitorDies
  <2> QED
      BY <1>1, <1>3, <1>6, <2>1, <2>2 DEF MonitorDies
<1> QED
    BY <1>4, <1>5, <1>6

\* What a step of the page has to show: its list, its own requests and the counts.
LEMMA PageKeeps ==
  ASSUME LiveInv, list' \in LiveList, poll' \in LiveRead, kept' \in SUBSET Jobs,
         read' \in [Reads -> LiveRead], tally' \in LiveTally, PollCoversActiveJobs',
         UNCHANGED <<local, status, monitor, linked, wire, command>>
  PROVE  LiveInv'
BY LiveTypes, LiveTypesAgain DEF LiveInv, JobsAreNamed

LEMMA StatusReadsKeep ==
  ASSUME LiveInv, NEW x \in Reads, StatusRead(x) \/ StatusAnswered(x) \/ StatusFails(x)
  PROVE  LiveInv'
<1>1. /\ read \in [Reads -> LiveRead] /\ list \in LiveList /\ tally \in LiveTally /\ poll \in LiveRead
      /\ kept \in SUBSET Jobs /\ PollCoversActiveJobs
    BY LiveTypes DEF LiveInv
<1>2. FreeRead \in LiveRead /\ read[x].got \in SUBSET Jobs /\ [pc |-> "answered", got |-> ActiveJobs] \in LiveRead
    BY <1>1 DEF FreeRead, LiveRead, ActiveJobs
<1>3. ASSUME StatusRead(x) PROVE LiveInv'
    BY <1>1, <1>2, <1>3, PageKeeps DEF StatusRead, PollCoversActiveJobs
<1>4. ASSUME StatusAnswered(x) PROVE LiveInv'
  <2>1. list' \in LiveList /\ PollCoversActiveJobs'
      BY <1>1, <1>2, <1>4, RenderedFacts DEF StatusAnswered, PollCoversActiveJobs
  <2> QED
      BY <1>1, <1>2, <1>4, <2>1, PageKeeps DEF StatusAnswered
<1>5. ASSUME StatusFails(x) PROVE LiveInv'
  <2>1. tally' \in LiveTally
      BY <1>1, <1>5, LiveCounts DEF StatusFails
  <2> QED
      BY <1>1, <1>2, <1>5, <2>1, PageKeeps DEF StatusFails, PollCoversActiveJobs
<1> QED
    BY <1>3, <1>4, <1>5

\* The page's poll is scheduled again, sent, or the page has nothing to look at.
LEMMA PollKeeps ==
  ASSUME LiveInv, PollActiveJobs \/ PollRead \/ PollAnswered \/ PollFails
  PROVE  LiveInv'
<1>1. /\ read \in [Reads -> LiveRead] /\ list \in LiveList /\ tally \in LiveTally /\ poll \in LiveRead
      /\ kept \in SUBSET Jobs /\ PollCoversActiveJobs
    BY LiveTypes DEF LiveInv
<1>2. FreeRead \in LiveRead /\ poll.got \in SUBSET Jobs /\ [pc |-> "answered", got |-> ActiveJobs] \in LiveRead
    BY <1>1 DEF FreeRead, LiveRead, ActiveJobs
<1>3. ASSUME PollActiveJobs PROVE LiveInv'
  <2>1. CASE poll.pc = "free" /\ ~NeedsFallbackPoll
    <3>1. list' = Scheduled(list) /\ poll' = poll
        BY <1>3, <2>1 DEF PollActiveJobs
    <3> QED
        BY <1>1, <1>3, <3>1, ScheduledFacts, PageKeeps DEF PollActiveJobs, PollCoversActiveJobs
  <2>2. CASE ~(poll.pc = "free" /\ ~NeedsFallbackPoll)
    <3>1. list' \in LiveList
        BY <1>1, <1>3, <2>2 DEF PollActiveJobs, LiveList
    <3>2. poll' \in LiveRead /\ poll'.pc # "free"
        BY <1>1, <1>3, <2>2 DEF PollActiveJobs, LiveRead
    <3> QED
        BY <1>1, <1>3, <3>1, <3>2, PageKeeps DEF PollActiveJobs, PollCoversActiveJobs
  <2> QED
      BY <2>1, <2>2
<1>4. ASSUME PollRead PROVE LiveInv'
    BY <1>1, <1>2, <1>4, PageKeeps DEF PollRead, PollCoversActiveJobs
<1>5. ASSUME PollAnswered PROVE LiveInv'
  <2>1. list' \in LiveList /\ PollCoversActiveJobs'
      BY <1>1, <1>2, <1>5, RenderedFacts DEF PollAnswered, PollCoversActiveJobs
  <2> QED
      BY <1>1, <1>2, <1>5, <2>1, PageKeeps DEF PollAnswered
<1>6. ASSUME PollFails PROVE LiveInv'
  <2>1. tally' \in LiveTally
      BY <1>1, <1>6, LiveCounts DEF PollFails
  <2>2. list' \in LiveList /\ PollCoversActiveJobs'
      BY <1>1, <1>6, ScheduledFacts DEF PollFails, PollCoversActiveJobs
  <2> QED
      BY <1>1, <1>2, <1>6, <2>1, <2>2, PageKeeps DEF PollFails
<1> QED
    BY <1>3, <1>4, <1>5, <1>6

\* Silence, a new status, and the page that is hidden and shown again.
LEMMA VisibilityKeeps ==
  ASSUME LiveInv, (\E j \in Jobs : JobFallsSilent(j)) \/ OverviewRefreshes \/ Hide \/ Unhide
  PROVE  LiveInv'
<1>1. /\ read \in [Reads -> LiveRead] /\ list \in LiveList /\ tally \in LiveTally /\ poll \in LiveRead
      /\ kept \in SUBSET Jobs /\ PollCoversActiveJobs
    BY LiveTypes DEF LiveInv
<1>2. ASSUME NEW j \in Jobs, JobFallsSilent(j) PROVE LiveInv'
  <2>1. /\ list' \in LiveList /\ list'.jobs = list.jobs /\ list'.hidden = list.hidden
        /\ list'.timer = list.timer
      BY <1>1, <1>2 DEF JobFallsSilent, LiveList
  <2> QED
      BY <1>1, <1>2, <2>1, PageKeeps DEF JobFallsSilent, PollCoversActiveJobs
<1>3. ASSUME OverviewRefreshes PROVE LiveInv'
    BY <1>1, <1>3, RefreshStatusFacts, PageKeeps DEF OverviewRefreshes
<1>4. ASSUME Hide PROVE LiveInv'
  <2>1. tally' \in LiveTally
      BY <1>1, <1>4, LiveCounts DEF Hide
  <2>2. list' \in LiveList /\ list'.hidden
      BY <1>1, <1>4 DEF Hide, LiveList
  <2> QED
      BY <1>1, <1>4, <2>1, <2>2, PageKeeps DEF Hide, PollCoversActiveJobs
<1>5. ASSUME Unhide PROVE LiveInv'
  <2> DEFINE k == [list EXCEPT !.hidden = FALSE]
  <2>1. k \in LiveList
      BY <1>1 DEF LiveList
  <2>2. list' = Scheduled(k)
      BY <1>5 DEF Unhide
  <2> HIDE DEF k
  <2>3. list' \in LiveList /\ PollCoversActiveJobs'
      BY <2>1, <2>2, ScheduledFacts DEF PollCoversActiveJobs
  <2> QED
      BY <1>1, <1>5, <2>3, PageKeeps DEF Unhide
<1> QED
    BY <1>2, <1>3, <1>4, <1>5

\* The commands.
LEMMA CommandSent ==
  ASSUME LiveInv, NEW op \in {"queue", "cancel", "retry"}, NEW j \in Jobs, Send(op, j)
  PROVE  LiveInv'
<1>1. tally' \in LiveTally
    BY LiveTypes, LiveCounts DEF LiveInv, Send
<1>2. command' \in LiveCommand /\ command'.job \in Jobs /\ command'.op # "none"
    BY DEF Send, LiveCommand
<1> QED
    BY <1>1, <1>2, LiveTypes, LiveTypesAgain DEF LiveInv, Send, JobsAreNamed, PollCoversActiveJobs

LEMMA CommandsKeep ==
  ASSUME LiveInv,
         \/ \E j \in Jobs : QueuePendingMessages(j) \/ CancelJob(j) \/ RetryJob(j)
         \/ CommandExecuted \/ CommandRefused \/ CommandAnswered
  PROVE  LiveInv'
<1>1. command \in LiveCommand /\ status \in [Jobs -> States] /\ read \in [Reads -> LiveRead]
    BY LiveTypes DEF LiveInv
<1>2. ASSUME NEW j \in Jobs, QueuePendingMessages(j) \/ CancelJob(j) \/ RetryJob(j) PROVE LiveInv'
    BY <1>2, CommandSent DEF QueuePendingMessages, CancelJob, RetryJob
<1>3. NoCommand \in LiveCommand /\ NoCommand.pc = "none"
    BY DEF NoCommand, LiveCommand
<1>4. ASSUME CommandExecuted PROVE LiveInv'
  <2>1. command.job \in Jobs /\ command.op # "none"
      BY <1>4 DEF CommandExecuted, LiveInv, JobsAreNamed
  <2>2. status' \in [Jobs -> States]
      BY <1>1, <1>4 DEF CommandExecuted, States
  <2>3. command' \in LiveCommand /\ command'.job = command.job /\ command'.op = command.op
      BY <1>1, <1>4 DEF CommandExecuted, LiveCommand
  <2>4. /\ monitor' \in [Monitors -> LiveMonitor]
        /\ \A m \in Monitors : monitor'[m].pc # "off" => monitor'[m].job \in Jobs
    <3>1. CASE UNCHANGED monitor
        BY <3>1, LiveTypes DEF LiveInv, JobsAreNamed
    <3>2. CASE StartMonitor(command.job)
        BY <2>1, <3>2, StartMonitorFacts
    <3> QED
        BY <1>4, <3>1, <3>2 DEF CommandExecuted
  <2> QED
      BY <1>4, <2>1, <2>2, <2>3, <2>4, LiveTypes, LiveTypesAgain
         DEF CommandExecuted, LiveInv, JobsAreNamed, PollCoversActiveJobs
<1>5. ASSUME CommandRefused PROVE LiveInv'
    BY <1>3, <1>5, LiveTypes, LiveTypesAgain DEF CommandRefused, LiveInv, JobsAreNamed, PollCoversActiveJobs
<1>6. ASSUME CommandAnswered PROVE LiveInv'
  <2>1. list' \in LiveList /\ read' \in [Reads -> LiveRead] /\ PollCoversActiveJobs'
    <3>1. CASE command.op = "retry"
      <4>1. command.job \in Jobs
          BY <1>6 DEF CommandAnswered, LiveInv, JobsAreNamed
      <4>2. list' = Progress(command.job, TRUE) /\ UNCHANGED <<read, poll>>
          BY <1>6, <3>1 DEF CommandAnswered
      <4> QED
          BY <1>1, <4>1, <4>2, ProgressFacts
    <3>2. CASE command.op # "retry"
      <4>1. RefreshStatus
          BY <1>6, <3>2 DEF CommandAnswered
      <4> QED
          BY <4>1, RefreshStatusFacts
    <3> QED
        BY <3>1, <3>2
  <2> QED
      BY <1>3, <1>6, <2>1, LiveTypes, LiveTypesAgain DEF CommandAnswered, LiveInv, JobsAreNamed
<1> QED
    BY <1>2, <1>4, <1>5, <1>6

LEMMA LiveSteps == LiveInv /\ [LiveNext]_liveVars => LiveInv'
<1> SUFFICES ASSUME LiveInv, [LiveNext]_liveVars PROVE LiveInv'
    OBVIOUS
<1>1. CASE UNCHANGED liveVars
    BY <1>1, LiveTypes, LiveTypesAgain DEF liveVars, LiveInv, JobsAreNamed, PollCoversActiveJobs
<1>2. CASE LiveNext
    BY <1>2, WorkerAndStreamKeep, MonitorsKeep, StatusReadsKeep, PollKeeps, VisibilityKeeps, CommandsKeep
       DEF LiveNext
<1> QED
    BY <1>1, <1>2

\* The inductive invariant of the live page: its types, and that its poll covers the jobs it shows.
THEOREM LiveInductive == LiveSpec => []LiveInv
BY LiveStarts, LiveSteps, PTL DEF LiveSpec

\* A visible page that shows an active job will look at it again, whatever pushes, answers and
\* streams were lost and however often it was hidden in between (indexing-controls.js).
THEOREM ActiveJobsStayCovered == LiveSpec => []PollCoversActiveJobs
<1>1. LiveInv => PollCoversActiveJobs
    BY DEF LiveInv
<1> QED
    BY <1>1, LiveInductive, PTL

-----------------------------------------------------------------------------
(* Both side by side. *)

\* No question is left where none was asked.
LEMMA QuestionsAtRest == QuestionsRest => IInv
<1> SUFFICES ASSUME QuestionsRest PROVE IInv
    OBVIOUS
<1>1. \A r \in Rooms : Len(pending[r]) = 0 /\ Len(admitted[r]) = 0 /\ pending[r] = << >>
    BY DEF QuestionsRest
<1>2. \A q \in Questions : stage[q] = "refused" /\ sent[q] = 0 /\ audit[q] = "none"
    BY DEF QuestionsRest
<1>3. \A r \in Rooms : Begun(r) = 0
    BY <1>1 DEF Begun
<1>4. \A q \in Questions : ~Active(q)
    BY <1>2 DEF Active
<1>5. \A r \in Rooms : QueueInv(r)
    BY <1>1, <1>3, <1>4 DEF QueueInv
<1>6. \A q \in Questions : AuditInv(q)
    BY <1>2 DEF AuditInv
<1>7. QuestionsTypeOK
    BY DEF QuestionsRest, QuestionsTypeOK, Stages
<1> QED
    BY <1>5, <1>6, <1>7 DEF IInv

\* In the composition each component makes its own steps, while the other one rests.
LEMMA ProgressInductive == FairSpec => [](IInv /\ LiveInv)
<1>1. Init => IInv /\ LiveInv
    BY InitIInv, LiveStarts, QuestionsAtRest DEF Init
<1>2. IInv /\ LiveInv /\ [Next]_vars => IInv' /\ LiveInv'
  <2>1. [Next]_vars => [QuestionsNext]_questionVars /\ [LiveNext]_liveVars
      BY DEF Next, vars, liveVars
  <2> QED
      BY <2>1, NextIInv, LiveSteps
<1> QED
    BY <1>1, <1>2, PTL DEF FairSpec

\* Side by side, the questions to the bot and the live page keep their types.
THEOREM ProgressIsTyped == FairSpec => []ProgressTypeOK
<1>1. IInv /\ LiveInv => ProgressTypeOK
    BY DEF IInv, LiveInv, ProgressTypeOK
<1> QED
    BY <1>1, ProgressInductive, PTL

\* Side by side, every room answers its questions in order, and every visible list of active jobs
\* is looked at again.
THEOREM ProgressKeepsPromises == FairSpec => [](AnswersInOrder /\ PollCoversActiveJobs)
<1>1. IInv /\ LiveInv => AnswersInOrder /\ PollCoversActiveJobs
    BY InOrder DEF LiveInv
<1> QED
    BY <1>1, ProgressInductive, PTL
=============================================================================
