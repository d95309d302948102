------------------------ MODULE IndexingPipelineProofs ------------------------
(***************************************************************************)
(* What holds of IndexingPipeline for every value of its constants.         *)
(***************************************************************************)
EXTENDS IndexingPipeline, FiniteSetTheorems, TLAPS

USE DEF Jobs, vars, archiveVars, jobVars, indexVars, workerVars, boundVars

-----------------------------------------------------------------------------
(* Types. *)

LEMMA CoveredType ==
    ASSUME NEW C \in SUBSET Chunk
    PROVE  Covered(C) \in SUBSET Messages
BY DEF Covered, Chunk

\* Only messages that are stored get into a chunk, with the version they have.
LEMMA ChunksOfType ==
    ASSUME TypeOK, NEW S \in SUBSET Stored
    PROVE  ChunksOf(S) \in SUBSET Chunk
<1>1. SUFFICES ASSUME NEW g \in {h \in Groups : h \cap S # {}}
               PROVE  [m \in g \cap S |-> version[m]] \in Chunk
    BY DEF ChunksOf
<1>2. g \cap S \in SUBSET Messages
    BY DEF Stored
<1>3. \A m \in g \cap S : version[m] \in 1..MaxVersion
    BY ConstantsAssumption DEF TypeOK, ArchiveTypeOK, Stored
<1>4. [m \in g \cap S |-> version[m]] \in [g \cap S -> 1..MaxVersion]
    BY <1>3
<1> QED
    BY <1>2, <1>4 DEF Chunk

LEMMA InitTypeOK == Init => TypeOK
<1> SUFFICES ASSUME Init PROVE TypeOK
    OBVIOUS
<1>1. ArchiveTypeOK
    BY ConstantsAssumption DEF Init, ArchiveTypeOK
<1>2. JobTypeOK
  <2>1. created \in Seq(SUBSET Jobs)
      BY ConstantsAssumption DEF Init
  <2> QED
      BY <2>1 DEF Init, Unowned, NewJob, AbsentJob, JobTypeOK
<1>3. GenerationTypeOK
    BY DEF Init, GenerationTypeOK
<1>4. WorkerTypeOK
    BY DEF Init, WorkerTypeOK
<1>5. BoundTypeOK
    BY ConstantsAssumption DEF Init, BoundTypeOK
<1> QED
    BY <1>1, <1>2, <1>3, <1>4, <1>5 DEF TypeOK

LEMMA QueueSessionJobsType ==
    ASSUME JobTypeOK, NEW s \in Sessions, QueueSessionJobs(s)
    PROVE  JobTypeOK'
<1> DEFINE ready == {i \in AutoSync : status[i] = "ready"}
           new   == {<<s, i>> : i \in {k \in ready : job[<<s, k>>].status = "none"}}
<1>1. new \in SUBSET Jobs
  <2> SUFFICES ASSUME NEW i \in {k \in ready : job[<<s, k>>].status = "none"}
               PROVE  <<s, i>> \in Jobs
      OBVIOUS
  <2>1. i \in Indexes
      BY ConstantsAssumption
  <2> QED
      BY <2>1
<1>2. /\ job' = [j \in Jobs |-> IF j \in new THEN NewJob("incremental") ELSE job[j]]
      /\ created' = IF new = {} THEN created ELSE Append(created, new)
    BY DEF QueueSessionJobs
<1> HIDE DEF new
<1>3. created' \in Seq(SUBSET Jobs)
    BY <1>1, <1>2 DEF JobTypeOK
<1> QED
    BY <1>1, <1>2, <1>3 DEF JobTypeOK, Unowned, NewJob

LEMMA QueueMaintenanceType ==
    ASSUME ArchiveTypeOK, JobTypeOK,
           NEW s \in Sessions, NEW i \in Indexes,
           NEW kind \in {"incremental", "sync", "rebuild"}, NEW M \in SUBSET Messages,
           QueueMaintenance(s, i, kind, M), UNCHANGED version
    PROVE  ArchiveTypeOK' /\ JobTypeOK'
BY ConstantsAssumption DEF ArchiveTypeOK, JobTypeOK, QueueMaintenance, Unowned, NewJob

\* What a renewal, an expiry and the end of an attempt do to the row of a job.
LEMMA RenewedType ==
    ASSUME JobTypeOK, NEW j \in Jobs,
           job' = [job EXCEPT ![j].live = TRUE], UNCHANGED created
    PROVE  JobTypeOK'
<1>1. \A k \in Jobs : /\ job'[k].status = job[k].status
                      /\ job'[k].owner = job[k].owner
    BY DEF JobTypeOK
<1>2. \A k \in Jobs : job'[k] \in [status: {"none", "queued", "running", "completed",
                                             "failed", "cancelled"},
                                    kind: {"incremental", "sync", "rebuild"},
                                    owner: Workers \cup {NoWorker},
                                    live: BOOLEAN]
    BY ZenonT(60) DEF JobTypeOK
<1>3. job' = [k \in Jobs |-> job'[k]]
    BY DEF JobTypeOK
<1>4. job' \in [Jobs -> [status: {"none", "queued", "running", "completed",
                                 "failed", "cancelled"},
                        kind: {"incremental", "sync", "rebuild"},
                        owner: Workers \cup {NoWorker},
                        live: BOOLEAN]]
    BY <1>2, <1>3
<1> QED
    BY <1>1, <1>4 DEF JobTypeOK

LEMMA ExpiredType ==
    ASSUME JobTypeOK, NEW j \in Jobs,
           job' = [job EXCEPT ![j].live = FALSE], UNCHANGED created
    PROVE  JobTypeOK'
BY ZenonT(60) DEF JobTypeOK

LEMMA ReleasedType ==
    ASSUME JobTypeOK, NEW j \in Jobs, NEW end \in {"completed", "failed", "cancelled"},
           job' = [job EXCEPT ![j] = [@ EXCEPT !.status = end, !.owner = NoWorker,
                                               !.live = FALSE]],
           UNCHANGED created
    PROVE  JobTypeOK'
BY ZenonT(60) DEF JobTypeOK

LEMMA IngestType == TypeOK /\ Ingest => TypeOK'
<1> SUFFICES ASSUME TypeOK, Ingest PROVE TypeOK'
    OBVIOUS
<1> USE DEF TypeOK
<1>1. ASSUME NEW s \in Sessions, CreateSession(s) PROVE TypeOK'
  <2>1. ArchiveTypeOK'
      BY <1>1 DEF CreateSession, ArchiveTypeOK
  <2> QED
      BY <1>1, <2>1
      DEF CreateSession, JobTypeOK, GenerationTypeOK, WorkerTypeOK, BoundTypeOK
<1>2. ASSUME NEW s \in Sessions, NEW M \in SUBSET Messages, NEW D \in SUBSET M,
             StoreMessages(s, M, D)
      PROVE  TypeOK'
  <2>1. ArchiveTypeOK'
      BY <1>2, ConstantsAssumption DEF StoreMessages, ArchiveTypeOK, Stored
  <2>2. GenerationTypeOK'
      BY <1>2 DEF StoreMessages, GenerationTypeOK, Stored
  <2> QED
      BY <1>2, <2>1, <2>2 DEF StoreMessages, JobTypeOK, WorkerTypeOK, BoundTypeOK
<1>3. ASSUME NEW s \in Sessions, NEW reason \in {"completed", "stopped"},
             NEW queueIndexing \in QueueChoices, FinishSession(s, reason, queueIndexing)
      PROVE  TypeOK'
  <2>1. ArchiveTypeOK'
      BY <1>3 DEF FinishSession, ArchiveTypeOK
  <2>2. JobTypeOK'
    <3>1. CASE queueIndexing
        BY <1>3, <3>1, QueueSessionJobsType DEF FinishSession
    <3>2. CASE ~queueIndexing
        BY <1>3, <3>2 DEF FinishSession, JobTypeOK
    <3> QED
        BY <3>1, <3>2
  <2> QED
      BY <1>3, <2>1, <2>2 DEF FinishSession, GenerationTypeOK, WorkerTypeOK, BoundTypeOK
<1>4. ASSUME NEW s \in Sessions, QueueSessionIndexing(s) PROVE TypeOK'
    BY <1>4, QueueSessionJobsType
    DEF QueueSessionIndexing, ArchiveTypeOK, GenerationTypeOK, WorkerTypeOK, BoundTypeOK
<1> QED
    BY <1>1, <1>2, <1>3, <1>4 DEF Ingest

LEMMA RequestType == TypeOK /\ Request => TypeOK'
<1> SUFFICES ASSUME TypeOK, Request PROVE TypeOK'
    OBVIOUS
<1> USE DEF TypeOK
<1>1. \A i \in Indexes : Missing(i) \in SUBSET Messages
    BY DEF Missing, Stored
<1>2. ASSUME NEW s \in Sessions, NEW i \in Indexes, QueueSync(s, i) PROVE TypeOK'
    BY <1>1, <1>2, QueueMaintenanceType
    DEF QueueSync, GenerationTypeOK, WorkerTypeOK, BoundTypeOK
<1>3. ASSUME NEW s \in Sessions, NEW i \in Indexes, QueueRebuild(s, i) PROVE TypeOK'
  <2>1. Stored \in SUBSET Messages
      BY DEF Stored
  <2> QED
      BY <1>3, <2>1, QueueMaintenanceType
      DEF QueueRebuild, GenerationTypeOK, WorkerTypeOK, BoundTypeOK
<1>4. ASSUME NEW s \in Sessions, NEW i \in Indexes, QueuePending(s, i) PROVE TypeOK'
    BY <1>1, <1>4, QueueMaintenanceType
    DEF QueuePending, GenerationTypeOK, WorkerTypeOK, BoundTypeOK
<1>5. ASSUME NEW j \in Jobs, Retry(j) PROVE TypeOK'
  <2>1. JobTypeOK'
      BY <1>5 DEF Retry, JobTypeOK, Unowned, NewJob
  <2>2. GenerationTypeOK'
      BY <1>5 DEF Retry, GenerationTypeOK
  <2>3. BoundTypeOK'
      BY <1>5, ConstantsAssumption DEF Retry, BoundTypeOK
  <2> QED
      BY <1>5, <2>1, <2>2, <2>3 DEF Retry, ArchiveTypeOK, WorkerTypeOK
<1>6. ASSUME NEW j \in Jobs, Cancel(j) PROVE TypeOK'
  <2>1. JobTypeOK'
      BY <1>6, ReleasedType DEF Cancel
  <2>2. GenerationTypeOK'
      BY <1>6 DEF Cancel, GenerationTypeOK
  <2> QED
      BY <1>6, <2>1, <2>2 DEF Cancel, ArchiveTypeOK, WorkerTypeOK, BoundTypeOK
<1>7. ASSUME DeleteAll PROVE TypeOK'
  <2>1. ArchiveTypeOK'
      BY <1>7, ConstantsAssumption DEF DeleteAll, ArchiveTypeOK
  <2>2. JobTypeOK'
    <3>1. created' \in Seq(SUBSET Jobs)
        BY <1>7 DEF DeleteAll
    <3> QED
        BY <1>7, <3>1 DEF DeleteAll, JobTypeOK, Unowned, AbsentJob
  <2>3. GenerationTypeOK'
      BY <1>7 DEF DeleteAll, GenerationTypeOK
  <2> QED
      BY <1>7, <2>1, <2>2, <2>3 DEF DeleteAll, WorkerTypeOK, BoundTypeOK
<1> QED
    BY <1>2, <1>3, <1>4, <1>5, <1>6, <1>7 DEF Request

\* A worker leaves a job with its own variables well typed.
LEMMA LeaveType ==
    ASSUME TypeOK, NEW w \in Workers, pc[w] \in Alive \ {"idle"},
           NEW p \in {"idle", "dead", "fail"}, Leave(w, p)
    PROVE  WorkerTypeOK'
BY DEF Leave, TypeOK, WorkerTypeOK, Alive, Processing

LEMMA WorkType == \A w \in Workers : TypeOK /\ Work(w) => TypeOK'
<1> SUFFICES ASSUME NEW w \in Workers, TypeOK, Work(w) PROVE TypeOK'
    OBVIOUS
<1> USE DEF TypeOK
<1>1. ASSUME pc[w] \notin {"off", "idle", "dead"} PROVE task[w] \in Jobs
    BY <1>1 DEF WorkerTypeOK
<1>2. ASSUME Start(w) PROVE TypeOK'
  <2>1. WorkerTypeOK'
      BY <1>2 DEF Start, Goto, WorkerTypeOK, Alive
  <2> QED
      BY <1>2, <2>1 DEF Start, ArchiveTypeOK, JobTypeOK, GenerationTypeOK, BoundTypeOK
<1>3. ASSUME NEW j \in Jobs, Claim(w, j) PROVE TypeOK'
  <2>1. JobTypeOK'
      BY ZenonT(60), <1>3, ConstantsAssumption DEF Claim, JobTypeOK
  <2>2. GenerationTypeOK'
      BY <1>3 DEF Claim, GenerationTypeOK
  <2>3. WorkerTypeOK'
      BY <1>3, ConstantsAssumption DEF Claim, Goto, WorkerTypeOK, Alive, Processing
  <2> QED
      BY <1>3, <2>1, <2>2, <2>3 DEF Claim, ArchiveTypeOK, BoundTypeOK
<1>4. ASSUME PrepareTotal(w) PROVE TypeOK'
  <2>1. SnapshotOf(task[w]) \in SUBSET Messages
      BY <1>4, <1>1, CoveredType
      DEF PrepareTotal, SnapshotOf, ArchiveTypeOK, GenerationTypeOK
  <2>2. JobTypeOK'
      BY <1>4, <1>1, RenewedType DEF PrepareTotal
  <2>3. GenerationTypeOK'
      BY <1>4, <1>1, <2>1 DEF PrepareTotal, GenerationTypeOK
  <2>4. WorkerTypeOK'
      BY <1>4 DEF PrepareTotal, Goto, WorkerTypeOK, Alive, Processing
  <2> QED
      BY <1>4, <2>2, <2>3, <2>4 DEF PrepareTotal, ArchiveTypeOK, BoundTypeOK
<1>5. ASSUME PrepareStaging(w) PROVE TypeOK'
  <2>1. JobTypeOK'
      BY <1>5, <1>1, RenewedType DEF PrepareStaging
  <2>2. GenerationTypeOK'
      BY <1>5, <1>1 DEF PrepareStaging, GenerationTypeOK
  <2>3. WorkerTypeOK'
      BY <1>5 DEF PrepareStaging, Goto, WorkerTypeOK, Alive, Processing
  <2> QED
      BY <1>5, <2>1, <2>2, <2>3 DEF PrepareStaging, ArchiveTypeOK, BoundTypeOK
<1>6. ASSUME OpenCursor(w) PROVE TypeOK'
  <2>1. ChunksOf(snapshot[task[w]] \cap Stored) \in SUBSET Chunk
      BY ChunksOfType
  <2>2. WorkerTypeOK'
      BY <1>6, <2>1 DEF OpenCursor, Goto, WorkerTypeOK, Alive, Processing
  <2> QED
      BY <1>6, <2>2
      DEF OpenCursor, ArchiveTypeOK, JobTypeOK, GenerationTypeOK, BoundTypeOK
<1>7. ASSUME NEW B \in SUBSET todo[w], StageBatch(w, B) PROVE TypeOK'
  <2>1. JobTypeOK'
      BY <1>7, <1>1, RenewedType DEF StageBatch
  <2>2. GenerationTypeOK'
      BY <1>7, <1>1 DEF StageBatch, GenerationTypeOK, WorkerTypeOK
  <2>3. WorkerTypeOK'
      BY <1>7 DEF StageBatch, WorkerTypeOK
  <2> QED
      BY <1>7, <2>1, <2>2, <2>3 DEF StageBatch, ArchiveTypeOK, BoundTypeOK
<1>8. ASSUME CommitStaged(w) PROVE TypeOK'
  <2>1. task[w][2] \in Indexes /\ task[w] \in Jobs
      BY <1>8, <1>1 DEF CommitStaged
  <2>2. Kept(task[w]) \in SUBSET Chunk
      BY <2>1 DEF Kept, GenerationTypeOK
  <2>3. JobTypeOK'
      BY <1>8, <2>1, ReleasedType DEF CommitStaged
  <2>4. GenerationTypeOK'
      BY <1>8, <2>1, <2>2 DEF CommitStaged, GenerationTypeOK
  <2>5. WorkerTypeOK'
      BY <1>8 DEF CommitStaged, Goto, WorkerTypeOK, Alive, Processing
  <2> QED
      BY <1>8, <2>3, <2>4, <2>5 DEF CommitStaged, ArchiveTypeOK, BoundTypeOK
<1>9. ASSUME MarkReadySelect(w) PROVE TypeOK'
  <2>1. Missing(task[w][2]) \in SUBSET Messages
      BY DEF Missing, Stored
  <2>2. WorkerTypeOK'
      BY <1>9, <2>1 DEF MarkReadySelect, Goto, WorkerTypeOK, Alive, Processing
  <2> QED
      BY <1>9, <2>2
      DEF MarkReadySelect, ArchiveTypeOK, JobTypeOK, GenerationTypeOK, BoundTypeOK
<1>10. ASSUME MarkReadyCommit(w) PROVE TypeOK'
  <2>1. task[w][2] \in Indexes
      BY <1>10, <1>1 DEF MarkReadyCommit
  <2>2. ArchiveTypeOK' /\ JobTypeOK'
    <3>1. CASE UNCHANGED <<session, jobVars>>
        BY <1>10, <3>1 DEF MarkReadyCommit, ArchiveTypeOK, JobTypeOK
    <3>2. CASE \E s \in CatchUps : QueueMaintenance(s, task[w][2], "sync", missing[w])
        BY <1>10, <3>2, <2>1, QueueMaintenanceType, ConstantsAssumption
        DEF MarkReadyCommit, WorkerTypeOK
    <3> QED
        BY <1>10, <3>1, <3>2 DEF MarkReadyCommit
  <2>3. GenerationTypeOK'
      BY <1>10, <2>1 DEF MarkReadyCommit, GenerationTypeOK
  <2>4. WorkerTypeOK'
      BY <1>10, LeaveType DEF MarkReadyCommit, Alive, Processing
  <2> QED
      BY <1>10, <2>2, <2>3, <2>4 DEF MarkReadyCommit, BoundTypeOK
<1>11. ASSUME Quit(w) PROVE TypeOK'
    BY <1>11, LeaveType
    DEF Quit, ArchiveTypeOK, JobTypeOK, GenerationTypeOK, BoundTypeOK, Alive, Processing
<1>12. ASSUME AssertFails(w) PROVE TypeOK'
    BY <1>12, LeaveType
    DEF AssertFails, ArchiveTypeOK, JobTypeOK, GenerationTypeOK, BoundTypeOK, Alive,
        Processing
<1>13. ASSUME FailJob(w) PROVE TypeOK'
  <2>1. JobTypeOK'
    <3>1. CASE Owns(w, task[w])
        BY <1>13, <1>1, <3>1, ReleasedType DEF FailJob
    <3>2. CASE ~Owns(w, task[w])
        BY <1>13, <3>2 DEF FailJob, JobTypeOK
    <3> QED
        BY <3>1, <3>2
  <2>2. GenerationTypeOK'
      BY <1>13, <1>1 DEF FailJob, GenerationTypeOK
  <2>3. WorkerTypeOK'
      BY <1>13 DEF FailJob, Goto, WorkerTypeOK, Alive, Processing
  <2> QED
      BY <1>13, <2>1, <2>2, <2>3 DEF FailJob, ArchiveTypeOK, BoundTypeOK
<1>14. ASSUME MarkFailed(w) PROVE TypeOK'
  <2>1. GenerationTypeOK'
      BY <1>14, <1>1 DEF MarkFailed, GenerationTypeOK
  <2>2. WorkerTypeOK'
      BY <1>14, LeaveType DEF MarkFailed, Alive, Processing
  <2> QED
      BY <1>14, <2>1, <2>2 DEF MarkFailed, ArchiveTypeOK, JobTypeOK, BoundTypeOK
<1> QED
    BY <1>2, <1>3, <1>4, <1>5, <1>6, <1>7, <1>8, <1>9, <1>10, <1>11, <1>12, <1>13, <1>14
    DEF Work

LEMMA FaultType == \A w \in Workers : TypeOK /\ Fault(w) => TypeOK'
<1> SUFFICES ASSUME NEW w \in Workers, TypeOK, Fault(w) PROVE TypeOK'
    OBVIOUS
<1> USE DEF TypeOK
<1>1. ASSUME Raise(w) PROVE TypeOK'
    BY <1>1, LeaveType
    DEF Raise, ArchiveTypeOK, JobTypeOK, GenerationTypeOK, BoundTypeOK, Alive, Processing
<1>2. ASSUME RenewLease(w) PROVE TypeOK'
  <2>1. task[w] \in Jobs
      BY <1>2 DEF RenewLease, WorkerTypeOK, Processing
  <2>2. JobTypeOK'
      BY <1>2, <2>1, RenewedType DEF RenewLease
  <2> QED
      BY <1>2, <2>2 DEF RenewLease, ArchiveTypeOK, GenerationTypeOK, WorkerTypeOK,
          BoundTypeOK
<1>3. ASSUME Crash(w) PROVE TypeOK'
  <2>1. WorkerTypeOK'
      BY <1>3 DEF Crash, Leave, WorkerTypeOK, Alive, Processing
  <2>2. BoundTypeOK'
      BY <1>3, ConstantsAssumption DEF Crash, BoundTypeOK
  <2> QED
      BY <1>3, <2>1, <2>2 DEF Crash, ArchiveTypeOK, JobTypeOK, GenerationTypeOK
<1>4. ASSUME Abandon(w) PROVE TypeOK'
  <2>1. WorkerTypeOK'
      BY <1>4, LeaveType DEF Abandon, Alive, Processing
  <2>2. BoundTypeOK'
      BY <1>4, ConstantsAssumption DEF Abandon, BoundTypeOK
  <2> QED
      BY <1>4, <2>1, <2>2 DEF Abandon, ArchiveTypeOK, JobTypeOK, GenerationTypeOK
<1> QED
    BY <1>1, <1>2, <1>3, <1>4 DEF Fault

LEMMA ExpireType == \A j \in Jobs : TypeOK /\ ExpireLease(j) => TypeOK'
<1> SUFFICES ASSUME NEW j \in Jobs, TypeOK, ExpireLease(j) PROVE TypeOK'
    OBVIOUS
<1>1. JobTypeOK'
    BY ExpiredType DEF ExpireLease, TypeOK
<1>2. BoundTypeOK'
    BY ConstantsAssumption DEF ExpireLease, TypeOK, BoundTypeOK
<1> QED
    BY <1>1, <1>2
    DEF ExpireLease, TypeOK, ArchiveTypeOK, GenerationTypeOK, WorkerTypeOK

LEMMA NextTypeOK == TypeOK /\ [Next]_vars => TypeOK'
<1> SUFFICES ASSUME TypeOK, [Next]_vars PROVE TypeOK'
    OBVIOUS
<1>1. CASE UNCHANGED vars
    BY <1>1 DEF TypeOK, ArchiveTypeOK, JobTypeOK, GenerationTypeOK, WorkerTypeOK,
        BoundTypeOK
<1> QED
    BY <1>1, IngestType, RequestType, WorkType, FaultType, ExpireType DEF Next

\* Every row and every worker variable keeps its type, and worker_id is set
\* exactly while a job runs, whatever is retried, cancelled, fenced off or lost.
THEOREM TypeCorrect == Spec => []TypeOK
BY InitTypeOK, NextTypeOK, PTL DEF Spec

-----------------------------------------------------------------------------
(* The inductive invariant behind the safety of publication. *)

\* Whatever refers to a message refers to a stored one: clearing the archive
\* leaves nothing behind.
Known ==
    /\ \A s \in Sessions : session[s].messages \subseteq Stored
    /\ \A i \in Indexes : Linked(i) \subseteq Stored
    /\ \A j \in Jobs : snapshot[j] \subseteq Stored
    /\ \A w \in Workers :
          missing[w] \subseteq Stored /\ (missing[w] # {} => pc[w] = "catchup")

\* Whoever owns its job when it opens the cursor starts from empty staging.
Clean(w) == pc[w] = "open" /\ Owns(w, task[w]) => staged[task[w]] = {}
CleanStart == \A w \in Workers : Clean(w)

Inv == TypeOK /\ Known /\ CleanStart /\ GenerationWhole /\ PublishedOnce

\* The chunker partitions what it is given.
LEMMA ChunksOfPartition ==
    ASSUME NEW S \in SUBSET Messages
    PROVE  Disjoint(ChunksOf(S)) /\ Covered(ChunksOf(S)) = S
<1>1. ASSUME NEW c \in ChunksOf(S), NEW d \in ChunksOf(S), c # d
      PROVE  DOMAIN c \cap DOMAIN d = {}
  <2>1. PICK g \in Groups : c = [m \in g \cap S |-> version[m]]
      BY DEF ChunksOf
  <2>2. PICK h \in Groups : d = [m \in h \cap S |-> version[m]]
      BY DEF ChunksOf
  <2>3. g \cap h = {}
      BY <1>1, <2>1, <2>2, GroupsPartition
  <2> QED
      BY <2>1, <2>2, <2>3
<1>2. Covered(ChunksOf(S)) \subseteq S
    BY DEF Covered, ChunksOf
<1>3. ASSUME NEW m \in S PROVE m \in Covered(ChunksOf(S))
  <2>1. PICK g \in Groups : m \in g
      BY GroupsPartition
  <2>2. [n \in g \cap S |-> version[n]] \in ChunksOf(S)
      BY <2>1 DEF ChunksOf
  <2> QED
      BY <2>1, <2>2 DEF Covered
<1> QED
    BY <1>1, <1>2, <1>3 DEF Disjoint

\* A step does not disturb worker v if v, should it still own its job in the
\* middle of a generation, owned it before and finds it as it was.
Undisturbed(v) ==
    pc'[v] \in {"open", "batch"} /\ Owns(v, task[v])' =>
        /\ pc'[v] = pc[v]
        /\ Owns(v, task[v])
        /\ task'[v] = task[v]
        /\ todo'[v] = todo[v]
        /\ snapshot'[task[v]] = snapshot[task[v]]
        /\ staged'[task[v]] = staged[task[v]]

LEMMA UndisturbedKeeps ==
    ASSUME CleanStart, GenerationWhole, NEW v \in Workers, Undisturbed(v)
    PROVE  Clean(v)' /\ Intact(v)'
BY DEF CleanStart, Clean, GenerationWhole, Intact, Undisturbed, Disjoint, Covered

LEMMA AllUndisturbed ==
    ASSUME CleanStart, GenerationWhole, \A v \in Workers : Undisturbed(v)
    PROVE  CleanStart' /\ GenerationWhole'
BY UndisturbedKeeps DEF CleanStart, GenerationWhole

LEMMA InitInv == Init => Inv
<1> SUFFICES ASSUME Init PROVE Inv
    OBVIOUS
<1>1. TypeOK
    BY InitTypeOK
<1>2. Known
    BY ConstantsAssumption DEF Init, Known, Stored, Linked, Covered
<1>3. CleanStart /\ GenerationWhole /\ PublishedOnce
    BY DEF Init, CleanStart, Clean, GenerationWhole, Intact, PublishedOnce, Disjoint
<1> QED
    BY <1>1, <1>2, <1>3 DEF Inv

\* An ingestion request only adds messages; no generation notices it.
LEMMA IngestInv == Inv /\ Ingest => Inv'
<1> SUFFICES ASSUME Inv, Ingest PROVE Inv'
    OBVIOUS
<1> USE DEF Inv
<1>1. TypeOK'
    BY IngestType
<1>2. /\ UNCHANGED <<snapshot, staged, published, pc, task, todo, missing>>
      /\ \A j \in Jobs : \A w \in Workers : Owns(w, j)' => Owns(w, j)
  <2>1. ASSUME NEW s \in Sessions, QueueSessionJobs(s)
        PROVE  \A j \in Jobs : \A w \in Workers : Owns(w, j)' => Owns(w, j)
      BY <2>1 DEF QueueSessionJobs, NewJob, Unowned, Owns
  <2> QED
      BY <2>1
      DEF Ingest, CreateSession, StoreMessages, FinishSession, QueueSessionIndexing, Owns
<1>3. Stored \subseteq Stored' /\ \A s \in Sessions : session'[s].messages \subseteq Stored'
  <2>1. ASSUME NEW s \in Sessions, NEW M \in SUBSET Messages, NEW D \in SUBSET M,
               StoreMessages(s, M, D)
        PROVE  Stored \cup M \subseteq Stored'
      BY <2>1 DEF StoreMessages, Stored, TypeOK, ArchiveTypeOK
  <2>2. ASSUME NEW s \in Sessions, NEW M \in SUBSET Messages, NEW D \in SUBSET M,
               StoreMessages(s, M, D), NEW t \in Sessions
        PROVE  session'[t].messages \subseteq session[t].messages \cup M
      BY <2>2 DEF StoreMessages, TypeOK, ArchiveTypeOK
  <2>3. ASSUME NEW s \in Sessions, NEW t \in Sessions,
               \/ CreateSession(s)
               \/ \E reason \in {"completed", "stopped"}, q \in QueueChoices :
                     FinishSession(s, reason, q)
               \/ QueueSessionIndexing(s)
        PROVE  session'[t].messages = session[t].messages /\ Stored' = Stored
      BY <2>3
      DEF CreateSession, FinishSession, QueueSessionIndexing, TypeOK, ArchiveTypeOK, Stored
  <2> QED
      BY <2>1, <2>2, <2>3 DEF Ingest, Known
<1>4. Known'
    BY <1>2, <1>3 DEF Known, Linked
<1>5. CleanStart' /\ GenerationWhole'
  <2> SUFFICES ASSUME NEW v \in Workers PROVE Undisturbed(v)
      BY AllUndisturbed
  <2>1. pc[v] \in {"open", "batch"} => task[v] \in Jobs
      BY DEF TypeOK, WorkerTypeOK
  <2> QED
      BY <1>2, <2>1 DEF Undisturbed, Owns
<1>6. PublishedOnce'
    BY <1>2 DEF PublishedOnce
<1> QED
    BY <1>1, <1>4, <1>5, <1>6

LEMMA MaintenanceKnown ==
    ASSUME TypeOK, Known, NEW s \in Sessions, NEW i \in Indexes, NEW kind,
           NEW M \in SUBSET Stored, QueueMaintenance(s, i, kind, M), UNCHANGED version
    PROVE  /\ Stored' = Stored
           /\ \A t \in Sessions : session'[t].messages \subseteq Stored'
           /\ \A j \in Jobs : \A w \in Workers : Owns(w, j)' => Owns(w, j)
<1>1. Stored' = Stored
    BY DEF Stored
<1>2. \A t \in Sessions : session'[t].messages \subseteq session[t].messages \cup M
    BY DEF QueueMaintenance, TypeOK, ArchiveTypeOK
<1>3. \A j \in Jobs : \A w \in Workers : Owns(w, j)' => Owns(w, j)
    BY DEF QueueMaintenance, NewJob, Unowned, Owns, TypeOK, JobTypeOK
<1> QED
    BY <1>1, <1>2, <1>3 DEF Known

\* Queueing, retrying, cancelling and clearing never give a job to a worker, and
\* they touch the staging of jobs only that nobody owns any more.
LEMMA RequestInv == Inv /\ Request => Inv'
<1> SUFFICES ASSUME Inv, Request PROVE Inv'
    OBVIOUS
<1> USE DEF Inv
<1>1. TypeOK'
    BY RequestType
<1>2. ASSUME NEW s \in Sessions, NEW i \in Indexes,
             QueueSync(s, i) \/ QueueRebuild(s, i) \/ QueuePending(s, i)
      PROVE  Inv'
  <2>1. /\ UNCHANGED <<version, snapshot, staged, published, workerVars>>
        /\ \E kind : \E M \in SUBSET Stored : QueueMaintenance(s, i, kind, M)
      BY <1>2 DEF QueueSync, QueueRebuild, QueuePending, Missing
  <2>2. /\ Stored' = Stored
        /\ \A t \in Sessions : session'[t].messages \subseteq Stored'
        /\ \A j \in Jobs : \A w \in Workers : Owns(w, j)' => Owns(w, j)
      BY <2>1, MaintenanceKnown
  <2>3. Known'
      BY <2>1, <2>2 DEF Known, Linked
  <2>4. CleanStart' /\ GenerationWhole'
    <3> SUFFICES ASSUME NEW v \in Workers PROVE Undisturbed(v)
        BY AllUndisturbed
    <3>1. pc[v] \in {"open", "batch"} => task[v] \in Jobs
        BY DEF TypeOK, WorkerTypeOK
    <3> QED
        BY <2>1, <2>2, <3>1 DEF Undisturbed, Owns
  <2> QED
      BY <1>1, <2>1, <2>3, <2>4 DEF PublishedOnce
<1>3. ASSUME NEW j \in Jobs, Retry(j) \/ Cancel(j) PROVE Inv'
  <2>1. /\ UNCHANGED <<archiveVars, snapshot, published, workerVars>>
        /\ \A w \in Workers : ~Owns(w, j)'
        /\ \A k \in Jobs \ {j} : staged'[k] = staged[k] /\ job'[k] = job[k]
    <3>1. CASE Retry(j)
        BY <3>1 DEF Retry, NewJob, Unowned, Owns, TypeOK, JobTypeOK, GenerationTypeOK
    <3>2. CASE Cancel(j)
      <4>1. job'[j].status = "cancelled"
          BY <3>2 DEF Cancel, TypeOK, JobTypeOK
      <4>2. \A k \in Jobs \ {j} : staged'[k] = staged[k] /\ job'[k] = job[k]
          BY <3>2 DEF Cancel, TypeOK, JobTypeOK, GenerationTypeOK
      <4> QED
          BY <3>2, <4>1, <4>2 DEF Cancel, Owns
    <3> QED
        BY <1>3, <3>1, <3>2
  <2>2. Known'
      BY <2>1 DEF Known, Linked, Stored
  <2>3. CleanStart' /\ GenerationWhole'
    <3> SUFFICES ASSUME NEW v \in Workers PROVE Undisturbed(v)
        BY AllUndisturbed
    <3>1. pc[v] \in {"open", "batch"} => task[v] \in Jobs
        BY DEF TypeOK, WorkerTypeOK
    <3> QED
        BY <2>1, <3>1 DEF Undisturbed, Owns
  <2> QED
      BY <1>1, <2>1, <2>2, <2>3 DEF PublishedOnce
<1>4. ASSUME DeleteAll PROVE Inv'
  <2>1. Known'
    <3>1. \A w \in Workers : missing[w] = {}
        BY <1>4 DEF DeleteAll, Known
    <3> QED
        BY <1>4, <3>1 DEF DeleteAll, Known, Linked, Covered
  <2>2. \A j \in Jobs : \A w \in Workers : ~Owns(w, j)'
      BY <1>4 DEF DeleteAll, AbsentJob, Unowned, Owns
  <2>3. CleanStart' /\ GenerationWhole'
    <3>1. \A v \in Workers : pc'[v] \in {"open", "batch"} => task'[v] \in Jobs
        BY <1>1 DEF TypeOK, WorkerTypeOK
    <3> QED
        BY <2>2, <3>1 DEF CleanStart, Clean, GenerationWhole, Intact, Owns
  <2>4. PublishedOnce'
      BY <1>4 DEF DeleteAll, PublishedOnce, Disjoint
  <2> QED
      BY <1>1, <2>1, <2>3, <2>4
<1> QED
    BY <1>2, <1>3, <1>4 DEF Request

\* A step of worker w that ends outside "open" and "batch" disturbs nobody if it
\* publishes nothing, takes no snapshot and gives no other worker a job.
LEMMA LeavesAlone ==
    ASSUME Inv, NEW w \in Workers,
           UNCHANGED <<version, snapshot, published>>,
           \A s \in Sessions : session'[s].messages \subseteq Stored,
           pc'[w] \notin {"open", "batch"},
           \A v \in Workers \ {w} :
               /\ pc'[v] = pc[v] /\ task'[v] = task[v] /\ todo'[v] = todo[v]
               /\ missing'[v] = missing[v],
           missing'[w] \subseteq Stored, missing'[w] # {} => pc'[w] = "catchup",
           \A j \in Jobs : \A v \in Workers \ {w} :
               Owns(v, j)' => Owns(v, j) /\ staged'[j] = staged[j]
    PROVE  Known' /\ CleanStart' /\ GenerationWhole' /\ PublishedOnce'
<1> USE DEF Inv
<1>1. Known'
    BY DEF Known, Linked, Stored
<1>2. CleanStart' /\ GenerationWhole'
  <2> SUFFICES ASSUME NEW v \in Workers PROVE Undisturbed(v)
      BY AllUndisturbed
  <2>1. CASE v = w
      BY <2>1 DEF Undisturbed
  <2>2. CASE v # w
    <3>1. pc[v] \in {"open", "batch"} => task[v] \in Jobs
        BY DEF TypeOK, WorkerTypeOK
    <3> QED
        BY <2>2, <3>1 DEF Undisturbed, Owns
  <2> QED
      BY <2>1, <2>2
<1>3. PublishedOnce'
    BY DEF PublishedOnce
<1> QED
    BY <1>1, <1>2, <1>3

\* The steps of a worker that never touch a generation.
LEMMA QuietStepInv ==
    ASSUME Inv, NEW w \in Workers,
           \/ Start(w)
           \/ \E j \in Jobs : Claim(w, j)
           \/ MarkReadySelect(w)
           \/ MarkReadyCommit(w)
           \/ Quit(w)
           \/ AssertFails(w)
           \/ FailJob(w)
           \/ MarkFailed(w)
           \/ Raise(w)
           \/ Crash(w)
           \/ Abandon(w)
    PROVE  Known' /\ CleanStart' /\ GenerationWhole' /\ PublishedOnce'
<1> USE DEF Inv
<1> DEFINE Others ==
             \A v \in Workers \ {w} :
               /\ pc'[v] = pc[v] /\ task'[v] = task[v] /\ todo'[v] = todo[v]
               /\ missing'[v] = missing[v]
           NoGift ==
             \A j \in Jobs : \A v \in Workers \ {w} :
               Owns(v, j)' => Owns(v, j) /\ staged'[j] = staged[j]
<1>1. ASSUME NEW p \in {"idle", "dead", "fail"}, Leave(w, p)
      PROVE  Others /\ pc'[w] = p /\ missing'[w] = {}
    BY <1>1 DEF Leave, TypeOK, WorkerTypeOK
<1>2. ASSUME NEW p, pc' = [pc EXCEPT ![w] = p], UNCHANGED <<task, todo, missing>>
      PROVE  Others /\ pc'[w] = p
    BY <1>2 DEF TypeOK, WorkerTypeOK
<1>3. ASSUME UNCHANGED <<job, staged>> PROVE NoGift
    BY <1>3 DEF Owns
<1>4. \A s \in Sessions : session[s].messages \subseteq Stored
    BY DEF Known
<1>5. missing[w] \subseteq Stored /\ (missing[w] # {} => pc[w] = "catchup")
    BY DEF Known
<1>6. CASE Start(w)
  <2>1. Others /\ pc'[w] = "idle"
      BY <1>6, <1>2 DEF Start, Goto
  <2> QED
      BY <1>6, <2>1, <1>3, <1>4, <1>5, LeavesAlone DEF Start
<1>7. ASSUME NEW j \in Jobs, Claim(w, j)
      PROVE  Known' /\ CleanStart' /\ GenerationWhole' /\ PublishedOnce'
  <2>1. Others /\ pc'[w] = "prepare"
      BY <1>7 DEF Claim, Goto, TypeOK, WorkerTypeOK
  <2>2. NoGift
      BY <1>7 DEF Claim, Owns, TypeOK, JobTypeOK
  <2> QED
      BY <1>7, <2>1, <2>2, <1>4, <1>5, LeavesAlone DEF Claim
<1>8. CASE MarkReadySelect(w)
  <2>1. Others /\ pc'[w] = "catchup" /\ missing'[w] \subseteq Stored
      BY <1>8 DEF MarkReadySelect, Goto, TypeOK, WorkerTypeOK, Missing
  <2> QED
      BY <1>8, <2>1, <1>3, <1>4, LeavesAlone DEF MarkReadySelect
<1>9. CASE MarkReadyCommit(w)
  <2>1. Others /\ pc'[w] = "idle" /\ missing'[w] = {}
      BY <1>9, <1>1 DEF MarkReadyCommit
  <2>2. NoGift /\ \A s \in Sessions : session'[s].messages \subseteq Stored
    <3>1. CASE UNCHANGED <<session, jobVars>>
        BY <1>9, <3>1, <1>3, <1>4 DEF MarkReadyCommit
    <3>2. CASE \E s \in CatchUps : QueueMaintenance(s, task[w][2], "sync", missing[w])
      <4>1. task[w][2] \in Indexes
          BY <1>9 DEF MarkReadyCommit, TypeOK, WorkerTypeOK
      <4>2. Stored' = Stored
          BY <1>9 DEF MarkReadyCommit, Stored
      <4> QED
          BY <1>9, <3>2, <4>1, <4>2, <1>5, MaintenanceKnown, ConstantsAssumption
          DEF MarkReadyCommit
    <3> QED
        BY <1>9, <3>1, <3>2 DEF MarkReadyCommit
  <2> QED
      BY <1>9, <2>1, <2>2, LeavesAlone DEF MarkReadyCommit
<1>10. CASE Quit(w)
    BY <1>10, <1>1, <1>3, <1>4, LeavesAlone DEF Quit
<1>11. CASE AssertFails(w)
    BY <1>11, <1>1, <1>3, <1>4, LeavesAlone DEF AssertFails
<1>12. CASE FailJob(w)
  <2>1. Others /\ pc'[w] = "markfailed"
      BY <1>12, <1>2 DEF FailJob, Goto
  <2>2. NoGift
    <3>1. task[w] \in Jobs
        BY <1>12 DEF FailJob, TypeOK, WorkerTypeOK
    <3>2. CASE Owns(w, task[w])
      <4>1. job'[task[w]].status = "failed"
          BY <1>12, <3>1, <3>2 DEF FailJob, TypeOK, JobTypeOK
      <4>2. \A j \in Jobs \ {task[w]} : job'[j] = job[j] /\ staged'[j] = staged[j]
          BY <1>12, <3>1, <3>2 DEF FailJob, TypeOK, JobTypeOK, GenerationTypeOK
      <4> QED
          BY <4>1, <4>2 DEF Owns
    <3>3. CASE ~Owns(w, task[w])
        BY <1>12, <3>3, <1>3 DEF FailJob
    <3> QED
        BY <3>2, <3>3
  <2> QED
      BY <1>12, <2>1, <2>2, <1>4, <1>5, LeavesAlone DEF FailJob
<1>13. CASE MarkFailed(w)
    BY <1>13, <1>1, <1>3, <1>4, LeavesAlone DEF MarkFailed
<1>14. CASE Raise(w)
    BY <1>14, <1>1, <1>3, <1>4, LeavesAlone DEF Raise
<1>15. CASE Crash(w)
    BY <1>15, <1>1, <1>3, <1>4, LeavesAlone DEF Crash
<1>16. CASE Abandon(w)
    BY <1>16, <1>1, <1>3, <1>4, LeavesAlone DEF Abandon
<1> QED
    BY <1>6, <1>7, <1>8, <1>9, <1>10, <1>11, <1>12, <1>13, <1>14, <1>15, <1>16

\* The steps that build a generation: w, which owns its job, changes the rows of
\* that job alone, and nobody else owns it.
LEMMA OthersUndisturbed ==
    ASSUME Inv, NEW w \in Workers, NEW v \in Workers \ {w},
           Owns(w, task[w]), task[w] \in Jobs,
           pc'[v] = pc[v], task'[v] = task[v], todo'[v] = todo[v],
           \A j \in Jobs \ {task[w]} :
               job'[j] = job[j] /\ snapshot'[j] = snapshot[j] /\ staged'[j] = staged[j],
           job'[task[w]].owner \in {w, NoWorker}
    PROVE  Undisturbed(v)
<1>1. pc[v] \in {"open", "batch"} => task[v] \in Jobs
    BY DEF Inv, TypeOK, WorkerTypeOK
<1>2. task[v] = task[w] => ~Owns(v, task[v])'
    BY ConstantsAssumption DEF Owns
<1> QED
    BY <1>1, <1>2 DEF Undisturbed, Owns

LEMMA PrepareTotalInv ==
    ASSUME Inv, NEW w \in Workers, PrepareTotal(w)
    PROVE  Known' /\ CleanStart' /\ GenerationWhole' /\ PublishedOnce'
<1> USE DEF Inv
<1> DEFINE j == task[w]
<1>1. j \in Jobs /\ Owns(w, j)
    BY DEF PrepareTotal, TypeOK, WorkerTypeOK
<1>2. SnapshotOf(j) \subseteq Stored
    BY <1>1 DEF SnapshotOf, Known, Linked, Covered
<1>3. \A k \in Jobs : snapshot'[k] \subseteq Stored
    BY <1>1, <1>2 DEF PrepareTotal, Known, TypeOK, GenerationTypeOK
<1>4. Known'
    BY <1>3 DEF PrepareTotal, Goto, Known, Linked, Stored, TypeOK, WorkerTypeOK
<1>5. CleanStart' /\ GenerationWhole'
  <2> SUFFICES ASSUME NEW v \in Workers PROVE Undisturbed(v)
      BY AllUndisturbed
  <2>1. pc'[w] = "clear" /\ \A u \in Workers \ {w} : pc'[u] = pc[u]
      BY DEF PrepareTotal, Goto, TypeOK, WorkerTypeOK
  <2>2. CASE v = w
      BY <2>1, <2>2 DEF Undisturbed
  <2>3. CASE v # w
    <3>1. \A k \in Jobs \ {j} :
             job'[k] = job[k] /\ snapshot'[k] = snapshot[k] /\ staged'[k] = staged[k]
        BY DEF PrepareTotal, TypeOK, JobTypeOK, GenerationTypeOK
    <3>2. job'[j].owner = w
        BY <1>1 DEF PrepareTotal, Owns, TypeOK, JobTypeOK
    <3> QED
        BY <1>1, <2>1, <2>3, <3>1, <3>2, OthersUndisturbed DEF PrepareTotal
  <2> QED
      BY <2>2, <2>3
<1> QED
    BY <1>4, <1>5 DEF PrepareTotal, PublishedOnce

LEMMA PrepareStagingInv ==
    ASSUME Inv, NEW w \in Workers, PrepareStaging(w)
    PROVE  Known' /\ CleanStart' /\ GenerationWhole' /\ PublishedOnce'
<1> USE DEF Inv
<1> DEFINE j == task[w]
<1>1. j \in Jobs /\ Owns(w, j)
    BY DEF PrepareStaging, TypeOK, WorkerTypeOK
<1>2. Known'
    BY DEF PrepareStaging, Goto, Known, Linked, Stored, TypeOK, WorkerTypeOK
<1>3. pc'[w] = "open" /\ \A u \in Workers \ {w} : pc'[u] = pc[u]
    BY DEF PrepareStaging, Goto, TypeOK, WorkerTypeOK
<1>4. staged'[j] = {} /\ task'[w] = j
    BY <1>1 DEF PrepareStaging, TypeOK, GenerationTypeOK
<1>5. \A v \in Workers \ {w} : Undisturbed(v)
  <2>1. \A k \in Jobs \ {j} :
           job'[k] = job[k] /\ snapshot'[k] = snapshot[k] /\ staged'[k] = staged[k]
      BY DEF PrepareStaging, TypeOK, JobTypeOK, GenerationTypeOK
  <2>2. job'[j].owner = w
      BY <1>1 DEF PrepareStaging, Owns, TypeOK, JobTypeOK
  <2> QED
      BY <1>1, <1>3, <2>1, <2>2, OthersUndisturbed DEF PrepareStaging
<1>6. CleanStart' /\ GenerationWhole'
  <2>1. \A v \in Workers \ {w} : Clean(v)' /\ Intact(v)'
      BY <1>5, UndisturbedKeeps
  <2> QED
      BY <1>3, <1>4, <2>1 DEF CleanStart, Clean, GenerationWhole, Intact
<1> QED
    BY <1>2, <1>6 DEF PrepareStaging, PublishedOnce

LEMMA OpenCursorInv ==
    ASSUME Inv, NEW w \in Workers, OpenCursor(w)
    PROVE  Known' /\ CleanStart' /\ GenerationWhole' /\ PublishedOnce'
<1> USE DEF Inv
<1> DEFINE j == task[w]
<1>1. j \in Jobs
    BY DEF OpenCursor, TypeOK, WorkerTypeOK
<1>2. Known'
    BY DEF OpenCursor, Goto, Known, Linked, Stored, TypeOK, WorkerTypeOK
<1>3. /\ pc'[w] = "batch" /\ task'[w] = j
      /\ todo'[w] = ChunksOf(snapshot[j] \cap Stored)
    BY DEF OpenCursor, Goto, TypeOK, WorkerTypeOK
<1>4. \A v \in Workers \ {w} : Undisturbed(v)
  <2> SUFFICES ASSUME NEW v \in Workers \ {w} PROVE Undisturbed(v)
      OBVIOUS
  <2>1. pc'[v] = pc[v] /\ task'[v] = task[v] /\ todo'[v] = todo[v]
      BY DEF OpenCursor, Goto, TypeOK, WorkerTypeOK
  <2> QED
      BY <2>1 DEF OpenCursor, Undisturbed, Owns
<1>5. Owns(w, j) => /\ Disjoint(staged[j] \cup todo'[w])
                    /\ Covered(staged[j] \cup todo'[w]) = snapshot[j]
  <2>1. snapshot[j] \cap Stored = snapshot[j] /\ snapshot[j] \in SUBSET Messages
      BY <1>1 DEF Known, TypeOK, GenerationTypeOK
  <2>2. Disjoint(ChunksOf(snapshot[j])) /\ Covered(ChunksOf(snapshot[j])) = snapshot[j]
      BY <2>1, ChunksOfPartition
  <2>3. Owns(w, j) => staged[j] = {}
      BY DEF OpenCursor, CleanStart, Clean
  <2>4. Owns(w, j) => staged[j] \cup todo'[w] = ChunksOf(snapshot[j])
      BY <2>1, <2>3, <1>3
  <2> QED
      BY <2>2, <2>4
<1>6. CleanStart' /\ GenerationWhole'
  <2>1. \A v \in Workers \ {w} : Clean(v)' /\ Intact(v)'
      BY <1>4, UndisturbedKeeps
  <2>2. Intact(w)'
      BY <1>3, <1>5 DEF OpenCursor, Intact, Owns, Disjoint, Covered
  <2>3. Clean(w)'
      BY <1>3 DEF Clean
  <2> QED
      BY <2>1, <2>2, <2>3 DEF CleanStart, GenerationWhole
<1> QED
    BY <1>2, <1>6 DEF OpenCursor, PublishedOnce

LEMMA StageBatchInv ==
    ASSUME Inv, NEW w \in Workers, NEW B \in SUBSET todo[w], StageBatch(w, B)
    PROVE  Known' /\ CleanStart' /\ GenerationWhole' /\ PublishedOnce'
<1> USE DEF Inv
<1> DEFINE j == task[w]
<1>1. j \in Jobs /\ Owns(w, j)
    BY DEF StageBatch, TypeOK, WorkerTypeOK
<1>2. Known'
    BY DEF StageBatch, Known, Linked, Stored
<1>3. \A v \in Workers \ {w} : Undisturbed(v)
  <2>1. \A k \in Jobs \ {j} :
           job'[k] = job[k] /\ snapshot'[k] = snapshot[k] /\ staged'[k] = staged[k]
      BY DEF StageBatch, TypeOK, JobTypeOK, GenerationTypeOK
  <2>2. job'[j].owner = w
      BY <1>1 DEF StageBatch, Owns, TypeOK, JobTypeOK
  <2>3. \A v \in Workers \ {w} : pc'[v] = pc[v] /\ task'[v] = task[v] /\ todo'[v] = todo[v]
      BY DEF StageBatch, TypeOK, WorkerTypeOK
  <2> QED
      BY <1>1, <2>1, <2>2, <2>3, OthersUndisturbed
<1>4. staged'[j] \cup todo'[w] = staged[j] \cup todo[w]
    BY <1>1 DEF StageBatch, TypeOK, GenerationTypeOK, WorkerTypeOK
<1>5. CleanStart' /\ GenerationWhole'
  <2>1. \A v \in Workers \ {w} : Clean(v)' /\ Intact(v)'
      BY <1>3, UndisturbedKeeps
  <2>2. Intact(w)'
      BY <1>1, <1>4 DEF StageBatch, GenerationWhole, Intact, Disjoint, Covered
  <2>3. Clean(w)'
      BY DEF StageBatch, Clean
  <2> QED
      BY <2>1, <2>2, <2>3 DEF CleanStart, GenerationWhole
<1> QED
    BY <1>2, <1>5 DEF StageBatch, PublishedOnce

\* The published generation: the chunks that stay hold no message of the
\* snapshot, the staged ones hold exactly the snapshot.
LEMMA CommitGeneration ==
    ASSUME Inv, NEW w \in Workers, CommitStaged(w)
    PROVE  LET j == task[w] IN
           /\ j \in Jobs /\ Owns(w, j)
           /\ published' = [published EXCEPT ![j[2]] = Kept(j) \cup staged[j]]
           /\ Kept(j) \subseteq published[j[2]]
           /\ Covered(Kept(j)) \cap snapshot[j] = {}
           /\ Disjoint(staged[j]) /\ Covered(staged[j]) = snapshot[j]
<1> DEFINE j == task[w]
<1>1. j \in Jobs /\ Owns(w, j)
    BY DEF CommitStaged, Inv, TypeOK, WorkerTypeOK
<1>2. Kept(j) \subseteq published[j[2]] /\ Covered(Kept(j)) \cap snapshot[j] = {}
    BY DEF Kept, Covered
<1>3. staged[j] \cup todo[w] = staged[j]
    BY DEF CommitStaged
<1>4. Disjoint(staged[j]) /\ Covered(staged[j]) = snapshot[j]
  <2>1. Intact(w) /\ pc[w] = "batch"
      BY DEF CommitStaged, Inv, GenerationWhole
  <2> QED
      BY <1>1, <1>3, <2>1 DEF Intact
<1> QED
    BY <1>1, <1>2, <1>4 DEF CommitStaged

LEMMA CommitStagedInv ==
    ASSUME Inv, NEW w \in Workers, CommitStaged(w)
    PROVE  Known' /\ CleanStart' /\ GenerationWhole' /\ PublishedOnce'
<1> USE DEF Inv
<1> DEFINE j == task[w]
           i == j[2]
<1>1. /\ j \in Jobs /\ Owns(w, j) /\ i \in Indexes
      /\ published' = [published EXCEPT ![i] = Kept(j) \cup staged[j]]
      /\ Kept(j) \subseteq published[i]
      /\ Covered(Kept(j)) \cap snapshot[j] = {}
      /\ Disjoint(staged[j]) /\ Covered(staged[j]) = snapshot[j]
    BY CommitGeneration
<1>2. /\ published'[i] = Kept(j) \cup staged[j]
      /\ \A k \in Indexes \ {i} : published'[k] = published[k]
    BY <1>1 DEF TypeOK, GenerationTypeOK
<1>3. Known'
  <2>1. Covered(published'[i]) \subseteq Linked(i) \cup snapshot[j]
      BY <1>1, <1>2 DEF Linked, Covered
  <2>2. \A k \in Indexes : Covered(published'[k]) \subseteq Stored
      BY <1>1, <1>2, <2>1 DEF Known, Linked
  <2>3. \A v \in Workers : missing'[v] # {} => pc'[v] = "catchup"
      BY DEF CommitStaged, Goto, Known, TypeOK, WorkerTypeOK
  <2> QED
      BY <2>2, <2>3 DEF CommitStaged, Known, Linked, Stored
<1>4. CleanStart' /\ GenerationWhole'
  <2> SUFFICES ASSUME NEW v \in Workers PROVE Undisturbed(v)
      BY AllUndisturbed
  <2>1. pc'[w] = "ready" /\ \A u \in Workers \ {w} : pc'[u] = pc[u]
      BY DEF CommitStaged, Goto, TypeOK, WorkerTypeOK
  <2>2. CASE v = w
      BY <2>1, <2>2 DEF Undisturbed
  <2>3. CASE v # w
    <3>1. \A k \in Jobs \ {j} :
             job'[k] = job[k] /\ snapshot'[k] = snapshot[k] /\ staged'[k] = staged[k]
        BY DEF CommitStaged, TypeOK, JobTypeOK, GenerationTypeOK
    <3>2. job'[j].owner = NoWorker
        BY <1>1 DEF CommitStaged, TypeOK, JobTypeOK
    <3> QED
        BY <1>1, <2>1, <2>3, <3>1, <3>2, OthersUndisturbed DEF CommitStaged
  <2> QED
      BY <2>2, <2>3
<1>5. PublishedOnce'
  <2>1. ASSUME NEW c \in published'[i], NEW d \in published'[i], c # d
        PROVE  DOMAIN c \cap DOMAIN d = {}
    <3>1. CASE c \in Kept(j) /\ d \in Kept(j)
        BY <1>1, <2>1, <3>1 DEF PublishedOnce, Disjoint
    <3>2. CASE c \in staged[j] /\ d \in staged[j]
        BY <1>1, <2>1, <3>2 DEF Disjoint
    <3>3. CASE c \in Kept(j) /\ d \in staged[j]
        BY <1>1, <3>3 DEF Covered
    <3>4. CASE c \in staged[j] /\ d \in Kept(j)
        BY <1>1, <3>4 DEF Covered
    <3> QED
        BY <1>2, <3>1, <3>2, <3>3, <3>4
  <2> QED
      BY <1>2, <2>1 DEF PublishedOnce, Disjoint
<1> QED
    BY <1>3, <1>4, <1>5

\* A renewal or an expiry changes only the lease.
LEMMA LeaseInv ==
    ASSUME Inv, NEW j \in Jobs,
           job' = [job EXCEPT ![j].live = TRUE] \/ job' = [job EXCEPT ![j].live = FALSE],
           UNCHANGED <<archiveVars, snapshot, staged, published, workerVars>>
    PROVE  Known' /\ CleanStart' /\ GenerationWhole' /\ PublishedOnce'
<1> USE DEF Inv
<1>1. \A k \in Jobs : \A v \in Workers : Owns(v, k)' <=> Owns(v, k)
    BY DEF Owns, TypeOK, JobTypeOK
<1>2. \A v \in Workers : pc[v] \in {"open", "batch"} => task[v] \in Jobs
    BY DEF TypeOK, WorkerTypeOK
<1>3. \A v \in Workers : Undisturbed(v)
    BY <1>1, <1>2 DEF Undisturbed
<1> QED
    BY <1>3, AllUndisturbed DEF Known, Linked, Stored, PublishedOnce

LEMMA NextInv == Inv /\ [Next]_vars => Inv'
<1> SUFFICES ASSUME Inv, [Next]_vars PROVE Inv'
    OBVIOUS
<1>1. TypeOK'
    BY NextTypeOK DEF Inv
<1>2. CASE UNCHANGED vars
  <2>1. Known'
      BY <1>2 DEF Inv, Known, Linked, Stored
  <2>2. CleanStart' /\ GenerationWhole'
      BY <1>2 DEF Inv, CleanStart, Clean, GenerationWhole, Intact, Owns, Disjoint, Covered
  <2>3. PublishedOnce'
      BY <1>2 DEF Inv, PublishedOnce
  <2> QED
      BY <1>1, <2>1, <2>2, <2>3 DEF Inv
<1>3. ASSUME NEW w \in Workers, Work(w) PROVE Inv'
    BY <1>1, <1>3, QuietStepInv, PrepareTotalInv, PrepareStagingInv, OpenCursorInv,
       StageBatchInv, CommitStagedInv
    DEF Work, Inv
<1>4. ASSUME NEW w \in Workers, Fault(w) PROVE Inv'
  <2>1. CASE RenewLease(w)
    <3>1. task[w] \in Jobs
        BY <2>1 DEF RenewLease, Inv, TypeOK, WorkerTypeOK, Processing
    <3> QED
        BY <1>1, <2>1, <3>1, LeaseInv DEF RenewLease, Inv
  <2> QED
      BY <1>1, <1>4, <2>1, QuietStepInv DEF Fault, Inv
<1>5. ASSUME NEW j \in Jobs, ExpireLease(j) PROVE Inv'
    BY <1>1, <1>5, LeaseInv DEF ExpireLease, Inv
<1> QED
    BY <1>2, <1>3, <1>4, <1>5, IngestInv, RequestInv DEF Next

-----------------------------------------------------------------------------
(* The theorems. *)

LEMMA Inductive == Spec => []Inv
BY InitInv, NextInv, PTL DEF Spec

\* For any number of processes, stalls, crashes, retries and cancellations, what
\* the owner of a job has staged and still holds is exactly the job's snapshot.
THEOREM GenerationsAreWhole == Spec => []GenerationWhole
<1>1. Inv => GenerationWhole
    BY DEF Inv
<1> QED
    BY <1>1, Inductive, PTL

\* No published generation ever holds a message twice.
THEOREM MessagesPublishedOnce == Spec => []PublishedOnce
<1>1. Inv => PublishedOnce
    BY DEF Inv
<1> QED
    BY <1>1, Inductive, PTL

LEMMA CommitIsAtomic ==
    ASSUME Inv, NEW w \in Workers, CommitStaged(w), NEW i \in Indexes,
           published'[i] # published[i]
    PROVE  \E s \in Sessions :
              /\ job[<<s, i>>].status = "running"
              /\ job'[<<s, i>>].status = "completed"
              /\ snapshot[<<s, i>>] \subseteq Covered(published'[i])
<1> DEFINE j == task[w]
<1>1. /\ j \in Jobs /\ Owns(w, j)
      /\ published' = [published EXCEPT ![j[2]] = Kept(j) \cup staged[j]]
      /\ Covered(staged[j]) = snapshot[j]
    BY CommitGeneration
<1>2. i = j[2] /\ published'[i] = Kept(j) \cup staged[j]
    BY <1>1 DEF Inv, TypeOK, GenerationTypeOK
<1>3. job'[j].status = "completed"
    BY <1>1 DEF CommitStaged, Inv, TypeOK, JobTypeOK
<1>4. snapshot[j] \subseteq Covered(published'[i])
    BY <1>1, <1>2 DEF Covered
<1>5. j = <<j[1], i>> /\ j[1] \in Sessions
    BY <1>1, <1>2
<1> QED
    BY <1>1, <1>3, <1>4, <1>5 DEF Owns

\* What can be searched changes only by the completion of a job, which publishes
\* its whole snapshot, or by the clearing of the archive: a failed, cancelled or
\* fenced-off attempt never shows.
THEOREM PublicationIsAtomic == Spec => AtomicPublication
<1> DEFINE Atomic ==
      \A i \in Indexes : published'[i] # published[i] =>
          \/ Cleared
          \/ \E s \in Sessions :
                /\ job[<<s, i>>].status = "running"
                /\ job'[<<s, i>>].status = "completed"
                /\ snapshot[<<s, i>>] \subseteq Covered(published'[i])
<1>1. ASSUME Inv, [Next]_vars PROVE [Atomic]_vars
  <2>1. CASE DeleteAll
      BY <2>1 DEF DeleteAll, Cleared
  <2>2. CASE \E w \in Workers : CommitStaged(w)
      BY <1>1, <2>2, CommitIsAtomic
  <2>3. CASE UNCHANGED published
      BY <2>3
  <2>4. CASE Ingest
      BY <2>3, <2>4
      DEF Ingest, CreateSession, StoreMessages, FinishSession, QueueSessionIndexing
  <2>5. CASE Request
      BY <2>1, <2>3, <2>5
      DEF Request, QueueSync, QueueRebuild, QueuePending, Retry, Cancel
  <2>6. CASE \E w \in Workers : Work(w)
      BY <2>2, <2>3, <2>6, ZenonT(60)
      DEF Work, Start, Claim, PrepareTotal, PrepareStaging, OpenCursor, StageBatch,
          MarkReadySelect, MarkReadyCommit, Quit, AssertFails, FailJob, MarkFailed
  <2>7. CASE \E w \in Workers : Fault(w)
      BY <2>3, <2>7 DEF Fault, Raise, RenewLease, Crash, Abandon
  <2>8. CASE \E j \in Jobs : ExpireLease(j)
      BY <2>3, <2>8 DEF ExpireLease
  <2> QED
      BY <1>1, <2>3, <2>4, <2>5, <2>6, <2>7, <2>8 DEF Next
<1> QED
    BY <1>1, Inductive, PTL DEF Spec, AtomicPublication

\* A ready index stays ready: no failed, cancelled or late attempt takes it back.
THEOREM ReadyStays == Spec => ReadyIsStable
<1> DEFINE Stable == \A i \in Indexes : status[i] = "ready" => status'[i] = "ready"
<1>1. ASSUME TypeOK, [Next]_vars PROVE [Stable]_vars
  <2>1. CASE UNCHANGED status
      BY <2>1
  <2>2. CASE Ingest
      BY <2>1, <2>2
      DEF Ingest, CreateSession, StoreMessages, FinishSession, QueueSessionIndexing
  <2>3. CASE Request
    <3>1. ASSUME NEW j \in Jobs, Cancel(j) PROVE Stable
        BY <1>1, <3>1 DEF Cancel, TypeOK, GenerationTypeOK
    <3>2. ASSUME DeleteAll PROVE Stable
        BY <3>2 DEF DeleteAll
    <3> QED
        BY <2>1, <2>3, <3>1, <3>2
        DEF Request, QueueSync, QueueRebuild, QueuePending, Retry
  <2>4. ASSUME NEW w \in Workers, Work(w) PROVE [Stable]_vars
    <3>1. ASSUME NEW j \in Jobs, Claim(w, j) PROVE Stable
        BY <1>1, <3>1 DEF Claim, TypeOK, GenerationTypeOK
    <3>2. ASSUME MarkReadyCommit(w) PROVE Stable
        BY <1>1, <3>2 DEF MarkReadyCommit, TypeOK, GenerationTypeOK
    <3>3. ASSUME MarkFailed(w) PROVE Stable
        BY <1>1, <3>3 DEF MarkFailed, TypeOK, GenerationTypeOK
    <3> QED
        BY <2>1, <2>4, <3>1, <3>2, <3>3
        DEF Work, Start, PrepareTotal, PrepareStaging, OpenCursor, StageBatch,
            CommitStaged, MarkReadySelect, Quit, AssertFails, FailJob
  <2>5. CASE \E w \in Workers : Fault(w)
      BY <2>1, <2>5 DEF Fault, Raise, RenewLease, Crash, Abandon
  <2>6. CASE \E j \in Jobs : ExpireLease(j)
      BY <2>1, <2>6 DEF ExpireLease
  <2> QED
      BY <1>1, <2>1, <2>2, <2>3, <2>4, <2>5, <2>6 DEF Next
<1> QED
    BY <1>1, TypeCorrect, PTL DEF Spec, ReadyIsStable
-----------------------------------------------------------------------------
(* What a user can find is not lost again. Two processes at work on one index    *)
(* replace each other's chunks and a rebuild publishes less than it replaces    *)
(* (the run rebuild shows it), so both are left out here.                       *)

OneProcess     == Replicas = 1
NoRebuildAsked == Rebuildable = {} /\ Carried = {}

\* One process is alive at a time.
OneAlive == \A v, w \in Workers : pc[v] \in Alive /\ pc[w] \in Alive => v = w

\* Nothing but increments to an index that is ready.
OnlyIncrements ==
    /\ \A j \in Jobs : job[j].kind # "rebuild"
    /\ \A i \in Indexes : status[i] = "ready"
    /\ \A w \in Workers : missing[w] = {}

\* A session that has a job takes no more messages.
SessionsClosed ==
    \A j \in Jobs : job[j].status # "none" =>
        session[j[1]].status \in {"completed", "stopped"}

Generating == {"clear", "open", "batch"}

\* The snapshot of an owner splits no published chunk, and with the published
\* messages it covers the session.
Prepared(w) ==
    pc[w] \in Generating /\ Owns(w, task[w]) =>
        LET j == task[w] IN
        /\ \A c \in published[j[2]] :
              DOMAIN c \cap snapshot[j] # {} => DOMAIN c \subseteq snapshot[j]
        /\ session[j[1]].messages \subseteq snapshot[j] \cup Linked(j[2])

AllPrepared == \A w \in Workers : Prepared(w)

SearchInv ==
    /\ Inv
    /\ OneAlive
    /\ OnlyIncrements
    /\ SessionsClosed
    /\ AllPrepared
    /\ CompletedJobCovers

LEMMA InitSearchInv == NoRebuildAsked /\ Init => SearchInv
<1> SUFFICES ASSUME NoRebuildAsked, Init PROVE SearchInv
    OBVIOUS
<1>1. \A j \in Jobs : job[j] = AbsentJob
    BY DEF Init, NoRebuildAsked
<1>2. OneAlive /\ OnlyIncrements /\ AllPrepared
    BY <1>1 DEF Init, NoRebuildAsked, OneAlive, OnlyIncrements, AllPrepared, Prepared,
       Alive, Processing, Generating, AbsentJob, Unowned
<1>3. SessionsClosed /\ CompletedJobCovers
    BY <1>1 DEF SessionsClosed, CompletedJobCovers, AbsentJob, Unowned
<1> QED
    BY <1>2, <1>3, InitInv DEF SearchInv

\* A process starts only when none is alive.
LEMMA NextOneAlive == OneProcess /\ TypeOK /\ OneAlive /\ [Next]_vars => OneAlive'
<1> SUFFICES ASSUME OneProcess, TypeOK, OneAlive, [Next]_vars PROVE OneAlive'
    OBVIOUS
<1> USE DEF OneAlive, TypeOK
<1>1. CASE UNCHANGED pc
    BY <1>1
<1>2. ASSUME NEW w \in Workers, pc[w] \in Alive,
             \A v \in Workers \ {w} : pc'[v] = pc[v]
      PROVE  OneAlive'
    BY <1>2
<1>3. ASSUME NEW w \in Workers, Start(w) PROVE OneAlive'
  <2>1. \A v \in Workers : pc[v] \notin Alive
    <3> SUFFICES ASSUME NEW v \in Workers, pc[v] \in Alive PROVE FALSE
        OBVIOUS
    <3>1. {u \in Workers : pc[u] \in Alive} = {v}
        OBVIOUS
    <3> QED
        BY <1>3, <3>1, FS_Singleton DEF Start, OneProcess
  <2>2. \A v \in Workers \ {w} : pc'[v] = pc[v]
      BY <1>3 DEF Start, Goto, WorkerTypeOK
  <2> QED
      BY <2>1, <2>2
<1>4. ASSUME NEW w \in Workers, Work(w) PROVE OneAlive'
  <2>1. \A v \in Workers \ {w} : pc'[v] = pc[v]
      BY <1>4
      DEF Work, Start, Claim, PrepareTotal, PrepareStaging, OpenCursor, StageBatch,
          CommitStaged, MarkReadySelect, MarkReadyCommit, Quit, AssertFails, FailJob,
          MarkFailed, Goto, Leave, WorkerTypeOK
  <2>2. Start(w) \/ pc[w] \in Alive
      BY <1>4
      DEF Work, Claim, PrepareTotal, PrepareStaging, OpenCursor, StageBatch,
          CommitStaged, MarkReadySelect, MarkReadyCommit, Quit, AssertFails, FailJob,
          MarkFailed, Alive, Processing
  <2> QED
      BY <1>2, <1>3, <2>1, <2>2
<1>5. ASSUME NEW w \in Workers, Fault(w) PROVE OneAlive'
  <2>1. \A v \in Workers \ {w} : pc'[v] = pc[v]
      BY <1>5 DEF Fault, Raise, RenewLease, Crash, Abandon, Leave, WorkerTypeOK
  <2>2. pc[w] \in Alive
      BY <1>5 DEF Fault, Raise, RenewLease, Crash, Abandon, Alive, Processing
  <2> QED
      BY <1>2, <2>1, <2>2
<1>6. Ingest \/ Request \/ (\E j \in Jobs : ExpireLease(j)) => UNCHANGED pc
    BY DEF Ingest, CreateSession, StoreMessages, FinishSession, QueueSessionIndexing,
       Request, QueueSync, QueueRebuild, QueuePending, Retry, Cancel, DeleteAll,
       ExpireLease
<1> QED
    BY <1>1, <1>4, <1>5, <1>6 DEF Next

LEMMA NextOnlyIncrements ==
    NoRebuildAsked /\ TypeOK /\ OnlyIncrements /\ [Next]_vars => OnlyIncrements'
<1> SUFFICES ASSUME NoRebuildAsked, TypeOK, OnlyIncrements, [Next]_vars
             PROVE  OnlyIncrements'
    OBVIOUS
<1> USE DEF OnlyIncrements, TypeOK
<1>1. CASE UNCHANGED <<job, status, missing>>
    BY <1>1
<1>2. ASSUME NEW s \in Sessions, QueueSessionJobs(s)
      PROVE  \A j \in Jobs : job'[j].kind # "rebuild"
    BY <1>2 DEF QueueSessionJobs, NewJob, Unowned
<1>3. ASSUME NEW s \in Sessions, NEW i \in Indexes, NEW M,
             NEW kind \in {"incremental", "sync"}, QueueMaintenance(s, i, kind, M)
      PROVE  \A j \in Jobs : job'[j].kind # "rebuild"
    BY <1>3 DEF QueueMaintenance, NewJob, Unowned, JobTypeOK
<1>4. ASSUME NEW w \in Workers, NEW p, Leave(w, p)
      PROVE  \A v \in Workers : missing'[v] = {}
    BY <1>4 DEF Leave, WorkerTypeOK
<1>5. CASE Ingest
    BY <1>1, <1>2, <1>5
    DEF Ingest, CreateSession, StoreMessages, FinishSession, QueueSessionIndexing
<1>6. CASE Request
  <2>1. ASSUME NEW s \in Sessions, NEW i \in Indexes,
               QueueSync(s, i) \/ QueueRebuild(s, i) \/ QueuePending(s, i)
        PROVE  OnlyIncrements'
      BY <1>3, <2>1 DEF QueueSync, QueueRebuild, QueuePending, NoRebuildAsked
  <2>2. ASSUME NEW j \in Jobs, Retry(j) PROVE OnlyIncrements'
      BY <2>2 DEF Retry, NewJob, Unowned, JobTypeOK
  <2>3. ASSUME NEW j \in Jobs, Cancel(j) PROVE OnlyIncrements'
    <3>1. \A k \in Jobs : job'[k].kind = job[k].kind
        BY <2>3 DEF Cancel, JobTypeOK
    <3> QED
        BY <2>3, <3>1 DEF Cancel, GenerationTypeOK
  <2>4. ASSUME DeleteAll PROVE OnlyIncrements'
      BY <2>4 DEF DeleteAll, AbsentJob, Unowned
  <2> QED
      BY <1>6, <2>1, <2>2, <2>3, <2>4 DEF Request
<1>7. ASSUME NEW j \in Jobs, NEW row, job' = [job EXCEPT ![j] = row],
             row.kind = job[j].kind, UNCHANGED <<status, missing>>
      PROVE  OnlyIncrements'
    BY <1>7 DEF JobTypeOK
<1>8. ASSUME NEW w \in Workers, Work(w) PROVE OnlyIncrements'
  <2>1. pc[w] \notin {"off", "idle", "dead"} => task[w] \in Jobs
      BY DEF WorkerTypeOK
  <2>2. ASSUME NEW j \in Jobs, Claim(w, j) PROVE OnlyIncrements'
    <3>1. \A k \in Jobs : job'[k].kind = job[k].kind
        BY <2>2 DEF Claim, JobTypeOK
    <3> QED
        BY <2>2, <3>1 DEF Claim, GenerationTypeOK
  <2>3. CASE PrepareTotal(w) \/ PrepareStaging(w) \/ \E B \in SUBSET todo[w] : StageBatch(w, B)
    <3>1. job' = [job EXCEPT ![task[w]].live = TRUE] /\ task[w] \in Jobs
        BY <2>1, <2>3 DEF PrepareTotal, PrepareStaging, StageBatch
    <3>2. \A k \in Jobs : job'[k].kind = job[k].kind
        BY <3>1 DEF JobTypeOK
    <3> QED
        BY <2>3, <3>2 DEF PrepareTotal, PrepareStaging, StageBatch
  <2>4. CASE CommitStaged(w) \/ FailJob(w)
    <3>1. \A k \in Jobs : job'[k].kind = job[k].kind
      <4>1. CASE CommitStaged(w)
          BY <2>1, <4>1 DEF CommitStaged, JobTypeOK
      <4>2. CASE FailJob(w) /\ Owns(w, task[w])
        <5>1. /\ task[w] \in Jobs
              /\ job' = [job EXCEPT ![task[w]] = [@ EXCEPT !.status = "failed",
                                                !.owner = NoWorker, !.live = FALSE]]
            BY <2>1, <4>2 DEF FailJob
        <5> QED
            BY <5>1 DEF JobTypeOK
      <4>3. CASE FailJob(w) /\ ~Owns(w, task[w])
          BY <4>3 DEF FailJob
      <4> QED
          BY <2>4, <4>1, <4>2, <4>3
    <3> QED
        BY <2>4, <3>1 DEF CommitStaged, FailJob
  <2>5. CASE MarkReadySelect(w)
      BY <2>1, <2>5 DEF MarkReadySelect, WorkerTypeOK
  <2>6. CASE MarkReadyCommit(w)
    <3>1. UNCHANGED job
        BY <2>6 DEF MarkReadyCommit
    <3> QED
        BY <1>4, <2>6, <3>1 DEF MarkReadyCommit, GenerationTypeOK
  <2>7. CASE Quit(w) \/ AssertFails(w)
      BY <1>4, <2>7 DEF Quit, AssertFails
  <2>8. CASE MarkFailed(w)
      BY <1>4, <2>1, <2>8 DEF MarkFailed, GenerationTypeOK
  <2>9. CASE Start(w) \/ OpenCursor(w)
      BY <1>1, <2>9 DEF Start, OpenCursor
  <2> QED
      BY <1>8, <2>2, <2>3, <2>4, <2>5, <2>6, <2>7, <2>8, <2>9 DEF Work
<1>9. ASSUME NEW w \in Workers, Fault(w) PROVE OnlyIncrements'
  <2>1. CASE RenewLease(w)
    <3>1. \A k \in Jobs : job'[k].kind = job[k].kind
        BY <2>1 DEF RenewLease, JobTypeOK
    <3> QED
        BY <2>1, <3>1 DEF RenewLease
  <2> QED
      BY <1>4, <1>9, <2>1 DEF Fault, Raise, Crash, Abandon
<1>10. ASSUME NEW j \in Jobs, ExpireLease(j) PROVE OnlyIncrements'
  <2>1. \A k \in Jobs : job'[k].kind = job[k].kind
      BY <1>10 DEF ExpireLease, JobTypeOK
  <2> QED
      BY <1>10, <2>1 DEF ExpireLease
<1> QED
    BY <1>1, <1>5, <1>6, <1>8, <1>9, <1>10 DEF Next

\* What a job row and the session of a job may do in one step: a job is made of a
\* session that is closed, and such a session keeps its messages.
LEMMA NextSessionsClosed ==
    TypeOK /\ OnlyIncrements /\ SessionsClosed /\ [Next]_vars =>
        /\ SessionsClosed'
        /\ DeleteAll \/ \A j \in Jobs : job[j].status # "none" =>
                            session'[j[1]].messages = session[j[1]].messages
<1> SUFFICES ASSUME TypeOK, OnlyIncrements, SessionsClosed, [Next]_vars
             PROVE  /\ SessionsClosed'
                    /\ DeleteAll \/ \A j \in Jobs : job[j].status # "none" =>
                                        session'[j[1]].messages = session[j[1]].messages
    OBVIOUS
<1> USE DEF SessionsClosed, TypeOK
<1> DEFINE Keeps == \A j \in Jobs : job[j].status # "none" =>
                        session'[j[1]].messages = session[j[1]].messages
           Rows  == \A j \in Jobs : job'[j].status # "none" => job[j].status # "none"
<1>1. ASSUME UNCHANGED session, Rows PROVE SessionsClosed' /\ Keeps
    BY <1>1
<1>2. ASSUME NEW s \in Sessions, QueueSessionJobs(s), NEW j \in Jobs,
             job'[j].status # "none"
      PROVE  j[1] = s \/ job[j].status # "none"
  <2> DEFINE ready == {i \in AutoSync : status[i] = "ready"}
             new   == {<<s, i>> : i \in {k \in ready : job[<<s, k>>].status = "none"}}
  <2>1. job'[j] = IF j \in new THEN NewJob("incremental") ELSE job[j]
      BY <1>2 DEF QueueSessionJobs
  <2>2. ASSUME j \in new PROVE j[1] = s
    <3>1. PICK i \in Indexes : j = <<s, i>>
        BY <2>2, ConstantsAssumption
    <3> QED
        BY <3>1
  <2> QED
      BY <1>2, <2>1, <2>2
<1>3. ASSUME NEW s \in Sessions, NEW i \in Indexes, NEW kind, NEW M,
             session[s].status = "absent", QueueMaintenance(s, i, kind, M)
      PROVE  SessionsClosed' /\ Keeps
  <2>1. \A t \in Sessions \ {s} : session'[t] = session[t]
      BY <1>3 DEF QueueMaintenance, ArchiveTypeOK
  <2>2. session'[s].status = "completed"
      BY <1>3 DEF QueueMaintenance, ArchiveTypeOK
  <2>3. \A j \in Jobs : job'[j].status # "none" => j[1] = s \/ job[j].status # "none"
      BY <1>3 DEF QueueMaintenance, JobTypeOK
  <2>4. \A j \in Jobs : job[j].status # "none" => j[1] # s
      BY <1>3
  <2> QED
      BY <2>1, <2>2, <2>3, <2>4
<1>4. CASE Ingest
  <2>1. ASSUME NEW s \in Sessions, CreateSession(s) PROVE SessionsClosed' /\ Keeps
      BY <2>1 DEF CreateSession, ArchiveTypeOK
  <2>2. ASSUME NEW s \in Sessions, NEW M \in SUBSET Messages, NEW D \in SUBSET M,
               StoreMessages(s, M, D)
        PROVE  SessionsClosed' /\ Keeps
      BY <2>2 DEF StoreMessages, ArchiveTypeOK
  <2>3. ASSUME NEW s \in Sessions, NEW reason \in {"completed", "stopped"},
               NEW q \in QueueChoices, FinishSession(s, reason, q)
        PROVE  SessionsClosed' /\ Keeps
    <3>1. \A t \in Sessions : /\ session'[t].messages = session[t].messages
                              /\ session'[t].status = IF t = s THEN reason
                                                      ELSE session[t].status
        BY <2>3 DEF FinishSession, ArchiveTypeOK
    <3>2. \A j \in Jobs : job'[j].status # "none" => j[1] = s \/ job[j].status # "none"
        BY <1>2, <2>3 DEF FinishSession
    <3> QED
        BY <3>1, <3>2
  <2>4. ASSUME NEW s \in Sessions, QueueSessionIndexing(s) PROVE SessionsClosed' /\ Keeps
      BY <1>2, <2>4 DEF QueueSessionIndexing
  <2> QED
      BY <1>4, <2>1, <2>2, <2>3, <2>4 DEF Ingest
<1>5. CASE Request
  <2>1. ASSUME NEW s \in Sessions, NEW i \in Indexes,
               QueueSync(s, i) \/ QueueRebuild(s, i) \/ QueuePending(s, i)
        PROVE  SessionsClosed' /\ Keeps
    <3>1. session[s].status = "absent"
        BY <2>1 DEF QueueSync, QueueRebuild, QueuePending, QueueMaintenance
    <3>2. \E kind, M : QueueMaintenance(s, i, kind, M)
        BY <2>1 DEF QueueSync, QueueRebuild, QueuePending
    <3> QED
        BY <1>3, <3>1, <3>2
  <2>2. ASSUME NEW j \in Jobs, Retry(j) \/ Cancel(j) PROVE SessionsClosed' /\ Keeps
    <3>1. Rows
        BY <2>2 DEF Retry, Cancel, Active, JobTypeOK
    <3> QED
        BY <1>1, <2>2, <3>1 DEF Retry, Cancel
  <2>3. DeleteAll => SessionsClosed'
      BY DEF DeleteAll, AbsentJob, Unowned
  <2> QED
      BY <1>5, <2>1, <2>2, <2>3 DEF Request
<1>6. ASSUME NEW w \in Workers, Work(w) \/ Fault(w) PROVE SessionsClosed' /\ Keeps
  <2>1. pc[w] \notin {"off", "idle", "dead"} => task[w] \in Jobs
      BY DEF WorkerTypeOK
  <2>2. UNCHANGED session
      BY <1>6
      DEF Work, Start, Claim, PrepareTotal, PrepareStaging, OpenCursor, StageBatch,
          CommitStaged, MarkReadySelect, MarkReadyCommit, Quit, AssertFails, FailJob,
          MarkFailed, Fault, Raise, RenewLease, Crash, Abandon, OnlyIncrements
  <2>3. ASSUME NEW j \in Jobs, Claim(w, j) PROVE Rows
      BY <2>3 DEF Claim, Claimable, JobTypeOK
  <2>4. ASSUME CommitStaged(w) \/ FailJob(w) PROVE Rows
      BY <2>1, <2>4 DEF CommitStaged, FailJob, Owns, JobTypeOK
  <2>5. ASSUME PrepareTotal(w) \/ PrepareStaging(w) \/ RenewLease(w)
               \/ \E B \in SUBSET todo[w] : StageBatch(w, B)
        PROVE  Rows
    <3>1. job' = [job EXCEPT ![task[w]].live = TRUE]
        BY <2>5 DEF PrepareTotal, PrepareStaging, StageBatch, RenewLease
    <3> QED
        BY <3>1 DEF JobTypeOK
  <2>6. UNCHANGED job => Rows
      OBVIOUS
  <2>7. Rows
    <3>1. CASE Work(w)
        BY <2>3, <2>4, <2>5, <2>6, <3>1
        DEF Work, Start, OpenCursor, MarkReadySelect, MarkReadyCommit, Quit,
            AssertFails, MarkFailed, OnlyIncrements
    <3>2. CASE Fault(w)
        BY <2>5, <2>6, <3>2 DEF Fault, Raise, Crash, Abandon
    <3> QED
        BY <1>6, <3>1, <3>2
  <2> QED
      BY <1>1, <2>2, <2>7
<1>7. ASSUME NEW j \in Jobs, ExpireLease(j) PROVE SessionsClosed' /\ Keeps
  <2>1. Rows
      BY <1>7 DEF ExpireLease, JobTypeOK
  <2> QED
      BY <1>1, <1>7, <2>1 DEF ExpireLease
<1> QED
    BY <1>1, <1>4, <1>5, <1>6, <1>7 DEF Next

\* Worker v, if it owns its job in the middle of a generation, did so before, with
\* the same snapshot.
Continues(v) ==
    pc'[v] \in Generating /\ Owns(v, task[v])' =>
        /\ pc[v] \in Generating
        /\ Owns(v, task[v])
        /\ task'[v] = task[v]
        /\ snapshot'[task[v]] = snapshot[task[v]]

\* What keeps the coverage of jobs: sessions with a job keep their messages, nothing
\* published goes away, no job completes, and at most w takes a snapshot.
LEMMA CoverageKept ==
    ASSUME SearchInv, UNCHANGED published,
           \A j \in Jobs : job[j].status # "none" =>
               session'[j[1]].messages = session[j[1]].messages,
           \A j \in Jobs : job'[j].status = "completed" => job[j].status = "completed"
    PROVE  /\ CompletedJobCovers'
           /\ \A v \in Workers : Continues(v) => Prepared(v)'
<1> USE DEF SearchInv
<1>1. CompletedJobCovers'
    BY DEF CompletedJobCovers, Linked
<1>2. ASSUME NEW v \in Workers, Continues(v) PROVE Prepared(v)'
  <2> SUFFICES ASSUME pc'[v] \in Generating, Owns(v, task[v])' PROVE Prepared(v)'
      BY DEF Prepared
  <2>1. /\ pc[v] \in Generating /\ Owns(v, task[v]) /\ task'[v] = task[v]
        /\ snapshot'[task[v]] = snapshot[task[v]]
      BY <1>2 DEF Continues
  <2>2. task[v] \in Jobs
      BY <2>1 DEF Inv, TypeOK, WorkerTypeOK, Generating
  <2>3. session'[task[v][1]].messages = session[task[v][1]].messages
      BY <2>1, <2>2 DEF Owns
  <2>4. Prepared(v)
      BY DEF AllPrepared
  <2> QED
      BY <2>1, <2>3, <2>4 DEF Prepared, Linked
<1> QED
    BY <1>1, <1>2

\* Taking the snapshot: the neighbours of a new message come with it, whole.
LEMMA SnapshotIsPrepared ==
    ASSUME SearchInv, NEW w \in Workers, PrepareTotal(w)
    PROVE  Prepared(w)'
<1> USE DEF SearchInv, Inv
<1> DEFINE j     == task[w]
           i     == j[2]
           fresh == {m \in session[j[1]].messages : m \notin Linked(i) \/ m \in edited[i]}
           near  == {c \in published[i] : DOMAIN c \cap fresh # {}}
<1>1. j \in Jobs /\ i \in Indexes
    BY DEF PrepareTotal, TypeOK, WorkerTypeOK
<1>2. snapshot'[j] = fresh \cup Covered(near)
    BY <1>1 DEF PrepareTotal, SnapshotOf, TypeOK, GenerationTypeOK
<1>3. UNCHANGED <<session, published, task>>
    BY DEF PrepareTotal
<1>4. ASSUME NEW c \in published[i], DOMAIN c \cap snapshot'[j] # {}
      PROVE  c \in near
  <2>1. CASE DOMAIN c \cap fresh # {}
      BY <2>1
  <2>2. CASE DOMAIN c \cap Covered(near) # {}
    <3>1. PICK m \in DOMAIN c, d \in near : m \in DOMAIN d
        BY <2>2 DEF Covered
    <3>2. c = d
        BY <1>1, <3>1 DEF PublishedOnce, Disjoint
    <3> QED
        BY <3>1, <3>2
  <2> QED
      BY <1>2, <1>4, <2>1, <2>2
<1>5. \A c \in near : DOMAIN c \subseteq Covered(near)
    BY DEF Covered
<1>6. session[j[1]].messages \subseteq fresh \cup Linked(i)
    OBVIOUS
<1> HIDE DEF fresh, near
<1> QED
    BY <1>2, <1>3, <1>4, <1>5, <1>6 DEF Prepared, Linked

\* Publishing takes nothing out of the index: what is replaced is in the snapshot.
LEMMA CommitKeepsSearchable ==
    ASSUME SearchInv, NEW w \in Workers, CommitStaged(w)
    PROVE  /\ \A i \in Indexes : Linked(i) \subseteq Covered(published'[i])
           /\ session[task[w][1]].messages \subseteq Covered(published'[task[w][2]])
<1> USE DEF SearchInv, Inv
<1> DEFINE j == task[w]
<1>1. /\ j \in Jobs /\ Owns(w, j) /\ j[2] \in Indexes
      /\ published' = [published EXCEPT ![j[2]] = Kept(j) \cup staged[j]]
      /\ Covered(staged[j]) = snapshot[j]
    BY CommitGeneration
<1>2. /\ published'[j[2]] = Kept(j) \cup staged[j]
      /\ \A i \in Indexes \ {j[2]} : published'[i] = published[i]
    BY <1>1 DEF TypeOK, GenerationTypeOK
<1>3. /\ \A c \in published[j[2]] :
             DOMAIN c \cap snapshot[j] # {} => DOMAIN c \subseteq snapshot[j]
      /\ session[j[1]].messages \subseteq snapshot[j] \cup Linked(j[2])
    BY <1>1 DEF CommitStaged, AllPrepared, Prepared, Generating
<1>4. Kept(j) = {c \in published[j[2]] : DOMAIN c \cap snapshot[j] = {}}
    BY <1>1 DEF Kept, OnlyIncrements
<1>5. \A c \in published[j[2]] : DOMAIN c \subseteq Covered(Kept(j)) \cup snapshot[j]
    BY <1>3, <1>4 DEF Covered
<1>6. Linked(j[2]) \subseteq Covered(Kept(j)) \cup snapshot[j]
    BY <1>5 DEF Linked, Covered
<1>7. Covered(published'[j[2]]) = Covered(Kept(j)) \cup snapshot[j]
    BY <1>1, <1>2 DEF Covered
<1> QED
    BY <1>2, <1>3, <1>6, <1>7 DEF Linked

LEMMA CommitStagedCovers ==
    ASSUME SearchInv, NEW w \in Workers, CommitStaged(w)
    PROVE  AllPrepared' /\ CompletedJobCovers'
<1> USE DEF SearchInv, Inv
<1>1. task[w] \in Jobs
    BY CommitGeneration
<1>2. \A v \in Workers : pc'[v] \notin Generating
  <2>1. pc'[w] = "ready" /\ \A v \in Workers \ {w} : pc'[v] = pc[v]
      BY DEF CommitStaged, Goto, TypeOK, WorkerTypeOK
  <2>2. \A v \in Workers \ {w} : pc[v] \notin Alive
      BY DEF CommitStaged, OneAlive, Alive, Processing
  <2> QED
      BY <2>1, <2>2 DEF Alive, Processing, Generating
<1>3. AllPrepared'
    BY <1>2 DEF AllPrepared, Prepared
<1>4. \A j \in Jobs \ {task[w]} : job'[j] = job[j]
    BY DEF CommitStaged, TypeOK, JobTypeOK
<1>5. UNCHANGED session
    BY DEF CommitStaged
<1>6. \A j \in Jobs : job'[j].status = "completed" =>
         session'[j[1]].messages \subseteq Linked(j[2])'
    BY SMTT(30), <1>1, <1>4, <1>5, CommitKeepsSearchable DEF CompletedJobCovers, Linked
<1> QED
    BY <1>3, <1>6 DEF CompletedJobCovers

LEMMA AllContinue ==
    ASSUME TypeOK, UNCHANGED <<snapshot, pc, task>>,
           \A j \in Jobs : \A v \in Workers : Owns(v, j)' => Owns(v, j)
    PROVE  \A v \in Workers : Continues(v)
<1>1. \A v \in Workers : pc[v] \in Generating => task[v] \in Jobs
    BY DEF TypeOK, WorkerTypeOK, Generating
<1> QED
    BY <1>1 DEF Continues, Owns

LEMMA IngestCovers ==
    SearchInv /\ ~DeleteAll /\ Ingest => AllPrepared' /\ CompletedJobCovers'
<1> SUFFICES ASSUME SearchInv, ~DeleteAll, Ingest PROVE AllPrepared' /\ CompletedJobCovers'
    OBVIOUS
<1> USE DEF SearchInv, Inv
<1>1. /\ UNCHANGED <<snapshot, published, pc, task>>
      /\ \A j \in Jobs : job'[j].status \notin {"none", "queued"} => job'[j] = job[j]
  <2>1. ASSUME NEW s \in Sessions, QueueSessionJobs(s)
        PROVE  \A j \in Jobs : job'[j].status \notin {"none", "queued"} => job'[j] = job[j]
      BY <2>1 DEF QueueSessionJobs, NewJob, Unowned
  <2> QED
      BY <2>1
      DEF Ingest, CreateSession, StoreMessages, FinishSession, QueueSessionIndexing
<1>2. \A v \in Workers : Continues(v)
    BY <1>1, AllContinue DEF Owns
<1>3. \A j \in Jobs : job[j].status # "none" =>
          session'[j[1]].messages = session[j[1]].messages
    BY NextSessionsClosed DEF Next
<1> QED
    BY <1>1, <1>2, <1>3, CoverageKept DEF AllPrepared

LEMMA RequestCovers ==
    SearchInv /\ ~DeleteAll /\ Request => AllPrepared' /\ CompletedJobCovers'
<1> SUFFICES ASSUME SearchInv, ~DeleteAll, Request PROVE AllPrepared' /\ CompletedJobCovers'
    OBVIOUS
<1> USE DEF SearchInv, Inv
<1>1. /\ UNCHANGED <<snapshot, published, pc, task>>
      /\ \A j \in Jobs : job'[j].status \notin {"none", "queued", "cancelled"} =>
                            job'[j] = job[j]
  <2>1. ASSUME NEW s \in Sessions, NEW i \in Indexes, NEW kind, NEW M,
               QueueMaintenance(s, i, kind, M)
        PROVE  \A j \in Jobs : job'[j].status \notin {"none", "queued"} => job'[j] = job[j]
      BY <2>1 DEF QueueMaintenance, NewJob, Unowned, TypeOK, JobTypeOK
  <2>2. ASSUME NEW s \in Sessions, NEW i \in Indexes,
               QueueSync(s, i) \/ QueueRebuild(s, i) \/ QueuePending(s, i)
        PROVE  /\ UNCHANGED <<snapshot, published, pc, task>>
               /\ \E kind, M : QueueMaintenance(s, i, kind, M)
      BY <2>2 DEF QueueSync, QueueRebuild, QueuePending
  <2>3. ASSUME NEW j \in Jobs, Retry(j) \/ Cancel(j)
        PROVE  /\ UNCHANGED <<snapshot, published, pc, task>>
               /\ job'[j].status \in {"queued", "cancelled"}
               /\ \A k \in Jobs \ {j} : job'[k] = job[k]
    <3>1. CASE Retry(j)
        BY <3>1 DEF Retry, NewJob, Unowned, TypeOK, JobTypeOK
    <3>2. CASE Cancel(j)
        BY <3>2 DEF Cancel, TypeOK, JobTypeOK
    <3> QED
        BY <2>3, <3>1, <3>2
  <2> QED
      BY <2>1, <2>2, <2>3 DEF Request
<1>2. \A v \in Workers : Continues(v)
    BY <1>1, AllContinue DEF Owns
<1>3. \A j \in Jobs : job[j].status # "none" =>
          session'[j[1]].messages = session[j[1]].messages
    BY NextSessionsClosed DEF Next
<1> QED
    BY <1>1, <1>2, <1>3, CoverageKept DEF AllPrepared

\* No other worker is alive while w steps, so only w itself can be in the middle of
\* a generation after the step.
LEMMA WorkerCovers ==
    ASSUME SearchInv, OneAlive', ~DeleteAll, NEW w \in Workers, Work(w) \/ Fault(w)
    PROVE  AllPrepared' /\ CompletedJobCovers'
<1> USE DEF SearchInv, Inv
<1> DEFINE j == task[w]
<1>1. CASE CommitStaged(w)
    BY <1>1, CommitStagedCovers
<1>2. CASE ~CommitStaged(w)
  <2>1. pc[w] \notin {"off", "idle", "dead"} => j \in Jobs
      BY DEF TypeOK, WorkerTypeOK
  <2>2. \A k \in Jobs : job[k].status # "none" =>
            session'[k[1]].messages = session[k[1]].messages
      BY NextSessionsClosed DEF Next
  <2>3. UNCHANGED published
      BY <1>2
      DEF Work, Start, Claim, PrepareTotal, PrepareStaging, OpenCursor, StageBatch,
          MarkReadySelect, MarkReadyCommit, Quit, AssertFails, FailJob, MarkFailed,
          Fault, Raise, RenewLease, Crash, Abandon
  <2>4. /\ \A k \in Jobs : job'[k].status = "completed" => job[k].status = "completed"
        /\ \A k \in Jobs : Owns(w, k)' => Owns(w, k) \/ \E a \in Jobs : Claim(w, a)
    <3>1. ASSUME NEW a \in Jobs, Claim(w, a)
          PROVE  \A k \in Jobs : job'[k].status = "completed" => job[k].status = "completed"
        BY <3>1 DEF Claim, TypeOK, JobTypeOK
    <3>2. CASE FailJob(w)
      <4>1. CASE Owns(w, j)
        <5>1. /\ job'[j].status = "failed"
              /\ \A k \in Jobs \ {j} : job'[k] = job[k]
            BY <2>1, <3>2, <4>1 DEF FailJob, TypeOK, JobTypeOK
        <5> QED
            BY <5>1 DEF Owns
      <4>2. CASE ~Owns(w, j)
          BY <3>2, <4>2 DEF FailJob, Owns
      <4> QED
          BY <4>1, <4>2
    <3>3. CASE PrepareTotal(w) \/ PrepareStaging(w) \/ RenewLease(w)
               \/ \E B \in SUBSET todo[w] : StageBatch(w, B)
      <4>1. job' = [job EXCEPT ![j].live = TRUE]
          BY <3>3 DEF PrepareTotal, PrepareStaging, RenewLease, StageBatch
      <4> QED
          BY <4>1 DEF Owns, TypeOK, JobTypeOK
    <3>4. UNCHANGED job =>
            /\ \A k \in Jobs : job'[k].status = "completed" => job[k].status = "completed"
            /\ \A k \in Jobs : Owns(w, k)' => Owns(w, k)
        BY DEF Owns
    <3>5. CASE Work(w)
        BY <1>2, <3>1, <3>2, <3>3, <3>4, <3>5
        DEF Work, Start, OpenCursor, MarkReadySelect, MarkReadyCommit, Quit,
            AssertFails, MarkFailed, OnlyIncrements
    <3>6. CASE Fault(w)
        BY <3>3, <3>4, <3>6 DEF Fault, Raise, Crash, Abandon
    <3> QED
        BY <3>5, <3>6
  <2>5. /\ CompletedJobCovers'
        /\ \A v \in Workers : Continues(v) => Prepared(v)'
      BY <2>2, <2>3, <2>4, CoverageKept
  <2>6. ASSUME NEW v \in Workers, v # w PROVE Prepared(v)'
    <3>1. pc'[w] \notin Alive => pc[w] \in Alive
        BY DEF Work, Start, Claim, PrepareTotal, PrepareStaging, OpenCursor, StageBatch,
           CommitStaged, MarkReadySelect, MarkReadyCommit, Quit, AssertFails, FailJob,
           MarkFailed, Fault, Raise, RenewLease, Crash, Abandon, Goto, Alive, Processing,
           TypeOK, WorkerTypeOK
    <3>2. pc'[v] = pc[v]
        BY <2>6
        DEF Work, Start, Claim, PrepareTotal, PrepareStaging, OpenCursor, StageBatch,
           CommitStaged, MarkReadySelect, MarkReadyCommit, Quit, AssertFails, FailJob,
           MarkFailed, Fault, Raise, RenewLease, Crash, Abandon, Goto, Leave, TypeOK,
           WorkerTypeOK
    <3>3. pc'[v] \notin Alive
        BY <2>6, <3>1, <3>2 DEF OneAlive
    <3> QED
        BY <3>3 DEF Prepared, Generating, Alive, Processing
  <2>7. Prepared(w)'
    <3>1. CASE PrepareTotal(w)
        BY <3>1, SnapshotIsPrepared
    <3>2. CASE ~PrepareTotal(w) /\ pc'[w] \in Generating
      <4>1. PrepareStaging(w) \/ OpenCursor(w) \/ RenewLease(w)
            \/ \E B \in SUBSET todo[w] : StageBatch(w, B)
          BY <1>2, <3>2
          DEF Work, Start, Claim, MarkReadySelect, MarkReadyCommit, Quit, AssertFails,
              FailJob, MarkFailed, Fault, Raise, Crash, Abandon, Goto, Leave, Generating,
              TypeOK, WorkerTypeOK
      <4>2. UNCHANGED <<task, snapshot>>
          BY <4>1 DEF PrepareStaging, OpenCursor, RenewLease, StageBatch
      <4>3. pc[w] \in Generating
          BY <3>2, <4>1 DEF PrepareStaging, OpenCursor, RenewLease, StageBatch, Generating
      <4>4. ~\E a \in Jobs : Claim(w, a)
          BY <4>3 DEF Claim, Generating
      <4>5. j \in Jobs
          BY <2>1, <4>3 DEF Generating
      <4> QED
          BY <2>4, <2>5, <4>2, <4>3, <4>4, <4>5 DEF Continues
    <3>3. CASE pc'[w] \notin Generating
        BY <3>3 DEF Prepared
    <3> QED
        BY <3>1, <3>2, <3>3
  <2> QED
      BY <2>5, <2>6, <2>7 DEF AllPrepared
<1> QED
    BY <1>1, <1>2

LEMMA NextSearchInv ==
    OneProcess /\ NoRebuildAsked /\ SearchInv /\ [Next]_vars => SearchInv'
<1> SUFFICES ASSUME OneProcess, NoRebuildAsked, SearchInv, [Next]_vars PROVE SearchInv'
    OBVIOUS
<1>1. Inv' /\ OneAlive' /\ OnlyIncrements' /\ SessionsClosed'
    BY NextInv, NextOneAlive, NextOnlyIncrements, NextSessionsClosed DEF SearchInv, Inv
<1>2. ASSUME UNCHANGED vars PROVE AllPrepared' /\ CompletedJobCovers'
  <2>1. \A v \in Workers : Continues(v)
      BY <1>2, AllContinue DEF Owns, SearchInv, Inv
  <2> QED
      BY <1>2, <2>1, CoverageKept DEF AllPrepared
<1>3. ASSUME DeleteAll PROVE AllPrepared' /\ CompletedJobCovers'
  <2>1. \A j \in Jobs : job'[j].status = "none"
      BY <1>3 DEF DeleteAll, AbsentJob, Unowned
  <2>2. \A v \in Workers : pc'[v] \in Generating => task'[v] \in Jobs
      BY <1>1 DEF Inv, TypeOK, WorkerTypeOK, Generating
  <2> QED
      BY <2>1, <2>2 DEF AllPrepared, Prepared, Owns, CompletedJobCovers
<1>4. ASSUME ~DeleteAll, NEW k \in Jobs, ExpireLease(k)
      PROVE  AllPrepared' /\ CompletedJobCovers'
  <2>1. \A j \in Jobs : job'[j].status = job[j].status /\ job'[j].owner = job[j].owner
      BY <1>4 DEF ExpireLease, SearchInv, Inv, TypeOK, JobTypeOK
  <2>2. UNCHANGED <<snapshot, pc, task, published, session>>
      BY <1>4 DEF ExpireLease
  <2>3. \A v \in Workers : Continues(v)
      BY <2>1, <2>2, AllContinue DEF Owns, SearchInv, Inv
  <2> QED
      BY <2>1, <2>2, <2>3, CoverageKept DEF AllPrepared
<1>5. AllPrepared' /\ CompletedJobCovers'
    BY <1>1, <1>2, <1>3, <1>4, IngestCovers, RequestCovers, WorkerCovers DEF Next
<1> QED
    BY <1>1, <1>5 DEF SearchInv

LEMMA SearchInductive == ASSUME OneProcess, NoRebuildAsked PROVE Spec => []SearchInv
BY InitSearchInv, NextSearchInv, PTL DEF Spec

\* With one worker process, and without rebuilds, a completed job has left no message
\* of its session out of its index, whatever else has been published since.
THEOREM CompletedJobsCover ==
    ASSUME OneProcess, NoRebuildAsked PROVE Spec => []CompletedJobCovers
<1>1. SearchInv => CompletedJobCovers
    BY DEF SearchInv
<1> QED
    BY <1>1, SearchInductive, PTL

\* With one worker process, and without rebuilds, a message that can be found stays
\* findable until the archive is cleared: no edit, overlap, retry or crash loses it.
THEOREM SearchableMessagesStay ==
    ASSUME OneProcess, NoRebuildAsked PROVE Spec => SearchableStays
<1> DEFINE Stays ==
      \A i \in Indexes : Linked(i) \subseteq Covered(published'[i]) \/ Cleared
<1>1. ASSUME SearchInv, [Next]_vars PROVE [Stays]_vars
  <2>1. CASE DeleteAll
      BY <2>1 DEF DeleteAll, Cleared
  <2>2. CASE \E w \in Workers : CommitStaged(w)
      BY <1>1, <2>2, CommitKeepsSearchable
  <2>3. CASE UNCHANGED published
      BY <2>3 DEF Linked
  <2>4. CASE Ingest
      BY <2>3, <2>4
      DEF Ingest, CreateSession, StoreMessages, FinishSession, QueueSessionIndexing
  <2>5. CASE Request
      BY <2>1, <2>3, <2>5
      DEF Request, QueueSync, QueueRebuild, QueuePending, Retry, Cancel
  <2>6. CASE \E w \in Workers : Work(w)
      BY <2>2, <2>3, <2>6
      DEF Work, Start, Claim, PrepareTotal, PrepareStaging, OpenCursor, StageBatch,
          MarkReadySelect, MarkReadyCommit, Quit, AssertFails, FailJob, MarkFailed
  <2>7. CASE \E w \in Workers : Fault(w)
      BY <2>3, <2>7 DEF Fault, Raise, RenewLease, Crash, Abandon
  <2>8. CASE \E j \in Jobs : ExpireLease(j)
      BY <2>3, <2>8 DEF ExpireLease
  <2> QED
      BY <1>1, <2>3, <2>4, <2>5, <2>6, <2>7, <2>8 DEF Next
<1> QED
    BY <1>1, SearchInductive, PTL DEF Spec, SearchableStays

-----------------------------------------------------------------------------
(* The pipeline implements GenerationStore: to a search, the publication of  *)
(* a job is one atomic replacement of the chunks it touches by a whole       *)
(* generation of texts that their messages have had.                         *)

LEMMA ChunkType ==
    ASSUME NEW c \in Chunk
    PROVE  /\ DOMAIN c \subseteq Messages
           /\ \A m \in DOMAIN c : c[m] \in 1..MaxVersion
           /\ c = [m \in DOMAIN c |-> c[m]]
BY DEF Chunk

-----------------------------------------------------------------------------
(* What the inductive invariant of the pipeline does not say: the texts of a *)
(* generation were texts of their messages, and only an index that may be    *)
(* rebuilt has a job that replaces all of it.                                *)

Rendered(C) == \A c \in C : \A m \in DOMAIN c : c[m] <= version[m]

\* The chunks of an attempt that was fenced off may be newer than a message
\* that has been stored again since the archive was cleared.
TextsWereStored ==
    /\ \A j \in Jobs : Rendered(staged[j])
    /\ \A w \in Workers :
          pc[w] = "batch" /\ Owns(w, task[w]) => Rendered(todo[w])

Replaceable == Rebuildable \cup {j[2] : j \in Carried}

RebuildsAreAllowed ==
    \A j \in Jobs : job[j].kind = "rebuild" => j[2] \in Replaceable

StoreInv == Inv /\ TextsWereStored /\ RebuildsAreAllowed

LEMMA InitStoreInv == Init => StoreInv
<1> SUFFICES ASSUME Init PROVE StoreInv
    OBVIOUS
<1>1. TextsWereStored
    BY DEF Init, TextsWereStored, Rendered
<1>2. RebuildsAreAllowed
    BY ConstantsAssumption DEF Init, RebuildsAreAllowed, Replaceable, NewJob, AbsentJob, Unowned
<1> QED
    BY <1>1, <1>2, InitInv DEF StoreInv

LEMMA RenderedKept ==
    ASSUME version \in [Messages -> 0..MaxVersion], version' \in [Messages -> 0..MaxVersion],
           \A m \in Messages : version[m] <= version'[m],
           NEW C \in SUBSET Chunk, NEW D \in SUBSET C, Rendered(C)
    PROVE  \A c \in D : \A m \in DOMAIN c : c[m] <= version'[m]
<1> SUFFICES ASSUME NEW c \in D, NEW m \in DOMAIN c PROVE c[m] <= version'[m]
    OBVIOUS
<1>1. m \in Messages /\ c[m] \in 1..MaxVersion
    BY ChunkType
<1>2. c[m] <= version[m] /\ version[m] <= version'[m]
    BY <1>1 DEF Rendered
<1>3. version[m] \in 0..MaxVersion /\ version'[m] \in 0..MaxVersion
    BY <1>1
<1> QED
    BY <1>1, <1>2, <1>3, ConstantsAssumption

\* A step that stages nothing new and hands no cursor over.
LEMMA TextsKept ==
    ASSUME TypeOK, TextsWereStored, version' \in [Messages -> 0..MaxVersion],
           \A m \in Messages : version[m] <= version'[m],
           \A j \in Jobs : staged'[j] \subseteq staged[j],
           \A w \in Workers : pc'[w] = "batch" /\ Owns(w, task[w])' =>
               pc[w] = "batch" /\ Owns(w, task[w]) /\ todo'[w] \subseteq todo[w]
    PROVE  TextsWereStored'
<1>1. version \in [Messages -> 0..MaxVersion]
    BY DEF TypeOK, ArchiveTypeOK
<1>2. ASSUME NEW j \in Jobs PROVE Rendered(staged[j])'
  <2>1. staged[j] \in SUBSET Chunk /\ Rendered(staged[j]) /\ staged'[j] \in SUBSET staged[j]
      BY DEF TextsWereStored, TypeOK, GenerationTypeOK
  <2>2. \A c \in staged'[j] : \A m \in DOMAIN c : c[m] <= version'[m]
      BY <1>1, <2>1, RenderedKept
  <2> QED
      BY <2>2 DEF Rendered
<1>3. ASSUME NEW w \in Workers, pc'[w] = "batch" /\ Owns(w, task[w])'
      PROVE  Rendered(todo[w])'
  <2>1. todo[w] \in SUBSET Chunk /\ Rendered(todo[w]) /\ todo'[w] \in SUBSET todo[w]
      BY <1>3 DEF TextsWereStored, TypeOK, WorkerTypeOK
  <2>2. \A c \in todo'[w] : \A m \in DOMAIN c : c[m] <= version'[m]
      BY <1>1, <2>1, RenderedKept
  <2> QED
      BY <2>2 DEF Rendered
<1> QED
    BY <1>2, <1>3 DEF TextsWereStored

-----------------------------------------------------------------------------
(* TextsWereStored, one action after the other. *)

LEMMA IngestTexts == Inv /\ TextsWereStored /\ Ingest => TextsWereStored'
<1> SUFFICES ASSUME Inv, TextsWereStored, Ingest PROVE TextsWereStored'
    OBVIOUS
<1> USE DEF Inv
<1>1. UNCHANGED <<staged, todo, pc, task>>
    BY DEF Ingest, CreateSession, StoreMessages, FinishSession, QueueSessionIndexing
<1>2. version' \in [Messages -> 0..MaxVersion]
    BY IngestType DEF TypeOK, ArchiveTypeOK
<1>3. \A m \in Messages : version[m] <= version'[m]
    BY DEF Ingest, CreateSession, StoreMessages, FinishSession, QueueSessionIndexing,
           TypeOK, ArchiveTypeOK
<1>4. \A w \in Workers : \A j \in Jobs : Owns(w, j)' => Owns(w, j)
  <2>1. CASE UNCHANGED job
      BY <2>1 DEF Owns
  <2>2. ASSUME NEW s \in Sessions, QueueSessionJobs(s)
        PROVE  \A w \in Workers : \A j \in Jobs : Owns(w, j)' => Owns(w, j)
      BY <2>2 DEF QueueSessionJobs, Owns, NewJob, Unowned
  <2> QED
      BY <2>1, <2>2
      DEF Ingest, CreateSession, StoreMessages, FinishSession, QueueSessionIndexing
<1>5. \A w \in Workers : pc[w] = "batch" => task[w] \in Jobs
    BY DEF TypeOK, WorkerTypeOK
<1> QED
    BY <1>1, <1>2, <1>3, <1>4, <1>5, TextsKept

LEMMA RequestTexts == Inv /\ TextsWereStored /\ Request => TextsWereStored'
<1> SUFFICES ASSUME Inv, TextsWereStored, Request PROVE TextsWereStored'
    OBVIOUS
<1> USE DEF Inv
<1>1. \A w \in Workers : pc[w] = "batch" => task[w] \in Jobs
    BY DEF TypeOK, WorkerTypeOK
<1>2. UNCHANGED workerVars
    BY DEF Request, QueueSync, QueueRebuild, QueuePending, Retry, Cancel, DeleteAll
<1>3. CASE DeleteAll
  <2>1. \A j \in Jobs : staged'[j] = {}
      BY <1>3 DEF DeleteAll
  <2>2. \A w \in Workers : \A j \in Jobs : ~Owns(w, j)'
      BY <1>3 DEF DeleteAll, Owns, AbsentJob, Unowned
  <2> QED
      BY <1>1, <1>2, <2>1, <2>2 DEF TextsWereStored, Rendered
<1>4. CASE ~DeleteAll
  <2>1. version' = version /\ \A j \in Jobs : staged'[j] \subseteq staged[j]
      BY <1>4 DEF Request, QueueSync, QueueRebuild, QueuePending, Retry, Cancel,
                  TypeOK, GenerationTypeOK
  <2>2. \A w \in Workers : \A j \in Jobs : Owns(w, j)' => Owns(w, j)
    <3>1. ASSUME NEW s \in Sessions, NEW i \in Indexes, NEW kind, NEW M,
                 QueueMaintenance(s, i, kind, M)
          PROVE  \A w \in Workers : \A j \in Jobs : Owns(w, j)' => Owns(w, j)
        BY <3>1, ConstantsAssumption
        DEF QueueMaintenance, Owns, NewJob, Unowned, TypeOK, JobTypeOK
    <3>2. ASSUME NEW j \in Jobs, Retry(j) \/ Cancel(j)
          PROVE  \A w \in Workers : \A k \in Jobs : Owns(w, k)' => Owns(w, k)
      <4>1. job'[j].status # "running"
        <5>1. CASE Retry(j)
            BY <5>1 DEF Retry, NewJob, Unowned, TypeOK, JobTypeOK
        <5>2. CASE Cancel(j)
            BY <5>2 DEF Cancel, TypeOK, JobTypeOK
        <5> QED
            BY <3>2, <5>1, <5>2
      <4>2. \A k \in Jobs \ {j} : job'[k] = job[k]
          BY <3>2 DEF Retry, Cancel, TypeOK, JobTypeOK
      <4> QED
          BY <4>1, <4>2 DEF Owns
    <3> QED
        BY <1>4, <3>1, <3>2 DEF Request, QueueSync, QueueRebuild, QueuePending
  <2>3. version' \in [Messages -> 0..MaxVersion] /\ \A m \in Messages : version[m] <= version'[m]
      BY <2>1 DEF TypeOK, ArchiveTypeOK
  <2> QED
      BY <1>1, <1>2, <2>1, <2>2, <2>3, TextsKept
<1> QED
    BY <1>3, <1>4

\* A failed job keeps its kind; if it was the worker's, nobody owns it any more.
LEMMA FailJobRow ==
    ASSUME TypeOK, NEW w \in Workers, FailJob(w)
    PROVE  \A k \in Jobs : /\ job'[k].kind = job[k].kind
                           /\ job'[k] = job[k] \/ job'[k].status = "failed"
<1>1. task[w] \in Jobs
    BY DEF FailJob, TypeOK, WorkerTypeOK
<1>2. CASE Owns(w, task[w])
  <2>1. job' = [job EXCEPT ![task[w]] = [@ EXCEPT !.status = "failed",
                                                  !.owner = NoWorker, !.live = FALSE]]
      BY <1>2 DEF FailJob
  <2> QED
      BY <1>1, <2>1 DEF TypeOK, JobTypeOK
<1>3. CASE ~Owns(w, task[w])
    BY <1>3 DEF FailJob
<1> QED
    BY <1>2, <1>3

\* Whoever owns a job in the middle of its batches after a step of worker w, and
\* is not opening its cursor or staging a batch, owned it before.
LEMMA WorkTexts ==
    ASSUME Inv, TextsWereStored, NEW w \in Workers, Work(w) \/ Fault(w)
    PROVE  TextsWereStored'
<1> USE DEF Inv
<1>1. version' = version /\ version \in [Messages -> 0..MaxVersion]
    BY DEF Work, Fault, Start, Claim, PrepareTotal, PrepareStaging, OpenCursor, StageBatch,
           CommitStaged, MarkReadySelect, MarkReadyCommit, Quit, AssertFails, FailJob,
           MarkFailed, Raise, RenewLease, Crash, Abandon, TypeOK, ArchiveTypeOK
<1>2. \A v \in Workers : pc[v] = "batch" => task[v] \in Jobs
    BY DEF TypeOK, WorkerTypeOK
<1>3. CASE OpenCursor(w)
  <2>1. /\ \A v \in Workers \ {w} : pc'[v] = pc[v] /\ task'[v] = task[v] /\ todo'[v] = todo[v]
        /\ todo'[w] = ChunksOf(snapshot[task[w]] \cap Stored)
        /\ UNCHANGED <<staged, job>>
      BY <1>3 DEF OpenCursor, Goto, TypeOK, WorkerTypeOK
  <2>2. \A c \in todo'[w] : \A m \in DOMAIN c : c[m] = version[m]
      BY <2>1 DEF ChunksOf
  <2>3. \A c \in todo'[w] : \A m \in DOMAIN c : c[m] <= version[m]
    <3> SUFFICES ASSUME NEW c \in todo'[w], NEW m \in DOMAIN c PROVE c[m] <= version[m]
        OBVIOUS
    <3>1. m \in Messages
        BY <2>1 DEF ChunksOf, Stored
    <3>2. version[m] \in 0..MaxVersion
        BY <1>1, <3>1
    <3> QED
        BY <2>2, <3>2, ConstantsAssumption
  <2> QED
      BY ZenonT(60), <1>1, <1>2, <2>1, <2>3 DEF TextsWereStored, Rendered, Owns
<1>4. ASSUME NEW B \in SUBSET todo[w], StageBatch(w, B) PROVE TextsWereStored'
  <2> DEFINE j == task[w]
  <2>1. j \in Jobs /\ Owns(w, j) /\ pc[w] = "batch"
      BY <1>2, <1>4 DEF StageBatch
  <2>2. /\ staged'[j] = staged[j] \cup B /\ \A k \in Jobs \ {j} : staged'[k] = staged[k]
        /\ todo'[w] \subseteq todo[w] /\ \A v \in Workers \ {w} : todo'[v] = todo[v]
        /\ UNCHANGED <<version, pc, task>>
      BY <1>4, <2>1 DEF StageBatch, TypeOK, GenerationTypeOK, WorkerTypeOK
  <2>3. \A v \in Workers : \A k \in Jobs : Owns(v, k)' => Owns(v, k)
      BY <1>4, <2>1 DEF StageBatch, Owns, TypeOK, JobTypeOK
  <2>4. Rendered(staged[j]) /\ Rendered(todo[w])
      BY <2>1 DEF TextsWereStored
  <2>5. \A k \in Jobs : Rendered(staged[k])'
      BY <2>1, <2>2, <2>4 DEF TextsWereStored, Rendered
  <2>6. ASSUME NEW v \in Workers, pc'[v] = "batch" /\ Owns(v, task[v])'
        PROVE  Rendered(todo[v])'
    <3>1. Rendered(todo[v])
        BY <1>2, <2>2, <2>3, <2>6 DEF TextsWereStored, Owns
    <3> QED
        BY <2>2, <3>1 DEF Rendered
  <2> QED
      BY <2>5, <2>6 DEF TextsWereStored
<1>5. ASSUME NEW j \in Jobs, Claim(w, j) PROVE TextsWereStored'
  <2>1. /\ \A v \in Workers \ {w} : pc'[v] = pc[v]
        /\ pc'[w] = "prepare" /\ UNCHANGED <<staged, todo>>
        /\ \A v \in Workers \ {w} : task'[v] = task[v]
      BY <1>5 DEF Claim, Goto, TypeOK, WorkerTypeOK
  <2>2. \A v \in Workers \ {w} : \A k \in Jobs : Owns(v, k)' => Owns(v, k)
      BY <1>5 DEF Claim, Owns, TypeOK, JobTypeOK
  <2>3. \A v \in Workers : pc'[v] = "batch" /\ Owns(v, task[v])' => pc[v] = "batch" /\ Owns(v, task[v])
    <3> SUFFICES ASSUME NEW v \in Workers, pc'[v] = "batch", Owns(v, task[v])'
                 PROVE  pc[v] = "batch" /\ Owns(v, task[v])
        OBVIOUS
    <3>1. v # w
        BY <2>1
    <3>2. pc[v] = "batch" /\ task'[v] = task[v] /\ task[v] \in Jobs
        BY <1>2, <2>1, <3>1
    <3>3. Owns(v, task[v])' => Owns(v, task'[v])
        BY <2>2, <3>1, <3>2 DEF Owns
    <3> QED
        BY <3>2, <3>3
  <2> QED
      BY <1>1, <2>1, <2>3 DEF TextsWereStored, Rendered
<1>6. ASSUME \A j \in Jobs : staged'[j] \subseteq staged[j],
             \A v \in Workers : \A k \in Jobs : Owns(v, k)' => Owns(v, k),
             \A v \in Workers : pc'[v] = "batch" =>
                 pc[v] = "batch" /\ task'[v] = task[v] /\ todo'[v] = todo[v]
      PROVE  TextsWereStored'
  <2>1. \A m \in Messages : version[m] <= version'[m]
      BY <1>1
  <2>2. \A v \in Workers : pc'[v] = "batch" /\ Owns(v, task[v])' =>
            pc[v] = "batch" /\ Owns(v, task[v]) /\ todo'[v] \subseteq todo[v]
      BY <1>2, <1>6 DEF Owns
  <2> QED
      BY <1>1, <1>6, <2>1, <2>2, TextsKept
<1>7. CASE \/ Start(w) \/ MarkReadySelect(w) \/ Quit(w) \/ AssertFails(w) \/ MarkFailed(w)
           \/ Raise(w) \/ Crash(w) \/ Abandon(w)
  <2>1. UNCHANGED <<job, staged>>
      BY <1>7 DEF Start, MarkReadySelect, Quit, AssertFails, MarkFailed, Raise, Crash, Abandon
  <2>2. \A v \in Workers : pc'[v] = "batch" =>
            pc[v] = "batch" /\ task'[v] = task[v] /\ todo'[v] = todo[v]
      BY <1>7 DEF Start, MarkReadySelect, Quit, AssertFails, MarkFailed, Raise, Crash, Abandon,
                  Goto, Leave, TypeOK, WorkerTypeOK
  <2> QED
      BY <1>6, <2>1, <2>2 DEF Owns
<1>8. CASE MarkReadyCommit(w)
  <2>1. UNCHANGED staged
      BY <1>8 DEF MarkReadyCommit
  <2>2. \A v \in Workers : \A k \in Jobs : Owns(v, k)' => Owns(v, k)
    <3>1. CASE UNCHANGED job
        BY <3>1 DEF Owns
    <3>2. ASSUME NEW s \in CatchUps, NEW i \in Indexes, QueueMaintenance(s, i, "sync", missing[w])
          PROVE  \A v \in Workers : \A k \in Jobs : Owns(v, k)' => Owns(v, k)
        BY <3>2, ConstantsAssumption
        DEF QueueMaintenance, Owns, NewJob, Unowned, TypeOK, JobTypeOK
    <3>3. task[w] \in Jobs
        BY <1>8 DEF MarkReadyCommit, TypeOK, WorkerTypeOK
    <3> QED
        BY <1>8, <3>1, <3>2, <3>3 DEF MarkReadyCommit
  <2>3. \A v \in Workers : pc'[v] = "batch" =>
            pc[v] = "batch" /\ task'[v] = task[v] /\ todo'[v] = todo[v]
      BY <1>8 DEF MarkReadyCommit, Leave, TypeOK, WorkerTypeOK
  <2> QED
      BY <1>6, <2>1, <2>2, <2>3
<1>9. CASE PrepareTotal(w) \/ PrepareStaging(w) \/ CommitStaged(w) \/ FailJob(w) \/ RenewLease(w)
  <2>1. task[w] \in Jobs
      BY <1>9 DEF PrepareTotal, PrepareStaging, CommitStaged, FailJob, RenewLease, Processing,
                  TypeOK, WorkerTypeOK
  <2>2. \A j \in Jobs : staged'[j] \subseteq staged[j]
      BY <1>9, <2>1 DEF PrepareTotal, PrepareStaging, CommitStaged, FailJob, RenewLease,
                  TypeOK, GenerationTypeOK
  <2>3. \A v \in Workers : \A k \in Jobs : Owns(v, k)' => Owns(v, k)
    <3>1. CASE FailJob(w)
        BY <2>1, <3>1, FailJobRow DEF Owns
    <3>2. CASE CommitStaged(w)
        BY <2>1, <3>2 DEF CommitStaged, Owns, TypeOK, JobTypeOK
    <3>3. CASE PrepareTotal(w) \/ PrepareStaging(w) \/ RenewLease(w)
      <4>1. job' = [job EXCEPT ![task[w]].live = TRUE]
          BY <3>3 DEF PrepareTotal, PrepareStaging, RenewLease
      <4>2. \A k \in Jobs : job'[k].status = job[k].status /\ job'[k].owner = job[k].owner
          BY <2>1, <4>1 DEF TypeOK, JobTypeOK
      <4> QED
          BY <4>2 DEF Owns
    <3> QED
        BY <1>9, <3>1, <3>2, <3>3
  <2>4. \A v \in Workers : pc'[v] = "batch" =>
            pc[v] = "batch" /\ task'[v] = task[v] /\ todo'[v] = todo[v]
      BY <1>9 DEF PrepareTotal, PrepareStaging, CommitStaged, FailJob, RenewLease, Goto,
                  TypeOK, WorkerTypeOK
  <2> QED
      BY <1>6, <2>2, <2>3, <2>4
<1> QED
    BY <1>3, <1>4, <1>5, <1>7, <1>8, <1>9 DEF Work, Fault

LEMMA ExpireTexts ==
    ASSUME Inv, TextsWereStored, NEW j \in Jobs, ExpireLease(j)
    PROVE  TextsWereStored'
<1>1. \A v \in Workers : \A k \in Jobs : Owns(v, k)' => Owns(v, k)
    BY DEF ExpireLease, Owns, Inv, TypeOK, JobTypeOK
<1>2. \A v \in Workers : pc[v] = "batch" => task[v] \in Jobs
    BY DEF Inv, TypeOK, WorkerTypeOK
<1> QED
    BY <1>1, <1>2 DEF ExpireLease, TextsWereStored, Rendered, Owns

-----------------------------------------------------------------------------
(* RebuildsAreAllowed, and the two together. *)

LEMMA NextRebuilds == Inv /\ RebuildsAreAllowed /\ [Next]_vars => RebuildsAreAllowed'
<1> SUFFICES ASSUME Inv, RebuildsAreAllowed, [Next]_vars PROVE RebuildsAreAllowed'
    OBVIOUS
<1> USE DEF Inv
<1>1. ASSUME \A j \in Jobs : job'[j].kind = "rebuild" =>
                 job[j].kind = "rebuild" \/ j[2] \in Rebuildable
      PROVE  RebuildsAreAllowed'
    BY <1>1 DEF RebuildsAreAllowed, Replaceable
<1>2. ASSUME NEW s \in Sessions, NEW i \in Indexes, NEW kind, NEW M,
             QueueMaintenance(s, i, kind, M), kind = "rebuild" => i \in Rebuildable
      PROVE  RebuildsAreAllowed'
  <2>1. \A j \in Jobs : job'[j].kind = "rebuild" =>
            job[j].kind = "rebuild" \/ j[2] \in Rebuildable
      BY <1>2 DEF QueueMaintenance, NewJob, Unowned, TypeOK, JobTypeOK
  <2> QED
      BY <1>1, <2>1
<1>3. ASSUME NEW s \in Sessions, QueueSessionJobs(s) PROVE RebuildsAreAllowed'
  <2>1. \A j \in Jobs : job'[j].kind = "rebuild" => job[j].kind = "rebuild"
      BY <1>3 DEF QueueSessionJobs, NewJob, Unowned
  <2> QED
      BY <1>1, <2>1
<1>4. CASE UNCHANGED job
    BY <1>1, <1>4
<1>5. CASE Ingest
    BY <1>3, <1>4, <1>5
    DEF Ingest, CreateSession, StoreMessages, FinishSession, QueueSessionIndexing
<1>6. CASE Request
  <2>1. ASSUME NEW j \in Jobs, Retry(j) PROVE RebuildsAreAllowed'
      BY <1>1, <2>1 DEF Retry, NewJob, Unowned, TypeOK, JobTypeOK
  <2>2. ASSUME NEW j \in Jobs, Cancel(j) PROVE RebuildsAreAllowed'
      BY <1>1, <2>2 DEF Cancel, TypeOK, JobTypeOK
  <2>3. CASE DeleteAll
      BY <1>1, <2>3 DEF DeleteAll, AbsentJob, Unowned
  <2> QED
      BY <1>2, <1>6, <2>1, <2>2, <2>3 DEF Request, QueueSync, QueueRebuild, QueuePending
<1>7. ASSUME NEW w \in Workers, Work(w) PROVE RebuildsAreAllowed'
  <2>1. CASE MarkReadyCommit(w)
    <3>1. task[w] \in Jobs
        BY <2>1 DEF MarkReadyCommit, TypeOK, WorkerTypeOK
    <3> QED
        BY <1>2, <1>4, <2>1, <3>1, ConstantsAssumption DEF MarkReadyCommit
  <2>2. ASSUME NEW j \in Jobs, Claim(w, j) PROVE RebuildsAreAllowed'
      BY <1>1, <2>2 DEF Claim, TypeOK, JobTypeOK
  <2>3. CASE PrepareTotal(w) \/ PrepareStaging(w) \/ CommitStaged(w) \/ FailJob(w)
             \/ \E B \in SUBSET todo[w] : StageBatch(w, B)
    <3>1. task[w] \in Jobs
        BY <2>3 DEF PrepareTotal, PrepareStaging, CommitStaged, FailJob, StageBatch, TypeOK, WorkerTypeOK
    <3>2. \A j \in Jobs : job'[j].kind = job[j].kind
      <4>1. CASE FailJob(w)
          BY <4>1, FailJobRow
      <4>2. CASE PrepareTotal(w)
          BY <3>1, <4>2 DEF PrepareTotal, TypeOK, JobTypeOK
      <4>3. CASE PrepareStaging(w)
          BY <3>1, <4>3 DEF PrepareStaging, TypeOK, JobTypeOK
      <4>4. CASE CommitStaged(w)
          BY <3>1, <4>4 DEF CommitStaged, TypeOK, JobTypeOK
      <4>5. ASSUME NEW B \in SUBSET todo[w], StageBatch(w, B)
            PROVE  \A j \in Jobs : job'[j].kind = job[j].kind
          BY <3>1, <4>5 DEF StageBatch, TypeOK, JobTypeOK
      <4> QED
          BY <2>3, <4>1, <4>2, <4>3, <4>4, <4>5
    <3> QED
        BY <1>1, <3>2
  <2> QED
      BY <1>4, <1>7, <2>1, <2>2, <2>3
      DEF Work, Start, OpenCursor, MarkReadySelect, Quit, AssertFails, MarkFailed
<1>8. ASSUME NEW w \in Workers, Fault(w) PROVE RebuildsAreAllowed'
  <2>1. CASE RenewLease(w)
      BY <1>1, <2>1 DEF RenewLease, TypeOK, JobTypeOK
  <2> QED
      BY <1>4, <1>8, <2>1 DEF Fault, Raise, Crash, Abandon
<1>9. ASSUME NEW j \in Jobs, ExpireLease(j) PROVE RebuildsAreAllowed'
    BY <1>1, <1>9 DEF ExpireLease, TypeOK, JobTypeOK
<1> QED
    BY <1>4, <1>5, <1>6, <1>7, <1>8, <1>9 DEF Next

LEMMA NextStoreInv == StoreInv /\ [Next]_vars => StoreInv'
<1> SUFFICES ASSUME StoreInv, [Next]_vars PROVE StoreInv'
    OBVIOUS
<1> USE DEF StoreInv
<1>1. UNCHANGED vars => TextsWereStored'
    BY DEF TextsWereStored, Rendered, Owns
<1>2. Next => TextsWereStored'
    BY IngestTexts, RequestTexts, WorkTexts, ExpireTexts DEF Next
<1> QED
    BY <1>1, <1>2, NextInv, NextRebuilds

-----------------------------------------------------------------------------
(* The steps of the abstract store. *)

\* Disjoint chunks are a generation: the sets of messages they hold, and one
\* text for each of these messages.
LEMMA ChunksAreAGeneration ==
    ASSUME NEW C \in SUBSET Chunk, NEW S, Disjoint(C), Covered(C) = S, Rendered(C)
    PROVE  \E P \in Store!Cuts(S) : \E t \in [S -> 1..MaxVersion] :
              C = Store!Generation(P, t) /\ \A m \in S : t[m] <= version[m]
<1> DEFINE P == {DOMAIN c : c \in C}
           holder(m) == CHOOSE c \in C : m \in DOMAIN c
           t == [m \in S |-> holder(m)[m]]
<1>1. ASSUME NEW c \in C, NEW m \in DOMAIN c
      PROVE  m \in S /\ holder(m) = c
  <2>1. m \in S
      BY <1>1 DEF Covered
  <2>2. holder(m) \in C /\ m \in DOMAIN holder(m)
      BY <1>1
  <2> QED
      BY <1>1, <2>1, <2>2 DEF Disjoint
<1>2. ASSUME NEW m \in S
      PROVE  t[m] \in 1..MaxVersion /\ t[m] <= version[m]
  <2>1. PICK c \in C : m \in DOMAIN c
      BY DEF Covered
  <2>2. t[m] = c[m]
      BY <1>1, <2>1
  <2>3. c[m] \in 1..MaxVersion
      BY <2>1, ChunkType
  <2>4. c[m] <= version[m]
      BY <2>1 DEF Rendered
  <2> QED
      BY <2>2, <2>3, <2>4
<1>3. t \in [S -> 1..MaxVersion]
    BY <1>2
<1>4. P \in Store!Cuts(S)
  <2>1. P \in SUBSET SUBSET S /\ UNION P = S
      BY DEF Covered
  <2>2. \A p, q \in P : p # q => p \cap q = {}
      BY DEF Disjoint
  <2> QED
      BY <2>1, <2>2 DEF Store!Cuts
<1>5. ASSUME NEW c \in C PROVE c = [m \in DOMAIN c |-> t[m]]
  <2>1. \A m \in DOMAIN c : t[m] = c[m]
      BY <1>1, <1>5
  <2>2. c = [m \in DOMAIN c |-> c[m]]
      BY ChunkType
  <2> QED
      BY <2>1, <2>2
<1>6. C = Store!Generation(P, t)
  <2> DEFINE G == {[m \in p |-> t[m]] : p \in P}
  <2>1. Store!Generation(P, t) = G
      BY DEF Store!Generation
  <2>2. \A c \in C : c \in G
      BY <1>5
  <2>3. ASSUME NEW d \in G PROVE d \in C
    <3>1. PICK p \in P : d = [m \in p |-> t[m]]
        OBVIOUS
    <3>2. PICK c \in C : p = DOMAIN c
        OBVIOUS
    <3>3. c = [m \in p |-> t[m]]
        BY <1>5, <3>2
    <3> QED
        BY <3>1, <3>3
  <2> HIDE DEF G
  <2>4. C = G
      BY <2>2, <2>3
  <2> QED
      BY <2>1, <2>4
<1> HIDE DEF P, t
<1> QED
    BY <1>2, <1>3, <1>4, <1>6

LEMMA CommitPublishes ==
    ASSUME StoreInv, NEW w \in Workers, CommitStaged(w)
    PROVE  Store!Next
<1> USE DEF StoreInv
<1> DEFINE j == task[w]
           i == j[2]
           S == snapshot[j]
<1>1. /\ j \in Jobs /\ i \in Indexes
      /\ published' = [published EXCEPT ![i] = Kept(j) \cup staged[j]]
      /\ Disjoint(staged[j]) /\ Covered(staged[j]) = S
    BY CommitGeneration
<1>2. staged[j] \in SUBSET Chunk /\ Rendered(staged[j])
    BY <1>1 DEF Inv, TypeOK, GenerationTypeOK, TextsWereStored
<1>3. PICK P \in Store!Cuts(S) : \E t \in [S -> 1..MaxVersion] :
          staged[j] = Store!Generation(P, t) /\ \A m \in S : t[m] <= version[m]
    BY <1>1, <1>2, ChunksAreAGeneration
<1>4. PICK t \in [S -> 1..MaxVersion] :
          staged[j] = Store!Generation(P, t) /\ \A m \in S : t[m] <= version[m]
    BY <1>3
<1>5. S \in SUBSET Store!Known
    BY <1>1 DEF Inv, Known, Stored, Store!Known
<1>6. version' = version
    BY DEF CommitStaged
<1>7. Store!Publish(i, S, P, t)
  <2>1. CASE job[j].kind = "rebuild"
    <3>1. i \in Rebuildable \cup {k[2] : k \in Carried}
        BY <1>1, <2>1 DEF RebuildsAreAllowed, Replaceable
    <3>2. Kept(j) = {}
        BY <2>1 DEF Kept
    <3>3. published' = [published EXCEPT ![i] = Store!Generation(P, t)]
        BY <1>1, <1>4, <3>2
    <3> QED
        BY <1>4, <1>6, <3>1, <3>3 DEF Store!Publish
  <2>2. CASE job[j].kind # "rebuild"
    <3>1. Kept(j) = Store!Untouched(i, S)
        BY <2>2 DEF Kept, Store!Untouched
    <3>2. published' = [published EXCEPT ![i] = Store!Untouched(i, S) \cup Store!Generation(P, t)]
        BY <1>1, <1>4, <3>1
    <3> QED
        BY <1>4, <1>6, <3>2 DEF Store!Publish
  <2> QED
      BY <2>1, <2>2
<1> QED
    BY <1>1, <1>3, <1>4, <1>5, <1>7 DEF Store!Next

LEMMA InitStore == Init => Store!Init
<1> SUFFICES ASSUME Init PROVE Store!Init
    OBVIOUS
<1>1. version \in [Messages -> 0..1]
    BY DEF Init
<1> QED
    BY <1>1 DEF Init, Store!Init

LEMMA StepOfTheStore == StoreInv /\ [Next]_vars => [Store!Next]_(Store!storeVars)
<1> SUFFICES ASSUME StoreInv, [Next]_vars PROVE Store!Next \/ UNCHANGED <<version, published>>
    BY DEF Store!storeVars
<1> USE DEF StoreInv
<1>1. CASE UNCHANGED <<version, published>>
    BY <1>1
<1>2. CASE Ingest
  <2>1. version' \in [Messages -> 0..MaxVersion]
      BY <1>2, IngestType DEF Inv, TypeOK, ArchiveTypeOK
  <2>2. \A m \in Messages : version[m] <= version'[m]
      BY <1>2 DEF Ingest, CreateSession, StoreMessages, FinishSession, QueueSessionIndexing,
                  Inv, TypeOK, ArchiveTypeOK
  <2>3. published' = published
      BY <1>2 DEF Ingest, CreateSession, StoreMessages, FinishSession, QueueSessionIndexing
  <2> QED
      BY <2>1, <2>2, <2>3 DEF Store!Next, Store!Write
<1>3. CASE DeleteAll
    BY <1>3 DEF DeleteAll, Store!Next, Store!Clear
<1>4. CASE Request
    BY <1>1, <1>3, <1>4
    DEF Request, QueueSync, QueueRebuild, QueuePending, Retry, Cancel
<1>5. ASSUME NEW w \in Workers, Work(w)
      PROVE  Store!Next \/ UNCHANGED <<version, published>>
  <2>1. CASE CommitStaged(w)
      BY <2>1, CommitPublishes
  <2>2. CASE ~CommitStaged(w)
      BY <1>5, <2>2
      DEF Work, Start, Claim, PrepareTotal, PrepareStaging, OpenCursor, StageBatch,
          MarkReadySelect, MarkReadyCommit, Quit, AssertFails, FailJob, MarkFailed
  <2> QED
      BY <2>1, <2>2
<1>6. CASE \E w \in Workers : Fault(w)
    BY <1>6 DEF Fault, Raise, RenewLease, Crash, Abandon
<1>7. CASE \E j \in Jobs : ExpireLease(j)
    BY <1>7 DEF ExpireLease
<1> QED
    BY <1>1, <1>2, <1>4, <1>5, <1>6, <1>7 DEF Next

\* Whatever transactions, attempts, leases and processes a job takes, and in
\* whatever way they fail, a search sees the job as one atomic replacement of the
\* chunks it touches by a whole generation of texts that the messages have had.
THEOREM PipelineImplementsStore == Spec => ImplementsStore
<1>1. Spec => []StoreInv
    BY InitStoreInv, NextStoreInv, PTL DEF Spec
<1> QED
    BY <1>1, InitStore, StepOfTheStore, PTL DEF Spec, ImplementsStore, Store!Spec
=============================================================================
