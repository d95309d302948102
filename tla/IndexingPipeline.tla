--------------------------- MODULE IndexingPipeline ---------------------------
(***************************************************************************)
(* The durable indexing pipeline of the backend: ingestion sessions collect *)
(* raw messages, closing a session queues one durable job per ready index,  *)
(* a worker claims a job under a lease, snapshots its messages, stages      *)
(* embedded chunks and publishes them in one transaction, then marks the    *)
(* index ready.                                                             *)
(*                                                                          *)
(* One action is one database transaction (or one in-process step between   *)
(* two of them), so everything a crash, a stall, a cancellation or another  *)
(* process can do falls between two actions.                                *)
(***************************************************************************)
EXTENDS Integers, Sequences, FiniteSets

CONSTANTS
    Messages,      \* external ids of the messages the sources can deliver
    Sessions,      \* ids of ingestion sessions (each used at most once)
    CatchUps,      \* the session ids kept for catch-up jobs: an index ends
                   \* its initial build once, so one per build is enough
    Indexes,       \* ids of embedding indexes
    Workers,       \* worker_ids: one fresh id per backend process
    NoWorker,      \* SQL NULL in indexing_jobs.worker_id
    NoJob,         \* a worker between two jobs
    Groups,        \* the runs of messages that the chunker may join
    BatchSize,     \* chunks per embedding request (64 in the program)
    AutoSync,      \* the indexes whose auto_sync switch is on
    QueueChoices,  \* whether a finish request asks for indexing (the web
                   \* migration, unlike every connector, may decline)
    Rebuildable,   \* the indexes whose rebuild the user asks for
    Archived,      \* messages stored before the first step
    Carried,       \* initial builds <<session, index>> already queued
    Replicas,      \* bound: backend processes alive at the same time
    MaxVersion,    \* bound: versions of a message (first text, then edits)
    MaxFaults,     \* bound: crashes, stalls and lost database calls
    MaxRetries     \* bound: retry requests

Jobs == Sessions \X Indexes   \* UNIQUE(session_id, embedding_index_id)

ASSUME ConstantsAssumption ==
    /\ NoWorker \notin Workers
    /\ NoJob \notin Jobs
    /\ BatchSize \in Nat \ {0}
    /\ CatchUps \subseteq Sessions
    /\ AutoSync \subseteq Indexes
    /\ QueueChoices \subseteq BOOLEAN
    /\ Rebuildable \subseteq Indexes
    /\ Archived \subseteq Messages
    /\ Carried \subseteq Jobs
    /\ MaxVersion \in Nat \ {0}
    /\ {Replicas, MaxFaults, MaxRetries} \subseteq Nat

\* The chunker splits the ordered stream of messages: a message belongs to one
\* run, and a chunk never leaves a run.
ASSUME GroupsPartition ==
    /\ UNION Groups = Messages
    /\ \A g, h \in Groups : g # h => g \cap h = {}

VARIABLES
    version,    \* content of source_messages: 0 while a message is unknown
    session,    \* ingestion_sessions and ingestion_session_messages
    job,        \* indexing_jobs
    created,    \* the jobs in the order of created_at
    snapshot,   \* indexing_job_messages
    staged,     \* rag_staged_chunks and rag_staged_chunk_messages
    published,  \* rag_chunks and rag_chunk_messages, per index
    edited,     \* messages newer than the published chunk that holds them
    status,     \* embedding_indexes.status
    pc,         \* what each worker process is doing
    task,       \* the job that it processes
    todo,       \* chunks read from the job's cursor, not yet staged
    missing,    \* what mark_ready selected for a catch-up job
    faults, retries

vars == <<version, session, job, created, snapshot, staged, published, edited,
          status, pc, task, todo, missing, faults, retries>>
archiveVars == <<version, session>>
jobVars     == <<job, created>>
indexVars   == <<published, edited, status>>
workerVars  == <<pc, task, todo, missing>>
boundVars   == <<faults, retries>>

-----------------------------------------------------------------------------
(* What the rows say. *)

Processing == {"prepare", "clear", "open", "batch", "ready", "catchup"}
Alive      == Processing \cup {"idle", "fail", "markfailed"}

Active(j)  == job[j].status \in {"queued", "running"}
\* Mutant of Owns: the assertion forgets whose lease it is.
OwnsByStatus(w, j) == job[j].status = "running"

Owns(w, j) == job[j].status = "running" /\ job[j].owner = w

Stored      == {m \in Messages : version[m] > 0}
Covered(C)  == UNION {DOMAIN c : c \in C}
Linked(i)   == Covered(published[i])

\* Messages of index i that no published chunk holds and no active job awaits.
Missing(i) ==
    {m \in Stored \ Linked(i) :
        ~ \E s \in Sessions : Active(<<s, i>>) /\ m \in session[s].messages}

\* Mutant of SnapshotOf: the neighbours in the published chunks are forgotten.
SnapshotOfOwn(j) ==
    {m \in session[j[1]].messages : m \notin Linked(j[2]) \/ m \in edited[j[2]]}

\* The job's own new or changed messages, and every message of the published
\* chunks they belong to. The job's type is not consulted.
SnapshotOf(j) ==
    LET i     == j[2]
        fresh == {m \in session[j[1]].messages :
                     m \notin Linked(i) \/ m \in edited[i]}
    IN fresh \cup Covered({c \in published[i] : DOMAIN c \cap fresh # {}})

\* A chunk is the versions of the messages it was rendered from (all the parts
\* of a text that is too long for one).
ChunksOf(S) ==
    {[m \in g \cap S |-> version[m]] : g \in {h \in Groups : h \cap S # {}}}

\* mark_ready holds the index row between its SELECT ... FOR UPDATE and commit.
RowLocked(i) == \E w \in Workers : pc[w] = "catchup" /\ task[w][2] = i

\* The server-side cursor of iter_job stays open, and its transaction with it,
\* while chunks beyond the batch in flight are still to be read.
CursorOpen(w) == pc[w] = "batch" /\ Cardinality(todo[w]) > BatchSize

Unowned(state, kind) ==
    [status |-> state, kind |-> kind, owner |-> NoWorker, live |-> FALSE]
NewJob(kind) == Unowned("queued", kind)
AbsentJob    == Unowned("none", "incremental")

Init ==
    /\ version = [m \in Messages |-> IF m \in Archived THEN 1 ELSE 0]
    /\ session = [s \in Sessions |->
                    IF \E i \in Indexes : <<s, i>> \in Carried
                    THEN [status |-> "completed", messages |-> Archived]
                    ELSE [status |-> "absent", messages |-> {}]]
    /\ job = [j \in Jobs |-> IF j \in Carried THEN NewJob("rebuild") ELSE AbsentJob]
    /\ created = <<Carried>>
    /\ snapshot = [j \in Jobs |-> {}]
    /\ staged = [j \in Jobs |-> {}]
    /\ published = [i \in Indexes |-> {}]
    /\ edited = [i \in Indexes |-> {}]
    /\ status = [i \in Indexes |->
                    IF \E s \in Sessions : <<s, i>> \in Carried
                    THEN "building" ELSE "ready"]
    /\ pc = [w \in Workers |-> "off"]
    /\ task = [w \in Workers |-> NoJob]
    /\ todo = [w \in Workers |-> {}]
    /\ missing = [w \in Workers |-> {}]
    /\ faults = 0
    /\ retries = 0

-----------------------------------------------------------------------------
(* Ingestion. *)

CreateSession(s) ==
    /\ session[s].status = "absent"
    /\ session' = [session EXCEPT ![s].status = "running"]
    /\ UNCHANGED <<version, jobVars, snapshot, staged, indexVars, workerVars, boundVars>>

\* Mutant of StoreMessages: the session is not required to be running.
StoreInAnySession(s, M, D) ==
    LET changed == (M \ Stored) \cup D IN
    /\ session[s].status # "absent"
    /\ M # {}
    /\ D \subseteq M \cap Stored
    /\ \A m \in changed : version[m] < MaxVersion
    /\ version' = [m \in Messages |->
                     IF m \in changed THEN version[m] + 1 ELSE version[m]]
    /\ edited' = [i \in Indexes |-> edited[i] \cup (changed \cap Linked(i))]
    /\ session' = [session EXCEPT ![s].messages = @ \cup M]
    /\ UNCHANGED <<jobVars, snapshot, staged, published, status, workerVars, boundVars>>

\* One import request: the upsert touches a known message only if its row
\* differs (D), the session links are added, all in one transaction.
StoreMessages(s, M, D) ==
    LET changed == (M \ Stored) \cup D IN
    /\ session[s].status = "running"
    /\ M # {}
    /\ D \subseteq M \cap Stored
    /\ \A m \in changed : version[m] < MaxVersion
    /\ version' = [m \in Messages |->
                     IF m \in changed THEN version[m] + 1 ELSE version[m]]
    /\ edited' = [i \in Indexes |-> edited[i] \cup (changed \cap Linked(i))]
    /\ session' = [session EXCEPT ![s].messages = @ \cup M]
    /\ UNCHANGED <<jobVars, snapshot, staged, published, status, workerVars, boundVars>>

\* The jobs that closing session s creates: one per ready auto-sync index that
\* has none for the session yet. The inserts wait for a locked index row.
QueueSessionJobs(s) ==
    LET ready == {i \in AutoSync : status[i] = "ready"}
        new   == {<<s, i>> : i \in {k \in ready : job[<<s, k>>].status = "none"}}
    IN /\ \A j \in new : ~RowLocked(j[2])
       /\ job' = [j \in Jobs |-> IF j \in new THEN NewJob("incremental") ELSE job[j]]
       /\ created' = IF new = {} THEN created ELSE Append(created, new)

FinishSession(s, reason, queueIndexing) ==
    /\ session[s].status = "running"
    /\ session' = [session EXCEPT ![s].status = reason]
    /\ IF queueIndexing THEN QueueSessionJobs(s) ELSE UNCHANGED jobVars
    /\ UNCHANGED <<version, snapshot, staged, indexVars, workerVars, boundVars>>

QueueSessionIndexing(s) ==
    /\ session[s].status = "completed"
    /\ QueueSessionJobs(s)
    /\ UNCHANGED <<archiveVars, snapshot, staged, indexVars, workerVars, boundVars>>

\* queue_messages: a closed maintenance session over M and its job.
QueueMaintenance(s, i, kind, M) ==
    /\ session[s].status = "absent"
    /\ session' = [session EXCEPT ![s] = [status |-> "completed", messages |-> M]]
    /\ job' = [job EXCEPT ![<<s, i>>] = NewJob(kind)]
    /\ created' = Append(created, {<<s, i>>})

\* The unique index that allows one queued or running catch-up per index.
SyncActive(i) ==
    \E s \in Sessions : job[<<s, i>>].kind = "sync" /\ Active(<<s, i>>)

NoActiveJob(i) == \A s \in Sessions : ~Active(<<s, i>>)

QueueSync(s, i) ==
    /\ NoActiveJob(i)
    /\ ~RowLocked(i)
    /\ Missing(i) # {}
    /\ QueueMaintenance(s, i, "sync", Missing(i))
    /\ UNCHANGED <<version, snapshot, staged, indexVars, workerVars, boundVars>>

\* With no stored message nothing is queued, and mark_ready runs instead: it
\* changes nothing that is modelled, for such an index was never building.
QueueRebuild(s, i) ==
    /\ i \in Rebuildable
    /\ NoActiveJob(i)
    /\ ~RowLocked(i)
    /\ Stored # {}
    /\ QueueMaintenance(s, i, "rebuild", Stored)
    /\ UNCHANGED <<version, snapshot, staged, indexVars, workerVars, boundVars>>

\* The job of the button "index pending messages", for the active index, which
\* may be any ready one here.
QueuePending(s, i) ==
    /\ status[i] = "ready"
    /\ ~RowLocked(i)
    /\ Missing(i) # {}
    /\ QueueMaintenance(s, i, "incremental", Missing(i))
    /\ UNCHANGED <<version, snapshot, staged, indexVars, workerVars, boundVars>>

-----------------------------------------------------------------------------
(* Requests about jobs and about the whole archive. *)

Retry(j) ==
    /\ retries < MaxRetries
    /\ job[j].status \in {"completed", "failed", "cancelled"}
    /\ ~(job[j].kind = "sync" /\ SyncActive(j[2]))
    /\ job' = [job EXCEPT ![j] = NewJob(job[j].kind)]
    /\ staged' = [staged EXCEPT ![j] = {}]
    /\ retries' = retries + 1
    /\ UNCHANGED <<archiveVars, created, snapshot, indexVars, workerVars, faults>>

\* Mutant of Cancel: worker_id is not reset.
CancelKeepsOwner(j) ==
    /\ Active(j)
    /\ ~RowLocked(j[2])
    /\ job' = [job EXCEPT ![j] = [@ EXCEPT !.status = "cancelled", !.live = FALSE]]
    /\ staged' = [staged EXCEPT ![j] = {}]
    /\ status' = [status EXCEPT ![j[2]] = IF @ = "building" THEN "failed" ELSE @]
    /\ UNCHANGED <<archiveVars, created, snapshot, published, edited, workerVars,
                   boundVars>>

\* Mutant of Cancel: the index of a cancelled initial build stays building.
CancelKeepsBuilding(j) ==
    /\ Active(j)
    /\ job' = [job EXCEPT ![j] = [@ EXCEPT !.status = "cancelled",
                                           !.owner = NoWorker, !.live = FALSE]]
    /\ staged' = [staged EXCEPT ![j] = {}]
    /\ UNCHANGED <<archiveVars, created, snapshot, indexVars, workerVars, boundVars>>

Cancel(j) ==
    /\ Active(j)
    /\ ~RowLocked(j[2])
    /\ job' = [job EXCEPT ![j] = [@ EXCEPT !.status = "cancelled",
                                           !.owner = NoWorker, !.live = FALSE]]
    /\ staged' = [staged EXCEPT ![j] = {}]
    /\ status' = [status EXCEPT ![j[2]] = IF @ = "building" THEN "failed" ELSE @]
    /\ UNCHANGED <<archiveVars, created, snapshot, published, edited, workerVars,
                   boundVars>>

\* delete_all truncates every table but the index definitions. TRUNCATE waits
\* for every transaction that still reads one of the tables.
DeleteAll ==
    /\ \A w \in Workers : ~CursorOpen(w) /\ pc[w] # "catchup"
    /\ version' = [m \in Messages |-> 0]
    /\ session' = [s \in Sessions |-> [status |-> "absent", messages |-> {}]]
    /\ job' = [j \in Jobs |-> AbsentJob]
    /\ created' = <<>>
    /\ snapshot' = [j \in Jobs |-> {}]
    /\ staged' = [j \in Jobs |-> {}]
    /\ published' = [i \in Indexes |-> {}]
    /\ edited' = [i \in Indexes |-> {}]
    /\ status' = [i \in Indexes |-> "ready"]
    /\ UNCHANGED <<workerVars, boundVars>>

-----------------------------------------------------------------------------
(* The worker process. *)

\* The worker's own variables after it leaves a job for phase p.
Leave(w, p) ==
    /\ pc' = [pc EXCEPT ![w] = p]
    /\ task' = [task EXCEPT ![w] = IF p \in {"idle", "dead"} THEN NoJob ELSE @]
    /\ todo' = [todo EXCEPT ![w] = {}]
    /\ missing' = [missing EXCEPT ![w] = {}]

Goto(w, p) == pc' = [pc EXCEPT ![w] = p]

Start(w) ==
    /\ pc[w] = "off"
    /\ Cardinality({v \in Workers : pc[v] \in Alive}) < Replicas
    /\ Goto(w, "idle")
    /\ UNCHANGED <<archiveVars, jobVars, snapshot, staged, indexVars, task, todo,
                   missing, boundVars>>

\* Mutant of Claimable: an expired lease is not taken over.
ClaimableIfQueued(j) == job[j].status = "queued"

Claimable(j) ==
    \/ job[j].status = "queued"
    \/ job[j].status = "running" /\ ~job[j].live

Older(a, b) == \E k, l \in 1..Len(created) :
                  k < l /\ a \in created[k] /\ b \in created[l]

\* ORDER BY created_at: jobs of one transaction share their created_at.
Claim(w, j) ==
    /\ pc[w] = "idle"
    /\ Claimable(j)
    /\ \A a \in Jobs : Claimable(a) => ~Older(a, j)
    /\ ~RowLocked(j[2])
    /\ job' = [job EXCEPT ![j] = [@ EXCEPT !.status = "running", !.owner = w,
                                           !.live = TRUE]]
    /\ status' = [status EXCEPT ![j[2]] = IF @ = "failed" THEN "building" ELSE @]
    /\ Goto(w, "prepare")
    /\ task' = [task EXCEPT ![w] = j]
    /\ UNCHANGED <<archiveVars, created, snapshot, staged, published, edited, todo,
                   missing, boundVars>>

PrepareTotal(w) ==
    LET j == task[w] IN
    /\ pc[w] = "prepare"
    /\ Owns(w, j)
    /\ snapshot' = [snapshot EXCEPT ![j] = SnapshotOf(j)]
    /\ job' = [job EXCEPT ![j].live = TRUE]
    /\ Goto(w, "clear")
    /\ UNCHANGED <<archiveVars, created, staged, indexVars, task, todo, missing, boundVars>>

\* Mutant of PrepareStaging: what an earlier attempt staged stays.
PrepareNothing(w) ==
    /\ pc[w] = "clear"
    /\ Owns(w, task[w])
    /\ job' = [job EXCEPT ![task[w]].live = TRUE]
    /\ Goto(w, "open")
    /\ UNCHANGED <<archiveVars, created, snapshot, staged, indexVars, task, todo,
                   missing, boundVars>>

\* Mutant of PrepareStaging: the ownership of the job is not asserted.
PrepareUnowned(w) ==
    LET j == task[w] IN
    /\ pc[w] = "clear"
    /\ staged' = [staged EXCEPT ![j] = {}]
    /\ job' = [job EXCEPT ![j].live = (job[j].status = "running")]
    /\ Goto(w, "open")
    /\ UNCHANGED <<archiveVars, created, snapshot, indexVars, task, todo, missing, boundVars>>

PrepareStaging(w) ==
    LET j == task[w] IN
    /\ pc[w] = "clear"
    /\ Owns(w, j)
    /\ staged' = [staged EXCEPT ![j] = {}]
    /\ job' = [job EXCEPT ![j].live = TRUE]
    /\ Goto(w, "open")
    /\ UNCHANGED <<archiveVars, created, snapshot, indexVars, task, todo, missing, boundVars>>

\* The first batch opens the cursor: every content is the one of this moment.
OpenCursor(w) ==
    /\ pc[w] = "open"
    /\ todo' = [todo EXCEPT ![w] = ChunksOf(snapshot[task[w]] \cap Stored)]
    /\ Goto(w, "batch")
    /\ UNCHANGED <<archiveVars, jobVars, snapshot, staged, indexVars, task, missing,
                   boundVars>>

\* A full batch, or the last chunks, once embedded.
StageBatch(w, B) ==
    LET j == task[w] IN
    /\ pc[w] = "batch"
    /\ Owns(w, j)
    /\ B # {}
    /\ B = todo[w] \/ Cardinality(B) = BatchSize
    /\ staged' = [staged EXCEPT ![j] = @ \cup B]
    /\ todo' = [todo EXCEPT ![w] = @ \ B]
    /\ job' = [job EXCEPT ![j].live = TRUE]
    /\ UNCHANGED <<archiveVars, created, snapshot, indexVars, pc, task, missing, boundVars>>

\* Mutant of Kept: only the chunks that hold the very same messages are replaced.
KeptUnlessEqual(j) ==
    {c \in published[j[2]] : \A d \in staged[j] : DOMAIN c # DOMAIN d}

\* The published chunks that the job does not replace.
Kept(j) ==
    IF job[j].kind = "rebuild" THEN {}
    ELSE {c \in published[j[2]] : DOMAIN c \cap snapshot[j] = {}}

\* Mutant of CommitStaged: the last batch is not awaited.
CommitEarly(w) ==
    LET j == task[w]
        i == j[2]
    IN
    /\ pc[w] = "batch"
    /\ Owns(w, j)
    /\ published' = [published EXCEPT ![i] = Kept(j) \cup staged[j]]
    /\ edited' = [edited EXCEPT ![i] = @ \cap Covered(Kept(j))]
    /\ staged' = [staged EXCEPT ![j] = {}]
    /\ job' = [job EXCEPT ![j] = [@ EXCEPT !.status = "completed",
                                           !.owner = NoWorker, !.live = FALSE]]
    /\ Goto(w, "ready")
    /\ UNCHANGED <<archiveVars, created, snapshot, status, task, todo, missing, boundVars>>

CommitStaged(w) ==
    LET j == task[w]
        i == j[2]
    IN
    /\ pc[w] = "batch"
    /\ todo[w] = {}
    /\ Owns(w, j)
    /\ published' = [published EXCEPT ![i] = Kept(j) \cup staged[j]]
    /\ edited' = [edited EXCEPT ![i] = @ \cap Covered(Kept(j))]
    /\ staged' = [staged EXCEPT ![j] = {}]
    /\ job' = [job EXCEPT ![j] = [@ EXCEPT !.status = "completed",
                                           !.owner = NoWorker, !.live = FALSE]]
    /\ Goto(w, "ready")
    /\ UNCHANGED <<archiveVars, created, snapshot, status, task, todo, missing, boundVars>>

\* mark_ready up to its INSERT ... SELECT, which runs under the index row lock.
MarkReadySelect(w) ==
    LET i == task[w][2] IN
    /\ pc[w] = "ready"
    /\ ~RowLocked(i)
    /\ missing' = [missing EXCEPT
                     ![w] = IF status[i] = "building" /\ i \in AutoSync
                            THEN Missing(i) ELSE {}]
    /\ Goto(w, "catchup")
    /\ UNCHANGED <<archiveVars, jobVars, snapshot, staged, indexVars, task, todo, boundVars>>

MarkReadyCommit(w) ==
    LET i == task[w][2] IN
    /\ pc[w] = "catchup"
    /\ status' = [status EXCEPT ![i] = "ready"]
    /\ \/ /\ missing[w] = {}
          /\ UNCHANGED <<session, jobVars>>
       \/ /\ missing[w] # {}
          /\ ~SyncActive(i)
          /\ \E s \in CatchUps : QueueMaintenance(s, i, "sync", missing[w])
    /\ Leave(w, "idle")
    /\ UNCHANGED <<version, snapshot, staged, published, edited, boundVars>>

\* prepare_total, prepare and stage assert the ownership that they need, and
\* the database refuses a second active catch-up job.
AssertFails(w) ==
    /\ \/ pc[w] \in {"prepare", "clear"} /\ ~Owns(w, task[w])
       \/ pc[w] = "batch" /\ todo[w] # {} /\ ~Owns(w, task[w])
       \/ pc[w] = "catchup" /\ missing[w] # {} /\ SyncActive(task[w][2])
    /\ Leave(w, "fail")
    /\ UNCHANGED <<archiveVars, jobVars, snapshot, staged, indexVars, boundVars>>

\* A provider, dimension or database error, at any point of the attempt.
Raise(w) ==
    /\ pc[w] \in Processing
    /\ Leave(w, "fail")
    /\ UNCHANGED <<archiveVars, jobVars, snapshot, staged, indexVars, boundVars>>

\* A renewal that finds the job no longer owned ends the attempt quietly.
Quit(w) ==
    /\ pc[w] \in {"clear", "batch"}
    /\ ~Owns(w, task[w])
    /\ Leave(w, "idle")
    /\ UNCHANGED <<archiveVars, jobVars, snapshot, staged, indexVars, boundVars>>

FailJob(w) ==
    LET j == task[w] IN
    /\ pc[w] = "fail"
    /\ IF Owns(w, j)
       THEN /\ job' = [job EXCEPT ![j] = [@ EXCEPT !.status = "failed",
                                                   !.owner = NoWorker, !.live = FALSE]]
            /\ staged' = [staged EXCEPT ![j] = {}]
       ELSE UNCHANGED <<job, staged>>
    /\ Goto(w, "markfailed")
    /\ UNCHANGED <<archiveVars, created, snapshot, indexVars, task, todo, missing, boundVars>>

\* Mutant of MarkFailed: a ready index fails with its job.
MarkFailedAlways(w) ==
    /\ pc[w] = "markfailed"
    /\ ~RowLocked(task[w][2])
    /\ status' = [status EXCEPT ![task[w][2]] = "failed"]
    /\ Leave(w, "idle")
    /\ UNCHANGED <<archiveVars, jobVars, snapshot, staged, published, edited, boundVars>>

MarkFailed(w) ==
    LET i == task[w][2] IN
    /\ pc[w] = "markfailed"
    /\ ~RowLocked(i)
    /\ status' = [status EXCEPT ![i] = IF @ = "building" THEN "failed" ELSE @]
    /\ Leave(w, "idle")
    /\ UNCHANGED <<archiveVars, jobVars, snapshot, staged, published, edited, boundVars>>

-----------------------------------------------------------------------------
(* Leases and faults. *)

RenewLease(w) ==
    /\ pc[w] \in Processing
    /\ Owns(w, task[w])
    /\ ~job[task[w]].live
    /\ job' = [job EXCEPT ![task[w]].live = TRUE]
    /\ UNCHANGED <<archiveVars, created, snapshot, staged, indexVars, workerVars, boundVars>>

Renewing(j) == \E w \in Workers :
                  pc[w] \in Processing /\ task[w] = j /\ Owns(w, j)

\* The keeper renews well within the lease, so a lease runs out when nobody
\* renews it, or (a fault) when the process stalls for the whole lease.
ExpireLease(j) ==
    /\ job[j].status = "running"
    /\ job[j].live
    /\ \/ ~Renewing(j) /\ UNCHANGED faults
       \/ Renewing(j) /\ faults < MaxFaults /\ faults' = faults + 1
    /\ job' = [job EXCEPT ![j].live = FALSE]
    /\ UNCHANGED <<archiveVars, created, snapshot, staged, indexVars, workerVars, retries>>

\* The process dies; its open transaction rolls back, its rows stay.
Crash(w) ==
    /\ pc[w] \in Alive
    /\ faults < MaxFaults
    /\ faults' = faults + 1
    /\ Leave(w, "dead")
    /\ UNCHANGED <<archiveVars, jobVars, snapshot, staged, indexVars, retries>>

\* The read after a claim, fail_job or mark_failed raises: the worker loop
\* logs the error and takes the next job, this one stays as it is.
Abandon(w) ==
    /\ pc[w] \in {"prepare", "fail", "markfailed"}
    /\ faults < MaxFaults
    /\ faults' = faults + 1
    /\ Leave(w, "idle")
    /\ UNCHANGED <<archiveVars, jobVars, snapshot, staged, indexVars, retries>>

-----------------------------------------------------------------------------

Ingest ==
    \E s \in Sessions :
        \/ s \notin CatchUps /\ CreateSession(s)
        \/ \E M \in SUBSET Messages : \E D \in SUBSET M : StoreMessages(s, M, D)
        \/ \E reason \in {"completed", "stopped"}, queueIndexing \in QueueChoices :
              FinishSession(s, reason, queueIndexing)
        \/ QueueSessionIndexing(s)

Request ==
    \/ \E s \in Sessions \ CatchUps, i \in Indexes :
          QueueSync(s, i) \/ QueueRebuild(s, i) \/ QueuePending(s, i)
    \/ \E j \in Jobs : Retry(j) \/ Cancel(j)
    \/ DeleteAll

Work(w) ==
    \/ Start(w)
    \/ \E j \in Jobs : Claim(w, j)
    \/ PrepareTotal(w)
    \/ PrepareStaging(w)
    \/ OpenCursor(w)
    \/ \E B \in SUBSET todo[w] : StageBatch(w, B)
    \/ CommitStaged(w)
    \/ MarkReadySelect(w)
    \/ MarkReadyCommit(w)
    \/ Quit(w)
    \/ AssertFails(w)
    \/ FailJob(w)
    \/ MarkFailed(w)

Fault(w) == Raise(w) \/ RenewLease(w) \/ Crash(w) \/ Abandon(w)

Next ==
    \/ Ingest
    \/ Request
    \/ \E w \in Workers : Work(w) \/ Fault(w)
    \/ \E j \in Jobs : ExpireLease(j)

Spec == Init /\ [][Next]_vars

\* The worker thread runs, and time passes: nothing is assumed of the users,
\* of the sources or of the faults.
Fairness ==
    /\ \A w \in Workers : WF_vars(Work(w))
    /\ \A j \in Jobs : WF_vars(ExpireLease(j) /\ ~Renewing(j))

FairSpec == Spec /\ Fairness

-----------------------------------------------------------------------------
(* Properties. *)

Chunk == UNION {[S -> 1..MaxVersion] : S \in SUBSET Messages}

ArchiveTypeOK ==
    /\ version \in [Messages -> 0..MaxVersion]
    /\ session \in [Sessions -> [status: {"absent", "running", "completed", "stopped"},
                                 messages: SUBSET Messages]]

\* worker_id is set exactly while a job runs.
JobTypeOK ==
    /\ job \in [Jobs -> [status: {"none", "queued", "running", "completed", "failed",
                                  "cancelled"},
                         kind: {"incremental", "sync", "rebuild"},
                         owner: Workers \cup {NoWorker},
                         live: BOOLEAN]]
    /\ \A j \in Jobs : job[j].status = "running" <=> job[j].owner # NoWorker
    /\ created \in Seq(SUBSET Jobs)

GenerationTypeOK ==
    /\ snapshot \in [Jobs -> SUBSET Messages]
    /\ staged \in [Jobs -> SUBSET Chunk]
    /\ published \in [Indexes -> SUBSET Chunk]
    /\ edited \in [Indexes -> SUBSET Messages]
    /\ status \in [Indexes -> {"building", "ready", "failed"}]

\* A worker has a job exactly while it is busy with one.
WorkerTypeOK ==
    /\ pc \in [Workers -> Alive \cup {"off", "dead"}]
    /\ task \in [Workers -> Jobs \cup {NoJob}]
    /\ \A w \in Workers : task[w] = NoJob <=> pc[w] \in {"off", "idle", "dead"}
    /\ todo \in [Workers -> SUBSET Chunk]
    /\ missing \in [Workers -> SUBSET Messages]

BoundTypeOK == faults \in 0..MaxFaults /\ retries \in 0..MaxRetries

\* Rows have their types; no path through retry, cancellation, failure and claim
\* leaves a worker_id on a job that does not run, or a busy worker without a job.
TypeOK ==
    ArchiveTypeOK /\ JobTypeOK /\ GenerationTypeOK /\ WorkerTypeOK /\ BoundTypeOK

Disjoint(C) == \A c, d \in C : c # d => DOMAIN c \cap DOMAIN d = {}

\* A search never returns a message through two chunks of one index: whatever
\* is replaced, retried or fenced off, generations never overlap.
PublishedOnce == \A i \in Indexes : Disjoint(published[i])

Intact(w) ==
    pc[w] = "batch" /\ Owns(w, task[w]) =>
        LET G == staged[task[w]] \cup todo[w]
        IN Disjoint(G) /\ Covered(G) = snapshot[task[w]]

\* While a worker owns its job, what it has staged and what it still holds are
\* together exactly the job's snapshot: nothing left over from an earlier
\* attempt or from a worker that lost the lease, and nothing lost.
GenerationWhole == \A w \in Workers : Intact(w)

Cleared == \A m \in Messages : version'[m] = 0

\* Searchable chunks change only when a job completes, and then the whole
\* snapshot of that job is searchable, or when the archive is cleared.
AtomicPublication ==
    [][\A i \in Indexes : published'[i] # published[i] =>
          \/ Cleared
          \/ \E s \in Sessions :
                /\ job[<<s, i>>].status = "running"
                /\ job'[<<s, i>>].status = "completed"
                /\ snapshot[<<s, i>>] \subseteq Covered(published'[i])]_vars

\* A message that can be found stays findable, through every edit, overlap,
\* retry and crash, until the archive is cleared.
SearchableStays ==
    [][\A i \in Indexes : Linked(i) \subseteq Covered(published'[i]) \/ Cleared]_vars

\* A completed job left no message of its session out of its index.
CompletedJobCovers ==
    \A j \in Jobs : job[j].status = "completed" =>
        session[j[1]].messages \subseteq Linked(j[2])

\* An index that is ready (and may be the active one) is never taken back to
\* building or failed by a failed, cancelled or retried job, or by a late worker.
ReadyIsStable ==
    [][\A i \in Indexes : status[i] = "ready" => status'[i] = "ready"]_vars

\* Every queued or running job ends, although processes crash, stall and lose
\* database calls, as often as MaxFaults allows.
JobsSettle == \A j \in Jobs : Active(j) ~> ~Active(j)

\* An index does not stay in its initial build: the worker makes it ready, or a
\* failure or a cancellation makes it failed, from where a retry resumes it. A
\* process that dies or stalls may leave it building (mark_ready runs after the
\* job has been committed).
BuildEnds ==
    \A i \in Indexes :
        status[i] = "building" ~> (status[i] # "building" \/ faults > 0)

\* (architecture.md, Indexing) An edit is embedded by a later incremental job: a
\* published chunk older than one of its messages is known to be outdated.
StaleIsKnown ==
    \A i \in Indexes : \A c \in published[i] : \A m \in DOMAIN c :
        c[m] < version[m] => m \in edited[i]

\* (architecture.md, Indexing) A rebuild keeps the corpus searchable: it replaces
\* the published generation by a complete one.
RebuildIsComplete ==
    [][\A s \in Sessions, i \in Indexes :
          /\ job[<<s, i>>].kind = "rebuild"
          /\ job[<<s, i>>].status = "running"
          /\ job'[<<s, i>>].status = "completed"
          => session[s].messages \subseteq Covered(published'[i])]_vars

\* (architecture.md, Indexing) What was accepted while an index was being built
\* is caught up: once the index is ready, a stored message that it misses is in
\* an open session or has a job, whatever became of that job.
CaughtUp ==
    \A i \in AutoSync : status[i] = "ready" =>
        \A m \in Stored \ Linked(i) : \E s \in Sessions :
            /\ m \in session[s].messages
            /\ session[s].status = "running" \/ job[<<s, i>>].status # "none"

-----------------------------------------------------------------------------
(* What is left of all this to a search. *)

Store == INSTANCE GenerationStore WITH
    text <- version, search <- published,
    Replaceable <- Rebuildable \cup {j[2] : j \in Carried}

\* However many transactions, attempts and processes a job takes, to a search it
\* is one atomic replacement of the chunks it touches by a whole generation.
ImplementsStore == Store!Spec
=============================================================================
