------------------------------ MODULE ReadModels ------------------------------
(***************************************************************************)
(* The persistent UI read model: one projection of the whole archive and    *)
(* one per embedding index. Every transaction that changes canonical data   *)
(* also invalidates the projections of that data; one refresh worker at a   *)
(* time (an advisory lock) claims a projection, computes it in a REPEATABLE *)
(* READ transaction and publishes it; readers fetch the projected values    *)
(* and, in a second statement, the metadata that says if they are current.  *)
(*                                                                          *)
(* An action is one transaction or one statement of a reader.               *)
(***************************************************************************)
EXTENDS Integers, FiniteSets

CONSTANTS
    Indexes,       \* ids of embedding indexes
    Archive,       \* projection_key of the archive projection
    Processes,     \* worker_ids: one fresh id per backend process
    NoOwner,       \* SQL NULL in lease_owner
    Readers,       \* concurrent GET requests
    NoValue,       \* no summary row, or a reader that has read none
    MaxMessages,   \* bound: messages in the archive
    MaxRevision,   \* bound: requested revisions of a projection
    MaxFaults      \* bound: failed refreshes, crashes and lost connections

ASSUME ReadModelsAssumption ==
    /\ Archive \notin Indexes
    /\ NoOwner \notin Processes
    /\ {MaxMessages, MaxRevision, MaxFaults} \subseteq Nat

Projections == Indexes \cup {Archive}

VARIABLES
    messages,  \* rows of source_messages
    indexed,   \* messages with a published chunk, per index
    row,       \* read_model_refresh_state
    lease,     \* the projections whose lease_expires_at lies ahead
    due,       \* the waiting projections whose debounce or back-off has passed
    summary,   \* workspace_read_summary and embedding_index_read_summary
    active,    \* rag_application_settings.active_embedding_index_id
    outdated,  \* the rows are of an older READ_MODEL_SCHEMA_VERSION
    pc,        \* what the refresh worker of each process is doing
    claim,     \* the projection and the revision that it claimed
    view,      \* its REPEATABLE READ snapshot
    reading,   \* values a reader has, while it has no metadata yet
    faults

vars == <<messages, indexed, row, lease, due, summary, active, outdated,
          pc, claim, view, reading, faults>>
dataVars   == <<messages, indexed>>
workerVars == <<pc, claim, view>>

-----------------------------------------------------------------------------

Busy == {"claimed", "computed", "superseded", "failed"}

\* pg_try_advisory_lock: one session of all API processes computes at a time.
LockTaken == \E w \in Processes : pc[w] \in Busy

\* metadata_from_state
Ready(p) == summary[p] # NoValue /\ row[p].published > 0
Stale(p) == \/ ~Ready(p)
            \/ row[p].requested > row[p].published
            \/ row[p].status # "ready"

\* What a refresh of p computes now. The pending count of an index is derived
\* from the archive projection, if there is one, and not from the archive.
RawCount == IF summary[Archive] = NoValue THEN messages ELSE summary[Archive].count
Projected(p) ==
    IF p = Archive THEN [count |-> messages, pending |-> 0]
    ELSE [count   |-> indexed[p],
          pending |-> IF RawCount > indexed[p] THEN RawCount - indexed[p] ELSE 0]

\* What it would compute from the canonical tables alone.
Exact(p) ==
    IF p = Archive THEN [count |-> messages, pending |-> 0]
    ELSE [count |-> indexed[p], pending |-> messages - indexed[p]]

\* A worker that has claimed nothing, or that has no snapshot yet.
NoClaim == [key |-> Archive, revision |-> 0]
NoView  == [row |-> [requested |-> 0, published |-> 0, status |-> "queued",
                     owner |-> NoOwner],
            value |-> NoValue]

\* A new database, or one that an older version of the program left behind.
Init ==
    /\ messages = 0
    /\ indexed = [i \in Indexes |-> 0]
    /\ outdated \in BOOLEAN
    /\ row = [p \in Projections |->
                [requested |-> 1, published |-> IF outdated THEN 1 ELSE 0,
                 status |-> IF outdated THEN "ready" ELSE "queued", owner |-> NoOwner]]
    /\ lease = {}
    /\ due = IF outdated THEN {} ELSE Projections
    /\ summary = [p \in Projections |->
                    IF outdated THEN [count |-> 0, pending |-> 0] ELSE NoValue]
    /\ active \in Indexes
    /\ pc = [w \in Processes |-> "off"]
    /\ claim = [w \in Processes |-> NoClaim]
    /\ view = [w \in Processes |-> NoView]
    /\ reading = [r \in Readers |-> [key |-> Archive, value |-> NoValue]]
    /\ faults = 0

-----------------------------------------------------------------------------
(* Writers: the invalidation is part of the transaction that changes data. *)

\* Mutant of Invalidated: a running projection is queued under its owner.
InvalidatedAlways(x) == [x EXCEPT !.requested = @ + 1, !.status = "queued"]

\* A running refresh goes on, and finds the new revision when it completes.
Invalidated(x) ==
    [requested |-> x.requested + 1, published |-> x.published,
     status |-> IF x.status = "running" THEN "running" ELSE "queued",
     owner |-> x.owner]

\* An immediate request backdates requested_at by the debounce time.
Invalidate(P, immediate) ==
    /\ \A p \in P : row[p].requested < MaxRevision
    /\ row' = [p \in Projections |-> IF p \in P THEN Invalidated(row[p]) ELSE row[p]]
    /\ due' = IF immediate THEN due \cup P ELSE due \ P

\* n new messages (an import of nothing new, and an edit, invalidate too).
StoreMessages(n) ==
    /\ messages + n <= MaxMessages
    /\ messages' = messages + n
    /\ Invalidate(Projections, FALSE)
    /\ UNCHANGED <<indexed, lease, summary, active, outdated, workerVars, reading, faults>>

\* A job or a rebuild publishes the chunks of n messages.
PublishIndex(i, n) ==
    /\ n <= messages
    /\ indexed' = [indexed EXCEPT ![i] = n]
    /\ Invalidate({i}, FALSE)
    /\ UNCHANGED <<messages, lease, summary, active, outdated, workerVars, reading, faults>>

Activate(i) ==
    /\ active' = i
    /\ Invalidate({i}, TRUE)
    /\ UNCHANGED <<dataVars, lease, summary, outdated, workerVars, reading, faults>>

RequestRefresh(P) ==
    /\ P \in {Projections, {Archive, active}}
    /\ Invalidate(P, TRUE)
    /\ UNCHANGED <<dataVars, lease, summary, active, outdated, workerVars, reading, faults>>

\* delete_all clears the tables and publishes zeros in the same transaction.
ResetArchive ==
    /\ \A p \in Projections : row[p].requested < MaxRevision
    /\ messages' = 0
    /\ indexed' = [i \in Indexes |-> 0]
    /\ summary' = [p \in Projections |-> [count |-> 0, pending |-> 0]]
    /\ row' = [p \in Projections |->
                 [requested |-> row[p].requested + 1, published |-> row[p].requested + 1,
                  status |-> "ready", owner |-> NoOwner]]
    /\ lease' = {}
    /\ due' = {}
    /\ UNCHANGED <<active, outdated, workerVars, reading, faults>>

-----------------------------------------------------------------------------
(* The refresh worker. *)

\* It forgets its claim and its snapshot.
Leave(w, phase) ==
    /\ pc' = [pc EXCEPT ![w] = phase]
    /\ claim' = [claim EXCEPT ![w] = NoClaim]
    /\ view' = [view EXCEPT ![w] = NoView]

\* ensure_schema queues the archive projection again if the rows are of an
\* older schema version.
Start(w) ==
    /\ pc[w] = "off"
    /\ row' = IF ~outdated THEN row
              ELSE [row EXCEPT ![Archive] =
                      [requested |-> @.requested + 1, published |-> 0,
                       status |-> "queued", owner |-> NoOwner]]
    /\ lease' = IF outdated THEN lease \ {Archive} ELSE lease
    /\ due' = IF outdated THEN due \cup {Archive} ELSE due
    /\ outdated' = FALSE
    /\ pc' = [pc EXCEPT ![w] = "idle"]
    /\ UNCHANGED <<dataVars, summary, active, claim, view, reading, faults>>

\* Mutant of Claimable: the refresh of a process that died is never taken over.
ClaimableIfWaiting(p) == row[p].status \in {"queued", "failed"} /\ p \in due

Claimable(p) ==
    \/ row[p].status \in {"queued", "failed"} /\ p \in due
    \/ row[p].status = "running" /\ p \notin lease

\* refresh_next up to its claim. Rows that a writer has locked are skipped, so
\* the rank of the ORDER BY (archive, active index, others) decides nothing.
Claim(w, p) ==
    /\ pc[w] = "idle"
    /\ ~LockTaken
    /\ Claimable(p)
    /\ row' = [row EXCEPT ![p].status = "running", ![p].owner = w]
    /\ lease' = lease \cup {p}
    /\ claim' = [claim EXCEPT ![w] = [key |-> p, revision |-> row[p].requested]]
    /\ pc' = [pc EXCEPT ![w] = "claimed"]
    /\ UNCHANGED <<dataVars, due, summary, active, outdated, view, reading, faults>>

\* The first query of the transaction fixes its snapshot.
Compute(w) ==
    LET p == claim[w].key IN
    /\ pc[w] = "claimed"
    /\ view' = [view EXCEPT ![w] = [row |-> row[p], value |-> Projected(p)]]
    /\ pc' = [pc EXCEPT ![w] = "computed"]
    /\ UNCHANGED <<dataVars, row, lease, due, summary, active, outdated, claim, reading,
                   faults>>

Complete(w, revision, status) ==
    LET p == claim[w].key IN
    /\ summary' = [summary EXCEPT ![p] = view[w].value]
    /\ row' = [row EXCEPT ![p] = [requested |-> @.requested, published |-> revision,
                                  status |-> status, owner |-> NoOwner]]
    /\ lease' = lease \ {p}
    /\ due' = IF status = "ready" THEN due \ {p} ELSE due
    /\ Leave(w, "idle")
    /\ UNCHANGED <<dataVars, active, outdated, reading, faults>>

Unchanged(w) == row[claim[w].key] = view[w].row
Mine(w)      == row[claim[w].key].owner = w

\* Mutant of Publish: any completed refresh makes its projection ready.
PublishReady(w) ==
    /\ pc[w] = "computed"
    /\ Unchanged(w) /\ Mine(w)
    /\ Complete(w, claim[w].revision, "ready")

\* Mutant of Publish: the transaction is not REPEATABLE READ, and the revision
\* published is the one requested by now.
PublishNewest(w) ==
    /\ pc[w] = "computed"
    /\ Mine(w)
    /\ Complete(w, row[claim[w].key].requested, "ready")

\* Mutant of Publish: neither the isolation level nor lease_owner protect the row.
PublishUnfenced(w) ==
    /\ pc[w] = "computed"
    /\ Complete(w, claim[w].revision, "queued")

\* _complete commits only if nobody changed the row since the snapshot.
Publish(w) ==
    /\ pc[w] = "computed"
    /\ Unchanged(w) /\ Mine(w)
    /\ Complete(w, claim[w].revision,
                IF row[claim[w].key].requested > claim[w].revision
                THEN "queued" ELSE "ready")

\* SerializationFailure: the row was changed since the snapshot.
Superseded(w) ==
    /\ pc[w] = "computed"
    /\ ~Unchanged(w)
    /\ pc' = [pc EXCEPT ![w] = "superseded"]
    /\ UNCHANGED <<dataVars, row, lease, due, summary, active, outdated, claim, view,
                   reading, faults>>

\* _complete finds no row of its own: the lease was taken away before the
\* snapshot.
LeaseLost(w) ==
    /\ pc[w] = "computed"
    /\ Unchanged(w) /\ ~Mine(w)
    /\ pc' = [pc EXCEPT ![w] = "failed"]
    /\ UNCHANGED <<dataVars, row, lease, due, summary, active, outdated, claim, view,
                   reading, faults>>

\* Any other error of the refresh transaction.
Raise(w) ==
    /\ pc[w] \in {"claimed", "computed"}
    /\ faults < MaxFaults
    /\ faults' = faults + 1
    /\ pc' = [pc EXCEPT ![w] = "failed"]
    /\ UNCHANGED <<dataVars, row, lease, due, summary, active, outdated, claim, view,
                   reading>>

\* What a worker writes about its own claim when it did not publish.
GiveUp(w, status) ==
    LET p == claim[w].key IN
    /\ IF Mine(w)
       THEN /\ row' = [row EXCEPT ![p] = [@ EXCEPT !.status = status, !.owner = NoOwner]]
            /\ lease' = lease \ {p}
            /\ due' = IF status = "failed" THEN due \ {p} ELSE due
       ELSE UNCHANGED <<row, lease, due>>
    /\ Leave(w, "idle")
    /\ UNCHANGED <<dataVars, summary, active, outdated, reading, faults>>

RequeueSuperseded(w) == pc[w] = "superseded" /\ GiveUp(w, "queued")
RecordFailure(w)     == pc[w] = "failed" /\ GiveUp(w, "failed")

\* The session is lost, and its advisory lock with it; the loop goes on.
Disconnect(w) ==
    /\ pc[w] \in Busy
    /\ faults < MaxFaults
    /\ faults' = faults + 1
    /\ Leave(w, "idle")
    /\ UNCHANGED <<dataVars, row, lease, due, summary, active, outdated, reading>>

Crash(w) ==
    /\ pc[w] \in Busy \cup {"idle"}
    /\ faults < MaxFaults
    /\ faults' = faults + 1
    /\ Leave(w, "dead")
    /\ UNCHANGED <<dataVars, row, lease, due, summary, active, outdated, reading>>

-----------------------------------------------------------------------------
(* Time and readers. *)

\* Nothing renews a lease: it may run out during a long refresh.
ExpireLease(p) ==
    /\ p \in lease
    /\ lease' = lease \ {p}
    /\ UNCHANGED <<dataVars, row, due, summary, active, outdated, workerVars, reading,
                   faults>>

Elapse(p) ==
    /\ p \notin due
    /\ row[p].status # "ready"
    /\ due' = due \cup {p}
    /\ UNCHANGED <<dataVars, row, lease, summary, active, outdated, workerVars, reading,
                   faults>>

ReadValues(r, p) ==
    /\ reading[r].value = NoValue
    /\ summary[p] # NoValue
    /\ reading' = [reading EXCEPT ![r] = [key |-> p, value |-> summary[p]]]
    /\ UNCHANGED <<dataVars, row, lease, due, summary, active, outdated, workerVars, faults>>

\* The second statement: the response is sent with the metadata of this moment.
ReadMetadata(r) ==
    /\ reading[r].value # NoValue
    /\ reading' = [reading EXCEPT ![r] = [key |-> Archive, value |-> NoValue]]
    /\ UNCHANGED <<dataVars, row, lease, due, summary, active, outdated, workerVars, faults>>

-----------------------------------------------------------------------------

Write ==
    \/ \E n \in 0..1 : StoreMessages(n)
    \/ \E i \in Indexes : Activate(i) \/ \E n \in 0..messages : PublishIndex(i, n)
    \/ \E P \in SUBSET Projections : RequestRefresh(P)
    \/ ResetArchive

Work(w) ==
    \/ Start(w)
    \/ \E p \in Projections : Claim(w, p)
    \/ Compute(w)
    \/ Publish(w)
    \/ Superseded(w)
    \/ LeaseLost(w)
    \/ RequeueSuperseded(w)
    \/ RecordFailure(w)

Read(r) == ReadMetadata(r) \/ \E p \in Projections : ReadValues(r, p)

Next ==
    \/ Write
    \/ \E w \in Processes : Work(w) \/ Raise(w) \/ Disconnect(w) \/ Crash(w)
    \/ \E p \in Projections : ExpireLease(p) \/ Elapse(p)
    \/ \E r \in Readers : Read(r)

Spec == Init /\ [][Next]_vars

\* The worker thread polls and time passes.
Fairness ==
    /\ \A w \in Processes : WF_vars(Work(w))
    /\ \A p \in Projections : WF_vars(ExpireLease(p)) /\ WF_vars(Elapse(p))

FairSpec == Spec /\ Fairness

-----------------------------------------------------------------------------
(* Properties. *)

Value == [count: Nat, pending: Nat]

Row == [requested: Nat, published: Nat,
        status: {"queued", "running", "ready", "failed"},
        owner: Processes \cup {NoOwner}]

DataTypeOK ==
    /\ messages \in Nat
    /\ indexed \in [Indexes -> Nat]
    /\ summary \in [Projections -> Value \cup {NoValue}]
    /\ active \in Indexes
    /\ outdated \in BOOLEAN
    /\ reading \in [Readers -> [key: Projections, value: Value \cup {NoValue}]]
    /\ faults \in Nat

\* A row is running exactly while it has an owner.
RowTypeOK ==
    /\ row \in [Projections -> Row]
    /\ \A p \in Projections : row[p].status = "running" <=> row[p].owner # NoOwner
    /\ lease \in SUBSET Projections
    /\ due \in SUBSET Projections

WorkerTypeOK ==
    /\ pc \in [Processes -> Busy \cup {"off", "idle", "dead"}]
    /\ claim \in [Processes -> [key: Projections, revision: Nat]]
    /\ view \in [Processes -> [row: Row, value: Value \cup {NoValue}]]

\* Rows, claims and snapshots have their types; no path through invalidation,
\* takeover, failure and reset leaves an owner on a row that is not running.
TypeOK == DataTypeOK /\ RowTypeOK /\ WorkerTypeOK

\* (ui-read-model.md, Invalidation contract) A projection whose row says that it
\* is current holds what its own tables hold now, through writes that race the
\* computation, resets, lost leases, crashes and takeovers.
FreshIsExact ==
    \A p \in Projections : ~Stale(p) => summary[p].count = Exact(p).count

\* An invalidation is never lost: a projection with a newer requested revision
\* is waiting, running or failed, so that some worker takes it again.
NoLostInvalidation ==
    \A p \in Projections : row[p].status = "ready" => row[p].published = row[p].requested

\* A published generation is never replaced by an older one, except that a new
\* schema version starts over.
PublicationAdvances ==
    [][\A p \in Projections :
          row'[p].published >= row[p].published \/ outdated # outdated']_vars

\* A stale projection becomes current again once writers and faults stop, also
\* when the process that computed it died in the middle.
RefreshSettles == \A p \in Projections : Stale(p) ~> ~Stale(p)

\* (ui-read-model.md, Invalidation contract) A response never claims that an old
\* projection is current: a reader that has values and gets metadata now that
\* say current has the current values.
ResponseIsCurrent ==
    \A r \in Readers :
        LET p == reading[r].key IN
        reading[r].value # NoValue /\ ~Stale(p) => reading[r].value = Exact(p)
=============================================================================
