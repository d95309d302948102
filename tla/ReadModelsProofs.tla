--------------------------- MODULE ReadModelsProofs ---------------------------
(***************************************************************************)
(* What holds of ReadModels for every value of its constants.               *)
(***************************************************************************)
EXTENDS ReadModels, TLAPS

USE DEF Projections, vars, dataVars, workerVars

-----------------------------------------------------------------------------
(* Types. *)

LEMMA ProjectedType ==
    ASSUME DataTypeOK, NEW p \in Projections
    PROVE  /\ Projected(p) \in Value
           /\ Projected(p).count = Exact(p).count
<1>1. RawCount \in Nat
    BY DEF RawCount, DataTypeOK, Value
<1> QED
    BY <1>1 DEF Projected, Exact, DataTypeOK, Value

LEMMA InvalidatedType ==
    ASSUME RowTypeOK, NEW P \in SUBSET Projections, NEW immediate \in BOOLEAN,
           Invalidate(P, immediate), UNCHANGED lease
    PROVE  RowTypeOK'
<1>1. \A p \in Projections :
        /\ Invalidated(row[p]) \in Row
        /\ Invalidated(row[p]).status = "running" <=> row[p].status = "running"
        /\ Invalidated(row[p]).owner = row[p].owner
    BY DEF RowTypeOK, Row, Invalidated
<1>2. /\ row' \in [Projections -> Row]
      /\ \A p \in Projections : row'[p].status = "running" <=> row'[p].owner # NoOwner
    BY <1>1 DEF RowTypeOK, Invalidate
<1>3. due' \in SUBSET Projections
    BY DEF RowTypeOK, Invalidate
<1> QED
    BY <1>2, <1>3 DEF RowTypeOK

\* A worker that gives up its claim, whatever becomes of the row.
LEMMA LeaveType ==
    ASSUME WorkerTypeOK, NEW w \in Processes, NEW phase \in {"idle", "dead"},
           Leave(w, phase)
    PROVE  WorkerTypeOK'
<1>1. NoClaim \in [key: Projections, revision: Nat]
    BY DEF NoClaim
<1>2. NoView \in [row: Row, value: Value \cup {NoValue}]
    BY DEF NoView, Row
<1> QED
    BY <1>1, <1>2 DEF Leave, WorkerTypeOK

\* A row that its worker lets go.
LEMMA ReleasedType ==
    ASSUME RowTypeOK, NEW p \in Projections, NEW x \in Row,
           x.status \in {"queued", "ready", "failed"}, x.owner = NoOwner,
           row' = [row EXCEPT ![p] = x], lease' \in SUBSET Projections,
           due' \in SUBSET Projections
    PROVE  RowTypeOK'
BY DEF RowTypeOK

LEMMA InitTypeOK == Init => TypeOK
<1> SUFFICES ASSUME Init PROVE TypeOK
    OBVIOUS
<1>1. DataTypeOK
    BY DEF Init, DataTypeOK, Value
<1>2. RowTypeOK
    BY DEF Init, RowTypeOK, Row
<1>3. WorkerTypeOK
    BY DEF Init, WorkerTypeOK, Row, NoClaim, NoView
<1> QED
    BY <1>1, <1>2, <1>3 DEF TypeOK

LEMMA WriteType == TypeOK /\ Write => TypeOK'
<1> SUFFICES ASSUME TypeOK, Write PROVE TypeOK'
    OBVIOUS
<1> USE DEF TypeOK
<1>1. ASSUME NEW n \in 0..1, StoreMessages(n) PROVE TypeOK'
  <2>1. RowTypeOK'
      BY <1>1, InvalidatedType DEF StoreMessages
  <2> QED
      BY <1>1, <2>1 DEF StoreMessages, DataTypeOK, WorkerTypeOK
<1>2. ASSUME NEW i \in Indexes, Activate(i) PROVE TypeOK'
  <2>1. RowTypeOK'
      BY <1>2, InvalidatedType DEF Activate
  <2> QED
      BY <1>2, <2>1 DEF Activate, DataTypeOK, WorkerTypeOK
<1>3. ASSUME NEW i \in Indexes, NEW n \in 0..messages, PublishIndex(i, n) PROVE TypeOK'
  <2>1. RowTypeOK'
      BY <1>3, InvalidatedType DEF PublishIndex
  <2> QED
      BY <1>3, <2>1 DEF PublishIndex, DataTypeOK, WorkerTypeOK
<1>4. ASSUME NEW P \in SUBSET Projections, RequestRefresh(P) PROVE TypeOK'
  <2>1. RowTypeOK'
      BY <1>4, InvalidatedType DEF RequestRefresh
  <2> QED
      BY <1>4, <2>1 DEF RequestRefresh, DataTypeOK, WorkerTypeOK
<1>5. ASSUME ResetArchive PROVE TypeOK'
  <2>1. RowTypeOK'
      BY <1>5 DEF ResetArchive, RowTypeOK, Row
  <2>2. DataTypeOK'
      BY <1>5 DEF ResetArchive, DataTypeOK, Value
  <2> QED
      BY <1>5, <2>1, <2>2 DEF ResetArchive, WorkerTypeOK
<1> QED
    BY <1>1, <1>2, <1>3, <1>4, <1>5 DEF Write

LEMMA WorkType == ASSUME TypeOK, NEW w \in Processes, Work(w) PROVE TypeOK'
<1> USE DEF TypeOK
<1>1. CASE Start(w)
  <2>1. RowTypeOK'
    <3> DEFINE x == [requested |-> row[Archive].requested + 1, published |-> 0,
                     status |-> "queued", owner |-> NoOwner]
    <3>1. x \in Row
        BY DEF RowTypeOK, Row
    <3>2. CASE outdated
      <4>1. row' = [row EXCEPT ![Archive] = x]
          BY <1>1, <3>2 DEF Start
      <4>2. lease' \in SUBSET Projections /\ due' \in SUBSET Projections
          BY <1>1 DEF Start, RowTypeOK
      <4> QED
          BY <3>1, <4>1, <4>2, ReleasedType
    <3>3. CASE ~outdated
        BY <1>1, <3>3 DEF Start, RowTypeOK
    <3> QED
        BY <3>2, <3>3
  <2> QED
      BY <1>1, <2>1 DEF Start, DataTypeOK, WorkerTypeOK
<1>2. ASSUME NEW p \in Projections, Claim(w, p) PROVE TypeOK'
  <2>1. RowTypeOK'
      BY <1>2, ReadModelsAssumption DEF Claim, RowTypeOK, Row
  <2>2. WorkerTypeOK'
    <3>1. row[p].requested \in Nat
        BY DEF RowTypeOK, Row
    <3> QED
        BY <1>2, <3>1 DEF Claim, WorkerTypeOK, Busy
  <2> QED
      BY <1>2, <2>1, <2>2 DEF Claim, DataTypeOK
<1>3. CASE Compute(w)
  <2>1. WorkerTypeOK'
    <3>1. claim[w].key \in Projections
        BY DEF WorkerTypeOK
    <3>2. /\ row[claim[w].key] \in Row
          /\ Projected(claim[w].key) \in Value
        BY <3>1, ProjectedType DEF RowTypeOK
    <3> QED
        BY <1>3, <3>2 DEF Compute, WorkerTypeOK, Busy
  <2> QED
      BY <1>3, <2>1 DEF Compute, DataTypeOK, RowTypeOK
<1>4. CASE Publish(w)
  <2> DEFINE p == claim[w].key
             status == IF row[p].requested > claim[w].revision THEN "queued" ELSE "ready"
             x == [requested |-> row[p].requested, published |-> claim[w].revision,
                   status |-> status, owner |-> NoOwner]
  <2>1. p \in Projections /\ claim[w].revision \in Nat
      BY DEF WorkerTypeOK
  <2>2. RowTypeOK'
    <3>1. x \in Row
        BY <2>1 DEF RowTypeOK, Row
    <3>2. /\ row' = [row EXCEPT ![p] = x]
          /\ lease' = lease \ {p}
          /\ due' = IF status = "ready" THEN due \ {p} ELSE due
        BY <1>4 DEF Publish, Complete
    <3>3. lease' \in SUBSET Projections /\ due' \in SUBSET Projections
        BY <3>2 DEF RowTypeOK
    <3> QED
        BY <2>1, <3>1, <3>2, <3>3, ReleasedType
  <2>3. WorkerTypeOK'
      BY <1>4, LeaveType DEF Publish, Complete
  <2>4. DataTypeOK'
      BY <1>4 DEF Publish, Complete, DataTypeOK, WorkerTypeOK
  <2> QED
      BY <2>2, <2>3, <2>4
<1>5. CASE Superseded(w) \/ LeaseLost(w)
  <2>1. WorkerTypeOK'
      BY <1>5 DEF Superseded, LeaseLost, WorkerTypeOK, Busy
  <2> QED
      BY <1>5, <2>1 DEF Superseded, LeaseLost, DataTypeOK, RowTypeOK
<1>6. ASSUME NEW end \in {"queued", "failed"}, GiveUp(w, end) PROVE TypeOK'
  <2> DEFINE p == claim[w].key
  <2>1. p \in Projections
      BY DEF WorkerTypeOK
  <2>2. RowTypeOK'
    <3>1. CASE Mine(w)
      <4> DEFINE x == [row[p] EXCEPT !.status = end, !.owner = NoOwner]
      <4>1. x \in Row /\ x.status = end /\ x.owner = NoOwner
          BY <2>1 DEF RowTypeOK, Row
      <4>2. /\ row' = [row EXCEPT ![p] = x]
            /\ lease' \in SUBSET Projections
            /\ due' \in SUBSET Projections
          BY <1>6, <3>1 DEF GiveUp, RowTypeOK
      <4> QED
          BY <2>1, <4>1, <4>2, ReleasedType
    <3>2. CASE ~Mine(w)
        BY <1>6, <3>2 DEF GiveUp, RowTypeOK
    <3> QED
        BY <3>1, <3>2
  <2>3. WorkerTypeOK'
      BY <1>6, LeaveType DEF GiveUp
  <2> QED
      BY <1>6, <2>2, <2>3 DEF GiveUp, DataTypeOK
<1> QED
    BY <1>1, <1>2, <1>3, <1>4, <1>5, <1>6 DEF Work, RequeueSuperseded, RecordFailure

LEMMA FaultType ==
    ASSUME TypeOK, NEW w \in Processes, Raise(w) \/ Disconnect(w) \/ Crash(w)
    PROVE  TypeOK'
<1> USE DEF TypeOK
<1>1. WorkerTypeOK'
  <2>1. CASE Raise(w)
      BY <2>1 DEF Raise, WorkerTypeOK, Busy
  <2>2. CASE Disconnect(w) \/ Crash(w)
      BY <2>2, LeaveType DEF Disconnect, Crash
  <2> QED
      BY <2>1, <2>2
<1> QED
    BY <1>1 DEF Raise, Disconnect, Crash, DataTypeOK, RowTypeOK

LEMMA OtherType ==
    ASSUME TypeOK,
           \/ \E p \in Projections : ExpireLease(p) \/ Elapse(p)
           \/ \E r \in Readers : Read(r)
    PROVE  TypeOK'
<1> USE DEF TypeOK
<1>1. ASSUME NEW p \in Projections, ExpireLease(p) \/ Elapse(p) PROVE TypeOK'
    BY <1>1 DEF ExpireLease, Elapse, DataTypeOK, RowTypeOK, WorkerTypeOK
<1>2. ASSUME NEW r \in Readers, Read(r) PROVE TypeOK'
  <2>1. DataTypeOK'
      BY <1>2 DEF Read, ReadValues, ReadMetadata, DataTypeOK
  <2> QED
      BY <1>2, <2>1 DEF Read, ReadValues, ReadMetadata, RowTypeOK, WorkerTypeOK
<1> QED
    BY <1>1, <1>2

LEMMA NextType == TypeOK /\ [Next]_vars => TypeOK'
<1> SUFFICES ASSUME TypeOK, [Next]_vars PROVE TypeOK'
    OBVIOUS
<1>1. CASE UNCHANGED vars
    BY <1>1 DEF TypeOK, DataTypeOK, RowTypeOK, WorkerTypeOK
<1> QED
    BY <1>1, WriteType, WorkType, FaultType, OtherType DEF Next

\* The types of every reachable state, for any number of indexes, processes and
\* readers: an owner is set exactly while a row is running.
THEOREM TypeCorrect == Spec => []TypeOK
<1> QED
    BY InitTypeOK, NextType, PTL DEF Spec

-----------------------------------------------------------------------------
(* Revisions and snapshots. *)

Count(p) == IF p = Archive THEN messages ELSE indexed[p]

\* A ready projection holds the counts of the canonical tables, under the
\* revision that was last requested.
Current ==
    \A p \in Projections : row[p].status = "ready" =>
        /\ row[p].published = row[p].requested
        /\ summary[p].count = Count(p)

\* No revision is published before it is requested.
Requested == \A p \in Projections : row[p].published <= row[p].requested

\* A claim is never ahead of its row, and while the row is still the worker's
\* own, the row has published nothing newer than the claim.
ClaimSound ==
    \A w \in Processes : pc[w] \in Busy =>
        /\ claim[w].revision <= row[claim[w].key].requested
        /\ Mine(w) => row[claim[w].key].published <= claim[w].revision

\* As long as no newer revision is requested, what a worker computed is exact.
SnapshotSound ==
    \A w \in Processes : pc[w] = "computed" =>
        /\ view[w].row.requested <= row[claim[w].key].requested
        /\ view[w].row.requested = row[claim[w].key].requested =>
              view[w].value.count = Count(claim[w].key)

IInv == TypeOK /\ Current /\ Requested /\ ClaimSound /\ SnapshotSound

LEMMA CountType ==
    ASSUME DataTypeOK, NEW p \in Projections
    PROVE  Count(p) \in Nat /\ Count(p) = Exact(p).count
BY DEF Count, Exact, DataTypeOK

\* What a step of a writer looks like to everybody else: the row of p keeps its
\* owner and its published revision and loses its readiness, or (reset) it is
\* ready again with new values; a count changes only under a new revision.
LEMMA InvalidateSound ==
    ASSUME IInv, NEW P \in SUBSET Projections, NEW immediate \in BOOLEAN,
           Invalidate(P, immediate),
           UNCHANGED <<summary, workerVars>>,
           \A p \in Projections \ P : Count(p)' = Count(p)
    PROVE  Current' /\ Requested' /\ ClaimSound' /\ SnapshotSound'
<1> USE DEF IInv, TypeOK
<1>1. \A p \in P : /\ row'[p].requested = row[p].requested + 1
                   /\ row'[p].published = row[p].published
                   /\ row'[p].status \in {"running", "queued"}
                   /\ row'[p].owner = row[p].owner
    BY DEF Invalidate, Invalidated
<1>2. \A p \in Projections \ P : row'[p] = row[p]
    BY DEF Invalidate
<1>3. \A p \in Projections : row[p].requested \in Nat /\ row[p].published \in Nat
    BY DEF RowTypeOK, Row
<1>4. \A w \in Processes : /\ claim[w].key \in Projections
                           /\ claim[w].revision \in Nat
                           /\ view[w].row.requested \in Nat
    BY DEF WorkerTypeOK, Row
<1>5. Current'
    BY <1>1, <1>2 DEF Current
<1>6. Requested'
    BY <1>1, <1>2, <1>3 DEF Requested
<1>7. \A w \in Processes : Mine(w)' <=> Mine(w)
    BY <1>1, <1>2, <1>4 DEF Mine
<1>8. ClaimSound'
    BY <1>1, <1>2, <1>3, <1>4, <1>7 DEF ClaimSound
<1>9. SnapshotSound'
    BY <1>1, <1>2, <1>3, <1>4 DEF SnapshotSound
<1> QED
    BY <1>5, <1>6, <1>8, <1>9

LEMMA WriteSound ==
    ASSUME IInv, Write
    PROVE  Current' /\ Requested' /\ ClaimSound' /\ SnapshotSound'
<1> DEFINE Sound == Current /\ Requested /\ ClaimSound /\ SnapshotSound
<1>1. ASSUME NEW n \in 0..1, StoreMessages(n) PROVE Sound'
    BY <1>1, InvalidateSound DEF StoreMessages
<1>2. ASSUME NEW i \in Indexes, Activate(i) PROVE Sound'
  <2>1. \A p \in Projections : Count(p)' = Count(p)
      BY <1>2 DEF Activate, Count
  <2> QED
      BY <1>2, <2>1, InvalidateSound DEF Activate
<1>3. ASSUME NEW i \in Indexes, NEW n \in 0..messages, PublishIndex(i, n) PROVE Sound'
  <2>1. \A p \in Projections \ {i} : Count(p)' = Count(p)
      BY <1>3 DEF PublishIndex, Count, IInv, TypeOK, DataTypeOK
  <2> QED
      BY <1>3, <2>1, InvalidateSound DEF PublishIndex
<1>4. ASSUME NEW P \in SUBSET Projections, RequestRefresh(P) PROVE Sound'
  <2>1. \A p \in Projections : Count(p)' = Count(p)
      BY <1>4 DEF RequestRefresh, Count
  <2> QED
      BY <1>4, <2>1, InvalidateSound DEF RequestRefresh
<1>5. ASSUME ResetArchive PROVE Sound'
  <2> USE DEF IInv, TypeOK
  <2>1. \A p \in Projections : /\ row'[p].requested = row[p].requested + 1
                               /\ row'[p].published = row[p].requested + 1
                               /\ row'[p].owner = NoOwner
                               /\ row[p].requested \in Nat
      BY <1>5 DEF ResetArchive, RowTypeOK, Row
  <2>2. UNCHANGED workerVars
      BY <1>5 DEF ResetArchive
  <2>3. \A w \in Processes : /\ claim[w].key \in Projections
                             /\ claim[w].revision \in Nat
                             /\ view[w].row.requested \in Nat
      BY DEF WorkerTypeOK, Row
  <2>4. Current'
      BY <1>5 DEF ResetArchive, Current, Count
  <2>5. Requested'
      BY <2>1 DEF Requested
  <2>6. ClaimSound'
      BY <2>1, <2>2, <2>3, ReadModelsAssumption DEF ClaimSound, Mine
  <2>7. SnapshotSound'
      BY <2>1, <2>2, <2>3 DEF SnapshotSound
  <2> QED
      BY <2>4, <2>5, <2>6, <2>7
<1> QED
    BY <1>1, <1>2, <1>3, <1>4, <1>5 DEF Write

\* The facts about types that the steps below use.
LEMMA Types ==
    ASSUME TypeOK
    PROVE  /\ \A p \in Projections : /\ row[p].requested \in Nat
                                     /\ row[p].published \in Nat
           /\ \A w \in Processes : /\ claim[w].key \in Projections
                                   /\ claim[w].revision \in Nat
                                   /\ view[w].row.requested \in Nat
BY DEF TypeOK, RowTypeOK, WorkerTypeOK, Row

\* A step of worker w that ends its claim, or keeps it without a snapshot, and
\* leaves the revisions and the owners of all rows to the other workers.
LEMMA WorkerSound ==
    ASSUME IInv, NEW w \in Processes, NEW phase,
           phase \notin {"claimed", "computed"},
           phase \in Busy => UNCHANGED <<claim, view>> /\ pc[w] \in Busy,
           pc' = [pc EXCEPT ![w] = phase],
           \A v \in Processes \ {w} : claim'[v] = claim[v] /\ view'[v] = view[v],
           \A p \in Projections : /\ row'[p].requested >= row[p].requested
                                  /\ row'[p].requested \in Nat
                                  /\ row'[p].owner # NoOwner => row'[p] = row[p],
           UNCHANGED dataVars
    PROVE  ClaimSound' /\ SnapshotSound'
<1> USE DEF IInv
<1>1. \A p \in Projections : row[p].requested \in Nat /\ row[p].published \in Nat
    BY Types
<1>2. \A v \in Processes : /\ claim[v].key \in Projections
                           /\ claim[v].revision \in Nat
                           /\ view[v].row.requested \in Nat
    BY Types
<1>3. \A v \in Processes \ {w} : pc'[v] = pc[v]
    BY DEF TypeOK, WorkerTypeOK
<1>4. pc'[w] = phase
    BY DEF TypeOK, WorkerTypeOK
<1>5. ASSUME NEW v \in Processes, pc'[v] \in Busy
      PROVE  /\ claim'[v].revision <= row'[claim'[v].key].requested
             /\ Mine(v)' => row'[claim'[v].key].published <= claim'[v].revision
  <2>1. pc[v] \in Busy /\ claim'[v] = claim[v]
      BY <1>3, <1>4, <1>5
  <2>2. claim[v].revision <= row[claim[v].key].requested
      BY <2>1 DEF ClaimSound
  <2>3. claim'[v].revision <= row'[claim'[v].key].requested
      BY <1>1, <1>2, <2>1, <2>2
  <2>4. ASSUME Mine(v)' PROVE row'[claim'[v].key].published <= claim'[v].revision
    <3>1. row'[claim[v].key] = row[claim[v].key] /\ Mine(v)
        BY <1>2, <2>1, <2>4, ReadModelsAssumption DEF Mine
    <3> QED
        BY <2>1, <3>1 DEF ClaimSound
  <2> QED
      BY <2>3, <2>4
<1>6. ASSUME NEW v \in Processes, pc'[v] = "computed"
      PROVE  /\ view'[v].row.requested <= row'[claim'[v].key].requested
             /\ view'[v].row.requested = row'[claim'[v].key].requested =>
                   view'[v].value.count = Count(claim[v].key)'
  <2>1. v # w /\ pc[v] = "computed" /\ claim'[v] = claim[v] /\ view'[v] = view[v]
      BY <1>3, <1>4, <1>6
  <2>3. /\ view[v].row.requested <= row[claim[v].key].requested
        /\ view[v].row.requested = row[claim[v].key].requested =>
              view[v].value.count = Count(claim[v].key)
      BY <2>1 DEF SnapshotSound
  <2>4. /\ view[v].row.requested <= row'[claim[v].key].requested
        /\ view[v].row.requested = row'[claim[v].key].requested =>
              view[v].row.requested = row[claim[v].key].requested
      BY <1>1, <1>2, <2>3
  <2>5. Count(claim[v].key)' = Count(claim[v].key)
      BY <1>2, <2>1 DEF Count
  <2> QED
      BY <2>1, <2>3, <2>4, <2>5
<1>7. ClaimSound'
    BY <1>5 DEF ClaimSound, Mine
<1>8. SnapshotSound'
    BY <1>6 DEF SnapshotSound
<1> QED
    BY <1>7, <1>8

\* The step of a worker that publishes: the row did not change since the
\* snapshot, hence the snapshot is exact, and the claim is not ahead of the row.
LEMMA PublishSound ==
    ASSUME IInv, NEW w \in Processes, Publish(w)
    PROVE  Current' /\ Requested' /\ ClaimSound' /\ SnapshotSound'
<1> USE DEF IInv
<1> DEFINE p == claim[w].key
<1>1. p \in Projections /\ row[p].requested \in Nat /\ claim[w].revision \in Nat
    BY Types
<1>2. /\ claim[w].revision <= row[p].requested
      /\ view[w].value.count = Count(p)
    BY <1>1 DEF Publish, Unchanged, Busy, ClaimSound, SnapshotSound
<1>3. /\ row'[p].requested = row[p].requested
      /\ row'[p].published = claim[w].revision
      /\ row'[p].owner = NoOwner
      /\ row'[p].status = "ready" => claim[w].revision >= row[p].requested
      /\ summary'[p] = view[w].value
    BY <1>1 DEF Publish, Complete, TypeOK, RowTypeOK, DataTypeOK
<1>4. \A q \in Projections \ {p} : row'[q] = row[q] /\ summary'[q] = summary[q]
    BY <1>1 DEF Publish, Complete, TypeOK, RowTypeOK, DataTypeOK
<1>5. \A q \in Projections : Count(q)' = Count(q)
    BY DEF Publish, Complete, Count
<1>6. Current'
    BY <1>1, <1>2, <1>3, <1>4, <1>5 DEF Current
<1>7. Requested'
    BY <1>1, <1>2, <1>3, <1>4 DEF Requested
<1>8. ClaimSound' /\ SnapshotSound'
  <2>1. /\ pc' = [pc EXCEPT ![w] = "idle"]
        /\ \A v \in Processes \ {w} : claim'[v] = claim[v] /\ view'[v] = view[v]
        /\ UNCHANGED dataVars
      BY DEF Publish, Complete, Leave, TypeOK, WorkerTypeOK
  <2>2. \A q \in Projections : /\ row'[q].requested >= row[q].requested
                               /\ row'[q].requested \in Nat
                               /\ row'[q].owner # NoOwner => row'[q] = row[q]
      BY <1>1, <1>3, <1>4, Types
  <2> QED
      BY <2>1, <2>2, WorkerSound DEF Busy
<1> QED
    BY <1>6, <1>7, <1>8

LEMMA ClaimStepSound ==
    ASSUME IInv, NEW w \in Processes, NEW p \in Projections, Claim(w, p)
    PROVE  Current' /\ Requested' /\ ClaimSound' /\ SnapshotSound'
<1> USE DEF IInv
<1>1. /\ row'[p].requested = row[p].requested
      /\ row'[p].published = row[p].published
      /\ row'[p].status = "running"
      /\ \A q \in Projections \ {p} : row'[q] = row[q]
    BY DEF Claim, TypeOK, RowTypeOK, Row
<1>2. /\ claim'[w] = [key |-> p, revision |-> row[p].requested]
      /\ pc'[w] = "claimed"
      /\ \A v \in Processes \ {w} : pc'[v] = pc[v] /\ pc[v] \notin Busy
    BY DEF Claim, LockTaken, TypeOK, WorkerTypeOK
<1>3. \A q \in Projections : Count(q)' = Count(q)
    BY DEF Claim, Count
<1>4. Current'
    BY <1>1, <1>3 DEF Claim, Current
<1>5. Requested'
    BY <1>1 DEF Requested
<1>6. ClaimSound'
    BY <1>1, <1>2, Types DEF ClaimSound, Requested, Mine
<1>7. SnapshotSound'
    BY <1>2 DEF SnapshotSound, Busy
<1> QED
    BY <1>4, <1>5, <1>6, <1>7

LEMMA ComputeSound ==
    ASSUME IInv, NEW w \in Processes, Compute(w)
    PROVE  Current' /\ Requested' /\ ClaimSound' /\ SnapshotSound'
<1> USE DEF IInv
<1> DEFINE p == claim[w].key
<1>1. p \in Projections /\ row[p].requested \in Nat
    BY Types
<1>2. /\ view'[w].row = row[p]
      /\ view'[w].value.count = Count(p)
      /\ \A v \in Processes \ {w} : view'[v] = view[v] /\ pc'[v] = pc[v]
    BY <1>1, ProjectedType, CountType DEF Compute, TypeOK, WorkerTypeOK
<1>3. /\ pc[w] \in Busy
      /\ \A v \in Processes : pc'[v] \in Busy => pc[v] \in Busy
    BY DEF Compute, Busy, TypeOK, WorkerTypeOK
<1>4. UNCHANGED <<row, claim, summary, dataVars>>
    BY DEF Compute
<1>5. Current' /\ Requested'
    BY <1>4 DEF Current, Requested, Count
<1>6. ClaimSound'
    BY <1>3, <1>4 DEF ClaimSound, Mine
<1>7. SnapshotSound'
    BY <1>1, <1>2, <1>4 DEF SnapshotSound, Count
<1> QED
    BY <1>5, <1>6, <1>7

\* What a worker that gives up does to the rows.
LEMMA GiveUpRow ==
    ASSUME TypeOK, NEW w \in Processes, NEW end \in {"queued", "failed"}, GiveUp(w, end),
           NEW p \in Projections
    PROVE  \/ row'[p] = row[p]
           \/ /\ row'[p].requested = row[p].requested
              /\ row'[p].published = row[p].published
              /\ row'[p].owner = NoOwner
              /\ row'[p].status # "ready"
<1> DEFINE k == claim[w].key
           x == [row[k] EXCEPT !.status = end, !.owner = NoOwner]
<1>1. k \in Projections /\ row \in [Projections -> Row]
    BY DEF TypeOK, RowTypeOK, WorkerTypeOK
<1>2. /\ x.requested = row[k].requested
      /\ x.published = row[k].published
      /\ x.owner = NoOwner
      /\ x.status # "ready"
    BY <1>1 DEF Row
<1>3. row' = row \/ row' = [row EXCEPT ![k] = x]
    BY DEF GiveUp
<1> HIDE DEF x
<1> QED
    BY <1>1, <1>2, <1>3

\* Every other step of a worker: it starts, gives up or dies. No projection
\* becomes ready, and no row changes but for losing its owner.
LEMMA OtherWorkSound ==
    ASSUME IInv, NEW w \in Processes,
           \/ Start(w) \/ Superseded(w) \/ LeaseLost(w) \/ Raise(w)
           \/ RequeueSuperseded(w) \/ RecordFailure(w) \/ Disconnect(w) \/ Crash(w)
    PROVE  Current' /\ Requested' /\ ClaimSound' /\ SnapshotSound'
<1> USE DEF IInv
<1>1. \A p \in Projections : /\ row[p].requested \in Nat
                             /\ row[p].published \in Nat
    BY Types
<1>2. claim[w].key \in Projections
    BY Types
<1>3. UNCHANGED <<summary, dataVars>>
    BY DEF Start, Superseded, LeaseLost, Raise, RequeueSuperseded, RecordFailure, GiveUp,
           Disconnect, Crash
<1>4. \A p \in Projections :
        \/ row'[p] = row[p]
        \/ /\ row'[p].requested >= row[p].requested
           /\ row'[p].requested \in Nat
           /\ row'[p].published <= row[p].published
           /\ row'[p].published \in Nat
           /\ row'[p].owner = NoOwner
           /\ row'[p].status # "ready"
  <2>1. CASE Start(w)
      BY <1>1, <2>1 DEF Start, TypeOK, RowTypeOK
  <2>2. CASE RequeueSuperseded(w) \/ RecordFailure(w)
    <3>1. PICK end \in {"queued", "failed"} : GiveUp(w, end)
        BY <2>2 DEF RequeueSuperseded, RecordFailure
    <3> QED
        BY <1>1, <3>1, GiveUpRow
  <2>3. CASE Superseded(w) \/ LeaseLost(w) \/ Raise(w) \/ Disconnect(w) \/ Crash(w)
      BY <2>3 DEF Superseded, LeaseLost, Raise, Disconnect, Crash
  <2> QED
      BY <2>1, <2>2, <2>3
<1>5. Current'
    BY <1>3, <1>4 DEF Current, Count
<1>6. Requested'
    BY <1>1, <1>4 DEF Requested
<1>7. PICK phase \in {"idle", "dead", "superseded", "failed"} :
        /\ pc' = [pc EXCEPT ![w] = phase]
        /\ phase \in Busy => UNCHANGED <<claim, view>> /\ pc[w] \in Busy
        /\ \A v \in Processes \ {w} : claim'[v] = claim[v] /\ view'[v] = view[v]
  <2>1. CASE Start(w)
      BY <2>1 DEF Start, Busy
  <2>2. CASE Superseded(w) \/ LeaseLost(w) \/ Raise(w)
      BY <2>2 DEF Superseded, LeaseLost, Raise, Busy
  <2>3. ASSUME NEW phase \in {"idle", "dead"}, Leave(w, phase)
        PROVE  /\ pc' = [pc EXCEPT ![w] = phase]
               /\ phase \notin Busy
               /\ \A v \in Processes \ {w} : claim'[v] = claim[v] /\ view'[v] = view[v]
      BY <2>3 DEF Leave, Busy, TypeOK, WorkerTypeOK
  <2>4. CASE RequeueSuperseded(w) \/ RecordFailure(w) \/ Disconnect(w)
    <3>1. Leave(w, "idle")
        BY <2>4 DEF RequeueSuperseded, RecordFailure, GiveUp, Disconnect
    <3> QED
        BY <2>3, <3>1
  <2>5. CASE Crash(w)
    <3>1. Leave(w, "dead")
        BY <2>5 DEF Crash
    <3> QED
        BY <2>3, <3>1
  <2> QED
      BY <2>1, <2>2, <2>4, <2>5
<1>8. \A p \in Projections : /\ row'[p].requested >= row[p].requested
                             /\ row'[p].requested \in Nat
                             /\ row'[p].owner # NoOwner => row'[p] = row[p]
    BY <1>1, <1>4
<1>9. ClaimSound' /\ SnapshotSound'
    BY <1>3, <1>7, <1>8, WorkerSound
<1> QED
    BY <1>5, <1>6, <1>9

-----------------------------------------------------------------------------
(* Theorems. *)

LEMMA InitIInv == Init => IInv
<1> SUFFICES ASSUME Init PROVE IInv
    OBVIOUS
<1>1. TypeOK
    BY InitTypeOK
<1>2. Current /\ Requested
    BY DEF Init, Current, Requested, Count
<1>3. ClaimSound /\ SnapshotSound
    BY DEF Init, ClaimSound, SnapshotSound, Busy
<1> QED
    BY <1>1, <1>2, <1>3 DEF IInv

LEMMA NextIInv == IInv /\ [Next]_vars => IInv'
<1> SUFFICES ASSUME IInv, [Next]_vars PROVE IInv'
    OBVIOUS
<1> DEFINE Sound == Current /\ Requested /\ ClaimSound /\ SnapshotSound
<1>1. TypeOK'
    BY NextType DEF IInv
<1>2. ASSUME Write PROVE Sound'
    BY <1>2, WriteSound
<1>3. ASSUME NEW w \in Processes, Work(w) \/ Raise(w) \/ Disconnect(w) \/ Crash(w)
      PROVE  Sound'
    BY <1>3, PublishSound, ClaimStepSound, ComputeSound, OtherWorkSound DEF Work
<1>4. ASSUME UNCHANGED <<dataVars, row, summary, workerVars>> PROVE Sound'
  <2>1. Current' /\ Requested'
      BY <1>4 DEF IInv, Current, Requested, Count
  <2>2. ClaimSound' /\ SnapshotSound'
      BY <1>4 DEF IInv, ClaimSound, SnapshotSound, Mine, Count
  <2> QED
      BY <2>1, <2>2
<1>5. ASSUME \/ UNCHANGED vars
             \/ \E p \in Projections : ExpireLease(p) \/ Elapse(p)
             \/ \E r \in Readers : Read(r)
      PROVE  UNCHANGED <<dataVars, row, summary, workerVars>>
    BY <1>5 DEF ExpireLease, Elapse, Read, ReadValues, ReadMetadata
<1>6. Sound'
    BY <1>2, <1>3, <1>4, <1>5 DEF Next
<1> QED
    BY <1>1, <1>6 DEF IInv

\* A projection whose row says that it is current is exact, for any number of
\* writers, resets, processes, lost leases and takeovers.
THEOREM FreshnessIsExact == Spec => []FreshIsExact
<1>1. IInv => FreshIsExact
    BY CountType DEF IInv, TypeOK, Current, Stale, FreshIsExact
<1> QED
    BY <1>1, InitIInv, NextIInv, PTL DEF Spec

\* No interleaving of writers and refreshes loses an invalidation.
THEOREM InvalidationsKept == Spec => []NoLostInvalidation
<1>1. IInv => NoLostInvalidation
    BY DEF IInv, Current, NoLostInvalidation
<1> QED
    BY <1>1, InitIInv, NextIInv, PTL DEF Spec

LEMMA StepAdvances ==
    ASSUME IInv, [Next]_vars, NEW p \in Projections, outdated' = outdated
    PROVE  row'[p].published >= row[p].published
<1> USE DEF IInv
<1>1. \A q \in Projections : row[q].requested \in Nat /\ row[q].published \in Nat
    BY Types
<1>2. ASSUME NEW P \in SUBSET Projections, NEW immediate \in BOOLEAN,
             Invalidate(P, immediate)
      PROVE  row'[p].published = row[p].published
    BY <1>2 DEF Invalidate, Invalidated
<1>3. CASE Write
  <2>1. CASE ResetArchive
    <3>1. row'[p].published = row[p].requested + 1
        BY <2>1 DEF ResetArchive
    <3>2. row[p].published <= row[p].requested
        BY DEF Requested
    <3> QED
        BY <1>1, <3>1, <3>2
  <2>2. CASE ~ResetArchive
    <3>1. PICK P \in SUBSET Projections, immediate \in BOOLEAN : Invalidate(P, immediate)
        BY <1>3, <2>2 DEF Write, StoreMessages, Activate, PublishIndex, RequestRefresh
    <3> QED
        BY <1>1, <1>2, <3>1
  <2> QED
      BY <2>1, <2>2
<1>4. ASSUME NEW w \in Processes, Publish(w)
      PROVE  row'[p].published >= row[p].published
  <2>1. /\ row[claim[w].key].published <= claim[w].revision
        /\ claim[w].key \in Projections
      BY <1>4, Types DEF Publish, ClaimSound, Busy
  <2> QED
      BY <1>1, <1>4, <2>1 DEF Publish, Complete, TypeOK, RowTypeOK
<1>5. ASSUME NEW w \in Processes,
             Work(w) \/ Raise(w) \/ Disconnect(w) \/ Crash(w), ~Publish(w)
      PROVE  row'[p].published = row[p].published
  <2>1. CASE Start(w)
      BY <2>1 DEF Start, TypeOK, DataTypeOK
  <2>2. ASSUME NEW q \in Projections, Claim(w, q)
        PROVE  row'[p].published = row[p].published
      BY <2>2 DEF Claim, TypeOK, RowTypeOK, Row
  <2>3. ASSUME NEW end \in {"queued", "failed"}, GiveUp(w, end)
        PROVE  row'[p].published = row[p].published
      BY <2>3, GiveUpRow
  <2>4. CASE \/ Compute(w) \/ Superseded(w) \/ LeaseLost(w) \/ Raise(w)
             \/ Disconnect(w) \/ Crash(w)
      BY <2>4 DEF Compute, Superseded, LeaseLost, Raise, Disconnect, Crash
  <2> QED
      BY <1>5, <2>1, <2>2, <2>3, <2>4 DEF Work, RequeueSuperseded, RecordFailure
<1>6. CASE \/ UNCHANGED vars
           \/ \E q \in Projections : ExpireLease(q) \/ Elapse(q)
           \/ \E r \in Readers : Read(r)
  <2>1. row' = row
      BY <1>6 DEF ExpireLease, Elapse, Read, ReadValues, ReadMetadata
  <2> QED
      BY <1>1, <2>1
<1> QED
    BY <1>1, <1>3, <1>4, <1>5, <1>6 DEF Next

\* A published revision is only ever replaced by the same or a later one, but
\* for the restart under a new schema version.
THEOREM PublicationOnlyAdvances == Spec => PublicationAdvances
<1>1. IInv /\ [Next]_vars =>
        [\A p \in Projections :
            row'[p].published >= row[p].published \/ outdated # outdated']_vars
    BY StepAdvances
<1> QED
    BY <1>1, InitIInv, NextIInv, PTL DEF Spec, PublicationAdvances
=============================================================================
