-------------------------- MODULE DiscordBotSyncProofs --------------------------
(***************************************************************************)
(* What holds of DiscordBotSync for any number of handlers, messages, pages *)
(* and faults.                                                              *)
(***************************************************************************)
EXTENDS DiscordBotSync, FiniteSetTheorems, TLAPS

USE DEF vars, sessionVars, archiveVars, queueVars, At

-----------------------------------------------------------------------------
(* Cursors. *)

LEMMA MinDef ==
    ASSUME NEW S \in SUBSET Nat, S # {}
    PROVE  Min(S) \in S /\ \A y \in S : Min(S) =< y
<1>1. PICK x \in S : \A y \in S : <<y, x>> \notin OpToRel(<, Nat)
    BY NatLessThanWellFounded, WFMin, Zenon
<1>2. ASSUME NEW y \in S PROVE x =< y
  <2>1. ~(y < x)
      BY <1>1 DEF OpToRel
  <2> QED
      BY <2>1
<1> QED
    BY <1>2 DEF Min

LEMMA MaxDef ==
    ASSUME NEW n \in Nat, NEW S \in SUBSET (0..n), S # {}
    PROVE  Max(S) \in S /\ \A y \in S : Max(S) >= y
<1> DEFINE D == {n - x : x \in S}
<1>1. D \in SUBSET Nat /\ D # {}
  <2>1. \A x \in S : n - x \in Nat
      OBVIOUS
  <2>2. D # {}
      OBVIOUS
  <2> QED
      BY <2>1, <2>2
<1> HIDE DEF D
<1>2. Min(D) \in D /\ \A e \in D : Min(D) =< e
    BY <1>1, MinDef
<1>3. PICK x \in S : Min(D) = n - x
    BY <1>2 DEF D
<1>4. ASSUME NEW y \in S PROVE x >= y
  <2>1. Min(D) =< n - y
      BY <1>2 DEF D
  <2> QED
      BY <2>1, <1>3
<1> QED
    BY <1>4 DEF Max

\* The messages that a page of a history may hold.
Below(edge) == {m \in 1..posted : edge = 0 \/ m < edge}

\* A history page that is short holds everything below its edge.
LEMMA HistoryPage ==
    ASSUME posted \in Nat, NEW edge \in Nat, PageSize \in Nat \ {0}
    PROVE  LET page == PageOf("history", edge) IN
           /\ page \subseteq Below(edge)
           /\ page = {} => Below(edge) = {}
           /\ Cardinality(page) < PageSize => page = Below(edge)
<1> DEFINE page == PageOf("history", edge)
           above(m) == {n \in Below(edge) : n > m}
<1>1. page = {m \in Below(edge) : Cardinality(above(m)) < PageSize}
    BY DEF PageOf, Below
<1>2. Below(edge) \in SUBSET (0..posted) /\ Below(edge) \subseteq 1..posted
    BY DEF Below
<1> HIDE DEF page
<1>3. ASSUME Below(edge) # {} PROVE page # {}
  <2>1. /\ Max(Below(edge)) \in Below(edge)
        /\ \A y \in Below(edge) : Max(Below(edge)) >= y
      BY <1>2, <1>3, MaxDef
  <2>2. above(Max(Below(edge))) = {}
      BY <1>2, <2>1
  <2>3. Cardinality(above(Max(Below(edge)))) = 0
      BY <2>2, FS_EmptySet
  <2> QED
      BY <1>1, <2>1, <2>3
<1>4. ASSUME Cardinality(page) < PageSize, Below(edge) \ page # {} PROVE FALSE
  <2> DEFINE m == Max(Below(edge) \ page)
  <2>1. m \in Below(edge) \ page /\ \A y \in Below(edge) \ page : m >= y
      BY <1>2, <1>4, MaxDef
  <2> HIDE DEF m
  <2>2. above(m) \subseteq page
      BY <1>2, <2>1
  <2>3. IsFiniteSet(page)
    <3>1. IsFiniteSet(1..posted)
        BY FS_Interval
    <3>2. page \in SUBSET (1..posted)
        BY <1>1, <1>2
    <3> QED
        BY <3>1, <3>2, FS_Subset
  <2>4. Cardinality(above(m)) <= Cardinality(page)
      BY <2>2, <2>3, FS_Subset
  <2>5. Cardinality(above(m)) \in Nat /\ Cardinality(page) \in Nat
      BY <2>2, <2>3, FS_Subset, FS_CardinalityType
  <2>6. Cardinality(above(m)) < PageSize
      BY <1>4, <2>4, <2>5
  <2> QED
      BY <1>1, <2>1, <2>6
<1> QED
    BY <1>1, <1>3, <1>4 DEF page

LEMMA PageType ==
    ASSUME NEW kind, NEW edge
    PROVE  PageOf(kind, edge) \subseteq 1..posted
BY DEF PageOf

-----------------------------------------------------------------------------
(* The inductive invariant. What a handler, a queued write and the two states   *)
(* must satisfy is said of a record r and of the surroundings E it lives in, so *)
(* that one lemma shows that nothing another handler does takes it away.        *)

Steps == {"none", "refresh", "read", "open", "create", "fetch", "import", "finish",
          "failed", "raise", "saving"}
Nexts == {"none", "fetch", "create", "finish", "refresh", "end", "raise"}

Handler == [kind: {"none", "load", "history", "catchup", "flush", "stop"},
            pc: Steps, next: Nexts, state: State, session: Nat, edge: 0..MaxId,
            page: SUBSET (1..MaxId), online: BOOLEAN, command: BOOLEAN, guarded: BOOLEAN]
Write == [task: Tasks, state: State]

Surroundings == [posted: 0..MaxId, stored: SUBSET (1..MaxId), created: Nat,
                 running: SUBSET Nat, faulty: BOOLEAN, saved: BOOLEAN]

\* What is there, for a handler to rely on.
Now == [posted |-> posted, stored |-> stored, created |-> created, running |-> running,
        faulty |-> faults # 0, saved |-> db.known]

Grows(E, F) ==
    /\ E.posted <= F.posted
    /\ E.stored \subseteq F.stored
    /\ E.created <= F.created
    /\ \A s \in F.running : s \in E.running \/ s > E.created
    /\ E.faulty => F.faulty
    /\ E.saved => F.saved

\* The cursors of state x are archived, and so is a history that it calls complete.
Sound(x, S) ==
    /\ x.done => 1..x.oldest \subseteq S
    /\ {x.oldest, x.newest} \ {0} \subseteq S

Syncs(r) == r.kind \in {"history", "catchup"}

\* The paging of a history never passes the oldest cursor.
EdgeFits(r, x) == r.kind = "history" => r.edge = 0 \/ x.oldest <= r.edge

\* The steps that a handler of each kind can be at, and when its catch block is in
\* force; only a batch has messages in hand.
SyncShape(r) ==
    /\ r.page = {}
    /\ r.pc = "refresh" => r.command
    /\ \/ r.pc \in {"open", "create", "refresh", "read"} /\ r.next = "none"
          /\ r.session = 0 /\ ~r.guarded
       \/ r.pc \in {"fetch", "finish"} /\ r.next = "none" /\ r.guarded
       \/ r.pc \in {"failed", "raise"} /\ r.next = "none"
       \/ r.pc = "saving" /\ r.next = "create" /\ r.session = 0 /\ ~r.guarded
       \/ r.pc = "saving" /\ r.next = "finish" /\ r.guarded
       \/ r.pc = "saving" /\ r.next \in {"fetch", "refresh", "end", "raise"}
FlushShape(r) ==
    /\ ~r.guarded
    /\ \/ r.pc = "create" /\ r.next = "none" /\ r.session = 0
       \/ r.pc \in {"import", "finish", "failed"} /\ r.next = "none"
       \/ r.pc = "saving" /\ r.next = "end"
OtherShape(r) == r.session = 0 /\ r.page = {} /\ ~r.guarded

Shape(r) ==
    \/ r = NoTask
    \/ r.kind = "load" /\ r.pc \in {"refresh", "read"} /\ r.next = "none" /\ OtherShape(r)
    \/ r.kind = "stop" /\ r.pc = "saving" /\ r.next = "end" /\ OtherShape(r)
    \/ r.kind = "flush" /\ FlushShape(r)
    \/ Syncs(r) /\ SyncShape(r)

\* A handler that is past the end of its session.
Past(r) == r.pc = "raise" \/ r.next \in {"end", "raise", "refresh"}

HandlerOK(r, E) ==
    /\ r \in Handler
    /\ Shape(r)
    /\ r.page \subseteq 1..E.posted
    /\ Sound(r.state, E.stored)
    /\ r.pc = "fetch" => EdgeFits(r, r.state)
    /\ Syncs(r) /\ r.pc = "refresh" => E.saved
    /\ Syncs(r) /\ r.pc # "refresh" => r.state.known
    /\ r.kind = "flush" /\ r.pc \in {"finish", "saving"} => r.page \subseteq E.stored
    /\ r.kind = "flush" /\ r.pc = "failed" => E.faulty
    /\ r.session <= E.created
    /\ E.faulty \/ (Past(r) => r.session \notin E.running)

\* A write that handler r waits for.
EntryOK(r, x, S) ==
    /\ Sound(x, S)
    /\ x.known \/ (r.next = "end" /\ Syncs(r))
    /\ r.next = "fetch" => EdgeFits(r, x)
    /\ r.kind = "stop" => x.known /\ ~x.tracking

Base ==
    /\ Now \in Surroundings
    /\ stored \subseteq 1..posted
    /\ running \subseteq 1..created
    /\ db \in State /\ mem \in State
    /\ Sound(db, stored) /\ Sound(mem, stored)
    /\ buffer \subseteq 1..posted
    /\ conn \in {"off", "login", "loaded", "on", "closing"}
    /\ told \in {"nothing", "stopped"} \cup Tasks
    /\ faults \in Nat

Handlers == task \in [Tasks -> Handler] /\ \A t \in Tasks : HandlerOK(task[t], Now)

\* The queue holds one write of each saving handler, and an executed write at its
\* head is what the backend holds.
Queue ==
    /\ writes \in Seq(Write)
    /\ sent \in BOOLEAN
    /\ \A k \in 1..Len(writes) :
          /\ task[writes[k].task].pc = "saving"
          /\ EntryOK(task[writes[k].task], writes[k].state, stored)
    /\ \A k, l \in 1..Len(writes) : writes[k].task = writes[l].task => k = l
    /\ \A t \in Tasks : task[t].pc = "saving" => \E k \in 1..Len(writes) : writes[k].task = t
    /\ sent => writes # <<>> /\ (writes[1].state.known => db = writes[1].state)

Held == faults = 0 => \A s \in running : \E t \in Tasks : task[t].session = s

\* Before the states are loaded again after a crash nothing writes a state.
Quiet ==
    /\ mem = NoState
    /\ writes = <<>>
    /\ buffer = {}
    /\ conn \in {"off", "login"}
    /\ \A t \in Tasks : task[t].kind \in {"none", "load"}

Stops ==
    /\ \A t, u \in Tasks : task[t].kind = "stop" /\ task[u].kind = "stop" => t = u
    /\ told \in Tasks => task[told].kind = "stop"
    /\ told = "stopped" => /\ ~db.tracking
                           /\ (mem.known /\ ~mem.tracking) \/ Quiet
                           /\ \A t \in Tasks : task[t].kind # "stop"

IInv == Base /\ Handlers /\ Queue /\ Held /\ Stops

Core == Base /\ Handlers /\ Queue /\ Held

-----------------------------------------------------------------------------
(* What the operators of the model keep. *)

LEMMA GrowsKeeps ==
    ASSUME NEW E \in Surroundings, NEW F \in Surroundings, NEW r,
           Grows(E, F), HandlerOK(r, E)
    PROVE  HandlerOK(r, F)
<1>1. r \in Handler /\ r.state.oldest \in Nat /\ r.page \subseteq 1..F.posted
    BY DEF HandlerOK, Handler, State, Surroundings, Grows
<1>2. Sound(r.state, F.stored)
    BY DEF HandlerOK, Sound, Grows
<1>3. r.session <= F.created
    BY <1>1 DEF HandlerOK, Grows, Handler, Surroundings
<1>4. F.faulty \/ (Past(r) => r.session \notin F.running)
    BY <1>1 DEF HandlerOK, Grows, Handler, Surroundings
<1> QED
    BY <1>1, <1>2, <1>3, <1>4 DEF HandlerOK, Grows

LEMMA EntryGrows ==
    ASSUME NEW r, NEW x, NEW S, NEW T, S \subseteq T, EntryOK(r, x, S)
    PROVE  EntryOK(r, x, T)
BY DEF EntryOK, Sound

LEMMA NoTaskOK ==
    ASSUME NEW E \in Surroundings, DiscordBotSyncAssumption
    PROVE  HandlerOK(NoTask, E)
<1>1. NoState \in State
    BY DEF NoState, State, DiscordBotSyncAssumption
<1>2. NoTask \in Handler
    BY <1>1 DEF NoTask, Handler, Steps, Nexts, DiscordBotSyncAssumption
<1> QED
    BY <1>2 DEF HandlerOK, Shape, NoTask, NoState, Sound, Syncs, Past, Surroundings

LEMMA PreserveStopKeeps ==
    ASSUME NEW x \in State, mem \in State
    PROVE  /\ PreserveStop(x) \in State
           /\ PreserveStop(x) = [x EXCEPT !.tracking = PreserveStop(x).tracking]
           /\ mem.known /\ ~mem.tracking => ~PreserveStop(x).tracking
           /\ ~x.tracking => ~PreserveStop(x).tracking
BY DEF PreserveStop, State

\* A step that only takes handler t from task[t] to r keeps the others.
LEMMA HandlersStep ==
    ASSUME Now \in Surroundings, Now' \in Surroundings, Grows(Now, Now'), Handlers,
           NEW t \in Tasks, NEW r, HandlerOK(r, Now'),
           task' = [task EXCEPT ![t] = r]
    PROVE  Handlers'
<1>1. ASSUME NEW u \in Tasks PROVE HandlerOK(task'[u], Now')
  <2>1. CASE u = t
      BY <2>1 DEF Handlers
  <2>2. CASE u # t
    <3>1. HandlerOK(task[u], Now) /\ task'[u] = task[u]
        BY <2>2 DEF Handlers
    <3> QED
        BY <3>1, GrowsKeeps
  <2> QED
      BY <2>1, <2>2
<1>2. task' \in [Tasks -> Handler]
    BY DEF Handlers, HandlerOK
<1> QED
    BY <1>1, <1>2 DEF Handlers

LEMMA HandlersRest ==
    ASSUME Now \in Surroundings, Now' \in Surroundings, Grows(Now, Now'), Handlers,
           task' = task
    PROVE  Handlers'
<1>1. ASSUME NEW u \in Tasks PROVE HandlerOK(task[u], Now')
    BY GrowsKeeps DEF Handlers
<1> QED
    BY <1>1 DEF Handlers

LEMMA QueueWrites ==
    ASSUME writes \in Seq(Write), NEW k \in 1..Len(writes)
    PROVE  writes[k].task \in Tasks /\ writes[k].state \in State
<1>1. writes[k] \in Write
    OBVIOUS
<1> QED
    BY <1>1 DEF Write

\* The queue while nothing is saved or executed; only a handler t that does not wait
\* changes.
LEMMA QueueStep ==
    ASSUME Queue, Handlers, stored \subseteq stored', db' = db,
           writes' = writes, sent' = sent,
           NEW t \in Tasks, NEW r, r.pc # "saving", task[t].pc # "saving",
           task' = [task EXCEPT ![t] = r]
    PROVE  Queue'
<1>1. \A k \in 1..Len(writes) : writes[k].task # t /\ writes[k].task \in Tasks
    BY QueueWrites DEF Queue
<1>2. \A u \in Tasks : task'[u] = IF u = t THEN r ELSE task[u]
    BY DEF Handlers
<1>3. ASSUME NEW k \in 1..Len(writes)
      PROVE  /\ task'[writes[k].task].pc = "saving"
             /\ EntryOK(task'[writes[k].task], writes[k].state, stored')
    BY <1>1, <1>2, EntryGrows DEF Queue
<1>4. \A u \in Tasks : task'[u].pc = "saving" => \E k \in 1..Len(writes) : writes[k].task = u
    BY <1>2 DEF Queue
<1> QED
    BY <1>3, <1>4 DEF Queue

LEMMA QueueRest ==
    ASSUME Queue, stored \subseteq stored', db' = db, writes' = writes, sent' = sent,
           task' = task
    PROVE  Queue'
<1>1. ASSUME NEW k \in 1..Len(writes)
      PROVE  EntryOK(task[writes[k].task], writes[k].state, stored')
    BY EntryGrows DEF Queue
<1> QED
    BY <1>1 DEF Queue

\* Handler t puts state x into the queue and waits.
LEMMA QueueSaves ==
    ASSUME Queue, Handlers, stored \subseteq stored', db' = db, sent' = sent,
           NEW t \in Tasks, NEW r, r.pc = "saving", task[t].pc # "saving",
           task' = [task EXCEPT ![t] = r],
           NEW x \in State, EntryOK(r, x, stored'), Enqueue(t, x)
    PROVE  Queue'
<1> DEFINE w == [task |-> t, state |-> x]
<1>1. /\ writes \in Seq(Write) /\ w \in Write
      /\ writes' = Append(writes, w)
    BY DEF Queue, Write, Enqueue
<1>2. /\ writes' \in Seq(Write)
      /\ Len(writes') = Len(writes) + 1 /\ Len(writes) \in Nat
      /\ \A k \in 1..Len(writes) : writes'[k] = writes[k]
      /\ writes'[Len(writes) + 1] = w
    BY <1>1
<1> HIDE DEF w
<1>3. w.task = t /\ w.state = x
    BY DEF w
<1>4. \A k \in 1..Len(writes) : writes[k].task # t /\ writes[k].task \in Tasks
    BY QueueWrites DEF Queue
<1>5. \A u \in Tasks : task'[u] = IF u = t THEN r ELSE task[u]
    BY DEF Handlers
<1>6. ASSUME NEW k \in 1..Len(writes')
      PROVE  /\ task'[writes'[k].task].pc = "saving"
             /\ EntryOK(task'[writes'[k].task], writes'[k].state, stored')
  <2>1. CASE k \in 1..Len(writes)
      BY <2>1, <1>2, <1>4, <1>5, EntryGrows DEF Queue
  <2>2. CASE k = Len(writes) + 1
      BY <2>2, <1>2, <1>3, <1>5
  <2> QED
      BY <2>1, <2>2, <1>2
<1>7. ASSUME NEW k \in 1..Len(writes'), NEW l \in 1..Len(writes'),
             writes'[k].task = writes'[l].task
      PROVE  k = l
    BY <1>2, <1>3, <1>4, <1>7 DEF Queue
<1>8. ASSUME NEW u \in Tasks, task'[u].pc = "saving"
      PROVE  \E k \in 1..Len(writes') : writes'[k].task = u
  <2>1. CASE u = t
      BY <2>1, <1>2, <1>3
  <2>2. CASE u # t
    <3>1. PICK k \in 1..Len(writes) : writes[k].task = u
        BY <2>2, <1>5, <1>8 DEF Queue
    <3> QED
        BY <3>1, <1>2
  <2> QED
      BY <2>1, <2>2
<1>9. sent' => writes' # <<>> /\ (writes'[1].state.known => db' = writes'[1].state)
  <2>1. ASSUME sent PROVE 1 \in 1..Len(writes)
      BY <2>1, <1>1 DEF Queue
  <2> QED
      BY <2>1, <1>2 DEF Queue
<1> QED
    BY <1>2, <1>6, <1>7, <1>8, <1>9 DEF Queue

\* As long as nothing fails, a running session that handler t gives up is one that
\* it closes.
LEMMA HeldStep ==
    ASSUME Held, Handlers, NEW t \in Tasks, NEW r,
           task' = [task EXCEPT ![t] = r],
           faults' = 0 => /\ faults = 0
                          /\ \A s \in running' : \/ r.session = s
                                                 \/ s \in running /\ task[t].session # s
    PROVE  Held'
BY DEF Held, Handlers

-----------------------------------------------------------------------------
(* The steps that change one handler, and at most add one write to the queue. *)

LEMMA Saving ==
    ASSUME Base, posted' \in 0..MaxId, posted <= posted',
           stored \subseteq stored', stored' \subseteq 1..posted',
           created' \in Nat, created <= created',
           running' \subseteq running \cup (created + 1)..created',
           db' \in State, Sound(db', stored'), db.known => db'.known,
           mem' \in State, Sound(mem', stored'), buffer' \subseteq 1..posted',
           conn' \in {"off", "login", "loaded", "on", "closing"},
           told' \in {"nothing", "stopped"} \cup Tasks,
           faults' \in Nat, faults <= faults',
           DiscordBotSyncAssumption
    PROVE  Base' /\ Grows(Now, Now')
<1>1. /\ posted \in Nat /\ created \in Nat /\ running \subseteq 1..created
      /\ db.known \in BOOLEAN /\ db'.known \in BOOLEAN /\ faults \in Nat
    BY DEF Base, Now, Surroundings, State
<1>2. running' \subseteq 1..created'
    BY <1>1
<1>3. Now' \in Surroundings
    BY <1>1, <1>2 DEF Now, Surroundings, DiscordBotSyncAssumption
<1>4. Base'
    BY <1>1, <1>2, <1>3 DEF Base
<1>5. Grows(Now, Now')
    BY <1>1 DEF Grows, Now
<1> QED
    BY <1>4, <1>5

LEMMA Growing ==
    ASSUME Base, posted' \in 0..MaxId, posted <= posted',
           stored \subseteq stored', stored' \subseteq 1..posted',
           created' \in Nat, created <= created',
           running' \subseteq running \cup (created + 1)..created',
           db' = db, mem' \in State, Sound(mem', stored'), buffer' \subseteq 1..posted',
           conn' \in {"off", "login", "loaded", "on", "closing"},
           told' \in {"nothing", "stopped"} \cup Tasks,
           faults' \in Nat, faults <= faults',
           DiscordBotSyncAssumption
    PROVE  Base' /\ Grows(Now, Now')
<1>1. db' \in State /\ Sound(db', stored')
    BY DEF Base, Sound
<1> QED
    BY <1>1, Saving

\* The memory is replaced by another state.
LEMMA Remembering ==
    ASSUME Base, UNCHANGED <<posted, archiveVars, db, buffer, conn, faults>>,
           mem' \in State, Sound(mem', stored),
           told' \in {"nothing", "stopped"} \cup Tasks, DiscordBotSyncAssumption
    PROVE  Base' /\ Grows(Now, Now')
BY Growing DEF Base, Now, Surroundings

LEMMA Resting ==
    ASSUME Base, UNCHANGED <<posted, archiveVars, db, mem, buffer, conn, told, faults>>
    PROVE  Base' /\ Grows(Now, Now')
<1>1. Now' = Now /\ Now \in Surroundings
    BY DEF Base, Now
<1>2. Base'
    BY <1>1 DEF Base
<1> QED
    BY <1>1, <1>2 DEF Grows, Surroundings

LEMMA CoreStep ==
    ASSUME Core, Base', Grows(Now, Now'), db' = db, sent' = sent,
           NEW t \in Tasks, NEW r, task[t].pc # "saving",
           task' = [task EXCEPT ![t] = r], HandlerOK(r, Now'),
           \/ r.pc # "saving" /\ writes' = writes
           \/ /\ r.pc = "saving"
              /\ \E x \in State : EntryOK(r, x, stored') /\ Enqueue(t, x),
           faults' = 0 => /\ faults = 0
                          /\ \A s \in running' : \/ r.session = s
                                                 \/ s \in running /\ task[t].session # s
    PROVE  Core'
<1>1. stored \subseteq stored' /\ Now \in Surroundings /\ Now' \in Surroundings
    BY DEF Core, Base, Grows, Now
<1>2. Handlers'
    BY <1>1, HandlersStep DEF Core
<1>3. Held'
    BY HeldStep DEF Core
<1>4. CASE r.pc # "saving" /\ writes' = writes
    BY <1>1, <1>2, <1>3, <1>4, QueueStep DEF Core
<1>5. CASE r.pc = "saving" /\ \E x \in State : EntryOK(r, x, stored') /\ Enqueue(t, x)
    BY <1>1, <1>2, <1>3, <1>5, QueueSaves DEF Core
<1> QED
    BY <1>4, <1>5

LEMMA CoreReadStates ==
    ASSUME Core, NEW t \in Tasks, ReadStates(t), DiscordBotSyncAssumption
    PROVE  Core'
<1> DEFINE r == [task[t] EXCEPT !.pc = "read", !.state = db]
<1>1. Base' /\ Grows(Now, Now') /\ Now' = Now
    BY Resting DEF ReadStates, Core, Now
<1>2. /\ task[t] \in Handler /\ HandlerOK(task[t], Now) /\ task[t].pc = "refresh"
      /\ db \in State /\ Sound(db, stored)
    BY DEF ReadStates, Core, Handlers, Base
<1>3. /\ r \in Handler /\ r.kind = task[t].kind /\ r.pc = "read" /\ r.next = task[t].next
      /\ r.state = db /\ r.session = task[t].session /\ r.page = task[t].page
      /\ r.guarded = task[t].guarded
    BY <1>2 DEF Handler, Steps
<1>4. task' = [task EXCEPT ![t] = r]
    BY DEF ReadStates
<1> HIDE DEF r
<1>5. /\ task[t].kind = "load" \/ Syncs(task[t])
      /\ task[t].next = "none" /\ task[t].session = 0 /\ task[t].page = {} /\ ~task[t].guarded
    BY <1>2 DEF HandlerOK, Shape, NoTask, OtherShape, FlushShape, SyncShape
<1>6. Shape(r)
    BY <1>3, <1>5 DEF Shape, OtherShape, SyncShape, Syncs
<1>7. HandlerOK(r, Now')
    BY <1>1, <1>2, <1>3, <1>5, <1>6 DEF HandlerOK, Now, Syncs, Past
<1> QED
    BY <1>1, <1>2, <1>3, <1>4, <1>7, CoreStep DEF ReadStates

LEMMA CoreLoad ==
    ASSUME Core, NEW t \in Tasks, Load(t), DiscordBotSyncAssumption
    PROVE  Core'
<1>1. HandlerOK(task[t], Now) /\ task[t] \in Handler
    BY DEF Core, Handlers
<1>2. Base' /\ Grows(Now, Now')
  <2>1. mem' \in State /\ Sound(mem', stored')
      BY <1>1 DEF Load, HandlerOK, Handler, Now
  <2> QED
      BY <2>1, Growing DEF Load, Core, Base, Now, Surroundings
<1>3. HandlerOK(NoTask, Now')
    BY <1>2, NoTaskOK DEF Base
<1>4. task[t].session = 0 /\ task[t].pc = "read" /\ 0 \notin running
    BY <1>1 DEF Load, HandlerOK, Shape, NoTask, OtherShape, FlushShape, SyncShape, Syncs,
                Core, Base, Now, Surroundings
<1>5. NoTask.pc # "saving"
    BY DEF NoTask
<1> QED
    BY <1>2, <1>3, <1>4, <1>5, CoreStep DEF Load, Core, Base

LEMMA CoreTakeStates ==
    ASSUME Core, NEW t \in Tasks, TakeStates(t), DiscordBotSyncAssumption
    PROVE  Core'
<1>1. HandlerOK(task[t], Now) /\ task[t] \in Handler /\ mem \in State
    BY DEF Core, Handlers, Base
<1>2. Base' /\ Grows(Now, Now')
  <2>1. task[t].state \in State /\ Sound(task[t].state, stored)
      BY <1>1 DEF HandlerOK, Handler, Now
  <2>2. mem' \in State /\ Sound(mem', stored')
      BY <1>1, <2>1 DEF TakeStates, PreserveStop, State, Sound
  <2> QED
      BY <2>2, Growing DEF TakeStates, Core, Base, Now, Surroundings
<1>3. HandlerOK(NoTask, Now')
    BY <1>2, NoTaskOK DEF Base
<1>4. task[t].session = 0 /\ task[t].pc = "read" /\ 0 \notin running
    BY <1>1 DEF TakeStates, HandlerOK, Shape, NoTask, OtherShape, FlushShape, SyncShape,
                Syncs, Core, Base, Now, Surroundings
<1>5. NoTask.pc # "saving"
    BY DEF NoTask
<1> QED
    BY <1>2, <1>3, <1>4, <1>5, CoreStep DEF TakeStates, Core, Base

\* A cursor of the state is where a paging starts.
LEMMA StartEdgeFits ==
    ASSUME NEW t, NEW x \in State, Syncs(task[t]), DiscordBotSyncAssumption
    PROVE  /\ StartEdge(t, x) \in 0..MaxId
           /\ task[t].kind = "history" => StartEdge(t, x) = 0 \/ x.oldest <= StartEdge(t, x)
BY DEF StartEdge, State, Syncs, DiscordBotSyncAssumption

LEMMA CoreCreate ==
    ASSUME Core, NEW t \in Tasks, CreateSession(t), task[t].pc \in {"open", "create"},
           UNCHANGED <<posted, stored, db, mem, sent, buffer, conn, told, faults>>,
           DiscordBotSyncAssumption
    PROVE  Core'
<1>1. Base' /\ Grows(Now, Now')
    BY Growing DEF CreateSession, Core, Base, Now, Surroundings
<1>2. /\ task[t] \in Handler /\ HandlerOK(task[t], Now) /\ created \in Nat
      /\ running \subseteq 1..created /\ created + 1 \in Nat
    BY DEF Core, Handlers, Base, Now, Surroundings
<1>3. /\ \/ Syncs(task[t])
         \/ task[t].kind = "flush" /\ task[t].pc = "create"
      /\ task[t].next = "none" /\ task[t].session = 0 /\ ~task[t].guarded
    BY <1>2 DEF HandlerOK, Shape, NoTask, OtherShape, FlushShape, SyncShape
<1>4. /\ running' = running \cup {created + 1} /\ created' = created + 1
      /\ faults' = faults /\ db' = db /\ sent' = sent /\ task[t].pc # "saving"
      /\ \A s \in running : task[t].session # s
    BY <1>2, <1>3 DEF CreateSession
<1>5. CASE Syncs(task[t])
  <2> DEFINE x == [task[t].state EXCEPT !.session = created + 1]
             r == [task[t] EXCEPT !.session = created + 1, !.edge = StartEdge(t, x),
                                  !.pc = "saving", !.next = "fetch"]
  <2>1. /\ x \in State /\ x.known = task[t].state.known /\ x.done = task[t].state.done
        /\ x.oldest = task[t].state.oldest /\ x.newest = task[t].state.newest
      BY <1>2 DEF Handler, State
  <2>2. task' = [task EXCEPT ![t] = r] /\ Enqueue(t, x)
    <3>1. Save(t, [[task[t] EXCEPT !.session = created + 1] EXCEPT !.edge = StartEdge(t, x)],
               x, "fetch")
        BY <1>5 DEF CreateSession, Syncing, Syncs
    <3>2. [[[task[t] EXCEPT !.session = created + 1] EXCEPT !.edge = StartEdge(t, x)]
             EXCEPT !.pc = "saving", !.next = "fetch"] = r
        BY <1>2 DEF Handler
    <3> QED
        BY <3>1, <3>2 DEF Save
  <2> HIDE DEF x
  <2>3. StartEdge(t, x) \in 0..MaxId
      BY <2>1, <1>5, StartEdgeFits
  <2>4. /\ r \in Handler /\ r.kind = task[t].kind /\ r.pc = "saving" /\ r.next = "fetch"
        /\ r.state = task[t].state /\ r.session = created + 1 /\ r.page = task[t].page
        /\ r.guarded = task[t].guarded /\ r.edge = StartEdge(t, x)
      BY <1>2, <2>3 DEF Handler, Steps, Nexts
  <2> HIDE DEF r
  <2>5. EdgeFits(r, x)
      BY <2>1, <2>4, <1>5, StartEdgeFits DEF EdgeFits
  <2>6. task[t].page = {} /\ task[t].state.known
      BY <1>2, <1>5, <1>3 DEF HandlerOK, Shape, NoTask, SyncShape, Syncs
  <2>7. HandlerOK(r, Now')
      BY <1>2, <1>5, <2>4, <2>6, <1>4 DEF HandlerOK, Now, Syncs, Past, Shape, SyncShape
  <2>8. EntryOK(r, x, stored')
      BY <1>2, <1>5, <2>1, <2>4, <2>5, <2>6 DEF EntryOK, HandlerOK, Now, Sound, Syncs
  <2> QED
      BY <1>1, <1>2, <1>3, <1>4, <2>1, <2>2, <2>4, <2>7, <2>8, CoreStep
<1>6. CASE task[t].kind = "flush" /\ task[t].pc = "create"
  <2> DEFINE r == [task[t] EXCEPT !.session = created + 1, !.pc = "import"]
  <2>1. task' = [task EXCEPT ![t] = r] /\ writes' = writes
    <3>1. [[task[t] EXCEPT !.session = created + 1] EXCEPT !.pc = "import"] = r
        BY <1>2 DEF Handler
    <3> QED
        BY <3>1, <1>6 DEF CreateSession, Syncing
  <2>2. /\ r \in Handler /\ r.kind = "flush" /\ r.pc = "import" /\ r.next = "none"
        /\ r.state = task[t].state /\ r.session = created + 1 /\ r.page = task[t].page
        /\ r.guarded = task[t].guarded
      BY <1>2, <1>3, <1>6 DEF Handler, Steps
  <2> HIDE DEF r
  <2>3. HandlerOK(r, Now')
      BY <1>2, <1>3, <2>2, <1>4 DEF HandlerOK, Now, Syncs, Past, Shape, FlushShape
  <2> QED
      BY <1>1, <1>2, <1>3, <1>4, <1>6, <2>1, <2>2, <2>3, CoreStep
<1> QED
    BY <1>3, <1>5, <1>6

LEMMA CoreOpenSession ==
    ASSUME Core, NEW t \in Tasks, OpenSession(t), DiscordBotSyncAssumption
    PROVE  Core'
<1>1. /\ task[t] \in Handler /\ HandlerOK(task[t], Now) /\ created \in Nat
      /\ running \subseteq 1..created /\ task[t].pc = "open"
    BY DEF Core, Handlers, Base, Now, Surroundings, OpenSession
<1>2. /\ Syncs(task[t]) /\ task[t].next = "none" /\ task[t].session = 0
      /\ ~task[t].guarded /\ task[t].page = {} /\ task[t].state.known
    BY <1>1 DEF HandlerOK, Shape, NoTask, OtherShape, FlushShape, SyncShape
<1> DEFINE x == task[t].state
<1>3. CASE CreateSession(t)
    BY <1>1, <1>3, CoreCreate DEF OpenSession
<1>4. CASE /\ x.session \in running
           /\ task' = [task EXCEPT ![t] = [@ EXCEPT !.pc = "fetch", !.session = x.session,
                                                    !.edge = StartEdge(t, x),
                                                    !.guarded = TRUE]]
           /\ UNCHANGED <<writes, sessionVars>>
  <2> DEFINE r == [task[t] EXCEPT !.pc = "fetch", !.session = x.session,
                                  !.edge = StartEdge(t, x), !.guarded = TRUE]
  <2>1. Base' /\ Grows(Now, Now') /\ Now' = Now
      BY <1>4, Resting DEF OpenSession, Core, Now
  <2>2. x \in State /\ StartEdge(t, x) \in 0..MaxId
      BY <1>1, <1>2, StartEdgeFits DEF Handler
  <2>3. /\ r \in Handler /\ r.kind = task[t].kind /\ r.pc = "fetch" /\ r.next = task[t].next
        /\ r.state = x /\ r.session = x.session /\ r.page = task[t].page
        /\ r.guarded /\ r.edge = StartEdge(t, x)
      BY <1>1, <2>2 DEF Handler, Steps, State
  <2>4. task' = [task EXCEPT ![t] = r]
      BY <1>4
  <2> HIDE DEF r
  <2>5. EdgeFits(r, x)
      BY <1>2, <2>2, <2>3, StartEdgeFits DEF EdgeFits
  <2>6. HandlerOK(r, Now)
      BY <1>1, <1>2, <1>4, <2>3, <2>5 DEF HandlerOK, Now, Syncs, Past, Shape, SyncShape
  <2>7. /\ faults' = faults /\ db' = db /\ sent' = sent /\ writes' = writes
        /\ running' = running /\ \A s \in running : s # 0
      BY <1>1, <1>4 DEF OpenSession
  <2> QED
      BY <1>1, <1>2, <2>1, <2>3, <2>4, <2>6, <2>7, CoreStep
<1>5. CASE /\ Save(t, task[t], [x EXCEPT !.session = 0], "create")
           /\ UNCHANGED sessionVars
  <2> DEFINE r == [task[t] EXCEPT !.pc = "saving", !.next = "create"]
             y == [x EXCEPT !.session = 0]
  <2>1. Base' /\ Grows(Now, Now') /\ Now' = Now
      BY <1>5, Resting DEF OpenSession, Core, Now
  <2>2. /\ y \in State /\ y.known = x.known /\ y.done = x.done
        /\ y.oldest = x.oldest /\ y.newest = x.newest
      BY <1>1 DEF Handler, State
  <2>3. /\ r \in Handler /\ r.kind = task[t].kind /\ r.pc = "saving" /\ r.next = "create"
        /\ r.state = x /\ r.session = task[t].session /\ r.page = task[t].page
        /\ r.guarded = task[t].guarded
      BY <1>1 DEF Handler, Steps, Nexts
  <2>4. task' = [task EXCEPT ![t] = r] /\ Enqueue(t, y)
      BY <1>5 DEF Save
  <2> HIDE DEF r, y
  <2>5. HandlerOK(r, Now)
      BY <1>1, <1>2, <2>3 DEF HandlerOK, Now, Syncs, Past, Shape, SyncShape
  <2>6. EntryOK(r, y, stored')
      BY <1>1, <1>2, <2>1, <2>2, <2>3 DEF EntryOK, HandlerOK, Now, Sound, Syncs
  <2>7. /\ faults' = faults /\ db' = db /\ sent' = sent /\ running' = running
      BY <1>5 DEF OpenSession
  <2> QED
      BY <1>1, <2>1, <2>2, <2>3, <2>4, <2>5, <2>6, <2>7, CoreStep
<1> QED
    BY <1>3, <1>4, <1>5 DEF OpenSession

\* An import or a catch-up saves a state.
LEMMA SyncSaves ==
    ASSUME Core, Base', Grows(Now, Now'), db' = db, sent' = sent,
           NEW t \in Tasks, Syncs(task[t]),
           task[t].pc \in {"fetch", "finish", "failed", "raise"},
           NEW e \in 0..MaxId, NEW x \in State,
           NEW next \in {"fetch", "finish", "refresh", "end", "raise"},
           Save(t, [task[t] EXCEPT !.edge = e], x, next),
           Sound(x, stored'), x.known \/ next = "end",
           next = "fetch" /\ task[t].kind = "history" => e = 0 \/ x.oldest <= e,
           next = "finish" => task[t].guarded,
           faults' = 0 => /\ faults = 0 /\ running' \subseteq running
                          /\ next \in {"end", "raise", "refresh"}
                             => task[t].session \notin running'
    PROVE  Core'
<1> DEFINE r == [task[t] EXCEPT !.edge = e, !.pc = "saving", !.next = next]
<1>1. task[t] \in Handler /\ HandlerOK(task[t], Now)
    BY DEF Core, Handlers
<1>2. task' = [task EXCEPT ![t] = r] /\ Enqueue(t, x)
  <2>1. [[task[t] EXCEPT !.edge = e] EXCEPT !.pc = "saving", !.next = next] = r
      BY <1>1 DEF Handler
  <2> QED
      BY <2>1 DEF Save
<1>3. /\ r \in Handler /\ r.kind = task[t].kind /\ r.pc = "saving" /\ r.next = next
      /\ r.state = task[t].state /\ r.session = task[t].session /\ r.page = task[t].page
      /\ r.guarded = task[t].guarded /\ r.edge = e
    BY <1>1 DEF Handler, Steps, Nexts
<1> HIDE DEF r
<1>4. task[t].page = {} /\ task[t].state.known
    BY <1>1 DEF HandlerOK, Shape, NoTask, SyncShape, Syncs
<1>5. /\ Sound(task[t].state, stored') /\ task[t].session <= created'
  <2>1. HandlerOK(task[t], Now')
      BY <1>1, GrowsKeeps DEF Core, Base
  <2> QED
      BY <2>1 DEF HandlerOK, Now
<1>6. Shape(r)
    BY <1>3, <1>4 DEF Shape, SyncShape, Syncs
<1>7. faults' # 0 \/ (Past(r) => r.session \notin running')
    BY <1>3 DEF Past, Base
<1>8. HandlerOK(r, Now')
    BY <1>3, <1>4, <1>5, <1>6, <1>7 DEF HandlerOK, Now, Syncs
<1>9. EntryOK(r, x, stored')
    BY <1>3 DEF EntryOK, EdgeFits, Syncs
<1> QED
    BY <1>2, <1>3, <1>8, <1>9, CoreStep

LEMMA NoEdge ==
    ASSUME NEW r \in Handler
    PROVE  r.edge \in 0..MaxId /\ [r EXCEPT !.edge = r.edge] = r
BY DEF Handler

\* A history that ends with an empty page is complete.
LEMMA EmptyPageSound ==
    ASSUME Base, NEW r \in Handler, r.kind = "history", EdgeFits(r, r.state),
           Sound(r.state, stored), PageOf(r.kind, r.edge) = {}, DiscordBotSyncAssumption
    PROVE  Sound([r.state EXCEPT !.done = TRUE], stored)
<1>1. /\ posted \in Nat /\ r.edge \in Nat /\ r.state.oldest \in Nat
      /\ stored \subseteq 1..posted /\ r.state \in State
    BY DEF Base, Now, Surroundings, Handler, State
<1>2. Below(r.edge) = {}
    BY <1>1, HistoryPage DEF DiscordBotSyncAssumption
<1>3. r.state.oldest \in stored \/ r.state.oldest = 0
    BY DEF Sound
<1>4. r.state.oldest <= 1
    BY <1>1, <1>2, <1>3 DEF Below, EdgeFits
<1>5. 1..r.state.oldest \subseteq stored
    BY <1>1, <1>3, <1>4
<1> QED
    BY <1>1, <1>5 DEF Sound, State

LEMMA CoreLastPage ==
    ASSUME Core, NEW t \in Tasks, LastPage(t), DiscordBotSyncAssumption
    PROVE  Core'
<1>1. Base' /\ Grows(Now, Now') /\ Now' = Now
    BY Resting DEF LastPage, Core, Now
<1>2. task[t] \in Handler /\ HandlerOK(task[t], Now) /\ task[t].pc = "fetch"
    BY DEF Core, Handlers, LastPage
<1>3. /\ Syncs(task[t]) /\ task[t].next = "none" /\ task[t].guarded
      /\ task[t].page = {} /\ task[t].state.known /\ task[t].state \in State
    BY <1>2 DEF HandlerOK, Shape, NoTask, OtherShape, FlushShape, SyncShape, Handler
<1>4. faults' = faults /\ running' = running /\ db' = db /\ sent' = sent /\ stored' = stored
    BY DEF LastPage
<1>5. CASE task[t].kind = "history"
  <2> DEFINE x == [task[t].state EXCEPT !.done = TRUE]
  <2>1. x \in State /\ x.known
      BY <1>3 DEF State
  <2>2. Sound(x, stored)
      BY <1>2, <1>5, EmptyPageSound DEF LastPage, HandlerOK, Core, Now
  <2>3. Save(t, task[t], x, "finish")
      BY <1>5 DEF LastPage
  <2> HIDE DEF x
  <2>4. Save(t, [task[t] EXCEPT !.edge = task[t].edge], x, "finish")
      BY <2>3, <1>2, NoEdge
  <2> QED
      BY <1>1, <1>2, <1>3, <1>4, <2>1, <2>2, <2>4, NoEdge, SyncSaves
<1>6. CASE task[t].kind # "history"
  <2> DEFINE r == [task[t] EXCEPT !.pc = "finish"]
  <2>1. task' = [task EXCEPT ![t] = r] /\ writes' = writes
      BY <1>6 DEF LastPage, Core, Handlers
  <2>2. /\ r \in Handler /\ r.kind = task[t].kind /\ r.pc = "finish"
        /\ r.next = task[t].next /\ r.state = task[t].state /\ r.session = task[t].session
        /\ r.page = task[t].page /\ r.guarded = task[t].guarded
      BY <1>2 DEF Handler, Steps
  <2> HIDE DEF r
  <2>3. HandlerOK(r, Now')
      BY <1>1, <1>2, <1>3, <2>2 DEF HandlerOK, Now, Syncs, Past, Shape, SyncShape
  <2> QED
      BY <1>1, <1>2, <1>4, <2>1, <2>2, <2>3, CoreStep
<1> QED
    BY <1>5, <1>6

\* The cursors after a page are archived with it; a short history page reaches down
\* to the first message.
LEMMA AdvancedSound ==
    ASSUME Base, NEW t \in Tasks, NEW page, page = PageOf(task[t].kind, task[t].edge),
           page # {}, task[t] \in Handler, Syncs(task[t]),
           EdgeFits(task[t], task[t].state), Sound(task[t].state, stored),
           DiscordBotSyncAssumption
    PROVE  /\ Advanced(t, page) \in State
           /\ Advanced(t, page).known = task[t].state.known
           /\ Sound(Advanced(t, page), stored \cup page)
           /\ task[t].kind = "history" => Advanced(t, page).oldest <= Min(page)
           /\ Min(page) \in 0..MaxId /\ Max(page) \in 0..MaxId
<1> DEFINE x == task[t].state
           y == Advanced(t, page)
<1>1. /\ posted \in 0..MaxId /\ posted \in Nat /\ MaxId \in Nat
      /\ stored \subseteq 1..posted /\ x \in State
      /\ x.oldest \in 0..MaxId /\ x.newest \in 0..MaxId /\ task[t].edge \in Nat
    BY DEF Base, Now, Surroundings, Handler, State, DiscordBotSyncAssumption
<1>2. page \subseteq 1..posted /\ page \in SUBSET Nat /\ page \in SUBSET (0..MaxId)
  <2>1. page \subseteq 1..posted
      BY PageType
  <2> QED
      BY <2>1, <1>1
<1>3. Min(page) \in page /\ (\A m \in page : Min(page) <= m) /\ Max(page) \in page
    BY <1>1, <1>2, MinDef, MaxDef
<1>4. Max(page \cup {x.newest}) \in page \cup {x.newest}
    BY <1>1, <1>2, MaxDef
<1>5. /\ Lower(x.oldest, Min(page)) \in {x.oldest, Min(page)}
      /\ Lower(x.oldest, Min(page)) <= Min(page)
  <2>1. Min(page) \in Nat /\ x.oldest \in Nat
      BY <1>1, <1>2, <1>3
  <2>2. /\ Min({x.oldest, Min(page)}) \in {x.oldest, Min(page)}
        /\ Min({x.oldest, Min(page)}) <= Min(page)
      BY <2>1, MinDef
  <2> QED
      BY <2>1, <2>2 DEF Lower
<1>6. CASE task[t].kind = "catchup"
  <2>1. y = [x EXCEPT !.newest = Max(page \cup {x.newest})]
      BY <1>6 DEF Advanced
  <2>2. y \in State /\ y.known = x.known /\ y.done = x.done /\ y.oldest = x.oldest
        /\ y.newest = Max(page \cup {x.newest})
      BY <2>1, <1>1, <1>2, <1>4 DEF State
  <2>3. Sound(y, stored \cup page)
      BY <2>2, <1>4 DEF Sound
  <2> QED
      BY <2>2, <2>3, <1>2, <1>3, <1>6
<1>7. CASE task[t].kind = "history"
  <2> DEFINE short == Cardinality(page) < PageSize
  <2>1. y = [x EXCEPT !.newest = Max(page \cup {x.newest}),
                      !.oldest = Lower(x.oldest, Min(page)), !.done = short]
      BY <1>7, <1>1 DEF Advanced, State
  <2>2. short \in BOOLEAN
    <3>1. IsFiniteSet(page)
      <4>1. IsFiniteSet(1..posted)
          BY <1>1, FS_Interval
      <4>2. page \in SUBSET (1..posted)
          BY <1>2
      <4> QED
          BY <4>1, <4>2, FS_Subset
    <3>2. Cardinality(page) \in Nat /\ PageSize \in Nat
        BY <3>1, FS_CardinalityType DEF DiscordBotSyncAssumption
    <3> QED
        BY <3>2
  <2> HIDE DEF short, y
  <2>3. Max(page \cup {x.newest}) \in 0..MaxId /\ Lower(x.oldest, Min(page)) \in 0..MaxId
      BY <1>1, <1>2, <1>3, <1>4, <1>5
  <2>4. y \in State /\ y.known = x.known /\ y.done = short
        /\ y.oldest = Lower(x.oldest, Min(page)) /\ y.newest = Max(page \cup {x.newest})
      BY <2>1, <2>2, <2>3, <1>1 DEF State
  <2>5. ASSUME y.done PROVE 1..y.oldest \subseteq page
    <3>1. page = Below(task[t].edge)
        BY <2>4, <2>5, <1>1, <1>7, HistoryPage DEF short, DiscordBotSyncAssumption
    <3>2. 1 \in page
        BY <3>1, <1>1, <1>2, <1>3 DEF Below
    <3>3. Min(page) = 1
        BY <3>2, <1>2, <1>3
    <3>4. y.oldest \in Nat /\ y.oldest <= 1
        BY <3>3, <2>4, <1>1, <1>5
    <3> QED
        BY <3>2, <3>4
  <2>6. Sound(y, stored \cup page)
      BY <2>4, <2>5, <1>3, <1>4, <1>5 DEF Sound
  <2> QED
      BY <2>4, <2>6, <1>2, <1>3, <1>5 DEF y
<1> QED
    BY <1>6, <1>7 DEF Syncs

LEMMA NoOnline ==
    ASSUME NEW r \in Handler, r.online = FALSE
    PROVE  [r EXCEPT !.online = FALSE] = r
BY DEF Handler

LEMMA CoreImport ==
    ASSUME Core, NEW t \in Tasks, Import(t), DiscordBotSyncAssumption
    PROVE  Core'
<1> DEFINE page == PageOf(task[t].kind, task[t].edge)
           next == IF Cardinality(page) < PageSize THEN "finish" ELSE "fetch"
           edge == IF task[t].kind = "history" THEN Min(page) ELSE Max(page)
           x == Advanced(t, page)
<1>1. /\ task[t] \in Handler /\ HandlerOK(task[t], Now) /\ task[t].pc = "fetch"
      /\ page # {} /\ stored' = stored \cup page
      /\ Save(t, [task[t] EXCEPT !.edge = edge], x, next)
    BY DEF Core, Handlers, Import
<1>2. /\ Syncs(task[t]) /\ task[t].guarded /\ task[t].state.known
      /\ EdgeFits(task[t], task[t].state) /\ Sound(task[t].state, stored)
    BY <1>1 DEF HandlerOK, Shape, NoTask, OtherShape, FlushShape, SyncShape, Now
<1>3. page \subseteq 1..posted
    BY PageType
<1>4. faults' = faults /\ running' = running /\ db' = db /\ sent' = sent
    BY DEF Import
<1>5. Base' /\ Grows(Now, Now')
  <2>1. /\ posted' = posted /\ created' = created /\ mem' = mem /\ buffer' = buffer
        /\ conn' = conn /\ told' = told
      BY DEF Import
  <2>2. Sound(mem', stored')
      BY <1>1, <2>1 DEF Core, Base, Sound
  <2>3. stored \subseteq stored' /\ stored' \subseteq 1..posted'
      BY <1>1, <1>3, <2>1 DEF Core, Base
  <2> QED
      BY <1>4, <2>1, <2>2, <2>3, Growing DEF Core, Base, Now, Surroundings
<1>6. /\ x \in State /\ x.known /\ Sound(x, stored')
      /\ task[t].kind = "history" => x.oldest <= edge
      /\ edge \in 0..MaxId
    BY <1>1, <1>2, AdvancedSound DEF Core
<1>7. next \in {"fetch", "finish"}
    OBVIOUS
<1> HIDE DEF page, next, edge, x
<1> QED
    BY <1>1, <1>2, <1>4, <1>5, <1>6, <1>7, SyncSaves DEF Core

LEMMA Closing ==
    ASSUME Base, NEW t \in Tasks, running' = running \ {task[t].session},
           UNCHANGED <<posted, stored, created, db, mem, buffer, conn, told, faults>>,
           DiscordBotSyncAssumption
    PROVE  Base' /\ Grows(Now, Now')
BY Growing DEF Base, Now, Surroundings

LEMMA CoreFinishSync ==
    ASSUME Core, NEW t \in Tasks, FinishSync(t), DiscordBotSyncAssumption
    PROVE  Core'
<1> DEFINE x == [task[t].state EXCEPT !.session = 0]
           next == IF task[t].command THEN "refresh" ELSE "end"
<1>1. /\ task[t] \in Handler /\ HandlerOK(task[t], Now) /\ task[t].pc = "finish"
      /\ Syncs(task[t]) /\ Save(t, task[t], x, next)
      /\ running' = running \ {task[t].session}
      /\ stored' = stored /\ faults' = faults /\ db' = db /\ sent' = sent
    BY DEF Core, Handlers, FinishSync, Syncing, Syncs
<1>2. task[t].state.known /\ Sound(task[t].state, stored) /\ task[t].state \in State
    BY <1>1 DEF HandlerOK, Now, Handler
<1>3. x \in State /\ x.known /\ Sound(x, stored')
    BY <1>1, <1>2 DEF State, Sound
<1>4. next \in {"refresh", "end"}
    OBVIOUS
<1>5. Base' /\ Grows(Now, Now')
    BY Closing DEF FinishSync, Core
<1> HIDE DEF x, next
<1>6. Save(t, [task[t] EXCEPT !.edge = task[t].edge], x, next)
    BY <1>1, NoEdge
<1> QED
    BY <1>1, <1>3, <1>4, <1>5, <1>6, NoEdge, SyncSaves

\* The catch block of a handler, whose session is closed or whose stop request failed.
LEMMA CoreForget ==
    ASSUME Core, NEW t \in Tasks, Forget(t), task[t].pc = "failed",
           Base', Grows(Now, Now'), stored' = stored, db' = db, sent' = sent,
           faults' = 0 => faults = 0 /\ running' = running \ {task[t].session},
           DiscordBotSyncAssumption
    PROVE  Core'
<1>1. task[t] \in Handler /\ HandlerOK(task[t], Now)
    BY DEF Core, Handlers
<1>2. CASE Syncs(task[t])
  <2> DEFINE x == [task[t].state EXCEPT !.session = 0]
             next == IF task[t].command THEN "end" ELSE "raise"
  <2>1. task[t].state.known /\ Sound(task[t].state, stored) /\ task[t].state \in State
      BY <1>1, <1>2 DEF HandlerOK, Now, Handler
  <2>2. x \in State /\ x.known /\ Sound(x, stored')
      BY <2>1 DEF State, Sound
  <2>3. next \in {"raise", "end"}
      OBVIOUS
  <2>4. Save(t, task[t], x, next)
      BY <1>2 DEF Forget, Syncing, Syncs
  <2> HIDE DEF x, next
  <2>5. Save(t, [task[t] EXCEPT !.edge = task[t].edge], x, next)
      BY <1>1, <2>4, NoEdge
  <2> QED
      BY <1>1, <1>2, <2>2, <2>3, <2>5, NoEdge, SyncSaves
<1>3. CASE ~Syncs(task[t])
  <2>1. task' = [task EXCEPT ![t] = NoTask] /\ writes' = writes
      BY <1>3 DEF Forget, Syncing, Syncs
  <2>2. HandlerOK(NoTask, Now') /\ NoTask.pc # "saving"
      BY NoTaskOK DEF Base, NoTask
  <2> QED
      BY <1>1, <2>1, <2>2, CoreStep
<1> QED
    BY <1>2, <1>3

LEMMA CoreStopSession ==
    ASSUME Core, NEW t \in Tasks, StopSession(t), DiscordBotSyncAssumption
    PROVE  Core'
<1>1. Base' /\ Grows(Now, Now')
    BY Closing DEF StopSession, Core
<1> QED
    BY <1>1, CoreForget DEF StopSession

LEMMA CoreRecordError ==
    ASSUME Core, NEW t \in Tasks, RecordError(t), DiscordBotSyncAssumption
    PROVE  Core'
<1>1. /\ task[t] \in Handler /\ HandlerOK(task[t], Now) /\ task[t].pc = "raise"
      /\ Save(t, task[t], NoState, "end")
      /\ running' = running /\ faults' = faults /\ db' = db /\ sent' = sent
      /\ faults \in Nat
    BY DEF Core, Handlers, RecordError, Base
<1>2. Syncs(task[t]) /\ (faults # 0 \/ task[t].session \notin running)
  <2>1. Syncs(task[t])
      BY <1>1 DEF HandlerOK, Shape, NoTask, OtherShape, FlushShape, SyncShape
  <2>2. Past(task[t])
      BY <1>1 DEF Past
  <2> QED
      BY <1>1, <2>1, <2>2 DEF HandlerOK, Now
<1>3. NoState \in State /\ Sound(NoState, stored')
    BY DEF State, NoState, Sound, DiscordBotSyncAssumption
<1>4. Base' /\ Grows(Now, Now')
    BY Resting DEF RecordError, Core
<1>5. Save(t, [task[t] EXCEPT !.edge = task[t].edge], NoState, "end")
    BY <1>1, NoEdge
<1>6. faults' = 0 => /\ faults = 0 /\ running' \subseteq running
                     /\ task[t].session \notin running'
    BY <1>1, <1>2
<1> DEFINE next == "end"
<1>7. /\ next = "end" /\ next \in {"fetch", "finish", "refresh", "end", "raise"}
      /\ Save(t, [task[t] EXCEPT !.edge = task[t].edge], NoState, next)
    BY <1>5
<1> HIDE DEF next
<1> QED
    BY <1>1, <1>2, <1>3, <1>4, <1>6, <1>7, NoEdge, SyncSaves

LEMMA CoreImportLive ==
    ASSUME Core, NEW t \in Tasks, ImportLive(t), DiscordBotSyncAssumption
    PROVE  Core'
<1> DEFINE r == [task[t] EXCEPT !.pc = "finish"]
<1>1. /\ task[t] \in Handler /\ HandlerOK(task[t], Now) /\ task[t].pc = "import"
      /\ task[t].kind = "flush" /\ task' = [task EXCEPT ![t] = r]
      /\ stored' = stored \cup task[t].page /\ task[t].page \subseteq 1..posted
      /\ posted' = posted /\ created' = created /\ running' = running /\ faults' = faults
      /\ db' = db /\ mem' = mem /\ sent' = sent /\ writes' = writes
      /\ buffer' = buffer /\ conn' = conn /\ told' = told
    BY DEF Core, Handlers, ImportLive, HandlerOK, Now
<1>2. Base' /\ Grows(Now, Now')
  <2>1. Sound(mem', stored')
      BY <1>1 DEF Core, Base, Sound
  <2>2. stored \subseteq stored' /\ stored' \subseteq 1..posted'
      BY <1>1 DEF Core, Base
  <2> QED
      BY <1>1, <2>1, <2>2, Growing DEF Core, Base, Now, Surroundings
<1>3. /\ r \in Handler /\ r.kind = "flush" /\ r.pc = "finish" /\ r.next = task[t].next
      /\ r.state = task[t].state /\ r.session = task[t].session /\ r.page = task[t].page
      /\ r.guarded = task[t].guarded
    BY <1>1 DEF Handler, Steps
<1> HIDE DEF r
<1>4. task[t].next = "none" /\ ~task[t].guarded
    BY <1>1 DEF HandlerOK, Shape, NoTask, OtherShape, FlushShape, SyncShape, Syncs
<1>5. HandlerOK(r, Now')
    BY <1>1, <1>3, <1>4 DEF HandlerOK, Now, Syncs, Past, Shape, FlushShape, Sound
<1> QED
    BY <1>1, <1>2, <1>3, <1>5, CoreStep

LEMMA CoreFinishLive ==
    ASSUME Core, NEW t \in Tasks, FinishLive(t), DiscordBotSyncAssumption
    PROVE  Core'
<1>1. /\ task[t] \in Handler /\ HandlerOK(task[t], Now) /\ task[t].pc = "finish"
      /\ task[t].kind = "flush" /\ task[t].page \subseteq stored
      /\ running' = running \ {task[t].session}
      /\ stored' = stored /\ faults' = faults /\ db' = db /\ sent' = sent
    BY DEF Core, Handlers, FinishLive, HandlerOK, Now
<1>2. Base' /\ Grows(Now, Now') /\ Now' \in Surroundings
    BY Closing DEF FinishLive, Core, Base
<1>3. CASE ~mem.known
  <2>1. task' = [task EXCEPT ![t] = NoTask] /\ writes' = writes
      BY <1>3 DEF FinishLive
  <2>2. HandlerOK(NoTask, Now') /\ NoTask.pc # "saving"
      BY <1>2, NoTaskOK DEF NoTask
  <2> QED
      BY <1>1, <1>2, <2>1, <2>2, CoreStep
<1>4. CASE mem.known
  <2> DEFINE newest == Max(task[t].page \cup {mem.newest})
             x == [mem EXCEPT !.newest = newest]
             r == [task[t] EXCEPT !.pc = "saving", !.next = "end"]
  <2>1. newest \in task[t].page \cup {mem.newest} /\ newest \in 0..MaxId
    <3>1. mem.newest \in 0..MaxId /\ MaxId \in Nat /\ task[t].page \subseteq 1..MaxId
        BY <1>1 DEF Core, Base, State, Handler, DiscordBotSyncAssumption
    <3>2. (task[t].page \cup {mem.newest}) \in SUBSET (0..MaxId)
        BY <3>1
    <3>3. task[t].page \cup {mem.newest} # {}
        OBVIOUS
    <3>4. newest \in task[t].page \cup {mem.newest}
        BY <3>1, <3>2, <3>3, MaxDef
    <3> QED
        BY <3>2, <3>4
  <2>2. task' = [task EXCEPT ![t] = r] /\ Enqueue(t, x)
      BY <1>4 DEF FinishLive, Save
  <2>3. /\ r \in Handler /\ r.kind = "flush" /\ r.pc = "saving" /\ r.next = "end"
        /\ r.state = task[t].state /\ r.session = task[t].session /\ r.page = task[t].page
        /\ r.guarded = task[t].guarded
      BY <1>1 DEF Handler, Steps, Nexts
  <2> HIDE DEF r, newest
  <2>4. /\ x \in State /\ x.known = mem.known /\ x.done = mem.done
        /\ x.oldest = mem.oldest /\ x.newest = newest
      BY <2>1 DEF Core, Base, State
  <2> HIDE DEF x
  <2>5. Sound(x, stored')
      BY <1>1, <2>1, <2>4 DEF Sound, Core, Base
  <2>6. HandlerOK(task[t], Now') /\ ~task[t].guarded
    <3>1. HandlerOK(task[t], Now')
        BY <1>1, <1>2, GrowsKeeps DEF Core, Base
    <3> QED
        BY <1>1, <3>1 DEF HandlerOK, Shape, NoTask, OtherShape, FlushShape, Syncs
  <2>7. HandlerOK(r, Now')
      BY <1>1, <2>3, <2>6 DEF HandlerOK, Now, Syncs, Past, Shape, FlushShape
  <2>8. EntryOK(r, x, stored')
      BY <1>4, <2>3, <2>4, <2>5 DEF EntryOK
  <2> QED
      BY <1>1, <1>2, <2>2, <2>3, <2>4, <2>7, <2>8, CoreStep
<1> QED
    BY <1>3, <1>4

\* An error leaves a handler that does not wait, and unless its catch block is in
\* force it may end only when something has failed.
LEMMA ThrownOK ==
    ASSUME NEW t \in Tasks, NEW E \in Surroundings, HandlerOK(task[t], E),
           task[t].pc \notin {"read"}, E.faulty \/ task[t].guarded,
           DiscordBotSyncAssumption
    PROVE  /\ HandlerOK(Thrown(t), E)
           /\ Thrown(t).pc # "saving"
           /\ E.faulty \/ Thrown(t).session = task[t].session
<1> DEFINE r == Thrown(t)
<1>1. task[t] \in Handler
    BY DEF HandlerOK
<1>2. CASE r = [task[t] EXCEPT !.pc = "failed", !.next = "none", !.guarded = FALSE]
           /\ (task[t].guarded \/ task[t].kind = "flush")
  <2>1. /\ r \in Handler /\ r.kind = task[t].kind /\ r.pc = "failed" /\ r.next = "none"
        /\ r.state = task[t].state /\ r.session = task[t].session /\ r.page = task[t].page
        /\ r.guarded = FALSE
      BY <1>1, <1>2 DEF Handler, Steps, Nexts
  <2> HIDE DEF r
  <2>2. \/ task[t].kind = "flush" /\ E.faulty
        \/ Syncs(task[t]) /\ task[t].guarded
    <3>1. CASE task[t].guarded
        BY <3>1 DEF HandlerOK, Shape, NoTask, OtherShape, FlushShape
    <3>2. CASE ~task[t].guarded
        BY <1>2, <3>2
    <3> QED
        BY <3>1, <3>2
  <2>3. Syncs(task[t]) /\ task[t].guarded => task[t].pc # "refresh" /\ task[t].page = {}
      BY DEF HandlerOK, Shape, NoTask, OtherShape, FlushShape, SyncShape, Syncs
  <2>4. HandlerOK(r, E)
      BY <2>1, <2>2, <2>3 DEF HandlerOK, Syncs, Past, Shape, FlushShape, SyncShape
  <2> QED
      BY <2>1, <2>4 DEF r
<1>3. CASE r = [task[t] EXCEPT !.pc = "raise", !.next = "none"] /\ E.faulty
           /\ Syncs(task[t]) /\ ~task[t].command
  <2>1. /\ r \in Handler /\ r.kind = task[t].kind /\ r.pc = "raise" /\ r.next = "none"
        /\ r.state = task[t].state /\ r.session = task[t].session /\ r.page = task[t].page
      BY <1>1, <1>3 DEF Handler, Steps, Nexts
  <2> HIDE DEF r
  <2>2. task[t].pc # "refresh" /\ task[t].page = {}
      BY <1>3 DEF HandlerOK, Shape, NoTask, SyncShape, Syncs
  <2>3. HandlerOK(r, E)
      BY <1>3, <2>1, <2>2 DEF HandlerOK, Syncs, Past, Shape, SyncShape
  <2> QED
      BY <1>3, <2>1, <2>3 DEF r
<1>4. CASE r = NoTask /\ E.faulty
  <2>1. HandlerOK(NoTask, E) /\ NoTask.pc # "saving"
      BY NoTaskOK DEF NoTask
  <2> QED
      BY <1>4, <2>1
<1>5. task[t].guarded \in BOOLEAN /\ E.faulty \in BOOLEAN /\ task[t].command \in BOOLEAN
    BY <1>1 DEF Handler, Surroundings
<1>6. r = IF task[t].guarded \/ (task[t].kind = "flush" /\ task[t].session # 0)
          THEN [task[t] EXCEPT !.pc = "failed", !.next = "none", !.guarded = FALSE]
          ELSE IF Syncs(task[t]) /\ ~task[t].command /\ task[t].next # "end"
          THEN [task[t] EXCEPT !.pc = "raise", !.next = "none"]
          ELSE NoTask
    BY DEF Thrown, Syncing, Syncs
<1> HIDE DEF r
<1>7. \/ r = [task[t] EXCEPT !.pc = "failed", !.next = "none", !.guarded = FALSE]
         /\ (task[t].guarded \/ task[t].kind = "flush")
      \/ r = [task[t] EXCEPT !.pc = "raise", !.next = "none"]
         /\ ~task[t].guarded /\ Syncs(task[t]) /\ ~task[t].command
      \/ r = NoTask /\ ~task[t].guarded
    BY <1>6, Zenon
<1> QED
    BY <1>2, <1>3, <1>4, <1>7 DEF r

LEMMA CoreRefused ==
    ASSUME Core, NEW t \in Tasks, Refused(t), DiscordBotSyncAssumption
    PROVE  Core'
<1>1. /\ task[t] \in Handler /\ HandlerOK(task[t], Now)
      /\ task[t].pc = "fetch" \/ (task[t].pc = "finish" /\ Syncs(task[t]))
      /\ task' = [task EXCEPT ![t] = Thrown(t)]
      /\ faults' = faults /\ running' = running /\ db' = db /\ sent' = sent /\ writes' = writes
    BY DEF Core, Handlers, Refused, Syncing, Syncs
<1>2. Base' /\ Grows(Now, Now') /\ Now' = Now /\ Now \in Surroundings
    BY Resting DEF Refused, Core, Now, Base
<1>3. task[t].guarded
    BY <1>1 DEF HandlerOK, Shape, NoTask, OtherShape, FlushShape, SyncShape, Syncs
<1>4. /\ HandlerOK(Thrown(t), Now') /\ Thrown(t).pc # "saving"
      /\ Now.faulty \/ Thrown(t).session = task[t].session
    BY <1>1, <1>2, <1>3, ThrownOK
<1>5. faults \in Nat /\ (faults = 0 => ~Now.faulty)
    BY DEF Core, Base, Now
<1> QED
    BY <1>1, <1>2, <1>4, <1>5, CoreStep

\* Losing the connection changes nothing that a handler relies on.
LEMMA CoreOffline ==
    ASSUME Core, Base', Grows(Now, Now'), NEW t \in Tasks, GoOffline(t),
           task[t].pc # "saving", task[t].session = 0,
           db' = db, sent' = sent, writes' = writes,
           faults' = 0 => faults = 0 /\ running' = running, DiscordBotSyncAssumption
    PROVE  Core'
<1>1. \A u \in Tasks : task'[u] = IF u = t THEN NoTask ELSE [task[u] EXCEPT !.online = FALSE]
    BY DEF GoOffline
<1>2. Now \in Surroundings /\ Now' \in Surroundings /\ stored \subseteq stored'
    BY DEF Core, Base, Grows, Now
<1>3. HandlerOK(NoTask, Now') /\ NoTask.pc # "saving"
    BY <1>2, NoTaskOK DEF NoTask
<1>4. ASSUME NEW u \in Tasks, u # t
      PROVE  /\ HandlerOK(task'[u], Now')
             /\ task'[u].pc = task[u].pc /\ task'[u].next = task[u].next
             /\ task'[u].kind = task[u].kind /\ task'[u].edge = task[u].edge
             /\ task'[u].session = task[u].session
  <2> DEFINE r == [task[u] EXCEPT !.online = FALSE]
  <2>1. HandlerOK(task[u], Now') /\ task[u] \in Handler
      BY <1>2, GrowsKeeps DEF Core, Handlers
  <2>2. /\ r \in Handler /\ r.kind = task[u].kind /\ r.pc = task[u].pc
        /\ r.next = task[u].next /\ r.state = task[u].state /\ r.session = task[u].session
        /\ r.page = task[u].page /\ r.guarded = task[u].guarded /\ r.edge = task[u].edge
        /\ r.command = task[u].command
      BY <2>1 DEF Handler
  <2>3. task[u] = NoTask => r = NoTask
    <3>1. [NoTask EXCEPT !.online = FALSE] = NoTask
      <4>1. NoTask \in Handler /\ NoTask.online = FALSE
          BY <1>3 DEF HandlerOK, NoTask
      <4> QED
          BY <4>1, NoOnline
    <3> QED
        BY <3>1
  <2>4. r = task'[u]
      BY <1>1, <1>4
  <2> HIDE DEF r
  <2>5. Shape(r)
      BY <2>1, <2>2, <2>3 DEF HandlerOK, Shape, OtherShape, FlushShape, SyncShape, Syncs
  <2>6. HandlerOK(r, Now')
      BY <2>1, <2>2, <2>5 DEF HandlerOK, EdgeFits, Syncs, Past
  <2> QED
      BY <2>2, <2>4, <2>6
<1>5. Handlers'
  <2>1. \A u \in Tasks : HandlerOK(task'[u], Now')
      BY <1>1, <1>3, <1>4
  <2>2. task' \in [Tasks -> Handler]
      BY <2>1 DEF GoOffline, HandlerOK
  <2> QED
      BY <2>1, <2>2 DEF Handlers
<1>6. Held'
  <2>1. ASSUME faults' = 0, NEW s \in running' PROVE \E u \in Tasks : task'[u].session = s
    <3>1. PICK u \in Tasks : task[u].session = s
        BY <2>1 DEF Core, Held
    <3>2. s # 0
        BY <2>1 DEF Core, Base, Now, Surroundings
    <3> QED
        BY <3>1, <3>2, <1>4
  <2> QED
      BY <2>1 DEF Held
<1>7. Queue'
  <2>1. ASSUME NEW k \in 1..Len(writes)
        PROVE  /\ task'[writes[k].task].pc = "saving"
               /\ EntryOK(task'[writes[k].task], writes[k].state, stored')
    <3>1. /\ writes[k].task \in Tasks /\ writes[k].task # t
          /\ task[writes[k].task].pc = "saving"
          /\ EntryOK(task[writes[k].task], writes[k].state, stored')
        BY <1>2, QueueWrites, EntryGrows DEF Core, Queue
    <3> QED
        BY <3>1, <1>4 DEF EntryOK, EdgeFits, Syncs
  <2>2. ASSUME NEW u \in Tasks, task'[u].pc = "saving"
        PROVE  \E k \in 1..Len(writes) : writes[k].task = u
    <3>1. task[u].pc = "saving"
        BY <2>2, <1>1, <1>3, <1>4
    <3> QED
        BY <3>1 DEF Core, Queue
  <2> QED
      BY <2>1, <2>2 DEF Core, Queue
<1> QED
    BY <1>5, <1>6, <1>7 DEF Core

LEMMA CoreRequestFails ==
    ASSUME Core, NEW t \in Tasks, RequestFails(t), DiscordBotSyncAssumption
    PROVE  Core'
<1>1. /\ task[t] \in Handler /\ HandlerOK(task[t], Now)
      /\ task[t].pc \in {"open", "create", "fetch", "import", "finish", "refresh", "failed"}
      /\ faults \in Nat /\ faults' = faults + 1
      /\ posted' = posted /\ db' = db /\ mem' = mem /\ sent' = sent
      /\ buffer' = buffer /\ told' = told
    BY DEF Core, Handlers, Base, RequestFails
<1>2. conn' \in {conn, "off"}
    BY DEF RequestFails, GoOffline
<1>3. /\ created' \in {created, created + 1}
      /\ running' \subseteq running \cup (created + 1)..created'
      /\ \/ stored' = stored
         \/ stored' = stored \cup task[t].page
         \/ stored' = stored \cup PageOf(task[t].kind, task[t].edge)
  <2>1. created \in Nat
      BY DEF Core, Base, Now, Surroundings
  <2>2. CASE UNCHANGED archiveVars
      BY <2>2
  <2>3. CASE Executed(t)
      BY <2>1, <2>3 DEF Executed
  <2> QED
      BY <2>2, <2>3 DEF RequestFails
<1>4. Base' /\ Grows(Now, Now')
  <2>1. task[t].page \subseteq 1..posted
      BY <1>1 DEF HandlerOK, Now
  <2>2. PageOf(task[t].kind, task[t].edge) \subseteq 1..posted
      BY PageType
  <2>3. stored \subseteq stored' /\ stored' \subseteq 1..posted'
      BY <1>1, <1>3, <2>1, <2>2 DEF Core, Base
  <2>4. Sound(mem', stored')
      BY <1>1, <2>3 DEF Sound, Core, Base
  <2> QED
      BY <1>1, <1>2, <1>3, <2>3, <2>4, Growing DEF Core, Base, Now, Surroundings
<1>5. CASE task[t].pc = "failed" /\ Forget(t)
  <2>1. stored' = stored
      BY <1>5 DEF RequestFails, Executed
  <2> QED
      BY <1>1, <1>4, <1>5, <2>1, CoreForget
<1>6. CASE task[t].kind = "load" /\ GoOffline(t) /\ UNCHANGED writes
  <2>1. task[t].session = 0
      BY <1>1, <1>6 DEF HandlerOK, Shape, NoTask, OtherShape, FlushShape, SyncShape, Syncs
  <2> QED
      BY <1>1, <1>4, <1>6, <2>1, CoreOffline
<1>7. CASE task' = [task EXCEPT ![t] = Thrown(t)] /\ UNCHANGED writes
  <2>1. HandlerOK(task[t], Now') /\ Now' \in Surroundings
      BY <1>1, <1>4, GrowsKeeps DEF Core, Base
  <2>2. Now'.faulty /\ faults' # 0
    <3>1. faults' # 0
        BY <1>1
    <3>2. Now'.faulty = (faults' # 0)
        BY DEF Now
    <3> QED
        BY <3>1, <3>2
  <2>3. HandlerOK(Thrown(t), Now') /\ Thrown(t).pc # "saving"
      BY <1>1, <2>1, <2>2, ThrownOK
  <2> QED
      BY <1>1, <1>4, <1>7, <2>2, <2>3, CoreStep
<1> QED
    BY <1>5, <1>6, <1>7 DEF RequestFails

-----------------------------------------------------------------------------
(* The steps that start a handler. *)

\* A free handler t becomes r, and saves nothing yet.
LEMMA CoreStarts ==
    ASSUME Core, Base', Grows(Now, Now'), NEW t \in Tasks, Free(t), NEW r,
           task' = [task EXCEPT ![t] = r], HandlerOK(r, Now'), r.pc # "saving",
           UNCHANGED <<running, db, sent, writes, faults>>,
           DiscordBotSyncAssumption
    PROVE  Core'
<1>1. task[t].pc # "saving" /\ task[t].session = 0
    BY DEF Free, NoTask
<1>2. \A s \in running : s # 0
    BY DEF Core, Base, Now, Surroundings
<1> QED
    BY <1>1, <1>2, CoreStep

LEMMA MergedKeeps ==
    ASSUME NEW x \in State, NEW S, Sound(x, S), NEW b \in BOOLEAN, DiscordBotSyncAssumption
    PROVE  /\ Merged(x, b) \in State /\ Sound(Merged(x, b), S)
           /\ Merged(x, b).known /\ Merged(x, b).tracking = b
<1> DEFINE y == IF x.known THEN x ELSE NewState
<1>1. NoState \in State /\ Sound(NoState, S)
    BY DEF NoState, State, Sound, DiscordBotSyncAssumption
<1>2. NewState \in State /\ NewState.known /\ Sound(NewState, S)
    BY <1>1 DEF NewState, State, Sound
<1>3. y \in State /\ y.known /\ Sound(y, S)
    BY <1>2
<1>4. Merged(x, b) = [y EXCEPT !.tracking = b]
    BY DEF Merged
<1> HIDE DEF y
<1> QED
    BY <1>3, <1>4 DEF State, Sound

LEMMA CoreBegin ==
    ASSUME Core, Base', Grows(Now, Now'), NEW t \in Tasks, NEW x \in State, Sound(x, stored'),
           x.known, NEW command \in BOOLEAN, Begin(t, x, command),
           UNCHANGED <<running, db, sent, writes, faults>>,
           DiscordBotSyncAssumption
    PROVE  Core'
<1> DEFINE kind == IF x.done THEN "catchup" ELSE "history"
           r == [NoTask EXCEPT !.kind = kind, !.pc = "open", !.state = x, !.online = TRUE,
                               !.command = command]
<1>1. Free(t) /\ task' = [task EXCEPT ![t] = r]
    BY DEF Begin
<1>2. kind \in {"catchup", "history"}
    OBVIOUS
<1> HIDE DEF kind
<1>3. NoTask \in Handler /\ Now' \in Surroundings
    BY NoTaskOK DEF HandlerOK, Base
<1>4. /\ r \in Handler /\ r.kind = kind /\ r.pc = "open" /\ r.next = NoTask.next
      /\ r.state = x /\ r.session = NoTask.session /\ r.page = NoTask.page
      /\ r.guarded = NoTask.guarded
    BY <1>2, <1>3 DEF Handler, Steps
<1>5. NoTask.next = "none" /\ NoTask.session = 0 /\ NoTask.page = {} /\ ~NoTask.guarded
    BY DEF NoTask
<1> HIDE DEF r
<1>6. HandlerOK(r, Now')
    BY <1>2, <1>3, <1>4, <1>5 DEF HandlerOK, Shape, SyncShape, Syncs, Past, Now, Surroundings
<1> QED
    BY <1>1, <1>4, <1>6, CoreStarts

LEMMA FlushOK ==
    ASSUME NEW E \in Surroundings, NEW S \in SUBSET (1..MaxId), S \subseteq 1..E.posted,
           NEW r, LET flush == [NoTask EXCEPT !.kind = "flush", !.pc = "create", !.page = S]
                  IN  r \in {flush, [flush EXCEPT !.command = TRUE]},
           DiscordBotSyncAssumption
    PROVE  HandlerOK(r, E) /\ r.pc # "saving"
<1>1. NoTask \in Handler /\ Sound(NoTask.state, E.stored)
    BY NoTaskOK DEF HandlerOK
<1>2. /\ r \in Handler /\ r.kind = "flush" /\ r.pc = "create" /\ r.next = NoTask.next
      /\ r.state = NoTask.state /\ r.session = NoTask.session /\ r.page = S
      /\ r.guarded = NoTask.guarded
    BY ZenonT(60), <1>1 DEF Handler, Steps
<1>3. NoTask.next = "none" /\ NoTask.session = 0 /\ ~NoTask.guarded
    BY DEF NoTask
<1> QED
    BY <1>1, <1>2, <1>3 DEF HandlerOK, Shape, FlushShape, Syncs, Past, Surroundings

LEMMA CoreFlush ==
    ASSUME Core, NEW t \in Tasks, Flush(t), DiscordBotSyncAssumption
    PROVE  Core'
<1>1. Base' /\ Grows(Now, Now')
    BY Growing DEF Flush, Core, Base, Now, Surroundings
<1> DEFINE r == [NoTask EXCEPT !.kind = "flush", !.pc = "create", !.page = buffer]
<1>3. task' = [task EXCEPT ![t] = r]
    BY DEF Flush
<1>4. /\ buffer \in SUBSET (1..MaxId) /\ buffer \subseteq 1..Now'.posted
      /\ Now' \in Surroundings
    BY <1>1 DEF Flush, Core, Base, Now, Surroundings, DiscordBotSyncAssumption
<1>5. HandlerOK(r, Now') /\ r.pc # "saving"
    BY <1>4, FlushOK
<1> HIDE DEF r
<1> QED
    BY <1>1, <1>3, <1>5, CoreStarts DEF Flush

LEMMA CoreConnect ==
    ASSUME Core, NEW t \in Tasks, Connect(t), DiscordBotSyncAssumption
    PROVE  Core'
<1>1. Base' /\ Grows(Now, Now') /\ Now' \in Surroundings
    BY Growing DEF Connect, Core, Base, Now, Surroundings
<1> DEFINE r == [NoTask EXCEPT !.kind = "load", !.pc = "refresh"]
<1>2. NoTask \in Handler /\ Sound(NoTask.state, Now'.stored)
    BY <1>1, NoTaskOK DEF HandlerOK
<1>3. /\ r \in Handler /\ r.kind = "load" /\ r.pc = "refresh" /\ r.next = NoTask.next
      /\ r.state = NoTask.state /\ r.session = NoTask.session /\ r.page = NoTask.page
      /\ r.guarded = NoTask.guarded
    BY <1>2 DEF Handler, Steps
<1>4. NoTask.next = "none" /\ NoTask.session = 0 /\ NoTask.page = {} /\ ~NoTask.guarded
    BY DEF NoTask
<1>5. task' = [task EXCEPT ![t] = r]
    BY DEF Connect
<1> HIDE DEF r
<1>6. HandlerOK(r, Now')
    BY <1>1, <1>2, <1>3, <1>4 DEF HandlerOK, Shape, OtherShape, Syncs, Past, Surroundings
<1> QED
    BY <1>1, <1>3, <1>5, <1>6, CoreStarts DEF Connect

LEMMA CoreRest ==
    ASSUME Core, Base', Grows(Now, Now'),
           UNCHANGED <<running, db, writes, sent, task, faults>>
    PROVE  Core'
<1>1. stored \subseteq stored' /\ Now \in Surroundings /\ Now' \in Surroundings
    BY DEF Core, Base, Grows, Now
<1>2. Handlers'
    BY <1>1, HandlersRest DEF Core
<1>3. Queue'
    BY <1>1, QueueRest DEF Core
<1>4. Held'
    BY DEF Core, Held
<1> QED
    BY <1>2, <1>3, <1>4 DEF Core

LEMMA CorePost ==
    ASSUME Core, Post \/ (\E m \in 1..MaxId : Edit(m)), DiscordBotSyncAssumption
    PROVE  Core'
<1>1. CASE Post
  <2>1. Base' /\ Grows(Now, Now')
    <3>1. posted \in Nat /\ posted' = posted + 1 /\ posted' \in 0..MaxId
        BY <1>1 DEF Post, Core, Base, Now, Surroundings, DiscordBotSyncAssumption
    <3>2. stored' = stored /\ stored' \subseteq 1..posted'
        BY <1>1, <3>1 DEF Post, Core, Base
    <3>3. buffer' \subseteq 1..posted'
        BY <1>1, <3>1 DEF Post, Core, Base
    <3> QED
        BY <1>1, <3>1, <3>2, <3>3, Growing DEF Post, Core, Base, Now, Surroundings
  <2> QED
      BY <1>1, <2>1, CoreRest DEF Post
<1>2. ASSUME NEW m \in 1..MaxId, Edit(m) PROVE Core'
  <2>1. buffer' \subseteq 1..posted
      BY <1>2 DEF Edit, Core, Base, Now, Surroundings, DiscordBotSyncAssumption
  <2>2. Base' /\ Grows(Now, Now')
      BY <1>2, <2>1, Growing DEF Edit, Core, Base, Now, Surroundings
  <2> QED
      BY <1>2, <2>2, CoreRest DEF Edit
<1> QED
    BY <1>1, <1>2

LEMMA CoreCatchUpTracked ==
    ASSUME Core, NEW t \in Tasks, CatchUpTracked(t), DiscordBotSyncAssumption
    PROVE  Core'
<1>1. Base' /\ Grows(Now, Now')
    BY Growing DEF CatchUpTracked, Core, Base, Now, Surroundings
<1>2. UNCHANGED <<running, db, sent, writes, faults>> /\ stored' = stored
    BY DEF CatchUpTracked
<1>3. CASE mem.known /\ mem.tracking
  <2>1. /\ Merged(mem, TRUE) \in State /\ Sound(Merged(mem, TRUE), stored')
        /\ Merged(mem, TRUE).known /\ FALSE \in BOOLEAN
      BY <1>2, MergedKeeps DEF Core, Base
  <2>2. Begin(t, Merged(mem, TRUE), FALSE)
      BY <1>3 DEF CatchUpTracked
  <2> QED
      BY <1>1, <1>2, <2>1, <2>2, CoreBegin
<1>4. CASE ~(mem.known /\ mem.tracking)
    BY <1>1, <1>2, <1>4, CoreRest DEF CatchUpTracked
<1> QED
    BY <1>3, <1>4

LEMMA CoreSyncCommand ==
    ASSUME Core, NEW t \in Tasks, SyncCommand(t), DiscordBotSyncAssumption
    PROVE  Core'
<1>1. UNCHANGED <<running, db, sent, writes, faults>> /\ stored' = stored
      /\ mem' = Merged(mem, TRUE)
    BY DEF SyncCommand
<1>2. /\ Merged(mem, TRUE) \in State /\ Sound(Merged(mem, TRUE), stored')
      /\ Merged(mem, TRUE).known /\ TRUE \in BOOLEAN
    BY <1>1, MergedKeeps DEF Core, Base
<1>3. Base' /\ Grows(Now, Now')
  <2>1. UNCHANGED <<posted, archiveVars, db, buffer, conn, faults>> /\ told' = "nothing"
      BY DEF SyncCommand
  <2>2. mem' \in State /\ Sound(mem', stored)
      BY <1>1, <1>2
  <2> QED
      BY <2>1, <2>2, Remembering DEF Core
<1> QED
    BY <1>1, <1>2, <1>3, CoreBegin DEF SyncCommand

LEMMA CoreStopCommand ==
    ASSUME Core, NEW t \in Tasks, StopCommand(t), DiscordBotSyncAssumption
    PROVE  Core'
<1> DEFINE x == Merged(mem, FALSE)
           r == [NoTask EXCEPT !.kind = "stop", !.state = mem, !.command = TRUE,
                               !.pc = "saving", !.next = "end"]
<1>1. UNCHANGED <<running, db, sent, faults>> /\ stored' = stored
      /\ mem' = x /\ Free(t)
    BY DEF StopCommand
<1>2. x \in State /\ Sound(x, stored') /\ x.known /\ ~x.tracking
    BY <1>1, MergedKeeps DEF Core, Base
<1>3. Base' /\ Grows(Now, Now') /\ Now' \in Surroundings
  <2>1. Base' /\ Grows(Now, Now')
    <3>1. UNCHANGED <<posted, archiveVars, db, buffer, conn, faults>> /\ told' = t
        BY DEF StopCommand
    <3>2. mem' \in State /\ Sound(mem', stored)
        BY <1>1, <1>2
    <3> QED
        BY <3>1, <3>2, Remembering DEF Core
  <2> QED
      BY <2>1 DEF Base
<1>4. NoTask \in Handler
    BY <1>3, NoTaskOK DEF HandlerOK
<1>5. task' = [task EXCEPT ![t] = r] /\ Enqueue(t, x)
  <2>1. [[NoTask EXCEPT !.kind = "stop", !.state = mem, !.command = TRUE]
           EXCEPT !.pc = "saving", !.next = "end"] = r
      BY <1>4 DEF Handler
  <2> QED
      BY <2>1 DEF StopCommand, Save
<1>6. /\ r \in Handler /\ r.kind = "stop" /\ r.pc = "saving" /\ r.next = "end"
      /\ r.state = mem /\ r.session = NoTask.session /\ r.page = NoTask.page
      /\ r.guarded = NoTask.guarded
    BY <1>4 DEF Handler, Steps, Nexts, Core, Base
<1>7. NoTask.session = 0 /\ NoTask.page = {} /\ ~NoTask.guarded
    BY DEF NoTask
<1> HIDE DEF r, x
<1>8. Sound(mem, stored') /\ 0 \notin running' /\ created' \in Nat
    BY <1>1 DEF StopCommand, Core, Base, Now, Surroundings
<1>9. HandlerOK(r, Now')
    BY <1>6, <1>7, <1>8 DEF HandlerOK, Shape, OtherShape, Syncs, Past, Now
<1>10. EntryOK(r, x, stored')
    BY <1>2, <1>6 DEF EntryOK
<1>11. task[t].pc # "saving" /\ task[t].session = 0 /\ 0 \notin running
    BY <1>1, <1>8 DEF Free, NoTask
<1> QED
    BY <1>1, <1>2, <1>3, <1>5, <1>6, <1>9, <1>10, <1>11, CoreStep

LEMMA CoreDisconnect ==
    ASSUME Core, NEW t \in Tasks, Disconnect(t) \/ Destroy(t), DiscordBotSyncAssumption
    PROVE  Core'
<1>1. /\ UNCHANGED <<running, db, sent, writes, faults>>
      /\ Free(t) /\ task[t].pc # "saving" /\ task[t].session = 0
    BY DEF Disconnect, Destroy, Free, NoTask
<1>2. Base' /\ Grows(Now, Now') /\ Now' \in Surroundings
  <2>1. Base' /\ Grows(Now, Now')
    <3>1. conn' \in {"off", "closing"} /\ buffer' \in {buffer, {}}
        BY DEF Disconnect, Destroy, GoOffline
    <3>2. UNCHANGED <<posted, archiveVars, queueVars, told, faults>>
        BY DEF Disconnect, Destroy
    <3> QED
        BY <3>1, <3>2, Growing DEF Core, Base, Now, Surroundings
  <2> QED
      BY <2>1 DEF Base
<1>3. CASE GoOffline(t)
    BY <1>1, <1>2, <1>3, CoreOffline
<1>4. CASE ~GoOffline(t)
  <2> DEFINE flush == [NoTask EXCEPT !.kind = "flush", !.pc = "create", !.page = buffer]
             r == [flush EXCEPT !.command = TRUE]
  <2>1. NoTask \in Handler
      BY <1>2, NoTaskOK DEF HandlerOK
  <2>2. task' = [task EXCEPT ![t] = r]
    <3>1. [NoTask EXCEPT !.kind = "flush", !.pc = "create", !.page = buffer,
                         !.command = TRUE] = r
        BY <2>1 DEF Handler
    <3> QED
        BY <1>4, <3>1 DEF Disconnect, Destroy
  <2>3. buffer \in SUBSET (1..MaxId) /\ buffer \subseteq 1..Now'.posted
    <3>1. posted' = posted
        BY DEF Disconnect, Destroy
    <3> QED
        BY <3>1 DEF Core, Base, Now, Surroundings, DiscordBotSyncAssumption
  <2>4. HandlerOK(r, Now') /\ r.pc # "saving"
      BY <1>2, <2>3, FlushOK
  <2> HIDE DEF r
  <2> QED
      BY <1>1, <1>2, <2>2, <2>4, CoreStarts
<1> QED
    BY <1>3, <1>4

-----------------------------------------------------------------------------
(* The steps of the queue, and the end of the process. *)

\* The write at the head of the queue is over, and its handler t goes on as r.
LEMMA QueuePops ==
    ASSUME Queue, Handlers, stored' = stored, writes # <<>>,
           writes' = Tail(writes), sent' = FALSE,
           NEW t, t = Head(writes).task, NEW r, r.pc # "saving",
           task' = [task EXCEPT ![t] = r]
    PROVE  Queue'
<1>1. /\ Len(writes) \in Nat /\ 1 \in 1..Len(writes) /\ Head(writes) = writes[1]
      /\ writes' \in Seq(Write) /\ Len(writes') = Len(writes) - 1
      /\ \A k \in 1..Len(writes') : k + 1 \in 1..Len(writes) /\ writes'[k] = writes[k + 1]
    BY DEF Queue
<1>2. \A k \in 1..Len(writes) : writes[k].task \in Tasks
    BY QueueWrites DEF Queue
<1>3. \A u \in Tasks : task'[u] = IF u = t THEN r ELSE task[u]
    BY <1>1, <1>2 DEF Handlers
<1>4. \A k \in 1..Len(writes') : writes'[k].task \in Tasks /\ writes'[k].task # t
  <2> SUFFICES ASSUME NEW k \in 1..Len(writes')
               PROVE  writes'[k].task \in Tasks /\ writes'[k].task # t
      OBVIOUS
  <2>1. k + 1 # 1
      OBVIOUS
  <2> QED
      BY <1>1, <1>2, <2>1 DEF Queue
<1>5. ASSUME NEW k \in 1..Len(writes')
      PROVE  /\ task'[writes'[k].task].pc = "saving"
             /\ EntryOK(task'[writes'[k].task], writes'[k].state, stored')
    BY <1>1, <1>3, <1>4 DEF Queue
<1>6. ASSUME NEW k \in 1..Len(writes'), NEW l \in 1..Len(writes'),
             writes'[k].task = writes'[l].task
      PROVE  k = l
  <2>1. k + 1 = l + 1
      BY <1>1, <1>6 DEF Queue
  <2> QED
      BY <2>1
<1>7. ASSUME NEW u \in Tasks, task'[u].pc = "saving"
      PROVE  \E k \in 1..Len(writes') : writes'[k].task = u
  <2>1. u # t /\ task[u].pc = "saving"
      BY <1>3, <1>7
  <2>2. PICK k \in 1..Len(writes) : writes[k].task = u
      BY <2>1 DEF Queue
  <2>3. k # 1
      BY <2>1, <2>2, <1>1
  <2>4. k - 1 \in 1..Len(writes') /\ (k - 1) + 1 = k
      BY <2>2, <2>3, <1>1
  <2>5. writes'[k - 1].task = u
      BY <2>2, <2>4, <1>1
  <2> QED
      BY <2>4, <2>5
<1> QED
    BY <1>1, <1>5, <1>6, <1>7 DEF Queue

\* The handler of the write at the head.
LEMMA HeadWrite ==
    ASSUME Core, writes # <<>>
    PROVE  /\ Head(writes) = writes[1] /\ 1 \in 1..Len(writes)
           /\ Head(writes).task \in Tasks /\ Head(writes).state \in State
           /\ task[Head(writes).task].pc = "saving"
           /\ EntryOK(task[Head(writes).task], Head(writes).state, stored)
<1>1. writes \in Seq(Write) /\ 1 \in 1..Len(writes) /\ Head(writes) = writes[1]
    BY DEF Core, Queue
<1> QED
    BY <1>1, QueueWrites DEF Core, Queue

LEMMA CoreSendWrite ==
    ASSUME Core, SendWrite, DiscordBotSyncAssumption
    PROVE  Core'
<1> DEFINE asked == Head(writes).state
           chosen == IF asked.known THEN asked ELSE mem
           x == PreserveStop(chosen)
           r == task[Head(writes).task]
<1>1. /\ writes # <<>> /\ db' = (IF x.known THEN x ELSE db) /\ sent' = TRUE
      /\ writes' = [writes EXCEPT ![1].state = x]
      /\ UNCHANGED <<posted, archiveVars, mem, buffer, conn, task, told, faults>>
    BY DEF SendWrite
<1>2. /\ Head(writes) = writes[1] /\ 1 \in 1..Len(writes)
      /\ asked \in State /\ EntryOK(r, asked, stored)
    BY <1>1, HeadWrite
<1>3. chosen \in State /\ Sound(chosen, stored)
    BY <1>2 DEF EntryOK, Core, Base
<1>4. x \in State /\ x = [chosen EXCEPT !.tracking = x.tracking]
      /\ (~chosen.tracking => ~x.tracking)
    BY <1>3, PreserveStopKeeps DEF Core, Base
<1> HIDE DEF x
<1>5. /\ x.known = chosen.known /\ x.oldest = chosen.oldest /\ x.newest = chosen.newest
      /\ x.done = chosen.done
    BY <1>3, <1>4 DEF State
<1>6. Sound(x, stored)
    BY <1>3, <1>5 DEF Sound
<1>7. EntryOK(r, x, stored)
    BY <1>2, <1>4, <1>5, <1>6 DEF EntryOK, EdgeFits
<1>8. Base' /\ Grows(Now, Now')
  <2>1. db' \in State /\ Sound(db', stored') /\ (db.known => db'.known)
      BY <1>1, <1>4, <1>6 DEF Core, Base
  <2> QED
      BY <1>1, <2>1, Saving DEF Core, Base, Now, Surroundings
<1>9. Handlers' /\ Held'
  <2>1. Handlers'
      BY <1>1, <1>8, HandlersRest DEF Core, Base
  <2> QED
      BY <1>1, <2>1 DEF Core, Held
<1>10. Queue'
  <2>1. writes \in Seq(Write) /\ [writes[1] EXCEPT !.state = x] \in Write
    <3>1. writes \in Seq(Write) /\ writes[1] \in Write
        BY <1>2 DEF Core, Queue
    <3> QED
        BY <1>4, <3>1 DEF Write
  <2>2. /\ writes' \in Seq(Write) /\ Len(writes') = Len(writes)
        /\ writes'[1] = [writes[1] EXCEPT !.state = x]
        /\ \A k \in 1..Len(writes) : k # 1 => writes'[k] = writes[k]
      BY <1>1, <1>2, <2>1
  <2>3. writes'[1].state = x /\ writes'[1].task = writes[1].task
      BY <1>2, <2>1, <2>2 DEF Write, Core, Queue
  <2>4. \A k \in 1..Len(writes) : writes'[k].task = writes[k].task
      BY <2>2, <2>3
  <2>5. ASSUME NEW k \in 1..Len(writes)
        PROVE  EntryOK(task[writes'[k].task], writes'[k].state, stored)
      BY <1>2, <1>7, <2>2, <2>3 DEF Core, Queue
  <2>6. writes' # <<>> /\ (writes'[1].state.known => db' = writes'[1].state)
      BY <1>1, <1>2, <2>2, <2>3
  <2> QED
      BY <1>1, <2>2, <2>4, <2>5, <2>6 DEF Core, Queue
<1> QED
    BY <1>8, <1>9, <1>10 DEF Core

\* The handler of a write that is over, and that the queue does not hold any more.
LEMMA CorePops ==
    ASSUME Core, Base', Grows(Now, Now'), stored' = stored, writes # <<>>,
           writes' = Tail(writes), sent' = FALSE,
           NEW t, t = Head(writes).task, NEW r, r.pc # "saving", HandlerOK(r, Now'),
           task' = [task EXCEPT ![t] = r],
           faults' = 0 => /\ faults = 0 /\ running' = running
                          /\ r.session = task[t].session \/ task[t].session \notin running
    PROVE  Core'
<1>1. t \in Tasks
    BY HeadWrite
<1>2. Handlers'
    BY <1>1, HandlersStep DEF Core, Base
<1>3. Queue'
    BY QueuePops DEF Core
<1>4. Held'
    BY <1>1, HeldStep DEF Core
<1> QED
    BY <1>2, <1>3, <1>4 DEF Core

LEMMA CoreAckWrite ==
    ASSUME Core, AckWrite, DiscordBotSyncAssumption
    PROVE  Core'
<1> DEFINE t == Head(writes).task
           x == Head(writes).state
           saved == PreserveStop(x)
           r == task[t]
<1>1. /\ writes # <<>> /\ sent /\ mem' = (IF saved.known THEN saved ELSE mem)
      /\ writes' = Tail(writes) /\ sent' = FALSE
      /\ told' = (IF told = t THEN "stopped" ELSE told)
      /\ UNCHANGED <<posted, archiveVars, db, buffer, conn, faults>>
    BY DEF AckWrite
<1>2. /\ task' = [task EXCEPT ![t] =
                    IF r.next = "end" THEN NoTask
                    ELSE IF r.next = "refresh"
                    THEN [NoTask EXCEPT !.kind = r.kind, !.pc = "refresh", !.command = TRUE]
                    ELSE [r EXCEPT !.pc = r.next, !.next = "none", !.state = saved,
                                   !.guarded = @ \/ r.next = "fetch"]]
    BY DEF AckWrite
<1>3. /\ t \in Tasks /\ x \in State /\ r.pc = "saving" /\ EntryOK(r, x, stored)
      /\ x.known => db = x
    BY <1>1, HeadWrite DEF Core, Queue
<1>4. r \in Handler /\ HandlerOK(r, Now)
    BY <1>3 DEF Core, Handlers
<1>5. /\ saved \in State /\ saved.known = x.known /\ saved.oldest = x.oldest
      /\ saved.newest = x.newest /\ saved.done = x.done
  <2>1. saved \in State /\ saved = [x EXCEPT !.tracking = saved.tracking]
      BY <1>3, PreserveStopKeeps DEF Core, Base
  <2> HIDE DEF saved
  <2> QED
      BY <1>3, <2>1 DEF State
<1>6. Sound(saved, stored)
    BY <1>3, <1>5 DEF EntryOK, Sound
<1> HIDE DEF t, x, saved
<1>7. Base' /\ Grows(Now, Now') /\ Now' = Now /\ Now \in Surroundings
  <2>1. mem' \in State /\ Sound(mem', stored) /\ told' \in {"nothing", "stopped"} \cup Tasks
      BY <1>1, <1>5, <1>6 DEF Core, Base
  <2> QED
      BY <1>1, <2>1, Remembering DEF Core, Base, Now
<1>8. /\ NoTask.pc # "saving" /\ HandlerOK(NoTask, Now') /\ NoTask.session = 0
      /\ NoTask \in Handler
    BY <1>7, NoTaskOK DEF NoTask, HandlerOK
<1>9. ASSUME r.next \in {"end", "refresh"}
      PROVE  faults' = 0 => faults = 0 /\ task[t].session \notin running
  <2>1. Past(r)
      BY <1>9 DEF Past
  <2> QED
      BY <1>1, <1>4, <2>1 DEF HandlerOK, Now
<1>10. CASE r.next = "end"
  <2>1. task' = [task EXCEPT ![t] = NoTask]
      BY <1>2, <1>10
  <2> QED
      BY <1>1, <1>7, <1>8, <1>9, <1>10, <2>1, CorePops DEF t
<1>11. CASE r.next = "refresh"
  <2> DEFINE q == [NoTask EXCEPT !.kind = r.kind, !.pc = "refresh", !.command = TRUE]
  <2>1. task' = [task EXCEPT ![t] = q]
      BY <1>2, <1>11
  <2>2. Syncs(r)
      BY <1>4, <1>3, <1>11 DEF HandlerOK, Shape, NoTask, OtherShape, FlushShape
  <2>3. db.known
      BY <1>3, <1>11 DEF EntryOK
  <2>4. /\ q \in Handler /\ q.kind = r.kind /\ q.pc = "refresh" /\ q.next = NoTask.next
        /\ q.state = NoTask.state /\ q.session = NoTask.session /\ q.page = NoTask.page
        /\ q.guarded = NoTask.guarded /\ q.command
      BY <1>4, <1>8 DEF Handler, Steps
  <2>5. NoTask.next = "none" /\ NoTask.session = 0 /\ NoTask.page = {} /\ ~NoTask.guarded
      BY DEF NoTask
  <2> HIDE DEF q
  <2>6. Shape(q)
      BY <2>2, <2>4, <2>5 DEF Shape, SyncShape, Syncs
  <2>7. Sound(NoTask.state, Now'.stored) /\ NoTask.session <= Now'.created /\ Now'.saved
      BY <1>7, <1>8, <2>3 DEF HandlerOK, Now
  <2>8. HandlerOK(q, Now')
      BY <1>8, <2>2, <2>4, <2>5, <2>6, <2>7 DEF HandlerOK, Syncs, Past
  <2> QED
      BY <1>1, <1>7, <1>9, <1>11, <2>1, <2>4, <2>8, CorePops DEF t
<1>12. CASE r.next \notin {"end", "refresh"}
  <2> DEFINE q == [r EXCEPT !.pc = r.next, !.next = "none", !.state = saved,
                            !.guarded = r.guarded \/ r.next = "fetch"]
  <2>1. task' = [task EXCEPT ![t] = q]
      BY <1>2, <1>12
  <2>2. /\ Syncs(r) /\ r.page = {} /\ x.known
        /\ \/ r.next = "create" /\ r.session = 0 /\ ~r.guarded
           \/ r.next = "finish" /\ r.guarded
           \/ r.next \in {"fetch", "raise"}
      BY <1>3, <1>4, <1>12 DEF HandlerOK, Shape, NoTask, OtherShape, FlushShape, SyncShape,
                               Syncs, EntryOK
  <2>3. r.next = "fetch" => EdgeFits(r, x)
      BY <1>3 DEF EntryOK
  <2>4. r.guarded \in BOOLEAN /\ (r.guarded \/ r.next = "fetch") \in BOOLEAN
      BY <1>4 DEF Handler
  <2>5. /\ q \in Handler /\ q.kind = r.kind /\ q.pc = r.next /\ q.next = "none"
        /\ q.state = saved /\ q.session = r.session /\ q.page = r.page /\ q.edge = r.edge
        /\ q.guarded = (r.guarded \/ r.next = "fetch")
      BY <1>4, <1>5, <2>2, <2>4 DEF Handler, Steps, Nexts
  <2> HIDE DEF q
  <2>6. Shape(q)
      BY <2>2, <2>4, <2>5 DEF Shape, SyncShape, Syncs
  <2>7. q.pc = "fetch" => EdgeFits(q, q.state)
      BY <1>5, <2>3, <2>5 DEF EdgeFits
  <2>8. Past(q) => Past(r)
      BY <2>5 DEF Past
  <2>9. HandlerOK(q, Now)
      BY <1>4, <1>5, <1>6, <2>2, <2>5, <2>6, <2>7, <2>8 DEF HandlerOK, Syncs, Now
  <2> QED
      BY <1>1, <1>7, <2>1, <2>2, <2>5, <2>9, CorePops DEF t
<1> QED
    BY <1>10, <1>11, <1>12

LEMMA CoreWriteFails ==
    ASSUME Core, WriteFails, DiscordBotSyncAssumption
    PROVE  Core'
<1> DEFINE t == Head(writes).task
<1>1. /\ writes # <<>> /\ writes' = Tail(writes) /\ sent' = FALSE /\ faults' = faults + 1
      /\ mem' = (IF task[t].kind = "stop" THEN task[t].state ELSE mem)
      /\ told' = (IF told = t THEN "nothing" ELSE told)
      /\ task' = [task EXCEPT ![t] = Thrown(t)]
      /\ UNCHANGED <<posted, archiveVars, db, buffer, conn>>
    BY DEF WriteFails
<1>2. t \in Tasks /\ task[t].pc = "saving" /\ faults \in Nat
    BY <1>1, HeadWrite DEF Core, Base
<1>3. HandlerOK(task[t], Now) /\ task[t] \in Handler
    BY <1>2 DEF Core, Handlers
<1> HIDE DEF t
<1>4. Base' /\ Grows(Now, Now') /\ Now \in Surroundings /\ Now' \in Surroundings
  <2>1. /\ mem' \in State /\ Sound(mem', stored')
        /\ told' \in {"nothing", "stopped"} \cup Tasks
      BY <1>1, <1>3 DEF HandlerOK, Handler, Now, Core, Base
  <2>2. Base' /\ Grows(Now, Now')
      BY SMTT(30), <1>1, <1>2, <2>1, Growing DEF Core, Base, Now, Surroundings
  <2> QED
      BY <2>2 DEF Core, Base
<1>5. Now'.faulty /\ faults' # 0
  <2>1. faults' # 0
      BY <1>1, <1>2
  <2>2. Now'.faulty = (faults' # 0)
      BY DEF Now
  <2> QED
      BY <2>1, <2>2
<1>6. HandlerOK(Thrown(t), Now') /\ Thrown(t).pc # "saving"
  <2>1. HandlerOK(task[t], Now')
      BY <1>3, <1>4, GrowsKeeps
  <2> QED
      BY <1>2, <1>4, <1>5, <2>1, ThrownOK
<1> QED
    BY <1>1, <1>4, <1>5, <1>6, CorePops DEF t

LEMMA CoreCrash ==
    ASSUME Core, Crash, DiscordBotSyncAssumption
    PROVE  Core'
<1>1. /\ faults' = faults + 1 /\ faults \in Nat /\ conn' = "off" /\ mem' = NoState
      /\ writes' = <<>> /\ sent' = FALSE /\ buffer' = {}
      /\ task' = [t \in Tasks |-> NoTask]
      /\ told' = (IF told = "stopped" THEN told ELSE "nothing")
      /\ UNCHANGED <<posted, archiveVars, db>>
    BY DEF Crash, Core, Base
<1>2. Base' /\ Now' \in Surroundings
  <2>1. NoState \in State /\ Sound(NoState, stored')
      BY DEF State, NoState, Sound, DiscordBotSyncAssumption
  <2>2. Base'
      BY <1>1, <2>1, Growing DEF Core, Base, Now, Surroundings
  <2> QED
      BY <2>2 DEF Base
<1>3. HandlerOK(NoTask, Now') /\ NoTask \in Handler /\ NoTask.pc # "saving"
    BY <1>2, NoTaskOK DEF HandlerOK, NoTask
<1>4. Handlers'
    BY <1>1, <1>3 DEF Handlers
<1>5. Queue'
  <2>1. writes' \in Seq(Write) /\ 1..Len(writes') = {}
      BY <1>1
  <2>2. \A u \in Tasks : task'[u].pc # "saving"
      BY <1>1, <1>3
  <2> QED
      BY <1>1, <2>1, <2>2 DEF Queue
<1>6. Held'
    BY <1>1 DEF Held
<1> QED
    BY <1>2, <1>4, <1>5, <1>6 DEF Core

LEMMA NextCore ==
    ASSUME Core, [Next]_vars, DiscordBotSyncAssumption
    PROVE  Core'
<1>1. CASE UNCHANGED vars
  <2>1. Base' /\ Grows(Now, Now')
      BY <1>1, Resting DEF Core
  <2> QED
      BY <1>1, <2>1, CoreRest
<1>2. ASSUME NEW t \in Tasks, Work(t) PROVE Core'
    BY <1>2, CoreReadStates, CoreLoad, CoreTakeStates, CoreOpenSession, CoreLastPage,
       CoreImport, CoreFinishSync, CoreImportLive, CoreFinishLive, CoreRefused,
       CoreStopSession, CoreRecordError, CoreCreate DEF Work, OpenNewSession
<1> QED
    BY <1>1, <1>2, CorePost, CoreCrash, CoreSendWrite, CoreAckWrite, CoreWriteFails,
       CoreConnect, CoreCatchUpTracked, CoreDisconnect, CoreSyncCommand, CoreStopCommand,
       CoreFlush, CoreRequestFails DEF Next

LEMMA InitCore ==
    ASSUME Init, DiscordBotSyncAssumption
    PROVE  Core
<1>1. NoState \in State /\ Sound(NoState, stored)
    BY DEF State, NoState, Sound, DiscordBotSyncAssumption
<1>2. Base /\ Now \in Surroundings
  <2>1. Now \in Surroundings
      BY <1>1 DEF Init, Now, Surroundings, State
  <2> QED
      BY <1>1, <2>1 DEF Init, Base
<1>3. HandlerOK(NoTask, Now) /\ NoTask \in Handler /\ NoTask.pc # "saving"
    BY <1>2, NoTaskOK DEF HandlerOK, NoTask
<1>4. Handlers
    BY <1>3 DEF Init, Handlers
<1>5. Queue
  <2>1. writes \in Seq(Write) /\ 1..Len(writes) = {}
      BY DEF Init
  <2>2. \A u \in Tasks : task[u].pc # "saving"
      BY <1>3 DEF Init
  <2> QED
      BY <2>1, <2>2 DEF Init, Queue
<1>6. Held
    BY DEF Init, Held
<1> QED
    BY <1>2, <1>4, <1>5, <1>6 DEF Core

-----------------------------------------------------------------------------
(* Stops. *)

\* Only the step of a stop command changes the stops, or one that ends it.
LEMMA StopsStep ==
    ASSUME Core, Stops, told' = told, db' = db,
           \A u \in Tasks : task'[u].kind = "stop" <=> task[u].kind = "stop",
           told = "stopped" => \/ mem'.known /\ ~mem'.tracking
                               \/ mem' = mem /\ (Quiet => Quiet')
    PROVE  Stops'
BY DEF Stops

LEMMA NoStop ==
    ASSUME Core, NEW t \in Tasks, task[t].pc # "saving"
    PROVE  task[t].kind # "stop"
BY DEF Core, Handlers, HandlerOK, Shape, NoTask, FlushShape, SyncShape, Syncs

LEMMA QuietHandlers ==
    ASSUME Core, Quiet, NEW t \in Tasks
    PROVE  /\ task[t].pc \in {"none", "refresh", "read"}
           /\ task[t].pc # "none" => task[t].kind = "load"
BY DEF Core, Quiet, Handlers, HandlerOK, Shape, NoTask, FlushShape, SyncShape, Syncs

\* Handler t is not a stop command, before the step and after it.
LEMMA StopsTurn ==
    ASSUME Core, Stops, told' = told, db' = db, NEW t \in Tasks, NEW r,
           task' = [task EXCEPT ![t] = r], task[t].pc # "saving", r.kind # "stop",
           told = "stopped" => \/ mem'.known /\ ~mem'.tracking
                               \/ mem' = mem /\ (Quiet => Quiet')
    PROVE  Stops'
<1>1. \A u \in Tasks : task'[u] = IF u = t THEN r ELSE task[u]
    BY DEF Core, Handlers
<1>2. task[t].kind # "stop"
    BY NoStop
<1> QED
    BY <1>1, <1>2, StopsStep

\* A step of a handler that no quiet time has.
LEMMA StopsBusy ==
    ASSUME Core, Stops, told' = told, db' = db, mem' = mem, NEW t \in Tasks, NEW r,
           task' = [task EXCEPT ![t] = r], task[t].pc # "saving", r.kind # "stop",
           ~Quiet
    PROVE  Stops'
BY StopsTurn

\* Whatever replaces the memory after a stop has been told is not tracking.
LEMMA StopsReads ==
    ASSUME Core, Stops, NEW t \in Tasks, ReadStates(t) \/ Load(t) \/ TakeStates(t)
    PROVE  Stops'
<1>1. task[t] \in Handler /\ HandlerOK(task[t], Now)
    BY DEF Core, Handlers
<1>2. CASE ReadStates(t)
  <2> DEFINE r == [task[t] EXCEPT !.pc = "read", !.state = db]
  <2>1. /\ task' = [task EXCEPT ![t] = r] /\ r.kind = task[t].kind /\ task[t].pc = "refresh"
        /\ told' = told /\ db' = db /\ mem' = mem /\ writes' = writes /\ buffer' = buffer
        /\ conn' = conn
      BY <1>1, <1>2 DEF ReadStates, Handler
  <2> HIDE DEF r
  <2>2. task[t].pc # "saving" /\ r.kind # "stop"
      BY <2>1, NoStop
  <2>3. Quiet => Quiet'
      BY <2>1 DEF Quiet, Core, Handlers
  <2> QED
      BY <2>1, <2>2, <2>3, StopsTurn DEF Stops
<1>3. CASE Load(t)
  <2>1. /\ task' = [task EXCEPT ![t] = NoTask] /\ NoTask.kind # "stop"
        /\ task[t].pc = "read" /\ db' = db /\ mem' = task[t].state
        /\ told' = IF mem'.known /\ ~mem'.tracking THEN told ELSE "nothing"
      BY <1>3 DEF Load, NoTask
  <2>2. CASE told' = told
    <3>1. told = "stopped" => mem'.known /\ ~mem'.tracking
        BY <2>1, <2>2
    <3> QED
        BY <2>1, <2>2, <3>1, StopsTurn
  <2>3. CASE told' = "nothing"
    <3>1. \A u \in Tasks : task'[u] = IF u = t THEN NoTask ELSE task[u]
        BY <2>1 DEF Core, Handlers
    <3>2. told' \notin Tasks
        BY <2>3, DiscordBotSyncAssumption DEF DiscordBotSyncAssumption
    <3> QED
        BY <2>1, <2>3, <3>1, <3>2 DEF Stops
  <2> QED
      BY <2>1, <2>2, <2>3
<1>4. CASE TakeStates(t)
  <2>1. /\ task' = [task EXCEPT ![t] = NoTask] /\ NoTask.kind # "stop"
        /\ task[t].pc = "read" /\ told' = told /\ db' = db
        /\ mem' = PreserveStop(task[t].state)
      BY <1>4 DEF TakeStates, NoTask
  <2>2. Syncs(task[t]) /\ task[t].state.known /\ task[t].state \in State
      BY <1>1, <1>4, <2>1 DEF TakeStates, Syncing, Syncs, HandlerOK, Handler
  <2>3. ~Quiet
      BY <2>2, QuietHandlers DEF Syncs, Quiet
  <2>4. told = "stopped" => mem'.known /\ ~mem'.tracking
      BY <2>1, <2>2, <2>3 DEF Stops, PreserveStop, State
  <2> QED
      BY <2>1, <2>4, StopsTurn
<1> QED
    BY <1>2, <1>3, <1>4

\* A handler at work stays of its kind, or it ends.
LEMMA WorkKeepsKind ==
    ASSUME Core, NEW t \in Tasks, Work(t) \/ (task[t].pc = "failed" /\ Forget(t)),
           task[t].kind # "stop", DiscordBotSyncAssumption
    PROVE  \E r : r.kind # "stop" /\ task' = [task EXCEPT ![t] = r]
<1>1. task[t] \in Handler /\ NoTask.kind # "stop"
    BY DEF Core, Handlers, NoTask
<1>2. ASSUME NEW x, NEW next, Save(t, task[t], x, next)
      PROVE  \E r : r.kind # "stop" /\ task' = [task EXCEPT ![t] = r]
  <2>1. [task[t] EXCEPT !.pc = "saving", !.next = next].kind = task[t].kind
      BY <1>1 DEF Handler
  <2> QED
      BY <1>2, <2>1 DEF Save
<1>3. ASSUME Forget(t)
      PROVE  \E r : r.kind # "stop" /\ task' = [task EXCEPT ![t] = r]
    BY <1>1, <1>2, <1>3 DEF Forget
<1>4. ASSUME CreateSession(t)
      PROVE  \E r : r.kind # "stop" /\ task' = [task EXCEPT ![t] = r]
  <2> DEFINE q == [task[t] EXCEPT !.session = created + 1]
  <2>1. [q EXCEPT !.pc = "import"].kind = task[t].kind
      BY <1>1 DEF Handler
  <2>2. ASSUME NEW e
        PROVE  [[q EXCEPT !.edge = e] EXCEPT !.pc = "saving", !.next = "fetch"].kind
               = task[t].kind
      BY <1>1 DEF Handler
  <2> QED
      BY <1>4, <2>1, <2>2 DEF CreateSession, Save
<1>5. CASE OpenSession(t)
  <2>1. ASSUME NEW s, NEW e
        PROVE  [task[t] EXCEPT !.pc = "fetch", !.session = s, !.edge = e,
                               !.guarded = TRUE].kind = task[t].kind
      BY <1>1 DEF Handler
  <2> QED
      BY <1>2, <1>4, <1>5, <2>1 DEF OpenSession
<1>6. CASE Import(t)
  <2>1. ASSUME NEW e, NEW next
        PROVE  [[task[t] EXCEPT !.edge = e] EXCEPT !.pc = "saving", !.next = next].kind
               = task[t].kind
      BY <1>1 DEF Handler
  <2> QED
      BY <1>6, <2>1 DEF Import, Save
<1>7. CASE LastPage(t) \/ ImportLive(t)
  <2>1. [task[t] EXCEPT !.pc = "finish"].kind = task[t].kind
      BY <1>1 DEF Handler
  <2> QED
      BY <1>2, <1>7, <2>1 DEF LastPage, ImportLive
<1>8. CASE FinishSync(t) \/ FinishLive(t) \/ RecordError(t)
    BY <1>1, <1>2, <1>8 DEF FinishSync, FinishLive, RecordError
<1>9. CASE Refused(t)
  <2>1. Thrown(t).kind # "stop"
      BY <1>1 DEF Thrown, Handler
  <2> QED
      BY <1>9, <2>1 DEF Refused
<1>10. CASE ReadStates(t)
  <2>1. [task[t] EXCEPT !.pc = "read", !.state = db].kind = task[t].kind
      BY <1>1 DEF Handler
  <2> QED
      BY <1>10, <2>1 DEF ReadStates
<1>11. CASE Load(t) \/ TakeStates(t)
    BY <1>1, <1>11 DEF Load, TakeStates
<1> QED
    BY <1>3, <1>4, <1>5, <1>6, <1>7, <1>8, <1>9, <1>10, <1>11
    DEF Work, OpenNewSession, StopSession

LEMMA StopsWork ==
    ASSUME Core, Stops, NEW t \in Tasks, Work(t), DiscordBotSyncAssumption
    PROVE  Stops'
<1>1. CASE ReadStates(t) \/ Load(t) \/ TakeStates(t)
    BY <1>1, StopsReads
<1>2. CASE ~(ReadStates(t) \/ Load(t) \/ TakeStates(t))
  <2>1. /\ task[t].pc \in {"open", "create", "fetch", "import", "finish", "failed", "raise"}
        /\ told' = told /\ db' = db /\ mem' = mem
      BY <1>2 DEF Work, OpenSession, OpenNewSession, LastPage, Import, FinishSync,
                  ImportLive, FinishLive, Refused, StopSession, RecordError
  <2>2. task[t].pc # "saving" /\ ~Quiet /\ task[t].kind # "stop"
      BY <2>1, QuietHandlers, NoStop
  <2>3. PICK r : r.kind # "stop" /\ task' = [task EXCEPT ![t] = r]
      BY <2>2, WorkKeepsKind
  <2> QED
      BY <2>1, <2>2, <2>3, StopsBusy
<1> QED
    BY <1>1, <1>2

LEMMA StopsOffline ==
    ASSUME Core, Stops, NEW t \in Tasks, GoOffline(t), task[t].pc # "saving",
           UNCHANGED <<told, db, mem, writes>>, buffer' \in {buffer, {}}
    PROVE  Stops'
<1>1. ASSUME NEW u \in Tasks PROVE task'[u].kind = IF u = t THEN "none" ELSE task[u].kind
    BY DEF GoOffline, NoTask, Core, Handlers, Handler
<1>2. task[t].kind # "stop"
    BY NoStop
<1>3. Quiet => Quiet'
    BY <1>1 DEF Quiet, GoOffline
<1> QED
    BY <1>1, <1>2, <1>3, StopsStep

LEMMA StopsRequestFails ==
    ASSUME Core, Stops, NEW t \in Tasks, RequestFails(t), DiscordBotSyncAssumption
    PROVE  Stops'
<1>1. /\ UNCHANGED <<told, db, mem, buffer>> /\ task[t].pc \notin {"saving", "none"}
      /\ task[t].kind # "stop" /\ task[t] \in Handler
    BY NoStop DEF RequestFails, Core, Handlers
<1>2. CASE task[t].kind = "load" /\ GoOffline(t) /\ UNCHANGED writes
    BY <1>1, <1>2, StopsOffline
<1>3. CASE ~(task[t].kind = "load" /\ GoOffline(t) /\ UNCHANGED writes)
  <2>1. ~Quiet
    <3>1. task[t].pc = "failed" \/ task[t].kind # "load"
        BY <1>3 DEF RequestFails
    <3> QED
        BY <1>1, <3>1, QuietHandlers
  <2>2. PICK r : r.kind # "stop" /\ task' = [task EXCEPT ![t] = r]
    <3>1. Thrown(t).kind # "stop"
        BY <1>1 DEF Thrown, Handler, NoTask
    <3> QED
        BY <1>1, <1>3, <3>1, WorkKeepsKind DEF RequestFails
  <2> QED
      BY <1>1, <2>1, <2>2, StopsBusy
<1> QED
    BY <1>2, <1>3

LEMMA StopsStarts ==
    ASSUME Core, Stops, NEW t \in Tasks, DiscordBotSyncAssumption,
           \/ Connect(t) \/ CatchUpTracked(t) \/ Disconnect(t) \/ Destroy(t) \/ Flush(t)
    PROVE  Stops'
<1>1. NoTask \in Handler
    BY NoTaskOK DEF HandlerOK, Core, Base
<1>2. Free(t) => task[t].pc # "saving"
    BY DEF Free, NoTask
<1>3. CASE Connect(t)
  <2> DEFINE r == [NoTask EXCEPT !.kind = "load", !.pc = "refresh"]
  <2>1. r.kind = "load"
      BY <1>1 DEF Handler
  <2>2. /\ task' = [task EXCEPT ![t] = r] /\ Free(t) /\ conn' = "login"
        /\ UNCHANGED <<told, db, mem, writes, buffer>>
      BY <1>3 DEF Connect
  <2> HIDE DEF r
  <2>3. Quiet => Quiet'
      BY <2>1, <2>2 DEF Quiet, Core, Handlers
  <2> QED
      BY <1>2, <2>1, <2>2, <2>3, StopsTurn DEF Stops
<1>4. CASE CatchUpTracked(t)
  <2>1. ~Quiet /\ UNCHANGED <<told, db, mem>>
      BY <1>4 DEF CatchUpTracked, Quiet
  <2>2. CASE UNCHANGED task
      BY <2>1, <2>2, StopsStep
  <2>3. ASSUME Begin(t, Merged(mem, TRUE), FALSE) PROVE Stops'
    <3> DEFINE r == [NoTask EXCEPT
                       !.kind = IF Merged(mem, TRUE).done THEN "catchup" ELSE "history",
                       !.pc = "open", !.state = Merged(mem, TRUE), !.online = TRUE,
                       !.command = FALSE]
    <3>1. r.kind # "stop"
        BY <1>1 DEF Handler
    <3>2. Free(t) /\ task' = [task EXCEPT ![t] = r]
        BY <2>3 DEF Begin
    <3> QED
        BY <1>2, <2>1, <3>1, <3>2, StopsBusy
  <2> QED
      BY <1>4, <2>2, <2>3 DEF CatchUpTracked
<1>5. CASE GoOffline(t) /\ (Disconnect(t) \/ Destroy(t))
    BY <1>2, <1>5, StopsOffline DEF Disconnect, Destroy
<1>6. CASE Flush(t) \/ (Disconnect(t) /\ ~GoOffline(t))
  <2> DEFINE flush == [NoTask EXCEPT !.kind = "flush", !.pc = "create", !.page = buffer]
  <2>1. ~Quiet /\ UNCHANGED <<told, db, mem>> /\ Free(t)
      BY <1>6 DEF Flush, Disconnect, Quiet
  <2>2. flush.kind # "stop"
      BY <1>1 DEF Handler
  <2>3. [NoTask EXCEPT !.kind = "flush", !.pc = "create", !.page = buffer,
                       !.command = TRUE].kind # "stop"
      BY <1>1 DEF Handler
  <2>4. \E r : r.kind # "stop" /\ task' = [task EXCEPT ![t] = r]
      BY <1>6, <2>2, <2>3 DEF Flush, Disconnect
  <2> QED
      BY <1>2, <2>1, <2>4, StopsBusy
<1> QED
    BY <1>3, <1>4, <1>5, <1>6 DEF Destroy

\* A sync command forgets the stop before it, and a stop command is the stop told of
\* from now on.
LEMMA StopsCommands ==
    ASSUME Core, Stops, NEW t \in Tasks, SyncCommand(t) \/ StopCommand(t),
           DiscordBotSyncAssumption
    PROVE  Stops'
<1>1. NoTask \in Handler /\ task[t] = NoTask /\ NoTask.kind # "stop"
    BY NoTaskOK DEF HandlerOK, Core, Base, SyncCommand, StopCommand, Begin, Free, NoTask
<1>2. CASE SyncCommand(t)
  <2> DEFINE x == Merged(mem, TRUE)
             r == [NoTask EXCEPT !.kind = IF x.done THEN "catchup" ELSE "history",
                                 !.pc = "open", !.state = x, !.online = TRUE,
                                 !.command = TRUE]
  <2>1. r.kind # "stop"
      BY <1>1 DEF Handler
  <2>2. task' = [task EXCEPT ![t] = r] /\ told' = "nothing"
      BY <1>2 DEF SyncCommand, Begin
  <2> HIDE DEF r
  <2>3. \A u \in Tasks : task'[u] = IF u = t THEN r ELSE task[u]
      BY <2>2 DEF Core, Handlers
  <2>4. told' \notin Tasks
      BY <2>2 DEF DiscordBotSyncAssumption
  <2> QED
      BY <2>1, <2>2, <2>3, <2>4 DEF Stops
<1>3. CASE StopCommand(t)
  <2> DEFINE q == [NoTask EXCEPT !.kind = "stop", !.state = mem, !.command = TRUE]
             r == [q EXCEPT !.pc = "saving", !.next = "end"]
  <2>1. r.kind = "stop"
      BY <1>1 DEF Handler
  <2>2. /\ task' = [task EXCEPT ![t] = r] /\ told' = t
        /\ \A u \in Tasks : task[u].kind # "stop"
      BY <1>3 DEF StopCommand, Save
  <2> HIDE DEF r
  <2>3. \A u \in Tasks : task'[u] = IF u = t THEN r ELSE task[u]
      BY <2>2 DEF Core, Handlers
  <2>4. told' # "stopped"
      BY <2>2 DEF DiscordBotSyncAssumption
  <2> QED
      BY <2>1, <2>2, <2>3, <2>4 DEF Stops
<1> QED
    BY <1>2, <1>3

LEMMA StopsPost ==
    ASSUME Core, Stops, Post \/ \E m \in 1..MaxId : Edit(m)
    PROVE  Stops'
<1>1. UNCHANGED <<told, db, mem, writes, task, conn>>
    BY DEF Post, Edit
<1>2. Quiet => buffer' = buffer
    BY DEF Quiet, Post, Edit, NoState
<1>3. Quiet => Quiet'
    BY <1>1, <1>2 DEF Quiet
<1> QED
    BY <1>1, <1>3, StopsStep

\* An executed write keeps the tracking of the backend off, and an answered one that
\* of the memory.
LEMMA StopsSendWrite ==
    ASSUME Core, Stops, SendWrite
    PROVE  Stops'
<1> DEFINE asked == Head(writes).state
           x == PreserveStop(IF asked.known THEN asked ELSE mem)
<1>1. /\ writes # <<>> /\ db' = (IF x.known THEN x ELSE db)
      /\ UNCHANGED <<told, mem, task>>
    BY DEF SendWrite
<1>2. (IF asked.known THEN asked ELSE mem) \in State
    BY <1>1, HeadWrite DEF Core, Base
<1>3. mem.known /\ ~mem.tracking => ~x.tracking
    BY <1>2, PreserveStopKeeps DEF Core, Base
<1> HIDE DEF x
<1>4. ~Quiet
    BY <1>1 DEF Quiet
<1> QED
    BY <1>1, <1>3, <1>4 DEF Stops

\* Only a history or a catch-up goes on after its write.
LEMMA SavingGoesOn ==
    ASSUME NEW r, Shape(r), r.pc = "saving", r.next # "end"
    PROVE  Syncs(r)
<1>1. r # NoTask
    BY DEF NoTask
<1>2. ~(r.kind = "flush" /\ FlushShape(r))
    BY DEF FlushShape
<1> QED
    BY <1>1, <1>2 DEF Shape

LEMMA StopsAckWrite ==
    ASSUME Core, Stops, AckWrite, DiscordBotSyncAssumption
    PROVE  Stops'
<1> DEFINE t == Head(writes).task
           x == Head(writes).state
           saved == PreserveStop(x)
<1>1. /\ writes # <<>> /\ sent /\ mem' = (IF saved.known THEN saved ELSE mem)
      /\ told' = (IF told = t THEN "stopped" ELSE told) /\ db' = db
    BY DEF AckWrite
<1>2. /\ t \in Tasks /\ x \in State /\ EntryOK(task[t], x, stored) /\ task[t] \in Handler
      /\ HandlerOK(task[t], Now) /\ task[t].pc = "saving"
      /\ x.known => db = x
    BY <1>1, HeadWrite DEF Core, Queue, Handlers
<1>3. /\ saved \in State /\ saved.known = x.known
      /\ mem.known /\ ~mem.tracking => ~saved.tracking
      /\ ~x.tracking => ~saved.tracking
  <2>1. saved \in State /\ saved = [x EXCEPT !.tracking = saved.tracking]
      BY <1>2, PreserveStopKeeps DEF Core, Base
  <2>2. /\ mem.known /\ ~mem.tracking => ~saved.tracking
        /\ ~x.tracking => ~saved.tracking
      BY <1>2, PreserveStopKeeps DEF Core, Base
  <2> HIDE DEF saved
  <2> QED
      BY <1>2, <2>1, <2>2 DEF State
<1>4. PICK r : task' = [task EXCEPT ![t] = r] /\ r.kind # "stop"
  <2>1. NoTask.kind # "stop" /\ NoTask \in Handler
      BY NoTaskOK DEF NoTask, HandlerOK, Core, Base
  <2>2. task[t].next # "end" => Syncs(task[t])
      BY <1>2, SavingGoesOn DEF HandlerOK
  <2>3. Syncs(task[t]) =>
          /\ [NoTask EXCEPT !.kind = task[t].kind, !.pc = "refresh", !.command = TRUE].kind
               # "stop"
          /\ [task[t] EXCEPT !.pc = task[t].next, !.next = "none", !.state = saved,
                             !.guarded = @ \/ task[t].next = "fetch"].kind # "stop"
      BY <1>2, <2>1 DEF Handler, Syncs
  <2> QED
      BY <2>1, <2>2, <2>3 DEF AckWrite
<1> HIDE DEF t, x, saved
<1>5. \A u \in Tasks : task'[u] = IF u = t THEN r ELSE task[u]
    BY <1>4 DEF Core, Handlers
<1>6. ~Quiet
    BY <1>1 DEF Quiet
<1>7. CASE told = t
  <2>1. task[t].kind = "stop"
      BY <1>2, <1>7 DEF Stops
  <2>2. x.known /\ ~x.tracking
      BY <1>2, <2>1 DEF EntryOK
  <2>3. told' = "stopped" /\ "stopped" \notin Tasks
      BY <1>1, <1>7 DEF DiscordBotSyncAssumption
  <2>4. \A u \in Tasks : task'[u].kind # "stop"
      BY <1>2, <1>4, <1>5, <2>1 DEF Stops
  <2> QED
      BY <1>1, <1>2, <1>3, <2>2, <2>3, <2>4 DEF Stops
<1>8. CASE told # t
  <2>1. told' = told
      BY <1>1, <1>8
  <2>2. told = "stopped" => mem'.known /\ ~mem'.tracking
      BY <1>1, <1>3, <1>6 DEF Stops
  <2> QED
      BY <1>1, <1>4, <1>5, <1>8, <2>1, <2>2 DEF Stops
<1> QED
    BY <1>7, <1>8

LEMMA StopsEnds ==
    ASSUME Core, Stops, WriteFails \/ Crash, DiscordBotSyncAssumption
    PROVE  Stops'
<1>1. CASE WriteFails
  <2> DEFINE t == Head(writes).task
  <2>1. /\ mem' = (IF task[t].kind = "stop" THEN task[t].state ELSE mem)
        /\ told' = (IF told = t THEN "nothing" ELSE told) /\ db' = db
        /\ task' = [task EXCEPT ![t] = Thrown(t)] /\ writes # <<>>
      BY <1>1 DEF WriteFails
  <2>2. t \in Tasks /\ task[t] \in Handler /\ HandlerOK(task[t], Now)
      BY <2>1, HeadWrite DEF Core, Handlers
  <2> HIDE DEF t
  <2>3. Thrown(t).kind # "stop"
      BY <2>2 DEF Thrown, Handler, HandlerOK, Shape, NoTask, OtherShape, Syncing, FlushShape,
                  SyncShape, Syncs
  <2>4. \A u \in Tasks : task'[u] = IF u = t THEN Thrown(t) ELSE task[u]
      BY <2>1 DEF Core, Handlers
  <2>5. ~Quiet /\ "nothing" \notin Tasks
      BY <2>1 DEF Quiet, DiscordBotSyncAssumption
  <2> QED
      BY <2>1, <2>2, <2>3, <2>4, <2>5 DEF Stops
<1>2. CASE Crash
  <2>1. /\ told' = (IF told = "stopped" THEN told ELSE "nothing") /\ db' = db
        /\ conn' = "off" /\ mem' = NoState /\ writes' = <<>> /\ buffer' = {}
        /\ task' = [t \in Tasks |-> NoTask]
      BY <1>2 DEF Crash
  <2>2. NoTask.kind = "none"
      BY DEF NoTask
  <2>3. Quiet'
      BY <2>1, <2>2 DEF Quiet
  <2>4. told' \notin Tasks
      BY <2>1 DEF DiscordBotSyncAssumption
  <2> QED
      BY <2>1, <2>2, <2>3, <2>4 DEF Stops
<1> QED
    BY <1>1, <1>2

LEMMA NextStops ==
    ASSUME Core, Stops, [Next]_vars, DiscordBotSyncAssumption
    PROVE  Stops'
<1>1. CASE UNCHANGED vars
    BY <1>1 DEF Stops, Quiet
<1> QED
    BY <1>1, StopsWork, StopsRequestFails, StopsStarts, StopsCommands, StopsPost,
       StopsSendWrite, StopsAckWrite, StopsEnds DEF Next

-----------------------------------------------------------------------------
(* Live messages. *)

\* As long as nothing fails, a batch that is not yet archived is before its import.
LEMMA BatchIsStored ==
    ASSUME Core, faults = 0, NEW t \in Tasks
    PROVE  \/ task[t].page \subseteq stored
           \/ task[t].kind = "flush" /\ task[t].pc \in {"create", "import"}
<1>1. HandlerOK(task[t], Now) /\ ~Now.faulty
  <2>1. Now.faulty = (faults # 0)
      BY DEF Now
  <2> QED
      BY <2>1 DEF Core, Handlers
<1> QED
    BY <1>1 DEF HandlerOK, Shape, NoTask, OtherShape, FlushShape, SyncShape, Syncs, Now

\* Such a batch stays in hand through every step that is not a failure.
LEMMA BatchIsKept ==
    ASSUME Core, Next, faults' = 0, NEW u \in Tasks, task[u].kind = "flush",
           task[u].pc \in {"create", "import"}
    PROVE  task'[u].page = task[u].page
<1>1. task \in [Tasks -> Handler] /\ task[u] \in Handler /\ faults \in Nat /\ task[u] # NoTask
    BY DEF Core, Handlers, Base, NoTask
<1>2. ASSUME NEW t \in Tasks, NEW r, task' = [task EXCEPT ![t] = r], t # u
      PROVE  task'[u].page = task[u].page
    BY <1>1, <1>2
<1>3. CASE Post \/ SendWrite \/ \E m \in 1..MaxId : Edit(m)
    BY <1>3 DEF Post, SendWrite, Edit
<1>4. CASE AckWrite
  <2>1. writes # <<>>
      BY <1>4 DEF AckWrite
  <2>2. Head(writes).task \in Tasks /\ Head(writes).task # u
      BY <2>1, HeadWrite
  <2> QED
      BY <1>2, <1>4, <2>2 DEF AckWrite
<1>5. CASE Crash \/ WriteFails \/ \E t \in Tasks : RequestFails(t)
    BY <1>1, <1>5 DEF Crash, WriteFails, RequestFails
<1>6. ASSUME NEW t \in Tasks, GoOffline(t), Free(t) PROVE task'[u].page = task[u].page
  <2>1. t # u /\ task'[u] = [task[u] EXCEPT !.online = FALSE]
      BY <1>1, <1>6 DEF GoOffline, Free
  <2> QED
      BY <1>1, <2>1 DEF Handler
<1>7. ASSUME NEW t \in Tasks,
             \/ Connect(t) \/ CatchUpTracked(t) \/ Disconnect(t) \/ Destroy(t)
             \/ SyncCommand(t) \/ StopCommand(t) \/ Flush(t)
      PROVE  task'[u].page = task[u].page
  <2>1. Free(t) => t # u
      BY <1>1 DEF Free
  <2> QED
      BY <1>2, <1>6, <1>7, <2>1 DEF Connect, CatchUpTracked, Disconnect, Destroy, SyncCommand,
         StopCommand, Flush, Begin, Save
<1>8. ASSUME NEW t \in Tasks, Work(t) PROVE task'[u].page = task[u].page
  <2>1. CASE t = u
    <3>1. OpenNewSession(u) \/ ImportLive(u)
      <4>1. ~ReadStates(u) /\ ~Load(u) /\ ~TakeStates(u) /\ ~OpenSession(u) /\ ~LastPage(u)
          BY DEF ReadStates, Load, TakeStates, OpenSession, LastPage
      <4>2. /\ ~Import(u) /\ ~FinishSync(u) /\ ~FinishLive(u) /\ ~Refused(u)
            /\ ~StopSession(u) /\ ~RecordError(u)
          BY DEF Import, FinishSync, FinishLive, Refused, StopSession, RecordError, Syncing
      <4> QED
          BY <1>8, <2>1, <4>1, <4>2 DEF Work
    <3>2. CASE OpenNewSession(u)
      <4> DEFINE q == [task[u] EXCEPT !.session = created + 1]
      <4>1. task' = [task EXCEPT ![u] = [q EXCEPT !.pc = "import"]]
          BY <3>2 DEF OpenNewSession, CreateSession, Syncing
      <4>2. [q EXCEPT !.pc = "import"].page = task[u].page
          BY <1>1 DEF Handler
      <4> QED
          BY <1>1, <4>1, <4>2
    <3>3. CASE ImportLive(u)
      <4>1. task' = [task EXCEPT ![u] = [task[u] EXCEPT !.pc = "finish"]]
          BY <1>1, <3>3 DEF ImportLive
      <4>2. [task[u] EXCEPT !.pc = "finish"].page = task[u].page
          BY <1>1 DEF Handler
      <4> QED
          BY <1>1, <4>1, <4>2
    <3> QED
        BY <3>1, <3>2, <3>3
  <2>2. CASE t # u
    <3>1. \E r : task' = [task EXCEPT ![t] = r]
      <4>1. ASSUME NEW p PROVE [task EXCEPT ![t].pc = p] = [task EXCEPT ![t] = [@ EXCEPT !.pc = p]]
          OBVIOUS
      <4> QED
          BY <1>8, <4>1 DEF Work, ReadStates, Load, TakeStates, OpenSession, OpenNewSession, LastPage,
             Import, FinishSync, ImportLive, FinishLive, Refused, StopSession, RecordError,
             CreateSession, Forget, Save
    <3> QED
        BY <1>2, <2>2, <3>1
  <2> QED
      BY <2>1, <2>2
<1> QED
    BY <1>3, <1>4, <1>5, <1>7, <1>8 DEF Next

\* A buffer that is taken becomes the batch of a handler.
LEMMA BufferIsKept ==
    ASSUME Core, Next, faults' = 0, DiscordBotSyncAssumption
    PROVE  \/ buffer \subseteq buffer'
           \/ \E t \in Tasks : buffer \subseteq task'[t].page
<1>1. task \in [Tasks -> Handler] /\ faults \in Nat /\ NoTask \in Handler
    BY NoTaskOK DEF Core, Handlers, Base, HandlerOK
<1> DEFINE batch == [NoTask EXCEPT !.kind = "flush", !.pc = "create", !.page = buffer]
<1>2. ASSUME NEW t \in Tasks, Flush(t) PROVE buffer \subseteq task'[t].page
  <2>1. batch.page = buffer
      BY <1>1 DEF Handler
  <2>2. task' = [task EXCEPT ![t] = batch]
      BY <1>2 DEF Flush
  <2> QED
      BY <1>1, <2>1, <2>2
<1>3. ASSUME NEW t \in Tasks, Disconnect(t), buffer # {}
      PROVE  buffer \subseteq task'[t].page
  <2> DEFINE last == [NoTask EXCEPT !.kind = "flush", !.pc = "create", !.page = buffer,
                                    !.command = TRUE]
  <2>1. last.page = buffer
      BY <1>1 DEF Handler
  <2>2. task' = [task EXCEPT ![t] = last]
      BY <1>3 DEF Disconnect
  <2> QED
      BY <1>1, <2>1, <2>2
<1>4. CASE Crash
    BY <1>1, <1>4 DEF Crash
<1>5. ASSUME NEW t \in Tasks, Work(t) PROVE buffer' = buffer
    BY <1>5 DEF Work, ReadStates, Load, TakeStates, OpenSession, OpenNewSession, LastPage,
       Import, FinishSync, ImportLive, FinishLive, Refused, StopSession, RecordError
<1>6. ASSUME NEW t \in Tasks,
             \/ Connect(t) \/ CatchUpTracked(t) \/ Destroy(t) \/ SyncCommand(t)
             \/ StopCommand(t) \/ RequestFails(t)
      PROVE  buffer' = buffer
    BY <1>6 DEF Connect, CatchUpTracked, Destroy, SyncCommand, StopCommand, RequestFails
<1>7. CASE Post \/ SendWrite \/ AckWrite \/ WriteFails \/ \E m \in 1..MaxId : Edit(m)
    BY <1>7 DEF Post, SendWrite, AckWrite, WriteFails, Edit
<1> QED
    BY <1>2, <1>3, <1>4, <1>5, <1>6, <1>7 DEF Next

LEMMA StoredGrows ==
    ASSUME Next
    PROVE  stored \subseteq stored'
<1>1. ASSUME NEW t \in Tasks, Work(t) PROVE stored \subseteq stored'
    BY <1>1 DEF Work, ReadStates, Load, TakeStates, OpenSession, OpenNewSession, LastPage,
       Import, FinishSync, ImportLive, FinishLive, Refused, StopSession, RecordError
<1>2. ASSUME NEW t \in Tasks,
             \/ Connect(t) \/ CatchUpTracked(t) \/ Disconnect(t) \/ Destroy(t)
             \/ SyncCommand(t) \/ StopCommand(t) \/ Flush(t) \/ RequestFails(t)
      PROVE  stored \subseteq stored'
    BY <1>2 DEF Connect, CatchUpTracked, Disconnect, Destroy, SyncCommand, StopCommand,
       Flush, RequestFails, Executed
<1>3. CASE Post \/ Crash \/ SendWrite \/ AckWrite \/ WriteFails \/ \E m \in 1..MaxId : Edit(m)
    BY <1>3 DEF Post, Crash, SendWrite, AckWrite, WriteFails, Edit
<1> QED
    BY <1>1, <1>2, <1>3 DEF Next

LEMMA NextFaults ==
    ASSUME Core, Next, faults' = 0
    PROVE  faults = 0
<1>1. faults \in Nat
    BY DEF Core, Base
<1>2. ASSUME NEW t \in Tasks, Work(t) PROVE faults' = faults
    BY <1>2 DEF Work, ReadStates, Load, TakeStates, OpenSession, OpenNewSession, LastPage,
       Import, FinishSync, ImportLive, FinishLive, Refused, StopSession, RecordError
<1>3. ASSUME NEW t \in Tasks,
             \/ Connect(t) \/ CatchUpTracked(t) \/ Disconnect(t) \/ Destroy(t)
             \/ SyncCommand(t) \/ StopCommand(t) \/ Flush(t)
      PROVE  faults' = faults
    BY <1>3 DEF Connect, CatchUpTracked, Disconnect, Destroy, SyncCommand, StopCommand, Flush
<1>4. CASE Post \/ SendWrite \/ AckWrite \/ \E m \in 1..MaxId : Edit(m)
    BY <1>4 DEF Post, SendWrite, AckWrite, Edit
<1>5. CASE Crash \/ WriteFails \/ \E t \in Tasks : RequestFails(t)
    BY <1>1, <1>5 DEF Crash, WriteFails, RequestFails
<1> QED
    BY <1>2, <1>3, <1>4, <1>5 DEF Next

LEMMA NextLive ==
    ASSUME Core, [Next]_vars, DiscordBotSyncAssumption
    PROVE  [faults' = 0 => Live \subseteq Live' \cup stored']_vars
<1> SUFFICES ASSUME Next, faults' = 0, NEW m \in Live, m \notin stored'
             PROVE  m \in Live'
    OBVIOUS
<1>1. faults = 0 /\ stored \subseteq stored'
    BY NextFaults, StoredGrows
<1>2. CASE m \in buffer
    BY <1>2, BufferIsKept DEF Live
<1>3. ASSUME NEW t \in Tasks, m \in task[t].page PROVE m \in Live'
  <2>1. task[t].kind = "flush" /\ task[t].pc \in {"create", "import"}
      BY <1>1, <1>3, BatchIsStored
  <2>2. task'[t].page = task[t].page
      BY <2>1, BatchIsKept
  <2> QED
      BY <1>3, <2>2 DEF Live
<1> QED
    BY <1>2, <1>3 DEF Live

-----------------------------------------------------------------------------
(* The theorems. *)

\* Whatever the handlers of the bot interleave to, crash in between of or fail at, the
\* inductive invariant holds.
THEOREM Inductive == Spec => []IInv
<1>1. Init => IInv
  <2> SUFFICES ASSUME Init PROVE IInv
      OBVIOUS
  <2>1. Core
      BY InitCore, DiscordBotSyncAssumption
  <2>2. Stops
      BY DiscordBotSyncAssumption DEF Init, Stops, NoTask, DiscordBotSyncAssumption
  <2> QED
      BY <2>1, <2>2 DEF IInv, Core
<1>2. IInv /\ [Next]_vars => IInv'
    BY NextCore, NextStops, DiscordBotSyncAssumption DEF IInv, Core
<1> QED
    BY <1>1, <1>2, PTL DEF Spec

\* Each variable stays in its type, and a handler is in the write queue exactly once
\* while it saves and never otherwise.
THEOREM TypesKept == Spec => []TypeOK
<1>1. IInv => TypeOK
  <2> SUFFICES ASSUME IInv PROVE TypeOK
      OBVIOUS
  <2>1. ASSUME NEW t \in Tasks
        PROVE  Cardinality({k \in DOMAIN writes : writes[k].task = t})
               = IF At(t, "saving") THEN 1 ELSE 0
    <3> DEFINE K == {k \in DOMAIN writes : writes[k].task = t}
    <3>1. DOMAIN writes = 1..Len(writes)
        BY DEF IInv, Queue
    <3>2. CASE task[t].pc = "saving"
      <4>1. PICK k \in 1..Len(writes) : writes[k].task = t
          BY <3>2 DEF IInv, Queue
      <4>2. K = {k}
          BY <3>1, <4>1 DEF IInv, Queue
      <4> QED
          BY <3>2, <4>2, FS_Singleton
    <3>3. CASE task[t].pc # "saving"
      <4>1. K = {}
          BY <3>1, <3>3 DEF IInv, Queue
      <4> QED
          BY <3>3, <4>1, FS_EmptySet
    <3> QED
        BY <3>2, <3>3
  <2>2. \A k \in DOMAIN writes : writes[k].state \in State
      BY QueueWrites DEF IInv, Queue
  <2> QED
      BY <2>1, <2>2 DEF IInv, Base, Queue, Now, Surroundings, TypeOK
<1> QED
    BY <1>1, Inductive, PTL

\* A history that the saved state calls complete is in the archive down from its
\* oldest cursor, and both cursors are, whatever was interrupted or overwritten.
THEOREM CompleteHistories == Spec => []HistoryIsComplete
<1>1. IInv => HistoryIsComplete
    BY DEF IInv, Base, Sound, HistoryIsComplete
<1> QED
    BY <1>1, Inductive, PTL

\* After a stop command has answered no handler switches the tracking on again.
THEOREM StopsHold == Spec => []StopHolds
<1>1. IInv => StopHolds
    BY DEF IInv, Stops, Quiet, NoState, StopHolds
<1> QED
    BY <1>1, Inductive, PTL

\* Without a fault each running session belongs to a handler that will close it.
THEOREM NoOrphans == Spec => []NoOrphanSession
<1>1. IInv => NoOrphanSession
    BY DEF IInv, Held, NoOrphanSession
<1> QED
    BY <1>1, Inductive, PTL

\* Without a fault a live message stays in the buffer or in a batch until it is
\* archived.
THEOREM LiveMessagesKept == Spec => LiveIsKept
<1>1. IInv /\ [Next]_vars => [faults' = 0 => Live \subseteq Live' \cup stored']_vars
    BY NextLive, DiscordBotSyncAssumption DEF IInv, Core
<1> QED
    BY <1>1, Inductive, PTL DEF Spec, LiveIsKept
==============================================================================
