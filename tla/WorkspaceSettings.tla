------------------------- MODULE WorkspaceSettings -------------------------
(***************************************************************************)
(* The settings of a workspace as one page sees and changes them: the       *)
(* interaction coordinator (optimistic mutations, latest-wins reads), the    *)
(* settings page and the model selector on one side, the settings            *)
(* coordinator, the provider store and the provider registry on the other.  *)
(*                                                                           *)
(* A task is one asynchronous operation of the page: a mutation or a read.  *)
(* Its steps are what happens between two awaits.  A revision number of the  *)
(* coordinator or of the cache is only ever compared with the newest one, so *)
(* a read remembers whether it has been superseded, and whether the cache    *)
(* has been written since.                                                   *)
(*                                                                           *)
(* The settings are kept three times: by the settings page, by the model     *)
(* selector and by the workspace's cache, which gives the selector what it   *)
(* shows until an answer arrives.                                            *)
(***************************************************************************)
EXTENDS Naturals, FiniteSets

CONSTANTS
    Providers,      \* custom provider profiles
    Models,         \* chat models
    ProviderOf,     \* the provider of each model
    Indexes,        \* embedding indexes
    InitialIndex,   \* the provider of each index at the start, or NoValue
    InitialActive, InitialDefault,
    Tasks,          \* operations of the page that may be under way together
    NoValue,        \* no provider, no model, no snapshot
    MaxOps          \* bound: mutations the user starts, refreshes after job progress, chats that
                    \* are restored and requests that fail, together

ASSUME SettingsAssumption ==
    /\ NoValue \notin Providers /\ NoValue \notin Models /\ ProviderOf \in [Models -> Providers]
    /\ InitialIndex \in [Indexes -> Providers \cup {NoValue}]
    /\ InitialActive \in Indexes /\ InitialDefault \in Models \cup {NoValue} /\ MaxOps \in Nat

VARIABLES
    server,         \* the provider store and the workspace's rows in the database
    registry,       \* the providers that the backend process has been told
    page,           \* settingsState of the settings page
    cached,         \* "settings" in the workspace's cache
    menu,           \* settingsState of the model selector
    selected,       \* the model selector's selection
    chosenBy,       \* what chose it: the settings, a restored chat, which keeps its
                    \* model (preserveSessionSelection), or one that is closed by now
    task,           \* what each operation of the page is doing
    ops,            \* how many of these there were
    races           \* history: which overlaps and failures have happened

settingsVars == <<server, registry, page, cached, menu, selected, chosenBy, task, ops, races>>
selectorVars == <<cached, menu, selected, chosenBy>>
shownVars == <<page, selectorVars>>

----------------------------------------------------------------------------
(* What the settings hold. *)

Settings == [providers : SUBSET Providers, pending : SUBSET Providers,
             index : [Indexes -> Providers \cup {NoValue}],
             active : Indexes, auto : SUBSET Indexes,
             models : SUBSET Models, default : Models \cup {NoValue},
             zone : BOOLEAN]

Exists(s, i) == s.index[i] # NoValue
UsedProviders(s) == {s.index[i] : i \in {j \in Indexes : Exists(s, j)}}

OptimisticIndex == {"activate-index", "auto-sync"}
Optimistic == {"save-provider", "workspace-timezone"} \cup OptimisticIndex
SavesProvider == {"save-provider", "provider-api-key"}
Registers == SavesProvider \cup {"delete-provider"}
Checked == Registers \cup {"save-model"}
Mutations == Optimistic \cup Checked \cup
             {"create-index", "delete-index", "delete-model", "chat-default"}
PageReads == {"settings-refresh", "settings-index-refresh"}
Reads == PageReads \cup {"model-selector-settings"}

Arguments(kind) ==
    CASE kind \in Registers -> Providers
      [] kind \in {"save-model", "delete-model", "chat-default"} -> Models
      [] kind = "workspace-timezone" -> {NoValue}
      [] OTHER -> Indexes
OpsOf(kinds) == UNION {[kind : {k}, id : Arguments(k),
                        with : IF k = "create-index" THEN Providers ELSE {NoValue}] : k \in kinds}

\* What the rows of the page can offer.
Offers == OpsOf(Mutations)

\* What a confirmed operation changes: in the store or the database, and in the
\* projection that the page makes of it.
Effect(op, s) ==
    CASE op.kind \in SavesProvider -> [s EXCEPT !.providers = @ \cup {op.id}, !.pending = @ \ {op.id}]
      [] op.kind = "delete-provider" -> [s EXCEPT !.providers = @ \ {op.id}]
      [] op.kind = "create-index" -> [s EXCEPT !.index[op.id] = op.with]
      [] op.kind = "delete-index" -> [s EXCEPT !.index[op.id] = NoValue]
      [] op.kind = "activate-index" -> [s EXCEPT !.active = op.id]
      [] op.kind = "auto-sync" -> [s EXCEPT !.auto = (@ \ {op.id}) \cup ({op.id} \ @)]
      [] op.kind = "workspace-timezone" -> [s EXCEPT !.zone = ~@]
      [] op.kind = "save-model" -> [s EXCEPT !.models = @ \cup {op.id}]
      [] op.kind = "delete-model" -> [s EXCEPT !.models = @ \ {op.id}]
      [] OTHER -> s

\* ProviderStore: deleting a provider takes its models and a default of its along.
Stored(op, s) ==
    CASE op.kind = "delete-provider" ->
            [Effect(op, s) EXCEPT
                !.models = {m \in @ : ProviderOf[m] # op.id},
                !.default = IF @ \in Models /\ ProviderOf[@] = op.id THEN NoValue ELSE @]
      [] op.kind = "chat-default" -> [s EXCEPT !.default = op.id]
      [] OTHER -> Effect(op, s)

\* The store lists the models that were added and the default, if it was not.
ListChatModels(s) == s.models \cup (IF s.default = NoValue THEN {} ELSE {s.default})

\* getSettings: providers from the registry, indexes from the database, models
\* and default from the store.
GetSettings == [server EXCEPT !.providers = registry, !.models = ListChatModels(server)]

----------------------------------------------------------------------------
(* The page: which operations its rows and the selector's menu offer.  A model *)
(* of the menu can be chosen even if its provider is gone.                     *)

AppendIndexActions(op) ==
    /\ Exists(page, op.id)
    /\ op.kind \in {"activate-index", "delete-index"} => op.id # page.active

Offered(op) ==
    CASE op.kind = "save-provider" -> op.id \notin page.pending
      [] op.kind \in {"provider-api-key", "delete-provider"} -> op.id \in page.providers \ page.pending
      [] op.kind = "create-index" -> ~Exists(page, op.id) /\ op.with \in page.providers
      [] op.kind = "save-model" -> ProviderOf[op.id] \in page.providers
      [] op.kind = "delete-model" -> op.id \in page.models
      [] op.kind = "chat-default" -> op.id \in menu.models
      [] op.kind = "workspace-timezone" -> TRUE
      [] OTHER -> AppendIndexActions(op)

\* crossed: a mutation has met another one, or put off a refresh; a read of the
\* selector has seen the cache written.
IdleTask == [op |-> NoValue, stage |-> "idle", snap |-> NoValue, got |-> NoValue,
             stale |-> FALSE, crossed |-> FALSE]
Begun(op, snap) == [IdleTask EXCEPT !.op = op, !.stage = "sent", !.snap = snap]
Reading(kind) == Begun([kind |-> kind, id |-> NoValue, with |-> NoValue], NoValue)
LiveTask(t) == task[t].stage # "idle"
Runs(t, kinds) == LiveTask(t) /\ task[t].op.kind \in kinds

\* isPending: these operations share one key, the others have one for each entity.
OneKey == {"activate-index", "create-index", "save-model", "chat-default", "workspace-timezone"}
IsPending(op) == \E t \in Tasks :
    Runs(t, {op.kind}) /\ (op.kind \in OneKey \/ task[t].op.id = op.id)

\* supersede: the reads of these kinds that are under way no longer apply; and the
\* operations that are crossed by what happens.
Supersede(kinds, crossing) ==
    [t \in Tasks |-> IF LiveTask(t)
                     THEN [task[t] EXCEPT !.stale = @ \/ task[t].op.kind \in kinds,
                                          !.crossed = @ \/ task[t].op.kind \in crossing]
                     ELSE task[t]]
SelectorRead == {"model-selector-settings"}

\* applySettings of the selector: the default, else the first model whose provider is
\* there, else the first.  A restored chat keeps its model.
Preferred(s) ==
    LET available == {m \in s.models : ProviderOf[m] \in s.providers}
    IN IF s.default \in s.models \/ s.models = {} THEN s.default
       ELSE CHOOSE m \in s.models : available = {} \/ m \in available
ApplySettings(s) ==
    /\ menu' = s
    /\ IF chosenBy = "chat" THEN UNCHANGED <<selected, chosenBy>>
       ELSE selected' = Preferred(s) /\ chosenBy' = "settings"

\* updateSettings: a local change, which the cache and the selector are given at once.
\* No older read of these keys may undo it.
Local == {"settings-refresh"} \cup SelectorRead
UpdateSettings(s) == page' = s /\ cached' = s /\ ApplySettings(s)

ProjectPending(op) == [page EXCEPT !.providers = @ \cup {op.id}, !.pending = @ \cup {op.id}]
Project(op) == IF op.kind = "save-provider" THEN ProjectPending(op) ELSE Effect(op, page)

\* Overlaps of a new operation with those under way.
Overlap(op, kinds, others) ==
    LET during(ks) == \E t \in Tasks : Runs(t, ks)
    IN (op.kind \in kinds /\ during(others)) \/ (op.kind \in others /\ during(kinds))
OverlapsOf(op) ==
    {r \in {"index", "default", "mutations"} :
        CASE r = "index" -> Overlap(op, {"settings-index-refresh"}, Mutations)
          [] r = "default" -> Overlap(op, {"chat-default"}, Reads \cup Mutations)
          [] OTHER -> Overlap(op, Mutations, Mutations)}

\* A model of the menu is chosen although the settings list its provider no more.
Unavailable(op) ==
    IF op.kind = "chat-default" /\ ProviderOf[op.id] \notin page.providers THEN {"unavailable"} ELSE {}

\* A mutation that supersedes a refresh puts it off: only its own refresh makes up for it.
PutsOff == Optimistic \cup {"save-model"}
RefreshUnderWay == \E t \in Tasks :
    Runs(t, {"settings-refresh"}) /\ task[t].stage \in {"sent", "done"} /\ ~task[t].stale
Crossed(op) == (\E t \in Tasks : Runs(t, Mutations)) \/ (op.kind \in PutsOff /\ RefreshUnderWay)

\* runMutation, performMutation: project, then send the request.
Superseded(op) == CASE op.kind \in Optimistic -> Local
                    [] op.kind = "save-model" -> {"settings-refresh"}     \* beginOptimisticSave
                    [] OTHER -> {}
Snapshot(op) == CASE op.kind \in Optimistic -> page
                  [] op.kind = "chat-default" -> [model |-> selected, chosenBy |-> chosenBy]
                  [] OTHER -> NoValue
RunMutation(t, op) ==
    /\ ~LiveTask(t) /\ ops < MaxOps
    /\ Offered(op) /\ ~IsPending(op)
    /\ ops' = ops + 1
    /\ races' = races \cup OverlapsOf(op) \cup Unavailable(op)
    /\ task' = [Supersede(Superseded(op), Mutations \cup (IF op.kind \in Optimistic THEN SelectorRead ELSE {}))
                    EXCEPT ![t] = [Begun(op, Snapshot(op)) EXCEPT !.crossed = Crossed(op)]]
    /\ \/ op.kind \in Optimistic /\ UpdateSettings(Project(op))
       \/ /\ op.kind = "chat-default"             \* projectSelection
          /\ selected' = op.id /\ chosenBy' = "settings"
          /\ UNCHANGED <<page, cached, menu>>
       \/ op.kind \notin Optimistic \cup {"chat-default"} /\ UNCHANGED shownVars
    /\ UNCHANGED <<server, registry>>

----------------------------------------------------------------------------
(* The coordinator and the store. *)

\* Mutant of Refuses: the provider of an embedding index may be deleted.
RefusesIfDefault(op) ==
    CASE op.kind = "delete-provider" -> server.default \in Models /\ ProviderOf[server.default] = op.id
      [] op.kind = "save-model" -> ProviderOf[op.id] \notin registry
      [] OTHER -> FALSE

Refuses(op) ==
    CASE op.kind = "delete-provider" ->
            \/ op.id \in UsedProviders(server)
            \/ server.default \in Models /\ ProviderOf[server.default] = op.id
      [] op.kind = "save-model" -> ProviderOf[op.id] \notin registry
      [] OTHER -> FALSE

\* The checks of deleteProvider, saveChatModel and assertMutableProvider read the
\* settings and then act on what they read.  An edit that would change the URL of
\* a provider in use is refused.
CheckSettings(t) ==
    /\ Runs(t, Checked) /\ task[t].stage = "sent"
    /\ LET op == task[t].op IN
       \/ ~Refuses(op) /\ task' = [task EXCEPT ![t].stage = "checked"]
       \/ /\ Refuses(op) \/ (op.kind = "save-provider" /\ op.id \in UsedProviders(server))
          /\ task' = [task EXCEPT ![t].stage = "failed"]
    /\ UNCHANGED <<server, registry, shownVars, ops, races>>

Accepts(op) ==
    CASE op.kind = "create-index" -> op.with \in registry /\ ~Exists(server, op.id)
      [] op.kind = "delete-index" -> Exists(server, op.id) /\ op.id # server.active
      [] op.kind \in {"activate-index", "auto-sync"} -> Exists(server, op.id)
      [] op.kind = "delete-model" -> op.id # server.default
      [] OTHER -> TRUE

ReadyToExecute(t) ==
    /\ Runs(t, Mutations)
    /\ task[t].stage = IF task[t].op.kind \in Checked THEN "checked" ELSE "sent"

\* The change itself.  A provider's goes to the store first and then, with the
\* whole list of that moment, to the registry.
Execute(t) ==
    /\ ReadyToExecute(t) /\ Accepts(task[t].op)
    /\ LET op == task[t].op IN
       /\ server' = Stored(op, server)
       /\ task' = IF op.kind \in Registers
                   THEN [task EXCEPT ![t].stage = "stored", ![t].got = Stored(op, server).providers]
                   ELSE [task EXCEPT ![t].stage = "done"]
    /\ UNCHANGED <<registry, shownVars, ops, races>>

Refuse(t) ==
    /\ ReadyToExecute(t) /\ ~Accepts(task[t].op)
    /\ task' = [task EXCEPT ![t].stage = "failed"]
    /\ UNCHANGED <<server, registry, shownVars, ops, races>>

InitializeRegistry(t) ==
    /\ LiveTask(t) /\ task[t].stage = "stored"
    /\ registry' = task[t].got
    /\ task' = [task EXCEPT ![t].stage = "done"]
    /\ races' = races \cup (IF \E u \in Tasks \ {t} : LiveTask(u) /\ task[u].stage = "stored"
                            THEN {"registry"} ELSE {})
    /\ UNCHANGED <<server, shownVars, ops>>

\* A request fails before it has changed anything, or its answer is lost or late: it
\* has changed the store, and the page hears that it failed.
MutationFails(t) ==
    /\ Runs(t, Mutations) /\ task[t].stage \in {"sent", "checked", "stored", "done"}
    /\ ops < MaxOps
    /\ ops' = ops + 1
    /\ task' = [task EXCEPT ![t].stage = "failed"]
    /\ races' = races \cup (IF task[t].stage \in {"stored", "done"} THEN {"lost"} ELSE {})
    /\ UNCHANGED <<server, registry, shownVars>>

----------------------------------------------------------------------------
(* The answer reaches the page. *)

\* A confirmed mutation is committed, and then reconciled in the background.
ReconcileKind(op) == IF op.kind = "chat-default" THEN "model-selector-settings"
                     ELSE "settings-refresh"
Projected == OptimisticIndex \cup {"workspace-timezone", "chat-default"}
CommitSupersedes(op) == CASE op.kind \in Projected -> {ReconcileKind(op)}
                          [] op.kind = "save-model" -> Reads        \* commitChatModel
                          [] OTHER -> Local
\* A commit that only reconciles writes no cache.
CommitStores(op) == op.kind \notin Projected \ {"chat-default"}

\* commitSelection writes the choice into fields that applySettings does not read, so
\* what it caches has no default; prepare then shows that until its read is answered.
CacheChoice == LET s == [menu EXCEPT !.default = NoValue] IN cached' = s /\ ApplySettings(s)
Commit(t) ==
    /\ Runs(t, Mutations) /\ task[t].stage = "done"
    /\ LET op == task[t].op IN
       /\ \/ op.kind \in Projected \ {"chat-default"} /\ UNCHANGED shownVars
          \/ op.kind = "chat-default" /\ CacheChoice /\ UNCHANGED page
          \/ op.kind \notin Projected /\ UpdateSettings(Effect(op, page))
       /\ task' = [Supersede(CommitSupersedes(op), IF CommitStores(op) THEN SelectorRead ELSE {})
                       EXCEPT ![t] = Reading(ReconcileKind(op))]
    /\ UNCHANGED <<server, registry, ops, races>>

\* Mutant of Restored: what the page has projected stays.
RestoresNothing(op, snap) == page

\* A failed mutation: the exact snapshot comes back, the field alone for a time zone.
\* Nothing is read again.
Restored(op, snap) ==
    IF op.kind = "workspace-timezone" THEN [page EXCEPT !.zone = snap.zone] ELSE snap

\* What a failed mutation undoes or leaves undone besides its own change: that of
\* another mutation, which its snapshot is older than, and the refresh it put off.
Undone(t) == IF task[t].crossed THEN {"undone"} ELSE {}
\* The selector is given a default that is not the stored one, and no read follows.
Outdated(s) == IF s.default # server.default THEN {"outdated"} ELSE {}

Rollback(t) ==
    /\ Runs(t, Mutations) /\ task[t].stage = "failed"
    /\ LET op == task[t].op
           snap == task[t].snap IN
       \/ /\ op.kind \in Optimistic
          /\ UpdateSettings(Restored(op, snap))
          /\ task' = [Supersede(Local, SelectorRead) EXCEPT ![t] = IdleTask]
          /\ races' = races \cup Undone(t) \cup Outdated(Restored(op, snap))
       \/ /\ op.kind = "chat-default"             \* restoreProjectedSelection
          /\ selected' = snap.model /\ chosenBy' = snap.chosenBy
          /\ task' = [task EXCEPT ![t] = IdleTask]
          /\ UNCHANGED <<page, cached, menu, races>>
       \/ /\ op.kind \notin Optimistic \cup {"chat-default"}
          /\ task' = [task EXCEPT ![t] = IdleTask]
          /\ races' = races \cup (IF op.kind \in PutsOff THEN Undone(t) ELSE {})
          /\ UNCHANGED shownVars
    /\ UNCHANGED <<server, registry, ops>>

----------------------------------------------------------------------------
(* Reads: only the newest of a key is applied. *)

\* refreshSettings, refreshIndexState after job progress, and prepare of the selector,
\* which shows what is cached until the answer comes.
RunLatest(t, kind) ==
    /\ ~LiveTask(t)
    /\ \A u \in Tasks : ~Runs(u, {kind})       \* bound: one read of a key at a time
    /\ IF kind = "settings-index-refresh" THEN ops < MaxOps /\ ops' = ops + 1 ELSE UNCHANGED ops
    /\ task' = [task EXCEPT ![t] = Reading(kind)]
    /\ races' = races \cup OverlapsOf([kind |-> kind])
    /\ IF kind \in SelectorRead THEN ApplySettings(cached) ELSE UNCHANGED <<menu, selected, chosenBy>>
    /\ UNCHANGED <<server, registry, page, cached>>

\* prepare within a minute of what is cached: that is the answer, and the newest one.
PrepareFromCache ==
    /\ ApplySettings(cached)
    /\ task' = Supersede(SelectorRead, {})
    /\ races' = races \cup Outdated(cached)
    /\ UNCHANGED <<server, registry, page, cached, ops>>

Answer(t) ==
    /\ Runs(t, Reads) /\ task[t].stage = "sent"
    /\ task' = [task EXCEPT ![t].stage = "done", ![t].got = GetSettings]
    /\ UNCHANGED <<server, registry, shownVars, ops, races>>

\* applySettingsPayload, and refreshIndexState, which commits the whole payload too
\* although its key is its own.
ApplySettingsPayload(t) ==
    /\ Runs(t, PageReads) /\ task[t].stage = "done" /\ ~task[t].stale
    /\ page' = task[t].got /\ cached' = task[t].got
    /\ task' = [Supersede({}, SelectorRead) EXCEPT
                    ![t] = IF @.op.kind = "settings-refresh"
                           THEN [@ EXCEPT !.stage = "applied", !.got = NoValue] ELSE IdleTask]
    /\ UNCHANGED <<server, registry, menu, selected, chosenBy, ops, races>>

\* When the model suggestions have arrived, applySettingsPayload prepares the selector
\* with the page's state of that moment and does not ask whether it was superseded.
PrepareSelector(t) ==
    /\ LiveTask(t) /\ task[t].stage = "applied"
    /\ cached' = page /\ ApplySettings(page)
    /\ task' = [Supersede(SelectorRead, SelectorRead) EXCEPT ![t] = IdleTask]
    /\ UNCHANGED <<server, registry, page, ops, races>>

\* load stores what a read of the selector has brought, be it superseded or not.
LoadStores(t) ==
    cached' = IF Runs(t, SelectorRead) /\ ~task[t].crossed THEN task[t].got ELSE cached

ApplyToSelector(t) ==
    /\ Runs(t, SelectorRead) /\ task[t].stage = "done" /\ ~task[t].stale
    /\ task' = [task EXCEPT ![t] = IdleTask]
    /\ LoadStores(t) /\ ApplySettings(task[t].got)
    /\ UNCHANGED <<server, registry, page, ops, races>>

DropStale(t) ==
    /\ Runs(t, Reads) /\ task[t].stage = "done" /\ task[t].stale
    /\ task' = [task EXCEPT ![t] = IdleTask]
    /\ LoadStores(t)
    /\ UNCHANGED <<server, registry, page, menu, selected, chosenBy, ops, races>>

\* A failed read, or a failed reconciliation: a warning, nothing is undone.
ReadFails(t) ==
    /\ Runs(t, Reads) /\ task[t].stage \in {"sent", "done"} /\ ops < MaxOps
    /\ ops' = ops + 1
    /\ task' = [task EXCEPT ![t] = IdleTask]
    /\ races' = races \cup {"read"}
    /\ UNCHANGED <<server, registry, shownVars>>

\* restoreSelection of a stored chat, and its release, which shows no other model yet.
RestoreSelection(m) ==
    /\ ops < MaxOps /\ ops' = ops + 1
    /\ selected' = m /\ chosenBy' = "chat"
    /\ UNCHANGED <<server, registry, page, cached, menu, task, races>>

ReleaseSelection ==
    /\ chosenBy = "chat" /\ chosenBy' = "closed"
    /\ UNCHANGED <<server, registry, page, cached, menu, selected, task, ops, races>>

----------------------------------------------------------------------------
SettingsInit ==
    /\ server = [providers |-> Providers, pending |-> {}, index |-> InitialIndex,
                 active |-> InitialActive, auto |-> {}, models |-> Models,
                 default |-> InitialDefault, zone |-> FALSE]
    /\ registry = server.providers
    /\ page = GetSettings
    /\ cached = page /\ menu = page
    /\ selected = Preferred(page) /\ chosenBy = "settings"
    /\ task = [t \in Tasks |-> IdleTask]
    /\ ops = 0 /\ races = {}

SettingsNext ==
    \/ \E t \in Tasks :
        \/ \E op \in Offers : RunMutation(t, op)
        \/ \E kind \in Reads : RunLatest(t, kind)
        \/ CheckSettings(t) \/ Execute(t) \/ Refuse(t) \/ InitializeRegistry(t) \/ MutationFails(t)
        \/ Commit(t) \/ Rollback(t)
        \/ Answer(t) \/ ApplySettingsPayload(t) \/ PrepareSelector(t) \/ ApplyToSelector(t)
        \/ DropStale(t) \/ ReadFails(t)
    \/ PrepareFromCache \/ ReleaseSelection
    \/ \E m \in Models : RestoreSelection(m)

----------------------------------------------------------------------------
SettingsTypeOK ==
    /\ server \in Settings /\ registry \subseteq Providers
    /\ page \in Settings /\ cached \in Settings /\ menu \in Settings
    /\ selected \in Models \cup {NoValue} /\ chosenBy \in {"settings", "chat", "closed"}
    /\ \A t \in Tasks :
        /\ task[t].stage \in {"idle", "sent", "checked", "stored", "done", "applied", "failed"}
        /\ LiveTask(t) <=> task[t].stage # "idle"
        /\ Runs(t, Reads) => task[t].stage \in {"sent", "done", "applied"}
    /\ ops \in 0..MaxOps
    /\ races \subseteq {"index", "default", "mutations", "registry", "lost", "read",
                       "undone", "outdated", "unavailable"}

Quiet == \A t \in Tasks : ~LiveTask(t)
WithoutDefault(s) == [s EXCEPT !.default = NoValue]

\* What may leave the page or the selector behind: a lost answer, a failed read, a
\* refresh of the index state during a change, a default chosen while anything else is
\* under way, a mutation that failed after it had met another one or put off a refresh,
\* and an older default that the selector is given.
Undisturbed == races \cap {"lost", "read", "index", "default", "undone", "outdated"} = {}

\* Once nothing is under way the settings page shows what the store and the database
\* hold, whether the mutations were confirmed or rolled back.  The default model is not
\* part of it: the page learns a model chosen in the selector from its next refresh.
QuietPageIsServer == Quiet /\ Undisturbed => WithoutDefault(page) = WithoutDefault(GetSettings)

\* The selector then shows the stored default, although every local change of the
\* settings page gives it the page's own, older default, and a choice the cached
\* settings without one.
QuietSelectionIsDefault ==
    Quiet /\ Undisturbed /\ chosenBy = "settings" => selected = Preferred(GetSettings)

\* When no registration is on its way, the backend process knows exactly the
\* providers of the store, unless two registrations raced or one was lost.
RegistryIsStore ==
    (\A t \in Tasks : task[t].stage # "stored") /\ races \cap {"registry", "lost"} = {}
        => registry = server.providers

\* What optimistic changes, commits, rollbacks and late answers leave behind: the page,
\* the selector and the backend process agree with the store once nothing is under way.
SettingsAgree == QuietPageIsServer /\ QuietSelectionIsDefault /\ RegistryIsStore

\* No embedding index is left without its provider by operations that follow each
\* other, and no default model either, unless one was chosen whose provider the
\* settings listed no more: the checks made before a provider is deleted and the
\* choices the page offers after it leave no gap.  Checks that overlap another
\* mutation do leave one.
NoDanglingReference ==
    races \cap {"mutations", "index", "lost"} = {} =>
        /\ UsedProviders(server) \subseteq server.providers
        /\ server.default \in Models /\ "unavailable" \notin races =>
               ProviderOf[server.default] \in server.providers

SettingsSpec == SettingsInit /\ [][SettingsNext]_settingsVars
=============================================================================
