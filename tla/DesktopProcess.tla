--------------------------- MODULE DesktopProcess ---------------------------
(***************************************************************************)
(* The desktop application with a local workspace and the backend process    *)
(* that it owns: the start, the recoveries after requests that have timed    *)
(* out, and the end: the closed window, the restart after a saved            *)
(* connection, a crash.  All backends listen on one port, and answer only to *)
(* the token of the run that has spawned them.                               *)
(***************************************************************************)
EXTENDS Naturals, FiniteSets

CONSTANTS
    Processes,    \* backend processes that exist together (a bound)
    NoProcess,
    Recoveries,   \* recoveries under way together: one of each transfer (a bound)
    MaxRuns,      \* bound: launches of the application
    MaxTroubles    \* bound: crashes, hangs, deaths, failures and deadlines

VARIABLES
    app,          \* the application: its phase and its run, whose token it uses
    process,      \* the backend processes: their life and their run
    child,        \* BackendProcess.process
    starting,     \* how far start is
    recovery,     \* how far each recoverAfterTimeout is
    closing,      \* how far the handler of window-all-closed is
    trouble,
    left          \* history: what has left a backend behind

processVars == <<app, process, child, starting, recovery, closing, trouble, left>>

ASSUME ProcessAssumption == NoProcess \notin Processes /\ {MaxRuns, MaxTroubles} \subseteq Nat

----------------------------------------------------------------------------
Lives == {"none", "booting", "serving", "hung"}
Gone == [life |-> "none", run |-> 0]
Alive(p) == process[p].life \in {"booting", "serving", "hung"}
Listens(p) == process[p].life \in {"serving", "hung"}
\* checkHealth: the answer of a backend that was spawned with this token.
Healthy == \E p \in Processes : process[p] = [life |-> "serving", run |-> app.run]

Trouble == trouble < MaxTroubles /\ trouble' = trouble + 1

\* spawnPythonService
Spawn ==
    \E p \in Processes :
        /\ ~Alive(p)
        /\ process' = [process EXCEPT ![p] = [life |-> "booting", run |-> app.run]]
        /\ child' = p

\* stop: the process is forgotten first, then it is killed, which takes time.
ForgetProcess == child' = NoProcess
Victim == IF child \in {p \in Processes : Alive(p)} THEN child ELSE NoProcess
Killed(p) == IF p = NoProcess THEN process ELSE [process EXCEPT ![p] = Gone]

----------------------------------------------------------------------------
(* The backend processes. *)

\* The second one on a port fails to bind, and exits.
Boots(p) ==
    /\ process[p].life = "booting"
    /\ process' = [process EXCEPT ![p] = IF \E q \in Processes : Listens(q) THEN Gone
                                         ELSE [@ EXCEPT !.life = "serving"]]
    /\ UNCHANGED <<app, child, starting, recovery, closing, trouble, left>>

Hangs(p) ==
    /\ process[p].life = "serving" /\ Trouble
    /\ process' = [process EXCEPT ![p].life = "hung"]
    /\ UNCHANGED <<app, child, starting, recovery, closing, left>>

Dies(p) ==
    /\ Alive(p) /\ Trouble
    /\ process' = [process EXCEPT ![p] = Gone]
    /\ UNCHANGED <<app, child, starting, recovery, closing, left>>

----------------------------------------------------------------------------
(* The start: initializeApplication and configureLocalRuntime. *)

Launch ==
    /\ app.phase = "off" /\ app.run < MaxRuns
    /\ app' = [phase |-> "starting", run |-> app.run + 1]
    /\ child' = NoProcess /\ starting' = "database"
    /\ UNCHANGED <<process, recovery, closing, trouble, left>>

\* ensureDatabase, then the check that finds no backend of this run.
EnsureDatabase ==
    /\ starting = "database" /\ starting' = "spawning"
    /\ UNCHANGED <<app, process, child, recovery, closing, trouble, left>>

SpawnsFirst ==
    /\ starting = "spawning" /\ ~Healthy
    /\ Spawn /\ starting' = "waiting"
    /\ UNCHANGED <<app, recovery, closing, trouble, left>>

\* waitUntilHealthy; then the settings, the window and the bot.
BackendIsHealthy ==
    /\ starting = "waiting" /\ Healthy
    /\ starting' = "none" /\ app' = [app EXCEPT !.phase = "open"]
    /\ UNCHANGED <<process, child, recovery, closing, trouble, left>>

\* assertProcessRunning: the process has exited, or has been forgotten.
ProcessIsGone == child \notin {p \in Processes : Alive(p)}

\* Mutant of StartupFails: the backend is forgotten, not killed.
StartupFailsUnstopped ==
    /\ \/ starting = "database" /\ Trouble
       \/ starting = "waiting" /\ ~Healthy /\ ProcessIsGone /\ UNCHANGED trouble
       \/ starting = "waiting" /\ ~Healthy /\ ~ProcessIsGone /\ Trouble
    /\ ForgetProcess
    /\ starting' = "none" /\ app' = [app EXCEPT !.phase = "off"]
    /\ UNCHANGED <<process, recovery, closing, left>>

\* Any error of the start stops the backend and exits: no database, a dead backend, the deadline.
StartupFails ==
    /\ \/ starting = "database" /\ Trouble
       \/ starting = "waiting" /\ ~Healthy /\ ProcessIsGone /\ UNCHANGED trouble
       \/ starting = "waiting" /\ ~Healthy /\ ~ProcessIsGone /\ Trouble
    /\ process' = Killed(Victim) /\ ForgetProcess
    /\ starting' = "none" /\ app' = [app EXCEPT !.phase = "off"]
    /\ UNCHANGED <<recovery, closing, left>>

----------------------------------------------------------------------------
(* recoverAfterTimeout: of two transfers that overlap, two at once. *)

NoRecovery == [pc |-> "none", victim |-> NoProcess]
Going(r, pc) == recovery[r].pc = pc
Goes(r, pc, victim) == recovery' = [recovery EXCEPT ![r] = [pc |-> pc, victim |-> victim]]
\* It has forgotten a process and not spawned another: the kill takes its time.
Replacing(r) == recovery[r].pc \in {"stopping", "spawning", "failing"}
Leaves(happened, what) == left' = IF happened THEN left \cup {what} ELSE left

RequestTimesOut(r) ==
    /\ app.phase = "open" /\ recovery[r] = NoRecovery
    /\ Goes(r, "checking", NoProcess)
    /\ UNCHANGED <<app, process, child, starting, closing, trouble, left>>

HealthCheckPasses(r) ==
    /\ Going(r, "checking") /\ Healthy /\ Goes(r, "none", NoProcess)
    /\ UNCHANGED <<app, process, child, starting, closing, trouble, left>>

RestartStops(r) ==
    /\ Going(r, "checking") /\ ~Healthy
    /\ Goes(r, "stopping", Victim) /\ ForgetProcess
    /\ Leaves(\E o \in Recoveries : Replacing(o), "overlap")
    /\ UNCHANGED <<app, process, starting, closing, trouble>>

OldProcessEnds(r) ==
    /\ Going(r, "stopping")
    /\ process' = Killed(recovery[r].victim)
    /\ Goes(r, "spawning", NoProcess)
    /\ UNCHANGED <<app, child, starting, closing, trouble, left>>

RestartSpawns(r) ==
    /\ Going(r, "spawning")
    /\ Spawn /\ Goes(r, "waiting", NoProcess)
    /\ Leaves(closing = "stopping", "respawn")
    /\ UNCHANGED <<app, starting, closing, trouble>>

\* It is well again, or the transfer fails: the process is gone, at once or by a deadline.
RecoveryEnds(r) ==
    /\ Going(r, "waiting") /\ (Healthy \/ ProcessIsGone)
    /\ Goes(r, "none", NoProcess)
    /\ UNCHANGED <<app, process, child, starting, closing, trouble, left>>

RecoveryGivesUp(r) ==
    /\ Going(r, "waiting") /\ ~Healthy /\ ~ProcessIsGone /\ Trouble
    /\ Goes(r, "failing", Victim) /\ ForgetProcess
    /\ Leaves(\E o \in Recoveries : Replacing(o), "overlap")
    /\ UNCHANGED <<app, process, starting, closing>>

RecoveryFails(r) ==
    /\ Going(r, "failing")
    /\ process' = Killed(recovery[r].victim)
    /\ Goes(r, "none", NoProcess)
    /\ UNCHANGED <<app, child, starting, closing, trouble, left>>

----------------------------------------------------------------------------
(* The end: window-all-closed, the restart, and a crash, which kills nobody. *)

CloseWindow ==
    /\ app.phase = "open" /\ closing = "none"
    /\ closing' = "integration"
    /\ UNCHANGED <<app, process, child, starting, recovery, trouble, left>>

ShutdownStops ==
    /\ closing = "integration"
    /\ closing' = "stopping"
    /\ process' = Killed(Victim) /\ ForgetProcess
    /\ Leaves(\E r \in Recoveries : Replacing(r), "unstopped")
    /\ UNCHANGED <<app, starting, recovery, trouble>>

\* The process of the application ends, and all that it was doing.
Ends ==
    /\ app' = [app EXCEPT !.phase = "off"]
    /\ starting' = "none" /\ recovery' = [r \in Recoveries |-> NoRecovery] /\ closing' = "none"
    /\ UNCHANGED <<process, child>>

Quit == closing = "stopping" /\ Ends /\ UNCHANGED <<trouble, left>>

\* app.relaunch and app.exit, a moment after a connection was saved: no window-all-closed is
\* emitted, so nothing stops the backend, which outlives the run that owns it.
RestartForConnection ==
    /\ app.phase = "open" /\ Ends
    /\ Leaves(\E p \in Processes : Alive(p), "relaunch")
    /\ UNCHANGED trouble

ApplicationCrashes ==
    /\ app.phase # "off" /\ Trouble /\ Ends
    /\ left' = left \cup {"crash"}

----------------------------------------------------------------------------
ProcessInit ==
    /\ app = [phase |-> "off", run |-> 0]
    /\ process = [p \in Processes |-> Gone]
    /\ child = NoProcess /\ starting = "none" /\ closing = "none"
    /\ recovery = [r \in Recoveries |-> NoRecovery]
    /\ trouble = 0 /\ left = {}

StartSteps == EnsureDatabase \/ SpawnsFirst \/ BackendIsHealthy \/ StartupFails

ProcessNext ==
    \/ \E p \in Processes : Boots(p) \/ Hangs(p) \/ Dies(p)
    \/ Launch \/ StartSteps
    \/ \E r \in Recoveries :
        \/ RequestTimesOut(r) \/ HealthCheckPasses(r) \/ RestartStops(r) \/ OldProcessEnds(r)
        \/ RestartSpawns(r) \/ RecoveryEnds(r) \/ RecoveryGivesUp(r) \/ RecoveryFails(r)
    \/ CloseWindow \/ ShutdownStops \/ Quit \/ RestartForConnection \/ ApplicationCrashes

ProcessSpec == ProcessInit /\ [][ProcessNext]_processVars

----------------------------------------------------------------------------
(* Properties *)

ProcessTypeOK ==
    /\ app \in [phase : {"off", "starting", "open"}, run : 0..MaxRuns]
    /\ process \in [Processes -> [life : Lives, run : 0..MaxRuns]]
    /\ child \in Processes \cup {NoProcess}
    /\ starting \in {"none", "database", "spawning", "waiting"}
    /\ recovery \in [Recoveries -> [pc : {"none", "checking", "stopping", "spawning", "waiting", "failing"},
                                    victim : Processes \cup {NoProcess}]]
    /\ closing \in {"none", "integration", "stopping"}
    /\ trouble \in 0..MaxTroubles
    /\ left \subseteq {"crash", "relaunch", "overlap", "respawn", "unstopped"}

\* An application that has ended leaves no backend behind that would hold the port against
\* the next run, however its start failed, its recoveries went or its window was closed.  What
\* does leave one is named: a crash, the restart after a saved connection, an end in the middle
\* of a restart of the backend, and two such restarts at once, of which one forgets the
\* process of the other.
NothingHoldsThePort ==
    app.phase = "off" /\ left = {} => \A p \in Processes : ~Alive(p)

\* A run has one backend: a restart waits for the end of the old one, unless another restart
\* has already forgotten it.
OneBackendPerRun ==
    "overlap" \notin left => Cardinality({p \in Processes : Alive(p) /\ process[p].run = app.run}) <= 1

\* Backends end with what has started them: the run, or the restart that replaces them.
NoBackendIsLeft == NothingHoldsThePort /\ OneBackendPerRun
=============================================================================
