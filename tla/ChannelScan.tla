---------------------------- MODULE ChannelScan ----------------------------
(***************************************************************************)
(* The local Discord scanner: the main process scrolls a Discord channel in  *)
(* a browser view upwards, observes the messages that the page has loaded,   *)
(* and imports them in batches into an ingestion session.  Each step is what *)
(* happens between two awaits; the user may stop, or open another channel,   *)
(* between any two of them.                                                  *)
(*                                                                           *)
(* The messages of the channel are numbered, 1 is its first one.  The page   *)
(* holds a window of them; Discord adds older ones when it is scrolled to    *)
(* its top.  That is external and modelled from what the scripts read.       *)
(***************************************************************************)
EXTENDS Naturals, FiniteSets

CONSTANTS
    Newest,          \* the number of messages in the channel
    Window,          \* messages the page holds
    BatchSize,       \* importBatchSize
    Confirmations,   \* requiredTopConfirmations
    Stalls,          \* recoveryThreshold
    MaxScans,        \* bound: scans and captures the user starts
    MaxScanTroubles  \* bound: failed operations and crashes

VARIABLES
    view,            \* the page: its channel, its oldest message, scrolled to the top?
    scan,            \* the scanner and the managed scan around it
    archive,         \* messages of the channel that are stored
    noticed,         \* history: messages that scans have observed
    tally,           \* scans and troubles so far
    troubles         \* history: what has gone wrong

scanVars == <<view, scan, archive, noticed, tally, troubles>>

\* A look at the page overlaps with the next one, and one look at the top is not enough.
ASSUME ScanAssumption ==
    /\ {Newest, BatchSize, Stalls} \subseteq Nat \ {0}
    /\ {Window, Confirmations} \subseteq Nat \ {0, 1} /\ {MaxScans, MaxScanTroubles} \subseteq Nat

----------------------------------------------------------------------------
Messages == 1..Newest
Loaded == IF view.here THEN {m \in Messages : view.top <= m /\ m < view.top + Window} ELSE {}
Oldest(set) == CHOOSE m \in set : \A n \in set : m <= n

Observation == [messages : SUBSET Messages, atTop : BOOLEAN, top : 0..Newest]
NoObservation == [messages |-> {}, atTop |-> FALSE, top |-> 0]
NotScanning == [pc |-> "idle", resume |-> FALSE, cancel |-> FALSE, seen |-> {}, pending |-> {},
                obs |-> NoObservation, topId |-> 0, confirmed |-> 0, previous |-> 0, unchanged |-> 0,
                recover |-> FALSE, state |-> "none", reason |-> "none"]
ScanAt(pc) == scan.pc = pc
GoTo(pc) == [scan EXCEPT !.pc = pc]
StartsScan == tally.scans < MaxScans /\ tally' = [tally EXCEPT !.scans = @ + 1]
ScanTrouble(what) ==
    /\ tally.troubles < MaxScanTroubles
    /\ tally' = [tally EXCEPT !.troubles = @ + 1]
    /\ troubles' = troubles \cup what

----------------------------------------------------------------------------
(* The user: scans, stops, captures, other channels; and the page. *)

\* runTrackedDiscordScan: one scan at a time.
StartScan(resume) ==
    /\ ScanAt("idle") /\ view.here /\ StartsScan
    /\ resume => archive # {}
    /\ scan' = [NotScanning EXCEPT !.pc = IF resume THEN "jump" ELSE "session", !.resume = resume]
    /\ UNCHANGED <<view, archive, noticed, troubles>>

\* stop: it interrupts a script and a delay; before the scanner has started it is lost.
StopScan ==
    /\ ~ScanAt("idle") /\ ~ScanAt("finish") /\ ~scan.cancel
    /\ scan' = [scan EXCEPT !.cancel = TRUE]
    /\ UNCHANGED <<view, archive, noticed, tally, troubles>>

\* captureDiscordMessages: the last messages on display, in a session of their own.
Capture ==
    /\ ScanAt("idle") /\ StartsScan /\ Loaded # {}
    /\ \/ archive' = archive \cup Loaded /\ noticed' = noticed \cup Loaded
       \/ UNCHANGED <<archive, noticed>>
    /\ UNCHANGED <<view, scan, troubles>>

\* Another channel is opened, or the scanned one again, which shows its newest messages.
ChangeChannel ==
    /\ view' = [here |-> ~view.here, top |-> Newest, atTop |-> FALSE]
    /\ UNCHANGED <<scan, archive, noticed, tally, troubles>>

LoadOlder ==
    /\ view.here /\ view.atTop /\ view.top > 1
    /\ view' = [view EXCEPT !.top = @ - 1, !.atTop = FALSE]
    /\ UNCHANGED <<scan, archive, noticed, tally, troubles>>

----------------------------------------------------------------------------
(* runManagedDiscordScan. *)

\* jumpToResumePoint: the page opens at the oldest stored message.
Jump ==
    /\ ScanAt("jump")
    /\ view' = [here |-> TRUE, top |-> Oldest(archive), atTop |-> FALSE]
    /\ scan' = GoTo("session")
    /\ UNCHANGED <<archive, noticed, tally, troubles>>

\* createIngestionSession, then start, which resets what was asked before.
ScannerStarts ==
    /\ ScanAt("session")
    /\ scan' = IF view.here
               THEN [scan EXCEPT !.pc = "loop", !.cancel = FALSE, !.state = "running"]
               ELSE [scan EXCEPT !.pc = "finish", !.reason = "stopped"]
    /\ UNCHANGED <<view, archive, noticed, tally, troubles>>

ManagedScanFails ==
    /\ scan.pc \in {"jump", "session"}
    /\ ScanTrouble({})
    /\ scan' = NotScanning
    /\ UNCHANGED <<view, archive, noticed>>

\* finishManagedScan: whatever the scan stored is finished, and so indexed.
FinishScan ==
    /\ ScanAt("finish")
    /\ scan' = [NotScanning EXCEPT !.state = scan.state, !.reason = scan.reason]
    /\ UNCHANGED <<view, archive, noticed, tally, troubles>>

----------------------------------------------------------------------------
(* runUntilStopped: one turn of the loop. *)

\* A stop ends the loop, another channel is waited out, else the page is observed.
LoopTurn ==
    /\ ScanAt("loop")
    /\ scan' = IF scan.cancel THEN GoTo("final")
               ELSE IF view.here THEN GoTo("observe") ELSE [scan EXCEPT !.state = "waiting-channel"]
    /\ UNCHANGED <<view, archive, noticed, tally, troubles>>

\* DiscordScanOperationGuard: a stop interrupts a script, and nothing else.
ScriptInterrupted(pcs) ==
    /\ scan.pc \in pcs /\ scan.cancel
    /\ scan' = GoTo("final")
    /\ UNCHANGED <<view, archive, noticed, tally, troubles>>

\* observeMessages, findUnseenMessages, queueMessages.
ObserveMessages ==
    /\ ScanAt("observe") /\ ~scan.cancel
    /\ LET obs == [messages |-> Loaded, atTop |-> view.here /\ view.atTop,
                   top |-> IF view.here THEN view.top ELSE 0]
           new == Loaded \ (scan.seen \cup scan.pending)
       IN scan' = [scan EXCEPT !.pc = "flush", !.obs = [obs EXCEPT !.messages = new],
                               !.pending = @ \cup new]
    /\ noticed' = noticed \cup Loaded
    /\ UNCHANGED <<view, archive, tally, troubles>>

\* takeChronologicalBatch: the oldest pending messages go first.
Batch == {m \in scan.pending : Cardinality({n \in scan.pending : n < m}) < BatchSize}
MustFlush(force) == Cardinality(scan.pending) >= BatchSize \/ (force /\ scan.pending # {})

\* Mutant of ImportBatch: a batch counts as stored before it is.
ImportBatchUnstored(force) ==
    /\ MustFlush(force)
    /\ scan' = [scan EXCEPT !.pending = @ \ Batch, !.seen = @ \cup Batch]
    /\ UNCHANGED <<view, archive, noticed, tally, troubles>>

\* flushPendingMessages, one batch of it: stored, answered, and no longer pending.
ImportBatch(force) ==
    /\ MustFlush(force)
    /\ archive' = archive \cup Batch
    /\ scan' = [scan EXCEPT !.pending = @ \ Batch, !.seen = @ \cup Batch]
    /\ UNCHANGED <<view, noticed, tally, troubles>>

Flush == ScanAt("flush") /\ ImportBatch(scan.obs.atTop \/ scan.recover)

\* Mutant of Confirmed: every look at the top counts, whatever was loaded meanwhile.
ConfirmedAnyway == IF scan.obs.atTop THEN scan.confirmed + 1 ELSE 0

\* updateTopConfirmation: the same first message, at the top, with nothing new.
Confirmed ==
    LET same == scan.obs.top = scan.topId /\ scan.obs.messages = {} IN
    IF ~scan.obs.atTop THEN 0 ELSE IF same THEN scan.confirmed + 1 ELSE 1
\* DiscordScanStallMonitor.record
Moved == scan.obs.atTop \/ scan.obs.top # scan.previous \/ scan.obs.messages # {}
Unchanged == IF Moved THEN 0 ELSE scan.unchanged + 1

\* processObservation, when its batches are stored.
ProcessObservation ==
    /\ ScanAt("flush") /\ ~MustFlush(scan.obs.atTop) /\ ~scan.recover
    /\ LET next == [scan EXCEPT !.topId = IF scan.obs.atTop THEN scan.obs.top ELSE 0,
                                !.confirmed = Confirmed]
           monitored == [next EXCEPT !.previous = scan.obs.top,
                                     !.unchanged = IF Unchanged = Stalls THEN 0 ELSE Unchanged]
       IN scan' = IF Confirmed >= Confirmations THEN [next EXCEPT !.pc = "final", !.state = "completed"]
                  ELSE IF Unchanged = Stalls THEN [monitored EXCEPT !.recover = TRUE, !.state = "recovering"]
                  ELSE [monitored EXCEPT !.pc = "scroll",
                                         !.state = IF scan.obs.atTop THEN "waiting" ELSE "running"]
    /\ troubles' = troubles \cup
         (IF scan'.state = "completed" /\ scan.obs.top = scan.topId /\ scan.topId > 1
          THEN {"slow history"} ELSE {})
    /\ UNCHANGED <<view, archive, noticed, tally>>

\* recoverStalledScan: everything is flushed, then the page jumps to its top.
RecoverStalledScan ==
    /\ ScanAt("flush") /\ scan.recover /\ ~MustFlush(TRUE)
    /\ scan' = GoTo("scroll")
    /\ UNCHANGED <<view, archive, noticed, tally, troubles>>

\* scrollAndWait
ScrollAndWait ==
    /\ ScanAt("scroll") /\ ~scan.cancel
    /\ \E atTop \in {TRUE, view.atTop \/ scan.recover} : view' = [view EXCEPT !.atTop = atTop]
    /\ scan' = [scan EXCEPT !.pc = "loop", !.recover = FALSE]
    /\ UNCHANGED <<archive, noticed, tally, troubles>>

\* waitAfterError: a script that failed or did not answer in time, or an import whose
\* answer was lost, before or after the batch was stored.  The next turn tries again.
WaitAfterError ==
    /\ scan.pc \in {"observe", "flush", "scroll"} /\ (scan.cancel => ScanAt("flush"))
    /\ ScanTrouble({})
    /\ \/ UNCHANGED archive
       \/ ScanAt("flush") /\ MustFlush(scan.obs.atTop \/ scan.recover) /\ archive' = archive \cup Batch
    /\ scan' = [scan EXCEPT !.pc = "loop", !.recover = FALSE, !.state = "retrying"]
    /\ UNCHANGED <<view, noticed>>

\* After the loop everything that is pending is stored, also after a stop.
FinalFlush == ScanAt("final") /\ ImportBatch(TRUE)

\* Mutant of ScannerEnds: what does not fill a batch is left pending.
ScannerEndsUnflushed ==
    /\ ScanAt("final") /\ ~MustFlush(FALSE)
    /\ LET state == IF scan.cancel THEN "stopped" ELSE "completed" IN
       scan' = [scan EXCEPT !.pc = "finish", !.state = state, !.reason = state]
    /\ UNCHANGED <<view, archive, noticed, tally, troubles>>

ScannerEnds ==
    /\ ScanAt("final") /\ ~MustFlush(TRUE)
    /\ LET state == IF scan.cancel THEN "stopped" ELSE "completed" IN
       scan' = [scan EXCEPT !.pc = "finish", !.state = state, !.reason = state]
    /\ UNCHANGED <<view, archive, noticed, tally, troubles>>

\* Here nothing is tried again: the scan fails and what is pending is gone.
FinalFlushFails ==
    /\ ScanAt("final") /\ MustFlush(TRUE)
    /\ ScanTrouble({"pending lost"})
    /\ archive' \in {archive, archive \cup Batch}
    /\ scan' = [scan EXCEPT !.pc = "finish", !.reason = "stopped"]
    /\ UNCHANGED <<view, noticed>>

ScannerCrashes ==
    /\ ScanTrouble(IF scan.pending # {} THEN {"pending lost"} ELSE {})
    /\ scan' = NotScanning
    /\ view' = [here |-> FALSE, top |-> Newest, atTop |-> FALSE]
    /\ UNCHANGED <<archive, noticed>>

----------------------------------------------------------------------------
ScanInit ==
    /\ view = [here |-> TRUE, top |-> Newest, atTop |-> FALSE]
    /\ scan = NotScanning
    /\ archive = {} /\ noticed = {}
    /\ tally = [scans |-> 0, troubles |-> 0] /\ troubles = {}

ScanNext ==
    \/ \E resume \in BOOLEAN : StartScan(resume)
    \/ StopScan \/ Capture \/ ChangeChannel \/ LoadOlder
    \/ Jump \/ ScannerStarts \/ ManagedScanFails \/ FinishScan
    \/ LoopTurn \/ ScriptInterrupted({"observe", "scroll"}) \/ ObserveMessages
    \/ Flush \/ ProcessObservation \/ RecoverStalledScan \/ ScrollAndWait \/ WaitAfterError
    \/ FinalFlush \/ ScannerEnds \/ FinalFlushFails \/ ScannerCrashes

ScanSpec == ScanInit /\ [][ScanNext]_scanVars

----------------------------------------------------------------------------
ScanTypeOK ==
    /\ view \in [here : BOOLEAN, top : Messages, atTop : BOOLEAN]
    /\ scan \in [pc : {"idle", "jump", "session", "loop", "observe", "flush", "scroll", "final", "finish"},
                 resume : BOOLEAN, cancel : BOOLEAN, seen : SUBSET Messages, pending : SUBSET Messages,
                 obs : Observation, topId : 0..Newest, confirmed : 0..Confirmations, previous : 0..Newest,
                 unchanged : 0..(Stalls - 1), recover : BOOLEAN,
                 state : {"none", "running", "waiting-channel", "waiting", "recovering", "retrying",
                          "completed", "stopped"},
                 reason : {"none", "completed", "stopped"}]
    /\ scan.seen \subseteq archive
    /\ archive \subseteq Messages /\ noticed \subseteq Messages
    /\ tally \in [scans : 0..MaxScans, troubles : 0..MaxScanTroubles]
    /\ troubles \subseteq {"slow history", "pending lost"}

\* Nothing that a scan has discovered is dropped: when it has ended everything it
\* observed is stored, after retries, stops and changes of the channel.  Resuming
\* starts at the oldest stored message, so what is dropped would stay a gap; it is, if
\* the last flush fails or the application ends.
NothingDiscoveredIsDropped ==
    ScanAt("idle") /\ "pending lost" \notin troubles => noticed \subseteq archive

\* A scan reports the channel as completed only when all of it, from where it began up
\* to the first message, is stored: unless Discord shows the same first message at two
\* looks in a row because it takes longer to load the older ones.
CompletedScanIsWhole ==
    scan.reason = "completed" /\ troubles = {} =>
        \A m \in Messages : (\E n \in archive : n >= m) => m \in archive
=============================================================================
