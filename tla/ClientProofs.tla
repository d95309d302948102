---------------------------- MODULE ClientProofs ----------------------------
(***************************************************************************)
(* What holds of the components of the page, of the desktop application and  *)
(* of the bot side by side: the invariants of DesktopProofs, PageProofs and  *)
(* SettingsProofs, each for the behaviors that its component is the focus of. *)
(***************************************************************************)
EXTENDS MCClients, DesktopProofs, PageProofs, SettingsProofs, TLAPS

\* A component that is not in focus rests, in a state of few values.
DesktopInv ==
    /\ IF focus = "migration" THEN MigrationInv ELSE MigrationSleeps
    /\ IF focus = "connection" THEN ConnectionInv ELSE ConnectionRests
    /\ IF focus = "process" THEN ProcessInv ELSE ProcessRests
    /\ IF focus = "scan" THEN ScanInv ELSE ScanRests
    /\ IF focus = "bot" THEN RuntimeInv ELSE RuntimeRests

PageInv ==
    /\ IF focus = "settings" THEN SettingsInv ELSE SettingsRest
    /\ IF focus = "permissions" THEN BotInv ELSE BotPageRests
    /\ IF focus = "status" THEN StatusInv ELSE StatusRests
    /\ IF focus = "lists" THEN ListsInv ELSE ListsRest
    /\ IF focus = "chat" THEN ChatInv ELSE ChatRests
    /\ IF focus = "recent" THEN HistoryInv ELSE HistoryRests

ClientsInv == focus \in Components /\ DesktopInv /\ PageInv

-----------------------------------------------------------------------------
LEMMA ClientsStart == ASSUME Init PROVE ClientsInv
<1>1. focus \in Components
    BY DEF Init
<1>2. DesktopInv
    BY MigrationStarts, ConnectionStarts, ProcessStarts, ScanStarts, RuntimeStarts DEF Init, DesktopInv
<1>3. PageInv
    BY SettingsStart, BotStarts, StatusStarts, ListsStarts, ChatStarts, HistoryStarts DEF Init, PageInv
<1> QED
    BY <1>1, <1>2, <1>3 DEF ClientsInv

\* A step is one of each component, or leaves the component as it is.
LEMMA StepsOfTheDesktop ==
  ASSUME [Next]_vars
  PROVE  /\ focus' = focus
         /\ [MigrationNext]_migrationVars /\ [ConnectionNext]_connectionVars
         /\ [ProcessNext]_processVars /\ [ScanNext]_scanVars /\ [RuntimeNext]_runtimeVars
         /\ focus # "migration" => UNCHANGED migrationVars
         /\ focus # "connection" => UNCHANGED connectionVars
         /\ focus # "process" => UNCHANGED processVars
         /\ focus # "scan" => UNCHANGED scanVars
         /\ focus # "bot" => UNCHANGED runtimeVars
BY DEF Next, vars, desktopVars, botVars

LEMMA StepsOfThePage ==
  ASSUME [Next]_vars
  PROVE  /\ [SettingsNext]_settingsVars /\ [BotPageNext]_botPageVars /\ [StatusNext]_statusVars
         /\ [ListsNext]_listVars /\ [ChatNext]_chatVars /\ [HistoryNext]_historyVars
         /\ focus # "settings" => UNCHANGED settingsVars
         /\ focus # "permissions" => UNCHANGED botPageVars
         /\ focus # "status" => UNCHANGED statusVars
         /\ focus # "lists" => UNCHANGED listVars
         /\ focus # "chat" => UNCHANGED chatVars
         /\ focus # "recent" => UNCHANGED historyVars
<1>1. PageNext \/ UNCHANGED pageVars
    BY DEF Next, vars
<1> QED
    BY <1>1 DEF PageNext, pageVars

\* What rests goes on resting.
LEMMA PageRests ==
  ASSUME [Next]_vars
  PROVE  /\ focus # "settings" /\ SettingsRest => SettingsRest'
         /\ focus # "permissions" /\ BotPageRests => BotPageRests'
         /\ focus # "status" /\ StatusRests => StatusRests'
         /\ focus # "lists" /\ ListsRest => ListsRest'
         /\ focus # "chat" /\ ChatRests => ChatRests'
         /\ focus # "recent" /\ HistoryRests => HistoryRests'
<1>1. focus # "settings" /\ SettingsRest => SettingsRest'
    BY StepsOfThePage DEF settingsVars, SettingsRest
<1>2. focus # "permissions" /\ BotPageRests => BotPageRests'
    BY StepsOfThePage DEF botPageVars, BotPageRests
<1>3. focus # "status" /\ StatusRests => StatusRests'
    BY StepsOfThePage DEF statusVars, StatusRests
<1>4. focus # "lists" /\ ListsRest => ListsRest'
    BY StepsOfThePage DEF listVars, ListsRest
<1>5. focus # "chat" /\ ChatRests => ChatRests'
    BY StepsOfThePage DEF chatVars, ChatRests
<1>6. focus # "recent" /\ HistoryRests => HistoryRests'
    BY StepsOfThePage DEF historyVars, HistoryRests
<1> QED
    BY <1>1, <1>2, <1>3, <1>4, <1>5, <1>6

LEMMA DesktopRests ==
  ASSUME [Next]_vars
  PROVE  /\ focus # "migration" /\ MigrationSleeps => MigrationSleeps'
         /\ focus # "connection" /\ ConnectionRests => ConnectionRests'
         /\ focus # "process" /\ ProcessRests => ProcessRests'
         /\ focus # "scan" /\ ScanRests => ScanRests'
         /\ focus # "bot" /\ RuntimeRests => RuntimeRests'
<1>1. focus # "migration" /\ MigrationSleeps => MigrationSleeps'
    BY StepsOfTheDesktop DEF migrationVars, MigrationSleeps
<1>2. focus # "connection" /\ ConnectionRests => ConnectionRests'
    BY StepsOfTheDesktop DEF connectionVars, ConnectionRests
<1>3. focus # "process" /\ ProcessRests => ProcessRests'
    BY StepsOfTheDesktop DEF processVars, ProcessRests
<1>4. focus # "scan" /\ ScanRests => ScanRests'
    BY StepsOfTheDesktop DEF scanVars, ScanRests
<1>5. focus # "bot" /\ RuntimeRests => RuntimeRests'
    BY StepsOfTheDesktop DEF runtimeVars, RuntimeRests
<1> QED
    BY <1>1, <1>2, <1>3, <1>4, <1>5

LEMMA DesktopKeeps == DesktopInv /\ [Next]_vars => DesktopInv'
<1> SUFFICES ASSUME DesktopInv, [Next]_vars PROVE DesktopInv'
    OBVIOUS
<1>1. focus' = focus
    BY StepsOfTheDesktop
<1> QED
    BY <1>1, StepsOfTheDesktop, DesktopRests, MigrationKeeps, ConnectionKeeps, ProcessKeeps, ScanSteps, RuntimeSteps
       DEF DesktopInv

LEMMA PageKeeps == PageInv /\ [Next]_vars => PageInv'
<1> SUFFICES ASSUME PageInv, [Next]_vars PROVE PageInv'
    OBVIOUS
<1>1. focus' = focus
    BY StepsOfTheDesktop
<1> QED
    BY <1>1, StepsOfThePage, PageRests, SettingsSteps, BotSteps, StatusSteps, ListsSteps, ChatSteps, HistorySteps
       DEF PageInv

LEMMA ClientsKeep == ClientsInv /\ [Next]_vars => ClientsInv'
<1> SUFFICES ASSUME ClientsInv, [Next]_vars PROVE ClientsInv'
    OBVIOUS
<1>1. DesktopInv'
    BY DesktopKeeps DEF ClientsInv
<1>2. PageInv'
    BY PageKeeps DEF ClientsInv
<1>3. focus' \in Components
    BY StepsOfTheDesktop DEF ClientsInv
<1> QED
    BY <1>1, <1>2, <1>3 DEF ClientsInv

LEMMA ClientsInductive == Spec => []ClientsInv
BY ClientsStart, ClientsKeep, PTL DEF Spec

\* Side by side, every variable of the component that a behavior is about keeps its type.
THEOREM ClientsAreTyped == Spec => []ClientsTypeOK
<1>1. ClientsInv => ClientsTypeOK
  <2> SUFFICES ASSUME ClientsInv PROVE ClientsTypeOK
      OBVIOUS
  <2>1. /\ focus = "migration" => MigrationTypeOK
        /\ focus = "connection" => ConnectionTypeOK
        /\ focus = "process" => ProcessTypeOK
        /\ focus = "scan" => ScanTypeOK
        /\ focus = "bot" => RuntimeTypeOK
      BY MigrationIsTyped DEF ClientsInv, DesktopInv, ConnectionInv, ProcessInv, ScanInv, RuntimeInv
  <2>2. /\ focus = "settings" => SettingsTypeOK
        /\ focus = "permissions" => BotPageTypeOK
        /\ focus = "status" => StatusTypeOK
        /\ focus = "lists" => ListsTypeOK
        /\ focus = "chat" => ChatTypeOK
        /\ focus = "recent" => HistoryTypeOK
      BY DEF ClientsInv, PageInv, SettingsInv, BaseInv, BotInv, StatusInv, ListsInv, ChatInv, HistoryInv
  <2>3. focus \in {"settings", "permissions", "status", "lists", "chat", "recent",
                   "connection", "process", "scan", "bot", "migration"}
      BY ComponentsAssumption DEF ClientsInv
  <2> QED
      BY <2>1, <2>2, <2>3 DEF ClientsTypeOK
<1> QED
    BY <1>1, ClientsInductive, PTL

-----------------------------------------------------------------------------
(* The properties, of components that are in focus and of others at rest. *)

LEMMA SettingsPromise == PageInv => SettingsAgree /\ NoDanglingReference
<1>1. SettingsRest => SettingsAgree /\ NoDanglingReference
    BY DEF SettingsRest, SettingsAgree, QuietPageIsServer, QuietSelectionIsDefault, Undisturbed, RegistryIsStore,
           NoDanglingReference
<1> QED
    BY <1>1, SettingsAgreed, NothingDanglesNow DEF PageInv

LEMMA PermissionsPromise == PageInv => PermissionsAgree
<1>1. BotPageRests => PermissionsAgree
    BY DEF BotPageRests, PermissionsAgree, DirectoryIsStored, PageIsStored, SubjectsOfTheServer
<1> QED
    BY <1>1, PermissionsAgreed DEF PageInv

LEMMA ReadingPromise == PageInv => StatusIsFollowed /\ PagesAreInOrder
<1>1. StatusRests => StatusIsFollowed
    BY DEF StatusRests, StatusIsFollowed, FreshEntryKnowsTheEnd, CachedSummaryIsFollowed
<1>2. ListsRest => PagesAreInOrder
    BY DEF ListsRest, PagesAreInOrder, ListHasNoGap, LabelIsListed
<1> QED
    BY <1>1, <1>2, StatusFollowed, PagesInOrder DEF PageInv

LEMMA ChatPromise == PageInv => ConversationsAreStored /\ ListIsServer
<1>1. ChatRests => ConversationsAreStored
    BY DEF ChatRests, ConversationsAreStored, TurnsShareTheContext, HistoryIsOfTheChat, PersistedIsStored
<1>2. HistoryRests => ListIsServer
    BY DEF HistoryRests, ListIsServer, QuietListIsServer, DeletedChatIsGone
<1> QED
    BY <1>1, <1>2, ConversationsStored, ListIsOfServer DEF PageInv

LEMMA MigrationPromise == DesktopInv => ArchiveArrives /\ MigrationRests
<1>1. MigrationSleeps => ArchiveArrives /\ MigrationRests
  <2> SUFFICES ASSUME MigrationSleeps PROVE ArchiveArrives /\ MigrationRests
      OBVIOUS
  <2>1. file = Nil /\ \A s \in Sessions : ~session[s].indexed
      BY DEF MigrationSleeps
  <2>2. ArchiveArrives
      BY <2>1 DEF ArchiveArrives, CheckpointIsAcknowledged, CompletedIsComplete
  <2>3. "start" \in history /\ "late pause" \in history
      BY DEF MigrationSleeps
  <2>4. NoOrphanExport
    <3>1. history \cap {"start", "forget", "index", "orphan export"} # {}
      BY <2>3
    <3> QED
      BY <3>1 DEF NoOrphanExport
  <2>5. PanelOffersNextStep
      BY <2>3 DEF PanelOffersNextStep
  <2> QED
      BY <2>2, <2>4, <2>5 DEF MigrationRests
<1> QED
    BY <1>1, ArchiveIsWhole, RestIsReached DEF DesktopInv

LEMMA ConnectionPromise == DesktopInv => TargetsAreTrusted
<1>1. ConnectionRests => TargetsAreTrusted
  <2> SUFFICES ASSUME ConnectionRests PROVE TargetsAreTrusted
      OBVIOUS
  <2>1. Asked = {}
      BY DEF ConnectionRests, Asked
  <2> QED
      BY <2>1 DEF ConnectionRests, TargetsAreTrusted, OnlyAcceptedOrigins, TokenStaysWithServer, SavedTargetWasTested
<1> QED
    BY <1>1, TrustHolds DEF DesktopInv

LEMMA ProcessPromise == DesktopInv => NoBackendIsLeft
<1>1. ProcessRests => NoBackendIsLeft
    BY DEF ProcessRests, NoBackendIsLeft, NothingHoldsThePort, OneBackendPerRun
<1> QED
    BY <1>1, BackendsAreKnown DEF DesktopInv

LEMMA ScanPromise == DesktopInv => NothingDiscoveredIsDropped /\ CompletedScanIsWhole
<1>1. ScanRests => NothingDiscoveredIsDropped /\ CompletedScanIsWhole
    BY DEF ScanRests, NothingDiscoveredIsDropped, CompletedScanIsWhole, ScanAt
<1> QED
    BY <1>1, NothingDropped, CompletedHasAll DEF DesktopInv

LEMMA RuntimePromise == DesktopInv => OffMeansOff
<1>1. RuntimeRests => OffMeansOff
    BY DEF RuntimeRests, OffMeansOff, NoStrayClient, StatusIsStored
<1> QED
    BY <1>1, OffIsOff DEF DesktopInv

\* Every property of the clients holds of all of them together: no component, by its steps or by
\* its rest, takes from another what it promises.
THEOREM ClientsKeepPromises ==
  Spec => [](/\ SettingsAgree /\ NoDanglingReference /\ PermissionsAgree
             /\ StatusIsFollowed /\ PagesAreInOrder /\ ConversationsAreStored /\ ListIsServer
             /\ ArchiveArrives /\ MigrationRests /\ TargetsAreTrusted /\ NoBackendIsLeft
             /\ NothingDiscoveredIsDropped /\ CompletedScanIsWhole /\ OffMeansOff)
<1>1. DesktopInv => /\ ArchiveArrives /\ MigrationRests /\ TargetsAreTrusted /\ NoBackendIsLeft
                    /\ NothingDiscoveredIsDropped /\ CompletedScanIsWhole /\ OffMeansOff
    BY MigrationPromise, ConnectionPromise, ProcessPromise, ScanPromise, RuntimePromise
<1>2. ClientsInv => /\ SettingsAgree /\ NoDanglingReference /\ PermissionsAgree
                    /\ StatusIsFollowed /\ PagesAreInOrder /\ ConversationsAreStored /\ ListIsServer
                    /\ ArchiveArrives /\ MigrationRests /\ TargetsAreTrusted /\ NoBackendIsLeft
                    /\ NothingDiscoveredIsDropped /\ CompletedScanIsWhole /\ OffMeansOff
    BY <1>1, SettingsPromise, PermissionsPromise, ReadingPromise, ChatPromise DEF ClientsInv
<1> QED
    BY <1>2, ClientsInductive, PTL
=============================================================================
