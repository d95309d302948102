------------------------- MODULE DesktopConnection -------------------------
(***************************************************************************)
(* Which workspace the desktop application works on: its own backend, or a   *)
(* remote server that is named by its origin and opened with a token.  The   *)
(* target is a file; it is read when the application starts, and changed by  *)
(* the form of the settings, which tests a target and then restarts the      *)
(* application, and by the start of an archive migration.  A test is a       *)
(* request, so the file may change between the test and the write.           *)
(***************************************************************************)
EXTENDS Naturals, FiniteSets

CONSTANTS
    Origins,
    Insecure,     \* origins with plain HTTP to another host: the user has to accept them
    Tokens,
    Nobody,       \* no origin, no token
    MaxInputs     \* bound: inputs of the user

VARIABLES
    saved,        \* connection.json
    running,      \* the phase of the application, and the target it works on
    form,         \* the form's fields; known is acknowledgedConnectionOrigin
    action,       \* the test, the save or the start of a migration that is under way
    inputs,
    accepted,     \* history: the origins whose warning the user has accepted
    entered,      \* history: the tokens that were entered for an origin, as <<origin, token>>
    tested        \* history: what a server has answered to

connectionVars == <<saved, running, form, action, inputs, accepted, entered, tested>>

ASSUME ConnectionAssumption == Nobody \notin Origins /\ Insecure \subseteq Origins /\ MaxInputs \in Nat

----------------------------------------------------------------------------
Actions == {"test", "save", "migrate"}
Target == [mode : {"local", "remote"}, origin : Origins \cup {Nobody}, token : Tokens \cup {Nobody}]
LocalTarget == [mode |-> "local", origin |-> Nobody, token |-> Nobody]
NoAction == [pc |-> "none", input |-> LocalTarget, checked |-> FALSE, origin |-> Nobody, token |-> Nobody]
EmptyForm == [mode |-> "local", origin |-> Nobody, token |-> Nobody, checked |-> FALSE, known |-> Nobody]

Inputs == inputs < MaxInputs /\ inputs' = inputs + 1

----------------------------------------------------------------------------
(* The connection store. *)

IsAcknowledged(s) == s.origin \in Insecure /\ s.acknowledged = s.origin
\* acknowledgesOrigin: the box, or the very origin that is stored.
AcknowledgesOrigin(checked, origin) ==
    origin \in Insecure /\ (checked \/ saved.acknowledged = origin)
\* assertRemoteTransportSecurity
Allowed(checked, origin) == origin \in Insecure => AcknowledgesOrigin(checked, origin)

\* resolveRemote: an empty origin means the stored one, an empty token the stored one, for the
\* stored server only.
ResolvedOrigin(input) == IF input.origin # Nobody THEN input.origin ELSE saved.origin
\* Mutant of ResolvedToken: the stored token serves any server.
ResolvedTokenAnyway(input) == IF input.token # Nobody THEN input.token ELSE saved.token

ResolvedToken(input) ==
    IF input.token # Nobody THEN input.token
    ELSE IF saved.origin = ResolvedOrigin(input) THEN saved.token ELSE Nobody
ResolveRemote(input) ==
    ResolvedOrigin(input) # Nobody /\ Allowed(input.checked, ResolvedOrigin(input)) /\ ResolvedToken(input) # Nobody

\* prepareRemote, which reads the file again and insists on an origin.
CanPrepare(input) == input.origin # Nobody /\ ResolveRemote(input)
Prepared(input, mode) ==
    [mode |-> mode, origin |-> input.origin, token |-> ResolvedToken(input),
     acknowledged |-> IF AcknowledgesOrigin(input.checked, input.origin) THEN input.origin ELSE Nobody]

\* getActive
ActiveTarget(s) ==
    IF s.mode = "local" THEN LocalTarget ELSE [mode |-> "remote", origin |-> s.origin, token |-> s.token]

----------------------------------------------------------------------------
(* The start of the application. *)

\* initializeApplication: an insecure target that was never accepted is asked about.
StartApplication ==
    /\ running.phase = "starting"
    /\ running' = [running EXCEPT !.phase = IF saved.mode = "remote" /\ saved.origin \in Insecure /\ ~IsAcknowledged(saved)
                                            THEN "asking" ELSE "open",
                                  !.target = ActiveTarget(saved)]
    /\ UNCHANGED <<saved, form, action, inputs, accepted, entered, tested>>

\* acknowledgeLegacyHttpTarget
AcceptLegacyTarget ==
    /\ running.phase = "asking"
    /\ saved' = [saved EXCEPT !.acknowledged = saved.origin]
    /\ running' = [phase |-> "open", target |-> ActiveTarget(saved)]
    /\ accepted' = accepted \cup {saved.origin}
    /\ UNCHANGED <<form, action, inputs, entered, tested>>

RefuseLegacyTarget ==
    /\ running.phase = "asking" /\ Inputs
    /\ running' = [phase |-> "starting", target |-> LocalTarget]
    /\ UNCHANGED <<saved, form, action, accepted, entered, tested>>

\* The restart after a save: the page and what it was waiting for are gone.
Restart ==
    /\ running.phase = "restarting"
    /\ running' = [phase |-> "starting", target |-> LocalTarget]
    /\ action' = [a \in Actions |-> NoAction] /\ form' = EmptyForm
    /\ UNCHANGED <<saved, inputs, accepted, entered, tested>>

----------------------------------------------------------------------------
(* The form. *)

Open == running.phase = "open"

\* updateInsecureHttpWarning: the box is ticked for the known origin only, and only where it is needed.
Warned(f) ==
    [f EXCEPT !.checked = f.mode = "remote" /\ f.origin \in Insecure /\ (f.checked \/ f.origin = f.known)]

\* refresh, renderTarget: the form shows what is stored; a stored token is never shown.
RefreshForm ==
    /\ Open /\ Inputs
    /\ form' = Warned([mode |-> saved.mode, origin |-> saved.origin, token |-> Nobody, checked |-> IsAcknowledged(saved),
                       known |-> IF IsAcknowledged(saved) THEN saved.origin ELSE Nobody])
    /\ UNCHANGED <<saved, running, action, accepted, entered, tested>>

ChooseMode(m) ==
    /\ Open /\ Inputs /\ m # form.mode
    /\ form' = Warned([form EXCEPT !.mode = m])
    /\ UNCHANGED <<saved, running, action, accepted, entered, tested>>

\* connectionUrlChanged: another origin loses the tick of the last one.
TypeOrigin(o) ==
    /\ Open /\ Inputs /\ form.mode = "remote" /\ o # form.origin
    /\ form' = Warned([form EXCEPT !.origin = o, !.checked = o = form.known])
    /\ UNCHANGED <<saved, running, action, accepted, entered, tested>>

TypeToken(t) ==
    /\ Open /\ Inputs /\ form.mode = "remote" /\ t # form.token
    /\ form' = [form EXCEPT !.token = t]
    /\ UNCHANGED <<saved, running, action, accepted, entered, tested>>

Tick ==
    /\ Open /\ Inputs /\ form.mode = "remote" /\ form.origin \in Insecure /\ ~form.checked
    /\ form' = [form EXCEPT !.checked = TRUE]
    /\ accepted' = accepted \cup {form.origin}
    /\ UNCHANGED <<saved, running, action, entered, tested>>

----------------------------------------------------------------------------
(* Testing, saving, and starting a migration. *)

\* performTargetAction: one of each kind at a time.  The target is resolved before the request;
\* a refused one ends the action.
Submit(a) ==
    /\ Open /\ Inputs /\ action[a].pc = "none"
    /\ a = "migrate" => running.target.mode = "local" /\ form.mode = "remote"
    /\ form.mode = "remote" => ResolveRemote(form)
    /\ action' = [action EXCEPT ![a] = [pc |-> IF form.mode = "remote" THEN "asked" ELSE "passed",
                                        input |-> [mode |-> form.mode, origin |-> form.origin, token |-> form.token],
                                        checked |-> form.checked, origin |-> ResolvedOrigin(form),
                                        token |-> ResolvedToken(form)]]
    /\ entered' = entered \cup (IF form.mode = "remote" /\ form.token # Nobody
                                THEN {<<ResolvedOrigin(form), form.token>>} ELSE {})
    /\ UNCHANGED <<saved, running, form, accepted, tested>>

\* The server's answer to the test, or to the inspection before a migration.
TargetAnswers(a) ==
    /\ action[a].pc = "asked"
    /\ action' = [action EXCEPT ![a].pc = "passed"]
    /\ tested' = tested \cup {<<action[a].origin, action[a].token>>}
    /\ UNCHANGED <<saved, running, form, inputs, accepted, entered>>

TargetFails(a) ==
    /\ action[a].pc = "asked"
    /\ action' = [action EXCEPT ![a] = NoAction]
    /\ UNCHANGED <<saved, running, form, inputs, accepted, entered, tested>>

Input(a) == [mode |-> action[a].input.mode, origin |-> action[a].input.origin, token |-> action[a].input.token,
             checked |-> action[a].checked]

TestEnds ==
    /\ action["test"].pc = "passed"
    /\ action' = [action EXCEPT !["test"] = NoAction]
    /\ UNCHANGED <<saved, running, form, inputs, accepted, entered, tested>>

\* save, then the restart; a local target keeps what is stored of the remote one.
SaveTarget ==
    /\ action["save"].pc = "passed" /\ running.phase # "starting"
    /\ LET input == Input("save") IN
       \/ /\ input.mode = "local" \/ CanPrepare(input)
          /\ saved' = IF input.mode = "local" THEN [saved EXCEPT !.mode = "local"] ELSE Prepared(input, "remote")
          /\ running' = [running EXCEPT !.phase = "restarting"]
       \/ /\ input.mode = "remote" /\ ~CanPrepare(input)
          /\ UNCHANGED <<saved, running>>
    /\ action' = [action EXCEPT !["save"] = NoAction]
    /\ UNCHANGED <<form, inputs, accepted, entered, tested>>

\* rememberRemote: the server is stored without becoming the target.
RememberRemote ==
    /\ action["migrate"].pc = "passed"
    /\ saved' = IF CanPrepare(Input("migrate")) THEN Prepared(Input("migrate"), saved.mode) ELSE saved
    /\ action' = [action EXCEPT !["migrate"] = NoAction]
    /\ UNCHANGED <<running, form, inputs, accepted, entered, tested>>

----------------------------------------------------------------------------
\* The file of a fresh installation, of an earlier session, or of a version that did not ask.
ConnectionInit ==
    /\ saved \in {[mode |-> "local", origin |-> Nobody, token |-> Nobody, acknowledged |-> Nobody]}
                 \cup {[mode |-> m, origin |-> o, token |-> t, acknowledged |-> a] :
                         m \in {"local", "remote"}, o \in Origins, t \in Tokens, a \in {Nobody}}
    /\ running = [phase |-> "starting", target |-> LocalTarget]
    /\ form = EmptyForm
    /\ action = [a \in Actions |-> NoAction]
    /\ inputs = 0 /\ accepted = {}
    /\ entered = {<<saved.origin, saved.token>>} /\ tested = {<<saved.origin, saved.token>>}

ConnectionNext ==
    \/ StartApplication \/ AcceptLegacyTarget \/ RefuseLegacyTarget \/ Restart
    \/ RefreshForm \/ Tick \/ \E m \in {"local", "remote"} : ChooseMode(m)
    \/ \E o \in Origins : TypeOrigin(o)
    \/ \E t \in Tokens \cup {Nobody} : TypeToken(t)
    \/ \E a \in Actions : Submit(a) \/ TargetAnswers(a) \/ TargetFails(a)
    \/ TestEnds \/ SaveTarget \/ RememberRemote

ConnectionSpec == ConnectionInit /\ [][ConnectionNext]_connectionVars

----------------------------------------------------------------------------
(* Properties *)

ConnectionTypeOK ==
    /\ saved \in [mode : {"local", "remote"}, origin : Origins \cup {Nobody}, token : Tokens \cup {Nobody},
                  acknowledged : Insecure \cup {Nobody}]
    /\ running \in [phase : {"starting", "asking", "open", "restarting"}, target : Target]
    /\ form \in [mode : {"local", "remote"}, origin : Origins \cup {Nobody}, token : Tokens \cup {Nobody},
                 checked : BOOLEAN, known : Insecure \cup {Nobody}]
    /\ action \in [Actions -> [pc : {"none", "asked", "passed"}, input : Target, checked : BOOLEAN,
                               origin : Origins \cup {Nobody}, token : Tokens \cup {Nobody}]]
    /\ inputs \in 0..MaxInputs /\ accepted \subseteq Insecure
    /\ entered \subseteq (Origins \cup {Nobody}) \X (Tokens \cup {Nobody})
    /\ tested \subseteq (Origins \cup {Nobody}) \X (Tokens \cup {Nobody})

Asked == {action[a] : a \in {b \in Actions : action[b].pc = "asked" /\ action[b].input.mode = "remote"}}

\* Nothing is sent over plain HTTP to an origin whose warning the user has not accepted for
\* exactly that origin: no test, no migration, no session.  (docs/desktop-operation.md:26-29)
OnlyAcceptedOrigins ==
    /\ running.phase = "open" /\ running.target.origin \in Insecure => running.target.origin \in accepted
    /\ \A c \in Asked : c.origin \in Insecure => c.origin \in accepted

\* A token goes to no other server than the one it was entered for, although an empty field
\* means the stored token and the stored server may change before it is used.
TokenStaysWithServer ==
    /\ running.target.mode = "remote" => <<running.target.origin, running.target.token>> \in entered
    /\ \A c \in Asked : <<c.origin, c.token>> \in entered

\* A remote target that is stored has answered a test with that token, also when another
\* action has changed the file between the test and the save.  (docs/desktop-operation.md:22-24)
SavedTargetWasTested == <<saved.origin, saved.token>> \in tested

\* What is sent goes to servers that were accepted, with their own tokens, and what is
\* stored has worked.
TargetsAreTrusted == OnlyAcceptedOrigins /\ TokenStaysWithServer /\ SavedTargetWasTested
=============================================================================
