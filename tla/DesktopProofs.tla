---------------------------- MODULE DesktopProofs ----------------------------
(***************************************************************************)
(* What holds of the desktop application: of DesktopConnection for any set  *)
(* of servers and tokens and any number of inputs, of DesktopProcess for    *)
(* any number of backend processes, runs and mishaps, of ArchiveMigration    *)
(* for archives, pages and numbers of attempts of any size and any number    *)
(* of calls under way together, of ChannelScan for a channel of any length,  *)
(* any batch size and any number of scans and troubles, and of               *)
(* DiscordBotRuntime for any number of windows, clients and tokens.          *)
(***************************************************************************)
EXTENDS DesktopConnection, DesktopProcess, ArchiveMigration, ChannelScan, DiscordBotRuntime,
        FiniteSetTheorems, SequenceTheorems, TLAPS

-----------------------------------------------------------------------------
(* The connection: the inductive invariant. *)

Origin == Origins \cup {Nobody}
Token == Tokens \cup {Nobody}
SavedTarget == [mode : {"local", "remote"}, origin : Origin, token : Token, acknowledged : Insecure \cup {Nobody}]
FormState == [mode : {"local", "remote"}, origin : Origin, token : Token, checked : BOOLEAN,
              known : Insecure \cup {Nobody}]
ActionState == [pc : {"none", "asked", "passed"}, input : Target, checked : BOOLEAN,
                origin : Origin, token : Token]

\* What is stored was entered and tested together, and its acknowledgement was given.
SavedIsSound ==
    /\ <<saved.origin, saved.token>> \in entered \cap tested
    /\ saved.acknowledged # Nobody => saved.acknowledged \in accepted

\* The box is ticked for an accepted origin only.
FormIsSound ==
    /\ form.checked => form.origin \in Insecure /\ form.origin \in accepted
    /\ form.known # Nobody => form.known \in accepted

\* An action under way uses what was entered, for an origin that was accepted; what it was
\* given explicitly is what it has tested.
ActionIsSound(r) ==
    r.pc # "none" /\ r.input.mode = "remote" =>
        /\ <<r.origin, r.token>> \in entered
        /\ r.origin \in Insecure => r.origin \in accepted
        /\ r.checked => r.input.origin \in accepted
        /\ r.input.origin # Nobody => r.origin = r.input.origin
        /\ r.input.token # Nobody => r.token = r.input.token
        /\ r.pc = "passed" => <<r.origin, r.token>> \in tested

ActionsAreSound ==
    /\ \A x \in Actions : ActionIsSound(action[x])
    /\ action["migrate"].pc # "none" => action["migrate"].input.mode = "remote"

\* The application works on a target that was accepted, and starts with no action under way.
RunningIsSound ==
    /\ running.phase \in {"starting", "asking"} => \A x \in Actions : action[x].pc = "none"
    /\ running.phase = "asking" => saved.origin \in Insecure
    /\ running.target.mode = "remote" => <<running.target.origin, running.target.token>> \in entered
    /\ running.phase = "open" /\ running.target.origin \in Insecure => running.target.origin \in accepted

ConnectionInv ==
    /\ ConnectionTypeOK
    /\ SavedIsSound /\ FormIsSound /\ ActionsAreSound /\ RunningIsSound

-----------------------------------------------------------------------------
(* The connection: its steps. *)

LEMMA ConnectionTypes ==
    ASSUME ConnectionTypeOK
    PROVE  /\ saved \in SavedTarget /\ form \in FormState /\ action \in [Actions -> ActionState]
           /\ running \in [phase : {"starting", "asking", "open", "restarting"}, target : Target]
           /\ inputs \in 0..MaxInputs /\ accepted \subseteq Insecure
           /\ entered \subseteq Origin \X Token /\ tested \subseteq Origin \X Token
BY DEF ConnectionTypeOK, SavedTarget, FormState, ActionState, Origin, Token

LEMMA TypesAgain ==
    ASSUME saved' \in SavedTarget, form' \in FormState, action' \in [Actions -> ActionState],
           running' \in [phase : {"starting", "asking", "open", "restarting"}, target : Target],
           inputs' \in 0..MaxInputs, accepted' \subseteq Insecure,
           entered' \subseteq Origin \X Token, tested' \subseteq Origin \X Token
    PROVE  ConnectionTypeOK'
BY DEF ConnectionTypeOK, SavedTarget, FormState, ActionState, Origin, Token

\* The empty records.
LEMMA Empties ==
    /\ LocalTarget \in Target /\ LocalTarget.mode = "local" /\ LocalTarget.origin = Nobody
    /\ NoAction \in ActionState /\ NoAction.pc = "none"
    /\ EmptyForm \in FormState /\ ~EmptyForm.checked /\ EmptyForm.known = Nobody
BY DEF LocalTarget, Target, NoAction, ActionState, EmptyForm, FormState, Origin, Token

LEMMA InputCounts ==
    ASSUME ConnectionTypeOK, Inputs
    PROVE  inputs' \in 0..MaxInputs
BY ConnectionAssumption DEF ConnectionTypeOK, Inputs

LEMMA ActiveTargetIsSaved ==
    ASSUME ConnectionTypeOK
    PROVE  /\ ActiveTarget(saved) \in Target
           /\ ActiveTarget(saved).mode = "remote" =>
                 saved.mode = "remote" /\ ActiveTarget(saved).origin = saved.origin
                 /\ ActiveTarget(saved).token = saved.token
           /\ ActiveTarget(saved).mode = "local" => ActiveTarget(saved).origin = Nobody
<1>1. saved \in SavedTarget
    BY ConnectionTypes
<1>2. CASE saved.mode = "local"
    BY <1>2, Empties DEF ActiveTarget
<1>3. CASE saved.mode # "local"
  <2>1. saved.mode = "remote" /\ ActiveTarget(saved) = [mode |-> "remote", origin |-> saved.origin, token |-> saved.token]
      BY <1>1, <1>3 DEF SavedTarget, ActiveTarget
  <2> QED
      BY <1>1, <2>1 DEF SavedTarget, Target, Origin, Token
<1> QED
    BY <1>2, <1>3

\* A step that leaves the actions alone, and in which nothing is taken back.
LEMMA ActionsRest ==
    ASSUME ActionsAreSound, UNCHANGED action,
           accepted \subseteq accepted', entered \subseteq entered', tested \subseteq tested'
    PROVE  ActionsAreSound'
BY DEF ActionsAreSound, ActionIsSound

LEMMA StartApplicationKeeps == ASSUME ConnectionInv, StartApplication PROVE ConnectionInv'
<1> DEFINE ask == saved.mode = "remote" /\ saved.origin \in Insecure /\ ~IsAcknowledged(saved)
           t == ActiveTarget(saved)
           phase == IF ask THEN "asking" ELSE "open"
<1>1. /\ running.phase = "starting" /\ running' = [running EXCEPT !.phase = phase, !.target = t]
      /\ UNCHANGED <<saved, form, action, inputs, accepted, entered, tested>>
    BY DEF StartApplication
<1>2. /\ ConnectionTypeOK /\ SavedIsSound /\ FormIsSound /\ RunningIsSound
      /\ ActionsAreSound
    BY DEF ConnectionInv
<1>3. /\ saved \in SavedTarget /\ running \in [phase : {"starting", "asking", "open", "restarting"}, target : Target]
    BY <1>2, ConnectionTypes
<1>4. /\ t \in Target /\ (t.mode = "local" => t.origin = Nobody)
      /\ t.mode = "remote" => saved.mode = "remote" /\ t.origin = saved.origin /\ t.token = saved.token
    BY <1>2, ActiveTargetIsSaved
<1>5. phase \in {"asking", "open"} /\ (phase = "asking" => saved.origin \in Insecure)
      /\ (phase = "open" /\ t.origin \in Insecure => t.origin \in accepted)
  <2>1. phase = "asking" <=> ask
      OBVIOUS
  <2>2. ASSUME ~ask, t.origin \in Insecure PROVE t.origin \in accepted
    <3>1. t.mode = "remote" /\ t.origin = saved.origin /\ saved.mode = "remote"
        BY <1>4, <2>2, ConnectionAssumption DEF Target
    <3>2. IsAcknowledged(saved)
        BY <2>2, <3>1
    <3> QED
        BY <1>2, <3>1, <3>2, ConnectionAssumption DEF IsAcknowledged, SavedIsSound
  <2> QED
      BY <2>1, <2>2
<1> HIDE DEF t, phase
<1>6. running'.phase = phase /\ running'.target = t
      /\ running' \in [phase : {"starting", "asking", "open", "restarting"}, target : Target]
    BY <1>1, <1>3, <1>4, <1>5
<1>7. ConnectionTypeOK'
    BY <1>1, <1>2, <1>6, ConnectionTypes, TypesAgain
<1>8. RunningIsSound'
    BY <1>1, <1>2, <1>4, <1>5, <1>6 DEF RunningIsSound, SavedIsSound
<1>9. SavedIsSound' /\ FormIsSound' /\ ActionsAreSound'
    BY <1>1, <1>2, ActionsRest DEF SavedIsSound, FormIsSound
<1> QED
    BY <1>1, <1>7, <1>8, <1>9 DEF ConnectionInv

LEMMA AcceptLegacyKeeps == ASSUME ConnectionInv, AcceptLegacyTarget PROVE ConnectionInv'
<1> DEFINE t == ActiveTarget(saved)
           kept == [saved EXCEPT !.acknowledged = saved.origin]
<1>1. /\ running.phase = "asking" /\ running' = [phase |-> "open", target |-> t]
      /\ saved' = kept /\ accepted' = accepted \cup {saved.origin}
      /\ UNCHANGED <<form, action, inputs, entered, tested>>
    BY DEF AcceptLegacyTarget
<1>2. ConnectionTypeOK /\ SavedIsSound /\ FormIsSound /\ ActionsAreSound /\ RunningIsSound
    BY DEF ConnectionInv
<1>3. saved \in SavedTarget /\ saved.origin \in Insecure
    BY <1>1, <1>2, ConnectionTypes DEF RunningIsSound
<1>4. /\ t \in Target /\ (t.mode = "local" => t.origin = Nobody)
      /\ t.mode = "remote" => saved.mode = "remote" /\ t.origin = saved.origin /\ t.token = saved.token
    BY <1>2, ActiveTargetIsSaved
<1> HIDE DEF t
<1>5. /\ kept \in SavedTarget /\ kept.origin = saved.origin /\ kept.token = saved.token
      /\ kept.acknowledged = saved.origin
    BY <1>3 DEF SavedTarget
<1> HIDE DEF kept
<1>6. ConnectionTypeOK'
  <2>1. running' \in [phase : {"starting", "asking", "open", "restarting"}, target : Target]
      BY <1>1, <1>4
  <2> QED
      BY <1>1, <1>2, <1>3, <1>5, <2>1, ConnectionTypes, TypesAgain
<1>7. running'.phase = "open" /\ running'.target = t
    BY <1>1
<1>8. t.origin \in Insecure => t.origin = saved.origin
    BY <1>4, ConnectionAssumption DEF Target
<1>9. RunningIsSound'
    BY <1>1, <1>2, <1>4, <1>7, <1>8 DEF RunningIsSound, SavedIsSound
<1>10. SavedIsSound' /\ FormIsSound' /\ ActionsAreSound'
    BY <1>1, <1>2, <1>5, ActionsRest DEF SavedIsSound, FormIsSound
<1> QED
    BY <1>6, <1>9, <1>10 DEF ConnectionInv

\* The application is not open afterwards, and nothing is under way.
LEMMA RefuseLegacyKeeps == ASSUME ConnectionInv, RefuseLegacyTarget PROVE ConnectionInv'
<1>1. /\ running.phase = "asking" /\ Inputs
      /\ running' = [phase |-> "starting", target |-> LocalTarget]
      /\ UNCHANGED <<saved, form, action, accepted, entered, tested>>
    BY DEF RefuseLegacyTarget
<1>2. ConnectionTypeOK /\ SavedIsSound /\ FormIsSound /\ ActionsAreSound /\ RunningIsSound
    BY DEF ConnectionInv
<1>3. /\ running' \in [phase : {"starting", "asking", "open", "restarting"}, target : Target]
      /\ running'.phase = "starting" /\ running'.target.mode = "local"
    BY <1>1, Empties
<1>4. ConnectionTypeOK'
    BY <1>1, <1>2, <1>3, InputCounts, ConnectionTypes, TypesAgain
<1>5. RunningIsSound'
    BY <1>1, <1>2, <1>3 DEF RunningIsSound
<1>6. SavedIsSound' /\ FormIsSound' /\ ActionsAreSound'
    BY <1>1, <1>2, ActionsRest DEF SavedIsSound, FormIsSound
<1> QED
    BY <1>4, <1>5, <1>6 DEF ConnectionInv

LEMMA RestartKeeps == ASSUME ConnectionInv, Restart PROVE ConnectionInv'
<1>1. /\ running' = [phase |-> "starting", target |-> LocalTarget]
      /\ action' = [x \in Actions |-> NoAction] /\ form' = EmptyForm
      /\ UNCHANGED <<saved, inputs, accepted, entered, tested>>
    BY DEF Restart
<1>2. ConnectionTypeOK /\ SavedIsSound
    BY DEF ConnectionInv
<1>3. /\ running' \in [phase : {"starting", "asking", "open", "restarting"}, target : Target]
      /\ running'.phase = "starting" /\ running'.target.mode = "local"
      /\ action' \in [Actions -> ActionState] /\ \A x \in Actions : action'[x].pc = "none"
      /\ form' \in FormState /\ ~form'.checked /\ form'.known = Nobody
    BY <1>1, Empties
<1>4. ConnectionTypeOK'
    BY <1>1, <1>2, <1>3, ConnectionTypes, TypesAgain
<1>5. RunningIsSound' /\ FormIsSound' /\ SavedIsSound'
    BY <1>1, <1>2, <1>3 DEF RunningIsSound, FormIsSound, SavedIsSound
<1>6. ActionsAreSound'
    BY <1>3 DEF ActionsAreSound, ActionIsSound, Actions
<1> QED
    BY <1>4, <1>5, <1>6 DEF ConnectionInv

\* An input that changes only the form, and accepts at most what it shows.
LEMMA FormChanges ==
    ASSUME ConnectionInv, Open, Inputs, form' \in FormState, FormIsSound',
           accepted \subseteq accepted', accepted' \subseteq Insecure,
           UNCHANGED <<saved, running, action, entered, tested>>
    PROVE  ConnectionInv'
<1>1. ConnectionTypeOK /\ SavedIsSound /\ ActionsAreSound /\ RunningIsSound
    BY DEF ConnectionInv
<1>2. ConnectionTypeOK'
    BY <1>1, InputCounts, ConnectionTypes, TypesAgain
<1>3. RunningIsSound' /\ SavedIsSound' /\ ActionsAreSound'
    BY <1>1, ActionsRest DEF RunningIsSound, SavedIsSound
<1> QED
    BY <1>2, <1>3 DEF ConnectionInv

\* The warning leaves the fields alone, and keeps only ticks that are needed.
LEMMA WarnedForm ==
    ASSUME NEW r \in FormState
    PROVE  /\ Warned(r) \in FormState /\ Warned(r).known = r.known /\ Warned(r).origin = r.origin
           /\ Warned(r).checked => r.origin \in Insecure /\ (r.checked \/ r.origin = r.known)
<1> DEFINE b == r.mode = "remote" /\ r.origin \in Insecure /\ (r.checked \/ r.origin = r.known)
<1>1. Warned(r) = [r EXCEPT !.checked = b]
    BY DEF Warned
<1>2. b \in BOOLEAN
    OBVIOUS
<1>3. b => r.origin \in Insecure /\ (r.checked \/ r.origin = r.known)
    OBVIOUS
<1> HIDE DEF b
<1> QED
    BY <1>1, <1>2, <1>3 DEF FormState

\* A form whose tick is for an accepted origin, or for the known one, stays sound.
LEMMA WarnedIsSound ==
    ASSUME NEW r \in FormState, form' = Warned(r), accepted' = accepted,
           r.known # Nobody => r.known \in accepted,
           r.checked /\ r.origin \in Insecure => r.origin \in accepted
    PROVE  form' \in FormState /\ FormIsSound'
BY WarnedForm, ConnectionAssumption DEF FormIsSound

LEMMA FormKeeps ==
    ASSUME ConnectionInv,
           \/ RefreshForm \/ Tick
           \/ \E m \in {"local", "remote"} : ChooseMode(m)
           \/ \E o \in Origins : TypeOrigin(o)
           \/ \E t \in Tokens \cup {Nobody} : TypeToken(t)
    PROVE  ConnectionInv'
<1>1. /\ SavedIsSound /\ FormIsSound /\ form \in FormState /\ saved \in SavedTarget
      /\ accepted \subseteq Insecure
    BY ConnectionTypes DEF ConnectionInv
<1>2. CASE RefreshForm
  <2> DEFINE r == [mode |-> saved.mode, origin |-> saved.origin, token |-> Nobody, checked |-> IsAcknowledged(saved),
                   known |-> IF IsAcknowledged(saved) THEN saved.origin ELSE Nobody]
  <2>1. IsAcknowledged(saved) \in BOOLEAN
      BY DEF IsAcknowledged
  <2>2. r \in FormState /\ r.known \in {saved.origin, Nobody}
      BY <1>1, <2>1 DEF SavedTarget, FormState, Token, Origin, IsAcknowledged
  <2>3. r.checked \/ r.known # Nobody => saved.origin \in accepted
      BY <1>1, ConnectionAssumption DEF IsAcknowledged, SavedIsSound
  <2>4. r.origin = saved.origin
      OBVIOUS
  <2>5. form' = Warned(r)
      BY <1>2 DEF RefreshForm
  <2> HIDE DEF r
  <2>6. form' \in FormState /\ FormIsSound'
      BY <1>2, <2>2, <2>3, <2>4, <2>5, WarnedIsSound DEF RefreshForm
  <2> QED
      BY <1>1, <1>2, <2>6, FormChanges DEF RefreshForm
<1>3. CASE Tick
  <2>1. form' = [form EXCEPT !.checked = TRUE] /\ accepted' = accepted \cup {form.origin} /\ form.origin \in Insecure
      BY <1>3 DEF Tick
  <2>2. form' \in FormState /\ form'.origin = form.origin /\ form'.known = form.known
      BY <1>1, <2>1 DEF FormState
  <2>3. FormIsSound'
      BY <1>1, <2>1, <2>2 DEF FormIsSound
  <2> QED
      BY <1>1, <1>3, <2>1, <2>2, <2>3, FormChanges DEF Tick
<1>4. ASSUME NEW m \in {"local", "remote"}, ChooseMode(m) PROVE ConnectionInv'
  <2> DEFINE r == [form EXCEPT !.mode = m]
  <2>1. r \in FormState /\ r.origin = form.origin /\ r.known = form.known /\ r.checked = form.checked
      BY <1>1 DEF FormState
  <2>2. form' = Warned(r)
      BY <1>4 DEF ChooseMode
  <2> HIDE DEF r
  <2>3. form' \in FormState /\ FormIsSound'
      BY <1>1, <1>4, <2>1, <2>2, WarnedIsSound DEF ChooseMode, FormIsSound
  <2> QED
      BY <1>1, <1>4, <2>3, FormChanges DEF ChooseMode
<1>5. ASSUME NEW o \in Origins, TypeOrigin(o) PROVE ConnectionInv'
  <2> DEFINE known == (o = form.known)
             r == [form EXCEPT !.origin = o, !.checked = known]
  <2>1. known \in BOOLEAN /\ (known => o = form.known)
      OBVIOUS
  <2>2. form' = Warned(r)
      BY <1>5 DEF TypeOrigin
  <2> HIDE DEF known
  <2>3. r \in FormState /\ r.origin = o /\ r.known = form.known /\ r.checked = known
      BY <1>1, <2>1 DEF FormState, Origin
  <2> HIDE DEF r
  <2>4. form' \in FormState /\ FormIsSound'
      BY <1>1, <1>5, <2>1, <2>2, <2>3, WarnedIsSound, ConnectionAssumption DEF TypeOrigin, FormIsSound
  <2> QED
      BY <1>1, <1>5, <2>4, FormChanges DEF TypeOrigin
<1>6. ASSUME NEW t \in Tokens \cup {Nobody}, TypeToken(t) PROVE ConnectionInv'
  <2>1. form' = [form EXCEPT !.token = t] /\ accepted' = accepted
      BY <1>6 DEF TypeToken
  <2>2. /\ form' \in FormState /\ form'.origin = form.origin /\ form'.known = form.known
        /\ form'.checked = form.checked
      BY <1>1, <2>1 DEF FormState, Token
  <2>3. FormIsSound'
      BY <1>1, <2>1, <2>2 DEF FormIsSound
  <2> QED
      BY <1>1, <1>6, <2>2, <2>3, FormChanges DEF TypeToken
<1> QED
    BY <1>2, <1>3, <1>4, <1>5, <1>6

\* A step that changes one action, and in which nothing is taken back.
LEMMA OneActionChanges ==
    ASSUME ActionsAreSound, NEW a \in Actions, \A x \in Actions \ {a} : action'[x] = action[x],
           ActionIsSound(action[a])',
           a = "migrate" /\ action'[a].pc # "none" => action'[a].input.mode = "remote",
           accepted \subseteq accepted', entered \subseteq entered', tested \subseteq tested'
    PROVE  ActionsAreSound'
<1>1. \A x \in Actions \ {a} : ActionIsSound(action[x])'
    BY DEF ActionsAreSound, ActionIsSound
<1>2. (\A x \in Actions : ActionIsSound(action[x]))'
    BY <1>1
<1>3. (action["migrate"].pc # "none" => action["migrate"].input.mode = "remote")'
    BY DEF ActionsAreSound, Actions
<1> QED
    BY <1>2, <1>3 DEF ActionsAreSound

\* What is resolved for the form is a pair that was entered, of an origin that was accepted.
LEMMA ResolvedIsSound ==
    ASSUME ConnectionInv, ResolveRemote(form)
    PROVE  /\ ResolvedOrigin(form) \in Origin /\ ResolvedToken(form) \in Token
           /\ ResolvedOrigin(form) \in Insecure => ResolvedOrigin(form) \in accepted
           /\ form.token = Nobody => <<ResolvedOrigin(form), ResolvedToken(form)>> \in entered
           /\ form.token # Nobody => ResolvedToken(form) = form.token
           /\ form.origin # Nobody => ResolvedOrigin(form) = form.origin
<1>1. /\ SavedIsSound /\ FormIsSound /\ saved \in SavedTarget /\ form \in FormState
    BY ConnectionTypes DEF ConnectionInv
<1>2. ResolvedOrigin(form) \in Origin /\ ResolvedToken(form) \in Token
    BY <1>1 DEF ResolvedOrigin, ResolvedToken, SavedTarget, FormState
<1>3. form.origin # Nobody => ResolvedOrigin(form) = form.origin
    BY DEF ResolvedOrigin
<1>4. ASSUME ResolvedOrigin(form) \in Insecure PROVE ResolvedOrigin(form) \in accepted
  <2>1. form.checked \/ saved.acknowledged = ResolvedOrigin(form)
      BY <1>4 DEF ResolveRemote, Allowed, AcknowledgesOrigin
  <2>2. CASE form.checked
      BY <1>1, <1>3, <2>2, ConnectionAssumption DEF FormIsSound
  <2>3. CASE saved.acknowledged = ResolvedOrigin(form)
      BY <1>1, <1>4, <2>3, ConnectionAssumption DEF SavedIsSound
  <2> QED
      BY <2>1, <2>2, <2>3
<1>5. form.token # Nobody => ResolvedToken(form) = form.token
    BY DEF ResolvedToken
<1>6. ASSUME form.token = Nobody PROVE <<ResolvedOrigin(form), ResolvedToken(form)>> \in entered
  <2>1. saved.origin = ResolvedOrigin(form) /\ ResolvedToken(form) = saved.token
      BY <1>6 DEF ResolveRemote, ResolvedToken
  <2> QED
      BY <1>1, <2>1 DEF SavedIsSound
<1> QED
    BY <1>2, <1>3, <1>4, <1>5, <1>6

LEMMA SubmitKeeps == ASSUME ConnectionInv, NEW a \in Actions, Submit(a) PROVE ConnectionInv'
<1> DEFINE remote == form.mode = "remote"
           given == [mode |-> form.mode, origin |-> form.origin, token |-> form.token]
           pc == IF remote THEN "asked" ELSE "passed"
           r == [pc |-> pc, input |-> given, checked |-> form.checked, origin |-> ResolvedOrigin(form),
                 token |-> ResolvedToken(form)]
           more == IF remote /\ form.token # Nobody THEN {<<ResolvedOrigin(form), form.token>>} ELSE {}
<1>1. /\ Open /\ Inputs /\ (remote => ResolveRemote(form)) /\ (a = "migrate" => remote)
      /\ action' = [action EXCEPT ![a] = r] /\ entered' = entered \cup more
      /\ UNCHANGED <<saved, running, form, accepted, tested>>
    BY DEF Submit
<1>2. /\ ConnectionTypeOK /\ SavedIsSound /\ FormIsSound /\ ActionsAreSound /\ RunningIsSound
      /\ saved \in SavedTarget /\ form \in FormState /\ action \in [Actions -> ActionState]
    BY ConnectionTypes DEF ConnectionInv
<1>3. ResolvedOrigin(form) \in Origin /\ ResolvedToken(form) \in Token
    BY <1>2 DEF ResolvedOrigin, ResolvedToken, SavedTarget, FormState
<1>4. /\ given \in Target /\ given.mode = form.mode /\ given.origin = form.origin
      /\ given.token = form.token
    BY <1>2 DEF FormState, Target, Origin, Token
<1>5. pc \in {"asked", "passed"} /\ (remote => pc = "asked")
    OBVIOUS
<1>6. more \subseteq Origin \X Token
    BY <1>2, <1>3 DEF FormState
<1>7. remote /\ form.token # Nobody => <<ResolvedOrigin(form), form.token>> \in more
    OBVIOUS
<1> HIDE DEF given, pc, more
<1>8. /\ r \in ActionState /\ r.pc = pc /\ r.input = given /\ r.checked = form.checked
      /\ r.origin = ResolvedOrigin(form) /\ r.token = ResolvedToken(form)
    BY <1>2, <1>3, <1>4, <1>5 DEF FormState, ActionState
<1> HIDE DEF r
<1>9. action' \in [Actions -> ActionState] /\ action'[a] = r /\ \A x \in Actions \ {a} : action'[x] = action[x]
    BY <1>1, <1>2, <1>8
<1>10. ConnectionTypeOK'
    BY <1>1, <1>2, <1>6, <1>9, InputCounts, ConnectionTypes, TypesAgain
<1>11. ActionIsSound(action[a])'
  <2>1. CASE ~remote
      BY <1>4, <1>8, <1>9, <2>1 DEF ActionIsSound
  <2>2. CASE remote
    <3>1. ResolveRemote(form)
        BY <1>1, <2>2
    <3>2. <<r.origin, r.token>> \in entered'
        BY <1>1, <1>7, <1>8, <2>2, <3>1, ResolvedIsSound
    <3>3. r.origin \in Insecure => r.origin \in accepted'
        BY <1>1, <1>8, <3>1, ResolvedIsSound
    <3>4. r.checked => r.input.origin \in accepted'
        BY <1>1, <1>2, <1>4, <1>8 DEF FormIsSound
    <3>5. (r.input.origin # Nobody => r.origin = r.input.origin) /\ (r.input.token # Nobody => r.token = r.input.token)
        BY <1>4, <1>8, <3>1, ResolvedIsSound
    <3> QED
        BY <1>5, <1>8, <1>9, <2>2, <3>2, <3>3, <3>4, <3>5 DEF ActionIsSound
  <2> QED
      BY <2>1, <2>2
<1>12. ActionsAreSound'
    BY <1>1, <1>2, <1>4, <1>8, <1>9, <1>11, OneActionChanges
<1>13. RunningIsSound' /\ SavedIsSound' /\ FormIsSound'
    BY <1>1, <1>2 DEF RunningIsSound, SavedIsSound, FormIsSound, Open
<1> QED
    BY <1>10, <1>12, <1>13 DEF ConnectionInv

\* The answer to a test: of the action and its pair only.
LEMMA ConnectionAnswerKeeps ==
    ASSUME ConnectionInv, NEW a \in Actions, TargetAnswers(a) \/ TargetFails(a)
    PROVE  ConnectionInv'
<1> DEFINE r == [action[a] EXCEPT !.pc = "passed"]
<1>1. /\ ConnectionTypeOK /\ SavedIsSound /\ FormIsSound /\ ActionsAreSound /\ RunningIsSound
      /\ action \in [Actions -> ActionState]
    BY ConnectionTypes DEF ConnectionInv
<1>2. /\ action[a].pc = "asked" /\ UNCHANGED <<saved, running, form, inputs, accepted, entered>>
      /\ action' = [action EXCEPT ![a] = r] \/ action' = [action EXCEPT ![a] = NoAction]
      /\ tested' \in {tested, tested \cup {<<action[a].origin, action[a].token>>}}
      /\ action' # [action EXCEPT ![a] = NoAction] => tested' = tested \cup {<<action[a].origin, action[a].token>>}
    BY DEF TargetAnswers, TargetFails
<1>3. /\ r \in ActionState /\ r.pc = "passed" /\ r.input = action[a].input /\ r.checked = action[a].checked
      /\ r.origin = action[a].origin /\ r.token = action[a].token
      /\ r.origin \in Origin /\ r.token \in Token
    BY <1>1 DEF ActionState
<1> HIDE DEF r
<1>4. /\ action' \in [Actions -> ActionState] /\ \A x \in Actions \ {a} : action'[x] = action[x]
      /\ (action'[a] = NoAction \/ (action'[a] = r /\ tested' = tested \cup {<<action[a].origin, action[a].token>>}))
    BY <1>1, <1>2, <1>3, Empties
<1>5. tested \subseteq tested' /\ tested' \subseteq Origin \X Token
    BY <1>1, <1>2, <1>3, ConnectionTypes
<1>6. ConnectionTypeOK'
    BY <1>1, <1>2, <1>4, <1>5, ConnectionTypes, TypesAgain
<1>7. ActionIsSound(action[a])'
  <2>1. CASE action'[a] = NoAction
      BY <2>1, Empties DEF ActionIsSound
  <2>2. CASE action'[a] = r /\ tested' = tested \cup {<<action[a].origin, action[a].token>>}
      BY <1>1, <1>2, <1>3, <2>2 DEF ActionsAreSound, ActionIsSound
  <2> QED
      BY <1>4, <2>1, <2>2
<1>8. a = "migrate" /\ action'[a].pc # "none" => action'[a].input.mode = "remote"
    BY <1>1, <1>2, <1>3, <1>4, Empties DEF ActionsAreSound
<1>9. ActionsAreSound'
    BY <1>1, <1>2, <1>4, <1>5, <1>7, <1>8, OneActionChanges
<1>10. RunningIsSound' /\ SavedIsSound' /\ FormIsSound'
  <2>1. running.phase \notin {"starting", "asking"}
      BY <1>1, <1>2 DEF RunningIsSound
  <2>2. RunningIsSound'
      BY <1>1, <1>2, <2>1 DEF RunningIsSound
  <2> QED
      BY <1>1, <1>2, <1>5, <2>2 DEF SavedIsSound, FormIsSound
<1> QED
    BY <1>6, <1>9, <1>10 DEF ConnectionInv

\* What a save or a migration stores is the pair that it has tested, or the stored one.
LEMMA PreparedIsSound ==
    ASSUME ConnectionInv, NEW a \in Actions, action[a].pc = "passed", action[a].input.mode = "remote",
           CanPrepare(Input(a)), NEW m \in {"local", "remote"}
    PROVE  LET s == Prepared(Input(a), m) IN
             /\ s \in SavedTarget /\ <<s.origin, s.token>> \in entered \cap tested
             /\ s.acknowledged # Nobody => s.acknowledged \in accepted
<1> DEFINE input == Input(a)
           ack == IF AcknowledgesOrigin(input.checked, input.origin) THEN input.origin ELSE Nobody
           s == Prepared(input, m)
<1>1. /\ SavedIsSound /\ ActionIsSound(action[a]) /\ action[a] \in ActionState /\ saved \in SavedTarget
    BY ConnectionTypes DEF ConnectionInv, ActionsAreSound
<1>2. /\ input.origin = action[a].input.origin /\ input.token = action[a].input.token
      /\ input.checked = action[a].checked
      /\ input.origin \in Origin /\ input.token \in Token
    BY <1>1 DEF Input, ActionState, Target, Origin, Token
<1>3. s = [mode |-> m, origin |-> input.origin, token |-> ResolvedToken(input), acknowledged |-> ack]
    BY DEF Prepared
<1>4. CanPrepare(input)
    OBVIOUS
<1> HIDE DEF input
<1>5. /\ input.origin # Nobody /\ ResolvedOrigin(input) = input.origin
      /\ ResolvedToken(input) # Nobody /\ ResolvedToken(input) \in Token
    BY <1>1, <1>2, <1>4 DEF CanPrepare, ResolveRemote, ResolvedOrigin, ResolvedToken, SavedTarget
<1>6. <<input.origin, ResolvedToken(input)>> \in entered \cap tested
  <2>1. CASE input.token # Nobody
    <3>1. ResolvedToken(input) = input.token
        BY <2>1 DEF ResolvedToken
    <3>2. input.origin = action[a].origin /\ input.token = action[a].token
        BY <1>1, <1>2, <1>5, <2>1 DEF ActionIsSound
    <3> QED
        BY <1>1, <3>1, <3>2 DEF ActionIsSound
  <2>2. CASE input.token = Nobody
    <3>1. saved.origin = input.origin /\ ResolvedToken(input) = saved.token
        BY <1>5, <2>2 DEF ResolvedToken
    <3> QED
        BY <1>1, <3>1 DEF SavedIsSound
  <2> QED
      BY <2>1, <2>2
<1>7. ack \in Insecure \cup {Nobody} /\ (ack # Nobody => ack \in accepted)
  <2>1. CASE ~AcknowledgesOrigin(input.checked, input.origin)
      BY <2>1
  <2>2. CASE AcknowledgesOrigin(input.checked, input.origin)
    <3>1. ack = input.origin /\ input.origin \in Insecure
        BY <2>2 DEF AcknowledgesOrigin
    <3>2. input.checked => input.origin \in accepted
        BY <1>1, <1>2 DEF ActionIsSound
    <3>3. saved.acknowledged = input.origin => input.origin \in accepted
        BY <1>1, <1>5 DEF SavedIsSound
    <3> QED
        BY <2>2, <3>1, <3>2, <3>3 DEF AcknowledgesOrigin
  <2> QED
      BY <2>1, <2>2
<1> HIDE DEF ack, s
<1>8. s \in SavedTarget /\ s.origin = input.origin /\ s.token = ResolvedToken(input) /\ s.acknowledged = ack
    BY <1>2, <1>3, <1>5, <1>7 DEF SavedTarget
<1>9. s \in SavedTarget /\ <<s.origin, s.token>> \in entered \cap tested
      /\ (s.acknowledged # Nobody => s.acknowledged \in accepted)
    BY <1>6, <1>7, <1>8
<1> QED
    BY <1>9 DEF s, input

\* An action that has passed ends, and at most changes the file and asks for a restart.
LEMMA ActionEnds ==
    ASSUME ConnectionInv, NEW a \in Actions, action[a].pc = "passed",
           action' = [action EXCEPT ![a] = NoAction], saved' \in SavedTarget, SavedIsSound',
           running' = running \/ running' = [running EXCEPT !.phase = "restarting"],
           UNCHANGED <<form, inputs, accepted, entered, tested>>
    PROVE  ConnectionInv'
<1>1. /\ ConnectionTypeOK /\ FormIsSound /\ ActionsAreSound /\ RunningIsSound
      /\ action \in [Actions -> ActionState]
      /\ running \in [phase : {"starting", "asking", "open", "restarting"}, target : Target]
    BY ConnectionTypes DEF ConnectionInv
<1>2. /\ action' \in [Actions -> ActionState] /\ \A x \in Actions \ {a} : action'[x] = action[x]
      /\ action'[a].pc = "none"
    BY <1>1, Empties
<1>3. /\ running' \in [phase : {"starting", "asking", "open", "restarting"}, target : Target]
      /\ running'.target = running.target /\ running'.phase \in {running.phase, "restarting"}
    BY <1>1
<1>4. ConnectionTypeOK'
    BY <1>1, <1>2, <1>3, ConnectionTypes, TypesAgain
<1>5. ActionIsSound(action[a])'
    BY <1>2 DEF ActionIsSound
<1>6. ActionsAreSound'
    BY <1>1, <1>2, <1>5, OneActionChanges
<1>7. running.phase \notin {"starting", "asking"}
    BY <1>1 DEF RunningIsSound
<1>8. RunningIsSound'
    BY <1>1, <1>3, <1>7 DEF RunningIsSound
<1>9. FormIsSound'
    BY <1>1 DEF FormIsSound
<1> QED
    BY <1>4, <1>6, <1>8, <1>9 DEF ConnectionInv

LEMMA EndingKeeps ==
    ASSUME ConnectionInv, TestEnds \/ SaveTarget \/ RememberRemote
    PROVE  ConnectionInv'
<1>1. /\ saved \in SavedTarget /\ SavedIsSound /\ ActionsAreSound /\ action \in [Actions -> ActionState]
    BY ConnectionTypes DEF ConnectionInv
<1>2. Actions = {"test", "save", "migrate"}
    BY DEF Actions
<1>3. CASE TestEnds
  <2>1. SavedIsSound'
      BY <1>1, <1>3 DEF TestEnds, SavedIsSound
  <2> QED
      BY <1>1, <1>2, <1>3, <2>1, ActionEnds DEF TestEnds
<1>4. CASE SaveTarget
  <2> DEFINE input == Input("save")
             kept == [saved EXCEPT !.mode = "local"]
  <2>1. /\ action["save"].pc = "passed" /\ action' = [action EXCEPT !["save"] = NoAction]
        /\ UNCHANGED <<form, inputs, accepted, entered, tested>>
        /\ \/ /\ input.mode = "local" \/ CanPrepare(input)
              /\ saved' = IF input.mode = "local" THEN kept ELSE Prepared(input, "remote")
              /\ running' = [running EXCEPT !.phase = "restarting"]
           \/ UNCHANGED <<saved, running>>
      BY <1>4 DEF SaveTarget
  <2>2. input.mode = action["save"].input.mode /\ input.mode \in {"local", "remote"}
      BY <1>1, <1>2 DEF Input, ActionState, Target
  <2>3. saved' \in SavedTarget /\ SavedIsSound'
    <3>1. kept \in SavedTarget /\ kept.origin = saved.origin /\ kept.token = saved.token
          /\ kept.acknowledged = saved.acknowledged
        BY <1>1 DEF SavedTarget
    <3> HIDE DEF kept, input
    <3>2. CASE UNCHANGED <<saved, running>>
        BY <1>1, <2>1, <3>2 DEF SavedIsSound
    <3>3. CASE saved' = kept
        BY <1>1, <2>1, <3>1, <3>3 DEF SavedIsSound
    <3>4. CASE input.mode = "remote" /\ CanPrepare(input) /\ saved' = Prepared(input, "remote")
        BY <1>2, <2>1, <2>2, <3>4, PreparedIsSound DEF SavedIsSound, input
    <3> QED
        BY <2>1, <2>2, <3>2, <3>3, <3>4
  <2>4. running' = running \/ running' = [running EXCEPT !.phase = "restarting"]
      BY <2>1
  <2> QED
      BY <1>2, <2>1, <2>3, <2>4, ActionEnds
<1>5. CASE RememberRemote
  <2> DEFINE input == Input("migrate")
  <2>1. /\ action["migrate"].pc = "passed" /\ action' = [action EXCEPT !["migrate"] = NoAction]
        /\ saved' = IF CanPrepare(input) THEN Prepared(input, saved.mode) ELSE saved
        /\ UNCHANGED <<running, form, inputs, accepted, entered, tested>>
      BY <1>5 DEF RememberRemote
  <2>2. action["migrate"].input.mode = "remote" /\ saved.mode \in {"local", "remote"}
      BY <1>1, <2>1 DEF ActionsAreSound, SavedTarget
  <2>3. saved' \in SavedTarget /\ SavedIsSound'
    <3>1. CASE CanPrepare(input)
        BY <1>2, <2>1, <2>2, <3>1, PreparedIsSound DEF SavedIsSound
    <3>2. CASE ~CanPrepare(input)
        BY <1>1, <2>1, <3>2 DEF SavedIsSound
    <3> QED
        BY <3>1, <3>2
  <2> QED
      BY <1>2, <2>1, <2>3, ActionEnds
<1> QED
    BY <1>3, <1>4, <1>5

-----------------------------------------------------------------------------
(* The connection: what its specification keeps. *)

\* The file at the start is a pair that some earlier session has entered and tested.
LEMMA ConnectionStarts == ASSUME ConnectionInit PROVE ConnectionInv
<1>1. /\ saved \in SavedTarget /\ saved.acknowledged = Nobody
      /\ running = [phase |-> "starting", target |-> LocalTarget]
      /\ form = EmptyForm /\ action = [x \in Actions |-> NoAction] /\ inputs = 0 /\ accepted = {}
      /\ entered = {<<saved.origin, saved.token>>} /\ tested = {<<saved.origin, saved.token>>}
    BY DEF ConnectionInit, SavedTarget, Origin, Token
<1>2. saved.origin \in Origin /\ saved.token \in Token
    BY <1>1 DEF SavedTarget
<1>3. inputs \in 0..MaxInputs
    BY <1>1, ConnectionAssumption
<1>4. /\ running \in [phase : {"starting", "asking", "open", "restarting"}, target : Target]
      /\ running.phase = "starting" /\ running.target.mode = "local"
    BY <1>1, Empties
<1>5. /\ form \in FormState /\ ~form.checked /\ form.known = Nobody
      /\ action \in [Actions -> ActionState] /\ \A x \in Actions : action[x].pc = "none"
    BY <1>1, Empties
<1>6. ConnectionTypeOK
    BY <1>1, <1>2, <1>3, <1>4, <1>5 DEF ConnectionTypeOK, SavedTarget, FormState, ActionState, Origin, Token
<1>7. SavedIsSound /\ FormIsSound /\ RunningIsSound
    BY <1>1, <1>4, <1>5 DEF SavedIsSound, FormIsSound, RunningIsSound
<1>8. ActionsAreSound
    BY <1>5 DEF ActionsAreSound, ActionIsSound, Actions
<1> QED
    BY <1>6, <1>7, <1>8 DEF ConnectionInv

LEMMA ConnectionKeeps == ASSUME ConnectionInv, [ConnectionNext]_connectionVars PROVE ConnectionInv'
<1>1. CASE ConnectionNext
    BY <1>1, StartApplicationKeeps, AcceptLegacyKeeps, RefuseLegacyKeeps, RestartKeeps, FormKeeps,
       SubmitKeeps, ConnectionAnswerKeeps, EndingKeeps DEF ConnectionNext
<1>2. CASE UNCHANGED connectionVars
    BY <1>2 DEF connectionVars, ConnectionInv, ConnectionTypeOK, SavedIsSound, FormIsSound,
                ActionsAreSound, ActionIsSound, RunningIsSound
<1> QED
    BY <1>1, <1>2

\* Whatever tests, saves and migrations of the target are under way together, the stored
\* target is a pair that was entered and tested together (connection-store.js).
THEOREM ConnectionInductive == ConnectionSpec => []ConnectionInv
BY ConnectionStarts, ConnectionKeeps, PTL DEF ConnectionSpec

\* The state of the connection store, of the form and of its actions has its types.
THEOREM ConnectionIsTyped == ConnectionSpec => []ConnectionTypeOK
<1>1. ConnectionInv => ConnectionTypeOK
    BY DEF ConnectionInv
<1> QED
    BY <1>1, ConnectionInductive, PTL

LEMMA TrustHolds == ConnectionInv => TargetsAreTrusted
<1> SUFFICES ASSUME ConnectionInv PROVE TargetsAreTrusted
    OBVIOUS
<1>1. SavedTargetWasTested
    BY DEF ConnectionInv, SavedIsSound, SavedTargetWasTested
<1>2. \A c \in Asked : ActionIsSound(c) /\ c.pc # "none" /\ c.input.mode = "remote"
    BY DEF ConnectionInv, ActionsAreSound, Asked
<1>3. OnlyAcceptedOrigins
    BY <1>2 DEF ConnectionInv, RunningIsSound, ActionIsSound, OnlyAcceptedOrigins
<1>4. TokenStaysWithServer
    BY <1>2 DEF ConnectionInv, RunningIsSound, ActionIsSound, TokenStaysWithServer
<1> QED
    BY <1>1, <1>3, <1>4 DEF TargetsAreTrusted

\* For any servers: nothing goes over plain HTTP to an origin that was not accepted, no token
\* goes to another server than the one it was entered for, and what is stored has worked.
THEOREM TargetsStayTrusted == ConnectionSpec => []TargetsAreTrusted
BY TrustHolds, ConnectionInductive, PTL

-----------------------------------------------------------------------------
(* The processes: the inductive invariant. *)

\* A backend that answers to the token of this run.
Mine(p) == Alive(p) /\ process[p].run = app.run

AppState == [phase : {"off", "starting", "open"}, run : 0..MaxRuns]
ProcessState == [life : Lives, run : 0..MaxRuns]
RecoveryState == [pc : {"none", "checking", "stopping", "spawning", "waiting", "failing"},
                  victim : Processes \cup {NoProcess}]

\* The start, the recoveries and the handler of the end go on in their own phase.
PhasesFit ==
    /\ starting # "none" <=> app.phase = "starting"
    /\ \A r \in Recoveries : ~Going(r, "none") => app.phase = "open"
    /\ closing # "none" => app.phase = "open"

RunsFit == \A p \in Processes : Alive(p) => process[p].run <= app.run

\* Between the two halves of a restart no process is known, and nobody else is there.
SingleRestart == "overlap" \notin left
RestartsAlone ==
    SingleRestart => \A r \in Recoveries : Replacing(r) =>
                        child = NoProcess /\ \A o \in Recoveries : Replacing(o) => o = r

OneBackend == SingleRestart => \A p, q \in Processes : Mine(p) /\ Mine(q) => p = q

\* The backend of a running application is the one that it knows, or one that it is stopping.
IsStopping(p) == \E r \in Recoveries : recovery[r].pc \in {"stopping", "failing"} /\ recovery[r].victim = p
BackendIsKnown ==
    SingleRestart /\ app.phase # "off" => \A p \in Processes : Mine(p) => p = child \/ IsStopping(p)

\* Where one is spawned there is none.
SpawnIsNext == starting \in {"database", "spawning"} \/ \E r \in Recoveries : Going(r, "spawning")
NoneWhereSpawned == SingleRestart /\ SpawnIsNext => \A p \in Processes : ~Mine(p)

\* Where nothing is noted, backends live as long as their run.
NothingLeft ==
    left = {} =>
        /\ \A p \in Processes : Alive(p) => Mine(p)
        /\ app.phase = "off" \/ closing = "stopping" => \A p \in Processes : ~Alive(p)

ProcessInv ==
    /\ ProcessTypeOK
    /\ PhasesFit /\ RunsFit /\ RestartsAlone /\ OneBackend /\ BackendIsKnown /\ NoneWhereSpawned /\ NothingLeft

-----------------------------------------------------------------------------
(* The processes: the steps. *)

LEMMA ProcessTypes ==
    ASSUME ProcessTypeOK
    PROVE  /\ app \in AppState
           /\ process \in [Processes -> ProcessState] /\ child \in Processes \cup {NoProcess}
           /\ recovery \in [Recoveries -> RecoveryState]
           /\ trouble \in 0..MaxTroubles
BY DEF ProcessTypeOK, AppState, ProcessState, RecoveryState

LEMMA NoRecoveryRests == NoRecovery \in RecoveryState /\ NoRecovery.pc = "none" /\ NoRecovery.victim = NoProcess
BY DEF NoRecovery, RecoveryState

LEMMA TroubleCounts == ASSUME ProcessTypeOK, Trouble PROVE trouble' \in 0..MaxTroubles
<1>1. MaxTroubles \in Nat
    BY ProcessAssumption
<1>2. trouble \in 0..MaxTroubles /\ trouble < MaxTroubles /\ trouble' = trouble + 1
    BY ProcessTypes DEF Trouble
<1> QED
    BY <1>1, <1>2

LEMMA GoneIsNotAlive == Gone \in ProcessState /\ Gone.life \notin {"booting", "serving", "hung"}
BY ProcessAssumption DEF Gone, ProcessState, Lives

\* What happens to the process in one place does not happen to the others.
LEMMA LifeChanges ==
    ASSUME process \in [Processes -> ProcessState], NEW p \in Processes, NEW s \in ProcessState,
           process' = [process EXCEPT ![p] = s]
    PROVE  /\ process' \in [Processes -> ProcessState] /\ process'[p] = s
           /\ \A q \in Processes : q # p => process'[q] = process[q]
OBVIOUS

\* A kill ends that process, if there is one, and no other.
LEMMA KillEnds ==
    ASSUME process \in [Processes -> ProcessState], NEW v \in Processes \cup {NoProcess}, process' = Killed(v)
    PROVE  /\ process' \in [Processes -> ProcessState]
           /\ \A q \in Processes : /\ Alive(q)' <=> Alive(q) /\ q # v
                                   /\ Alive(q)' => process'[q].run = process[q].run
<1>1. CASE v = NoProcess
    BY <1>1, ProcessAssumption DEF Killed, Alive
<1>2. CASE v # NoProcess
  <2>1. v \in Processes /\ process' = [process EXCEPT ![v] = Gone]
      BY <1>2 DEF Killed
  <2>2. /\ process' \in [Processes -> ProcessState] /\ process'[v] = Gone
        /\ \A q \in Processes : q # v => process'[q] = process[q]
      BY <2>1, LifeChanges, GoneIsNotAlive
  <2> QED
      BY <2>2, GoneIsNotAlive DEF Alive
<1> QED
    BY <1>1, <1>2

\* The victim of a stop is the process that is known, if it is alive.
LEMMA VictimIsChild ==
    /\ Victim \in Processes \cup {NoProcess}
    /\ \A p \in Processes : p = child /\ Alive(p) => Victim = p
BY DEF Victim

\* One recovery goes on, the others stay where they are.
LEMMA RecoveryGoes ==
    ASSUME ProcessTypeOK, NEW r \in Recoveries,
           NEW pc \in {"none", "checking", "stopping", "spawning", "waiting", "failing"},
           NEW v \in Processes \cup {NoProcess}, Goes(r, pc, v)
    PROVE  /\ recovery' \in [Recoveries -> RecoveryState]
           /\ recovery'[r].pc = pc /\ recovery'[r].victim = v
           /\ \A o \in Recoveries : o # r => recovery'[o] = recovery[o]
<1> DEFINE s == [pc |-> pc, victim |-> v]
<1>1. s \in RecoveryState /\ s.pc = pc /\ s.victim = v
    BY DEF RecoveryState
<1>2. recovery \in [Recoveries -> RecoveryState] /\ recovery' = [recovery EXCEPT ![r] = s]
    BY ProcessTypes DEF Goes
<1> HIDE DEF s
<1> QED
    BY <1>1, <1>2

\* What is noted stays noted.
LEMMA LeftGrows ==
    ASSUME NEW happened, NEW what, Leaves(happened, what)
    PROVE  left \subseteq left' /\ (happened => what \in left') /\ (~happened => left' = left)
           /\ left' \subseteq left \cup {what}
BY DEF Leaves

\* In a step in which no process comes to life, no backend does.
LEMMA NoneIsBorn ==
    ASSUME ProcessInv, app'.run = app.run, left \subseteq left',
           \A q \in Processes : Alive(q)' => Alive(q) /\ process'[q].run = process[q].run
    PROVE  /\ \A q \in Processes : Mine(q)' <=> Alive(q)' /\ Mine(q)
           /\ RunsFit' /\ OneBackend'
           /\ left = {} => \A q \in Processes : Alive(q)' => Mine(q)'
<1>1. RunsFit /\ OneBackend /\ NothingLeft
    BY DEF ProcessInv
<1>2. \A q \in Processes : Mine(q)' <=> Alive(q)' /\ Mine(q)
    BY DEF Mine
<1>3. RunsFit'
    BY <1>1 DEF RunsFit
<1>4. OneBackend'
    BY <1>1, <1>2 DEF OneBackend, SingleRestart
<1> QED
    BY <1>1, <1>2, <1>3, <1>4 DEF NothingLeft

\* A backend boots, hangs or dies.
LEMMA BackendStepKeeps ==
    ASSUME ProcessInv, NEW p \in Processes, Boots(p) \/ Hangs(p) \/ Dies(p)
    PROVE  ProcessInv'
<1>1. ProcessTypeOK /\ PhasesFit /\ RestartsAlone /\ BackendIsKnown /\ NoneWhereSpawned /\ NothingLeft
    BY DEF ProcessInv
<1>2. /\ UNCHANGED <<app, child, starting, recovery, closing, left>>
      /\ trouble' \in 0..MaxTroubles /\ Alive(p)
    BY <1>1, TroubleCounts, ProcessTypes DEF Boots, Hangs, Dies, Alive
<1>3. /\ process' \in [Processes -> ProcessState]
      /\ \A q \in Processes : Alive(q)' => Alive(q) /\ process'[q].run = process[q].run
  <2>1. PICK s \in ProcessState : process' = [process EXCEPT ![p] = s] /\ (s = Gone \/ s.run = process[p].run)
    <3>1. process[p] \in ProcessState
        BY <1>1, ProcessTypes
    <3>2. /\ [process[p] EXCEPT !.life = "serving"] \in ProcessState
          /\ [process[p] EXCEPT !.life = "hung"] \in ProcessState
          /\ [process[p] EXCEPT !.life = "serving"].run = process[p].run
          /\ [process[p] EXCEPT !.life = "hung"].run = process[p].run
        BY <3>1 DEF ProcessState, Lives
    <3>3. \/ process' = [process EXCEPT ![p] = Gone]
          \/ process' = [process EXCEPT ![p] = [process[p] EXCEPT !.life = "serving"]]
          \/ process' = [process EXCEPT ![p] = [process[p] EXCEPT !.life = "hung"]]
        BY <1>1, ProcessTypes DEF Boots, Hangs, Dies
    <3> QED
        BY <3>2, <3>3, GoneIsNotAlive
  <2>2. /\ process' \in [Processes -> ProcessState] /\ process'[p] = s
        /\ \A q \in Processes : q # p => process'[q] = process[q]
      BY <1>1, <2>1, ProcessTypes, LifeChanges
  <2> QED
      BY <1>2, <2>1, <2>2, GoneIsNotAlive DEF Alive
<1>4. ProcessTypeOK'
    BY <1>1, <1>2, <1>3 DEF ProcessTypeOK, ProcessState
<1>5. /\ \A q \in Processes : Mine(q)' <=> Alive(q)' /\ Mine(q)
      /\ RunsFit' /\ OneBackend' /\ (left = {} => \A q \in Processes : Alive(q)' => Mine(q)')
    BY <1>2, <1>3, NoneIsBorn
<1>6. PhasesFit' /\ RestartsAlone' /\ BackendIsKnown'
    BY <1>1, <1>2, <1>5 DEF PhasesFit, Going, RestartsAlone, Replacing, SingleRestart, BackendIsKnown, IsStopping
<1>7. NoneWhereSpawned' /\ NothingLeft'
    BY <1>1, <1>2, <1>3, <1>5 DEF NoneWhereSpawned, SpawnIsNext, Going, SingleRestart, NothingLeft
<1> QED
    BY <1>4, <1>5, <1>6, <1>7 DEF ProcessInv

\* A spawn: the new process is the one that is known, and others live on.
LEMMA SpawnBirth ==
    ASSUME ProcessInv, Spawn, app' = app, left \subseteq left',
           SingleRestart => \A q \in Processes : ~Mine(q)
    PROVE  /\ process' \in [Processes -> ProcessState] /\ child' \in Processes
           /\ RunsFit' /\ OneBackend' /\ (SingleRestart => \A q \in Processes : Mine(q)' => q = child')
           /\ \A q \in Processes : Alive(q)' => q = child' \/ (Alive(q) /\ process'[q] = process[q])
           /\ process'[child'].run = app.run
<1>1. app \in AppState /\ process \in [Processes -> ProcessState] /\ RunsFit
    BY ProcessTypes DEF ProcessInv
<1>2. PICK p \in Processes :
          process' = [process EXCEPT ![p] = [life |-> "booting", run |-> app.run]] /\ child' = p
    BY DEF Spawn
<1>3. [life |-> "booting", run |-> app.run] \in ProcessState
    BY <1>1 DEF ProcessState, Lives, AppState
<1>4. /\ process' \in [Processes -> ProcessState]
      /\ process'[p].life = "booting" /\ process'[p].run = app.run
      /\ \A q \in Processes : q # p => process'[q] = process[q]
    BY <1>1, <1>2, <1>3
<1>5. \A q \in Processes : Alive(q)' => q = p \/ (Alive(q) /\ process'[q] = process[q])
    BY <1>4 DEF Alive
<1>6. SingleRestart => \A q \in Processes : Mine(q)' => q = p
    BY <1>4 DEF Mine, Alive
<1>7. OneBackend'
    BY <1>6 DEF OneBackend, SingleRestart
<1>8. RunsFit'
  <2> SUFFICES ASSUME NEW q \in Processes, Alive(q)' PROVE process'[q].run <= app'.run
      BY DEF RunsFit
  <2>1. CASE q = p
      BY <1>1, <1>4, <2>1 DEF AppState
  <2>2. CASE q # p
      BY <1>5, <2>2 DEF RunsFit, ProcessInv
  <2> QED
      BY <2>1, <2>2
<1> QED
    BY <1>2, <1>4, <1>5, <1>6, <1>7, <1>8

\* A step in which the processes rest.
LEMMA ProcessesRest ==
    ASSUME ProcessInv, UNCHANGED process, app'.run = app.run, left \subseteq left'
    PROVE  /\ \A q \in Processes : (Mine(q)' <=> Mine(q)) /\ (Alive(q)' <=> Alive(q))
           /\ RunsFit' /\ OneBackend'
<1>1. \A q \in Processes : process'[q].run = process[q].run /\ (Alive(q)' <=> Alive(q))
    BY DEF Alive
<1>2. /\ \A q \in Processes : Mine(q)' <=> Alive(q)' /\ Mine(q)
      /\ RunsFit' /\ OneBackend'
    BY <1>1, NoneIsBorn
<1>3. \A q \in Processes : Mine(q) => Alive(q)
    BY DEF Mine
<1> QED
    BY <1>1, <1>2, <1>3

LEMMA LaunchKeeps == ASSUME ProcessInv, Launch PROVE ProcessInv'
<1>1. /\ ProcessTypeOK /\ PhasesFit /\ RunsFit /\ RestartsAlone /\ NothingLeft
      /\ app \in AppState /\ process \in [Processes -> ProcessState]
    BY ProcessTypes DEF ProcessInv
<1>2. /\ app.phase = "off" /\ app.run < MaxRuns
      /\ app' = [phase |-> "starting", run |-> app.run + 1]
      /\ child' = NoProcess /\ starting' = "database"
      /\ UNCHANGED <<process, recovery, closing, trouble, left>>
    BY DEF Launch
<1>3. app' \in AppState /\ app'.phase = "starting" /\ app'.run = app.run + 1 /\ app.run \in Nat
  <2>1. MaxRuns \in Nat
      BY ProcessAssumption
  <2>2. app.run \in 0..MaxRuns
      BY <1>1 DEF AppState
  <2>3. app.run \in Nat /\ app.run + 1 \in 0..MaxRuns
      BY <1>2, <2>1, <2>2
  <2> QED
      BY <1>2, <2>3 DEF AppState
<1>4. \A q \in Processes : process[q].run \in Nat /\ (Alive(q) => process[q].run <= app.run)
    BY <1>1 DEF RunsFit, ProcessState
<1>5. RunsFit' /\ \A q \in Processes : ~Mine(q)'
    BY <1>2, <1>3, <1>4 DEF RunsFit, Mine, Alive
<1>6. ProcessTypeOK'
    BY <1>1, <1>2, <1>3 DEF ProcessTypeOK, AppState
<1>7. PhasesFit' /\ RestartsAlone'
    BY <1>1, <1>2, <1>3 DEF PhasesFit, Going, RestartsAlone, SingleRestart, Replacing
<1>8. OneBackend' /\ BackendIsKnown' /\ NoneWhereSpawned'
    BY <1>5 DEF OneBackend, BackendIsKnown, NoneWhereSpawned
<1>9. NothingLeft'
  <2>1. left = {} => \A q \in Processes : ~Alive(q)
      BY <1>1, <1>2 DEF NothingLeft
  <2> QED
      BY <1>2, <2>1 DEF NothingLeft, Alive
<1> QED
    BY <1>5, <1>6, <1>7, <1>8, <1>9 DEF ProcessInv

\* The application and its records go on, the processes rest.
LEMMA WaitingKeeps ==
    ASSUME ProcessInv, EnsureDatabase \/ BackendIsHealthy \/ CloseWindow
    PROVE  ProcessInv'
<1>1. /\ ProcessTypeOK /\ PhasesFit /\ RestartsAlone /\ BackendIsKnown /\ NoneWhereSpawned /\ NothingLeft
      /\ app \in AppState
    BY ProcessTypes DEF ProcessInv
<1>2. UNCHANGED <<process, child, recovery, trouble, left>>
    BY DEF EnsureDatabase, BackendIsHealthy, CloseWindow
<1>3. RestartsAlone'
    BY <1>1, <1>2 DEF RestartsAlone, SingleRestart, Replacing
<1>4. CASE EnsureDatabase
  <2>1. starting = "database" /\ starting' = "spawning" /\ UNCHANGED <<app, closing>>
      BY <1>4 DEF EnsureDatabase
  <2>2. ProcessTypeOK' /\ PhasesFit'
      BY <1>1, <1>2, <2>1 DEF ProcessTypeOK, PhasesFit, Going
  <2>3. BackendIsKnown' /\ NoneWhereSpawned' /\ NothingLeft'
      BY <1>1, <1>2, <2>1, ProcessesRest
         DEF BackendIsKnown, IsStopping, SingleRestart, NoneWhereSpawned, SpawnIsNext, Going, NothingLeft
  <2> QED
      BY <1>2, <1>3, <2>1, <2>2, <2>3, ProcessesRest DEF ProcessInv
<1>5. CASE BackendIsHealthy
  <2>1. starting = "waiting" /\ starting' = "none" /\ app' = [app EXCEPT !.phase = "open"] /\ UNCHANGED closing
      BY <1>5 DEF BackendIsHealthy
  <2>2. app' \in AppState /\ app'.phase = "open" /\ app'.run = app.run
      BY <1>1, <2>1 DEF AppState
  <2>3. app.phase = "starting" /\ closing = "none" /\ \A r \in Recoveries : Going(r, "none")
      BY <1>1, <2>1 DEF PhasesFit
  <2>4. ProcessTypeOK' /\ PhasesFit'
      BY <1>1, <1>2, <2>1, <2>2, <2>3 DEF ProcessTypeOK, AppState, PhasesFit, Going
  <2>5. BackendIsKnown' /\ NoneWhereSpawned' /\ NothingLeft'
      BY <1>1, <1>2, <2>1, <2>2, <2>3, ProcessesRest
         DEF BackendIsKnown, IsStopping, SingleRestart, NoneWhereSpawned, SpawnIsNext, Going, NothingLeft
  <2> QED
      BY <1>2, <1>3, <2>2, <2>4, <2>5, ProcessesRest DEF ProcessInv
<1>6. CASE CloseWindow
  <2>1. app.phase = "open" /\ closing' = "integration" /\ UNCHANGED <<app, starting>>
      BY <1>6 DEF CloseWindow
  <2>2. ProcessTypeOK' /\ PhasesFit'
      BY <1>1, <1>2, <2>1 DEF ProcessTypeOK, PhasesFit, Going
  <2>3. BackendIsKnown' /\ NoneWhereSpawned' /\ NothingLeft'
      BY <1>1, <1>2, <2>1, ProcessesRest
         DEF BackendIsKnown, IsStopping, SingleRestart, NoneWhereSpawned, SpawnIsNext, Going, NothingLeft
  <2> QED
      BY <1>2, <1>3, <2>1, <2>2, <2>3, ProcessesRest DEF ProcessInv
<1> QED
    BY <1>4, <1>5, <1>6

\* A recovery begins, or ends without having to stop anything.
LEMMA RecoveryRestsKeeps ==
    ASSUME ProcessInv, NEW r \in Recoveries, RequestTimesOut(r) \/ HealthCheckPasses(r) \/ RecoveryEnds(r)
    PROVE  ProcessInv'
<1>1. ProcessTypeOK /\ PhasesFit /\ RestartsAlone /\ BackendIsKnown /\ NoneWhereSpawned /\ NothingLeft
    BY DEF ProcessInv
<1>2. /\ UNCHANGED <<app, process, child, starting, closing, trouble, left>>
      /\ recovery[r].pc \in {"none", "checking", "waiting"} /\ app.phase = "open"
    BY <1>1, NoRecoveryRests DEF RequestTimesOut, HealthCheckPasses, RecoveryEnds, PhasesFit, Going
<1>3. PICK pc \in {"none", "checking"} : Goes(r, pc, NoProcess)
    BY DEF RequestTimesOut, HealthCheckPasses, RecoveryEnds
<1>4. /\ recovery' \in [Recoveries -> RecoveryState]
      /\ recovery'[r].pc = pc /\ \A o \in Recoveries : o # r => recovery'[o] = recovery[o]
    BY <1>1, <1>3, RecoveryGoes
<1>5. ProcessTypeOK' /\ PhasesFit'
    BY <1>1, <1>2, <1>4 DEF ProcessTypeOK, RecoveryState, PhasesFit, Going
<1>6. /\ \A o \in Recoveries : Replacing(o)' <=> Replacing(o)
      /\ \A o \in Recoveries : Going(o, "spawning")' <=> Going(o, "spawning")
      /\ \A p \in Processes : IsStopping(p)' <=> IsStopping(p)
    BY <1>2, <1>4 DEF Replacing, Going, IsStopping
<1>7. /\ \A q \in Processes : (Mine(q)' <=> Mine(q)) /\ (Alive(q)' <=> Alive(q))
      /\ RunsFit' /\ OneBackend'
    BY <1>2, ProcessesRest
<1>8. RestartsAlone' /\ BackendIsKnown' /\ NoneWhereSpawned' /\ NothingLeft'
    BY <1>1, <1>2, <1>6, <1>7
       DEF RestartsAlone, BackendIsKnown, SingleRestart, NoneWhereSpawned, SpawnIsNext, NothingLeft
<1> QED
    BY <1>5, <1>7, <1>8 DEF ProcessInv

LEMMA SpawnsFirstKeeps == ASSUME ProcessInv, SpawnsFirst PROVE ProcessInv'
<1>1. ProcessTypeOK /\ PhasesFit /\ NoneWhereSpawned /\ NothingLeft
    BY DEF ProcessInv
<1>2. /\ Spawn /\ app' = app /\ UNCHANGED <<recovery, closing, trouble, left>>
      /\ starting = "spawning" /\ starting' = "waiting"
      /\ SingleRestart => \A q \in Processes : ~Mine(q)
    BY <1>1 DEF SpawnsFirst, NoneWhereSpawned, SpawnIsNext
<1>3. /\ process' \in [Processes -> ProcessState] /\ child' \in Processes
      /\ RunsFit' /\ OneBackend' /\ (SingleRestart => \A q \in Processes : Mine(q)' => q = child')
      /\ (\A q \in Processes : Alive(q)' => q = child' \/ (Alive(q) /\ process'[q] = process[q]))
      /\ process'[child'].run = app.run
    BY <1>2, SpawnBirth
<1>4. app.phase = "starting" /\ closing = "none" /\ \A r \in Recoveries : recovery[r].pc = "none"
    BY <1>1, <1>2 DEF PhasesFit, Going
<1>5. ProcessTypeOK' /\ PhasesFit'
    BY <1>1, <1>2, <1>3, <1>4 DEF ProcessTypeOK, PhasesFit, ProcessState, Going
<1>6. RestartsAlone' /\ BackendIsKnown' /\ NoneWhereSpawned'
    BY <1>2, <1>3, <1>4
       DEF RestartsAlone, Replacing, BackendIsKnown, SingleRestart, NoneWhereSpawned, SpawnIsNext, Going
<1>7. NothingLeft'
    BY <1>1, <1>2, <1>3, <1>4 DEF NothingLeft, Mine
<1> QED
    BY <1>3, <1>5, <1>6, <1>7 DEF ProcessInv

LEMMA RestartSpawnsKeeps == ASSUME ProcessInv, NEW r \in Recoveries, RestartSpawns(r) PROVE ProcessInv'
<1>1. ProcessTypeOK /\ PhasesFit /\ RestartsAlone /\ NoneWhereSpawned /\ NothingLeft
    BY DEF ProcessInv
<1>2. /\ Spawn /\ app' = app /\ UNCHANGED <<starting, closing, trouble>>
      /\ Going(r, "spawning") /\ Goes(r, "waiting", NoProcess)
      /\ SingleRestart => \A q \in Processes : ~Mine(q)
    BY <1>1 DEF RestartSpawns, NoneWhereSpawned, SpawnIsNext
<1>3. /\ left \subseteq left' /\ (left' = {} => closing # "stopping")
      /\ left' \subseteq left \cup {"respawn"}
    BY LeftGrows DEF RestartSpawns
<1>4. /\ process' \in [Processes -> ProcessState] /\ child' \in Processes
      /\ RunsFit' /\ OneBackend' /\ (SingleRestart => \A q \in Processes : Mine(q)' => q = child')
      /\ (\A q \in Processes : Alive(q)' => q = child' \/ (Alive(q) /\ process'[q] = process[q]))
      /\ process'[child'].run = app.run
    BY <1>2, <1>3, SpawnBirth
<1>5. /\ recovery' \in [Recoveries -> RecoveryState]
      /\ recovery'[r].pc = "waiting" /\ \A o \in Recoveries : o # r => recovery'[o] = recovery[o]
    BY <1>1, <1>2, RecoveryGoes
<1>6. app.phase = "open" /\ starting = "none"
    BY <1>1, <1>2 DEF PhasesFit, Going
<1>7. ProcessTypeOK' /\ PhasesFit'
    BY <1>1, <1>2, <1>3, <1>4, <1>5, <1>6 DEF ProcessTypeOK, PhasesFit, ProcessState, RecoveryState, Going
<1>8. SingleRestart' => SingleRestart /\ \A o \in Recoveries : ~Replacing(o)'
    BY <1>1, <1>2, <1>3, <1>5 DEF RestartsAlone, SingleRestart, Replacing, Going
<1>9. RestartsAlone' /\ BackendIsKnown' /\ NoneWhereSpawned'
    BY <1>2, <1>4, <1>6, <1>8 DEF RestartsAlone, BackendIsKnown, NoneWhereSpawned, SpawnIsNext, Replacing, Going
<1>10. NothingLeft'
    BY <1>1, <1>2, <1>3, <1>4, <1>6 DEF NothingLeft, Mine
<1> QED
    BY <1>4, <1>7, <1>9, <1>10 DEF ProcessInv

\* A start that fails stops what it has started.
LEMMA StartupFailsKeeps == ASSUME ProcessInv, StartupFails PROVE ProcessInv'
<1>1. /\ ProcessTypeOK /\ PhasesFit /\ BackendIsKnown /\ NothingLeft
      /\ app \in AppState /\ process \in [Processes -> ProcessState]
    BY ProcessTypes DEF ProcessInv
<1>2. /\ starting # "none" /\ process' = Killed(Victim) /\ child' = NoProcess
      /\ starting' = "none" /\ app' = [app EXCEPT !.phase = "off"]
      /\ UNCHANGED <<recovery, closing, left>>
      /\ UNCHANGED trouble \/ Trouble
    BY DEF StartupFails, ForgetProcess
<1>3. trouble' \in 0..MaxTroubles
    BY <1>1, <1>2, TroubleCounts, ProcessTypes
<1>4. app.phase = "starting" /\ closing = "none" /\ \A r \in Recoveries : recovery[r].pc = "none"
    BY <1>1, <1>2 DEF PhasesFit, Going
<1>5. app' \in AppState /\ app'.phase = "off" /\ app'.run = app.run
    BY <1>1, <1>2 DEF AppState
<1>6. /\ process' \in [Processes -> ProcessState]
      /\ \A q \in Processes : /\ Alive(q)' <=> Alive(q) /\ q # Victim
                              /\ Alive(q)' => process'[q].run = process[q].run
    BY <1>1, <1>2, VictimIsChild, KillEnds
<1>7. /\ \A q \in Processes : Mine(q)' <=> Alive(q)' /\ Mine(q)
      /\ RunsFit' /\ OneBackend'
    BY <1>2, <1>5, <1>6, NoneIsBorn
<1>8. \A q \in Processes : Mine(q) => Alive(q)
    BY DEF Mine
<1>9. left = {} => \A q \in Processes : ~Alive(q)'
    BY <1>1, <1>4, <1>6, <1>8, VictimIsChild DEF BackendIsKnown, IsStopping, SingleRestart, NothingLeft
<1>10. ProcessTypeOK' /\ PhasesFit'
    BY <1>1, <1>2, <1>3, <1>4, <1>5, <1>6 DEF ProcessTypeOK, AppState, PhasesFit, ProcessState, Going
<1>11. RestartsAlone' /\ BackendIsKnown' /\ NoneWhereSpawned' /\ NothingLeft'
    BY <1>2, <1>4, <1>5, <1>9
       DEF RestartsAlone, Replacing, BackendIsKnown, NoneWhereSpawned, SpawnIsNext, Going, NothingLeft
<1> QED
    BY <1>7, <1>10, <1>11 DEF ProcessInv

\* A backend is forgotten, and still to be stopped: for a new one, or because it did not come up.
LEMMA ForgottenKeeps ==
    ASSUME ProcessInv, NEW r \in Recoveries, RestartStops(r) \/ RecoveryGivesUp(r)
    PROVE  ProcessInv'
<1>1. ProcessTypeOK /\ PhasesFit /\ RestartsAlone /\ BackendIsKnown /\ NoneWhereSpawned /\ NothingLeft
    BY DEF ProcessInv
<1>2. PICK pc \in {"stopping", "failing"} : Goes(r, pc, Victim)
    BY DEF RestartStops, RecoveryGivesUp
<1>3. /\ recovery[r].pc \in {"checking", "waiting"} /\ child' = NoProcess
      /\ UNCHANGED <<app, process, starting, closing>> /\ trouble' \in 0..MaxTroubles
      /\ Leaves(\E o \in Recoveries : Replacing(o), "overlap")
    BY <1>1, TroubleCounts, ProcessTypes DEF RestartStops, RecoveryGivesUp, ForgetProcess, Going
<1>4. Victim \in Processes \cup {NoProcess} /\ \A p \in Processes : p = child /\ Alive(p) => Victim = p
    BY VictimIsChild
<1>5. /\ recovery' \in [Recoveries -> RecoveryState]
      /\ recovery'[r].pc = pc /\ recovery'[r].victim = Victim
      /\ \A o \in Recoveries : o # r => recovery'[o] = recovery[o]
    BY <1>1, <1>2, <1>4, RecoveryGoes
<1>6. /\ left \subseteq left' /\ left' \subseteq left \cup {"overlap"}
      /\ SingleRestart' => SingleRestart /\ left' = left /\ \A o \in Recoveries : ~Replacing(o)
    BY <1>3, LeftGrows DEF SingleRestart
<1>7. /\ \A q \in Processes : (Mine(q)' <=> Mine(q)) /\ (Alive(q)' <=> Alive(q))
      /\ RunsFit' /\ OneBackend'
    BY <1>3, <1>6, ProcessesRest
<1>8. app.phase = "open"
    BY <1>1, <1>3 DEF PhasesFit, Going
<1>9. ProcessTypeOK' /\ PhasesFit'
    BY <1>1, <1>3, <1>5, <1>6, <1>8 DEF ProcessTypeOK, RecoveryState, PhasesFit, Going
<1>10. RestartsAlone'
    BY <1>3, <1>5, <1>6 DEF RestartsAlone, Replacing
<1>11. BackendIsKnown'
  <2> SUFFICES ASSUME SingleRestart', NEW p \in Processes, Mine(p)' PROVE IsStopping(p)'
      BY DEF BackendIsKnown
  <2>1. Mine(p) /\ Alive(p) /\ ~IsStopping(p)
      BY <1>6, <1>7 DEF Mine, IsStopping, Replacing
  <2>2. p = child
      BY <1>1, <1>6, <1>8, <2>1 DEF BackendIsKnown
  <2> QED
      BY <1>4, <1>5, <2>1, <2>2 DEF IsStopping
<1>12. NoneWhereSpawned' /\ NothingLeft'
  <2>1. left' = {} => left = {} /\ SingleRestart'
      BY <1>6 DEF SingleRestart
  <2>2. SpawnIsNext' => SpawnIsNext
      BY <1>3, <1>5 DEF SpawnIsNext, Going
  <2> QED
      BY <1>1, <1>3, <1>6, <1>7, <2>1, <2>2 DEF NoneWhereSpawned, NothingLeft
<1> QED
    BY <1>7, <1>9, <1>10, <1>11, <1>12 DEF ProcessInv

\* The old backend has ended: then there is none of this run.
LEMMA VictimEndsKeeps ==
    ASSUME ProcessInv, NEW r \in Recoveries, OldProcessEnds(r) \/ RecoveryFails(r)
    PROVE  ProcessInv'
<1>1. /\ ProcessTypeOK /\ PhasesFit /\ RestartsAlone /\ BackendIsKnown /\ NoneWhereSpawned /\ NothingLeft
      /\ process \in [Processes -> ProcessState] /\ recovery[r].victim \in Processes \cup {NoProcess}
    BY ProcessTypes DEF ProcessInv, RecoveryState
<1>2. PICK pc \in {"spawning", "none"} : Goes(r, pc, NoProcess)
    BY DEF OldProcessEnds, RecoveryFails
<1>3. /\ recovery[r].pc \in {"stopping", "failing"} /\ process' = Killed(recovery[r].victim)
      /\ UNCHANGED <<app, child, starting, closing, trouble, left>>
    BY DEF OldProcessEnds, RecoveryFails, Going
<1>4. /\ process' \in [Processes -> ProcessState]
      /\ \A q \in Processes : /\ Alive(q)' <=> Alive(q) /\ q # recovery[r].victim
                              /\ Alive(q)' => process'[q].run = process[q].run
    BY <1>1, <1>3, KillEnds
<1>5. /\ \A q \in Processes : Mine(q)' <=> Alive(q)' /\ Mine(q)
      /\ RunsFit' /\ OneBackend'
      /\ left = {} => \A q \in Processes : Alive(q)' => Mine(q)'
    BY <1>3, <1>4, NoneIsBorn
<1>6. /\ recovery' \in [Recoveries -> RecoveryState]
      /\ recovery'[r].pc = pc /\ \A o \in Recoveries : o # r => recovery'[o] = recovery[o]
    BY <1>1, <1>2, RecoveryGoes
<1>7. app.phase = "open"
    BY <1>1, <1>3 DEF PhasesFit, Going
<1>8. SingleRestart => \A q \in Processes : ~Mine(q)'
  <2> SUFFICES ASSUME SingleRestart, NEW q \in Processes, Mine(q)' PROVE FALSE
      OBVIOUS
  <2>1. child = NoProcess /\ NoProcess \notin Processes /\ \A o \in Recoveries : Replacing(o) => o = r
      BY <1>1, <1>3, ProcessAssumption DEF RestartsAlone, Replacing
  <2>2. Mine(q) /\ q # recovery[r].victim
      BY <1>4, <1>5 DEF Mine
  <2>3. IsStopping(q)
      BY <1>1, <1>7, <2>1, <2>2 DEF BackendIsKnown
  <2> QED
      BY <2>1, <2>2, <2>3 DEF IsStopping, Replacing
<1>9. ProcessTypeOK' /\ PhasesFit'
    BY <1>1, <1>3, <1>4, <1>6, <1>7 DEF ProcessTypeOK, PhasesFit, ProcessState, RecoveryState, Going
<1>10. RestartsAlone'
    BY <1>1, <1>3, <1>6 DEF RestartsAlone, Replacing, SingleRestart
<1>11. BackendIsKnown' /\ NoneWhereSpawned' /\ NothingLeft'
    BY <1>1, <1>3, <1>4, <1>5, <1>8 DEF BackendIsKnown, NoneWhereSpawned, SingleRestart, NothingLeft
<1> QED
    BY <1>5, <1>9, <1>10, <1>11 DEF ProcessInv

\* The end stops what it knows; what a restart holds meanwhile is noted.
LEMMA ShutdownStopsKeeps == ASSUME ProcessInv, ShutdownStops PROVE ProcessInv'
<1>1. /\ ProcessTypeOK /\ PhasesFit /\ RestartsAlone /\ BackendIsKnown /\ NoneWhereSpawned /\ NothingLeft
      /\ process \in [Processes -> ProcessState]
    BY ProcessTypes DEF ProcessInv
<1>2. /\ closing = "integration" /\ closing' = "stopping"
      /\ process' = Killed(Victim) /\ child' = NoProcess
      /\ Leaves(\E r \in Recoveries : Replacing(r), "unstopped")
      /\ UNCHANGED <<app, starting, recovery, trouble>>
    BY DEF ShutdownStops, ForgetProcess
<1>3. /\ process' \in [Processes -> ProcessState]
      /\ \A q \in Processes : /\ Alive(q)' <=> Alive(q) /\ q # Victim
                              /\ Alive(q)' => process'[q].run = process[q].run
    BY <1>1, <1>2, VictimIsChild, KillEnds
<1>4. /\ left \subseteq left' /\ left' \subseteq left \cup {"unstopped"}
      /\ left' = {} => \A r \in Recoveries : ~Replacing(r)
    BY <1>2, LeftGrows
<1>5. /\ \A q \in Processes : Mine(q)' <=> Alive(q)' /\ Mine(q)
      /\ RunsFit' /\ OneBackend'
      /\ left = {} => \A q \in Processes : Alive(q)' => Mine(q)'
    BY <1>2, <1>3, <1>4, NoneIsBorn
<1>6. app.phase = "open" /\ starting = "none"
    BY <1>1, <1>2 DEF PhasesFit
<1>7. \A q \in Processes : Mine(q) => Alive(q)
    BY DEF Mine
<1>8. SingleRestart => \A q \in Processes : Mine(q)' => IsStopping(q)
    BY <1>1, <1>3, <1>5, <1>6, <1>7, VictimIsChild DEF BackendIsKnown
<1>9. ProcessTypeOK' /\ PhasesFit'
    BY <1>1, <1>2, <1>3, <1>4, <1>6 DEF ProcessTypeOK, PhasesFit, ProcessState, Going
<1>10. RestartsAlone' /\ BackendIsKnown' /\ NoneWhereSpawned'
    BY <1>1, <1>2, <1>4, <1>5, <1>8
       DEF RestartsAlone, Replacing, BackendIsKnown, IsStopping, NoneWhereSpawned, SpawnIsNext, Going, SingleRestart
<1>11. NothingLeft'
  <2>1. left' = {} => left = {} /\ SingleRestart /\ \A q \in Processes : ~IsStopping(q)
      BY <1>4 DEF SingleRestart, IsStopping, Replacing
  <2> QED
      BY <1>5, <1>8, <2>1 DEF NothingLeft
<1> QED
    BY <1>5, <1>9, <1>10, <1>11 DEF ProcessInv

\* The three ways in which an application that is open ends.
LEMMA EndsKeep == ASSUME ProcessInv, Quit \/ RestartForConnection \/ ApplicationCrashes PROVE ProcessInv'
<1>1. ProcessTypeOK /\ PhasesFit /\ NothingLeft /\ app \in AppState
    BY ProcessTypes DEF ProcessInv
<1>2. /\ UNCHANGED <<process, child>> /\ app' = [app EXCEPT !.phase = "off"]
      /\ starting' = "none" /\ recovery' = [r \in Recoveries |-> NoRecovery] /\ closing' = "none"
    BY DEF Quit, RestartForConnection, ApplicationCrashes, Ends
<1>3. trouble' \in 0..MaxTroubles
    BY <1>1, TroubleCounts, ProcessTypes DEF Quit, RestartForConnection, ApplicationCrashes
<1>4. /\ left \subseteq left' /\ left' \subseteq left \cup {"crash", "relaunch"}
      /\ left' = {} => left = {} /\ (closing = "stopping" \/ \A p \in Processes : ~Alive(p))
  <2>1. CASE Quit
      BY <2>1 DEF Quit
  <2>2. CASE RestartForConnection
      BY <2>2, LeftGrows DEF RestartForConnection
  <2>3. CASE ApplicationCrashes
      BY <2>3 DEF ApplicationCrashes
  <2> QED
      BY <2>1, <2>2, <2>3
<1>5. app' \in AppState /\ app'.phase = "off" /\ app'.run = app.run
    BY <1>1, <1>2 DEF AppState
<1>6. /\ \A q \in Processes : (Mine(q)' <=> Mine(q)) /\ (Alive(q)' <=> Alive(q))
      /\ RunsFit' /\ OneBackend'
    BY <1>2, <1>4, <1>5, ProcessesRest
<1>7. recovery' \in [Recoveries -> RecoveryState] /\ \A r \in Recoveries : recovery'[r].pc = "none"
    BY <1>2, NoRecoveryRests
<1>8. ProcessTypeOK' /\ PhasesFit'
    BY <1>1, <1>2, <1>3, <1>4, <1>5, <1>7 DEF ProcessTypeOK, AppState, RecoveryState, PhasesFit, Going
<1>9. RestartsAlone' /\ BackendIsKnown' /\ NoneWhereSpawned'
    BY <1>2, <1>5, <1>7 DEF RestartsAlone, Replacing, BackendIsKnown, NoneWhereSpawned, SpawnIsNext, Going
<1>10. NothingLeft'
    BY <1>1, <1>4, <1>6 DEF NothingLeft
<1> QED
    BY <1>6, <1>8, <1>9, <1>10 DEF ProcessInv

-----------------------------------------------------------------------------
(* The processes: what their specification keeps. *)

LEMMA ProcessStarts == ASSUME ProcessInit PROVE ProcessInv
<1>1. /\ app = [phase |-> "off", run |-> 0] /\ process = [p \in Processes |-> Gone]
      /\ child = NoProcess /\ starting = "none" /\ closing = "none"
      /\ recovery = [r \in Recoveries |-> NoRecovery]
      /\ trouble = 0 /\ left = {}
    BY DEF ProcessInit
<1>2. 0 \in 0..MaxRuns /\ 0 \in 0..MaxTroubles
    BY ProcessAssumption
<1>3. app \in AppState /\ app.phase = "off" /\ app.run = 0
    BY <1>1, <1>2 DEF AppState
<1>4. process \in [Processes -> ProcessState] /\ \A p \in Processes : process[p] = Gone
    BY <1>1, GoneIsNotAlive
<1>5. recovery \in [Recoveries -> RecoveryState] /\ \A r \in Recoveries : recovery[r].pc = "none"
    BY <1>1, NoRecoveryRests
<1>6. ProcessTypeOK
    BY <1>1, <1>2, <1>3, <1>4, <1>5 DEF ProcessTypeOK, AppState, ProcessState, RecoveryState
<1>7. PhasesFit /\ RestartsAlone
    BY <1>1, <1>3, <1>5 DEF PhasesFit, Going, RestartsAlone, Replacing
<1>8. \A p \in Processes : ~Alive(p) /\ ~Mine(p)
    BY <1>4, GoneIsNotAlive DEF Alive, Mine
<1>9. RunsFit /\ OneBackend /\ BackendIsKnown /\ NoneWhereSpawned /\ NothingLeft
    BY <1>8 DEF RunsFit, OneBackend, BackendIsKnown, NoneWhereSpawned, NothingLeft
<1> QED
    BY <1>6, <1>7, <1>9 DEF ProcessInv

LEMMA ProcessKeeps == ASSUME ProcessInv, [ProcessNext]_processVars PROVE ProcessInv'
<1>1. CASE \E r \in Recoveries :
              \/ RequestTimesOut(r) \/ HealthCheckPasses(r) \/ RestartStops(r) \/ OldProcessEnds(r)
              \/ RestartSpawns(r) \/ RecoveryEnds(r) \/ RecoveryGivesUp(r) \/ RecoveryFails(r)
    BY <1>1, RecoveryRestsKeeps, ForgottenKeeps, VictimEndsKeeps, RestartSpawnsKeeps
<1>2. CASE \E p \in Processes : Boots(p) \/ Hangs(p) \/ Dies(p)
    BY <1>2, BackendStepKeeps
<1>3. CASE Launch \/ StartSteps \/ CloseWindow \/ ShutdownStops \/ Quit \/ RestartForConnection \/ ApplicationCrashes
    BY <1>3, LaunchKeeps, WaitingKeeps, SpawnsFirstKeeps, StartupFailsKeeps, ShutdownStopsKeeps, EndsKeep
       DEF StartSteps
<1>4. CASE UNCHANGED processVars
    BY <1>4 DEF processVars, ProcessInv, ProcessTypeOK, PhasesFit, RunsFit, RestartsAlone, OneBackend,
                BackendIsKnown, IsStopping, NoneWhereSpawned, SpawnIsNext, SingleRestart, NothingLeft,
                Mine, Alive, Going, Replacing
<1> QED
    BY <1>1, <1>2, <1>3, <1>4 DEF ProcessNext

\* Whatever dies, hangs or times out, the application knows the backend of its run, or is
\* stopping it, and spawns one only where there is none, unless two restarts were under way at
\* once (backend-process.js).
THEOREM ProcessInductive == ProcessSpec => []ProcessInv
BY ProcessStarts, ProcessKeeps, PTL DEF ProcessSpec

\* The state of the application and of its backend processes has its types.
THEOREM ProcessIsTyped == ProcessSpec => []ProcessTypeOK
<1>1. ProcessInv => ProcessTypeOK
    BY DEF ProcessInv
<1> QED
    BY <1>1, ProcessInductive, PTL

LEMMA BackendsAreKnown == ProcessInv => NoBackendIsLeft
<1> SUFFICES ASSUME ProcessInv PROVE NoBackendIsLeft
    OBVIOUS
<1>1. NothingHoldsThePort
    BY DEF ProcessInv, NothingLeft, NothingHoldsThePort
<1> DEFINE mine == {p \in Processes : Alive(p) /\ process[p].run = app.run}
<1>2. SingleRestart => \A p, q \in mine : p = q
    BY DEF ProcessInv, OneBackend, Mine
<1> HIDE DEF mine
<1>3. SingleRestart => mine = {} \/ \E p \in mine : mine = {p}
    BY <1>2
<1>4. SingleRestart => Cardinality(mine) \in {0, 1}
    BY <1>3, FS_EmptySet, FS_Singleton
<1>5. SingleRestart => Cardinality(mine) <= 1
    BY <1>4
<1> QED
    BY <1>1, <1>5 DEF NoBackendIsLeft, OneBackendPerRun, SingleRestart, mine

\* For any number of processes, runs, recoveries and mishaps: no run has two backends, but by two
\* restarts of the backend at once, and an application whose window was closed leaves none behind.
\* What leaves one is a crash, the restart after a saved connection, or an end during a restart.
THEOREM BackendsEnd == ProcessSpec => []NoBackendIsLeft
BY BackendsAreKnown, ProcessInductive, PTL

-----------------------------------------------------------------------------
(* The migration of an archive: its proofs see these definitions expanded. *)

USE DEF CallAt, Held, Transfers, FreeCall, Ended

-----------------------------------------------------------------------------
(* The migration: the inductive invariant. *)

Export == {"new", "kept", "deleted"}
Session == [status : {"none", "running", "completed"}, linked : SUBSET (1..Total), indexed : BOOLEAN]

Whole(n, S) == S[n].linked = 1..Total

\* State s of a migration does not claim more than the sessions S and the exports X hold.
Truthful(s, S, X) ==
    /\ s \in State
    /\ s.session = Nil => s.cursor = 0
    /\ s.session # Nil => 1..s.cursor \subseteq S[s.session].linked
    /\ s.completed => s.session # Nil /\ Whole(s.session, S) /\ S[s.session].status = "completed"
    /\ s.deleted => s.completed /\ X[s.export] = "deleted"
    /\ s.phase = "completed" => s.deleted

\* Sessions and exports only ever advance.
Advances(S, T) ==
    /\ T \in [Sessions -> Session]
    /\ \A n \in Sessions : /\ S[n].linked \subseteq T[n].linked
                           /\ S[n].status = "completed" => T[n].status = "completed"
                           /\ S[n].indexed => T[n].indexed
Deletes(X, Y) ==
    /\ Y \in [Exports -> Export]
    /\ \A e \in Exports : X[e] = "deleted" => Y[e] = "deleted"

Notes == {"start", "resume", "forget", "index", "late pause", "orphan export"}
Op == {"none", "start", "index", "forget", "transfer"}
CallStep == {"none", "inspect", "snapshot", "states", "index", "wait", "close", "delete",
         "session", "page", "batch", "sync", "complete", "verify", "clean", "paused", "end"}
Call == [op : Op, pc : CallStep, state : State \cup {Nil}, attempt : Nat, page : 0..Total]

\* A transfer is at a step that its state allows.
TransferOK(r) ==
    LET s == r.state IN
    /\ s.phase # "completed"
    /\ r.attempt \in 1..MaxAttempts
    /\ s.cursor <= r.page
    /\ r.pc \in Requests \cup {"paused", "end"}
    /\ r.pc = "session" => s.session = Nil /\ r.page = 0
    /\ r.pc \in {"page", "batch", "sync", "complete", "verify", "clean"} => s.session # Nil
    /\ r.pc = "batch" => s.cursor < r.page
    /\ r.pc \in {"verify", "clean"} => s.completed
    /\ r.pc = "end" => s.deleted

CallOK(r, S, X) ==
    /\ r \in Call
    /\ r.op = "none" => r = NoCall
    /\ r.op = "start" => /\ r.pc \in {"inspect", "snapshot", "states"}
                         /\ r.pc = "states" => r.state # Nil /\ r.state = InitialState(r.state.export)
    /\ r.op = "index" => /\ r.pc = "index" /\ Truthful(r.state, S, X)
                         /\ r.state.phase = "completed" /\ r.state.session # Nil
    /\ r.op = "forget" => /\ r.pc \in {"wait", "close", "delete"}
                          /\ r.pc # "wait" => Truthful(r.state, S, X)
    /\ r.op = "transfer" => Truthful(r.state, S, X) /\ TransferOK(r)

Base ==
    /\ session \in [Sessions -> Session]
    /\ exports \in [Exports -> Export]
    /\ file = Nil \/ Truthful(file, session, exports)
    /\ \A n \in Sessions : session[n].indexed => Whole(n, session)
    /\ pauseRequested \in BOOLEAN
    /\ history \subseteq Notes
    /\ call = [c \in Calls |-> call[c]]
    /\ \A c \in Calls : CallOK(call[c], session, exports)
    /\ runningCall \in Calls \cup {Nil}
    /\ runningCall # Nil => call[runningCall].op = "transfer"

\* The phases of a migration that is over or can be resumed.
Rest == {"idle", "completed"} \cup Resumable
Shown == Phases \cup {"idle", "pausing"}
Signs == Shown \cup {"ask"}
Final == Rest \cup {"ask"}

\* A call of index tells nothing if it fails, and what the panel shows is none of its business.
Busy == \E c \in Calls : call[c].op \notin {"none", "index"}
\* When no other call is under way, what the panel renders last is such a phase.
Panel ==
    /\ wire \in Seq(Signs) /\ panel \in Shown
    /\ ~Busy /\ "late pause" \notin history =>
          IF wire = <<>> THEN panel \in Rest ELSE wire[Len(wire)] \in Final

\* Nothing overlapped that the panel offers together, and no deletion was lost.
OrderlyCalls == history \cap {"start", "forget", "index", "orphan export"} = {}
Creating(c) == call[c].pc \in {"snapshot", "states"}
Forgetting(c) == call[c].op = "forget"

\* A snapshot that is kept is that of the state file, or of the start that has made it.
KeptIsKnown ==
    \A e \in Exports : exports[e] = "kept" =>
        \/ file # Nil /\ file.export = e
        \/ \E c \in Calls : call[c].pc = "states" /\ Held(c).export = e
\* There is one transfer, and it is about the file's snapshot.
TransfersTheFile ==
    \A c \in Calls : Transfers(c) =>
        runningCall = c /\ (file = Nil \/ file.export = Held(c).export)
\* A snapshot is made alone, and only when no migration is unfinished.
CreatesAlone ==
    \A c \in Calls : Creating(c) =>
        /\ file = Nil \/ file.phase = "completed"
        /\ \A d \in Calls : Creating(d) \/ Forgetting(d) \/ Transfers(d) => d = c
ForgetsOnce == \A c, d \in Calls : Forgetting(c) /\ Forgetting(d) => c = d
ForgetsTheFile ==
    \A c \in Calls : Forgetting(c) /\ call[c].pc # "wait" =>
        file # Nil /\ file.export = Held(c).export

Snapshots ==
    OrderlyCalls => KeptIsKnown /\ TransfersTheFile /\ CreatesAlone /\ ForgetsOnce /\ ForgetsTheFile

MigrationInv == Base /\ Panel /\ Snapshots

-----------------------------------------------------------------------------
(* The migration: what steps do to sessions and exports. *)

LEMMA Constants ==
    /\ Total \in Nat /\ PageSize \in Nat /\ MaxAttempts \in Nat \ {0}
    /\ Nil \notin State /\ Nil \notin Sessions /\ Nil \notin Calls
BY MigrationAssumption

LEMMA NothingHappens ==
    ASSUME Base
    PROVE  Advances(session, session) /\ Deletes(exports, exports)
BY DEF Base, Advances, Deletes

\* A session that is whole stays so.
LEMMA WholeStays ==
    ASSUME NEW S, NEW T, Advances(S, T), NEW n \in Sessions, Whole(n, S)
    PROVE  Whole(n, T)
BY DEF Advances, Whole, Session

\* A truthful state stays truthful.
LEMMA TruthStays ==
    ASSUME NEW S, NEW T, Advances(S, T), NEW X, NEW Y, Deletes(X, Y),
           NEW s, Truthful(s, S, X)
    PROVE  Truthful(s, T, Y)
<1>1. s \in State /\ s.export \in Exports /\ s.session \in Sessions \cup {Nil}
    BY DEF Truthful, State
<1>2. s.session # Nil => 1..s.cursor \subseteq T[s.session].linked
    BY <1>1 DEF Truthful, Advances
<1>3. s.completed => s.session # Nil /\ Whole(s.session, T) /\ T[s.session].status = "completed"
    BY <1>1, WholeStays DEF Truthful, Advances
<1>4. s.deleted => s.completed /\ Y[s.export] = "deleted"
    BY <1>1 DEF Truthful, Deletes
<1> QED
    BY <1>1, <1>2, <1>3, <1>4 DEF Truthful

LEMMA CallStays ==
    ASSUME NEW S, NEW T, Advances(S, T), NEW X, NEW Y, Deletes(X, Y),
           NEW r, CallOK(r, S, X)
    PROVE  CallOK(r, T, Y)
BY TruthStays DEF CallOK

\* The step of one call c, which becomes r.
LEMMA OneCall ==
    ASSUME Base, NEW c \in Calls, NEW r,
           call' = [call EXCEPT ![c] = r], CallOK(r, session', exports'),
           Advances(session, session'), Deletes(exports, exports'),
           \A n \in Sessions : session'[n].indexed => Whole(n, session'),
           file' \in {Nil, file} \/ Truthful(file', session', exports'),
           pauseRequested' \in BOOLEAN,
           history' \subseteq Notes,
           \/ runningCall' = Nil
           \/ runningCall' = c /\ r.op = "transfer"
           \/ runningCall' = runningCall /\ (runningCall = c => r.op = "transfer")
    PROVE  Base'
<1>1. file' = Nil \/ Truthful(file', session', exports')
    BY TruthStays DEF Base
<1>2. /\ call' = [d \in Calls |-> call'[d]]
      /\ \A d \in Calls : call'[d] = IF d = c THEN r ELSE call[d]
    BY DEF Base
<1>3. ASSUME NEW d \in Calls PROVE CallOK(call'[d], session', exports')
    BY <1>2, CallStays DEF Base
<1>4. runningCall' \in Calls \cup {Nil} /\ (runningCall' # Nil => call'[runningCall'].op = "transfer")
    BY <1>2 DEF Base
<1>5. session' \in [Sessions -> Session] /\ exports' \in [Exports -> Export]
    BY DEF Advances, Deletes
<1> QED
    BY <1>1, <1>2, <1>3, <1>4, <1>5 DEF Base

\* The step of call c in which sessions and exports rest.
LEMMA OneCallAlone ==
    ASSUME Base, NEW c \in Calls, NEW r,
           call' = [call EXCEPT ![c] = r], CallOK(r, session, exports),
           UNCHANGED <<session, exports>>,
           file' \in {Nil, file} \/ Truthful(file', session, exports),
           pauseRequested' \in BOOLEAN,
           history' \subseteq Notes,
           \/ runningCall' = Nil
           \/ runningCall' = c /\ r.op = "transfer"
           \/ runningCall' = runningCall /\ (runningCall = c => r.op = "transfer")
    PROVE  Base'
<1>1. \A n \in Sessions : session'[n].indexed => Whole(n, session')
    BY DEF Base
<1> QED
    BY <1>1, OneCall, NothingHappens

\* A transfer's request that the other side accepts and executes.
LEMMA RequestExecuted ==
    ASSUME Base, NEW c \in Calls, Transfers(c), Accepted(c),
           NEW end \in BatchEnds(c) \cup {0}, NEW n \in Sessions,
           CallAt(c, "batch") <=> end # 0,
           CallAt(c, "session") => session[n].status = "none",
           Requested(c, end, n)
    PROVE  /\ Advances(session, session') /\ Deletes(exports, exports')
           /\ \A m \in Sessions : session'[m].indexed => Whole(m, session')
           /\ CallAt(c, "batch") =>
                 /\ end \in 1..call[c].page
                 /\ (Held(c).cursor + 1)..end \subseteq session'[Held(c).session].linked
           /\ CallAt(c, "complete") => session'[Held(c).session].status = "completed"
           /\ CallAt(c, "clean") => exports'[Held(c).export] = "deleted"
           /\ ~CallAt(c, "batch") => \A m \in Sessions : session'[m].linked = session[m].linked
<1> DEFINE s == Held(c)
<1>1. /\ s \in State /\ s.session \in Sessions \cup {Nil} /\ s.cursor \in 0..Total /\ s.export \in Exports
      /\ call[c].page \in 0..Total /\ TransferOK(call[c])
    BY DEF Base, CallOK, Truthful, State, Call
<1>2. session \in [Sessions -> Session] /\ exports \in [Exports -> Export]
    BY DEF Base
<1>3. \A m \in Sessions : session[m].indexed => session[m].linked = 1..Total
    BY DEF Base, Whole
<1>4. Total \in Nat
    BY MigrationAssumption
<1>5. CASE CallAt(c, "session")
  <2>1. session' = [session EXCEPT ![n].status = "running"] /\ exports' = exports
      BY <1>5 DEF Requested
  <2> QED
      BY <2>1, <1>2, <1>3, <1>5 DEF Advances, Deletes, Session, Whole
<1>6. CASE CallAt(c, "batch")
  <2>1. /\ session' = [session EXCEPT ![s.session].linked = @ \cup (s.cursor + 1)..end]
        /\ exports' = exports
      BY <1>6 DEF Requested
  <2>2. end \in 1..call[c].page /\ s.session \in Sessions
      BY <1>1, <1>6, <1>4 DEF BatchEnds, TransferOK
  <2>3. (s.cursor + 1)..end \subseteq 1..Total
      BY <2>2, <1>1, <1>4
  <2>4. /\ \A m \in Sessions \ {s.session} : session'[m] = session[m]
        /\ session'[s.session] = [session[s.session] EXCEPT !.linked = @ \cup (s.cursor + 1)..end]
      BY <2>1, <2>2, <1>2
  <2>5. session' \in [Sessions -> Session]
      BY <2>1, <2>2, <2>3, <1>2 DEF Session
  <2>6. /\ session'[s.session].linked = session[s.session].linked \cup (s.cursor + 1)..end
        /\ session'[s.session].status = session[s.session].status
        /\ session'[s.session].indexed = session[s.session].indexed
      BY <2>4, <2>2, <1>2 DEF Session
  <2>7. \A m \in Sessions : session'[m].indexed => Whole(m, session')
      BY <2>4, <2>6, <2>5, <1>3, <2>3, ZenonT(60) DEF Whole
  <2>8. Advances(session, session')
      BY <2>4, <2>5, <2>6 DEF Advances
  <2> QED
      BY <2>1, <2>2, <2>6, <2>7, <2>8, <1>2, <1>6 DEF Deletes
<1>7. CASE CallAt(c, "complete")
  <2>1. session' = [session EXCEPT ![s.session].status = "completed"] /\ exports' = exports
      BY <1>7 DEF Requested
  <2>2. s.session \in Sessions
      BY <1>1, <1>7 DEF TransferOK
  <2> QED
      BY <2>1, <2>2, <1>2, <1>3, <1>7 DEF Advances, Deletes, Session, Whole
<1>8. CASE CallAt(c, "clean")
  <2>1. exports' = [exports EXCEPT ![s.export] = "deleted"] /\ session' = session
      BY <1>8 DEF Requested
  <2> QED
      BY <2>1, <1>1, <1>2, <1>3, <1>8 DEF Advances, Deletes, Export, Whole
<1>9. CASE call[c].pc \notin {"session", "batch", "complete", "clean"}
  <2>1. session' = session /\ exports' = exports
      BY <1>9 DEF Requested
  <2> QED
      BY <2>1, <1>2, <1>3, <1>9 DEF Advances, Deletes, Whole
<1> QED
    BY <1>5, <1>6, <1>7, <1>8, <1>9

-----------------------------------------------------------------------------
(* The migration: the calls of a window. *)

LEMMA CallBecomes ==
    ASSUME Base, NEW c \in Calls, NEW r, call' = [call EXCEPT ![c] = r]
    PROVE  call'[c] = r /\ \A d \in Calls \ {c} : call'[d] = call[d]
BY DEF Base

\* What a call is, by its step.
LEMMA CallFacts ==
    ASSUME Base, NEW c \in Calls
    PROVE  /\ call[c] \in Call /\ CallOK(call[c], session, exports)
           /\ Transfers(c) => Truthful(Held(c), session, exports) /\ TransferOK(call[c])
           /\ call[c].pc \in {"inspect", "snapshot", "states"} => call[c].op = "start"
           /\ call[c].pc \in {"wait", "close", "delete"} => call[c].op = "forget"
           /\ call[c].pc = "index" => call[c].op = "index"
           /\ runningCall = c => Transfers(c)
<1>1. CallOK(call[c], session, exports) /\ call[c] \in Call /\ call[c].op \in Op
    BY DEF Base, CallOK, Call
<1>2. call[c].op = "none" => call[c].pc = "none"
    BY <1>1 DEF CallOK, NoCall
<1>3. Transfers(c) => Truthful(Held(c), session, exports) /\ TransferOK(call[c])
    BY <1>1 DEF CallOK
<1>4. Transfers(c) => call[c].pc \in Requests \cup {"paused", "end"}
    BY <1>3 DEF TransferOK
<1>5. runningCall = c => Transfers(c)
    BY Constants DEF Base
<1>6. call[c].op = "start" => call[c].pc \in {"inspect", "snapshot", "states"}
    BY <1>1 DEF CallOK
<1>7. call[c].op = "forget" => call[c].pc \in {"wait", "close", "delete"}
    BY <1>1 DEF CallOK
<1>8. call[c].op = "index" => call[c].pc = "index"
    BY <1>1 DEF CallOK
<1> QED
    BY <1>1, <1>2, <1>3, <1>4, <1>5, <1>6, <1>7, <1>8 DEF Op, Requests

LEMMA FreeCallOK == ASSUME NEW S, NEW X PROVE CallOK(NoCall, S, X)
BY Constants DEF CallOK, NoCall, Call, Op, CallStep

LEMMA InspectBase == ASSUME Base, NEW c \in Calls, Inspect(c) PROVE Base'
<1> DEFINE r == [NoCall EXCEPT !.op = "start", !.pc = "inspect"]
<1>1. CallOK(r, session, exports)
  <2>1. NoCall \in Call
      BY FreeCallOK DEF CallOK
  <2>2. r \in Call /\ r.op = "start" /\ r.pc = "inspect"
      BY <2>1 DEF Call, Op, CallStep
  <2> HIDE DEF r
  <2> QED
      BY <2>2 DEF CallOK
<1>2. runningCall # c
    BY CallFacts DEF Inspect, NoCall
<1> QED
    BY <1>1, <1>2, OneCallAlone DEF Inspect, Base

LEMMA StartBase == ASSUME Base, NEW c \in Calls, Start(c) PROVE Base'
<1>1. call[c] \in Call /\ call[c].op = "start" /\ runningCall # c
    BY CallFacts DEF Start
<1>2. PICK r : call' = [call EXCEPT ![c] = r] /\ CallOK(r, session, exports)
  <2>1. CallOK(NoCall, session, exports)
      BY FreeCallOK
  <2>2. CallOK([call[c] EXCEPT !.pc = "snapshot"], session, exports)
      BY <1>1 DEF CallOK, Call, CallStep
  <2>3. \/ call' = [call EXCEPT ![c] = NoCall]
        \/ call' = [call EXCEPT ![c] = [call[c] EXCEPT !.pc = "snapshot"]]
      BY DEF Start
  <2> QED
      BY <2>1, <2>2, <2>3
<1>3. history' \subseteq Notes
    BY DEF Start, Note, Base, Notes
<1>4. UNCHANGED <<session, exports, file, runningCall, pauseRequested>>
    BY DEF Start
<1> QED
    BY <1>1, <1>2, <1>3, <1>4, OneCallAlone DEF Base

LEMMA CreateBase == ASSUME Base, NEW c \in Calls, CreateSourceSnapshot(c) PROVE Base'
<1>1. call[c] \in Call /\ call[c].op = "start" /\ runningCall # c
    BY CallFacts DEF CreateSourceSnapshot
<1>2. PICK e \in Exports :
        /\ exports[e] = "new" /\ exports' = [exports EXCEPT ![e] = "kept"]
        /\ call' = [call EXCEPT ![c].pc = "states", ![c].state = InitialState(e)]
    BY DEF CreateSourceSnapshot
<1> DEFINE r == [call[c] EXCEPT !.pc = "states", !.state = InitialState(e)]
<1>3. InitialState(e) \in State /\ InitialState(e).export = e
    BY Constants DEF InitialState, State, Phases, Active
<1>4. CallOK(r, session, exports')
  <2>1. r \in Call /\ r.op = "start" /\ r.pc = "states" /\ r.state = InitialState(e)
      BY <1>1, <1>3 DEF Call, CallStep
  <2> QED
      BY <2>1, <1>3, Constants DEF CallOK
<1>5. call' = [call EXCEPT ![c] = r]
    BY <1>2 DEF Base
<1>6. Advances(session, session') /\ Deletes(exports, exports')
    BY <1>2 DEF Base, Advances, Deletes, Export, CreateSourceSnapshot
<1>7. UNCHANGED <<session, file, runningCall, pauseRequested, history>>
    BY DEF CreateSourceSnapshot
<1>8. \A n \in Sessions : session'[n].indexed => Whole(n, session')
    BY <1>7 DEF Base
<1>9. CallOK(r, session', exports')
    BY <1>4, <1>7
<1> HIDE DEF r
<1> QED
    BY <1>1, <1>5, <1>6, <1>7, <1>8, <1>9, OneCall DEF Base

\* The transfer of a state that is truthful and not completed.
LEMMA RunBase ==
    ASSUME Base, NEW c \in Calls, NEW s, Run(c, s), Truthful(s, session, exports), s.phase # "completed",
           UNCHANGED <<session, exports>>,
           history' \subseteq Notes
    PROVE  Base'
<1> DEFINE pc == IF s.deleted THEN "end" ELSE IF s.session = Nil THEN "session" ELSE "page"
           r == [op |-> "transfer", state |-> s, attempt |-> 1, page |-> s.cursor, pc |-> pc]
<1>1. s \in State /\ s.cursor \in 0..Total
    BY DEF Truthful, State
<1>2. r \in Call
    BY <1>1 DEF Call, Op, CallStep
<1>3. TransferOK(r)
  <2>1. /\ r.state = s /\ r.attempt = 1 /\ r.page = s.cursor /\ r.pc = pc
      OBVIOUS
  <2>2. /\ s.session = Nil => s.cursor = 0
        /\ s.deleted => s.session # Nil
      BY DEF Truthful
  <2>3. pc \in {"end", "session", "page"} /\ (pc = "end" => s.deleted)
        /\ (pc = "session" => s.session = Nil) /\ (pc = "page" => s.session # Nil)
      OBVIOUS
  <2> HIDE DEF r, pc
  <2>4. r.attempt \in 1..MaxAttempts /\ r.state.cursor <= r.page
      BY <2>1, <1>1, Constants
  <2>5. r.pc = "session" => r.page = 0
      BY <2>1, <2>2, <2>3
  <2> QED
      BY <2>1, <2>2, <2>3, <2>4, <2>5 DEF TransferOK, Requests
<1>4. CallOK(r, session, exports)
    BY <1>2, <1>3 DEF CallOK
<1>5. /\ call' = [call EXCEPT ![c] = r]
      /\ runningCall' = c /\ pauseRequested' = FALSE /\ file' = s
    BY DEF Run
<1>6. r.op = "transfer"
    OBVIOUS
<1> HIDE DEF r
<1> QED
    BY <1>4, <1>5, <1>6, OneCallAlone

LEMMA StartTransferBase == ASSUME Base, NEW c \in Calls, StartTransfer(c) PROVE Base'
<1>1. /\ Held(c) \in State /\ Held(c) = InitialState(Held(c).export)
    BY CallFacts, Constants DEF StartTransfer, CallOK, Call
<1>2. Truthful(Held(c), session, exports) /\ Held(c).phase # "completed"
    BY <1>1 DEF Truthful, InitialState
<1>3. history' \subseteq Notes
    BY DEF StartTransfer, Note, Base, Notes
<1> QED
    BY <1>2, <1>3, RunBase DEF StartTransfer

\* Call c ends.
LEMMA CallEnds ==
    ASSUME Base, NEW c \in Calls, call' = Ended(c), Advances(session, session'), Deletes(exports, exports'),
           \A n \in Sessions : session'[n].indexed => Whole(n, session'),
           file' \in {Nil, file} \/ Truthful(file', session', exports'),
           pauseRequested' = pauseRequested,
           history' \subseteq Notes,
           \/ runningCall' = Nil
           \/ runningCall' = runningCall /\ call[c].op # "transfer"
    PROVE  Base'
<1>1. CallOK(NoCall, session', exports')
    BY FreeCallOK
<1>2. runningCall' = Nil \/ (runningCall' = runningCall /\ runningCall # c)
    BY CallFacts
<1> QED
    BY <1>1, <1>2, OneCall DEF Base

LEMMA StartFailsBase == ASSUME Base, NEW c \in Calls, StartFails(c) PROVE Base'
<1>1. history' \subseteq Notes
    BY DEF StartFails, Note, Base, Notes
<1> QED
    BY <1>1, CallEnds, NothingHappens DEF StartFails, Base

LEMMA ResumeBase == ASSUME Base, NEW c \in Calls, Resume(c) PROVE Base'
<1>1. history' \subseteq Notes
    BY DEF Resume, Note, Base, Notes
<1>2. CASE file = Nil \/ ~Unfinished
    BY <1>1, <1>2 DEF Resume, Base
<1>3. CASE ~(file = Nil \/ ~Unfinished)
  <2> DEFINE s == [file EXCEPT !.phase = "uploading"]
  <2>1. Run(c, s) /\ Truthful(file, session, exports)
      BY <1>3 DEF Resume, Base
  <2>2. Truthful(s, session, exports) /\ s.phase # "completed"
      BY <2>1 DEF Truthful, State, Phases, Active
  <2> HIDE DEF s
  <2> QED
      BY <2>1, <2>2, <1>1, RunBase DEF Resume
<1> QED
    BY <1>2, <1>3

\* index: its state was completed when it was loaded, and its session is whole.
LEMMA IndexBase == ASSUME Base, NEW c \in Calls, Index(c) PROVE Base'
<1> DEFINE r == [NoCall EXCEPT !.op = "index", !.pc = "index", !.state = file]
<1>1. file # Nil /\ Truthful(file, session, exports) /\ file.phase = "completed" /\ file.session # Nil
    BY DEF Index, Base
<1>2. file \in State
    BY <1>1 DEF Truthful
<1>3. NoCall \in Call
    BY FreeCallOK DEF CallOK
<1>4. r \in Call /\ r.op = "index" /\ r.pc = "index" /\ r.state = file
    BY <1>2, <1>3 DEF Call, Op, CallStep
<1>5. call' = [call EXCEPT ![c] = r] /\ UNCHANGED <<session, exports, file, runningCall, pauseRequested, history>>
    BY DEF Index
<1>6. runningCall # c
    BY CallFacts DEF Index, NoCall
<1> HIDE DEF r
<1>7. CallOK(r, session, exports)
    BY <1>1, <1>4 DEF CallOK
<1> QED
    BY <1>5, <1>6, <1>7, OneCallAlone DEF Base

LEMMA IndexCallFacts ==
    ASSUME Base, NEW c \in Calls, CallAt(c, "index")
    PROVE  /\ call[c].op = "index" /\ Truthful(Held(c), session, exports)
           /\ Held(c) \in State /\ Held(c).phase = "completed"
           /\ Held(c).session \in Sessions /\ Whole(Held(c).session, session)
<1>1. call[c].op = "index" /\ CallOK(call[c], session, exports)
    BY CallFacts
<1>2. Truthful(Held(c), session, exports) /\ Held(c).phase = "completed" /\ Held(c).session # Nil
    BY <1>1 DEF CallOK
<1> QED
    BY <1>1, <1>2 DEF Truthful, State

LEMMA QueuedAdvances ==
    ASSUME Base, NEW c \in Calls, CallAt(c, "index"), Queued(c) \/ UNCHANGED session
    PROVE  Advances(session, session') /\ \A n \in Sessions : session'[n].indexed => Whole(n, session')
<1>1. session \in [Sessions -> Session] /\ \A n \in Sessions : session[n].indexed => Whole(n, session)
    BY DEF Base
<1>2. CASE UNCHANGED session
    BY <1>1, <1>2, NothingHappens DEF Whole
<1>3. CASE Queued(c)
  <2>1. Held(c).session \in Sessions /\ Whole(Held(c).session, session)
      BY IndexCallFacts
  <2>2. /\ session' \in [Sessions -> Session]
        /\ \A n \in Sessions : /\ session'[n].linked = session[n].linked
                               /\ session'[n].status = session[n].status
                               /\ session'[n].indexed <=> (session[n].indexed \/ n = Held(c).session)
      BY <1>1, <1>3, <2>1 DEF Session, Queued
  <2> QED
      BY <1>1, <2>1, <2>2 DEF Advances, Whole
<1> QED
    BY <1>2, <1>3

\* What index writes back is its state: still truthful, whatever the file holds by then.
LEMMA QueuedState ==
    ASSUME NEW s \in State
    PROVE  LET t == [s EXCEPT !.queued = TRUE] IN
           /\ t \in State /\ t.session = s.session /\ t.cursor = s.cursor /\ t.completed = s.completed
           /\ t.deleted = s.deleted /\ t.phase = s.phase /\ t.export = s.export
BY DEF State

LEMMA IndexQueuedBase == ASSUME Base, NEW c \in Calls, IndexQueued(c) PROVE Base'
<1> DEFINE t == [Held(c) EXCEPT !.queued = TRUE]
<1>1. /\ call[c].op = "index" /\ Truthful(Held(c), session, exports) /\ Held(c) \in State
    BY IndexCallFacts DEF IndexQueued
<1>2. Truthful(t, session, exports)
  <2>1. /\ t \in State /\ t.session = Held(c).session /\ t.cursor = Held(c).cursor
        /\ t.completed = Held(c).completed /\ t.deleted = Held(c).deleted /\ t.phase = Held(c).phase
        /\ t.export = Held(c).export
      BY <1>1, QueuedState
  <2> HIDE DEF t
  <2> QED
      BY <1>1, <2>1 DEF Truthful
<1>3. Advances(session, session') /\ \A n \in Sessions : session'[n].indexed => Whole(n, session')
    BY QueuedAdvances DEF IndexQueued
<1>4. /\ call' = Ended(c) /\ file' = t
      /\ UNCHANGED <<exports, runningCall, pauseRequested>>
    BY DEF IndexQueued
<1>5. history' \subseteq Notes
    BY DEF IndexQueued, Note, Base, Notes
<1>6. Deletes(exports, exports')
    BY <1>4, NothingHappens
<1> HIDE DEF t
<1>7. Truthful(file', session', exports')
    BY <1>2, <1>3, <1>4, <1>6, TruthStays
<1> QED
    BY <1>1, <1>3, <1>4, <1>5, <1>6, <1>7, CallEnds

LEMMA IndexFailsBase == ASSUME Base, NEW c \in Calls, IndexFails(c) PROVE Base'
<1>1. call[c].op = "index"
    BY IndexCallFacts DEF IndexFails
<1>2. Advances(session, session') /\ \A n \in Sessions : session'[n].indexed => Whole(n, session')
    BY QueuedAdvances DEF IndexFails
<1>3. call' = Ended(c) /\ UNCHANGED <<exports, file, runningCall, pauseRequested, history>>
    BY DEF IndexFails
<1>4. Deletes(exports, exports') /\ history' \subseteq Notes
    BY <1>3, NothingHappens DEF Base
<1> QED
    BY <1>1, <1>2, <1>3, <1>4, CallEnds

LEMMA ForgetBase == ASSUME Base, NEW c \in Calls, Forget(c) PROVE Base'
<1> DEFINE r == [NoCall EXCEPT !.op = "forget", !.pc = "wait"]
<1>1. CallOK(r, session, exports)
  <2>1. NoCall \in Call
      BY FreeCallOK DEF CallOK
  <2>2. r \in Call /\ r.op = "forget" /\ r.pc = "wait"
      BY <2>1 DEF Call, Op, CallStep
  <2> HIDE DEF r
  <2> QED
      BY <2>2 DEF CallOK
<1>4. runningCall # c
    BY CallFacts DEF Forget, NoCall
<1>2. history' \subseteq Notes
    BY DEF Forget, Note, Base, Notes
<1>3. /\ call' = [call EXCEPT ![c] = r] /\ pauseRequested' = TRUE
      /\ UNCHANGED <<session, exports, file, runningCall>>
    BY DEF Forget
<1> HIDE DEF r
<1> QED
    BY <1>1, <1>2, <1>3, <1>4, OneCallAlone

LEMMA ForgetLoadsBase == ASSUME Base, NEW c \in Calls, ForgetLoads(c) PROVE Base'
<1>1. call[c] \in Call /\ call[c].op = "forget" /\ runningCall # c
    BY CallFacts DEF ForgetLoads
<1>2. CASE file = Nil
    BY <1>1, <1>2, CallEnds, NothingHappens DEF ForgetLoads, Base
<1>3. CASE file # Nil
  <2> DEFINE r == [call[c] EXCEPT !.pc = "close", !.state = file]
  <2>1. Truthful(file, session, exports)
      BY <1>3 DEF Base
  <2>2. r \in Call /\ r.op = "forget" /\ r.pc = "close" /\ r.state = file
      BY <2>1, <1>1 DEF Truthful, Call, CallStep
  <2>3. CallOK(r, session, exports)
      BY <2>1, <2>2 DEF CallOK
  <2>4. call' = [call EXCEPT ![c] = r]
      BY <1>3 DEF ForgetLoads, Base
  <2> HIDE DEF r
  <2> QED
      BY <1>1, <2>3, <2>4, OneCallAlone DEF ForgetLoads, Base
<1> QED
    BY <1>2, <1>3

LEMMA CloseBase == ASSUME Base, NEW c \in Calls, CloseRemoteSession(c) PROVE Base'
<1> DEFINE s == Held(c)
           r == [call[c] EXCEPT !.pc = "delete"]
<1>1. call[c] \in Call /\ call[c].op = "forget" /\ runningCall # c /\ Truthful(s, session, exports)
    BY CallFacts DEF CloseRemoteSession, CallOK
<1>2. /\ Advances(session, session') /\ Deletes(exports, exports')
      /\ \A n \in Sessions : session'[n].indexed => Whole(n, session')
  <2>1. CASE session' = session
      BY <2>1, NothingHappens DEF CloseRemoteSession, Base
  <2>2. CASE s.session # Nil /\ session' = [session EXCEPT ![s.session].status = "completed"]
    <3>1. s.session \in Sessions
        BY <2>2, <1>1 DEF Truthful, State
    <3>2. session \in [Sessions -> Session] /\ exports' = exports
        BY DEF Base, CloseRemoteSession
    <3>3. /\ session' \in [Sessions -> Session]
          /\ \A n \in Sessions : /\ session'[n].linked = session[n].linked
                                /\ session'[n].indexed = session[n].indexed
                                /\ session'[n].status \in {session[n].status, "completed"}
        BY <2>2, <3>1, <3>2 DEF Session
    <3> QED
        BY <3>2, <3>3 DEF Base, Advances, Deletes, Whole
  <2> QED
      BY <2>1, <2>2 DEF CloseRemoteSession
<1>3. r \in Call /\ r.op = "forget" /\ r.pc = "delete" /\ r.state = s
    BY <1>1 DEF Call, CallStep
<1>4. CallOK(r, session', exports')
    BY <1>1, <1>2, <1>3, TruthStays DEF CallOK
<1>5. call' = [call EXCEPT ![c] = r] /\ UNCHANGED <<file, runningCall, pauseRequested, history>>
    BY DEF CloseRemoteSession
<1> HIDE DEF r
<1> QED
    BY <1>1, <1>2, <1>4, <1>5, OneCall DEF Base

LEMMA DeleteBase == ASSUME Base, NEW c \in Calls, DeleteSourceSnapshot(c) PROVE Base'
<1>1. call[c] \in Call /\ call[c].op = "forget" /\ Truthful(Held(c), session, exports)
    BY CallFacts DEF DeleteSourceSnapshot, CallOK
<1>2. Held(c).export \in Exports
    BY <1>1 DEF Truthful, State
<1>3. Advances(session, session') /\ Deletes(exports, exports')
    BY <1>2 DEF DeleteSourceSnapshot, Base, Advances, Deletes, Export
<1>4. history' \subseteq Notes
    BY DEF DeleteSourceSnapshot, Note, Base, Notes
<1>5. /\ call' = Ended(c) /\ file' = Nil
      /\ UNCHANGED <<session, runningCall, pauseRequested>>
    BY DEF DeleteSourceSnapshot
<1>6. \A n \in Sessions : session'[n].indexed => Whole(n, session')
    BY <1>5 DEF Base
<1> QED
    BY <1>1, <1>3, <1>4, <1>5, <1>6, CallEnds

-----------------------------------------------------------------------------
(* The migration: the transfer. *)

LEMMA PhaseChanges ==
    ASSUME NEW S, NEW X, NEW s, Truthful(s, S, X), NEW p \in Phases, p = "completed" => s.deleted
    PROVE  /\ Truthful([s EXCEPT !.phase = p], S, X)
           /\ [s EXCEPT !.phase = p].phase = p
           /\ [s EXCEPT !.phase = p].session = s.session
           /\ [s EXCEPT !.phase = p].cursor = s.cursor
           /\ [s EXCEPT !.phase = p].completed = s.completed
           /\ [s EXCEPT !.phase = p].deleted = s.deleted
           /\ [s EXCEPT !.phase = p].export = s.export
<1>1. s \in State
    BY DEF Truthful
<1> DEFINE t == [s EXCEPT !.phase = p]
<1>2. /\ t \in State /\ t.phase = p
      /\ t.session = s.session /\ t.cursor = s.cursor /\ t.completed = s.completed
      /\ t.deleted = s.deleted /\ t.export = s.export
    BY <1>1 DEF State
<1> HIDE DEF t
<1>3. Truthful(t, S, X)
    BY <1>2 DEF Truthful
<1> QED
    BY <1>2, <1>3 DEF t

\* A transfer persists state s and goes on at pc.
LEMMA PersistBase ==
    ASSUME Base, NEW c \in Calls, Transfers(c), NEW s, NEW pc, Persist(c, s, pc),
           Advances(session, session'), Deletes(exports, exports'),
           \A n \in Sessions : session'[n].indexed => Whole(n, session'),
           UNCHANGED <<runningCall, pauseRequested, history>>,
           Truthful(s, session', exports'), s.phase # "completed", s.cursor <= call[c].page,
           pc \in (Requests \ {"session"}) \cup {"paused", "end"},
           pc \in Requests => s.session # Nil,
           pc = "batch" => s.cursor < call[c].page,
           pc \in {"verify", "clean"} => s.completed,
           pc = "end" => s.deleted
    PROVE  Base'
<1> DEFINE r == [call[c] EXCEPT !.state = s, !.pc = pc, !.attempt = 1]
<1>1. call[c] \in Call /\ s \in State
    BY CallFacts DEF Truthful
<1>2. /\ r \in Call /\ r.op = "transfer" /\ r.state = s /\ r.pc = pc /\ r.attempt = 1
      /\ r.page = call[c].page
    BY <1>1 DEF Call, CallStep, Requests
<1>3. call' = [call EXCEPT ![c] = r] /\ file' = s
    BY DEF Persist, Base
<1> HIDE DEF r
<1>4. TransferOK(r)
    BY <1>2, Constants DEF TransferOK, Requests
<1>5. CallOK(r, session', exports')
    BY <1>2, <1>4 DEF CallOK
<1> QED
    BY <1>2, <1>3, <1>5, OneCall DEF Base

LEMMA UploadingBase ==
    ASSUME Base, NEW c \in Calls, Transfers(c), NEW s, Uploading(c, s, call[c].page),
           Advances(session, session'), Deletes(exports, exports'),
           \A n \in Sessions : session'[n].indexed => Whole(n, session'),
           UNCHANGED <<runningCall, pauseRequested, history>>,
           Truthful(s, session', exports'), s.phase # "completed", s.cursor <= call[c].page,
           s.session # Nil
    PROVE  Base'
<1> DEFINE pc == NextRequest(s, call[c].page)
           t == [s EXCEPT !.phase = PhaseAt(pc)]
<1>1. pc \in {"paused", "batch", "sync", "page"} /\ (pc = "batch" => s.cursor < call[c].page)
    BY DEF NextRequest
<1>2. PhaseAt(pc) \in Phases \ {"completed"}
    BY DEF PhaseAt, Phases, Active
<1>3. Persist(c, t, pc)
    BY DEF Uploading
<1> HIDE DEF pc
<1>4. Truthful(t, session', exports') /\ t.phase # "completed" /\ t.cursor = s.cursor /\ t.session = s.session
    BY <1>2, PhaseChanges
<1> HIDE DEF t
<1> QED
    BY <1>1, <1>3, <1>4, PersistBase DEF Requests

LEMMA SucceedsBase == ASSUME Base, NEW c \in Calls, Succeeds(c) PROVE Base'
<1> DEFINE s == Held(c)
<1>1. PICK end \in BatchEnds(c) \cup {0}, n \in Sessions :
        /\ CallAt(c, "batch") <=> end # 0
        /\ CallAt(c, "session") => session[n].status = "none"
        /\ Requested(c, end, n) /\ Answered(c, end, n)
    BY DEF Succeeds
<1>2. /\ Transfers(c) /\ Accepted(c) /\ Verifies(c)
      /\ UNCHANGED <<runningCall, pauseRequested, history>>
    BY DEF Succeeds
<1>3. /\ Advances(session, session') /\ Deletes(exports, exports')
      /\ \A m \in Sessions : session'[m].indexed => Whole(m, session')
      /\ CallAt(c, "batch") =>
            /\ end \in 1..call[c].page
            /\ (s.cursor + 1)..end \subseteq session'[s.session].linked
      /\ CallAt(c, "complete") => session'[s.session].status = "completed"
      /\ CallAt(c, "clean") => exports'[s.export] = "deleted"
      /\ ~CallAt(c, "batch") => \A m \in Sessions : session'[m].linked = session[m].linked
    BY <1>1, <1>2, RequestExecuted
<1>4. /\ Truthful(s, session', exports') /\ TransferOK(call[c]) /\ call[c] \in Call
      /\ s.phase # "completed" /\ s.cursor <= call[c].page /\ call[c].page \in 0..Total
    BY <1>2, <1>3, CallFacts, TruthStays DEF TransferOK, Call
<1>5. s \in State /\ s.session \in Sessions \cup {Nil} /\ s.cursor \in 0..Total
    BY <1>4 DEF Truthful, State
<1>6. CASE CallAt(c, "session")
  <2> DEFINE t == [s EXCEPT !.session = n]
  <2>1. s.session = Nil /\ s.cursor = 0 /\ call[c].page = 0 /\ ~s.completed /\ ~s.deleted
      BY <1>4, <1>6 DEF TransferOK, Truthful
  <2>2. /\ t \in State /\ t.session = n /\ t.cursor = 0 /\ t.completed = s.completed
        /\ t.deleted = s.deleted /\ t.phase = s.phase
      BY <1>5, <2>1 DEF State
  <2>3. Uploading(c, t, call[c].page)
      BY <1>1, <1>6, <2>1 DEF Answered
  <2> HIDE DEF t
  <2>4. Truthful(t, session', exports')
      BY <2>1, <2>2, <1>4 DEF Truthful
  <2>5. n # Nil
      BY Constants
  <2> QED
      BY <2>1, <2>2, <2>3, <2>4, <2>5, <1>2, <1>3, <1>4, UploadingBase
<1>7. CASE CallAt(c, "page")
  <2> DEFINE last == IF PageDone(s) THEN Total ELSE s.cursor + PageSize
             pc == NextRequest(s, last)
             t == [s EXCEPT !.phase = PhaseAt(pc)]
             r == [call[c] EXCEPT !.page = last, !.attempt = 1, !.pc = pc, !.state = t]
  <2>1. /\ call' = [call EXCEPT ![c] = r]
        /\ file' \in {file, t}
      BY <1>1, <1>7 DEF Answered, Base
  <2>2. last \in 0..Total /\ s.cursor <= last
      BY <1>5, Constants DEF PageDone
  <2>3. pc \in {"paused", "batch", "sync", "page"} /\ (pc = "batch" => s.cursor < last)
      BY DEF NextRequest
  <2>4. PhaseAt(pc) \in Phases \ {"completed"}
      BY DEF PhaseAt, Phases, Active
  <2> HIDE DEF pc, last
  <2>5. /\ Truthful(t, session', exports') /\ t.phase # "completed"
        /\ t.cursor = s.cursor /\ t.session = s.session
      BY <2>4, <1>4, PhaseChanges
  <2>6. t \in State /\ s.session # Nil
      BY <2>5, <1>4, <1>7 DEF Truthful, TransferOK
  <2> HIDE DEF t
  <2>7. /\ r \in Call /\ r.op = "transfer" /\ r.state = t /\ r.pc = pc /\ r.attempt = 1 /\ r.page = last
      BY <1>2, <1>4, <2>2, <2>3, <2>6 DEF Call, CallStep
  <2> HIDE DEF r
  <2>8. TransferOK(r)
      BY <2>2, <2>3, <2>5, <2>6, <2>7, Constants DEF TransferOK, Requests
  <2>9. CallOK(r, session', exports')
      BY <2>5, <2>7, <2>8 DEF CallOK
  <2> QED
      BY <2>1, <2>5, <2>7, <2>9, <1>2, <1>3, OneCall DEF Base
<1>8. CASE CallAt(c, "batch")
  <2> DEFINE t == CheckpointBatch(s, end)
  <2>1. s.session # Nil /\ s.cursor < call[c].page
      BY <1>4, <1>8 DEF TransferOK
  <2>2. end \in 1..call[c].page /\ end \in 0..Total
      BY <1>3, <1>4, <1>8, Constants
  <2>3. /\ t \in State /\ t.session = s.session /\ t.cursor = end /\ t.completed = s.completed
        /\ t.deleted = s.deleted /\ t.phase = s.phase /\ t.export = s.export
      BY <1>5, <2>2 DEF State, CheckpointBatch
  <2>4. Uploading(c, t, call[c].page)
      BY <1>1, <1>8 DEF Answered
  <2> HIDE DEF t
  <2>5. 1..end \subseteq session'[s.session].linked
    <3>1. 1..s.cursor \subseteq session'[s.session].linked
        BY <1>4, <2>1 DEF Truthful
    <3>2. \A m \in 1..end : m \in 1..s.cursor \/ m \in (s.cursor + 1)..end
        BY <1>5, <2>2, Constants
    <3> QED
        BY <3>1, <3>2, <1>3, <1>8
  <2>6. Truthful(t, session', exports')
      BY <2>1, <2>3, <2>5, <1>4 DEF Truthful
  <2>7. t.cursor <= call[c].page
      BY <2>2, <2>3, <1>4, Constants
  <2> QED
      BY <2>1, <2>3, <2>4, <2>6, <2>7, <1>2, <1>3, <1>4, UploadingBase
<1>9. CASE CallAt(c, "sync")
  <2> DEFINE t == [s EXCEPT !.phase = "syncing"]
             pc == IF s.completed THEN "verify" ELSE "complete"
  <2>1. Persist(c, t, pc)
      BY <1>1, <1>9 DEF Answered
  <2>2. "syncing" \in Phases \ {"completed"}
      BY DEF Phases, Active
  <2>3. /\ Truthful(t, session', exports') /\ t.phase # "completed"
        /\ t.cursor = s.cursor /\ t.session = s.session /\ t.completed = s.completed
      BY <2>2, <1>4, PhaseChanges
  <2>4. s.session # Nil
      BY <1>4, <1>9 DEF TransferOK
  <2>5. pc \in {"verify", "complete"} /\ (pc = "verify" => s.completed)
      OBVIOUS
  <2> HIDE DEF t, pc
  <2> QED
      BY <2>1, <2>3, <2>4, <2>5, <1>2, <1>3, <1>4, PersistBase DEF Requests
<1>10. CASE CallAt(c, "complete")
  <2> DEFINE t == [s EXCEPT !.phase = "verifying", !.completed = TRUE]
  <2>1. Persist(c, t, "verify")
      BY <1>1, <1>10 DEF Answered
  <2>2. s.session # Nil /\ session[s.session].linked = 1..Total
      BY <1>2, <1>4, <1>10 DEF TransferOK, Verifies, Exact, Complete
  <2>3. /\ t \in State /\ t.session = s.session /\ t.cursor = s.cursor /\ t.completed
        /\ t.deleted = s.deleted /\ t.phase = "verifying" /\ t.export = s.export
      BY <1>5 DEF State, Phases, Active
  <2> HIDE DEF t
  <2>4. Whole(s.session, session') /\ session'[s.session].status = "completed"
      BY <2>2, <1>3, <1>5, <1>10 DEF Whole
  <2>5. Truthful(t, session', exports')
      BY <2>2, <2>3, <2>4, <1>4 DEF Truthful
  <2> QED
      BY <2>1, <2>2, <2>3, <2>5, <1>2, <1>3, <1>4, PersistBase DEF Requests
<1>11. CASE CallAt(c, "verify")
  <2> DEFINE t == [s EXCEPT !.phase = "cleaning_snapshot"]
  <2>1. Persist(c, t, "clean")
      BY <1>1, <1>11 DEF Answered
  <2>2. "cleaning_snapshot" \in Phases \ {"completed"}
      BY DEF Phases, Active
  <2>3. /\ Truthful(t, session', exports') /\ t.phase # "completed"
        /\ t.cursor = s.cursor /\ t.session = s.session /\ t.completed = s.completed
      BY <2>2, <1>4, PhaseChanges
  <2>4. s.session # Nil /\ s.completed
      BY <1>4, <1>11 DEF TransferOK
  <2> HIDE DEF t
  <2> QED
      BY <2>1, <2>3, <2>4, <1>2, <1>3, <1>4, PersistBase DEF Requests
<1>12. CASE CallAt(c, "clean")
  <2> DEFINE t == [s EXCEPT !.phase = "cleaning_snapshot", !.deleted = TRUE]
  <2>1. Persist(c, t, "end")
      BY <1>1, <1>12 DEF Answered
  <2>2. s.session # Nil /\ s.completed /\ exports'[s.export] = "deleted"
      BY <1>3, <1>4, <1>12 DEF TransferOK
  <2>3. /\ t \in State /\ t.session = s.session /\ t.cursor = s.cursor /\ t.completed = s.completed
        /\ t.deleted /\ t.phase = "cleaning_snapshot" /\ t.export = s.export
      BY <1>5 DEF State, Phases, Active
  <2> HIDE DEF t
  <2>4. Truthful(t, session', exports')
      BY <2>2, <2>3, <1>4 DEF Truthful
  <2> QED
      BY <2>1, <2>2, <2>3, <2>4, <1>2, <1>3, <1>4, PersistBase DEF Requests
<1> QED
    BY <1>1, <1>6, <1>7, <1>8, <1>9, <1>10, <1>11, <1>12 DEF Answered

LEMMA RequestFailsBase == ASSUME Base, NEW c \in Calls, RequestFails(c) PROVE Base'
<1> DEFINE s == Held(c)
<1>1. Transfers(c) /\ call[c].pc \in Requests /\ Retry(c) /\ UNCHANGED history
    BY DEF RequestFails
<1>2. /\ Advances(session, session') /\ Deletes(exports, exports')
      /\ \A m \in Sessions : session'[m].indexed => Whole(m, session')
  <2>1. CASE UNCHANGED <<session, exports>>
      BY <2>1, NothingHappens DEF Base
  <2>2. CASE Accepted(c) /\ \E end \in BatchEnds(c) \cup {0}, n \in Sessions :
                /\ CallAt(c, "batch") <=> end # 0
                /\ CallAt(c, "session") => session[n].status = "none"
                /\ Requested(c, end, n)
      BY <2>2, <1>1, RequestExecuted
  <2> QED
      BY <2>1, <2>2 DEF RequestFails
<1>3. /\ Truthful(s, session', exports') /\ TransferOK(call[c]) /\ call[c] \in Call
      /\ s.phase # "completed" /\ call[c].attempt \in Nat /\ call[c].attempt \in 1..MaxAttempts
    BY <1>1, <1>2, CallFacts, TruthStays DEF TransferOK, Call
<1>4. {"retrying", "failed"} \subseteq Phases \ {"completed"}
    BY DEF Phases, Active, Resumable
<1>5. CASE call[c].attempt < MaxAttempts
  <2> DEFINE t == [s EXCEPT !.phase = "retrying"]
               more == call[c].attempt + 1
             r == [call[c] EXCEPT !.state = t, !.attempt = more]
  <2>1. /\ file' = t /\ UNCHANGED <<runningCall, pauseRequested>>
        /\ call' = [call EXCEPT ![c] = r]
      BY <1>1, <1>5 DEF Retry, Base
  <2>2. /\ Truthful(t, session', exports') /\ t.phase # "completed" /\ t.deleted = s.deleted
        /\ t.cursor = s.cursor /\ t.session = s.session /\ t.completed = s.completed
      BY <1>3, <1>4, PhaseChanges
  <2>3. t \in State
      BY <2>2 DEF Truthful
  <2>5. more \in Nat /\ more \in 1..MaxAttempts
      BY <1>3, <1>5, Constants
  <2> HIDE DEF t, more
  <2>4. /\ r \in Call /\ r.op = "transfer" /\ r.state = t /\ r.pc = call[c].pc
        /\ r.attempt = more /\ r.page = call[c].page
      BY <1>1, <1>3, <2>3, <2>5 DEF Call
  <2> HIDE DEF r
  <2>6. TransferOK(r)
      BY <2>2, <2>4, <2>5, <1>3 DEF TransferOK
  <2>7. CallOK(r, session', exports')
      BY <2>2, <2>4, <2>6 DEF CallOK
  <2> QED
      BY <2>1, <2>2, <2>4, <2>7, <1>1, <1>2, OneCall DEF Base
<1>6. CASE ~(call[c].attempt < MaxAttempts)
  <2> DEFINE t == [s EXCEPT !.phase = "failed"]
  <2>1. /\ file' = t /\ call' = Ended(c) /\ runningCall' = Nil /\ UNCHANGED pauseRequested
      BY <1>1, <1>6 DEF Retry
  <2>2. Truthful(t, session', exports')
      BY <1>3, <1>4, PhaseChanges
  <2>3. history' \subseteq Notes /\ Truthful(file', session', exports')
      BY <2>1, <2>2, <1>1 DEF Base
  <2> HIDE DEF t
  <2> QED
      BY <2>1, <2>3, <1>1, <1>2, CallEnds
<1> QED
    BY <1>5, <1>6

\* The transfer of c settles in phase p.
LEMMA SettleBase ==
    ASSUME Base, NEW c \in Calls, Transfers(c), NEW p \in Phases, NEW answer,
           Settle(c, [Held(c) EXCEPT !.phase = p], answer), p = "completed" => Held(c).deleted,
           UNCHANGED history
    PROVE  Base'
<1> DEFINE t == [Held(c) EXCEPT !.phase = p]
<1>1. /\ file' = t /\ call' = Ended(c) /\ runningCall' = Nil
      /\ UNCHANGED <<session, exports, pauseRequested>>
    BY DEF Settle
<1>2. Truthful(t, session, exports)
    BY CallFacts, PhaseChanges
<1>3. /\ \A n \in Sessions : session'[n].indexed => Whole(n, session')
      /\ Advances(session, session') /\ Deletes(exports, exports')
    BY <1>1, NothingHappens DEF Base
<1>4. Truthful(file', session', exports') /\ history' \subseteq Notes
    BY <1>1, <1>2 DEF Base
<1> HIDE DEF t
<1> QED
    BY <1>1, <1>3, <1>4, CallEnds

LEMMA WrongCountBase == ASSUME Base, NEW c \in Calls, WrongCount(c) PROVE Base'
<1>1. "failed" \in Phases
    BY DEF Phases, Resumable
<1> QED
    BY <1>1, SettleBase DEF WrongCount

LEMMA TransferEndsBase == ASSUME Base, NEW c \in Calls, TransferEnds(c) PROVE Base'
<1>1. {"paused", "completed"} \subseteq Phases
    BY DEF Phases, Resumable
<1>2. CallAt(c, "end") => Held(c).deleted
    BY CallFacts DEF TransferOK, TransferEnds
<1>3. CASE CallAt(c, "paused")
    BY <1>1, <1>3, SettleBase DEF TransferEnds
<1>4. CASE CallAt(c, "end")
    BY <1>1, <1>2, <1>4, SettleBase DEF TransferEnds
<1> QED
    BY <1>3, <1>4 DEF TransferEnds

-----------------------------------------------------------------------------
(* The migration: the panel. *)

\* The steps in which no call takes part.
LEMMA NoCallBase ==
    ASSUME Base, UNCHANGED <<exports, call, runningCall>>, Advances(session, session'),
           \A n \in Sessions : session'[n].indexed => Whole(n, session'),
           file' = file \/ Truthful(file', session', exports'),
           pauseRequested' \in BOOLEAN, history' \subseteq Notes
    PROVE  Base'
<1>1. Deletes(exports, exports')
    BY NothingHappens
<1>2. file' = Nil \/ Truthful(file', session', exports')
    BY <1>1, TruthStays DEF Base
<1>3. \A c \in Calls : CallOK(call'[c], session', exports')
    BY <1>1, CallStays DEF Base
<1> QED
    BY <1>1, <1>2, <1>3 DEF Base, Advances

LEMMA InterruptedIsTruthful ==
    ASSUME Base, NEW S, NEW X, NEW f, f = Nil \/ Truthful(f, S, X)
    PROVE  Interrupted(f) = f \/ Truthful(Interrupted(f), S, X)
<1>1. "interrupted" \in Phases \ {"completed"}
    BY DEF Phases, Resumable
<1> QED
    BY <1>1, PhaseChanges DEF Interrupted

LEMMA PauseBase == ASSUME Base, Pause PROVE Base'
<1>1. history' \subseteq Notes
    BY DEF Pause, Note, Base, Notes
<1> QED
    BY <1>1, NoCallBase, NothingHappens DEF Pause, Base

LEMMA GetStatusBase == ASSUME Base, GetStatus PROVE Base'
<1>1. file' = file \/ Truthful(file', session', exports')
    BY InterruptedIsTruthful DEF GetStatus, Base
<1> QED
    BY <1>1, NoCallBase, NothingHappens DEF GetStatus, Base

LEMMA CrashBase == ASSUME Base, Crash PROVE Base'
<1>1. file' = Nil \/ Truthful(file', session', exports')
    BY InterruptedIsTruthful DEF Crash, Base
<1>2. history' \subseteq Notes
    BY DEF Crash, Note, Base, Notes
<1>3. call' = [c \in Calls |-> NoCall] /\ UNCHANGED <<session, exports>> /\ runningCall' = Nil
      /\ pauseRequested' = FALSE
    BY DEF Crash
<1>4. \A c \in Calls : CallOK(call'[c], session', exports')
    BY <1>3, FreeCallOK
<1> QED
    BY <1>1, <1>2, <1>3, <1>4 DEF Base

LEMMA NextBase == ASSUME Base, [MigrationNext]_migrationVars PROVE Base'
<1>1. CASE UNCHANGED migrationVars
    BY <1>1, NoCallBase, NothingHappens DEF migrationVars, Base
<1>2. ASSUME NEW c \in Calls,
             \/ Inspect(c) \/ Start(c) \/ CreateSourceSnapshot(c) \/ StartTransfer(c) \/ StartFails(c)
             \/ Resume(c) \/ Index(c) \/ IndexQueued(c) \/ IndexFails(c)
             \/ Forget(c) \/ ForgetLoads(c) \/ CloseRemoteSession(c) \/ DeleteSourceSnapshot(c)
             \/ Succeeds(c) \/ RequestFails(c) \/ WrongCount(c) \/ TransferEnds(c)
      PROVE  Base'
    BY <1>2, InspectBase, StartBase, CreateBase, StartTransferBase, StartFailsBase, ResumeBase,
       IndexBase, IndexQueuedBase, IndexFailsBase, ForgetBase, ForgetLoadsBase, CloseBase, DeleteBase, SucceedsBase, RequestFailsBase,
       WrongCountBase, TransferEndsBase
<1>3. CASE PanelRenders
    BY <1>3, GetStatusBase, NoCallBase, NothingHappens DEF PanelRenders, Base
<1>4. CASE PanelOpens
    BY <1>4, GetStatusBase DEF PanelOpens
<1> QED
    BY <1>1, <1>2, <1>3, <1>4, PauseBase, CrashBase DEF MigrationNext

-----------------------------------------------------------------------------
(* The migration: what the panel shows in the end. *)

LEMMA PhaseFacts ==
    /\ Phases \subseteq Shown /\ Shown \subseteq Signs /\ "ask" \in Signs
    /\ {"idle", "pausing", "preparing", "uploading", "completed", "retrying", "failed", "paused"} \subseteq Shown
    /\ {"idle", "completed", "failed", "paused", "interrupted", "ask"} \subseteq Final
    /\ {"idle", "completed", "failed", "paused", "interrupted"} \subseteq Rest
    /\ \A x \in Phases \ Active : x \in Rest
    /\ Rest \subseteq Shown /\ Rest \subseteq Final
    /\ \A x \in Final : x # "ask" => x \in Rest
BY DEF Phases, Active, Resumable, Shown, Signs, Rest, Final

\* The last of the messages that are told is the last on the wire.
LEMMA LastMessage ==
    ASSUME NEW w \in Seq(Signs), NEW v \in Seq(Signs), v # <<>>
    PROVE  w \o v \in Seq(Signs) /\ w \o v # <<>> /\ (w \o v)[Len(w \o v)] = v[Len(v)]
<1>1. Len(v) \in Nat \ {0} /\ Len(w) \in Nat
    BY EmptySeq, LenProperties
<1>2. w \o v \in Seq(Signs) /\ Len(w \o v) = Len(w) + Len(v)
    BY ConcatProperties
<1>3. (w \o v)[Len(w) + Len(v)] = v[Len(v)]
  <2>1. Len(w) + Len(v) \in 1..(Len(w) + Len(v)) /\ ~(Len(w) + Len(v) <= Len(w))
      BY <1>1
  <2>2. (w \o v)[Len(w) + Len(v)] = v[(Len(w) + Len(v)) - Len(w)]
      BY <2>1, ConcatProperties
  <2> QED
      BY <2>2, <1>1
<1> QED
    BY <1>1, <1>2, <1>3

\* It decides what the panel shows in the end, unless a call is under way.
LEMMA Tells ==
    ASSUME Panel, NEW v \in Seq(Signs), v # <<>>, Tell(v), panel' \in Shown,
           Busy' \/ "late pause" \in history' \/ v[Len(v)] \in Final
    PROVE  Panel'
<1>1. wire' = wire \o v /\ wire \in Seq(Signs)
    BY DEF Tell, Panel
<1>2. wire' \in Seq(Signs) /\ wire' # <<>> /\ wire'[Len(wire')] = v[Len(v)]
    BY <1>1, LastMessage
<1> QED
    BY <1>2 DEF Panel

LEMMA OneMessage ==
    ASSUME NEW x \in Signs
    PROVE  <<x>> \in Seq(Signs) /\ Len(<<x>>) = 1
<1>1. <<x>> \in Seq(Signs)
    OBVIOUS
<1>2. Len(<<x>>) = 1
    OBVIOUS
<1> QED
    BY <1>1, <1>2

LEMMA TwoMessages ==
    ASSUME NEW x \in Signs, NEW y \in Signs
    PROVE  <<x, y>> \in Seq(Signs) /\ Len(<<x, y>>) = 2
<1>1. <<x, y>> \in Seq(Signs)
    OBVIOUS
<1>2. Len(<<x, y>>) = 2
    OBVIOUS
<1> QED
    BY <1>1, <1>2

LEMMA TellsOne ==
    ASSUME Panel, NEW x \in Signs, Tell(<<x>>), panel' \in Shown,
           Busy' \/ "late pause" \in history' \/ x \in Final
    PROVE  Panel'
<1>1. <<x>> \in Seq(Signs) /\ Len(<<x>>) = 1
    BY OneMessage
<1>2. <<x>>[Len(<<x>>)] = x
    BY <1>1
<1>3. <<x>> # <<>>
    BY <1>1, EmptySeq
<1> QED
    BY <1>1, <1>2, <1>3, Tells

LEMMA TellsTwo ==
    ASSUME Panel, NEW x \in Signs, NEW y \in Signs, Tell(<<x, y>>), panel' \in Shown,
           Busy' \/ "late pause" \in history' \/ y \in Final
    PROVE  Panel'
<1>1. <<x, y>> \in Seq(Signs) /\ Len(<<x, y>>) = 2
    BY TwoMessages
<1>2. <<x, y>>[Len(<<x, y>>)] = y
    BY <1>1
<1>3. <<x, y>> # <<>>
    BY <1>1, EmptySeq
<1> QED
    BY <1>1, <1>2, <1>3, Tells

LEMMA TellsNothing ==
    ASSUME Panel, wire' = wire, panel' \in Shown, Busy'
    PROVE  Panel'
BY DEF Panel

LEMMA InHand ==
    ASSUME NEW c \in Calls, call'[c].op \notin {"none", "index"}
    PROVE  Busy'
BY DEF Busy

LEMMA RunPanel ==
    ASSUME Base, Panel, NEW c \in Calls, NEW s, Run(c, s), s.phase \in Phases, panel' \in Shown
    PROVE  Panel'
<1>1. call'[c].op = "transfer" /\ Tell(<<s.phase>>)
    BY DEF Run, Base
<1> QED
    BY <1>1, InHand, TellsOne, PhaseFacts

LEMMA CallPanel ==
    ASSUME Base, Panel, NEW c \in Calls,
           \/ Inspect(c) \/ Start(c) \/ CreateSourceSnapshot(c) \/ StartTransfer(c) \/ StartFails(c)
           \/ Resume(c) \/ Forget(c) \/ ForgetLoads(c) \/ CloseRemoteSession(c) \/ DeleteSourceSnapshot(c)
    PROVE  Panel'
<1> USE PhaseFacts
<1>0. panel \in Shown /\ call = [d \in Calls |-> call[d]]
    BY DEF Panel, Base
<1>1. CASE Inspect(c)
  <2>1. call'[c].op = "start"
      BY <1>0, <1>1 DEF Inspect, NoCall
  <2> QED
      BY <2>1, <1>0, <1>1, InHand, TellsNothing DEF Inspect
<1>2. CASE Start(c)
  <2>1. panel' \in Shown
      BY <1>2 DEF Start
  <2>2. CASE Tell(<<"ask">>)
      BY <2>1, <2>2, TellsOne
  <2>3. CASE call' = [call EXCEPT ![c].pc = "snapshot"] /\ UNCHANGED wire
    <3>1. call'[c].op = "start"
        BY <2>3, <1>0, <1>2, CallFacts DEF Start, Call
    <3> QED
        BY <3>1, <2>1, <2>3, InHand, TellsNothing
  <2> QED
      BY <2>2, <2>3, <1>2 DEF Start
<1>3. CASE CreateSourceSnapshot(c)
  <2>1. PICK e \in Exports : call' = [call EXCEPT ![c].pc = "states", ![c].state = InitialState(e)]
      BY <1>3 DEF CreateSourceSnapshot
  <2>2. call[c] \in Call /\ call[c].op = "start"
      BY <1>3, CallFacts DEF CreateSourceSnapshot
  <2>3. call'[c] = [call[c] EXCEPT !.pc = "states", !.state = InitialState(e)]
      BY <2>1, <1>0
  <2>4. call'[c].op = "start"
      BY <2>2, <2>3 DEF Call
  <2> QED
      BY <2>4, <1>0, <1>3, InHand, TellsNothing DEF CreateSourceSnapshot
<1>4. CASE StartTransfer(c)
  <2>1. Held(c) \in State
      BY <1>4, CallFacts, Constants DEF StartTransfer, CallOK, Call
  <2> QED
      BY <2>1, <1>0, <1>4, RunPanel DEF StartTransfer, State
<1>5. CASE StartFails(c)
    BY <1>0, <1>5, TellsOne DEF StartFails
<1>6. CASE Resume(c)
  <2>1. CASE file = Nil \/ ~Unfinished
      BY <2>1, <1>6, TellsOne DEF Resume
  <2>2. CASE ~(file = Nil \/ ~Unfinished)
    <3> DEFINE s == [file EXCEPT !.phase = "uploading"]
    <3>1. file \in State
        BY <2>2 DEF Base, Truthful
    <3>2. s.phase \in Phases /\ Run(c, s)
        BY <3>1, <2>2, <1>6 DEF State, Phases, Active, Resume
    <3> HIDE DEF s
    <3> QED
        BY <3>2, <1>6, RunPanel DEF Resume
  <2> QED
      BY <2>1, <2>2
<1>7. CASE Forget(c)
  <2>1. call'[c].op = "forget"
      BY <1>0, <1>7 DEF Forget, NoCall
  <2> QED
      BY <2>1, <1>0, <1>7, InHand, TellsNothing DEF Forget
<1>8. CASE ForgetLoads(c)
  <2>1. CASE file = Nil
      BY <2>1, <1>0, <1>8, TellsOne DEF ForgetLoads
  <2>2. CASE file # Nil
    <3>1. call'[c].op = "forget" /\ wire' = wire
        BY <2>2, <1>0, <1>8, CallFacts DEF ForgetLoads, Call
    <3> QED
        BY <3>1, <1>0, <1>8, InHand, TellsNothing DEF ForgetLoads
  <2> QED
      BY <2>1, <2>2
<1>9. CASE CloseRemoteSession(c)
  <2>1. call'[c].op = "forget"
      BY <1>0, <1>9, CallFacts DEF CloseRemoteSession, Call
  <2> QED
      BY <2>1, <1>0, <1>9, InHand, TellsNothing DEF CloseRemoteSession
<1>10. CASE DeleteSourceSnapshot(c)
    BY <1>0, <1>10, TellsOne DEF DeleteSourceSnapshot
<1> QED
    BY <1>1, <1>2, <1>3, <1>4, <1>5, <1>6, <1>7, <1>8, <1>9, <1>10

\* A transfer that goes on is still under way.
LEMMA PersistPanel ==
    ASSUME Base, Panel, NEW c \in Calls, Transfers(c), NEW s, NEW pc, Persist(c, s, pc),
           s.phase \in Phases, UNCHANGED panel
    PROVE  Panel'
<1>1. call[c] \in Call /\ call[c].op = "transfer" /\ call = [d \in Calls |-> call[d]]
    BY CallFacts DEF Base
<1>2. call'[c] = [call[c] EXCEPT !.state = s, !.pc = pc, !.attempt = 1]
    BY <1>1 DEF Persist
<1>3. call'[c].op = "transfer" /\ Tell(<<s.phase>>)
    BY <1>1, <1>2 DEF Call, Persist
<1>4. s.phase \in Signs /\ panel' \in Shown
    BY PhaseFacts DEF Panel
<1> QED
    BY <1>3, <1>4, InHand, TellsOne

LEMMA UploadingPanel ==
    ASSUME Base, Panel, NEW c \in Calls, Transfers(c), NEW s \in State, NEW page,
           Uploading(c, s, page), UNCHANGED panel
    PROVE  Panel'
<1> DEFINE pc == NextRequest(s, page)
           t == [s EXCEPT !.phase = PhaseAt(pc)]
<1>1. PhaseAt(pc) \in Phases
    BY DEF PhaseAt, Phases, Active
<1>2. Persist(c, t, pc)
    BY DEF Uploading
<1> HIDE DEF pc
<1>3. t.phase \in Phases
    BY <1>1 DEF State
<1> HIDE DEF t
<1> QED
    BY <1>2, <1>3, PersistPanel

LEMMA SucceedsPanel == ASSUME Base, Panel, NEW c \in Calls, Succeeds(c) PROVE Panel'
<1> DEFINE s == Held(c)
<1>1. PICK end \in BatchEnds(c) \cup {0}, n \in Sessions : Requested(c, end, n) /\ Answered(c, end, n)
    BY DEF Succeeds
<1>2. Transfers(c) /\ UNCHANGED panel /\ call[c] \in Call /\ call = [d \in Calls |-> call[d]]
    BY CallFacts DEF Succeeds, Base
<1>3. s \in State
    BY <1>2, CallFacts DEF Truthful
<1>4. {"syncing", "verifying", "cleaning_snapshot", "uploading"} \subseteq Phases
    BY DEF Phases, Active
<1>5. CASE CallAt(c, "session") /\ Uploading(c, [s EXCEPT !.session = n], s.cursor)
  <2>1. [s EXCEPT !.session = n] \in State
      BY <1>3 DEF State
  <2> QED
      BY <2>1, <1>2, <1>5, UploadingPanel
<1>6. CASE CallAt(c, "page") /\ Answered(c, end, n)
  <2> DEFINE last == IF PageDone(s) THEN Total ELSE s.cursor + PageSize
             pc == NextRequest(s, last)
             t == [s EXCEPT !.phase = PhaseAt(pc)]
  <2>1. /\ call' = [call EXCEPT ![c].page = last, ![c].attempt = 1, ![c].pc = pc, ![c].state = t]
        /\ Tell(IF t # s THEN <<t.phase>> ELSE <<>>)
      BY <1>6 DEF Answered
  <2>2. PhaseAt(pc) \in Phases
      BY <1>4 DEF PhaseAt
  <2> HIDE DEF pc, last
  <2>3. t.phase \in Phases
      BY <2>2, <1>3 DEF State
  <2> HIDE DEF t
  <2>4. call'[c] = [call[c] EXCEPT !.page = last, !.attempt = 1, !.pc = pc, !.state = t]
      BY <2>1, <1>2
  <2>5. call'[c].op = "transfer"
      BY <2>4, <1>2 DEF Call
  <2>6. CASE t # s
    <3>1. Tell(<<t.phase>>) /\ t.phase \in Signs /\ panel' \in Shown
        BY <2>6, <2>1, <2>3, <1>2, PhaseFacts DEF Panel
    <3> QED
        BY <3>1, <2>5, InHand, TellsOne
  <2>7. CASE t = s
    <3>1. wire' = wire \o <<>> /\ wire \in Seq(Signs) /\ panel' \in Shown
        BY <2>7, <2>1, <1>2 DEF Tell, Panel
    <3>2. wire' = wire
        BY <3>1, ConcatEmptySeq
    <3> QED
        BY <3>1, <3>2, <2>5, InHand, TellsNothing
  <2> QED
      BY <2>6, <2>7
<1>7. CASE CallAt(c, "batch") /\ Uploading(c, CheckpointBatch(s, end), call[c].page)
  <2>1. s.cursor \in 0..Total /\ call[c].page \in 0..Total /\ s.cursor < call[c].page
      BY <1>2, <1>3, <1>7, CallFacts DEF TransferOK, Call, State
  <2>3. end \in 0..Total
      BY <2>1, Constants DEF BatchEnds
  <2>2. CheckpointBatch(s, end) \in State
      BY <2>3, <1>3 DEF CheckpointBatch, State
  <2> QED
      BY <2>2, <1>2, <1>7, UploadingPanel
<1>8. ASSUME NEW t, NEW pc, Persist(c, t, pc), t.phase \in Phases
      PROVE  Panel'
    BY <1>8, <1>2, PersistPanel
<1>9. CASE CallAt(c, "sync") /\ Persist(c, [s EXCEPT !.phase = "syncing"],
                                    IF s.completed THEN "verify" ELSE "complete")
  <2>1. [s EXCEPT !.phase = "syncing"].phase \in Phases
      BY <1>3, <1>4 DEF State
  <2> QED
      BY <2>1, <1>8, <1>9
<1>10. CASE CallAt(c, "complete") /\ Persist(c, [s EXCEPT !.phase = "verifying", !.completed = TRUE], "verify")
  <2>1. [s EXCEPT !.phase = "verifying", !.completed = TRUE].phase \in Phases
      BY <1>3, <1>4 DEF State
  <2> QED
      BY <2>1, <1>8, <1>10
<1>11. CASE CallAt(c, "verify") /\ Persist(c, [s EXCEPT !.phase = "cleaning_snapshot"], "clean")
  <2>1. [s EXCEPT !.phase = "cleaning_snapshot"].phase \in Phases
      BY <1>3, <1>4 DEF State
  <2> QED
      BY <2>1, <1>8, <1>11
<1>12. CASE CallAt(c, "clean") /\ Persist(c, [s EXCEPT !.phase = "cleaning_snapshot", !.deleted = TRUE], "end")
  <2>1. [s EXCEPT !.phase = "cleaning_snapshot", !.deleted = TRUE].phase \in Phases
      BY <1>3, <1>4 DEF State
  <2> QED
      BY <2>1, <1>8, <1>12
<1> QED
    BY <1>1, <1>5, <1>6, <1>7, <1>9, <1>10, <1>11, <1>12 DEF Answered

LEMMA RequestFailsPanel == ASSUME Base, Panel, NEW c \in Calls, RequestFails(c) PROVE Panel'
<1>1. Transfers(c) /\ Retry(c) /\ call[c] \in Call /\ call = [d \in Calls |-> call[d]] /\ panel \in Shown
    BY CallFacts DEF RequestFails, Base, Panel
<1>2. CASE call[c].attempt < MaxAttempts
  <2>1. /\ Tell(<<"retrying">>) /\ panel' = panel
        /\ call'[c] = [call[c] EXCEPT !.state = file', !.attempt = call[c].attempt + 1]
      BY <1>1, <1>2 DEF Retry
  <2>2. call'[c].op = "transfer"
      BY <2>1, <1>1 DEF Call
  <2> QED
      BY <2>1, <2>2, <1>1, InHand, TellsOne, PhaseFacts
<1>3. CASE ~(call[c].attempt < MaxAttempts)
    BY <1>1, <1>3, TellsTwo, PhaseFacts DEF Retry
<1> QED
    BY <1>2, <1>3

\* What a transfer that settles tells last is a phase at rest.
LEMMA SettlePanel ==
    ASSUME Base, Panel, NEW c \in Calls, Transfers(c), NEW p \in Phases, NEW x \in Final,
           Settle(c, [Held(c) EXCEPT !.phase = p], <<x>>)
    PROVE  Panel'
<1>1. Held(c) \in State
    BY CallFacts DEF Truthful
<1>2. [Held(c) EXCEPT !.phase = p].phase = p
    BY <1>1 DEF State
<1>3. Tell(<<p>> \o <<x>>) /\ panel' \in Shown /\ p \in Signs /\ x \in Signs
    BY <1>2, PhaseFacts DEF Settle, Panel, Final, Signs
<1>4. <<p>> \in Seq(Signs) /\ <<x>> \in Seq(Signs) /\ Len(<<x>>) = 1 /\ <<x>> # <<>>
    BY <1>3, OneMessage, EmptySeq
<1>5. <<x>>[1] = x
    OBVIOUS
<1> QED
    BY <1>3, <1>4, <1>5, LastMessage, Tells

LEMMA WrongCountPanel == ASSUME Base, Panel, NEW c \in Calls, WrongCount(c) PROVE Panel'
<1>1. "failed" \in Phases /\ "ask" \in Final
    BY DEF Phases, Resumable, Final
<1> QED
    BY <1>1, SettlePanel DEF WrongCount

LEMMA TransferEndsPanel == ASSUME Base, Panel, NEW c \in Calls, TransferEnds(c) PROVE Panel'
<1>1. {"paused", "completed"} \subseteq Phases /\ {"paused", "completed"} \subseteq Final
    BY DEF Phases, Resumable, Final, Rest
<1>2. CASE CallAt(c, "paused")
    BY <1>1, <1>2, SettlePanel DEF TransferEnds
<1>3. CASE ~CallAt(c, "paused")
    BY <1>1, <1>3, SettlePanel DEF TransferEnds
<1> QED
    BY <1>2, <1>3

\* A pause is told after the transfer has ended only if it came late.
LEMMA PausePanel == ASSUME Base, Panel, Pause PROVE Panel'
<1>1. UNCHANGED <<call, runningCall, panel>> /\ panel \in Shown
    BY DEF Pause, Panel
<1>2. CASE Tell(<<"completed">>)
    BY <1>1, <1>2, TellsOne, PhaseFacts
<1>3. CASE Tell(<<"pausing", "pausing">>)
  <2>1. CASE runningCall = Nil
    <3>1. "late pause" \in history'
        BY <2>1 DEF Pause, Note
    <3> QED
        BY <3>1, <1>1, <1>3, TellsTwo, PhaseFacts
  <2>2. CASE runningCall # Nil
    <3>1. runningCall \in Calls /\ call'[runningCall].op = "transfer"
        BY <2>2, <1>1 DEF Base
    <3>2. Busy'
        BY <3>1, InHand
    <3> QED
        BY <3>2, <1>1, <1>3, TellsTwo, PhaseFacts
  <2> QED
      BY <2>1, <2>2
<1> QED
    BY <1>2, <1>3 DEF Pause

\* index only tells the panel what it shows already, and nothing if it fails.
LEMMA IndexPanel ==
    ASSUME Base, Panel, NEW c \in Calls, Index(c) \/ IndexQueued(c) \/ IndexFails(c)
    PROVE  Panel'
<1>1. panel' \in Shown /\ call = [d \in Calls |-> call[d]]
    BY DEF Panel, Base, Index, IndexQueued, IndexFails
<1>2. CASE IndexQueued(c)
    BY <1>1, <1>2, TellsTwo, PhaseFacts DEF IndexQueued
<1>3. CASE Index(c) \/ IndexFails(c)
  <2>1. call[c].op \in {"none", "index"}
      BY <1>3, IndexCallFacts DEF Index, IndexFails, NoCall
  <2>5. PICK r : call' = [call EXCEPT ![c] = r] /\ r.op \in {"none", "index"}
    <3>1. NoCall.op = "none" /\ [NoCall EXCEPT !.op = "index", !.pc = "index", !.state = file].op = "index"
        BY DEF NoCall
    <3> QED
        BY <3>1, <1>3 DEF Index, IndexFails
  <2>4. call'[c].op \in {"none", "index"} /\ \A d \in Calls \ {c} : call'[d] = call[d]
      BY <2>5, CallBecomes
  <2>2. Busy' <=> Busy
      BY <2>1, <2>4 DEF Busy
  <2>3. UNCHANGED <<wire, panel, history>>
      BY <1>3 DEF Index, IndexFails
  <2> QED
      BY <2>2, <2>3 DEF Panel
<1> QED
    BY <1>2, <1>3

LEMMA IdleRests ==
    ASSUME Base, ~Busy
    PROVE  runningCall = Nil
BY DEF Base, Busy

\* A status that is read when nothing is under way shows a phase at rest.
LEMMA InterruptedRests ==
    ASSUME Base
    PROVE  ShownPhase(Interrupted(file)) \in Rest
<1>1. CASE file = Nil
    BY <1>1, PhaseFacts DEF Interrupted, ShownPhase
<1>2. CASE file # Nil /\ file.phase \in Active
  <2>1. file \in State
      BY <1>2 DEF Base, Truthful
  <2>2. [file EXCEPT !.phase = "interrupted"] \in State
      BY <2>1 DEF State, Phases, Resumable
  <2>3. Interrupted(file) # Nil /\ Interrupted(file).phase = "interrupted"
      BY <2>1, <2>2, <1>2, Constants DEF Interrupted, State
  <2> QED
      BY <2>3, PhaseFacts DEF ShownPhase
<1>3. CASE file # Nil /\ file.phase \notin Active
  <2>1. file.phase \in Phases
      BY <1>3 DEF Base, Truthful, State
  <2> QED
      BY <2>1, <1>3, PhaseFacts DEF ShownPhase, Interrupted
<1> QED
    BY <1>1, <1>2, <1>3

LEMMA ShownIsShown ==
    ASSUME Base, GetStatus
    PROVE  /\ ShownPhase(file') \in Shown
           /\ ~Busy' => ShownPhase(file') \in Rest
<1>1. runningCall = Nil => ShownPhase(file') \in Rest
    BY InterruptedRests DEF GetStatus
<1>2. runningCall # Nil => file' = file
    BY DEF GetStatus
<1>3. ShownPhase(file) \in Shown
    BY PhaseFacts DEF ShownPhase, Base, Truthful, State
<1>4. Busy' <=> Busy
    BY DEF GetStatus, Busy
<1> QED
    BY <1>1, <1>2, <1>3, <1>4, IdleRests, PhaseFacts

LEMMA PanelOpensPanel == ASSUME Base, Panel, PanelOpens PROVE Panel'
BY ShownIsShown DEF PanelOpens, Panel

LEMMA PanelRendersPanel == ASSUME Base, Panel, PanelRenders PROVE Panel'
<1>0. wire \in Seq(Signs) /\ wire # <<>> /\ panel \in Shown
    BY DEF Panel, PanelRenders
<1>1. /\ Head(wire) \in Signs /\ Tail(wire) \in Seq(Signs) /\ Len(Tail(wire)) = Len(wire) - 1
      /\ \A i \in 1..Len(Tail(wire)) : Tail(wire)[i] = wire[i + 1]
    BY <1>0, HeadTailProperties
<1>4. Head(wire) = wire[1]
    OBVIOUS
<1>5. Len(wire) \in Nat /\ Len(wire) # 0
    BY <1>0, LenProperties, EmptySeq
<1>2. CASE Head(wire) = "ask"
  <2>1. GetStatus /\ wire' = Append(Tail(wire), ShownPhase(file')) /\ panel' = panel
      BY <1>2 DEF PanelRenders
  <2>2. ShownPhase(file') \in Signs /\ (~Busy' => ShownPhase(file') \in Final)
      BY <2>1, ShownIsShown, PhaseFacts
  <2> DEFINE w == Tail(wire)
             x == ShownPhase(file')
  <2>3. w \in Seq(Signs) /\ x \in Signs /\ wire' = Append(w, x)
      BY <1>1, <2>1, <2>2
  <2> HIDE DEF w, x
  <2>4. wire' \in Seq(Signs) /\ wire' # <<>> /\ Len(wire') = Len(w) + 1
      BY <2>3, AppendProperties
  <2>5. wire'[Len(wire')] = x
      BY <2>3, <2>4, AppendProperties
  <2> QED
      BY <1>0, <2>1, <2>2, <2>4, <2>5 DEF Panel, x
<1>3. CASE Head(wire) # "ask"
  <2>1. /\ panel' = Head(wire) /\ wire' = Tail(wire) /\ panel' \in Shown
        /\ Busy' <=> Busy
        /\ history' = history
      BY <1>1, <1>3 DEF PanelRenders, Signs, Busy
  <2>2. ~Busy /\ "late pause" \notin history => wire[Len(wire)] \in Final
      BY <1>0 DEF Panel
  <2>5. Len(wire') = Len(wire) - 1 /\ wire' \in Seq(Signs)
      BY <2>1, <1>1
  <2>3. CASE wire' = <<>>
    <3>1. Len(wire) = 1
        BY <2>3, <2>5, <1>5, EmptySeq
    <3> QED
        BY <3>1, <2>1, <2>2, <2>3, <2>5, <1>4, <1>3, PhaseFacts DEF Panel
  <2>4. CASE wire' # <<>>
    <3>1. Len(wire') \in Nat /\ Len(wire') # 0
        BY <2>4, <2>5, LenProperties, EmptySeq
    <3>2. Len(wire') \in 1..Len(wire') /\ Len(wire') + 1 = Len(wire)
        BY <3>1, <2>5, <1>5
    <3>3. wire'[Len(wire')] = wire[Len(wire)]
        BY <3>2, <2>1, <1>1
    <3> QED
        BY <3>3, <2>1, <2>2, <2>4, <2>5 DEF Panel
  <2> QED
      BY <2>3, <2>4
<1> QED
    BY <1>2, <1>3

LEMMA NextPanel == ASSUME Base, Panel, [MigrationNext]_migrationVars PROVE Panel'
<1>1. CASE UNCHANGED migrationVars
    BY <1>1 DEF migrationVars, Panel, Busy
<1>2. CASE Crash
  <2>1. wire' = <<>> /\ panel' \in Rest
      BY <1>2, InterruptedRests DEF Crash
  <2> QED
      BY <2>1, PhaseFacts, EmptySeq DEF Panel
<1> QED
    BY <1>1, <1>2, CallPanel, SucceedsPanel, RequestFailsPanel, WrongCountPanel, TransferEndsPanel,
       PausePanel, IndexPanel, PanelRendersPanel, PanelOpensPanel DEF MigrationNext

-----------------------------------------------------------------------------
(* The migration: the snapshots that are kept. *)

\* The notes of history only grow.
LEMMA NotesStay == ASSUME [MigrationNext]_migrationVars PROVE history \subseteq history'
BY DEF MigrationNext, migrationVars, Note, Inspect, Start, CreateSourceSnapshot, StartTransfer,
       StartFails, Resume, Forget, ForgetLoads, CloseRemoteSession, DeleteSourceSnapshot, Succeeds,
       RequestFails, WrongCount, TransferEnds, Pause, Index, IndexQueued, IndexFails, PanelRenders, PanelOpens, GetStatus, Crash

LEMMA OrderlyBefore == ASSUME history \subseteq history', OrderlyCalls' PROVE OrderlyCalls
BY DEF OrderlyCalls

LEMMA NoCallFacts == NoCall.op = "none" /\ NoCall.pc = "none"
BY DEF NoCall

\* A step of a transfer, its last one included.
LEMMA TransferSnapshots ==
    ASSUME Base, Snapshots, NEW c \in Calls, Transfers(c), NEW r, call' = [call EXCEPT ![c] = r],
           \/ r = NoCall
           \/ /\ r.op = "transfer" /\ r.pc \notin {"snapshot", "states"}
              /\ r.state.export = Held(c).export /\ runningCall' = runningCall,
           file' = file \/ (file' # Nil /\ file'.export = Held(c).export),
           \A e \in Exports : exports'[e] = "kept" => exports[e] = "kept",
           history' = history
    PROVE  Snapshots'
<1> SUFFICES ASSUME OrderlyCalls'
             PROVE  KeptIsKnown' /\ TransfersTheFile' /\ CreatesAlone' /\ ForgetsOnce' /\ ForgetsTheFile'
    BY DEF Snapshots
<1>1. KeptIsKnown /\ TransfersTheFile /\ CreatesAlone /\ ForgetsOnce /\ ForgetsTheFile
    BY DEF Snapshots, OrderlyCalls
<1>2. call'[c] = r /\ \A d \in Calls \ {c} : call'[d] = call[d]
    BY CallBecomes
<1>3. \A d \in Calls : ~Creating(d) /\ ~(Creating(d)')
    BY <1>1, <1>2, CallFacts, NoCallFacts DEF CreatesAlone, Creating
<1>4. \A d \in Calls \ {c} : ~Transfers(d)
    BY <1>1, Constants DEF TransfersTheFile
<1>5. \A d \in Calls : Forgetting(d)' => d # c /\ Forgetting(d) /\ call'[d] = call[d]
    BY <1>2, NoCallFacts DEF Forgetting
<1>6. file # Nil => file.export = Held(c).export
    BY <1>1 DEF TransfersTheFile
<1>7. KeptIsKnown'
    BY <1>1, <1>3, <1>6 DEF KeptIsKnown, Creating
<1>8. TransfersTheFile'
    BY <1>1, <1>2, <1>4, <1>6, NoCallFacts DEF TransfersTheFile
<1>9. CreatesAlone'
    BY <1>3 DEF CreatesAlone
<1>10. ForgetsOnce'
    BY <1>1, <1>5 DEF ForgetsOnce
<1>11. ForgetsTheFile'
    BY <1>1, <1>5, <1>6 DEF ForgetsTheFile
<1> QED
    BY <1>7, <1>8, <1>9, <1>10, <1>11

\* A step in which no call takes part, and the file stays the same migration's.
LEMMA NoCallSnapshots ==
    ASSUME Snapshots, UNCHANGED <<call, exports, runningCall>>, history \subseteq history',
           \/ file' = file
           \/ /\ file # Nil /\ file' # Nil /\ file'.export = file.export
              /\ file.phase = "completed" => file'.phase = "completed"
    PROVE  Snapshots'
<1> SUFFICES ASSUME OrderlyCalls'
             PROVE  KeptIsKnown' /\ TransfersTheFile' /\ CreatesAlone' /\ ForgetsOnce' /\ ForgetsTheFile'
    BY DEF Snapshots
<1>1. KeptIsKnown /\ TransfersTheFile /\ CreatesAlone /\ ForgetsOnce /\ ForgetsTheFile
    BY OrderlyBefore DEF Snapshots
<1>2. KeptIsKnown'
    BY <1>1 DEF KeptIsKnown
<1>3. TransfersTheFile'
    BY <1>1 DEF TransfersTheFile
<1>4. CreatesAlone'
    BY <1>1 DEF CreatesAlone, Creating, Forgetting
<1>5. ForgetsOnce' /\ ForgetsTheFile'
    BY <1>1 DEF ForgetsOnce, ForgetsTheFile, Forgetting
<1> QED
    BY <1>2, <1>3, <1>4, <1>5

\* A call that makes no snapshot, forgets nothing and transfers nothing after its step,
\* and had neither made a snapshot that nobody noted nor transferred before it.
LEMMA IdleCallSnapshots ==
    ASSUME Base, Snapshots, NEW c \in Calls, NEW r, call' = [call EXCEPT ![c] = r],
           r.op \notin {"forget", "transfer"}, r.pc \notin {"snapshot", "states"},
           call[c].op # "transfer",
           call[c].pc = "states" => ~OrderlyCalls',
           \/ file' = file
           \/ ~OrderlyCalls'
           \/ file # Nil /\ file' # Nil /\ file'.export = file.export /\ file'.phase = "completed",
           UNCHANGED <<exports, runningCall>>, history \subseteq history'
    PROVE  Snapshots'
<1> SUFFICES ASSUME OrderlyCalls'
             PROVE  KeptIsKnown' /\ TransfersTheFile' /\ CreatesAlone' /\ ForgetsOnce' /\ ForgetsTheFile'
    BY DEF Snapshots
<1>1. KeptIsKnown /\ TransfersTheFile /\ CreatesAlone /\ ForgetsOnce /\ ForgetsTheFile
    BY OrderlyBefore DEF Snapshots
<1>2. call'[c] = r /\ \A d \in Calls \ {c} : call'[d] = call[d]
    BY CallBecomes
<1>3. KeptIsKnown'
    BY <1>1, <1>2 DEF KeptIsKnown
<1>4. TransfersTheFile'
    BY <1>1, <1>2 DEF TransfersTheFile
<1>5. CreatesAlone'
    BY <1>1, <1>2 DEF CreatesAlone, Creating, Forgetting
<1>6. ForgetsOnce' /\ ForgetsTheFile'
    BY <1>1, <1>2 DEF ForgetsOnce, ForgetsTheFile, Forgetting
<1> QED
    BY <1>3, <1>4, <1>5, <1>6

LEMMA InspectSnapshots == ASSUME Base, Snapshots, NEW c \in Calls, Inspect(c) PROVE Snapshots'
<1> DEFINE r == [NoCall EXCEPT !.op = "start", !.pc = "inspect"]
<1>1. r.op = "start" /\ r.pc = "inspect" /\ call[c].op = "none" /\ call[c].pc = "none"
    BY DEF NoCall, Inspect
<1>2. call' = [call EXCEPT ![c] = r] /\ UNCHANGED <<file, exports, runningCall, history>>
    BY DEF Inspect
<1> HIDE DEF r
<1> QED
    BY <1>1, <1>2, IdleCallSnapshots

LEMMA StartFailsSnapshots == ASSUME Base, Snapshots, NEW c \in Calls, StartFails(c) PROVE Snapshots'
<1>1. /\ call[c].op = "start" /\ call' = [call EXCEPT ![c] = NoCall]
      /\ UNCHANGED <<file, exports, runningCall>>
    BY DEF StartFails
<1>2. history \subseteq history' /\ (call[c].pc = "states" => ~OrderlyCalls')
    BY DEF StartFails, Note, OrderlyCalls
<1> QED
    BY <1>1, <1>2, NoCallFacts, IdleCallSnapshots

\* What start has checked still holds: nothing else makes or gives up a migration.
LEMMA StartSnapshots == ASSUME Base, Snapshots, NEW c \in Calls, Start(c) PROVE Snapshots'
<1>1. /\ call[c] \in Call /\ call[c].op = "start" /\ call[c].pc = "inspect"
      /\ UNCHANGED <<file, exports, runningCall>>
    BY CallFacts DEF Start
<1>2. history \subseteq history'
    BY DEF Start, Note
<1>3. CASE call' = Ended(c)
    BY <1>1, <1>2, <1>3, NoCallFacts, IdleCallSnapshots
<1>4. CASE runningCall = Nil /\ ~Unfinished /\ call' = [call EXCEPT ![c].pc = "snapshot"]
  <2> SUFFICES ASSUME OrderlyCalls'
               PROVE  KeptIsKnown' /\ TransfersTheFile' /\ CreatesAlone' /\ ForgetsOnce' /\ ForgetsTheFile'
      BY DEF Snapshots
  <2>1. KeptIsKnown /\ TransfersTheFile /\ CreatesAlone /\ ForgetsOnce /\ ForgetsTheFile
      BY <1>2, OrderlyBefore DEF Snapshots
  <2> DEFINE r == [call[c] EXCEPT !.pc = "snapshot"]
  <2>2. r.op = "start" /\ r.pc = "snapshot"
      BY <1>1 DEF Call
  <2>3. call' = [call EXCEPT ![c] = r]
      BY <1>4 DEF Base
  <2> HIDE DEF r
  <2>4. call'[c] = r /\ \A d \in Calls \ {c} : call'[d] = call[d]
      BY <2>3, CallBecomes
  <2>5. \A d \in Calls \ {c} : call[d].op \notin {"start", "forget"}
    <3>1. "start" \notin history'
        BY DEF OrderlyCalls
    <3> QED
        BY <3>1 DEF Start, Note
  <2>6. \A d \in Calls : ~Transfers(d)
      BY <2>1, <1>4, Constants DEF TransfersTheFile
  <2>7. \A d \in Calls \ {c} : ~Creating(d)
      BY <2>5, CallFacts DEF Creating
  <2>8. KeptIsKnown'
      BY <1>1, <2>1, <2>4 DEF KeptIsKnown
  <2>9. TransfersTheFile'
      BY <2>2, <2>4, <2>6 DEF TransfersTheFile
  <2>10. CreatesAlone'
      BY <1>1, <1>4, <2>4, <2>5, <2>6, <2>7 DEF CreatesAlone, Creating, Forgetting, Unfinished
  <2>11. ForgetsOnce' /\ ForgetsTheFile'
      BY <2>2, <2>4, <2>5 DEF ForgetsOnce, ForgetsTheFile, Forgetting
  <2> QED
      BY <2>8, <2>9, <2>10, <2>11
<1> QED
    BY <1>3, <1>4 DEF Start

LEMMA CreateSnapshots == ASSUME Base, Snapshots, NEW c \in Calls, CreateSourceSnapshot(c) PROVE Snapshots'
<1> SUFFICES ASSUME OrderlyCalls'
             PROVE  KeptIsKnown' /\ TransfersTheFile' /\ CreatesAlone' /\ ForgetsOnce' /\ ForgetsTheFile'
    BY DEF Snapshots
<1>1. /\ call[c] \in Call /\ call[c].op = "start" /\ call[c].pc = "snapshot"
      /\ UNCHANGED <<file, runningCall, history>>
    BY CallFacts DEF CreateSourceSnapshot
<1>2. KeptIsKnown /\ TransfersTheFile /\ CreatesAlone /\ ForgetsOnce /\ ForgetsTheFile
    BY <1>1, OrderlyBefore DEF Snapshots
<1>3. PICK e \in Exports :
        /\ exports' = [exports EXCEPT ![e] = "kept"]
        /\ call' = [call EXCEPT ![c].pc = "states", ![c].state = InitialState(e)]
    BY DEF CreateSourceSnapshot
<1> DEFINE r == [call[c] EXCEPT !.pc = "states", !.state = InitialState(e)]
<1>4. InitialState(e).export = e
    BY DEF InitialState
<1>5. r.op = "start" /\ r.pc = "states" /\ r.state.export = e
    BY <1>1, <1>4 DEF Call
<1>6. call' = [call EXCEPT ![c] = r]
    BY <1>3 DEF Base
<1> HIDE DEF r
<1>7. call'[c] = r /\ \A d \in Calls \ {c} : call'[d] = call[d]
    BY <1>6, CallBecomes
<1>8. \A d \in Calls \ {c} : ~Creating(d) /\ ~Forgetting(d) /\ ~Transfers(d)
    BY <1>1, <1>2 DEF CreatesAlone, Creating
<1>9. KeptIsKnown'
  <2>1. \A x \in Exports : exports'[x] = "kept" => x = e \/ exports[x] = "kept"
      BY <1>3 DEF Base
  <2>2. \A x \in Exports : exports[x] = "kept" => file # Nil /\ file.export = x
      BY <1>1, <1>2, <1>8 DEF KeptIsKnown, Creating
  <2> QED
      BY <1>1, <1>5, <1>7, <2>1, <2>2 DEF KeptIsKnown
<1>10. TransfersTheFile'
    BY <1>5, <1>7, <1>8 DEF TransfersTheFile
<1>11. CreatesAlone'
    BY <1>1, <1>2, <1>5, <1>7, <1>8 DEF CreatesAlone, Creating, Forgetting
<1>12. ForgetsOnce' /\ ForgetsTheFile'
    BY <1>5, <1>7, <1>8 DEF ForgetsOnce, ForgetsTheFile, Forgetting
<1> QED
    BY <1>9, <1>10, <1>11, <1>12

\* A transfer of state s begins: no other is under way, and every kept snapshot is that of s.
LEMMA RunSnapshots ==
    ASSUME Base, Snapshots, NEW c \in Calls, NEW s, Run(c, s), s # Nil,
           history \subseteq history', UNCHANGED exports,
           OrderlyCalls' => \A d \in Calls \ {c} : ~Transfers(d) /\ ~Creating(d),
           OrderlyCalls' => \A d \in Calls \ {c} : Forgetting(d) /\ call[d].pc # "wait" =>
                                                     s.export = Held(d).export,
           OrderlyCalls' => \A e \in Exports : exports[e] = "kept" => s.export = e
    PROVE  Snapshots'
<1> SUFFICES ASSUME OrderlyCalls'
             PROVE  KeptIsKnown' /\ TransfersTheFile' /\ CreatesAlone' /\ ForgetsOnce' /\ ForgetsTheFile'
    BY DEF Snapshots
<1> DEFINE pc == IF s.deleted THEN "end" ELSE IF s.session = Nil THEN "session" ELSE "page"
           r == [op |-> "transfer", state |-> s, attempt |-> 1, page |-> s.cursor, pc |-> pc]
<1>1. KeptIsKnown /\ TransfersTheFile /\ CreatesAlone /\ ForgetsOnce /\ ForgetsTheFile
    BY OrderlyBefore DEF Snapshots
<1>2. call' = [call EXCEPT ![c] = r] /\ file' = s /\ runningCall' = c
    BY DEF Run
<1>3. r.op = "transfer" /\ r.state = s /\ r.pc \notin {"snapshot", "states"}
    OBVIOUS
<1> HIDE DEF pc, r
<1>4. call'[c] = r /\ \A d \in Calls \ {c} : call'[d] = call[d]
    BY <1>2, CallBecomes
<1>5. KeptIsKnown'
  <2>1. \A e \in Exports : exports[e] = "kept" => s.export = e
      OBVIOUS
  <2>2. exports' = exports /\ file' = s /\ s # Nil
      BY <1>2
  <2> QED
      BY ONLY <2>1, <2>2 DEF KeptIsKnown
<1>6. TransfersTheFile'
    BY <1>2, <1>3, <1>4 DEF TransfersTheFile
<1>7. CreatesAlone'
    BY <1>3, <1>4 DEF CreatesAlone, Creating
<1>8. ForgetsOnce'
    BY <1>1, <1>3, <1>4 DEF ForgetsOnce, Forgetting
<1>9. ForgetsTheFile'
    BY <1>2, <1>3, <1>4 DEF ForgetsTheFile, Forgetting
<1> QED
    BY <1>5, <1>6, <1>7, <1>8, <1>9

LEMMA StartTransferSnapshots == ASSUME Base, Snapshots, NEW c \in Calls, StartTransfer(c) PROVE Snapshots'
<1>1. Run(c, Held(c)) /\ UNCHANGED exports /\ call[c].pc = "states" /\ Held(c) # Nil
    BY CallFacts DEF StartTransfer, CallOK
<1>2. history \subseteq history'
    BY DEF StartTransfer, Note
<1>3. ASSUME OrderlyCalls'
      PROVE  /\ \A d \in Calls \ {c} : ~Transfers(d) /\ ~Creating(d) /\ ~Forgetting(d)
             /\ \A e \in Exports : exports[e] = "kept" => Held(c).export = e
  <2>1. KeptIsKnown /\ CreatesAlone
      BY <1>2, <1>3, OrderlyBefore DEF Snapshots
  <2>2. \A d \in Calls \ {c} : ~Transfers(d) /\ ~Creating(d) /\ ~Forgetting(d)
      BY <1>1, <2>1 DEF CreatesAlone, Creating
  <2>3. file # Nil => exports[file.export] = "deleted"
      BY <1>1, <2>1 DEF CreatesAlone, Creating, Base, Truthful
  <2>4. \A e \in Exports : exports[e] = "kept" => Held(c).export = e
      BY <2>1, <2>2, <2>3 DEF KeptIsKnown, Creating
  <2> QED
      BY <2>2, <2>4
<1> QED
    BY <1>1, <1>2, <1>3, RunSnapshots

LEMMA ResumeSnapshots == ASSUME Base, Snapshots, NEW c \in Calls, Resume(c) PROVE Snapshots'
<1>1. UNCHANGED exports /\ runningCall = Nil
    BY DEF Resume
<1>2. history \subseteq history'
    BY DEF Resume, Note
<1>3. CASE file = Nil \/ ~Unfinished
    BY <1>1, <1>2, <1>3, NoCallSnapshots DEF Resume
<1>4. CASE ~(file = Nil \/ ~Unfinished)
  <2> DEFINE s == [file EXCEPT !.phase = "uploading"]
  <2>1. file \in State /\ Unfinished
      BY <1>4 DEF Base, Truthful
  <2>2. s \in State /\ s.export = file.export
      BY <2>1 DEF State, Phases, Active
  <2>3. s # Nil /\ Run(c, s)
      BY <2>2, <1>4, Constants DEF Resume
  <2> HIDE DEF s
  <2>4. ASSUME OrderlyCalls'
        PROVE  /\ \A d \in Calls \ {c} : ~Transfers(d) /\ ~Creating(d)
               /\ \A d \in Calls \ {c} : Forgetting(d) /\ call[d].pc # "wait" => s.export = Held(d).export
               /\ \A e \in Exports : exports[e] = "kept" => s.export = e
    <3>1. KeptIsKnown /\ TransfersTheFile /\ CreatesAlone /\ ForgetsTheFile
        BY <1>2, <2>4, OrderlyBefore DEF Snapshots
    <3>2. \A d \in Calls : ~Creating(d)
        BY <2>1, <3>1 DEF CreatesAlone, Unfinished
    <3>3. \A d \in Calls : ~Transfers(d)
        BY <1>1, <3>1, Constants DEF TransfersTheFile
    <3>4. \A e \in Exports : exports[e] = "kept" => s.export = e
        BY <2>2, <3>1, <3>2 DEF KeptIsKnown, Creating
    <3>5. \A d \in Calls : Forgetting(d) /\ call[d].pc # "wait" => s.export = Held(d).export
        BY <2>2, <3>1 DEF ForgetsTheFile
    <3> QED
        BY <3>2, <3>3, <3>4, <3>5
  <2> QED
      BY <1>1, <1>2, <2>3, <2>4, RunSnapshots
<1> QED
    BY <1>3, <1>4

\* A forget that begins is the only call, unless it is noted.
LEMMA ForgetSnapshots == ASSUME Base, Snapshots, NEW c \in Calls, Forget(c) PROVE Snapshots'
<1> SUFFICES ASSUME OrderlyCalls'
             PROVE  KeptIsKnown' /\ TransfersTheFile' /\ CreatesAlone' /\ ForgetsOnce' /\ ForgetsTheFile'
    BY DEF Snapshots
<1> DEFINE r == [NoCall EXCEPT !.op = "forget", !.pc = "wait"]
<1>1. r.op = "forget" /\ r.pc = "wait"
    BY DEF NoCall
<1>2. call' = [call EXCEPT ![c] = r] /\ UNCHANGED <<file, exports, runningCall>>
    BY DEF Forget
<1> HIDE DEF r
<1>3. call'[c] = r /\ \A d \in Calls \ {c} : call'[d] = call[d]
    BY <1>2, CallBecomes
<1>4. history \subseteq history'
    BY DEF Forget, Note
<1>5. KeptIsKnown
    BY <1>4, OrderlyBefore DEF Snapshots
<1>6. \A d \in Calls : call[d].op \in {"none", "index"}
  <2>1. "forget" \notin history'
      BY DEF OrderlyCalls
  <2>2. \A d \in Calls : call[d].op \notin {"start", "transfer", "forget"}
      BY <2>1 DEF Forget, Note
  <2> QED
      BY <2>2, CallFacts DEF Call, Op
<1>7. \A d \in Calls : call[d].pc \in {"none", "index"}
    BY <1>6, CallFacts, NoCallFacts DEF CallOK
<1>8. KeptIsKnown'
    BY <1>2, <1>5, <1>7 DEF KeptIsKnown
<1>9. TransfersTheFile' /\ CreatesAlone'
    BY <1>1, <1>3, <1>6, <1>7 DEF TransfersTheFile, CreatesAlone, Creating
<1>10. ForgetsOnce' /\ ForgetsTheFile'
    BY <1>1, <1>3, <1>6 DEF ForgetsOnce, ForgetsTheFile, Forgetting
<1> QED
    BY <1>8, <1>9, <1>10

\* A forget that moves on, and holds the state of the file.
LEMMA ForgetSteps ==
    ASSUME Base, Snapshots, NEW c \in Calls, NEW r, call' = [call EXCEPT ![c] = r],
           call[c].op = "forget", r.op = "forget", r.pc \in {"close", "delete"},
           OrderlyCalls => file # Nil /\ file.export = r.state.export,
           UNCHANGED <<file, exports, runningCall, history>>
    PROVE  Snapshots'
<1> SUFFICES ASSUME OrderlyCalls'
             PROVE  KeptIsKnown' /\ TransfersTheFile' /\ CreatesAlone' /\ ForgetsOnce' /\ ForgetsTheFile'
    BY DEF Snapshots
<1>1. OrderlyCalls /\ KeptIsKnown /\ TransfersTheFile /\ CreatesAlone /\ ForgetsOnce /\ ForgetsTheFile
    BY OrderlyBefore DEF Snapshots
<1>2. call'[c] = r /\ \A d \in Calls \ {c} : call'[d] = call[d]
    BY CallBecomes
<1>3. call[c].pc # "states"
    BY CallFacts
<1>4. KeptIsKnown'
    BY <1>1, <1>2, <1>3 DEF KeptIsKnown
<1>5. TransfersTheFile'
    BY <1>1, <1>2 DEF TransfersTheFile
<1>6. CreatesAlone'
    BY <1>1, <1>2, <1>3 DEF CreatesAlone, Creating, Forgetting
<1>7. ForgetsOnce' /\ ForgetsTheFile'
    BY <1>1, <1>2 DEF ForgetsOnce, ForgetsTheFile, Forgetting
<1> QED
    BY <1>4, <1>5, <1>6, <1>7

\* A forget that ends leaves no snapshot that is kept: those of the file are the one it held.
LEMMA ForgetEnds ==
    ASSUME Base, Snapshots, NEW c \in Calls, call' = [call EXCEPT ![c] = NoCall],
           call[c].op = "forget", file' = Nil, UNCHANGED runningCall, history \subseteq history',
           OrderlyCalls' => \A e \in Exports : exports'[e] # "kept"
    PROVE  Snapshots'
<1> SUFFICES ASSUME OrderlyCalls'
             PROVE  KeptIsKnown' /\ TransfersTheFile' /\ CreatesAlone' /\ ForgetsOnce' /\ ForgetsTheFile'
    BY DEF Snapshots
<1>1. KeptIsKnown /\ TransfersTheFile /\ CreatesAlone /\ ForgetsOnce /\ ForgetsTheFile
    BY OrderlyBefore DEF Snapshots
<1>2. call'[c] = NoCall /\ \A d \in Calls \ {c} : call'[d] = call[d]
    BY CallBecomes
<1>3. \A d \in Calls : ~Creating(d)
    BY <1>1, CallFacts DEF CreatesAlone, Creating, Forgetting
<1>4. \A d \in Calls \ {c} : ~Forgetting(d)
    BY <1>1 DEF ForgetsOnce, Forgetting
<1>5. KeptIsKnown'
    BY DEF KeptIsKnown
<1>6. TransfersTheFile'
    BY <1>1, <1>2, NoCallFacts DEF TransfersTheFile
<1>7. CreatesAlone'
    BY <1>2, <1>3, NoCallFacts DEF CreatesAlone, Creating
<1>8. ForgetsOnce' /\ ForgetsTheFile'
    BY <1>2, <1>4, NoCallFacts DEF ForgetsOnce, ForgetsTheFile, Forgetting
<1> QED
    BY <1>5, <1>6, <1>7, <1>8

LEMMA ForgetLoadsSnapshots == ASSUME Base, Snapshots, NEW c \in Calls, ForgetLoads(c) PROVE Snapshots'
<1>1. /\ call[c] \in Call /\ call[c].op = "forget" /\ call[c].pc = "wait"
      /\ UNCHANGED <<file, exports, runningCall, history>>
    BY CallFacts DEF ForgetLoads
<1>2. CASE file = Nil
  <2>1. call' = [call EXCEPT ![c] = NoCall]
      BY <1>2 DEF ForgetLoads
  <2>2. ASSUME OrderlyCalls', NEW e \in Exports PROVE exports'[e] # "kept"
    <3>1. KeptIsKnown /\ CreatesAlone
        BY <1>1, <2>2, OrderlyBefore DEF Snapshots
    <3>2. \A d \in Calls : ~Creating(d)
        BY <1>1, <3>1, CallFacts DEF CreatesAlone, Creating, Forgetting
    <3> QED
        BY <1>1, <1>2, <3>1, <3>2 DEF KeptIsKnown, Creating
  <2> QED
      BY <1>1, <1>2, <2>1, <2>2, ForgetEnds
<1>3. CASE file # Nil
  <2> DEFINE r == [call[c] EXCEPT !.pc = "close", !.state = file]
  <2>1. r.op = "forget" /\ r.pc = "close" /\ r.state = file
      BY <1>1 DEF Call
  <2>2. call' = [call EXCEPT ![c] = r]
      BY <1>3 DEF ForgetLoads, Base
  <2> HIDE DEF r
  <2> QED
      BY <1>1, <1>3, <2>1, <2>2, ForgetSteps
<1> QED
    BY <1>2, <1>3

LEMMA CloseSnapshots == ASSUME Base, Snapshots, NEW c \in Calls, CloseRemoteSession(c) PROVE Snapshots'
<1> DEFINE r == [call[c] EXCEPT !.pc = "delete"]
<1>1. /\ call[c] \in Call /\ call[c].op = "forget" /\ call[c].pc = "close"
      /\ UNCHANGED <<file, exports, runningCall, history>>
    BY CallFacts DEF CloseRemoteSession
<1>2. r.op = "forget" /\ r.pc = "delete" /\ r.state = Held(c)
    BY <1>1 DEF Call
<1>3. call' = [call EXCEPT ![c] = r]
    BY DEF CloseRemoteSession, Base
<1> HIDE DEF r
<1>4. OrderlyCalls => file # Nil /\ file.export = r.state.export
    BY <1>1, <1>2 DEF Snapshots, ForgetsTheFile, Forgetting
<1> QED
    BY <1>1, <1>2, <1>3, <1>4, ForgetSteps

LEMMA DeleteSnapshots == ASSUME Base, Snapshots, NEW c \in Calls, DeleteSourceSnapshot(c) PROVE Snapshots'
<1>1. /\ call[c].op = "forget" /\ call[c].pc = "delete" /\ Truthful(Held(c), session, exports)
      /\ call' = [call EXCEPT ![c] = NoCall] /\ file' = Nil /\ UNCHANGED runningCall
    BY CallFacts DEF DeleteSourceSnapshot, CallOK
<1>2. history \subseteq history'
    BY DEF DeleteSourceSnapshot, Note
<1>3. ASSUME OrderlyCalls', NEW e \in Exports PROVE exports'[e] # "kept"
  <2>1. KeptIsKnown /\ CreatesAlone /\ ForgetsTheFile
      BY <1>2, <1>3, OrderlyBefore DEF Snapshots
  <2>2. \A d \in Calls : ~Creating(d)
      BY <1>1, <2>1, CallFacts DEF CreatesAlone, Creating, Forgetting
  <2>3. exports[e] = "kept" => Held(c).export = e
      BY <1>1, <2>1, <2>2 DEF KeptIsKnown, ForgetsTheFile, Creating, Forgetting
  <2>4. exports' = IF Held(c).deleted THEN exports ELSE [exports EXCEPT ![Held(c).export] = "deleted"]
      BY <1>3 DEF DeleteSourceSnapshot, Note, OrderlyCalls
  <2>5. Held(c).deleted => exports[Held(c).export] = "deleted"
      BY <1>1 DEF Truthful
  <2> QED
      BY <2>3, <2>4, <2>5 DEF Base
<1> QED
    BY <1>1, <1>2, <1>3, ForgetEnds

\* What a request of a transfer does to the snapshots.
LEMMA RequestKeeps ==
    ASSUME Base, NEW c \in Calls, NEW end, NEW n, Requested(c, end, n)
    PROVE  \A e \in Exports : exports'[e] = "kept" => exports[e] = "kept"
BY DEF Requested, Base

LEMMA PersistSnapshots ==
    ASSUME Base, Snapshots, NEW c \in Calls, Transfers(c), NEW s \in State, NEW pc, Persist(c, s, pc),
           pc \notin {"snapshot", "states"}, s.export = Held(c).export,
           \A e \in Exports : exports'[e] = "kept" => exports[e] = "kept",
           UNCHANGED <<runningCall, history>>
    PROVE  Snapshots'
<1> DEFINE r == [call[c] EXCEPT !.state = s, !.pc = pc, !.attempt = 1]
<1>1. call[c] \in Call
    BY CallFacts
<1>2. r.op = "transfer" /\ r.pc = pc /\ r.state = s
    BY <1>1 DEF Call
<1>3. call' = [call EXCEPT ![c] = r] /\ file' = s
    BY DEF Persist, Base
<1> HIDE DEF r
<1> QED
    BY <1>2, <1>3, TransferSnapshots, Constants

LEMMA UploadingSnapshots ==
    ASSUME Base, Snapshots, NEW c \in Calls, Transfers(c), NEW s \in State, NEW page,
           Uploading(c, s, page), s.export = Held(c).export,
           \A e \in Exports : exports'[e] = "kept" => exports[e] = "kept",
           UNCHANGED <<runningCall, history>>
    PROVE  Snapshots'
<1> DEFINE pc == NextRequest(s, page)
           t == [s EXCEPT !.phase = PhaseAt(pc)]
<1>1. PhaseAt(pc) \in Phases
    BY DEF PhaseAt, Phases, Active
<1>2. Persist(c, t, pc) /\ pc \notin {"snapshot", "states"}
    BY DEF Uploading, NextRequest
<1> HIDE DEF pc
<1>3. t \in State /\ t.export = Held(c).export
    BY <1>1 DEF State
<1> HIDE DEF t
<1> QED
    BY <1>2, <1>3, PersistSnapshots

LEMMA SucceedsSnapshots == ASSUME Base, Snapshots, NEW c \in Calls, Succeeds(c) PROVE Snapshots'
<1> DEFINE s == Held(c)
<1>1. PICK end \in BatchEnds(c) \cup {0}, n \in Sessions : Requested(c, end, n) /\ Answered(c, end, n)
    BY DEF Succeeds
<1>2. Transfers(c) /\ UNCHANGED <<runningCall, history>> /\ call[c] \in Call
    BY CallFacts DEF Succeeds
<1>3. s \in State
    BY <1>2, CallFacts DEF Truthful
<1>4. {"syncing", "verifying", "cleaning_snapshot", "uploading"} \subseteq Phases
    BY DEF Phases, Active
<1>5. \A e \in Exports : exports'[e] = "kept" => exports[e] = "kept"
    BY <1>1, RequestKeeps
<1>6. CASE CallAt(c, "session") /\ Uploading(c, [s EXCEPT !.session = n], s.cursor)
  <2>1. [s EXCEPT !.session = n] \in State /\ [s EXCEPT !.session = n].export = s.export
      BY <1>3 DEF State
  <2> QED
      BY <2>1, <1>2, <1>5, <1>6, UploadingSnapshots
<1>7. CASE CallAt(c, "page") /\ Answered(c, end, n)
  <2> DEFINE last == IF PageDone(s) THEN Total ELSE s.cursor + PageSize
             pc == NextRequest(s, last)
             t == [s EXCEPT !.phase = PhaseAt(pc)]
             r == [call[c] EXCEPT !.page = last, !.attempt = 1, !.pc = pc, !.state = t]
  <2>1. call' = [call EXCEPT ![c] = r] /\ file' \in {file, t}
      BY <1>7 DEF Answered, Base
  <2>2. PhaseAt(pc) \in Phases /\ pc \notin {"snapshot", "states"}
      BY <1>4 DEF PhaseAt, NextRequest
  <2> HIDE DEF pc, last
  <2>3. t \in State /\ t.export = s.export
      BY <2>2, <1>3 DEF State
  <2> HIDE DEF t
  <2>4. r.op = "transfer" /\ r.pc = pc /\ r.state = t
      BY <1>2 DEF Call
  <2> HIDE DEF r
  <2>5. t # Nil
      BY <2>3, Constants
  <2> QED
      BY <2>1, <2>2, <2>3, <2>4, <2>5, <1>2, <1>5, TransferSnapshots
<1>8. CASE CallAt(c, "batch") /\ Uploading(c, CheckpointBatch(s, end), call[c].page)
  <2>1. s.cursor \in 0..Total /\ call[c].page \in 0..Total /\ s.cursor < call[c].page
      BY <1>2, <1>3, <1>8, CallFacts DEF TransferOK, Call, State
  <2>2. end \in 0..Total
      BY <2>1, Constants DEF BatchEnds
  <2>3. CheckpointBatch(s, end) \in State /\ CheckpointBatch(s, end).export = s.export
      BY <2>2, <1>3 DEF CheckpointBatch, State
  <2> QED
      BY <2>3, <1>2, <1>5, <1>8, UploadingSnapshots
<1>9. CASE CallAt(c, "sync") /\ Answered(c, end, n)
  <2> DEFINE t == [s EXCEPT !.phase = "syncing"]
             pc == IF s.completed THEN "verify" ELSE "complete"
  <2>1. t \in State /\ t.export = s.export
      BY <1>3, <1>4 DEF State
  <2>2. Persist(c, t, pc) /\ pc \notin {"snapshot", "states"}
      BY <1>9 DEF Answered
  <2> HIDE DEF t, pc
  <2> QED
      BY <2>1, <2>2, <1>2, <1>5, PersistSnapshots
<1>10. CASE CallAt(c, "complete") /\ Answered(c, end, n)
  <2> DEFINE t == [s EXCEPT !.phase = "verifying", !.completed = TRUE]
  <2>1. t \in State /\ t.export = s.export
      BY <1>3, <1>4 DEF State
  <2>2. Persist(c, t, "verify") /\ "verify" \notin {"snapshot", "states"}
      BY <1>10 DEF Answered
  <2> HIDE DEF t
  <2> QED
      BY <2>1, <2>2, <1>2, <1>5, PersistSnapshots
<1>11. CASE CallAt(c, "verify") /\ Answered(c, end, n)
  <2> DEFINE t == [s EXCEPT !.phase = "cleaning_snapshot"]
  <2>1. t \in State /\ t.export = s.export
      BY <1>3, <1>4 DEF State
  <2>2. Persist(c, t, "clean") /\ "clean" \notin {"snapshot", "states"}
      BY <1>11 DEF Answered
  <2> HIDE DEF t
  <2> QED
      BY <2>1, <2>2, <1>2, <1>5, PersistSnapshots
<1>12. CASE CallAt(c, "clean") /\ Answered(c, end, n)
  <2> DEFINE t == [s EXCEPT !.phase = "cleaning_snapshot", !.deleted = TRUE]
  <2>1. t \in State /\ t.export = s.export
      BY <1>3, <1>4 DEF State
  <2>2. Persist(c, t, "end") /\ "end" \notin {"snapshot", "states"}
      BY <1>12 DEF Answered
  <2> HIDE DEF t
  <2> QED
      BY <2>1, <2>2, <1>2, <1>5, PersistSnapshots
<1> QED
    BY <1>1, <1>6, <1>7, <1>8, <1>9, <1>10, <1>11, <1>12 DEF Answered

LEMMA RequestFailsSnapshots == ASSUME Base, Snapshots, NEW c \in Calls, RequestFails(c) PROVE Snapshots'
<1> DEFINE s == Held(c)
<1>1. Transfers(c) /\ Retry(c) /\ UNCHANGED history /\ call[c] \in Call
    BY CallFacts DEF RequestFails
<1>2. s \in State
    BY <1>1, CallFacts DEF Truthful
<1>3. {"retrying", "failed"} \subseteq Phases
    BY DEF Phases, Active, Resumable
<1>4. \A e \in Exports : exports'[e] = "kept" => exports[e] = "kept"
    BY RequestKeeps DEF RequestFails
<1>5. CASE call[c].attempt < MaxAttempts
  <2> DEFINE t == [s EXCEPT !.phase = "retrying"]
             more == call[c].attempt + 1
             r == [call[c] EXCEPT !.state = t, !.attempt = more]
  <2>1. t \in State /\ t.export = s.export
      BY <1>2, <1>3 DEF State
  <2>2. file' = t /\ UNCHANGED runningCall /\ call' = [call EXCEPT ![c] = r]
      BY <1>1, <1>5 DEF Retry, Base
  <2> HIDE DEF t, more
  <2>3. r.op = "transfer" /\ r.pc = call[c].pc /\ r.state = t
      BY <1>1 DEF Call
  <2> HIDE DEF r
  <2>4. call[c].pc \notin {"snapshot", "states"} /\ t # Nil
      BY <1>1, <2>1, CallFacts, Constants
  <2> QED
      BY <2>1, <2>2, <2>3, <2>4, <1>1, <1>4, TransferSnapshots
<1>6. CASE ~(call[c].attempt < MaxAttempts)
  <2> DEFINE t == [s EXCEPT !.phase = "failed"]
  <2>1. t \in State /\ t.export = s.export
      BY <1>2, <1>3 DEF State
  <2>2. file' = t /\ call' = [call EXCEPT ![c] = NoCall]
      BY <1>1, <1>6 DEF Retry
  <2> HIDE DEF t
  <2> QED
      BY <2>1, <2>2, <1>1, <1>4, TransferSnapshots, Constants
<1> QED
    BY <1>5, <1>6

LEMMA SettleSnapshots ==
    ASSUME Base, Snapshots, NEW c \in Calls, Transfers(c), NEW p \in Phases, NEW answer,
           Settle(c, [Held(c) EXCEPT !.phase = p], answer), UNCHANGED history
    PROVE  Snapshots'
<1> DEFINE t == [Held(c) EXCEPT !.phase = p]
<1>1. Held(c) \in State
    BY CallFacts DEF Truthful
<1>2. t \in State /\ t.export = Held(c).export
    BY <1>1 DEF State
<1>3. file' = t /\ call' = [call EXCEPT ![c] = NoCall] /\ UNCHANGED exports
    BY DEF Settle
<1> HIDE DEF t
<1> QED
    BY <1>2, <1>3, TransferSnapshots, Constants

LEMMA WrongCountSnapshots == ASSUME Base, Snapshots, NEW c \in Calls, WrongCount(c) PROVE Snapshots'
<1>1. "failed" \in Phases
    BY DEF Phases, Resumable
<1> QED
    BY <1>1, SettleSnapshots DEF WrongCount

LEMMA TransferEndsSnapshots == ASSUME Base, Snapshots, NEW c \in Calls, TransferEnds(c) PROVE Snapshots'
<1> DEFINE p == IF CallAt(c, "paused") THEN "paused" ELSE "completed"
<1>1. p \in Phases
    BY DEF Phases, Resumable
<1>2. Transfers(c) /\ Settle(c, [Held(c) EXCEPT !.phase = p], <<p>>) /\ UNCHANGED history
    BY DEF TransferEnds
<1> HIDE DEF p
<1> QED
    BY <1>1, <1>2, SettleSnapshots

LEMMA InterruptedIsTheSame ==
    ASSUME Base
    PROVE  \/ Interrupted(file) = file
           \/ /\ file # Nil /\ file.phase # "completed"
              /\ Interrupted(file) # Nil /\ Interrupted(file).export = file.export
<1>1. CASE file # Nil /\ file.phase \in Active
  <2> DEFINE t == [file EXCEPT !.phase = "interrupted"]
  <2>1. file \in State /\ Interrupted(file) = t
      BY <1>1 DEF Base, Truthful, Interrupted
  <2>2. t \in State /\ t.export = file.export
      BY <2>1 DEF State, Phases, Resumable
  <2> HIDE DEF t
  <2> QED
      BY <1>1, <2>1, <2>2, Constants DEF Active
<1>2. CASE ~(file # Nil /\ file.phase \in Active)
    BY <1>2 DEF Interrupted
<1> QED
    BY <1>1, <1>2

LEMMA GetStatusSnapshots == ASSUME Base, Snapshots, GetStatus PROVE Snapshots'
BY InterruptedIsTheSame, NoCallSnapshots DEF GetStatus

LEMMA IndexSnapshots == ASSUME Base, Snapshots, NEW c \in Calls, Index(c) PROVE Snapshots'
<1> DEFINE r == [NoCall EXCEPT !.op = "index", !.pc = "index", !.state = file]
<1>1. r.op = "index" /\ r.pc = "index" /\ call[c].op = "none" /\ call[c].pc = "none"
    BY DEF NoCall, Index
<1>2. call' = [call EXCEPT ![c] = r] /\ UNCHANGED <<file, exports, runningCall, history>>
    BY DEF Index
<1> HIDE DEF r
<1> QED
    BY <1>1, <1>2, IdleCallSnapshots

\* It writes back the state of the migration that the file still holds, or it is noted.
LEMMA IndexQueuedSnapshots == ASSUME Base, Snapshots, NEW c \in Calls, IndexQueued(c) PROVE Snapshots'
<1> DEFINE t == [Held(c) EXCEPT !.queued = TRUE]
<1>1. /\ call[c].op = "index" /\ call[c].pc = "index" /\ Held(c) \in State
      /\ Held(c).phase = "completed"
    BY IndexCallFacts DEF IndexQueued
<1>2. t \in State /\ t.export = Held(c).export /\ t.phase = "completed"
    BY <1>1, QueuedState
<1>3. /\ call' = [call EXCEPT ![c] = NoCall] /\ file' = t /\ UNCHANGED <<exports, runningCall>>
      /\ history \subseteq history'
      /\ file = Nil \/ file.export # Held(c).export => ~OrderlyCalls'
    BY DEF IndexQueued, Note, OrderlyCalls
<1> HIDE DEF t
<1>4. file' # Nil
    BY <1>2, <1>3, Constants
<1> QED
    BY <1>1, <1>2, <1>3, <1>4, NoCallFacts, IdleCallSnapshots

LEMMA IndexFailsSnapshots == ASSUME Base, Snapshots, NEW c \in Calls, IndexFails(c) PROVE Snapshots'
<1>1. call[c].op = "index" /\ call[c].pc = "index"
    BY IndexCallFacts DEF IndexFails
<1>2. call' = [call EXCEPT ![c] = NoCall] /\ UNCHANGED <<file, exports, runningCall, history>>
    BY DEF IndexFails
<1> QED
    BY <1>1, <1>2, NoCallFacts, IdleCallSnapshots

LEMMA CrashSnapshots == ASSUME Base, Snapshots, Crash PROVE Snapshots'
<1> SUFFICES ASSUME OrderlyCalls'
             PROVE  KeptIsKnown' /\ TransfersTheFile' /\ CreatesAlone' /\ ForgetsOnce' /\ ForgetsTheFile'
    BY DEF Snapshots
<1>1. history \subseteq history' /\ \A c \in Calls : call[c].pc # "states"
    BY DEF Crash, Note, OrderlyCalls
<1>2. KeptIsKnown
    BY <1>1, OrderlyBefore DEF Snapshots
<1>3. /\ \A c \in Calls : call'[c].op = "none" /\ call'[c].pc = "none"
      /\ file' = Interrupted(file) /\ exports' = exports
    BY NoCallFacts DEF Crash
<1>4. KeptIsKnown'
    BY <1>1, <1>2, <1>3, InterruptedIsTheSame DEF KeptIsKnown
<1>5. TransfersTheFile' /\ CreatesAlone' /\ ForgetsOnce' /\ ForgetsTheFile'
    BY <1>3 DEF TransfersTheFile, CreatesAlone, ForgetsOnce, ForgetsTheFile, Creating, Forgetting
<1> QED
    BY <1>4, <1>5

LEMMA NextSnapshots == ASSUME Base, Snapshots, [MigrationNext]_migrationVars PROVE Snapshots'
<1>1. CASE UNCHANGED migrationVars
    BY <1>1, NoCallSnapshots DEF migrationVars
<1>2. CASE Pause
  <2>1. history \subseteq history'
      BY <1>2 DEF Pause, Note
  <2> QED
      BY <1>2, <2>1, NoCallSnapshots DEF Pause
<1>3. CASE PanelRenders
    BY <1>3, GetStatusSnapshots, NoCallSnapshots DEF PanelRenders
<1>4. CASE PanelOpens
    BY <1>4, GetStatusSnapshots DEF PanelOpens
<1> QED
    BY <1>1, <1>2, <1>3, <1>4, InspectSnapshots, StartSnapshots, CreateSnapshots, StartTransferSnapshots,
       StartFailsSnapshots, ResumeSnapshots, ForgetSnapshots, ForgetLoadsSnapshots, CloseSnapshots,
       DeleteSnapshots, SucceedsSnapshots, RequestFailsSnapshots, WrongCountSnapshots,
       TransferEndsSnapshots, IndexSnapshots, IndexQueuedSnapshots, IndexFailsSnapshots, CrashSnapshots DEF MigrationNext

-----------------------------------------------------------------------------
(* The migration: the theorems. *)

LEMMA InitBase == ASSUME MigrationInit PROVE Base
<1>1. \A c \in Calls : CallOK(call[c], session, exports)
    BY FreeCallOK DEF MigrationInit
<1>2. session \in [Sessions -> Session] /\ \A n \in Sessions : ~session[n].indexed
    BY DEF MigrationInit, Session
<1> QED
    BY <1>1, <1>2 DEF MigrationInit, Base, Export, Notes

LEMMA InitSnapshots == ASSUME MigrationInit PROVE Snapshots
<1>1. \A c \in Calls : call[c].op = "none" /\ call[c].pc = "none"
    BY NoCallFacts DEF MigrationInit
<1>2. \A e \in Exports : exports[e] # "kept"
    BY DEF MigrationInit
<1> QED
    BY <1>1, <1>2 DEF Snapshots, KeptIsKnown, TransfersTheFile, CreatesAlone, ForgetsOnce,
                      ForgetsTheFile, Creating, Forgetting

LEMMA MigrationStarts == ASSUME MigrationInit PROVE MigrationInv
<1>1. Panel
    BY PhaseFacts, EmptySeq DEF MigrationInit, Panel
<1> QED
    BY <1>1, InitBase, InitSnapshots DEF MigrationInv

LEMMA MigrationKeeps == ASSUME MigrationInv, [MigrationNext]_migrationVars PROVE MigrationInv'
BY NextBase, NextPanel, NextSnapshots DEF MigrationInv

LEMMA MigrationIsTyped == ASSUME MigrationInv PROVE MigrationTypeOK
<1>1. \A c \in Calls : Transfers(c) => Held(c) \in State /\ call[c].attempt \in 1..MaxAttempts
    BY CallFacts DEF MigrationInv, Truthful, TransferOK
<1> QED
    BY <1>1 DEF MigrationInv, Base, Truthful, Export, Session, Notes, MigrationTypeOK

\* No state, session, call or message claims more of a migration than has happened, and
\* overlapping calls are either excluded by the controller or noted.
THEOREM MigrationInductive == MigrationSpec => []MigrationInv
BY MigrationStarts, MigrationKeeps, PTL DEF MigrationSpec

\* Every variable has its type, and a transfer under way holds a state and an attempt
\* within the limit.
THEOREM MigrationTypes == MigrationSpec => []MigrationTypeOK
BY MigrationIsTyped, MigrationInductive, PTL

LEMMA ArchiveIsWhole == MigrationInv => ArchiveArrives
<1> SUFFICES ASSUME Base PROVE ArchiveArrives
    BY DEF MigrationInv
<1>1. CheckpointIsAcknowledged
    BY DEF Base, Truthful, CheckpointIsAcknowledged
<1>2. CompletedIsComplete
    BY DEF Base, Truthful, Whole, Complete, CompletedIsComplete
<1> QED
    BY <1>1, <1>2 DEF ArchiveArrives

\* What the state file counts as transferred is on the server, and a snapshot is removed by
\* the transfer, or messages are indexed, only when every message has arrived: through lost
\* answers, retries, pauses, crashes and overlapping calls.
THEOREM ArchiveIsComplete == MigrationSpec => []ArchiveArrives
BY ArchiveIsWhole, MigrationInductive, PTL

LEMMA RestIsReached == MigrationInv => MigrationRests
<1> SUFFICES ASSUME Base, Panel, Snapshots PROVE MigrationRests
    BY DEF MigrationInv
<1>1. NoOrphanExport
  <2> SUFFICES ASSUME ~UnderWay, OrderlyCalls, NEW e \in Exports, exports[e] = "kept"
               PROVE  file # Nil /\ file.export = e
      BY DEF NoOrphanExport, OrderlyCalls
  <2>1. \A c \in Calls : call[c].pc # "states"
      BY NoCallFacts DEF UnderWay
  <2> QED
      BY <2>1 DEF Snapshots, KeptIsKnown
<1>2. PanelOffersNextStep
  <2>1. ~UnderWay => ~Busy
      BY DEF UnderWay, Busy, NoCall
  <2> QED
      BY <2>1 DEF PanelOffersNextStep, Panel, Rest
<1> QED
    BY <1>1, <1>2 DEF MigrationRests

\* When nothing is under way the only snapshot kept is the state file's, and the panel shows
\* a phase that offers a next step, but for the overlaps and losses that history names.
THEOREM MigrationComesToRest == MigrationSpec => []MigrationRests
BY RestIsReached, MigrationInductive, PTL

-----------------------------------------------------------------------------
(* The scanner: the inductive invariant. *)

ScanState ==
    [pc : {"idle", "jump", "session", "loop", "observe", "flush", "scroll", "final", "finish"},
     resume : BOOLEAN, cancel : BOOLEAN, seen : SUBSET Messages, pending : SUBSET Messages,
     obs : Observation, topId : 0..Newest, confirmed : 0..Confirmations, previous : 0..Newest,
     unchanged : 0..(Stalls - 1), recover : BOOLEAN,
     state : {"none", "running", "waiting-channel", "waiting", "recovering", "retrying", "completed", "stopped"},
     reason : {"none", "completed", "stopped"}]
ChannelView == [here : BOOLEAN, top : Messages, atTop : BOOLEAN]

\* What was noticed is stored or pending; a scan that is not running has nothing pending.
ObservedIsKept ==
    /\ archive \subseteq noticed /\ scan.pending \subseteq noticed /\ scan.seen \subseteq archive
    /\ "pending lost" \notin troubles => noticed \subseteq archive \cup scan.pending
    /\ scan.pc \in {"idle", "jump", "session"} => scan.pending = {}
    /\ scan.pc = "finish" /\ "pending lost" \notin troubles => scan.pending = {}

\* Everything from some message on was noticed, and the page is at most two messages ahead of
\* it: one that is added before the next look, and one that is added after the next scroll.
Reached(lo) ==
    /\ noticed = {m \in Messages : lo <= m}
    /\ lo <= view.top + 2
    /\ scan.pc \in {"flush", "scroll"} => lo <= view.top + 1
    /\ view.here /\ view.atTop => lo <= view.top + 1
    /\ scan.pc \in {"flush", "scroll"} /\ view.here /\ view.atTop => lo <= view.top
NoticedIsGapless == \E lo \in 1..(Newest + 1) : Reached(lo)

\* Another channel is opened at its end; a look at the top has noticed its first message; a
\* scan that goes on has not confirmed it often enough.
LooksAreSound ==
    /\ ~view.here => view.top = Newest
    /\ scan.obs.atTop => scan.obs.top \in noticed
    /\ scan.pc = "jump" => archive # {}
    /\ scan.pc \notin {"final", "finish"} => scan.confirmed < Confirmations

\* A scan that ends without having been stopped has noticed the first message.
EndsAreSound ==
    /\ scan.pc = "final" /\ ~scan.cancel /\ troubles = {} => 1 \in noticed
    /\ scan.reason = "completed" => scan.pc \in {"idle", "finish"}
    /\ scan.reason = "completed" /\ troubles = {} => 1 \in noticed /\ noticed \subseteq archive

ScanInv ==
    /\ ScanTypeOK
    /\ ObservedIsKept /\ NoticedIsGapless /\ LooksAreSound /\ EndsAreSound

-----------------------------------------------------------------------------
(* The scanner: its data. *)

LEMMA Sizes ==
    /\ Newest \in Nat /\ Newest >= 1 /\ BatchSize \in Nat /\ BatchSize >= 1 /\ Stalls \in Nat /\ Stalls >= 1
    /\ Window \in Nat /\ Window >= 2 /\ Confirmations \in Nat /\ Confirmations >= 2
    /\ MaxScans \in Nat /\ MaxScanTroubles \in Nat
BY ScanAssumption

LEMMA ScanTypes ==
    ASSUME ScanTypeOK
    PROVE  /\ view \in ChannelView /\ scan \in ScanState /\ scan.seen \subseteq archive
           /\ archive \subseteq Messages /\ noticed \subseteq Messages
           /\ tally \in [scans : 0..MaxScans, troubles : 0..MaxScanTroubles]
           /\ troubles \subseteq {"slow history", "pending lost"}
BY DEF ScanTypeOK, ChannelView, ScanState

LEMMA ScanTypesAgain ==
    ASSUME view' \in ChannelView, scan' \in ScanState, scan'.seen \subseteq archive',
           archive' \subseteq Messages, noticed' \subseteq Messages,
           tally' \in [scans : 0..MaxScans, troubles : 0..MaxScanTroubles],
           troubles' \subseteq {"slow history", "pending lost"}
    PROVE  ScanTypeOK'
BY DEF ScanTypeOK, ChannelView, ScanState

LEMMA NoScan ==
    /\ NotScanning \in ScanState
    /\ NotScanning.pc = "idle" /\ NotScanning.pending = {} /\ NotScanning.seen = {}
    /\ NotScanning.reason = "none" /\ ~NotScanning.cancel /\ ~NotScanning.obs.atTop
    /\ NotScanning.confirmed < Confirmations
<1>1. NoObservation \in Observation /\ ~NoObservation.atTop
    BY Sizes DEF NoObservation, Observation
<1> HIDE DEF NoObservation, Observation
<1> QED
    BY <1>1, Sizes DEF NotScanning, ScanState

\* A nonempty set of messages has an oldest one.
LEMMA OldestIsFirst ==
    ASSUME NEW S \in SUBSET Messages, S # {}
    PROVE  Oldest(S) \in S /\ \A n \in S : Oldest(S) <= n
<1>0. S \in SUBSET Nat
    BY DEF Messages
<1>1. PICK x \in S : \A y \in S : <<y, x>> \notin OpToRel(<, Nat)
    BY <1>0, NatLessThanWellFounded, WFMin, Zenon
<1>2. ASSUME NEW y \in S PROVE x <= y
  <2>1. ~(y < x)
      BY <1>0, <1>1 DEF OpToRel
  <2> QED
      BY <1>0, <2>1
<1> QED
    BY <1>2 DEF Oldest

\* The messages that the page holds are the next ones before those that were noticed.
LEMMA LoadedIsNext ==
    ASSUME view \in ChannelView, NEW lo \in 1..(Newest + 1), noticed = {m \in Messages : lo <= m}, lo <= view.top + 2
    PROVE  /\ Loaded \subseteq Messages
           /\ ~view.here => Loaded = {}
           /\ view.here => view.top \in Loaded
           /\ view.here => \E l \in 1..(Newest + 1) :
                 l <= view.top /\ noticed \cup Loaded = {m \in Messages : l <= m}
<1>1. view.top \in Messages /\ view.here \in BOOLEAN
    BY DEF ChannelView
<1>2. Loaded \subseteq Messages /\ (~view.here => Loaded = {})
    BY DEF Loaded
<1>3. ASSUME view.here
      PROVE  view.top \in Loaded /\ \E l \in 1..(Newest + 1) :
                 l <= view.top /\ noticed \cup Loaded = {m \in Messages : l <= m}
  <2>1. Loaded = {m \in Messages : view.top <= m /\ m < view.top + Window}
      BY <1>3 DEF Loaded
  <2>2. view.top \in Loaded
      BY <1>1, <2>1, Sizes DEF Messages
  <2>3. CASE lo <= view.top
    <3>1. \A m \in Loaded : lo <= m
        BY <1>1, <2>1, <2>3 DEF Messages
    <3>2. noticed \cup Loaded = noticed
        BY <3>1, <2>1
    <3> QED
        BY <2>2, <2>3, <3>2
  <2>4. CASE ~(lo <= view.top)
    <3>1. \A m \in Messages : view.top <= m => lo <= m \/ m < view.top + Window
        BY <1>1, Sizes DEF Messages
    <3>2. \A m \in Messages : lo <= m => view.top <= m
        BY <1>1, <2>4 DEF Messages
    <3>3. noticed \cup Loaded = {m \in Messages : view.top <= m}
        BY <3>1, <3>2, <2>1
    <3>4. view.top \in 1..(Newest + 1) /\ view.top <= view.top
        BY <1>1, Sizes DEF Messages
    <3> QED
        BY <2>2, <3>3, <3>4
  <2> QED
      BY <2>3, <2>4
<1> QED
    BY <1>2, <1>3

-----------------------------------------------------------------------------
(* The scanner: its steps. *)

ScanPoints == {"idle", "jump", "session", "loop", "observe", "flush", "scroll", "final", "finish"}

LEMMA Moves ==
    ASSUME scan \in ScanState, NEW p \in ScanPoints
    PROVE  /\ GoTo(p) \in ScanState /\ GoTo(p).pc = p
           /\ GoTo(p).cancel = scan.cancel /\ GoTo(p).seen = scan.seen /\ GoTo(p).pending = scan.pending
           /\ GoTo(p).obs = scan.obs /\ GoTo(p).confirmed = scan.confirmed /\ GoTo(p).reason = scan.reason
BY DEF GoTo, ScanState, ScanPoints

LEMMA CountsOn ==
    ASSUME NEW max \in Nat, NEW n \in 0..max, n < max
    PROVE  n + 1 \in 0..max
OBVIOUS

LEMMA ScanTroubleCounts ==
    ASSUME ScanTypeOK, NEW what \in SUBSET {"pending lost"}, ScanTrouble(what)
    PROVE  /\ tally' \in [scans : 0..MaxScans, troubles : 0..MaxScanTroubles]
           /\ troubles' = troubles \cup what /\ troubles' \subseteq {"slow history", "pending lost"}
<1>0. tally.troubles < MaxScanTroubles /\ tally' = [tally EXCEPT !.troubles = tally.troubles + 1]
    BY DEF ScanTrouble
<1>1. tally \in [scans : 0..MaxScans, troubles : 0..MaxScanTroubles] /\ tally.troubles \in 0..MaxScanTroubles
    BY ScanTypes
<1>2. tally' \in [scans : 0..MaxScans, troubles : 0..MaxScanTroubles]
  <2>1. tally.troubles + 1 \in 0..MaxScanTroubles
      BY <1>0, <1>1, Sizes, CountsOn
  <2> QED
      BY <1>0, <1>1, <2>1
<1>3. troubles' = troubles \cup what /\ troubles \subseteq {"slow history", "pending lost"}
    BY ScanTypes DEF ScanTrouble
<1> QED
    BY <1>2, <1>3

LEMMA ScanCounts ==
    ASSUME ScanTypeOK, StartsScan
    PROVE  tally' \in [scans : 0..MaxScans, troubles : 0..MaxScanTroubles]
<1>1. tally \in [scans : 0..MaxScans, troubles : 0..MaxScanTroubles]
    BY ScanTypes
<1> QED
    BY <1>1, Sizes DEF StartsScan

\* Neither the page nor what was noticed has changed.
LEMMA GaplessRests ==
    ASSUME NoticedIsGapless, UNCHANGED <<view, noticed>>,
           scan'.pc \in {"flush", "scroll"} => scan.pc \in {"flush", "scroll"}
    PROVE  NoticedIsGapless'
BY DEF NoticedIsGapless, Reached

\* A scan that is not running any more, or has not begun.
LEMMA NoScanKeeps ==
    ASSUME ScanInv, scan' = NotScanning, UNCHANGED <<view, archive, noticed>>, troubles \subseteq troubles',
           "pending lost" \notin troubles' => scan.pending = {},
           troubles' \subseteq {"slow history", "pending lost"},
           tally' \in [scans : 0..MaxScans, troubles : 0..MaxScanTroubles]
    PROVE  ScanInv'
<1>1. ScanTypeOK /\ ObservedIsKept /\ NoticedIsGapless /\ LooksAreSound
    BY DEF ScanInv
<1>2. ScanTypeOK'
    BY <1>1, ScanTypes, ScanTypesAgain, NoScan
<1>3. ObservedIsKept'
    BY <1>1, NoScan DEF ObservedIsKept
<1>4. NoticedIsGapless'
    BY <1>1, NoScan, GaplessRests
<1>5. LooksAreSound' /\ EndsAreSound'
    BY <1>1, NoScan DEF LooksAreSound, EndsAreSound
<1> QED
    BY <1>2, <1>3, <1>4, <1>5 DEF ScanInv

LEMMA StartScanKeeps == ASSUME ScanInv, NEW resume \in BOOLEAN, StartScan(resume) PROVE ScanInv'
<1> DEFINE next == [NotScanning EXCEPT !.pc = IF resume THEN "jump" ELSE "session", !.resume = resume]
<1>1. /\ scan.pc = "idle" /\ scan' = next /\ (resume => archive # {}) /\ StartsScan
      /\ UNCHANGED <<view, archive, noticed, troubles>>
    BY DEF StartScan, ScanAt
<1>2. ScanTypeOK /\ ObservedIsKept /\ NoticedIsGapless /\ LooksAreSound
    BY DEF ScanInv
<1>3. /\ next \in ScanState /\ next.pc = (IF resume THEN "jump" ELSE "session") /\ next.pending = {}
      /\ next.seen = {} /\ next.reason = "none" /\ ~next.obs.atTop /\ next.confirmed < Confirmations
    BY NoScan DEF ScanState
<1> HIDE DEF next
<1>4. scan'.pc \in {"jump", "session"} /\ (scan'.pc = "jump" => resume)
    BY <1>1, <1>3
<1>5. ScanTypeOK'
    BY <1>1, <1>2, <1>3, ScanTypes, ScanTypesAgain, ScanCounts
<1>6. ObservedIsKept'
    BY <1>1, <1>2, <1>3, <1>4 DEF ObservedIsKept
<1>7. NoticedIsGapless'
    BY <1>1, <1>2, <1>4, GaplessRests
<1>8. LooksAreSound' /\ EndsAreSound'
    BY <1>1, <1>2, <1>3, <1>4 DEF LooksAreSound, EndsAreSound
<1> QED
    BY <1>5, <1>6, <1>7, <1>8 DEF ScanInv

LEMMA StopScanKeeps == ASSUME ScanInv, StopScan PROVE ScanInv'
<1> DEFINE next == [scan EXCEPT !.cancel = TRUE]
<1>1. scan' = next /\ UNCHANGED <<view, archive, noticed, tally, troubles>>
    BY DEF StopScan
<1>2. ScanTypeOK /\ ObservedIsKept /\ NoticedIsGapless /\ LooksAreSound /\ EndsAreSound
    BY DEF ScanInv
<1>3. /\ next \in ScanState /\ next.pc = scan.pc /\ next.pending = scan.pending /\ next.seen = scan.seen
      /\ next.reason = scan.reason /\ next.obs = scan.obs /\ next.confirmed = scan.confirmed /\ next.cancel
    BY <1>2, ScanTypes DEF ScanState
<1> HIDE DEF next
<1>4. ScanTypeOK'
    BY <1>1, <1>2, <1>3, ScanTypes, ScanTypesAgain
<1>5. ObservedIsKept'
    BY <1>1, <1>2, <1>3 DEF ObservedIsKept
<1>6. NoticedIsGapless'
    BY <1>1, <1>2, <1>3, GaplessRests
<1>7. LooksAreSound' /\ EndsAreSound'
    BY <1>1, <1>2, <1>3 DEF LooksAreSound, EndsAreSound
<1> QED
    BY <1>4, <1>5, <1>6, <1>7 DEF ScanInv

\* The messages on display are observed.
LEMMA LoadedIsNoticed ==
    ASSUME ScanInv, noticed' = noticed \cup Loaded, UNCHANGED view
    PROVE  /\ NoticedIsGapless' /\ noticed' \subseteq Messages /\ Loaded \subseteq Messages
           /\ view.here => view.top \in noticed'
<1>1. view \in ChannelView /\ noticed \subseteq Messages /\ LooksAreSound
    BY ScanTypes DEF ScanInv
<1>2. PICK lo \in 1..(Newest + 1) : Reached(lo)
    BY DEF ScanInv, NoticedIsGapless
<1>3. /\ noticed = {m \in Messages : lo <= m} /\ lo <= view.top + 2
      /\ (~view.here => view.top = Newest)
    BY <1>1, <1>2 DEF Reached, LooksAreSound
<1>4. /\ Loaded \subseteq Messages /\ (~view.here => Loaded = {}) /\ (view.here => view.top \in Loaded)
      /\ (view.here => \E l \in 1..(Newest + 1) : l <= view.top /\ noticed \cup Loaded = {m \in Messages : l <= m})
    BY <1>1, <1>3, LoadedIsNext
<1>5. view.top \in Nat /\ Newest \in Nat
    BY <1>1, Sizes DEF ChannelView, Messages
<1>6. CASE view.here
  <2>1. PICK l \in 1..(Newest + 1) : l <= view.top /\ noticed \cup Loaded = {m \in Messages : l <= m}
      BY <1>4, <1>6
  <2>2. Reached(l)'
      BY <2>1, <1>5 DEF Reached
  <2> QED
      BY <1>1, <1>4, <2>2 DEF NoticedIsGapless
<1>7. CASE ~view.here
  <2>1. Reached(lo)'
      BY <1>2, <1>3, <1>4, <1>5, <1>7 DEF Reached
  <2> QED
      BY <1>1, <1>4, <1>7, <2>1 DEF NoticedIsGapless
<1> QED
    BY <1>6, <1>7

LEMMA CaptureKeeps == ASSUME ScanInv, Capture PROVE ScanInv'
<1>1. scan.pc = "idle" /\ StartsScan /\ UNCHANGED <<view, scan, troubles>>
    BY DEF Capture, ScanAt
<1>2. ScanTypeOK /\ ObservedIsKept /\ NoticedIsGapless /\ LooksAreSound /\ EndsAreSound
    BY DEF ScanInv
<1>3. CASE archive' = archive \cup Loaded /\ noticed' = noticed \cup Loaded
  <2>1. NoticedIsGapless' /\ noticed' \subseteq Messages /\ Loaded \subseteq Messages
      BY <1>1, <1>3, LoadedIsNoticed
  <2>2. ScanTypeOK'
      BY <1>1, <1>2, <1>3, <2>1, ScanTypes, ScanTypesAgain, ScanCounts
  <2>3. ObservedIsKept' /\ LooksAreSound' /\ EndsAreSound'
      BY <1>1, <1>2, <1>3 DEF ObservedIsKept, LooksAreSound, EndsAreSound
  <2> QED
      BY <2>1, <2>2, <2>3 DEF ScanInv
<1>4. CASE UNCHANGED <<archive, noticed>>
  <2>1. ScanTypeOK'
      BY <1>1, <1>2, <1>4, ScanTypes, ScanTypesAgain, ScanCounts
  <2>2. ObservedIsKept' /\ LooksAreSound' /\ EndsAreSound'
      BY <1>1, <1>2, <1>4 DEF ObservedIsKept, LooksAreSound, EndsAreSound
  <2>3. NoticedIsGapless'
      BY <1>1, <1>2, <1>4, GaplessRests
  <2> QED
      BY <2>1, <2>2, <2>3 DEF ScanInv
<1> QED
    BY <1>3, <1>4 DEF Capture

\* Only the page changes.
LEMMA PageMoves ==
    ASSUME ScanInv, UNCHANGED <<scan, archive, noticed, tally, troubles>>, view' \in ChannelView,
           ~view'.here => view'.top = Newest, NoticedIsGapless'
    PROVE  ScanInv'
<1>1. ScanTypeOK /\ ObservedIsKept /\ LooksAreSound /\ EndsAreSound
    BY DEF ScanInv
<1>2. ScanTypeOK'
    BY <1>1, ScanTypes, ScanTypesAgain
<1>3. ObservedIsKept' /\ LooksAreSound' /\ EndsAreSound'
    BY <1>1 DEF ObservedIsKept, LooksAreSound, EndsAreSound
<1> QED
    BY <1>2, <1>3 DEF ScanInv

\* The page is at its end, or where something was noticed before.
LEMMA PageJumps ==
    ASSUME ScanInv, UNCHANGED noticed, view' \in ChannelView, ~view'.atTop,
           view'.top = Newest \/ view'.top \in noticed
    PROVE  NoticedIsGapless'
<1>1. PICK lo \in 1..(Newest + 1) : Reached(lo)
    BY DEF ScanInv, NoticedIsGapless
<1>2. lo <= view'.top + 1 /\ view'.top \in Nat
    BY <1>1, Sizes DEF Reached, ChannelView, Messages
<1>3. Reached(lo)'
    BY <1>1, <1>2 DEF Reached
<1> QED
    BY <1>3 DEF NoticedIsGapless

LEMMA ChangeChannelKeeps == ASSUME ScanInv, ChangeChannel PROVE ScanInv'
<1>1. /\ view' = [here |-> ~view.here, top |-> Newest, atTop |-> FALSE]
      /\ UNCHANGED <<scan, archive, noticed, tally, troubles>>
    BY DEF ChangeChannel
<1>2. view' \in ChannelView /\ view'.top = Newest /\ ~view'.atTop
    BY <1>1, Sizes DEF ChannelView, Messages
<1> QED
    BY <1>1, <1>2, PageJumps, PageMoves

LEMMA LoadOlderKeeps == ASSUME ScanInv, LoadOlder PROVE ScanInv'
<1>1. /\ view.here /\ view.atTop /\ view.top > 1 /\ view' = [view EXCEPT !.top = @ - 1, !.atTop = FALSE]
      /\ UNCHANGED <<scan, archive, noticed, tally, troubles>>
    BY DEF LoadOlder
<1>2. view \in ChannelView
    BY ScanTypes DEF ScanInv
<1>3. view' \in ChannelView /\ view'.top = view.top - 1 /\ view'.here /\ ~view'.atTop
  <2>1. view.top - 1 \in Messages
      BY <1>1, <1>2, Sizes DEF ChannelView, Messages
  <2> QED
      BY <1>1, <1>2, <2>1 DEF ChannelView
<1>4. PICK lo \in 1..(Newest + 1) : Reached(lo)
    BY DEF ScanInv, NoticedIsGapless
<1>5. view.top \in Nat /\ view.top >= 1
    BY <1>2 DEF ChannelView, Messages
<1>6. lo <= view'.top + 2 /\ (scan.pc \in {"flush", "scroll"} => lo <= view'.top + 1)
    BY <1>1, <1>3, <1>4, <1>5 DEF Reached
<1>7. Reached(lo)'
    BY <1>1, <1>3, <1>4, <1>6 DEF Reached
<1> QED
    BY <1>1, <1>3, <1>7, PageMoves DEF NoticedIsGapless

LEMMA JumpKeeps == ASSUME ScanInv, Jump PROVE ScanInv'
<1> DEFINE first == Oldest(archive)
<1>1. /\ scan.pc = "jump" /\ view' = [here |-> TRUE, top |-> first, atTop |-> FALSE] /\ scan' = GoTo("session")
      /\ UNCHANGED <<archive, noticed, tally, troubles>>
    BY DEF Jump, ScanAt
<1>2. ScanTypeOK /\ ObservedIsKept /\ LooksAreSound /\ EndsAreSound
    BY DEF ScanInv
<1>3. first \in archive /\ first \in noticed /\ first \in Messages
    BY <1>1, <1>2, ScanTypes, OldestIsFirst DEF LooksAreSound, ObservedIsKept
<1> HIDE DEF first
<1>4. view' \in ChannelView /\ view'.top = first /\ ~view'.atTop /\ view'.here
    BY <1>1, <1>3 DEF ChannelView
<1>5. /\ scan' \in ScanState /\ scan'.pc = "session" /\ scan'.cancel = scan.cancel /\ scan'.seen = scan.seen
      /\ scan'.pending = scan.pending /\ scan'.obs = scan.obs /\ scan'.confirmed = scan.confirmed
      /\ scan'.reason = scan.reason
    BY <1>1, <1>2, ScanTypes, Moves DEF ScanPoints
<1>6. ScanTypeOK'
    BY <1>1, <1>2, <1>4, <1>5, ScanTypes, ScanTypesAgain
<1>7. ObservedIsKept'
    BY <1>1, <1>2, <1>5 DEF ObservedIsKept
<1>8. NoticedIsGapless'
    BY <1>1, <1>3, <1>4, PageJumps
<1>9. LooksAreSound' /\ EndsAreSound'
    BY <1>1, <1>2, <1>4, <1>5 DEF LooksAreSound, EndsAreSound
<1> QED
    BY <1>6, <1>7, <1>8, <1>9 DEF ScanInv

\* A step of the scan that leaves what it knows alone, and does not start to store.
LEMMA ScanMoves ==
    ASSUME ScanInv, UNCHANGED <<view, archive, noticed>>, scan' \in ScanState, ScanTypeOK',
           troubles \subseteq troubles',
           scan'.seen = scan.seen, scan'.pending = scan.pending, scan'.obs = scan.obs,
           scan'.pc \in {"jump", "session", "idle"} => scan.pc \in {"jump", "session", "idle"},
           scan'.pc = "finish" => scan.pending = {},
           scan'.pc \in {"flush", "scroll"} => scan.pc \in {"flush", "scroll"},
           scan'.pc = "jump" => scan.pc = "jump",
           scan'.pc \notin {"final", "finish"} => scan'.confirmed < Confirmations,
           EndsAreSound'
    PROVE  ScanInv'
<1>1. ObservedIsKept /\ NoticedIsGapless /\ LooksAreSound
    BY DEF ScanInv
<1>2. ObservedIsKept'
    BY <1>1 DEF ObservedIsKept
<1>3. NoticedIsGapless'
    BY <1>1, GaplessRests
<1>4. LooksAreSound'
    BY <1>1 DEF LooksAreSound
<1> QED
    BY <1>2, <1>3, <1>4 DEF ScanInv

LEMMA ScannerStartsKeeps == ASSUME ScanInv, ScannerStarts PROVE ScanInv'
<1> DEFINE loop == [scan EXCEPT !.pc = "loop", !.cancel = FALSE, !.state = "running"]
           stopped == [scan EXCEPT !.pc = "finish", !.reason = "stopped"]
<1>1. /\ scan.pc = "session" /\ scan' = (IF view.here THEN loop ELSE stopped)
      /\ UNCHANGED <<view, archive, noticed, tally, troubles>>
    BY DEF ScannerStarts, ScanAt
<1>2. ScanTypeOK /\ ObservedIsKept /\ LooksAreSound /\ EndsAreSound /\ scan \in ScanState
    BY ScanTypes DEF ScanInv
<1>3. /\ loop \in ScanState /\ loop.pc = "loop" /\ loop.seen = scan.seen /\ loop.pending = scan.pending
      /\ loop.obs = scan.obs /\ loop.confirmed = scan.confirmed /\ loop.reason = scan.reason
    BY <1>2 DEF ScanState
<1>4. /\ stopped \in ScanState /\ stopped.pc = "finish" /\ stopped.seen = scan.seen /\ stopped.pending = scan.pending
      /\ stopped.obs = scan.obs /\ stopped.confirmed = scan.confirmed /\ stopped.reason = "stopped"
    BY <1>2 DEF ScanState
<1> HIDE DEF loop, stopped
<1>5. scan.reason # "completed" /\ scan.pending = {} /\ scan.confirmed < Confirmations
    BY <1>1, <1>2 DEF EndsAreSound, ObservedIsKept, LooksAreSound
<1>6. /\ scan' \in ScanState /\ scan'.seen = scan.seen /\ scan'.pending = scan.pending /\ scan'.obs = scan.obs
      /\ scan'.confirmed = scan.confirmed /\ scan'.pc \in {"loop", "finish"} /\ scan'.reason # "completed"
    BY <1>1, <1>3, <1>4, <1>5
<1>7. ScanTypeOK'
    BY <1>1, <1>2, <1>6, ScanTypes, ScanTypesAgain
<1>8. EndsAreSound'
    BY <1>6 DEF EndsAreSound
<1> QED
    BY <1>1, <1>5, <1>6, <1>7, <1>8, ScanMoves

LEMMA ManagedScanFailsKeeps == ASSUME ScanInv, ManagedScanFails PROVE ScanInv'
<1>1. /\ scan.pc \in {"jump", "session"} /\ ScanTrouble({}) /\ scan' = NotScanning
      /\ UNCHANGED <<view, archive, noticed>>
    BY DEF ManagedScanFails
<1>2. ScanTypeOK /\ scan.pending = {}
    BY <1>1 DEF ScanInv, ObservedIsKept
<1>3. troubles' = troubles /\ tally' \in [scans : 0..MaxScans, troubles : 0..MaxScanTroubles]
    BY ZenonT(60), <1>1, <1>2, ScanTroubleCounts
<1>4. troubles' \subseteq {"slow history", "pending lost"}
    BY <1>2, <1>3, ScanTypes
<1> QED
    BY <1>1, <1>2, <1>3, <1>4, NoScanKeeps

LEMMA ScannerCrashesKeeps == ASSUME ScanInv, ScannerCrashes PROVE ScanInv'
<1> DEFINE lost == IF scan.pending # {} THEN {"pending lost"} ELSE {}
<1>1. /\ ScanTrouble(lost) /\ scan' = NotScanning /\ view' = [here |-> FALSE, top |-> Newest, atTop |-> FALSE]
      /\ UNCHANGED <<archive, noticed>>
    BY DEF ScannerCrashes
<1>2. ScanTypeOK /\ ObservedIsKept
    BY DEF ScanInv
<1>3. lost \in SUBSET {"pending lost"}
    OBVIOUS
<1>4. /\ troubles' = troubles \cup lost /\ troubles' \subseteq {"slow history", "pending lost"}
      /\ tally' \in [scans : 0..MaxScans, troubles : 0..MaxScanTroubles]
    BY <1>1, <1>2, <1>3, ScanTroubleCounts
<1>5. view' \in ChannelView /\ view'.top = Newest /\ ~view'.atTop
  <2>1. Newest \in Messages
      BY Sizes DEF Messages
  <2> QED
      BY <1>1, <2>1 DEF ChannelView
<1>6. ScanTypeOK'
    BY <1>1, <1>2, <1>4, <1>5, NoScan, ScanTypes, ScanTypesAgain
<1>7. ObservedIsKept'
    BY <1>1, <1>2, <1>4, NoScan DEF ObservedIsKept
<1>8. NoticedIsGapless'
    BY <1>1, <1>5, PageJumps
<1>9. LooksAreSound' /\ EndsAreSound'
    BY <1>1, <1>5, NoScan DEF LooksAreSound, EndsAreSound
<1> QED
    BY <1>6, <1>7, <1>8, <1>9 DEF ScanInv

LEMMA FinishScanKeeps == ASSUME ScanInv, FinishScan PROVE ScanInv'
<1> DEFINE next == [NotScanning EXCEPT !.state = scan.state, !.reason = scan.reason]
<1>1. scan.pc = "finish" /\ scan' = next /\ UNCHANGED <<view, archive, noticed, tally, troubles>>
    BY DEF FinishScan, ScanAt
<1>2. ScanTypeOK /\ ObservedIsKept /\ NoticedIsGapless /\ LooksAreSound /\ EndsAreSound /\ scan \in ScanState
    BY ScanTypes DEF ScanInv
<1>3. /\ next \in ScanState /\ next.pc = "idle" /\ next.pending = {} /\ next.seen = {}
      /\ next.reason = scan.reason /\ ~next.obs.atTop /\ next.confirmed < Confirmations
    BY <1>2, NoScan DEF ScanState
<1> HIDE DEF next
<1>4. ScanTypeOK'
    BY <1>1, <1>2, <1>3, ScanTypes, ScanTypesAgain
<1>5. ObservedIsKept'
    BY <1>1, <1>2, <1>3 DEF ObservedIsKept
<1>6. NoticedIsGapless'
    BY <1>1, <1>2, <1>3, GaplessRests
<1>7. LooksAreSound' /\ EndsAreSound'
    BY <1>1, <1>2, <1>3 DEF LooksAreSound, EndsAreSound
<1> QED
    BY <1>4, <1>5, <1>6, <1>7 DEF ScanInv

LEMMA LoopTurnKeeps == ASSUME ScanInv, LoopTurn PROVE ScanInv'
<1> DEFINE waiting == [scan EXCEPT !.state = "waiting-channel"]
<1>1. /\ scan.pc = "loop"
      /\ scan' = (IF scan.cancel THEN GoTo("final") ELSE IF view.here THEN GoTo("observe") ELSE waiting)
      /\ UNCHANGED <<view, archive, noticed, tally, troubles>>
    BY DEF LoopTurn, ScanAt
<1>2. ScanTypeOK /\ LooksAreSound /\ EndsAreSound /\ scan \in ScanState
    BY ScanTypes DEF ScanInv
<1>3. /\ waiting \in ScanState /\ waiting.pc = "loop" /\ waiting.seen = scan.seen /\ waiting.pending = scan.pending
      /\ waiting.obs = scan.obs /\ waiting.confirmed = scan.confirmed /\ waiting.reason = scan.reason
      /\ waiting.cancel = scan.cancel
    BY <1>1, <1>2 DEF ScanState
<1> HIDE DEF waiting
<1>4. /\ scan' \in ScanState /\ scan'.seen = scan.seen /\ scan'.pending = scan.pending /\ scan'.obs = scan.obs
      /\ scan'.confirmed = scan.confirmed /\ scan'.reason = scan.reason /\ scan'.cancel = scan.cancel
      /\ scan'.pc \in {"final", "observe", "loop"} /\ (scan'.pc = "final" => scan.cancel)
    BY <1>1, <1>2, <1>3, Moves DEF ScanPoints
<1>5. ScanTypeOK'
    BY <1>1, <1>2, <1>4, ScanTypes, ScanTypesAgain
<1>6. EndsAreSound' /\ scan.confirmed < Confirmations
    BY <1>1, <1>2, <1>4 DEF EndsAreSound, LooksAreSound
<1> QED
    BY <1>1, <1>4, <1>5, <1>6, ScanMoves

LEMMA ScriptInterruptedKeeps ==
    ASSUME ScanInv, ScriptInterrupted({"observe", "scroll"})
    PROVE  ScanInv'
<1>1. /\ scan.pc \in {"observe", "scroll"} /\ scan.cancel /\ scan' = GoTo("final")
      /\ UNCHANGED <<view, archive, noticed, tally, troubles>>
    BY DEF ScriptInterrupted
<1>2. ScanTypeOK /\ EndsAreSound /\ scan \in ScanState
    BY ScanTypes DEF ScanInv
<1>3. /\ scan' \in ScanState /\ scan'.pc = "final" /\ scan'.seen = scan.seen /\ scan'.pending = scan.pending
      /\ scan'.obs = scan.obs /\ scan'.reason = scan.reason /\ scan'.cancel
    BY <1>1, <1>2, Moves DEF ScanPoints
<1>4. ScanTypeOK'
    BY <1>1, <1>2, <1>3, ScanTypes, ScanTypesAgain
<1>5. EndsAreSound'
    BY <1>1, <1>2, <1>3 DEF EndsAreSound
<1> QED
    BY <1>1, <1>3, <1>4, <1>5, ScanMoves

LEMMA ObserveMessagesKeeps == ASSUME ScanInv, ObserveMessages PROVE ScanInv'
<1> DEFINE new == Loaded \ (scan.seen \cup scan.pending)
           obs == [messages |-> new, atTop |-> view.here /\ view.atTop, top |-> IF view.here THEN view.top ELSE 0]
           next == [scan EXCEPT !.pc = "flush", !.obs = obs, !.pending = @ \cup new]
<1>1. /\ scan.pc = "observe" /\ scan' = next /\ noticed' = noticed \cup Loaded
      /\ UNCHANGED <<view, archive, tally, troubles>>
  <2> DEFINE look == [messages |-> Loaded, atTop |-> view.here /\ view.atTop,
                      top |-> IF view.here THEN view.top ELSE 0]
  <2>1. [look EXCEPT !.messages = new] = obs
      OBVIOUS
  <2> QED
      BY <2>1 DEF ObserveMessages, ScanAt
<1>2. /\ ScanTypeOK /\ ObservedIsKept /\ LooksAreSound /\ EndsAreSound /\ scan \in ScanState /\ view \in ChannelView
    BY ScanTypes DEF ScanInv
<1>3. /\ NoticedIsGapless' /\ noticed' \subseteq Messages /\ Loaded \subseteq Messages
      /\ (view.here => view.top \in noticed')
    BY <1>1, LoadedIsNoticed
<1>4. obs \in Observation /\ (obs.atTop => view.here /\ obs.top = view.top)
  <2>1. view.here \in BOOLEAN /\ view.atTop \in BOOLEAN /\ view.top \in 0..Newest /\ new \in SUBSET Messages
    <3>1. view.top \in 0..Newest
        BY <1>2, Sizes DEF ChannelView, Messages
    <3> QED
        BY <1>2, <1>3, <3>1 DEF ChannelView
  <2> HIDE DEF new
  <2> QED
      BY <2>1, Sizes DEF Observation
<1> HIDE DEF obs
<1>5. /\ next \in ScanState /\ next.pc = "flush" /\ next.pending = scan.pending \cup new /\ next.seen = scan.seen
      /\ next.obs = obs /\ next.confirmed = scan.confirmed /\ next.reason = scan.reason
    BY <1>2, <1>3, <1>4 DEF ScanState
<1>6. new \subseteq Loaded /\ Loaded \subseteq archive \cup (scan.pending \cup new)
    BY <1>2 DEF ObservedIsKept
<1> HIDE DEF next, new
<1>7. ScanTypeOK'
    BY <1>1, <1>2, <1>3, <1>5, ScanTypes, ScanTypesAgain
<1>8. ObservedIsKept'
    BY <1>1, <1>2, <1>5, <1>6 DEF ObservedIsKept
<1>9. LooksAreSound'
    BY <1>1, <1>2, <1>3, <1>4, <1>5 DEF LooksAreSound
<1>10. EndsAreSound'
    BY <1>1, <1>2, <1>5 DEF EndsAreSound
<1> QED
    BY <1>3, <1>7, <1>8, <1>9, <1>10 DEF ScanInv

LEMMA ImportBatchKeeps ==
    ASSUME ScanInv, scan.pc \in {"flush", "final"}, NEW force \in BOOLEAN, ImportBatch(force)
    PROVE  ScanInv'
<1> DEFINE next == [scan EXCEPT !.pending = @ \ Batch, !.seen = @ \cup Batch]
<1>1. archive' = archive \cup Batch /\ scan' = next /\ UNCHANGED <<view, noticed, tally, troubles>>
    BY DEF ImportBatch
<1>2. /\ ScanTypeOK /\ ObservedIsKept /\ NoticedIsGapless /\ LooksAreSound /\ EndsAreSound /\ scan \in ScanState
    BY ScanTypes DEF ScanInv
<1>3. Batch \subseteq scan.pending /\ Batch \subseteq Messages
    BY <1>2 DEF Batch, ScanState
<1>4. /\ next \in ScanState /\ next.pc = scan.pc /\ next.pending = scan.pending \ Batch
      /\ next.seen = scan.seen \cup Batch /\ next.obs = scan.obs /\ next.confirmed = scan.confirmed
      /\ next.reason = scan.reason /\ next.cancel = scan.cancel
    BY <1>2, <1>3 DEF ScanState
<1> HIDE DEF next
<1>5. ScanTypeOK'
    BY <1>1, <1>2, <1>3, <1>4, ScanTypes, ScanTypesAgain
<1>6. ObservedIsKept'
    BY <1>1, <1>2, <1>3, <1>4 DEF ObservedIsKept
<1>7. NoticedIsGapless'
    BY <1>1, <1>2, <1>4, GaplessRests
<1>8. LooksAreSound' /\ EndsAreSound'
    BY <1>1, <1>2, <1>4 DEF LooksAreSound, EndsAreSound
<1> QED
    BY <1>5, <1>6, <1>7, <1>8 DEF ScanInv

\* The first message is confirmed only by looks at the top that show the same one.
LEMMA ConfirmedCounts ==
    ASSUME scan \in ScanState, scan.confirmed < Confirmations
    PROVE  /\ Confirmed \in 0..Confirmations
           /\ Confirmed >= Confirmations => scan.obs.atTop /\ scan.obs.top = scan.topId
<1>1. scan.confirmed \in 0..Confirmations /\ Confirmations \in Nat /\ Confirmations >= 2
    BY Sizes DEF ScanState
<1>2. scan.confirmed + 1 \in 0..Confirmations
    BY <1>1, CountsOn
<1>3. Confirmed \in {0, 1, scan.confirmed + 1}
    BY DEF Confirmed
<1>4. Confirmed = 0 \/ Confirmed = 1 \/ (scan.obs.atTop /\ scan.obs.top = scan.topId)
    BY DEF Confirmed
<1> HIDE DEF Confirmed
<1> QED
    BY <1>1, <1>2, <1>3, <1>4

LEMMA UnchangedCounts ==
    ASSUME scan \in ScanState
    PROVE  Unchanged \in 0..Stalls /\ (IF Unchanged = Stalls THEN 0 ELSE Unchanged) \in 0..(Stalls - 1)
<1>1. scan.unchanged \in 0..(Stalls - 1) /\ Stalls \in Nat /\ Stalls >= 1
    BY Sizes DEF ScanState
<1>2. Unchanged = 0 \/ Unchanged = scan.unchanged + 1
    BY DEF Unchanged
<1> HIDE DEF Unchanged
<1>3. Unchanged \in 0..Stalls
    BY <1>1, <1>2
<1>4. CASE Unchanged = Stalls
    BY <1>1, <1>3, <1>4
<1>5. CASE Unchanged # Stalls
    BY <1>1, <1>3, <1>5
<1> QED
    BY <1>4, <1>5

LEMMA ProcessObservationKeeps == ASSUME ScanInv, ProcessObservation PROVE ScanInv'
<1> DEFINE topId == IF scan.obs.atTop THEN scan.obs.top ELSE 0
           stalls == IF Unchanged = Stalls THEN 0 ELSE Unchanged
           state == IF scan.obs.atTop THEN "waiting" ELSE "running"
           next == [scan EXCEPT !.topId = topId, !.confirmed = Confirmed]
           monitored == [next EXCEPT !.previous = scan.obs.top, !.unchanged = stalls]
           completed == [next EXCEPT !.pc = "final", !.state = "completed"]
           recovering == [monitored EXCEPT !.recover = TRUE, !.state = "recovering"]
           scrolling == [monitored EXCEPT !.pc = "scroll", !.state = state]
           slow == IF scan'.state = "completed" /\ scan.obs.top = scan.topId /\ scan.topId > 1
                   THEN {"slow history"} ELSE {}
<1>1. /\ scan.pc = "flush" /\ troubles' = troubles \cup slow /\ UNCHANGED <<view, archive, noticed, tally>>
      /\ scan' = (IF Confirmed >= Confirmations THEN completed
                  ELSE IF Unchanged = Stalls THEN recovering ELSE scrolling)
    BY DEF ProcessObservation, ScanAt
<1>2. /\ ScanTypeOK /\ ObservedIsKept /\ NoticedIsGapless /\ LooksAreSound /\ EndsAreSound /\ scan \in ScanState
      /\ troubles \subseteq {"slow history", "pending lost"} /\ noticed \subseteq Messages
    BY ScanTypes DEF ScanInv
<1>3. /\ Confirmed \in 0..Confirmations
      /\ (Confirmed >= Confirmations => scan.obs.atTop /\ scan.obs.top = scan.topId)
    BY <1>1, <1>2, ConfirmedCounts DEF LooksAreSound
<1>4. stalls \in 0..(Stalls - 1) /\ scan.obs.top \in 0..Newest /\ topId \in 0..Newest
    <2>1. scan.obs \in Observation
        BY <1>2 DEF ScanState
    <2>2. scan.obs.top \in 0..Newest
        BY <2>1 DEF Observation
    <2>3. topId \in 0..Newest
        BY <2>2, Sizes
    <2> QED
        BY <1>2, <2>2, <2>3, UnchangedCounts
<1> HIDE DEF topId, stalls
<1>5. next \in ScanState /\ next.pc = "flush" /\ next.confirmed = Confirmed /\ next.seen = scan.seen
      /\ next.pending = scan.pending /\ next.obs = scan.obs /\ next.reason = scan.reason
    BY <1>1, <1>2, <1>3, <1>4 DEF ScanState
<1> HIDE DEF next
<1>6. monitored \in ScanState /\ monitored.pc = "flush" /\ monitored.confirmed = Confirmed
      /\ monitored.seen = scan.seen /\ monitored.pending = scan.pending /\ monitored.obs = scan.obs
      /\ monitored.reason = scan.reason
    BY <1>4, <1>5 DEF ScanState
<1> HIDE DEF monitored
<1>7. completed \in ScanState /\ completed.pc = "final" /\ completed.state = "completed"
      /\ completed.seen = scan.seen /\ completed.pending = scan.pending /\ completed.obs = scan.obs
      /\ completed.reason = scan.reason
    BY <1>5 DEF ScanState
<1>8. recovering \in ScanState /\ recovering.pc = "flush" /\ recovering.confirmed = Confirmed
      /\ recovering.seen = scan.seen /\ recovering.pending = scan.pending /\ recovering.obs = scan.obs
      /\ recovering.reason = scan.reason
    BY <1>6 DEF ScanState
<1>9. scrolling \in ScanState /\ scrolling.pc = "scroll" /\ scrolling.confirmed = Confirmed
      /\ scrolling.seen = scan.seen /\ scrolling.pending = scan.pending /\ scrolling.obs = scan.obs
      /\ scrolling.reason = scan.reason
    BY <1>6 DEF ScanState
<1> HIDE DEF completed, recovering, scrolling
<1>10. /\ scan' \in ScanState /\ scan'.pc \in {"flush", "scroll", "final"} /\ scan'.seen = scan.seen
       /\ scan'.pending = scan.pending /\ scan'.obs = scan.obs /\ scan'.reason = scan.reason
       /\ scan'.reason # "completed"
  <2>1. scan.reason # "completed"
      BY <1>1, <1>2 DEF EndsAreSound
  <2> QED
      BY <1>1, <1>7, <1>8, <1>9, <2>1
<1>11. scan'.pc # "final" => scan'.confirmed = Confirmed /\ ~(Confirmed >= Confirmations)
    BY <1>1, <1>7, <1>8, <1>9
<1>12. scan'.pc \notin {"final", "finish"} => scan'.confirmed < Confirmations
    BY <1>3, <1>11, Sizes
<1>13. troubles \subseteq troubles' /\ troubles' \subseteq {"slow history", "pending lost"}
    BY <1>1, <1>2
<1>14. ASSUME scan'.pc = "final", troubles' = {} PROVE 1 \in noticed
  <2>1. Confirmed >= Confirmations /\ scan'.state = "completed"
      BY <1>1, <1>7, <1>8, <1>9, <1>14
  <2>2. scan.obs.atTop /\ scan.obs.top = scan.topId /\ slow = {}
      BY <1>1, <1>3, <1>14, <2>1
  <2>3. ~(scan.topId > 1)
      BY <2>1, <2>2
  <2>4. scan.obs.top \in noticed /\ scan.obs.top \in 1..Newest
      BY <1>2, <2>2 DEF LooksAreSound, Messages
  <2>5. scan.obs.top = 1
    <3>1. ~(scan.obs.top > 1)
        BY <2>2, <2>3, Zenon
    <3>2. \A n \in 1..Newest : ~(n > 1) => n = 1
        BY Sizes
    <3> QED
        BY <2>4, <3>1, <3>2
  <2> QED
      BY <2>4, <2>5
<1>15. ScanTypeOK'
    BY <1>1, <1>2, <1>10, <1>13, ScanTypes, ScanTypesAgain
<1>16. EndsAreSound'
    BY <1>1, <1>10, <1>14 DEF EndsAreSound
<1> QED
    BY <1>1, <1>10, <1>12, <1>13, <1>15, <1>16, ScanMoves

LEMMA RecoverStalledScanKeeps == ASSUME ScanInv, RecoverStalledScan PROVE ScanInv'
<1>1. scan.pc = "flush" /\ scan' = GoTo("scroll") /\ UNCHANGED <<view, archive, noticed, tally, troubles>>
    BY DEF RecoverStalledScan, ScanAt
<1>2. ScanTypeOK /\ LooksAreSound /\ EndsAreSound /\ scan \in ScanState
    BY ScanTypes DEF ScanInv
<1>3. /\ scan' \in ScanState /\ scan'.pc = "scroll" /\ scan'.seen = scan.seen /\ scan'.pending = scan.pending
      /\ scan'.obs = scan.obs /\ scan'.reason = scan.reason /\ scan'.confirmed = scan.confirmed
    BY <1>1, <1>2, Moves DEF ScanPoints
<1>4. ScanTypeOK'
    BY <1>1, <1>2, <1>3, ScanTypes, ScanTypesAgain
<1>5. EndsAreSound' /\ scan.confirmed < Confirmations
    BY <1>1, <1>2, <1>3 DEF EndsAreSound, LooksAreSound
<1> QED
    BY <1>1, <1>3, <1>4, <1>5, ScanMoves

LEMMA ScrollAndWaitKeeps == ASSUME ScanInv, ScrollAndWait PROVE ScanInv'
<1> DEFINE next == [scan EXCEPT !.pc = "loop", !.recover = FALSE]
<1>1. scan.pc = "scroll" /\ scan' = next /\ UNCHANGED <<archive, noticed, tally, troubles>>
    BY DEF ScrollAndWait, ScanAt
<1>2. /\ ScanTypeOK /\ ObservedIsKept /\ LooksAreSound /\ EndsAreSound /\ scan \in ScanState /\ view \in ChannelView
    BY ScanTypes DEF ScanInv
<1>3. view' \in ChannelView /\ view'.top = view.top /\ view'.here = view.here
  <2>1. PICK atTop \in {TRUE, view.atTop \/ scan.recover} : view' = [view EXCEPT !.atTop = atTop]
      BY DEF ScrollAndWait
  <2>2. atTop \in BOOLEAN
      BY <2>1
  <2> QED
      BY <1>2, <2>1, <2>2 DEF ChannelView
<1>4. /\ next \in ScanState /\ next.pc = "loop" /\ next.pending = scan.pending /\ next.seen = scan.seen
      /\ next.obs = scan.obs /\ next.confirmed = scan.confirmed /\ next.reason = scan.reason
    BY <1>2 DEF ScanState
<1> HIDE DEF next
<1>5. ScanTypeOK'
    BY <1>1, <1>2, <1>3, <1>4, ScanTypes, ScanTypesAgain
<1>6. ObservedIsKept'
    BY <1>1, <1>2, <1>4 DEF ObservedIsKept
<1>7. NoticedIsGapless'
  <2>1. PICK lo \in 1..(Newest + 1) : Reached(lo)
      BY DEF ScanInv, NoticedIsGapless
  <2>2. scan'.pc = "loop" /\ UNCHANGED noticed
      BY <1>1, <1>4
  <2>3. scan.pc = "scroll"
      BY <1>1
  <2>4. Reached(lo)'
      BY <1>3, <2>1, <2>2, <2>3 DEF Reached
  <2> QED
      BY <2>4 DEF NoticedIsGapless
<1>8. LooksAreSound' /\ EndsAreSound'
    BY <1>1, <1>2, <1>3, <1>4 DEF LooksAreSound, EndsAreSound
<1> QED
    BY <1>5, <1>6, <1>7, <1>8 DEF ScanInv

LEMMA WaitAfterErrorKeeps == ASSUME ScanInv, WaitAfterError PROVE ScanInv'
<1> DEFINE next == [scan EXCEPT !.pc = "loop", !.recover = FALSE, !.state = "retrying"]
<1>1. /\ scan.pc \in {"observe", "flush", "scroll"} /\ ScanTrouble({}) /\ scan' = next /\ UNCHANGED <<view, noticed>>
      /\ (archive' = archive \/ archive' = archive \cup Batch)
    BY DEF WaitAfterError
<1>2. /\ ScanTypeOK /\ ObservedIsKept /\ NoticedIsGapless /\ LooksAreSound /\ EndsAreSound /\ scan \in ScanState
      /\ archive \subseteq Messages
    BY ScanTypes DEF ScanInv
<1>3. troubles' = troubles /\ tally' \in [scans : 0..MaxScans, troubles : 0..MaxScanTroubles]
  <2>1. ScanTypeOK /\ ScanTrouble({}) /\ {} \in SUBSET {"pending lost"}
      BY <1>2 DEF WaitAfterError
  <2> QED
      BY <2>1, ScanTroubleCounts
<1>4. /\ next \in ScanState /\ next.pc = "loop" /\ next.pending = scan.pending /\ next.seen = scan.seen
      /\ next.obs = scan.obs /\ next.confirmed = scan.confirmed /\ next.reason = scan.reason
    BY <1>2 DEF ScanState
<1> HIDE DEF next
<1>5. archive \subseteq archive' /\ archive' \subseteq archive \cup scan.pending /\ archive' \subseteq Messages
  <2>1. Batch \subseteq scan.pending /\ scan.pending \subseteq Messages
      BY <1>2 DEF Batch, ScanState
  <2> QED
      BY <1>1, <1>2, <2>1
<1>6. ScanTypeOK'
    BY <1>1, <1>2, <1>3, <1>4, <1>5, ScanTypes, ScanTypesAgain
<1>7. ObservedIsKept'
    BY <1>1, <1>2, <1>3, <1>4, <1>5 DEF ObservedIsKept
<1>8. NoticedIsGapless'
    BY <1>1, <1>2, <1>4, GaplessRests
<1>9. LooksAreSound' /\ EndsAreSound'
    BY <1>1, <1>2, <1>4 DEF LooksAreSound, EndsAreSound
<1> QED
    BY <1>6, <1>7, <1>8, <1>9 DEF ScanInv

LEMMA ScannerEndsKeeps == ASSUME ScanInv, ScannerEnds PROVE ScanInv'
<1> DEFINE state == IF scan.cancel THEN "stopped" ELSE "completed"
           next == [scan EXCEPT !.pc = "finish", !.state = state, !.reason = state]
<1>1. scan.pc = "final" /\ scan.pending = {} /\ scan' = next /\ UNCHANGED <<view, archive, noticed, tally, troubles>>
    BY DEF ScannerEnds, ScanAt, MustFlush
<1>2. ScanTypeOK /\ ObservedIsKept /\ EndsAreSound /\ scan \in ScanState
    BY ScanTypes DEF ScanInv
<1>3. /\ next \in ScanState /\ next.pc = "finish" /\ next.pending = scan.pending /\ next.seen = scan.seen
      /\ next.obs = scan.obs /\ next.reason = state
    BY <1>2 DEF ScanState
<1> HIDE DEF next
<1>4. ScanTypeOK'
    BY <1>1, <1>2, <1>3, ScanTypes, ScanTypesAgain
<1>5. scan'.reason = "completed" => ~scan.cancel
    BY <1>1, <1>3
<1>6. troubles = {} => noticed \subseteq archive
    BY <1>1, <1>2 DEF ObservedIsKept
<1>7. EndsAreSound'
    BY <1>1, <1>2, <1>3, <1>5, <1>6 DEF EndsAreSound
<1> QED
    BY <1>1, <1>3, <1>4, <1>7, ScanMoves

LEMMA FinalFlushFailsKeeps == ASSUME ScanInv, FinalFlushFails PROVE ScanInv'
<1> DEFINE next == [scan EXCEPT !.pc = "finish", !.reason = "stopped"]
<1>1. /\ scan.pc = "final" /\ ScanTrouble({"pending lost"}) /\ scan' = next /\ UNCHANGED <<view, noticed>>
      /\ (archive' = archive \/ archive' = archive \cup Batch)
    BY DEF FinalFlushFails, ScanAt
<1>2. /\ ScanTypeOK /\ ObservedIsKept /\ NoticedIsGapless /\ LooksAreSound /\ scan \in ScanState
      /\ archive \subseteq Messages
    BY ScanTypes DEF ScanInv
<1>3. /\ "pending lost" \in troubles' /\ troubles' \subseteq {"slow history", "pending lost"}
      /\ tally' \in [scans : 0..MaxScans, troubles : 0..MaxScanTroubles]
  <2>1. ScanTypeOK /\ ScanTrouble({"pending lost"}) /\ {"pending lost"} \in SUBSET {"pending lost"}
      BY <1>2 DEF FinalFlushFails
  <2> QED
      BY <2>1, ScanTroubleCounts
<1>4. /\ next \in ScanState /\ next.pc = "finish" /\ next.pending = scan.pending /\ next.seen = scan.seen
      /\ next.obs = scan.obs /\ next.reason = "stopped"
    BY <1>2 DEF ScanState
<1> HIDE DEF next
<1>5. archive \subseteq archive' /\ archive' \subseteq archive \cup scan.pending /\ archive' \subseteq Messages
  <2>1. Batch \subseteq scan.pending /\ scan.pending \subseteq Messages
      BY <1>2 DEF Batch, ScanState
  <2> QED
      BY <1>1, <1>2, <2>1
<1>6. ScanTypeOK'
    BY <1>1, <1>2, <1>3, <1>4, <1>5, ScanTypes, ScanTypesAgain
<1>7. ObservedIsKept'
    BY <1>1, <1>2, <1>3, <1>4, <1>5 DEF ObservedIsKept
<1>8. NoticedIsGapless'
    BY <1>1, <1>2, <1>4, GaplessRests
<1>9. LooksAreSound' /\ EndsAreSound'
    BY <1>1, <1>2, <1>4 DEF LooksAreSound, EndsAreSound
<1> QED
    BY <1>6, <1>7, <1>8, <1>9 DEF ScanInv

LEMMA ScanStarts == ASSUME ScanInit PROVE ScanInv
<1>1. /\ view = [here |-> TRUE, top |-> Newest, atTop |-> FALSE] /\ scan = NotScanning /\ archive = {}
      /\ noticed = {} /\ tally = [scans |-> 0, troubles |-> 0] /\ troubles = {}
    BY DEF ScanInit
<1>2. Newest \in Messages
    BY Sizes DEF Messages
<1>3. view \in ChannelView /\ view.top = Newest /\ view.here /\ ~view.atTop
    BY <1>1, <1>2 DEF ChannelView
<1>4. tally \in [scans : 0..MaxScans, troubles : 0..MaxScanTroubles]
    BY <1>1, Sizes
<1>5. ScanTypeOK
    BY <1>1, <1>3, <1>4, NoScan DEF ScanTypeOK, ChannelView, ScanState
<1>6. ObservedIsKept /\ LooksAreSound /\ EndsAreSound
    BY <1>1, <1>3, NoScan DEF ObservedIsKept, LooksAreSound, EndsAreSound
<1>7. Reached(Newest + 1)
  <2>1. {m \in Messages : Newest + 1 <= m} = {}
      BY Sizes DEF Messages
  <2> QED
      BY <1>1, <1>3, <2>1, NoScan, Sizes DEF Reached
<1>8. Newest + 1 \in 1..(Newest + 1)
    BY Sizes
<1> QED
    BY <1>5, <1>6, <1>7, <1>8 DEF ScanInv, NoticedIsGapless

LEMMA ScanSteps == ASSUME ScanInv, [ScanNext]_scanVars PROVE ScanInv'
<1>1. CASE \E resume \in BOOLEAN : StartScan(resume)
    BY <1>1, StartScanKeeps
<1>2. CASE StopScan \/ Capture \/ ChangeChannel \/ LoadOlder
    BY <1>2, StopScanKeeps, CaptureKeeps, ChangeChannelKeeps, LoadOlderKeeps
<1>3. CASE Jump \/ ScannerStarts \/ ManagedScanFails \/ FinishScan
    BY <1>3, JumpKeeps, ScannerStartsKeeps, ManagedScanFailsKeeps, FinishScanKeeps
<1>4. CASE LoopTurn \/ ScriptInterrupted({"observe", "scroll"}) \/ ObserveMessages
    BY <1>4, LoopTurnKeeps, ScriptInterruptedKeeps, ObserveMessagesKeeps
<1>5. CASE Flush
  <2>1. scan.pc = "flush" /\ ImportBatch(scan.obs.atTop \/ scan.recover)
      BY <1>5 DEF Flush, ScanAt
  <2>2. (scan.obs.atTop \/ scan.recover) \in BOOLEAN
      OBVIOUS
  <2> QED
      BY <2>1, <2>2, ImportBatchKeeps
<1>6. CASE ProcessObservation \/ RecoverStalledScan \/ ScrollAndWait \/ WaitAfterError
    BY <1>6, ProcessObservationKeeps, RecoverStalledScanKeeps, ScrollAndWaitKeeps, WaitAfterErrorKeeps
<1>7. CASE FinalFlush
    BY <1>7, ImportBatchKeeps DEF FinalFlush, ScanAt
<1>8. CASE ScannerEnds \/ FinalFlushFails \/ ScannerCrashes
    BY <1>8, ScannerEndsKeeps, FinalFlushFailsKeeps, ScannerCrashesKeeps
<1>9. CASE UNCHANGED scanVars
  <2>1. UNCHANGED <<view, scan, archive, noticed, tally, troubles>>
      BY <1>9 DEF scanVars
  <2>2. ScanTypeOK'
      BY <2>1, ScanTypes, ScanTypesAgain DEF ScanInv
  <2>3. NoticedIsGapless'
      BY <2>1, GaplessRests DEF ScanInv
  <2> QED
      BY <2>1, <2>2, <2>3 DEF ScanInv, ObservedIsKept, LooksAreSound, EndsAreSound
<1> QED
    BY <1>1, <1>2, <1>3, <1>4, <1>5, <1>6, <1>7, <1>8, <1>9 DEF ScanNext

-----------------------------------------------------------------------------
(* The scanner: theorems. *)

\* The invariant of the scanner holds initially, and every step keeps it.
THEOREM ScanInductive == ScanSpec => []ScanInv
<1>1. ScanInit => ScanInv
    BY ScanStarts
<1>2. ScanInv /\ [ScanNext]_scanVars => ScanInv'
    BY ScanSteps
<1> QED
    BY <1>1, <1>2, PTL DEF ScanSpec

\* Every variable of the scanner has its type, the counters of confirmations and of stalled
\* looks stay below their thresholds, and what a scan counts as seen is stored.
THEOREM ScanIsTyped == ScanSpec => []ScanTypeOK
<1>1. ScanInv => ScanTypeOK
    BY DEF ScanInv
<1> QED
    BY <1>1, ScanInductive, PTL

LEMMA NothingDropped == ScanInv => NothingDiscoveredIsDropped
BY DEF ScanInv, ObservedIsKept, NothingDiscoveredIsDropped, ScanAt

\* However stops, changes of the channel, failed scripts and lost answers interleave with a
\* scan: what it has observed is stored when it has ended.
THEOREM NothingIsDropped == ScanSpec => []NothingDiscoveredIsDropped
BY NothingDropped, ScanInductive, PTL

LEMMA CompletedHasAll == ScanInv => CompletedScanIsWhole
<1>1. ASSUME ScanInv, scan.reason = "completed", troubles = {},
             NEW m \in Messages
      PROVE  m \in archive
  <2>1. 1 \in noticed /\ noticed \subseteq archive
      BY <1>1 DEF ScanInv, EndsAreSound
  <2>2. PICK lo \in 1..(Newest + 1) : noticed = {n \in Messages : lo <= n}
      BY <1>1 DEF ScanInv, NoticedIsGapless, Reached
  <2>3. lo <= 1 /\ m >= 1 /\ lo \in Nat /\ m \in Nat
      BY <2>1, <2>2, Sizes DEF Messages
  <2>4. m \in noticed
      BY <2>2, <2>3
  <2> QED
      BY <2>1, <2>4
<1> QED
    BY <1>1 DEF CompletedScanIsWhole

\* A scan that reports its channel as completed has stored it from its first message to the
\* newest one that was stored: no message between two looks at the page is missed.
THEOREM CompletedIsWhole == ScanSpec => []CompletedScanIsWhole
BY CompletedHasAll, ScanInductive, PTL

-----------------------------------------------------------------------------
(* The bot's client: the inductive invariant. *)

CallState == [op : Operations \cup {"none", "restore"}, token : BotTokens \cup {Nothing},
              pc : {"none", "flush", "login", "load", "register"}, client : Clients \cup {Nothing}]
ClientLives == {"unused", "login", "ready", "destroyed"}
HasClient == {"login", "load", "register"}

\* Each login is awaited by a call, which knows its client.
LoginsAreAwaited ==
    \A c \in Clients : client[c] = "login" =>
        \E k \in BotCalls : At(k, "login") /\ botCall[k].client = c

\* A connection that a user asks for has a token, and only connections have a client.
CallIsSound(x) ==
    /\ x.client \in Clients <=> x.pc \in HasClient
    /\ x.op = "connect" => x.token # Nothing
    /\ x.pc \in HasClient => x.op \in {"connect", "resume", "restore"}
CallsAreSound == \A k \in BotCalls : CallIsSound(botCall[k])

\* The only client that runs is the current one, and the bot is on when it is ready.
OneClient ==
    "late failure" \notin mishaps =>
        /\ Live \subseteq {bot.client}
        /\ \A c \in Clients : client[c] = "ready" => bot.enabled

\* What the bot knows of its token and its switch is what is stored; a stored token is being
\* resumed only while there is one.
StatusFollows ==
    "forgotten while resuming" \notin mishaps =>
        /\ bot.token <=> store.token # Nothing
        /\ bot.enabled <=> store.token # Nothing /\ store.on
        /\ \A k \in BotCalls : botCall[k].op \in {"resume", "restore"} => store.token # Nothing

RuntimeInv == RuntimeTypeOK /\ LoginsAreAwaited /\ CallsAreSound /\ OneClient /\ StatusFollows

-----------------------------------------------------------------------------
(* The bot's client: its data. *)

LEMMA RuntimeTypes ==
    ASSUME RuntimeTypeOK
    PROVE  /\ store \in Store /\ bot \in Bot /\ client \in [Clients -> ClientLives] /\ botCall \in [BotCalls -> CallState]
           /\ made \in 0..MaxBotCalls /\ mishaps \subseteq {"late failure", "forgotten while resuming"}
BY DEF RuntimeTypeOK, ClientLives, CallState

LEMMA RuntimeTypesAgain ==
    ASSUME store' \in Store, bot' \in Bot, client' \in [Clients -> ClientLives], botCall' \in [BotCalls -> CallState],
           CallsAreSound', made' \in 0..MaxBotCalls,
           mishaps' \subseteq {"late failure", "forgotten while resuming"}
    PROVE  RuntimeTypeOK'
BY DEF RuntimeTypeOK, ClientLives, CallState, CallsAreSound, CallIsSound, HasClient

LEMMA NoCallUnderWay ==
    /\ NoBotCall \in CallState /\ CallIsSound(NoBotCall)
    /\ NoBotCall.op = "none" /\ NoBotCall.pc = "none" /\ NoBotCall.client = Nothing
BY RuntimeAssumption DEF NoBotCall, CallState, CallIsSound, HasClient

\* One call has changed, and waits for no client that is still logging in.
LEMMA OneCallChanges ==
    ASSUME botCall \in [BotCalls -> CallState], CallsAreSound, NEW k \in BotCalls,
           NEW x \in CallState, CallIsSound(x), botCall' = [botCall EXCEPT ![k] = x]
    PROVE  /\ botCall' \in [BotCalls -> CallState] /\ CallsAreSound'
           /\ botCall'[k] = x /\ \A j \in BotCalls \ {k} : botCall'[j] = botCall[j]
<1>1. botCall'[k] = x /\ \A j \in BotCalls \ {k} : botCall'[j] = botCall[j]
    OBVIOUS
<1>2. botCall' \in [BotCalls -> CallState]
    OBVIOUS
<1>3. ASSUME NEW j \in BotCalls PROVE CallIsSound(botCall'[j])
    BY <1>1 DEF CallsAreSound
<1>4. CallsAreSound'
    BY <1>3 DEF CallsAreSound, CallIsSound
<1> QED
    BY <1>1, <1>2, <1>4

LEMMA CallsCount ==
    ASSUME made \in 0..MaxBotCalls, made < MaxBotCalls
    PROVE  made + 1 \in 0..MaxBotCalls
BY RuntimeAssumption

-----------------------------------------------------------------------------
(* The bot's client: its steps. *)

\* The clients that are left, before a new one logs in and becomes the current one.
LEMMA LoginKeeps ==
    ASSUME RuntimeInv, NEW k \in BotCalls, botCall[k].pc \notin HasClient,
           NEW op \in {"connect", "resume"}, NEW token \in BotTokens \cup {Nothing},
           op = "connect" => token # Nothing,
           "forgotten while resuming" \notin mishaps /\ op = "resume" => store.token # Nothing,
           NEW clients \in [Clients -> ClientLives],
           \A c \in Clients : clients[c] = client[c] \/ clients[c] = "destroyed",
           "late failure" \notin mishaps => \A c \in Clients : clients[c] \notin {"login", "ready"},
           Login(k, op, token, clients), UNCHANGED <<store, mishaps>>, made' \in 0..MaxBotCalls
    PROVE  RuntimeInv'
<1>1. PICK c \in Clients :
        /\ client' = [clients EXCEPT ![c] = "login"]
        /\ bot' = [bot EXCEPT !.client = c, !.token = @ \/ op # "connect"]
        /\ botCall' = [botCall EXCEPT ![k] = [op |-> op, pc |-> "login", token |-> token, client |-> c]]
    BY DEF Login
<1> DEFINE x == [op |-> op, pc |-> "login", token |-> token, client |-> c]
<1>2. /\ store \in Store /\ bot \in Bot /\ botCall \in [BotCalls -> CallState]
      /\ mishaps \subseteq {"late failure", "forgotten while resuming"}
      /\ LoginsAreAwaited /\ CallsAreSound /\ OneClient /\ StatusFollows
    BY RuntimeTypes DEF RuntimeInv
<1>3. x \in CallState /\ CallIsSound(x) /\ x.op = op /\ x.pc = "login" /\ x.client = c
    BY DEF CallState, CallIsSound, HasClient, Operations
<1>4. botCall' = [botCall EXCEPT ![k] = x]
    BY <1>1
<1> HIDE DEF x
<1>5. /\ botCall' \in [BotCalls -> CallState] /\ CallsAreSound'
      /\ botCall'[k] = x /\ \A j \in BotCalls \ {k} : botCall'[j] = botCall[j]
    BY <1>2, <1>3, <1>4, OneCallChanges
<1>6. /\ bot' \in Bot /\ bot'.client = c /\ bot'.token = (bot.token \/ op # "connect") /\ bot'.enabled = bot.enabled
    BY <1>1, <1>2 DEF Bot
<1>7. client' \in [Clients -> ClientLives] /\ client'[c] = "login" /\ \A d \in Clients \ {c} : client'[d] = clients[d]
    BY <1>1 DEF ClientLives
<1>8. RuntimeTypeOK'
    BY <1>2, <1>5, <1>6, <1>7, RuntimeTypesAgain
<1>9. LoginsAreAwaited'
  <2>1. ASSUME NEW d \in Clients, client'[d] = "login"
        PROVE  \E j \in BotCalls : botCall'[j].pc = "login" /\ botCall'[j].client = d
    <3>1. CASE d = c
        BY <1>3, <1>5, <3>1
    <3>2. CASE d # c
      <4>1. client[d] = "login"
          BY <1>7, <2>1, <3>2
      <4>2. PICK j \in BotCalls : botCall[j].pc = "login" /\ botCall[j].client = d
          BY <1>2, <4>1 DEF LoginsAreAwaited, At
      <4>3. j # k
          BY <4>2 DEF HasClient
      <4> QED
          BY <1>5, <4>2, <4>3
    <3> QED
        BY <3>1, <3>2
  <2> QED
      BY <2>1 DEF LoginsAreAwaited, At
<1>10. OneClient'
  <2>1. ASSUME "late failure" \notin mishaps, NEW d \in Clients, client'[d] \in {"login", "ready"}
        PROVE  d = c /\ client'[d] = "login"
      BY <1>7, <2>1
  <2> QED
      BY <1>6, <2>1 DEF OneClient, Live
<1>11. StatusFollows'
  <2>1. ASSUME "forgotten while resuming" \notin mishaps
        PROVE  /\ bot'.token <=> store.token # Nothing
               /\ bot'.enabled <=> store.token # Nothing /\ store.on
    <3>1. /\ bot.token <=> store.token # Nothing
          /\ bot.enabled <=> store.token # Nothing /\ store.on
        BY <1>2, <2>1 DEF StatusFollows
    <3> QED
        BY <1>6, <2>1, <3>1
  <2>2. ASSUME "forgotten while resuming" \notin mishaps, NEW j \in BotCalls,
               botCall'[j].op \in {"resume", "restore"}
        PROVE  store.token # Nothing
    <3>1. CASE j = k
        BY <1>3, <1>5, <2>2, <3>1
    <3>2. CASE j # k
        BY <1>2, <1>5, <2>2, <3>2 DEF StatusFollows
    <3> QED
        BY <3>1, <3>2
  <2> QED
      BY <2>1, <2>2 DEF StatusFollows
<1> QED
    BY <1>5, <1>8, <1>9, <1>10, <1>11 DEF RuntimeInv

\* Nothing logs in that did not before, and call k awaits nothing that still does.
LEMMA LoginsStay ==
    ASSUME RuntimeInv, NEW k \in BotCalls, \A j \in BotCalls \ {k} : botCall'[j] = botCall[j],
           \A c \in Clients : client'[c] = "login" =>
               client[c] = "login" /\ ~(botCall[k].pc = "login" /\ botCall[k].client = c)
    PROVE  LoginsAreAwaited'
<1>1. ASSUME NEW c \in Clients, client'[c] = "login"
      PROVE  \E j \in BotCalls : botCall'[j].pc = "login" /\ botCall'[j].client = c
  <2>1. PICK j \in BotCalls : botCall[j].pc = "login" /\ botCall[j].client = c
      BY <1>1 DEF RuntimeInv, LoginsAreAwaited, At
  <2>2. j # k
      BY <1>1, <2>1
  <2> QED
      BY <2>1, <2>2
<1> QED
    BY <1>1 DEF LoginsAreAwaited, At

\* With the current client, if there is one, no client is left.
LEMMA NoClientIsLeft ==
    ASSUME RuntimeInv
    PROVE  /\ Destroyed(bot.client) \in [Clients -> ClientLives]
           /\ \A c \in Clients : Destroyed(bot.client)[c] \in {client[c], "destroyed"}
           /\ "late failure" \notin mishaps => \A c \in Clients : Destroyed(bot.client)[c] \notin {"login", "ready"}
           /\ "late failure" \notin mishaps /\ bot.client = Nothing =>
                 \A c \in Clients : client[c] \notin {"login", "ready"}
<1>1. client \in [Clients -> ClientLives] /\ OneClient
    BY RuntimeTypes DEF RuntimeInv
<1>2. ASSUME "late failure" \notin mishaps, NEW c \in Clients, client[c] \in {"login", "ready"}
      PROVE  c = bot.client /\ bot.client # Nothing
  <2>1. c \in Live /\ Live \subseteq {bot.client}
      BY <1>1, <1>2 DEF OneClient, Live
  <2> QED
      BY <2>1, RuntimeAssumption
<1>3. \A c \in Clients : Destroyed(bot.client)[c] = IF c = bot.client THEN "destroyed" ELSE client[c]
    BY DEF Destroyed
<1>4. Destroyed(bot.client) \in [Clients -> ClientLives]
    BY <1>1 DEF Destroyed, ClientLives
<1> QED
    BY <1>2, <1>3, <1>4

LEMMA CallTokens ==
    ASSUME store \in Store, NEW op \in Operations, NEW token \in BotTokens \cup {Nothing},
           op = "connect" <=> token # Nothing
    PROVE  /\ CallToken(op, token) \in BotTokens \cup {Nothing}
           /\ op = "connect" => CallToken(op, token) # Nothing
BY DEF CallToken, Store

LEMMA BeginKeeps ==
    ASSUME RuntimeInv, NEW k \in BotCalls, NEW op \in Operations, NEW token \in BotTokens \cup {Nothing},
           Begin(k, op, token)
    PROVE  RuntimeInv'
<1>1. /\ botCall[k] = NoBotCall /\ made < MaxBotCalls /\ (op = "resume" => store.token # Nothing)
      /\ (op = "connect" <=> token # Nothing) /\ made' = made + 1 /\ UNCHANGED <<store, mishaps>>
    BY DEF Begin, Idle
<1>2. /\ store \in Store /\ bot \in Bot /\ client \in [Clients -> ClientLives] /\ botCall \in [BotCalls -> CallState]
      /\ made \in 0..MaxBotCalls /\ mishaps \subseteq {"late failure", "forgotten while resuming"}
      /\ CallsAreSound /\ OneClient /\ StatusFollows
    BY RuntimeTypes DEF RuntimeInv
<1>3. made' \in 0..MaxBotCalls
    BY <1>1, <1>2, CallsCount
<1>4. CallToken(op, token) \in BotTokens \cup {Nothing} /\ (op = "connect" => CallToken(op, token) # Nothing)
    BY <1>1, <1>2, CallTokens
<1>5. CASE op \in {"connect", "resume"} /\ bot.client = Nothing
  <2>1. Login(k, op, CallToken(op, token), client)
      BY <1>5 DEF Begin
  <2>2. botCall[k].pc \notin HasClient
      BY <1>1, NoCallUnderWay DEF HasClient
  <2>3. "late failure" \notin mishaps => \A c \in Clients : client[c] \notin {"login", "ready"}
      BY <1>5, NoClientIsLeft
  <2> QED
      BY <1>1, <1>2, <1>3, <1>4, <1>5, <2>1, <2>2, <2>3, LoginKeeps
<1>6. CASE ~(op \in {"connect", "resume"} /\ bot.client = Nothing)
  <2> DEFINE x == [op |-> op, pc |-> "flush", token |-> CallToken(op, token), client |-> Nothing]
  <2>1. /\ botCall' = [botCall EXCEPT ![k] = x] /\ bot' = [bot EXCEPT !.token = @ \/ op = "resume"]
        /\ UNCHANGED client
      BY <1>6 DEF Begin
  <2>2. x \in CallState /\ x.op = op /\ x.pc = "flush" /\ CallIsSound(x)
      BY <1>4, RuntimeAssumption DEF CallState, CallIsSound, HasClient
  <2> HIDE DEF x
  <2>3. /\ botCall' \in [BotCalls -> CallState] /\ CallsAreSound'
        /\ botCall'[k] = x /\ \A j \in BotCalls \ {k} : botCall'[j] = botCall[j]
      BY <1>2, <2>1, <2>2, OneCallChanges
  <2>4. /\ bot' \in Bot /\ bot'.client = bot.client /\ bot'.enabled = bot.enabled
        /\ bot'.token = (bot.token \/ op = "resume")
      BY <1>2, <2>1 DEF Bot
  <2>5. RuntimeTypeOK'
      BY <1>1, <1>2, <1>3, <2>1, <2>3, <2>4, RuntimeTypesAgain
  <2>6. LoginsAreAwaited'
    <3>1. botCall[k].pc # "login"
        BY <1>1, NoCallUnderWay
    <3> QED
        BY <2>1, <2>3, <3>1, LoginsStay
  <2>7. OneClient'
      BY <1>1, <1>2, <2>1, <2>4 DEF OneClient, Live
  <2>8. StatusFollows'
    <3>1. ASSUME "forgotten while resuming" \notin mishaps, NEW j \in BotCalls,
                 botCall'[j].op \in {"resume", "restore"}
          PROVE  store.token # Nothing
      <4>1. CASE j = k
          BY <1>1, <2>2, <2>3, <3>1, <4>1 DEF Operations
      <4>2. CASE j # k
          BY <1>2, <2>3, <3>1, <4>2 DEF StatusFollows
      <4> QED
          BY <4>1, <4>2
    <3>2. "forgotten while resuming" \notin mishaps =>
            /\ bot'.token <=> store.token # Nothing
            /\ bot'.enabled <=> store.token # Nothing /\ store.on
      <4>1. "forgotten while resuming" \notin mishaps =>
              /\ bot.token <=> store.token # Nothing
              /\ bot.enabled <=> store.token # Nothing /\ store.on
          BY <1>2 DEF StatusFollows
      <4> QED
          BY <1>1, <2>4, <4>1
    <3> QED
        BY <1>1, <3>1, <3>2 DEF StatusFollows
  <2> QED
      BY <2>3, <2>5, <2>6, <2>7, <2>8 DEF RuntimeInv
<1> QED
    BY <1>5, <1>6

LEMMA ReconnectKeeps == ASSUME RuntimeInv, NEW k \in BotCalls, Reconnect(k) PROVE RuntimeInv'
<1> DEFINE op == botCall[k].op
           token == botCall[k].token
<1>1. /\ botCall[k].pc = "flush" /\ op \in {"connect", "resume"} /\ Login(k, op, token, Destroyed(bot.client))
      /\ UNCHANGED <<store, made, mishaps>>
    BY DEF Reconnect, At
<1>2. /\ botCall \in [BotCalls -> CallState] /\ made \in 0..MaxBotCalls /\ CallsAreSound /\ StatusFollows
    BY RuntimeTypes DEF RuntimeInv
<1>3. token \in BotTokens \cup {Nothing} /\ (op = "connect" => token # Nothing)
    BY <1>2 DEF CallState, CallsAreSound, CallIsSound
<1>4. "forgotten while resuming" \notin mishaps /\ op = "resume" => store.token # Nothing
    BY <1>2 DEF StatusFollows
<1>5. botCall[k].pc \notin HasClient /\ made' \in 0..MaxBotCalls
    BY <1>1, <1>2 DEF HasClient
<1>6. /\ Destroyed(bot.client) \in [Clients -> ClientLives]
      /\ \A c \in Clients : Destroyed(bot.client)[c] = client[c] \/ Destroyed(bot.client)[c] = "destroyed"
      /\ "late failure" \notin mishaps => \A c \in Clients : Destroyed(bot.client)[c] \notin {"login", "ready"}
    BY NoClientIsLeft
<1> HIDE DEF op, token
<1> QED
    BY <1>1, <1>3, <1>4, <1>5, <1>6, LoginKeeps

\* A call has ended: what it leaves satisfies what every state does.
LEMMA BotCallEnds ==
    ASSUME RuntimeInv, NEW k \in BotCalls, botCall' = Done(k)
    PROVE  /\ botCall' \in [BotCalls -> CallState] /\ CallsAreSound' /\ botCall'[k] = NoBotCall
           /\ \A j \in BotCalls \ {k} : botCall'[j] = botCall[j]
<1>1. botCall \in [BotCalls -> CallState] /\ CallsAreSound
    BY RuntimeTypes DEF RuntimeInv
<1>2. botCall' = [botCall EXCEPT ![k] = NoBotCall]
    BY DEF Done
<1> QED
    BY <1>1, <1>2, NoCallUnderWay, OneCallChanges

\* Call k has moved on, or ended; what is stored and shown of the token stays.
LEMMA StatusStays ==
    ASSUME RuntimeInv, NEW k \in BotCalls, \A j \in BotCalls \ {k} : botCall'[j] = botCall[j],
           botCall'[k].op \in {"none", botCall[k].op}, UNCHANGED store,
           bot'.token = bot.token, bot'.enabled = bot.enabled,
           "forgotten while resuming" \notin mishaps' => "forgotten while resuming" \notin mishaps
    PROVE  StatusFollows'
<1>1. StatusFollows
    BY DEF RuntimeInv
<1>2. ASSUME "forgotten while resuming" \notin mishaps', NEW j \in BotCalls,
             botCall'[j].op \in {"resume", "restore"}
      PROVE  store.token # Nothing
  <2>1. CASE j = k
      BY <1>1, <1>2, <2>1 DEF StatusFollows
  <2>2. CASE j # k
      BY <1>1, <1>2, <2>2 DEF StatusFollows
  <2> QED
      BY <2>1, <2>2
<1>3. "forgotten while resuming" \notin mishaps =>
         /\ bot.token <=> store.token # Nothing
         /\ bot.enabled <=> store.token # Nothing /\ store.on
    BY <1>1 DEF StatusFollows
<1> QED
    BY <1>2, <1>3 DEF StatusFollows

LEMMA PauseBotKeeps == ASSUME RuntimeInv, NEW k \in BotCalls, PauseBot(k) PROVE RuntimeInv'
<1>1. /\ botCall[k].pc = "flush" /\ client' = Destroyed(bot.client) /\ store' = [store EXCEPT !.on = FALSE]
      /\ bot' = [bot EXCEPT !.client = Nothing, !.enabled = FALSE] /\ botCall' = Done(k)
      /\ UNCHANGED <<made, mishaps>>
    BY DEF PauseBot, At
<1>2. /\ store \in Store /\ bot \in Bot /\ made \in 0..MaxBotCalls /\ StatusFollows
      /\ mishaps \subseteq {"late failure", "forgotten while resuming"}
    BY RuntimeTypes DEF RuntimeInv
<1>3. /\ botCall' \in [BotCalls -> CallState] /\ CallsAreSound' /\ botCall'[k] = NoBotCall
      /\ \A j \in BotCalls \ {k} : botCall'[j] = botCall[j]
    BY <1>1, BotCallEnds
<1>4. /\ bot' \in Bot /\ bot'.client = Nothing /\ ~bot'.enabled /\ bot'.token = bot.token
    BY <1>1, <1>2 DEF Bot
<1>5. store' \in Store /\ store'.token = store.token /\ ~store'.on
    BY <1>1, <1>2 DEF Store
<1>6. /\ client' \in [Clients -> ClientLives]
      /\ \A c \in Clients : client'[c] \in {client[c], "destroyed"}
      /\ "late failure" \notin mishaps => \A c \in Clients : client'[c] \notin {"login", "ready"}
    BY <1>1, NoClientIsLeft
<1>7. RuntimeTypeOK'
    BY <1>1, <1>2, <1>3, <1>4, <1>5, <1>6, RuntimeTypesAgain
<1>8. LoginsAreAwaited'
    BY <1>1, <1>3, <1>6, LoginsStay
<1>9. OneClient'
    BY <1>1, <1>6 DEF OneClient, Live
<1>10. StatusFollows'
  <2>1. ASSUME "forgotten while resuming" \notin mishaps, NEW j \in BotCalls,
               botCall'[j].op \in {"resume", "restore"}
        PROVE  store'.token # Nothing
      BY <1>2, <1>3, <1>5, <2>1, NoCallUnderWay DEF StatusFollows
  <2>2. "forgotten while resuming" \notin mishaps => (bot'.token <=> store'.token # Nothing)
      BY <1>2, <1>4, <1>5 DEF StatusFollows
  <2> QED
      BY <1>1, <1>4, <1>5, <2>1, <2>2 DEF StatusFollows
<1> QED
    BY <1>3, <1>7, <1>8, <1>9, <1>10 DEF RuntimeInv

LEMMA DisconnectKeeps == ASSUME RuntimeInv, NEW k \in BotCalls, Disconnect(k) PROVE RuntimeInv'
<1> DEFINE late == IF \E j \in BotCalls \ {k} : botCall[j].op \in {"resume", "restore"}
                   THEN {"forgotten while resuming"} ELSE {}
<1>1. /\ botCall[k].pc = "flush" /\ client' = Destroyed(bot.client) /\ store' = [token |-> Nothing, on |-> TRUE]
      /\ bot' = Stopped /\ botCall' = Done(k) /\ mishaps' = mishaps \cup late /\ UNCHANGED made
    BY DEF Disconnect, At
<1>2. made \in 0..MaxBotCalls /\ mishaps \subseteq {"late failure", "forgotten while resuming"}
    BY RuntimeTypes DEF RuntimeInv
<1>3. /\ botCall' \in [BotCalls -> CallState] /\ CallsAreSound' /\ botCall'[k] = NoBotCall
      /\ \A j \in BotCalls \ {k} : botCall'[j] = botCall[j]
    BY <1>1, BotCallEnds
<1>4. bot' \in Bot /\ bot'.client = Nothing /\ ~bot'.enabled /\ ~bot'.token
    BY <1>1 DEF Bot, Stopped
<1>5. store' \in Store /\ store'.token = Nothing
    BY <1>1 DEF Store
<1>6. /\ client' \in [Clients -> ClientLives]
      /\ \A c \in Clients : client'[c] \in {client[c], "destroyed"}
      /\ "late failure" \notin mishaps => \A c \in Clients : client'[c] \notin {"login", "ready"}
    BY <1>1, NoClientIsLeft
<1>7. /\ mishaps \subseteq mishaps' /\ mishaps' \subseteq {"late failure", "forgotten while resuming"}
    BY <1>1, <1>2
<1>8. RuntimeTypeOK'
    BY <1>1, <1>2, <1>3, <1>4, <1>5, <1>6, <1>7, RuntimeTypesAgain
<1>9. LoginsAreAwaited'
    BY <1>1, <1>3, <1>6, LoginsStay
<1>10. OneClient'
    BY <1>6, <1>7 DEF OneClient, Live
<1>11. StatusFollows'
  <2>1. ASSUME "forgotten while resuming" \notin mishaps', NEW j \in BotCalls
        PROVE  botCall'[j].op \notin {"resume", "restore"}
    <3>1. CASE j = k
        BY <1>3, <3>1, NoCallUnderWay
    <3>2. CASE j # k
      <4>1. late = {}
          BY <1>1, <2>1
      <4> QED
          BY <1>3, <3>2, <4>1
    <3> QED
        BY <3>1, <3>2
  <2> QED
      BY <1>4, <1>5, <2>1 DEF StatusFollows
<1> QED
    BY <1>3, <1>8, <1>9, <1>10, <1>11 DEF RuntimeInv

\* A call has moved on to another point, with its client if it had one.
LEMMA CallGoes ==
    ASSUME RuntimeInv, NEW k \in BotCalls, botCall[k].pc \in HasClient, NEW pc \in HasClient, botCall' = Go(k, pc)
    PROVE  /\ botCall' \in [BotCalls -> CallState] /\ CallsAreSound'
           /\ botCall'[k].op = botCall[k].op /\ botCall'[k].pc = pc
           /\ \A j \in BotCalls \ {k} : botCall'[j] = botCall[j]
<1> DEFINE x == [botCall[k] EXCEPT !.pc = pc]
<1>1. botCall \in [BotCalls -> CallState] /\ CallsAreSound /\ botCall[k] \in CallState /\ CallIsSound(botCall[k])
    BY RuntimeTypes DEF RuntimeInv, CallsAreSound
<1>2. /\ x \in CallState /\ x.op = botCall[k].op /\ x.pc = pc /\ x.client = botCall[k].client
      /\ x.token = botCall[k].token
    BY <1>1 DEF CallState, HasClient
<1>3. botCall' = [botCall EXCEPT ![k] = x]
    BY <1>1 DEF Go
<1> HIDE DEF x
<1>4. CallIsSound(x)
    BY <1>1, <1>2 DEF CallIsSound
<1> QED
    BY <1>1, <1>2, <1>3, <1>4, OneCallChanges

LEMMA ReadyKeeps == ASSUME RuntimeInv, NEW k \in BotCalls, Ready(k) PROVE RuntimeInv'
<1> DEFINE own == botCall[k].client
           token == IF botCall[k].op = "connect" THEN botCall[k].token ELSE store.token
<1>1. /\ botCall[k].pc = "login" /\ client[own] = "login" /\ client' = [client EXCEPT ![own] = "ready"]
      /\ store' = [token |-> token, on |-> TRUE] /\ bot' = [bot EXCEPT !.token = TRUE, !.enabled = TRUE]
      /\ botCall' = Go(k, "load") /\ UNCHANGED <<made, mishaps>>
    BY DEF Ready, At
<1>2. /\ store \in Store /\ bot \in Bot /\ client \in [Clients -> ClientLives] /\ made \in 0..MaxBotCalls
      /\ mishaps \subseteq {"late failure", "forgotten while resuming"}
      /\ botCall[k] \in CallState /\ CallIsSound(botCall[k]) /\ OneClient /\ StatusFollows
    BY RuntimeTypes DEF RuntimeInv, CallsAreSound
<1>3. own \in Clients
    BY <1>1, <1>2 DEF CallIsSound, HasClient
<1>4. token \in BotTokens \cup {Nothing} /\ ("forgotten while resuming" \notin mishaps => token # Nothing)
  <2>1. CASE botCall[k].op = "connect"
      BY <1>2, <2>1 DEF CallState, CallIsSound
  <2>2. CASE botCall[k].op # "connect"
    <3>1. botCall[k].op \in {"resume", "restore"}
        BY <1>1, <1>2, <2>2 DEF CallIsSound, HasClient
    <3> QED
        BY <1>2, <2>2, <3>1 DEF StatusFollows, Store
  <2> QED
      BY <2>1, <2>2
<1> HIDE DEF token
<1>5. /\ botCall' \in [BotCalls -> CallState] /\ CallsAreSound' /\ botCall'[k].op = botCall[k].op
      /\ \A j \in BotCalls \ {k} : botCall'[j] = botCall[j]
    BY <1>1, CallGoes DEF HasClient
<1>6. bot' \in Bot /\ bot'.client = bot.client /\ bot'.enabled /\ bot'.token
    BY <1>1, <1>2 DEF Bot
<1>7. store' \in Store /\ store'.token = token /\ store'.on
    BY <1>1, <1>4 DEF Store
<1>8. /\ client' \in [Clients -> ClientLives] /\ client'[own] = "ready" /\ client[own] = "login"
      /\ \A c \in Clients \ {own} : client'[c] = client[c]
    BY <1>1, <1>2, <1>3 DEF ClientLives
<1>9. RuntimeTypeOK'
    BY <1>1, <1>2, <1>5, <1>6, <1>7, <1>8, RuntimeTypesAgain
<1>10. LoginsAreAwaited'
    BY <1>5, <1>8, LoginsStay
<1>11. OneClient'
  <2>1. Live' = Live
      BY <1>3, <1>8 DEF Live
  <2> QED
      BY <1>1, <1>2, <1>6, <2>1 DEF OneClient
<1>12. StatusFollows'
    BY <1>1, <1>4, <1>6, <1>7 DEF StatusFollows
<1> QED
    BY <1>5, <1>9, <1>10, <1>11, <1>12 DEF RuntimeInv

\* A step of a call that leaves the clients and the bot alone.
LEMMA OnlyCallMoves ==
    ASSUME RuntimeInv, NEW k \in BotCalls, UNCHANGED <<store, bot, client, made, mishaps>>,
           botCall' \in [BotCalls -> CallState], CallsAreSound', botCall'[k].op \in {"none", botCall[k].op},
           \A j \in BotCalls \ {k} : botCall'[j] = botCall[j], botCall[k].pc # "login"
    PROVE  RuntimeInv'
<1>1. RuntimeTypeOK /\ OneClient
    BY DEF RuntimeInv
<1>2. RuntimeTypeOK'
    BY <1>1, RuntimeTypes, RuntimeTypesAgain
<1>3. LoginsAreAwaited'
    BY LoginsStay
<1>4. OneClient'
    BY <1>1 DEF OneClient, Live
<1>5. StatusFollows'
    BY StatusStays
<1> QED
    BY <1>2, <1>3, <1>4, <1>5 DEF RuntimeInv

LEMMA LoadStatesKeeps == ASSUME RuntimeInv, NEW k \in BotCalls, LoadStates(k) PROVE RuntimeInv'
<1>1. botCall[k].pc = "load" /\ botCall' = Go(k, "register") /\ UNCHANGED <<store, bot, client, made, mishaps>>
    BY DEF LoadStates, At
<1>2. /\ botCall' \in [BotCalls -> CallState] /\ CallsAreSound' /\ botCall'[k].op = botCall[k].op
      /\ \A j \in BotCalls \ {k} : botCall'[j] = botCall[j]
    BY <1>1, CallGoes DEF HasClient
<1> QED
    BY <1>1, <1>2, OnlyCallMoves

LEMMA RegisterKeeps == ASSUME RuntimeInv, NEW k \in BotCalls, Register(k) PROVE RuntimeInv'
<1>1. botCall[k].pc = "register" /\ botCall' = Done(k) /\ UNCHANGED <<store, bot, client, made, mishaps>>
    BY DEF Register, At
<1>2. /\ botCall' \in [BotCalls -> CallState] /\ CallsAreSound' /\ botCall'[k].op = "none"
      /\ \A j \in BotCalls \ {k} : botCall'[j] = botCall[j]
    BY <1>1, BotCallEnds, NoCallUnderWay
<1> QED
    BY <1>1, <1>2, OnlyCallMoves

LEMMA ConnectFailsKeeps == ASSUME RuntimeInv, NEW k \in BotCalls, ConnectFails(k) PROVE RuntimeInv'
<1> DEFINE own == botCall[k].client
           late == IF bot.client \in Live \ {own} THEN {"late failure"} ELSE {}
<1>1. /\ botCall[k].pc \in HasClient /\ client' = Destroyed(own) /\ bot' = [bot EXCEPT !.client = Nothing]
      /\ botCall' = Done(k) /\ mishaps' = mishaps \cup late /\ UNCHANGED <<store, made>>
    BY DEF ConnectFails, HasClient
<1>2. /\ store \in Store /\ bot \in Bot /\ client \in [Clients -> ClientLives] /\ made \in 0..MaxBotCalls
      /\ mishaps \subseteq {"late failure", "forgotten while resuming"}
      /\ CallIsSound(botCall[k]) /\ OneClient
    BY RuntimeTypes DEF RuntimeInv, CallsAreSound
<1>3. own \in Clients
    BY <1>1, <1>2 DEF CallIsSound
<1> HIDE DEF own
<1>4. /\ botCall' \in [BotCalls -> CallState] /\ CallsAreSound' /\ botCall'[k].op = "none"
      /\ \A j \in BotCalls \ {k} : botCall'[j] = botCall[j]
    BY <1>1, BotCallEnds, NoCallUnderWay
<1>5. bot' \in Bot /\ bot'.client = Nothing /\ bot'.enabled = bot.enabled /\ bot'.token = bot.token
    BY <1>1, <1>2 DEF Bot
<1>6. /\ client' \in [Clients -> ClientLives] /\ client'[own] = "destroyed"
      /\ \A c \in Clients \ {own} : client'[c] = client[c]
    BY <1>1, <1>2, <1>3 DEF Destroyed, ClientLives
<1>7. mishaps \subseteq mishaps' /\ mishaps' \subseteq {"late failure", "forgotten while resuming"}
      /\ ("forgotten while resuming" \in mishaps => "forgotten while resuming" \in mishaps')
    BY <1>1, <1>2
<1>8. RuntimeTypeOK'
    BY <1>1, <1>2, <1>4, <1>5, <1>6, <1>7, RuntimeTypesAgain
<1>9. LoginsAreAwaited'
  <2>1. \A c \in Clients : client'[c] = "login" =>
           client[c] = "login" /\ ~(botCall[k].pc = "login" /\ botCall[k].client = c)
      BY <1>6 DEF own
  <2> QED
      BY <1>4, <2>1, LoginsStay
<1>10. OneClient'
  <2>1. ASSUME "late failure" \notin mishaps', NEW c \in Clients, client'[c] \in {"login", "ready"}
        PROVE  FALSE
    <3>1. c # own /\ client[c] \in {"login", "ready"}
        BY <1>6, <2>1
    <3>2. c \in Live /\ Live \subseteq {bot.client}
        BY <1>2, <1>7, <2>1, <3>1 DEF OneClient, Live
    <3>3. bot.client \in Live \ {own}
        BY <3>1, <3>2
    <3> QED
        BY <1>1, <2>1, <3>3
  <2> QED
      BY <2>1 DEF OneClient, Live
<1>11. StatusFollows'
    BY <1>1, <1>4, <1>5, <1>7, StatusStays
<1> QED
    BY <1>4, <1>8, <1>9, <1>10, <1>11 DEF RuntimeInv

LEMMA RestartBotKeeps == ASSUME RuntimeInv, NEW k \in BotCalls, RestartBot(k) PROVE RuntimeInv'
<1> DEFINE fresh == [c \in Clients |-> "unused"]
<1>1. made < MaxBotCalls /\ made' = made + 1 /\ mishaps' = {} /\ UNCHANGED store
    BY DEF RestartBot
<1>2. store \in Store /\ made \in 0..MaxBotCalls
    BY RuntimeTypes DEF RuntimeInv
<1>3. made' \in 0..MaxBotCalls
    BY <1>1, <1>2, CallsCount
<1>4. store.token \in BotTokens \cup {Nothing} /\ store.on \in BOOLEAN
    BY <1>2 DEF Store
<1>5. CASE store.token # Nothing /\ store.on
  <2>1. PICK c \in Clients :
          /\ client' = [fresh EXCEPT ![c] = "login"]
          /\ bot' = [client |-> c, token |-> TRUE, enabled |-> TRUE]
          /\ botCall' = [j \in BotCalls |-> IF j # k THEN NoBotCall ELSE
               [op |-> "restore", pc |-> "login", token |-> store.token, client |-> c]]
      BY <1>5 DEF RestartBot
  <2> DEFINE x == [op |-> "restore", pc |-> "login", token |-> store.token, client |-> c]
  <2>2. x \in CallState /\ CallIsSound(x) /\ x.pc = "login" /\ x.client = c
      BY <1>4 DEF CallState, CallIsSound, HasClient
  <2>3. botCall'[k] = x /\ \A j \in BotCalls \ {k} : botCall'[j] = NoBotCall
      BY <2>1
  <2> HIDE DEF x
  <2>4. botCall' \in [BotCalls -> CallState]
    <3>1. botCall' = [j \in BotCalls |-> IF j # k THEN NoBotCall ELSE x]
        BY <2>1 DEF x
    <3> QED
        BY <2>2, <3>1, NoCallUnderWay
  <2>5. CallsAreSound'
    <3>1. ASSUME NEW j \in BotCalls PROVE CallIsSound(botCall'[j])
        BY <2>2, <2>3, NoCallUnderWay
    <3> QED
        BY <3>1 DEF CallsAreSound, CallIsSound
  <2>6. /\ client' \in [Clients -> ClientLives] /\ client'[c] = "login"
        /\ \A d \in Clients \ {c} : client'[d] = "unused"
      BY <2>1 DEF ClientLives
  <2>7. bot' \in Bot /\ bot'.client = c /\ bot'.token /\ bot'.enabled
      BY <2>1 DEF Bot
  <2>8. RuntimeTypeOK'
      BY <1>1, <1>2, <1>3, <2>4, <2>5, <2>6, <2>7, RuntimeTypesAgain
  <2>9. LoginsAreAwaited'
    <3>1. ASSUME NEW d \in Clients, client'[d] = "login"
          PROVE  \E j \in BotCalls : botCall'[j].pc = "login" /\ botCall'[j].client = d
        BY <2>2, <2>3, <2>6, <3>1
    <3> QED
        BY <3>1 DEF LoginsAreAwaited, At
  <2>10. OneClient'
      BY <2>6, <2>7 DEF OneClient, Live
  <2>11. StatusFollows'
      BY <1>1, <1>5, <2>7 DEF StatusFollows
  <2> QED
      BY <2>5, <2>8, <2>9, <2>10, <2>11 DEF RuntimeInv
<1>6. CASE ~(store.token # Nothing /\ store.on)
  <2>1. /\ client' = fresh /\ bot' = [Stopped EXCEPT !.token = store.token # Nothing]
        /\ botCall' = [j \in BotCalls |-> NoBotCall]
      BY <1>6 DEF RestartBot
  <2>2. botCall' \in [BotCalls -> CallState] /\ \A j \in BotCalls : botCall'[j] = NoBotCall
      BY <2>1, NoCallUnderWay
  <2>3. CallsAreSound'
    <3>1. ASSUME NEW j \in BotCalls PROVE CallIsSound(botCall'[j])
        BY <2>2, NoCallUnderWay
    <3> QED
        BY <3>1 DEF CallsAreSound, CallIsSound
  <2>4. client' \in [Clients -> ClientLives] /\ \A c \in Clients : client'[c] = "unused"
      BY <2>1 DEF ClientLives
  <2>5. bot' \in Bot /\ ~bot'.enabled /\ (bot'.token <=> store.token # Nothing)
      BY <2>1 DEF Bot, Stopped
  <2>6. RuntimeTypeOK'
      BY <1>1, <1>2, <1>3, <2>2, <2>3, <2>4, <2>5, RuntimeTypesAgain
  <2>7. LoginsAreAwaited' /\ OneClient'
      BY <2>4 DEF LoginsAreAwaited, OneClient, Live
  <2>8. StatusFollows'
      BY <1>1, <1>6, <2>2, <2>5, NoCallUnderWay DEF StatusFollows
  <2> QED
      BY <2>3, <2>6, <2>7, <2>8 DEF RuntimeInv
<1> QED
    BY <1>5, <1>6

LEMMA RuntimeStarts == ASSUME RuntimeInit PROVE RuntimeInv
<1>1. /\ store = [token |-> Nothing, on |-> TRUE] /\ bot = Stopped /\ client = [c \in Clients |-> "unused"]
      /\ botCall = [k \in BotCalls |-> NoBotCall] /\ made = 0 /\ mishaps = {}
    BY DEF RuntimeInit
<1>2. store \in Store /\ store.token = Nothing
    BY <1>1 DEF Store
<1>3. bot \in Bot /\ ~bot.token /\ ~bot.enabled
    BY <1>1 DEF Bot, Stopped
<1>4. client \in [Clients -> ClientLives] /\ \A c \in Clients : client[c] = "unused"
    BY <1>1 DEF ClientLives
<1>5. botCall \in [BotCalls -> CallState] /\ \A k \in BotCalls : botCall[k] = NoBotCall
    BY <1>1, NoCallUnderWay
<1>6. CallsAreSound
    BY <1>5, NoCallUnderWay DEF CallsAreSound
<1>7. made \in 0..MaxBotCalls /\ mishaps = {}
    BY <1>1, RuntimeAssumption
<1>8. \A k \in BotCalls : botCall[k].client \in Clients <=> botCall[k].pc \in HasClient
    BY <1>6 DEF CallsAreSound, CallIsSound
<1>9. RuntimeTypeOK
    BY <1>2, <1>3, <1>4, <1>5, <1>7, <1>8 DEF RuntimeTypeOK, ClientLives, CallState, HasClient
<1>10. LoginsAreAwaited /\ OneClient
    BY <1>4 DEF LoginsAreAwaited, OneClient, Live
<1>11. StatusFollows
    BY <1>2, <1>3, <1>5, NoCallUnderWay DEF StatusFollows
<1> QED
    BY <1>6, <1>9, <1>10, <1>11 DEF RuntimeInv

LEMMA RuntimeSteps == ASSUME RuntimeInv, [RuntimeNext]_runtimeVars PROVE RuntimeInv'
<1>1. ASSUME NEW k \in BotCalls, \E op \in Operations, token \in BotTokens \cup {Nothing} : Begin(k, op, token)
      PROVE  RuntimeInv'
    BY <1>1, BeginKeeps
<1>2. ASSUME NEW k \in BotCalls, Reconnect(k) \/ PauseBot(k) \/ Disconnect(k) \/ RestartBot(k)
      PROVE  RuntimeInv'
    BY <1>2, ReconnectKeeps, PauseBotKeeps, DisconnectKeeps, RestartBotKeeps
<1>3. ASSUME NEW k \in BotCalls, Ready(k) \/ LoadStates(k) \/ Register(k) \/ ConnectFails(k)
      PROVE  RuntimeInv'
    BY <1>3, ReadyKeeps, LoadStatesKeeps, RegisterKeeps, ConnectFailsKeeps
<1>4. CASE UNCHANGED runtimeVars
  <2>1. UNCHANGED <<store, bot, client, botCall, made, mishaps>>
      BY <1>4 DEF runtimeVars
  <2> QED
      BY ZenonT(60), <2>1 DEF RuntimeInv, RuntimeTypeOK, LoginsAreAwaited, At, CallsAreSound, CallIsSound, OneClient, Live,
                  StatusFollows
<1> QED
    BY <1>1, <1>2, <1>3, <1>4 DEF RuntimeNext

-----------------------------------------------------------------------------
(* The bot's client: theorems. *)

\* The invariant of the bot's client holds initially, and every step keeps it.
THEOREM RuntimeInductive == RuntimeSpec => []RuntimeInv
<1>1. RuntimeInit => RuntimeInv
    BY RuntimeStarts
<1>2. RuntimeInv /\ [RuntimeNext]_runtimeVars => RuntimeInv'
    BY RuntimeSteps
<1> QED
    BY <1>1, <1>2, PTL DEF RuntimeSpec

\* Every variable of the bot's client has its type; exactly the calls that are connecting
\* know a client of their own.
THEOREM RuntimeIsTyped == RuntimeSpec => []RuntimeTypeOK
<1>1. RuntimeInv => RuntimeTypeOK
    BY DEF RuntimeInv
<1> QED
    BY <1>1, RuntimeInductive, PTL

LEMMA OffIsOff == RuntimeInv => OffMeansOff
<1>1. ASSUME RuntimeInv, Settled, "late failure" \notin mishaps
      PROVE  Live \subseteq {bot.client} /\ (Live # {} => bot.enabled)
  <2>1. ASSUME NEW c \in Live PROVE client[c] = "ready"
    <3>1. client[c] # "login"
      <4>1. ASSUME client[c] = "login" PROVE FALSE
        <5>1. PICK k \in BotCalls : botCall[k].pc = "login" /\ botCall[k].client = c
            BY <1>1, <2>1, <4>1 DEF RuntimeInv, LoginsAreAwaited, At, Live
        <5>2. botCall[k] # NoBotCall
            BY <5>1, NoCallUnderWay
        <5> QED
            BY <1>1, <4>1, <5>1, <5>2 DEF Settled, Idle, At
      <4> QED
          BY <4>1
    <3> QED
        BY <2>1, <3>1 DEF Live
  <2> QED
      BY <1>1, <2>1 DEF RuntimeInv, OneClient, Live
<1>2. RuntimeInv => NoStrayClient
    BY <1>1 DEF NoStrayClient
<1>3. RuntimeInv => StatusIsStored
    BY DEF RuntimeInv, StatusFollows, StatusIsStored
<1> QED
    BY <1>2, <1>3 DEF OffMeansOff

\* However the calls of several windows interleave: once they are answered, a client that
\* runs is the current one and the bot is on, and the status is what the files say.
THEOREM OffStaysOff == RuntimeSpec => []OffMeansOff
BY OffIsOff, RuntimeInductive, PTL
=============================================================================
