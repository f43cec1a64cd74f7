----------------------------- MODULE MainService -----------------------------
(***************************************************************************)
(* The life of the DroidLink server service: MainService.java with the     *)
(* native start and stop of droidlink.c, the permission activities that    *)
(* answer it (InputRequestActivity, WriteStorageRequestActivity,           *)
(* MediaProjectionRequestActivity) and the ServerActivity that drives it.  *)
(*                                                                         *)
(* Everything here runs on the main thread of one Android process, one     *)
(* message at a time, so an action is one callback run to its end.  What   *)
(* is concurrent is the order of the messages: intents, stops asked of     *)
(* Android, broadcasts back to the activity, answers of the user, and the  *)
(* disturbances of the environment.  A disturbance is allowed only when    *)
(* its name is in Disturbances, and MaxDisturbances bounds how many happen *)
(* in one behaviour.                                                       *)
(***************************************************************************)
EXTENDS Integers, Sequences

CONSTANTS
  Arguments,       \* port and view-only setting a START request may carry
  DefaultPort,     \* Defaults.port, used when a preference is missing
  Disturbances,    \* names of the environment events that may happen
  MaxDisturbances, \* bound on their number
  NoServer         \* stands for a port when there is no server

ASSUME ArgumentsAssumption == Arguments \subseteq [port : Int, viewOnly : BOOLEAN]
ASSUME PortsAssumption == DefaultPort \in Int /\ NoServer \notin Int
ASSUME BoundAssumption == MaxDisturbances \in Nat

VARIABLES
  started,      \* Android: a start of the service is in force
  redeliver,    \* Android: the intent to hand out again after process death
  serviceQ,     \* messages of Android to the service, in order
  alive,        \* MainService.instance # null
  granted,      \* mResultCode # 0 and mResultData # null
  stoppingByUs, \* mIsStoppingByUs
  capture,      \* mMediaProjection and mVirtualDisplay
  theScreen,    \* droidlink.c: the port served, or NoServer
  nsd,          \* the port advertised by registerNSD, or NoServer
  inputEnabled, \* InputService.isEnabled
  prefs,        \* the arguments persisted by the last accepted START
  dialogs,      \* how many permission activities of each kind wait
  broadcasts,   \* broadcasts on their way to the ServerActivity
  ui,           \* the ServerActivity: shown, mIsMainServiceRunning, button
  keyIsDefault, \* the access key kept by the ServerActivity is the default
  budget        \* disturbances still allowed

svcVars == <<alive, granted, stoppingByUs, capture, theScreen, nsd>>
vars == <<started, redeliver, serviceQ, svcVars, inputEnabled, prefs, dialogs,
          broadcasts, ui, keyIsDefault, budget>>

-----------------------------------------------------------------------------
(* Data *)

Actions == {"START", "STOP", "CONNECT", "INPUT_RESULT", "STORAGE_RESULT",
            "PROJECTION_RESULT", "OTHER"}

\* key: the access key is the one the service expects.  port: of a START.
\* flag: view-only of a START, the answer of the user in a result.
Intents == [action : Actions, key : BOOLEAN, port : Int, flag : BOOLEAN]
Intent(a, key, flag) ==
  [action |-> a, key |-> key, port |-> DefaultPort, flag |-> flag]
StartIntent(key, arg) ==
  [action |-> "START", key |-> key, port |-> arg.port, flag |-> arg.viewOnly]

NoIntent ==
  [action |-> "none", key |-> FALSE, port |-> DefaultPort, flag |-> FALSE]

Create  == [kind |-> "create",  intent |-> NoIntent]
Destroy == [kind |-> "destroy", intent |-> NoIntent]
Command(i) == [kind |-> "command", intent |-> i]
Messages == [kind : {"create", "destroy", "command"}, intent : Intents \cup {NoIntent}]

DialogKinds == {"inputViewOnly", "input", "storage", "projection"}

Answer(a, success) == [action |-> a, success |-> success]
Answers == [action : {"START", "STOP"}, success : BOOLEAN]

active == theScreen # NoServer

-----------------------------------------------------------------------------
(* Android: starting and stopping the service, the environment's budget *)

\* The stop of the running instance has been asked for and is on its way.
StopPending == \E n \in DOMAIN serviceQ : serviceQ[n].kind = "destroy"

\* startService from outside the service: a service that is not started is
\* created first.
StartService(i) ==
  /\ serviceQ' = serviceQ \o (IF started THEN <<Command(i)>>
                                         ELSE <<Create, Command(i)>>)
  /\ started' = TRUE

Disturb(name) ==
  /\ name \in Disturbances
  /\ budget > 0
  /\ budget' = budget - 1

\* Only the receiver registered by a live ServerActivity gets a broadcast.
SendBroadcast(answer) ==
  broadcasts' = IF ui.shown THEN Append(broadcasts, answer) ELSE broadcasts

LaunchDialog(k) == dialogs' = [dialogs EXCEPT ![k] = @ + 1]

-----------------------------------------------------------------------------
(* MainService *)

\* The next message is a command with this action and the expected key.
Received(a) ==
  /\ serviceQ # <<>>
  /\ Head(serviceQ).kind = "command"
  /\ Head(serviceQ).intent.action = a
  /\ Head(serviceQ).intent.key

intent == Head(serviceQ).intent

Consume == serviceQ' = Tail(serviceQ) /\ UNCHANGED started

\* A return of START_REDELIVER_INTENT, void when the service is being stopped.
RedeliverIntent == redeliver' = IF StopPending THEN redeliver ELSE intent

\* A return of START_NOT_STICKY: what Android would redeliver is unchanged.
NotSticky == UNCHANGED redeliver

\* stopSelf() of an instance Android already stops has no effect.
StopSelfByUs ==
  /\ stoppingByUs' = TRUE
  /\ IF StopPending
     THEN Consume /\ UNCHANGED redeliver
     ELSE /\ serviceQ' = Append(Tail(serviceQ), Destroy)
          /\ started' = FALSE
          /\ redeliver' = NoIntent

\* vncStopServer(), stopScreenCapture() and unregisterService(): what onDestroy
\* takes down.  Mutants: each forgotten.
KeepServer == UNCHANGED theScreen
StopServer == theScreen' = NoServer
KeepCapture == UNCHANGED capture
StopScreenCapture == capture' = "none"
KeepNSD == UNCHANGED nsd
UnregisterNSD == nsd' = NoServer

OnCreate ==
  /\ serviceQ # <<>>
  /\ Head(serviceQ).kind = "create"
  /\ Consume
  /\ alive' = TRUE
  /\ UNCHANGED <<redeliver, granted, stoppingByUs, capture, theScreen, nsd,
                 inputEnabled, prefs, dialogs, broadcasts, ui, keyIsDefault, budget>>

\* The activity is told of a stop the service has not asked for itself.
\* Mutant: it is not.
SilentStop == UNCHANGED broadcasts
TellStop == IF ~stoppingByUs /\ active
            THEN SendBroadcast(Answer("STOP", TRUE))
            ELSE UNCHANGED broadcasts

OnDestroy ==
  /\ serviceQ # <<>>
  /\ Head(serviceQ).kind = "destroy"
  /\ Consume
  /\ TellStop
  /\ UnregisterNSD
  /\ StopScreenCapture
  /\ StopServer
  /\ alive' = FALSE
  /\ granted' = FALSE        \* the fields go with the instance
  /\ stoppingByUs' = FALSE
  /\ UNCHANGED <<redeliver, inputEnabled, prefs, dialogs, ui, keyIsDefault, budget>>

\* Access key missing or incorrect.
RejectCommand ==
  /\ serviceQ # <<>>
  /\ Head(serviceQ).kind = "command"
  /\ ~intent.key
  /\ IF active
     THEN Consume /\ NotSticky /\ UNCHANGED stoppingByUs
     ELSE StopSelfByUs
  /\ UNCHANGED <<alive, granted, capture, theScreen, nsd, inputEnabled, prefs,
                 dialogs, broadcasts, ui, keyIsDefault, budget>>

\* startScreenCapture(), ok when the user has granted it.  "projection" is a media
\* projection without a virtual display: Android refused the display, or has
\* ended the projection since.  A refusal asks the user again.
StartScreenCapture(ok) ==
  \/ /\ capture = "none" /\ ~ok
     /\ UNCHANGED <<capture, dialogs, budget>>
  \/ /\ capture # "none" \/ ok
     /\ capture' = "display"
     /\ UNCHANGED <<dialogs, budget>>
  \/ /\ capture # "none" \/ ok
     /\ Disturb("security")
     /\ capture' \in (IF capture = "none" THEN {"none"} ELSE {}) \cup {"projection"}
     /\ LaunchDialog("projection")

\* vncStartServer() fails when there is a screen already or a socket cannot be
\* bound; otherwise the server listens on the port read from a preferences
\* file START does not write, that is on the default.
StartServer(ok) ==
  \/ /\ ~active
     /\ theScreen' = DefaultPort
     /\ SendBroadcast(Answer("START", TRUE))
     /\ StartScreenCapture(ok)
     /\ nsd' = IF DefaultPort < 0 THEN NoServer ELSE DefaultPort
     /\ Consume
     /\ RedeliverIntent
     /\ UNCHANGED stoppingByUs
  \/ /\ \/ active /\ UNCHANGED budget
        \/ ~active /\ DefaultPort # -1 /\ Disturb("busyPort")
     /\ SendBroadcast(Answer("START", FALSE))
     /\ StopSelfByUs
     /\ UNCHANGED <<theScreen, capture, nsd, dialogs>>

HandleMediaProjectionResult ==
  /\ Received("PROJECTION_RESULT")
  /\ granted' = intent.flag
  /\ StartServer(intent.flag)
  /\ UNCHANGED <<alive, inputEnabled, prefs, ui, keyIsDefault>>

HandleWriteStorageResult ==
  /\ Received("STORAGE_RESULT")
  /\ \/ /\ granted
        /\ StartServer(TRUE)
     \/ /\ ~granted
        /\ LaunchDialog("projection")
        /\ Consume /\ NotSticky
        /\ UNCHANGED <<stoppingByUs, capture, theScreen, nsd, broadcasts, budget>>
  /\ UNCHANGED <<alive, granted, inputEnabled, prefs, ui, keyIsDefault>>

HandleInputResult ==
  /\ Received("INPUT_RESULT")
  /\ inputEnabled' = intent.flag
  /\ LaunchDialog("storage")
  /\ Consume /\ NotSticky
  /\ UNCHANGED <<svcVars, prefs, broadcasts, ui, keyIsDefault, budget>>

\* The arguments of an accepted START are persisted, and the user is asked for the
\* input permission unless the server is to be view-only.
\* Mutant: view-only is not passed on.
Persist == prefs' = [port |-> intent.port, viewOnly |-> intent.flag]
AskAlways == LaunchDialog("input")
AskForInput == LaunchDialog(IF intent.flag THEN "inputViewOnly" ELSE "input")

HandleStart ==
  /\ Received("START")
  /\ Consume /\ NotSticky
  /\ IF active
     THEN /\ SendBroadcast(Answer("START", FALSE))
          /\ UNCHANGED <<prefs, dialogs>>
     ELSE /\ Persist
          /\ AskForInput
          /\ UNCHANGED broadcasts
  /\ UNCHANGED <<svcVars, inputEnabled, ui, keyIsDefault, budget>>

\* The answer is given before onDestroy has stopped the server.
HandleStop ==
  /\ Received("STOP")
  /\ StopSelfByUs
  /\ SendBroadcast(Answer("STOP", active))
  /\ UNCHANGED <<alive, granted, capture, theScreen, nsd, inputEnabled, prefs,
                 dialogs, ui, keyIsDefault, budget>>

\* CONNECT_REVERSE and CONNECT_REPEATER (their answers only raise a toast), and
\* an unknown action: each stops a service whose server is not active.
HandleConnectOrOther ==
  /\ Received("CONNECT") \/ Received("OTHER")
  /\ IF active
     THEN Consume /\ NotSticky /\ UNCHANGED stoppingByUs
     ELSE StopSelfByUs
  /\ UNCHANGED <<alive, granted, capture, theScreen, nsd, inputEnabled, prefs,
                 dialogs, broadcasts, ui, keyIsDefault, budget>>

\* Mutant: the grant is not looked at.
CaptureUngranted ==
  /\ "rotate" \in Disturbances
  /\ alive
  /\ StartScreenCapture(TRUE)
  /\ UNCHANGED <<started, redeliver, serviceQ, alive, granted, stoppingByUs,
                 theScreen, nsd, inputEnabled, prefs, broadcasts, ui, keyIsDefault>>

\* onConfigurationChanged, and the workaround toggle posted by InputService.
OnConfigurationChanged ==
  /\ "rotate" \in Disturbances
  /\ alive
  /\ StartScreenCapture(granted)
  /\ UNCHANGED <<started, redeliver, serviceQ, alive, granted, stoppingByUs,
                 theScreen, nsd, inputEnabled, prefs, broadcasts, ui, keyIsDefault>>

-----------------------------------------------------------------------------
(* The permission activities: each posts the answer of the user *)

\* The preferences file the activities take the access key from is never
\* written, so they post the default key, the one the service expects.
PostAnswer(kinds, a, flags) ==
  \E k \in kinds, flag \in flags :
    /\ dialogs[k] > 0
    /\ dialogs' = [dialogs EXCEPT ![k] = @ - 1]
    /\ StartService(Intent(a, TRUE, flag))
    /\ UNCHANGED <<redeliver, svcVars, inputEnabled, prefs, broadcasts, ui,
                   keyIsDefault, budget>>

\* View-only is answered without bothering the user.
AnswerViewOnly   == PostAnswer({"inputViewOnly"}, "INPUT_RESULT", {FALSE})
AnswerInput      == PostAnswer({"input"}, "INPUT_RESULT", BOOLEAN)
AnswerStorage    == PostAnswer({"storage"}, "STORAGE_RESULT", BOOLEAN)
AnswerProjection == PostAnswer({"projection"}, "PROJECTION_RESULT", BOOLEAN)

\* A cancelled input dialog, or a media permission refused on Android 13 and
\* later, posts nothing: the start ends there without an answer.
AbandonDialog ==
  /\ Disturb("abandon")
  /\ \E k \in {"input", "storage"} :
       /\ dialogs[k] > 0
       /\ dialogs' = [dialogs EXCEPT ![k] = @ - 1]
  /\ UNCHANGED <<started, redeliver, serviceQ, svcVars, inputEnabled, prefs,
                 broadcasts, ui, keyIsDefault>>

\* A rotation re-creates a waiting activity: its onCreate asks once more, and
\* both answers come back.
RecreateDialog ==
  /\ Disturb("recreate")
  /\ \E k \in {"input", "projection"} : dialogs[k] > 0 /\ LaunchDialog(k)
  /\ UNCHANGED <<started, redeliver, serviceQ, svcVars, inputEnabled, prefs,
                 broadcasts, ui, keyIsDefault>>

-----------------------------------------------------------------------------
(* ServerActivity *)

HiddenUi == [shown |-> FALSE, running |-> FALSE, enabled |-> FALSE]
ShowUi(running) == [shown |-> TRUE, running |-> running, enabled |-> TRUE]

\* What a created activity shows.  Mutant: a server is not looked for.
ShowStopped == ui' = ShowUi(FALSE)
ShowFound == ui' = ShowUi(alive /\ active)

\* onCreate: register the receiver and look whether there is a server.
UiCreate ==
  /\ ~ui.shown
  /\ ShowFound
  /\ UNCHANGED <<started, redeliver, serviceQ, svcVars, inputEnabled, prefs,
                 dialogs, broadcasts, keyIsDefault, budget>>

\* onDestroy: unregister the receiver.
UiDestroy ==
  /\ Disturb("recreate")
  /\ ui.shown
  /\ ui' = HiddenUi
  /\ broadcasts' = <<>>
  /\ UNCHANGED <<started, redeliver, serviceQ, svcVars, inputEnabled, prefs,
                 dialogs, keyIsDefault>>

ClickToggle ==
  /\ ui.shown /\ ui.enabled
  /\ ui' = [ui EXCEPT !.enabled = FALSE]
  /\ \/ /\ ui.running
        /\ StartService(Intent("STOP", keyIsDefault, FALSE))
     \/ /\ ~ui.running
        /\ \E arg \in Arguments : StartService(StartIntent(keyIsDefault, arg))
  /\ UNCHANGED <<redeliver, svcVars, inputEnabled, prefs, dialogs, broadcasts,
                 keyIsDefault, budget>>

\* A STOP answered with failure is ignored.  Mutant: so is a START.
ShownIfSuccess(answer) ==
  IF answer.success THEN ShowUi(answer.action = "START") ELSE ui
Shown(answer) ==
  IF answer.success THEN ShowUi(answer.action = "START")
  ELSE IF answer.action = "START" THEN [ui EXCEPT !.enabled = TRUE] ELSE ui

OnReceive ==
  /\ broadcasts # <<>>
  /\ broadcasts' = Tail(broadcasts)
  /\ ui' = Shown(Head(broadcasts))
  /\ UNCHANGED <<started, redeliver, serviceQ, svcVars, inputEnabled, prefs,
                 dialogs, keyIsDefault, budget>>

\* The dialog of "reverse VNC" or "repeater" is confirmed.
ConnectRequest ==
  /\ Disturb("connect")
  /\ ui.shown
  /\ StartService(Intent("CONNECT", keyIsDefault, FALSE))
  /\ UNCHANGED <<redeliver, svcVars, inputEnabled, prefs, dialogs, broadcasts,
                 ui, keyIsDefault>>

\* A click on a permission shown as denied opens its activity, server running
\* or not.
ClickPermissionLabel ==
  /\ Disturb("label")
  /\ ui.shown
  /\ \E k \in {"input", "storage"} : LaunchDialog(k)
  /\ UNCHANGED <<started, redeliver, serviceQ, svcVars, inputEnabled, prefs,
                 broadcasts, ui, keyIsDefault>>

\* The access key field, editable while the server is shown as stopped.  It is
\* kept in a preferences file the service does not read.
EditAccessKey ==
  /\ Disturb("rekey")
  /\ ui.shown /\ ~ui.running
  /\ keyIsDefault' = ~keyIsDefault
  /\ UNCHANGED <<started, redeliver, serviceQ, svcVars, inputEnabled, prefs,
                 dialogs, broadcasts, ui>>

-----------------------------------------------------------------------------
(* The environment *)

\* Another component may start the exported service with any command.
ForeignStartService ==
  /\ Disturb("foreign")
  /\ \E a \in {"START", "STOP", "OTHER"}, key \in BOOLEAN :
       StartService(Intent(a, key, FALSE))
  /\ UNCHANGED <<redeliver, svcVars, inputEnabled, prefs, dialogs, broadcasts,
                 ui, keyIsDefault>>

\* stopService() from the OS or another component.
OsStopService ==
  /\ Disturb("osStop")
  /\ started
  /\ started' = FALSE
  /\ redeliver' = NoIntent
  /\ serviceQ' = Append(serviceQ, Destroy)
  /\ UNCHANGED <<svcVars, inputEnabled, prefs, dialogs, broadcasts, ui, keyIsDefault>>

\* The system ends the projection; the service registers no callback for it.
RevokeProjection ==
  /\ Disturb("revoke")
  /\ capture = "display"
  /\ capture' = "projection"
  /\ UNCHANGED <<started, redeliver, serviceQ, alive, granted, stoppingByUs,
                 theScreen, nsd, inputEnabled, prefs, dialogs, broadcasts, ui,
                 keyIsDefault>>

\* What Android hands to the service it re-creates after process death: the
\* intent marked for redelivery and rest, the commands not carried out.
Restarted(rest) ==
  LET again == IF redeliver = NoIntent THEN <<>> ELSE <<Command(redeliver)>>
  IN IF ~started \/ again \o rest = <<>>
     THEN <<>>
     ELSE IF rest # <<>> /\ rest[1].kind = "create"
          THEN rest
          ELSE <<Create>> \o again \o rest

\* The process is killed.  What follows the last destruction in the queue was not
\* carried out.  The permission activities may come back.
ProcessDeath ==
  /\ Disturb("kill")
  /\ \E k \in {0} \cup {n \in DOMAIN serviceQ : serviceQ[n].kind = "destroy"} :
       LET rest == SubSeq(serviceQ, k + 1, Len(serviceQ)) IN
       /\ \A n \in (k + 1)..Len(serviceQ) : serviceQ[n].kind # "destroy"
       /\ serviceQ' = Restarted(rest)
       /\ started' = (Restarted(rest) # <<>>)
  /\ redeliver' = NoIntent
  /\ alive' = FALSE
  /\ granted' = FALSE
  /\ stoppingByUs' = FALSE
  /\ capture' = "none"
  /\ theScreen' = NoServer
  /\ nsd' = NoServer
  /\ inputEnabled' = FALSE
  /\ broadcasts' = <<>>
  /\ ui' = HiddenUi
  /\ dialogs' \in {dialogs, [k \in DialogKinds |-> 0]}
  /\ UNCHANGED <<prefs, keyIsDefault>>

-----------------------------------------------------------------------------
Init ==
  /\ started = FALSE
  /\ redeliver = NoIntent
  /\ serviceQ = <<>>
  /\ alive = FALSE
  /\ granted = FALSE
  /\ stoppingByUs = FALSE
  /\ capture = "none"
  /\ theScreen = NoServer
  /\ nsd = NoServer
  /\ inputEnabled = FALSE
  /\ prefs = [port |-> DefaultPort, viewOnly |-> FALSE]
  /\ dialogs = [k \in DialogKinds |-> 0]
  /\ broadcasts = <<>>
  /\ ui = ShowUi(FALSE)
  /\ keyIsDefault = TRUE
  /\ budget = MaxDisturbances

\* The callbacks Android makes into the service.
ServiceStep ==
  \/ OnCreate \/ OnDestroy \/ RejectCommand
  \/ HandleMediaProjectionResult \/ HandleWriteStorageResult
  \/ HandleInputResult \/ HandleStart \/ HandleStop \/ HandleConnectOrOther

DialogStep == AnswerViewOnly \/ AnswerInput \/ AnswerStorage \/ AnswerProjection

Next ==
  \/ ServiceStep
  \/ DialogStep
  \/ OnReceive \/ ClickToggle \/ UiCreate \/ UiDestroy
  \/ OnConfigurationChanged \/ AbandonDialog \/ RecreateDialog
  \/ ConnectRequest \/ ClickPermissionLabel \/ EditAccessKey
  \/ ForeignStartService \/ OsStopService \/ RevokeProjection \/ ProcessDeath

Spec == Init /\ [][Next]_vars

\* The main thread runs what is queued, broadcasts arrive, and the user answers
\* every dialog; clicks and disturbances need never happen.
Fairness == WF_vars(ServiceStep) /\ WF_vars(OnReceive) /\ WF_vars(DialogStep)

FairSpec == Spec /\ Fairness

-----------------------------------------------------------------------------
(* Properties *)

TypeOK ==
  /\ started \in BOOLEAN
  /\ redeliver \in Intents \cup {NoIntent}
  /\ serviceQ \in Seq(Messages)
  /\ alive \in BOOLEAN
  /\ granted \in BOOLEAN
  /\ stoppingByUs \in BOOLEAN
  /\ capture \in {"none", "projection", "display"}
  /\ theScreen \in Int \cup {NoServer}
  /\ nsd \in Int \cup {NoServer}
  /\ inputEnabled \in BOOLEAN
  /\ prefs \in [port : Int, viewOnly : BOOLEAN]
  /\ dialogs \in [DialogKinds -> Nat]
  /\ broadcasts \in Seq(Answers)
  /\ ui \in [shown : BOOLEAN, running : BOOLEAN, enabled : BOOLEAN]
  /\ keyIsDefault \in BOOLEAN
  /\ budget \in 0..MaxDisturbances

\* The native server lives inside the service: once onDestroy has run there is
\* no server left that only a killed process could stop.
ServerHasService == active => alive

\* The screen is captured only while there is a server or the service is about to
\* be destroyed: a rotation of the device (onConfigurationChanged) never starts a
\* capture with a grant that some earlier start has left behind.
CaptureNeedsServer == capture # "none" => active \/ StopPending

\* What registerNSD advertises in the network is the port being served.
AdvertisedIsServed == nsd # NoServer => nsd = theScreen

\* "if screen capturing was not started, we don't want a restart if we were
\* killed": Android redelivers only to a service whose server runs, and what it
\* redelivers is the step that starts the server, not one that asks the user.
RestartOnlyIfServing ==
  redeliver # NoIntent =>
    active /\ started /\ ~StopPending /\ redeliver.action = "PROJECTION_RESULT"

\* Nothing is on its way between the service and the activity.
Settled == serviceQ = <<>> /\ broadcasts = <<>> /\ ui.shown

\* A running server can be stopped from the activity: when all messages have
\* arrived, the button of a shown ServerActivity says Stop.
StopOffered == Settled /\ active => ui.running

\* The button says Stop exactly when there is a server to stop.
UiAgrees == Settled => (ui.running <=> active)

\* A server started view-only takes no input.
ViewOnlyHonoured == active /\ prefs.viewOnly => ~inputEnabled

\* Every click on the button is answered: the button is disabled by the click
\* and some broadcast enables it again.
ToggleAnswered == ui.shown /\ ~ui.enabled ~> ui.enabled \/ ~ui.shown

\* The server runs with the port that START persisted "to be able to recover
\* from possible crash later" (MainService.java:382).
ServesPersistedPort == active => theScreen = prefs.port

\* "coming back from capturing permission check, now starting capturing
\* machinery" (MainService.java:274): a confirmation the service has asked for
\* does not stop a running service.
ConfirmationKeepsServer ==
  [][HandleMediaProjectionResult /\ intent.flag /\ active /\ started => started']_vars

-----------------------------------------------------------------------------
(* The inductive invariant behind the safety properties *)

\* Creations and destructions alternate in the queue, commands are only found
\* where the service exists, and a start is in force when the service will exist
\* once the queue is carried out.
QueueShape ==
  /\ serviceQ # <<>> => ((serviceQ[1].kind = "create") <=> ~alive)
  /\ \A n \in 1..(Len(serviceQ) - 1) :
       (serviceQ[n].kind = "destroy") <=> (serviceQ[n + 1].kind = "create")
  /\ started <=> IF serviceQ = <<>> THEN alive
                 ELSE serviceQ[Len(serviceQ)].kind # "destroy"

\* A grant outlives the server only in an instance that is being stopped: the
\* storage result then starts a server that onDestroy takes down at once.
GrantNeedsServer ==
  capture # "none" \/ granted => alive /\ (active \/ StopPending)

\* The broadcasts on their way leave the button at Stop.
WillSayStop ==
  LET Says(n, a) == broadcasts[n] = Answer(a, TRUE) IN
  /\ ui.running \/ \E n \in DOMAIN broadcasts : Says(n, "START")
  /\ \A n \in DOMAIN broadcasts :
       Says(n, "STOP") => \E m \in DOMAIN broadcasts : m > n /\ Says(m, "START")

\* Every server that is not being stopped has told the activity that it runs, and
\* nothing sent after that says otherwise.
ServerAnnounced == ui.shown /\ active /\ ~StopPending => WillSayStop

IInv ==
  /\ QueueShape
  /\ ServerHasService
  /\ GrantNeedsServer
  /\ AdvertisedIsServed
  /\ RestartOnlyIfServing
  /\ ~ui.shown => broadcasts = <<>>
  /\ ServerAnnounced
=============================================================================
