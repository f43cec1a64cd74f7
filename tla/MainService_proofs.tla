------------------------- MODULE MainService_proofs -------------------------
(***************************************************************************)
(* Proofs about MainService, for every set of START arguments, every set   *)
(* of disturbances and every bound on their number.                        *)
(***************************************************************************)
EXTENDS MainService, SequenceTheorems, TLAPS

USE DEF Actions, DialogKinds

-----------------------------------------------------------------------------
(* Types *)

LEMMA IntentTypes ==
  /\ NoIntent \in Intents \cup {NoIntent}
  /\ Create \in Messages /\ Destroy \in Messages
  /\ \A i \in Intents : Command(i) \in Messages
  /\ \A a \in Actions, key \in BOOLEAN, flag \in BOOLEAN : Intent(a, key, flag) \in Intents
  /\ \A key \in BOOLEAN, arg \in Arguments : StartIntent(key, arg) \in Intents
BY PortsAssumption, ArgumentsAssumption
   DEF NoIntent, Intents, Create, Destroy, Messages, Command, Intent, StartIntent

\* Sending an intent keeps the queue well typed.
LEMMA StartServiceType ==
  ASSUME TypeOK, NEW i \in Intents, StartService(i)
  PROVE  serviceQ' \in Seq(Messages) /\ started' \in BOOLEAN
<1>1. serviceQ \in Seq(Messages)
  BY DEF TypeOK
<1>2. <<Command(i)>> \in Seq(Messages) /\ <<Create, Command(i)>> \in Seq(Messages)
  BY IntentTypes
<1> QED
  BY <1>1, <1>2 DEF StartService

\* A stop of the service by itself keeps the queue well typed.
LEMMA StopSelfType ==
  ASSUME TypeOK, serviceQ # <<>>, StopSelfByUs
  PROVE  /\ serviceQ' \in Seq(Messages) /\ started' \in BOOLEAN
         /\ stoppingByUs' \in BOOLEAN /\ redeliver' \in Intents \cup {NoIntent}
<1>1. serviceQ \in Seq(Messages) /\ Tail(serviceQ) \in Seq(Messages)
  BY DEF TypeOK
<1>2. Append(Tail(serviceQ), Destroy) \in Seq(Messages)
  BY <1>1, IntentTypes
<1>3. started \in BOOLEAN /\ redeliver \in Intents \cup {NoIntent}
  BY DEF TypeOK
<1> QED
  BY <1>1, <1>2, <1>3 DEF StopSelfByUs, Consume

LEMMA ConsumeType ==
  ASSUME TypeOK, serviceQ # <<>>, Consume
  PROVE  serviceQ' \in Seq(Messages) /\ started' \in BOOLEAN
BY DEF TypeOK, Consume

LEMMA ReceivedType ==
  ASSUME TypeOK, serviceQ # <<>>, Head(serviceQ).kind = "command"
  PROVE  intent \in Intents \cup {NoIntent}
<1>1. serviceQ \in Seq(Messages)
  BY DEF TypeOK
<1>2. Head(serviceQ) \in Messages
  BY <1>1
<1> QED
  BY <1>2 DEF intent, Messages

LEMMA IntentFields ==
  ASSUME NEW i \in Intents \cup {NoIntent}
  PROVE  i.key \in BOOLEAN /\ i.flag \in BOOLEAN /\ i.port \in Int
<1>1. CASE i \in Intents
  BY <1>1 DEF Intents
<1>2. CASE i = NoIntent
  BY <1>2, PortsAssumption DEF NoIntent
<1> QED
  BY <1>1, <1>2

LEMMA SendBroadcastType ==
  ASSUME TypeOK, NEW a \in {"START", "STOP"}, NEW s \in BOOLEAN,
         SendBroadcast(Answer(a, s))
  PROVE  broadcasts' \in Seq(Answers)
<1>1. Answer(a, s) \in Answers
  BY DEF Answer, Answers
<1>2. broadcasts \in Seq(Answers) /\ Append(broadcasts, Answer(a, s)) \in Seq(Answers)
  BY <1>1 DEF TypeOK
<1> QED
  BY <1>2 DEF SendBroadcast

LEMMA LaunchDialogType ==
  ASSUME TypeOK, NEW k \in DialogKinds, LaunchDialog(k)
  PROVE  dialogs' \in [DialogKinds -> Nat]
BY DEF TypeOK, LaunchDialog

LEMMA DisturbType ==
  ASSUME TypeOK, NEW name, Disturb(name)
  PROVE  budget' \in 0..MaxDisturbances
BY BoundAssumption DEF TypeOK, Disturb

\* What is left after process death are messages.
LEMMA RestartedType ==
  ASSUME TypeOK, NEW k \in 0..Len(serviceQ)
  PROVE  Restarted(SubSeq(serviceQ, k + 1, Len(serviceQ))) \in Seq(Messages)
<1> DEFINE rest == SubSeq(serviceQ, k + 1, Len(serviceQ))
           again == IF redeliver = NoIntent THEN <<>> ELSE <<Command(redeliver)>>
<1>1. rest \in Seq(Messages)
  BY DEF TypeOK
<1>2. again \in Seq(Messages)
  BY IntentTypes DEF TypeOK
<1>3. <<Create>> \in Seq(Messages)
  BY IntentTypes
<1>4. <<Create>> \o again \o rest \in Seq(Messages)
  <2> HIDE DEF rest, again
  <2> QED BY <1>1, <1>2, <1>3
<1> QED
  BY <1>1, <1>4 DEF Restarted

\* startScreenCapture: what it may do to the capture, the dialogs and the budget.
LEMMA StartScreenCaptureType ==
  ASSUME TypeOK, NEW ok \in BOOLEAN, StartScreenCapture(ok)
  PROVE  /\ capture' \in {"none", "projection", "display"}
         /\ dialogs' \in [DialogKinds -> Nat] /\ budget' \in 0..MaxDisturbances
<1>1. CASE capture = "none" /\ ~ok /\ UNCHANGED <<capture, dialogs, budget>>
  BY <1>1 DEF TypeOK
<1>2. CASE capture' = "display" /\ UNCHANGED <<dialogs, budget>>
  BY <1>2 DEF TypeOK
<1>3. CASE /\ Disturb("security")
           /\ capture' \in (IF capture = "none" THEN {"none"} ELSE {}) \cup {"projection"}
           /\ LaunchDialog("projection")
  <2>1. budget' \in 0..MaxDisturbances
    BY <1>3, DisturbType
  <2>2. dialogs' \in [DialogKinds -> Nat]
    BY <1>3, LaunchDialogType
  <2> QED
    BY <1>3, <2>1, <2>2
<1> QED
  BY <1>1, <1>2, <1>3 DEF StartScreenCapture

\* vncStartServer and what follows it keep every variable they write well typed.
LEMMA StartServerType ==
  ASSUME TypeOK, NEW ok \in BOOLEAN, serviceQ # <<>>,
         Head(serviceQ).kind = "command", StartServer(ok)
  PROVE  /\ serviceQ' \in Seq(Messages) /\ started' \in BOOLEAN
         /\ stoppingByUs' \in BOOLEAN /\ redeliver' \in Intents \cup {NoIntent}
         /\ capture' \in {"none", "projection", "display"}
         /\ theScreen' \in Int \cup {NoServer} /\ nsd' \in Int \cup {NoServer}
         /\ broadcasts' \in Seq(Answers)
         /\ dialogs' \in [DialogKinds -> Nat] /\ budget' \in 0..MaxDisturbances
<1>1. CASE /\ theScreen' = DefaultPort
           /\ SendBroadcast(Answer("START", TRUE))
           /\ StartScreenCapture(ok)
           /\ nsd' = IF DefaultPort < 0 THEN NoServer ELSE DefaultPort
           /\ Consume
           /\ RedeliverIntent
           /\ UNCHANGED stoppingByUs
  <2>1. serviceQ' \in Seq(Messages) /\ started' \in BOOLEAN
    BY <1>1, ConsumeType
  <2>2. broadcasts' \in Seq(Answers)
    BY <1>1, SendBroadcastType
  <2>3. redeliver' \in Intents \cup {NoIntent}
    BY <1>1, ReceivedType DEF RedeliverIntent, TypeOK
  <2>4. theScreen' \in Int \cup {NoServer} /\ nsd' \in Int \cup {NoServer}
    BY <1>1, PortsAssumption
  <2>5. stoppingByUs' \in BOOLEAN
    BY <1>1 DEF TypeOK
  <2> QED
    BY <1>1, <2>1, <2>2, <2>3, <2>4, <2>5, StartScreenCaptureType
<1>2. CASE /\ \/ active /\ UNCHANGED budget
              \/ ~active /\ DefaultPort # -1 /\ Disturb("busyPort")
           /\ SendBroadcast(Answer("START", FALSE))
           /\ StopSelfByUs
           /\ UNCHANGED <<theScreen, capture, nsd, dialogs>>
  <2>1. budget' \in 0..MaxDisturbances
    BY <1>2, DisturbType DEF TypeOK
  <2>2. broadcasts' \in Seq(Answers)
    BY <1>2, SendBroadcastType
  <2>3. UNCHANGED <<theScreen, capture, nsd, dialogs>> /\ StopSelfByUs
    BY <1>2
  <2>4. /\ capture \in {"none", "projection", "display"}
        /\ theScreen \in Int \cup {NoServer} /\ nsd \in Int \cup {NoServer}
        /\ dialogs \in [DialogKinds -> Nat]
    BY DEF TypeOK
  <2> QED
    BY <2>1, <2>2, <2>3, <2>4, StopSelfType
<1> QED
  BY <1>1, <1>2 DEF StartServer

-----------------------------------------------------------------------------
LEMMA TypeInit == Init => TypeOK
<1> SUFFICES ASSUME Init PROVE TypeOK
  OBVIOUS
<1>1. serviceQ \in Seq(Messages) /\ broadcasts \in Seq(Answers)
  BY DEF Init
<1>2. prefs \in [port : Int, viewOnly : BOOLEAN]
  BY PortsAssumption DEF Init
<1>3. ui \in [shown : BOOLEAN, running : BOOLEAN, enabled : BOOLEAN]
  BY DEF Init, ShowUi
<1>4. budget \in 0..MaxDisturbances /\ dialogs \in [DialogKinds -> Nat]
  BY BoundAssumption DEF Init
<1>5. redeliver \in Intents \cup {NoIntent} /\ theScreen = NoServer /\ nsd = NoServer
  BY DEF Init
<1> QED
  BY <1>1, <1>2, <1>3, <1>4, <1>5 DEF Init, TypeOK

\* The commands carried out by the service.
LEMMA TypeService ==
  ASSUME TypeOK, ServiceStep
  PROVE  TypeOK'
<1>1. CASE OnCreate
  <2>1. serviceQ' \in Seq(Messages) /\ started' \in BOOLEAN
    BY <1>1, ConsumeType DEF OnCreate
  <2> QED
    BY <1>1, <2>1 DEF OnCreate, TypeOK
<1>2. CASE OnDestroy
  <2>1. serviceQ' \in Seq(Messages) /\ started' \in BOOLEAN
    BY <1>2, ConsumeType DEF OnDestroy
  <2>2. broadcasts' \in Seq(Answers)
    BY <1>2, SendBroadcastType DEF OnDestroy, TellStop, TypeOK
  <2> QED
    BY <1>2, <2>1, <2>2 DEF OnDestroy, StopServer, StopScreenCapture, UnregisterNSD, TypeOK
<1>3. CASE RejectCommand
  <2>1. CASE active
    <3>1. serviceQ' \in Seq(Messages) /\ started' \in BOOLEAN
      BY <1>3, <2>1, ConsumeType DEF RejectCommand
    <3> QED
      BY <1>3, <2>1, <3>1 DEF RejectCommand, NotSticky, TypeOK
  <2>2. CASE ~active
    <3>1. StopSelfByUs /\ serviceQ # <<>>
      BY <1>3, <2>2 DEF RejectCommand
    <3> QED
      BY <1>3, <3>1, StopSelfType DEF RejectCommand, TypeOK
  <2> QED
    BY <2>1, <2>2
<1>4. CASE HandleMediaProjectionResult
  <2>1. serviceQ # <<>> /\ Head(serviceQ).kind = "command" /\ intent.flag \in BOOLEAN
    BY <1>4, ReceivedType, IntentFields DEF HandleMediaProjectionResult, Received
  <2>2. StartServer(intent.flag)
    BY <1>4 DEF HandleMediaProjectionResult
  <2> QED
    BY <1>4, <2>1, <2>2, StartServerType DEF HandleMediaProjectionResult, TypeOK
<1>5. CASE HandleWriteStorageResult
  <2>1. serviceQ # <<>> /\ Head(serviceQ).kind = "command"
    BY <1>5 DEF HandleWriteStorageResult, Received
  <2>2. CASE StartServer(TRUE)
    BY <1>5, <2>1, <2>2, StartServerType DEF HandleWriteStorageResult, TypeOK
  <2>3. CASE /\ LaunchDialog("projection")
             /\ Consume /\ NotSticky
             /\ UNCHANGED <<stoppingByUs, capture, theScreen, nsd, broadcasts, budget>>
    <3>1. dialogs' \in [DialogKinds -> Nat]
      BY <2>3, LaunchDialogType
    <3> QED
      BY <1>5, <2>1, <2>3, <3>1, ConsumeType
      DEF HandleWriteStorageResult, NotSticky, TypeOK
  <2> QED
    BY <1>5, <2>2, <2>3 DEF HandleWriteStorageResult
<1>6. CASE HandleInputResult
  <2>1. serviceQ # <<>> /\ intent.flag \in BOOLEAN
    BY <1>6, ReceivedType, IntentFields DEF HandleInputResult, Received
  <2>2. dialogs' \in [DialogKinds -> Nat]
    BY <1>6, LaunchDialogType DEF HandleInputResult
  <2>3. serviceQ' \in Seq(Messages) /\ started' \in BOOLEAN
    BY <1>6, <2>1, ConsumeType DEF HandleInputResult
  <2> QED
    BY <1>6, <2>1, <2>2, <2>3 DEF HandleInputResult, NotSticky, svcVars, TypeOK
<1>7. CASE HandleStart
  <2>1. serviceQ # <<>> /\ intent.flag \in BOOLEAN /\ intent.port \in Int
    BY <1>7, ReceivedType, IntentFields DEF HandleStart, Received
  <2>2. serviceQ' \in Seq(Messages) /\ started' \in BOOLEAN
    BY <1>7, <2>1, ConsumeType DEF HandleStart
  <2>3. broadcasts' \in Seq(Answers)
    BY <1>7, SendBroadcastType DEF HandleStart, TypeOK
  <2>4. dialogs' \in [DialogKinds -> Nat]
    <3>1. CASE active
      BY <1>7, <3>1 DEF HandleStart, TypeOK
    <3>2. CASE ~active
      BY <1>7, <3>2, LaunchDialogType DEF HandleStart, AskForInput
    <3> QED
      BY <3>1, <3>2
  <2>5. prefs' \in [port : Int, viewOnly : BOOLEAN]
    <3>1. prefs' = prefs \/ prefs' = [port |-> intent.port, viewOnly |-> intent.flag]
      BY <1>7 DEF HandleStart, Persist
    <3>2. prefs \in [port : Int, viewOnly : BOOLEAN]
      BY DEF TypeOK
    <3> QED
      BY <2>1, <3>1, <3>2
  <2> QED
    BY <1>7, <2>2, <2>3, <2>4, <2>5 DEF HandleStart, NotSticky, svcVars, TypeOK
<1>8. CASE HandleStop
  <2>1. serviceQ # <<>> /\ StopSelfByUs
    BY <1>8 DEF HandleStop, Received
  <2>2. broadcasts' \in Seq(Answers)
    <3>1. active \in BOOLEAN
      BY DEF active
    <3> QED
      BY <1>8, <3>1, SendBroadcastType DEF HandleStop
  <2> QED
    BY <1>8, <2>1, <2>2, StopSelfType DEF HandleStop, TypeOK
<1>9. CASE HandleConnectOrOther
  <2>1. serviceQ # <<>>
    BY <1>9 DEF HandleConnectOrOther, Received
  <2>2. CASE active
    <3>1. serviceQ' \in Seq(Messages) /\ started' \in BOOLEAN
      BY <1>9, <2>1, <2>2, ConsumeType DEF HandleConnectOrOther
    <3> QED
      BY <1>9, <2>2, <3>1 DEF HandleConnectOrOther, NotSticky, TypeOK
  <2>3. CASE ~active
    <3>1. StopSelfByUs
      BY <1>9, <2>3 DEF HandleConnectOrOther
    <3> QED
      BY <1>9, <2>1, <3>1, StopSelfType DEF HandleConnectOrOther, TypeOK
  <2> QED
    BY <2>2, <2>3
<1> QED
  BY <1>1, <1>2, <1>3, <1>4, <1>5, <1>6, <1>7, <1>8, <1>9 DEF ServiceStep

\* The answers of the permission activities.
LEMMA TypeDialog ==
  ASSUME TypeOK, DialogStep
  PROVE  TypeOK'
<1>1. PICK kinds \in SUBSET DialogKinds, a \in Actions, flags \in SUBSET BOOLEAN :
        PostAnswer(kinds, a, flags)
  <2>1. CASE AnswerViewOnly
    BY <2>1 DEF AnswerViewOnly
  <2>2. CASE AnswerInput
    BY <2>2 DEF AnswerInput
  <2>3. CASE AnswerStorage
    BY <2>3 DEF AnswerStorage
  <2>4. CASE AnswerProjection
    BY <2>4 DEF AnswerProjection
  <2> QED
    BY <2>1, <2>2, <2>3, <2>4 DEF DialogStep
<1>2. PICK k \in kinds, flag \in flags :
        /\ dialogs[k] > 0
        /\ dialogs' = [dialogs EXCEPT ![k] = @ - 1]
        /\ StartService(Intent(a, TRUE, flag))
  BY <1>1 DEF PostAnswer
<1>3. Intent(a, TRUE, flag) \in Intents
  BY IntentTypes
<1>4. serviceQ' \in Seq(Messages) /\ started' \in BOOLEAN
  BY <1>2, <1>3, StartServiceType
<1>5. dialogs' \in [DialogKinds -> Nat]
  BY <1>2 DEF TypeOK
<1>6. UNCHANGED <<redeliver, svcVars, inputEnabled, prefs, broadcasts, ui,
                  keyIsDefault, budget>>
  BY <1>1 DEF PostAnswer
<1> QED
  BY <1>4, <1>5, <1>6 DEF svcVars, TypeOK

\* What the ServerActivity and its user do.
UiStep ==
  \/ OnReceive \/ ClickToggle \/ UiCreate \/ UiDestroy
  \/ ConnectRequest \/ ClickPermissionLabel \/ EditAccessKey

LEMMA TypeUi ==
  ASSUME TypeOK, UiStep
  PROVE  TypeOK'
<1>1. CASE OnReceive
  <2>1. broadcasts' \in Seq(Answers)
    BY <1>1 DEF OnReceive, TypeOK
  <2>2. ui' \in [shown : BOOLEAN, running : BOOLEAN, enabled : BOOLEAN]
    BY <1>1 DEF OnReceive, Shown, ShowUi, TypeOK
  <2> QED
    BY <1>1, <2>1, <2>2 DEF OnReceive, svcVars, TypeOK
<1>2. CASE ClickToggle
  <2>1. PICK i \in Intents : StartService(i)
    BY <1>2, IntentTypes DEF ClickToggle, TypeOK
  <2>2. serviceQ' \in Seq(Messages) /\ started' \in BOOLEAN
    BY <2>1, StartServiceType
  <2>3. ui' \in [shown : BOOLEAN, running : BOOLEAN, enabled : BOOLEAN]
    BY <1>2 DEF ClickToggle, TypeOK
  <2> QED
    BY <1>2, <2>2, <2>3 DEF ClickToggle, svcVars, TypeOK
<1>3. CASE UiCreate
  BY <1>3 DEF UiCreate, ShowFound, ShowUi, active, svcVars, TypeOK
<1>4. CASE UiDestroy
  <2>1. budget' \in 0..MaxDisturbances
    BY <1>4, DisturbType DEF UiDestroy
  <2> QED
    BY <1>4, <2>1 DEF UiDestroy, HiddenUi, svcVars, TypeOK
<1>5. CASE ConnectRequest
  <2>1. budget' \in 0..MaxDisturbances
    BY <1>5, DisturbType DEF ConnectRequest
  <2>2. Intent("CONNECT", keyIsDefault, FALSE) \in Intents
    BY IntentTypes DEF TypeOK
  <2>3. serviceQ' \in Seq(Messages) /\ started' \in BOOLEAN
    BY <1>5, <2>2, StartServiceType DEF ConnectRequest
  <2> QED
    BY <1>5, <2>1, <2>3 DEF ConnectRequest, svcVars, TypeOK
<1>6. CASE ClickPermissionLabel
  <2>1. budget' \in 0..MaxDisturbances
    BY <1>6, DisturbType DEF ClickPermissionLabel
  <2>2. dialogs' \in [DialogKinds -> Nat]
    BY <1>6, LaunchDialogType DEF ClickPermissionLabel
  <2> QED
    BY <1>6, <2>1, <2>2 DEF ClickPermissionLabel, svcVars, TypeOK
<1>7. CASE EditAccessKey
  <2>1. budget' \in 0..MaxDisturbances
    BY <1>7, DisturbType DEF EditAccessKey
  <2> QED
    BY <1>7, <2>1 DEF EditAccessKey, svcVars, TypeOK
<1> QED
  BY <1>1, <1>2, <1>3, <1>4, <1>5, <1>6, <1>7 DEF UiStep

\* What Android and other components do.
EnvironmentStep ==
  \/ OnConfigurationChanged \/ AbandonDialog \/ RecreateDialog
  \/ ForeignStartService \/ OsStopService \/ RevokeProjection \/ ProcessDeath

LEMMA TypeEnvironment ==
  ASSUME TypeOK, EnvironmentStep
  PROVE  TypeOK'
<1>1. CASE OnConfigurationChanged
  <2>1. /\ capture' \in {"none", "projection", "display"}
        /\ dialogs' \in [DialogKinds -> Nat] /\ budget' \in 0..MaxDisturbances
    BY <1>1, StartScreenCaptureType DEF OnConfigurationChanged, TypeOK
  <2> QED
    BY <1>1, <2>1 DEF OnConfigurationChanged, TypeOK
<1>2. CASE AbandonDialog
  <2>1. budget' \in 0..MaxDisturbances
    BY <1>2, DisturbType DEF AbandonDialog
  <2>2. dialogs' \in [DialogKinds -> Nat]
    BY <1>2 DEF AbandonDialog, TypeOK
  <2> QED
    BY <1>2, <2>1, <2>2 DEF AbandonDialog, svcVars, TypeOK
<1>3. CASE RecreateDialog
  <2>1. budget' \in 0..MaxDisturbances
    BY <1>3, DisturbType DEF RecreateDialog
  <2>2. dialogs' \in [DialogKinds -> Nat]
    BY <1>3, LaunchDialogType DEF RecreateDialog
  <2> QED
    BY <1>3, <2>1, <2>2 DEF RecreateDialog, svcVars, TypeOK
<1>4. CASE ForeignStartService
  <2>1. budget' \in 0..MaxDisturbances
    BY <1>4, DisturbType DEF ForeignStartService
  <2>2. PICK i \in Intents : StartService(i)
    BY <1>4, IntentTypes DEF ForeignStartService
  <2>3. serviceQ' \in Seq(Messages) /\ started' \in BOOLEAN
    BY <2>2, StartServiceType
  <2> QED
    BY <1>4, <2>1, <2>3 DEF ForeignStartService, svcVars, TypeOK
<1>5. CASE OsStopService
  <2>1. budget' \in 0..MaxDisturbances
    BY <1>5, DisturbType DEF OsStopService
  <2>2. serviceQ \in Seq(Messages)
    BY DEF TypeOK
  <2>3. serviceQ' \in Seq(Messages)
    BY <1>5, <2>2, IntentTypes DEF OsStopService
  <2>4. redeliver' \in Intents \cup {NoIntent} /\ started' \in BOOLEAN
    BY <1>5 DEF OsStopService
  <2> QED
    BY <1>5, <2>1, <2>3, <2>4 DEF OsStopService, svcVars, TypeOK
<1>6. CASE RevokeProjection
  <2>1. budget' \in 0..MaxDisturbances
    BY <1>6, DisturbType DEF RevokeProjection
  <2> QED
    BY <1>6, <2>1 DEF RevokeProjection, TypeOK
<1>7. CASE ProcessDeath
  <2>1. budget' \in 0..MaxDisturbances
    BY <1>7, DisturbType DEF ProcessDeath
  <2>2. PICK k \in 0..Len(serviceQ) :
          /\ serviceQ' = Restarted(SubSeq(serviceQ, k + 1, Len(serviceQ)))
          /\ started' = (serviceQ' # <<>>)
    BY <1>7 DEF ProcessDeath, TypeOK
  <2>3. serviceQ' \in Seq(Messages) /\ started' \in BOOLEAN
    BY <2>2, RestartedType
  <2>4. dialogs' \in [DialogKinds -> Nat]
    BY <1>7 DEF ProcessDeath, TypeOK
  <2>5. ui' \in [shown : BOOLEAN, running : BOOLEAN, enabled : BOOLEAN]
    BY <1>7 DEF ProcessDeath, HiddenUi
  <2>6. broadcasts' \in Seq(Answers) /\ redeliver' = NoIntent
    BY <1>7 DEF ProcessDeath
  <2>7. UNCHANGED <<prefs, keyIsDefault>>
    BY <1>7 DEF ProcessDeath
  <2>8. /\ ~alive' /\ ~granted' /\ ~stoppingByUs' /\ ~inputEnabled' /\ alive' \in BOOLEAN
        /\ granted' \in BOOLEAN /\ stoppingByUs' \in BOOLEAN /\ inputEnabled' \in BOOLEAN
        /\ capture' = "none" /\ theScreen' = NoServer /\ nsd' = NoServer
    BY <1>7 DEF ProcessDeath
  <2> QED
    BY <2>1, <2>3, <2>4, <2>5, <2>6, <2>7, <2>8 DEF TypeOK
<1> QED
  BY <1>1, <1>2, <1>3, <1>4, <1>5, <1>6, <1>7 DEF EnvironmentStep

LEMMA NextSteps == Next => ServiceStep \/ DialogStep \/ UiStep \/ EnvironmentStep
BY DEF Next, UiStep, EnvironmentStep

LEMMA TypeNext == TypeOK /\ [Next]_vars => TypeOK'
<1> SUFFICES ASSUME TypeOK, [Next]_vars PROVE TypeOK'
  OBVIOUS
<1>1. CASE Next
  BY <1>1, NextSteps, TypeService, TypeDialog, TypeUi, TypeEnvironment
<1>2. CASE UNCHANGED vars
  BY <1>2 DEF vars, svcVars, TypeOK
<1> QED
  BY <1>1, <1>2

\* Every variable of the service, of the activity and of the messages between
\* them keeps its type, whatever commands arrive and in whatever order.
THEOREM TypeCorrect == Spec => []TypeOK
BY TypeInit, TypeNext, PTL DEF Spec

-----------------------------------------------------------------------------
(* The queue of messages to the service *)

\* QueueShape of a queue q, of an instance that exists or not and of a start that
\* is in force or not.
Shape(q, a, s) ==
  /\ q # <<>> => ((q[1].kind = "create") <=> ~a)
  /\ \A n \in 1..(Len(q) - 1) :
       (q[n].kind = "destroy") <=> (q[n + 1].kind = "create")
  /\ s <=> IF q = <<>> THEN a ELSE q[Len(q)].kind # "destroy"

Pending(q) == \E n \in DOMAIN q : q[n].kind = "destroy"

LEMMA ShapeIsQueueShape ==
  /\ QueueShape <=> Shape(serviceQ, alive, started)
  /\ QueueShape' <=> Shape(serviceQ', alive', started')
  /\ StopPending <=> Pending(serviceQ)
  /\ StopPending' <=> Pending(serviceQ')
BY DEF QueueShape, Shape, StopPending, Pending

\* Carrying out the first message.
LEMMA ShapeTail ==
  ASSUME NEW q \in Seq(Messages), NEW a \in BOOLEAN, NEW s \in BOOLEAN,
         Shape(q, a, s), q # <<>>
  PROVE  /\ Shape(Tail(q), Head(q).kind # "destroy", s)
         /\ Head(q).kind = "command" => a
         /\ Head(q).kind # "destroy" => (Pending(Tail(q)) <=> Pending(q))
<1> DEFINE t == Tail(q)
<1>1. /\ t \in Seq(Messages) /\ Len(t) = Len(q) - 1 /\ Head(q) = q[1]
      /\ Len(q) \in Nat /\ Len(q) > 0 /\ (t = <<>> <=> Len(q) = 1)
      /\ \A n \in 1..Len(t) : t[n] = q[n + 1]
  <2>1. /\ t \in Seq(Messages) /\ Len(t) = Len(q) - 1
        /\ \A n \in 1..Len(t) : t[n] = q[n + 1]
    BY HeadTailProperties
  <2>2. Len(q) \in Nat /\ Len(q) > 0 /\ Head(q) = q[1]
    OBVIOUS
  <2>3. t = <<>> <=> Len(t) = 0
    BY <2>1
  <2> QED
    BY <2>1, <2>2, <2>3
<1>2. q[1] \in Messages
  BY <1>1
<1>3. q[1].kind \in {"create", "destroy", "command"}
  BY <1>2 DEF Messages
<1>4. t # <<>> => ((t[1].kind = "create") <=> q[1].kind = "destroy")
  BY <1>1 DEF Shape
<1>5. \A n \in 1..(Len(t) - 1) : (t[n].kind = "destroy") <=> (t[n + 1].kind = "create")
  BY <1>1 DEF Shape
<1>6. s <=> IF t = <<>> THEN q[1].kind # "destroy" ELSE t[Len(t)].kind # "destroy"
  BY <1>1 DEF Shape
<1>7. Shape(t, Head(q).kind # "destroy", s)
  BY <1>1, <1>4, <1>5, <1>6 DEF Shape
<1>8. Head(q).kind = "command" => a
  BY <1>1 DEF Shape
<1>9. ASSUME q[1].kind # "destroy" PROVE Pending(t) <=> Pending(q)
  <2>1. ASSUME NEW n \in DOMAIN t, t[n].kind = "destroy" PROVE Pending(q)
    BY <1>1, <2>1 DEF Pending
  <2>2. ASSUME NEW n \in DOMAIN q, q[n].kind = "destroy" PROVE Pending(t)
    <3>1. n - 1 \in DOMAIN t /\ t[n - 1] = q[n]
      BY <1>1, <1>9, <2>2
    <3> QED
      BY <2>2, <3>1 DEF Pending
  <2> QED
    BY <2>1, <2>2 DEF Pending
<1> QED
  BY <1>1, <1>7, <1>8, <1>9

\* A queue without a destruction leads to a service that is started.
LEMMA ShapeStarted ==
  ASSUME NEW q \in Seq(Messages), NEW a \in BOOLEAN, NEW s \in BOOLEAN,
         Shape(q, a, s), q # <<>>, ~Pending(q)
  PROVE  s
<1>1. Len(q) \in DOMAIN q
  OBVIOUS
<1> QED
  BY <1>1 DEF Shape, Pending

\* A stop appended while a start is in force.
LEMMA ShapeDestroy ==
  ASSUME NEW q \in Seq(Messages), NEW a \in BOOLEAN, Shape(q, a, TRUE)
  PROVE  Shape(Append(q, Destroy), a, FALSE) /\ Pending(Append(q, Destroy))
<1> DEFINE r == Append(q, Destroy)
<1>1. /\ Len(r) = Len(q) + 1 /\ r # <<>> /\ r[Len(r)] = Destroy /\ Len(q) \in Nat
      /\ \A n \in 1..Len(q) : r[n] = q[n]
      /\ q # <<>> <=> Len(q) > 0
  OBVIOUS
<1>2. Destroy.kind = "destroy"
  BY DEF Destroy
<1>3. (r[1].kind = "create") <=> ~a
  BY <1>1, <1>2 DEF Shape
<1>4. \A n \in 1..(Len(r) - 1) : (r[n].kind = "destroy") <=> (r[n + 1].kind = "create")
  <2> TAKE n \in 1..(Len(r) - 1)
  <2>1. CASE n = Len(q)
    BY <1>1, <1>2, <2>1 DEF Shape
  <2>2. CASE n \in 1..(Len(q) - 1)
    BY <1>1, <2>2 DEF Shape
  <2> QED
    BY <1>1, <2>1, <2>2
<1>5. Len(r) \in DOMAIN r
  BY <1>1
<1> QED
  BY <1>1, <1>2, <1>3, <1>4, <1>5 DEF Shape, Pending

\* An intent appended by startService.
LEMMA ShapeStart ==
  ASSUME NEW q \in Seq(Messages), NEW a \in BOOLEAN, NEW s \in BOOLEAN,
         NEW i \in Intents, Shape(q, a, s)
  PROVE  LET r == q \o (IF s THEN <<Command(i)>> ELSE <<Create, Command(i)>>)
         IN  Shape(r, a, TRUE) /\ (Pending(r) <=> Pending(q))
<1>1. Command(i).kind = "command" /\ Create.kind = "create"
  BY DEF Command, Create
<1>2. CASE s
  <2> DEFINE r == q \o <<Command(i)>>
  <2>1. /\ Len(r) = Len(q) + 1 /\ r # <<>> /\ r[Len(r)] = Command(i) /\ Len(q) \in Nat
        /\ \A n \in 1..Len(q) : r[n] = q[n]
        /\ DOMAIN r = 1..Len(r) /\ DOMAIN q = 1..Len(q)
        /\ q # <<>> <=> Len(q) > 0
    BY IntentTypes
  <2> HIDE DEF r
  <2>2. (r[1].kind = "create") <=> ~a
    BY <1>1, <1>2, <2>1 DEF Shape
  <2>3. ASSUME NEW n \in 1..(Len(r) - 1)
        PROVE  (r[n].kind = "destroy") <=> (r[n + 1].kind = "create")
    <3>1. CASE n = Len(q)
      BY <1>1, <1>2, <2>1, <3>1 DEF Shape
    <3>2. CASE n \in 1..(Len(q) - 1)
      BY <2>1, <3>2 DEF Shape
    <3>3. n = Len(q) \/ n \in 1..(Len(q) - 1)
      <4>1. Len(q) \in Nat /\ Len(r) = Len(q) + 1
        BY <2>1
      <4> QED
        BY <4>1
    <3> QED
      BY <3>1, <3>2, <3>3
  <2>4. Pending(r) <=> Pending(q)
    <3>1. \A n \in DOMAIN r : r[n].kind = "destroy" => n \in DOMAIN q
      BY <1>1, <2>1
    <3>2. \A n \in DOMAIN q : n \in DOMAIN r
      BY <2>1
    <3> QED
      BY <2>1, <3>1, <3>2 DEF Pending
  <2>5. Shape(r, a, TRUE)
    BY <1>1, <2>1, <2>2, <2>3 DEF Shape
  <2> QED
    BY <1>2, <2>4, <2>5 DEF r
<1>3. CASE ~s
  <2> DEFINE r == q \o <<Create, Command(i)>>
  <2>1. /\ Len(r) = Len(q) + 2 /\ r # <<>> /\ r[Len(q) + 1] = Create
        /\ r[Len(q) + 2] = Command(i) /\ Len(q) \in Nat
        /\ \A n \in 1..Len(q) : r[n] = q[n]
        /\ DOMAIN r = 1..Len(r) /\ DOMAIN q = 1..Len(q)
        /\ q # <<>> <=> Len(q) > 0
    BY IntentTypes
  <2> HIDE DEF r
  <2>2. (r[1].kind = "create") <=> ~a
    BY <1>1, <1>3, <2>1 DEF Shape
  <2>3. ASSUME NEW n \in 1..(Len(r) - 1)
        PROVE  (r[n].kind = "destroy") <=> (r[n + 1].kind = "create")
    <3>1. CASE n = Len(q)
      BY <1>1, <1>3, <2>1, <3>1 DEF Shape
    <3>2. CASE n = Len(q) + 1
      BY <1>1, <2>1, <3>2
    <3>3. CASE n \in 1..(Len(q) - 1)
      BY <2>1, <3>3 DEF Shape
    <3>4. n = Len(q) \/ n = Len(q) + 1 \/ n \in 1..(Len(q) - 1)
      <4>1. Len(q) \in Nat /\ Len(r) = Len(q) + 2
        BY <2>1
      <4> QED
        BY <4>1
    <3> QED
      BY <3>1, <3>2, <3>3, <3>4
  <2>4. Pending(r) <=> Pending(q)
    <3>1. \A n \in DOMAIN r : r[n].kind = "destroy" => n \in DOMAIN q
      BY <1>1, <2>1
    <3>2. \A n \in DOMAIN q : n \in DOMAIN r
      BY <2>1
    <3> QED
      BY <2>1, <3>1, <3>2 DEF Pending
  <2>5. Shape(r, a, TRUE)
    BY <1>1, <2>1, <2>2, <2>3 DEF Shape
  <2> QED
    BY <1>3, <2>4, <2>5 DEF r
<1> QED
  BY <1>2, <1>3

\* What is redelivered after process death.
LEMMA ShapeDeath ==
  ASSUME TypeOK, QueueShape,
         NEW k \in {0} \cup {n \in DOMAIN serviceQ : serviceQ[n].kind = "destroy"},
         \A n \in (k + 1)..Len(serviceQ) : serviceQ[n].kind # "destroy"
  PROVE  LET r == Restarted(SubSeq(serviceQ, k + 1, Len(serviceQ)))
         IN  Shape(r, FALSE, r # <<>>)
<1> DEFINE rest == SubSeq(serviceQ, k + 1, Len(serviceQ))
           again == IF redeliver = NoIntent THEN <<>> ELSE <<Command(redeliver)>>
<1>0. serviceQ \in Seq(Messages) /\ k \in 0..Len(serviceQ)
  BY DEF TypeOK
<1>1. /\ Len(rest) = Len(serviceQ) - k /\ Len(rest) \in Nat /\ rest \in Seq(Messages)
      /\ \A n \in 1..Len(rest) : rest[n] = serviceQ[k + n]
      /\ rest # <<>> <=> Len(rest) > 0
  <2>1. /\ Len(serviceQ) \in Nat /\ k \in Int /\ k <= Len(serviceQ) /\ k >= 0
        /\ \A n \in (k + 1)..Len(serviceQ) : serviceQ[n] \in Messages
    BY <1>0
  <2>2. /\ rest \in Seq(Messages)
        /\ Len(rest) = IF k + 1 <= Len(serviceQ) THEN Len(serviceQ) - (k + 1) + 1 ELSE 0
        /\ \A n \in 1..(Len(serviceQ) - (k + 1) + 1) : rest[n] = serviceQ[(k + 1) + n - 1]
    <3> HIDE DEF rest
    <3> QED
      BY <2>1, SubSeqProperties DEF rest
  <2> HIDE DEF rest
  <2>3. Len(rest) = Len(serviceQ) - k /\ Len(rest) \in Nat
    BY <2>1, <2>2
  <2>4. ASSUME NEW n \in 1..Len(rest) PROVE rest[n] = serviceQ[k + n]
    <3>1. n \in 1..(Len(serviceQ) - (k + 1) + 1) /\ (k + 1) + n - 1 = k + n
      BY <2>1, <2>3
    <3> QED
      BY <2>2, <3>1
  <2>5. rest # <<>> <=> Len(rest) > 0
    BY <2>2, EmptySeq
  <2> QED
    BY <2>2, <2>3, <2>4, <2>5
<1>2. \A n \in 1..Len(rest) : rest[n].kind # "destroy"
  BY <1>0, <1>1
<1>3. \A n \in 1..(Len(rest) - 1) : rest[n + 1].kind # "create"
  <2> SUFFICES ASSUME NEW n \in 1..(Len(rest) - 1) PROVE rest[n + 1].kind # "create"
    OBVIOUS
  <2>1. k + n \in 1..(Len(serviceQ) - 1) /\ rest[n + 1] = serviceQ[(k + n) + 1]
    BY <1>0, <1>1
  <2>2. serviceQ[k + n].kind # "destroy"
    BY <1>0, <1>1
  <2> QED
    BY <2>1, <2>2 DEF QueueShape
<1>4. again \in Seq(Messages) /\ (again = <<>> \/ again = <<Command(redeliver)>>)
  BY IntentTypes DEF TypeOK
<1>5. Command(redeliver).kind = "command" /\ Create.kind = "create"
  BY DEF Command, Create
<1>6. Create \in Messages
  BY IntentTypes
<1> HIDE DEF rest, again
<1>7. CASE Restarted(rest) = <<>>
  BY <1>7 DEF Shape, rest
<1>8. CASE rest # <<>> /\ rest[1].kind = "create" /\ Restarted(rest) = rest
  <2>1. Shape(rest, FALSE, TRUE)
    BY <1>1, <1>2, <1>3, <1>8 DEF Shape
  <2> QED
    BY <1>8, <2>1 DEF rest
<1>9. CASE /\ rest # <<>> => rest[1].kind # "create"
           /\ Restarted(rest) = <<Create>> \o again \o rest
  <2> DEFINE r == <<Create>> \o again \o rest
  <2>1. CASE again = <<>>
    <3>1. /\ Len(r) = Len(rest) + 1 /\ r[1] = Create /\ r # <<>>
          /\ \A n \in 2..Len(r) : r[n] = rest[n - 1]
      BY <1>1, <1>4, <1>6, <2>1
    <3> HIDE DEF r
    <3>2. \A n \in 1..Len(r) : r[n].kind # "destroy"
      BY <1>1, <1>2, <1>5, <3>1
    <3>3. \A n \in 1..(Len(r) - 1) : r[n + 1].kind # "create"
      <4> TAKE n \in 1..(Len(r) - 1)
      <4>1. r[n + 1] = rest[n] /\ n \in 1..Len(rest)
        BY <1>1, <3>1
      <4>2. CASE n = 1
        BY <1>9, <1>1, <4>1, <4>2
      <4>3. CASE n # 1
        <5>1. n - 1 \in 1..(Len(rest) - 1) /\ (n - 1) + 1 = n
          BY <4>1, <4>3, <1>1
        <5> QED
          BY <1>3, <4>1, <5>1
      <4> QED
        BY <4>2, <4>3
    <3>4. Shape(r, FALSE, TRUE)
      BY <1>1, <1>5, <3>1, <3>2, <3>3 DEF Shape
    <3> QED
      BY <1>9, <3>1, <3>4 DEF r, rest
  <2>2. CASE again = <<Command(redeliver)>>
    <3>0. Command(redeliver) \in Messages
      BY <1>4, <2>2
    <3>1. /\ Len(r) = Len(rest) + 2 /\ r[1] = Create /\ r # <<>>
          /\ r[2] = Command(redeliver)
          /\ \A n \in 3..Len(r) : r[n] = rest[n - 2]
      BY <1>1, <1>6, <2>2, <3>0
    <3> HIDE DEF r
    <3>2. \A n \in 1..Len(r) : r[n].kind # "destroy"
      <4> TAKE n \in 1..Len(r)
      <4>1. CASE n \in {1, 2}
        BY <1>5, <3>1, <4>1
      <4>2. CASE n \notin {1, 2}
        <5>1. n \in 3..Len(r) /\ n - 2 \in 1..Len(rest)
          BY <1>1, <3>1, <4>2
        <5> QED
          BY <1>2, <3>1, <5>1
      <4> QED
        BY <4>1, <4>2
    <3>3. \A n \in 1..(Len(r) - 1) : r[n + 1].kind # "create"
      <4> TAKE n \in 1..(Len(r) - 1)
      <4>1. CASE n = 1
        BY <1>5, <3>1, <4>1
      <4>2. CASE n # 1
        <5>1. r[n + 1] = rest[n - 1] /\ n - 1 \in 1..Len(rest)
          BY <1>1, <3>1, <4>2
        <5>2. CASE n = 2
          BY <1>9, <1>1, <5>1, <5>2
        <5>3. CASE n # 2
          <6>1. n - 2 \in 1..(Len(rest) - 1) /\ (n - 2) + 1 = n - 1
            BY <1>1, <3>1, <4>2, <5>3
          <6> QED
            BY <1>3, <5>1, <6>1
        <5> QED
          BY <5>2, <5>3
      <4> QED
        BY <4>1, <4>2
    <3>4. Shape(r, FALSE, TRUE)
      BY <1>1, <1>5, <3>1, <3>2, <3>3 DEF Shape
    <3> QED
      BY <1>9, <3>1, <3>4 DEF r, rest
  <2> QED
    BY <1>4, <2>1, <2>2
<1> QED
  BY <1>7, <1>8, <1>9 DEF Restarted, again, rest

\* The three ways an action of the model changes the queue.
LEMMA ConsumeShape ==
  ASSUME TypeOK, QueueShape, serviceQ # <<>>, Head(serviceQ).kind = "command",
         Consume, UNCHANGED alive
  PROVE  QueueShape' /\ (StopPending' <=> StopPending) /\ alive
<1>1. serviceQ \in Seq(Messages) /\ alive \in BOOLEAN /\ started \in BOOLEAN
  BY DEF TypeOK
<1>2. Shape(Tail(serviceQ), TRUE, started) /\ alive
  BY <1>1, ShapeTail, ShapeIsQueueShape
<1>3. Pending(Tail(serviceQ)) <=> Pending(serviceQ)
  BY <1>1, ShapeTail, ShapeIsQueueShape
<1> QED
  BY <1>1, <1>2, <1>3, ShapeIsQueueShape DEF Consume

LEMMA StopSelfShape ==
  ASSUME TypeOK, QueueShape, RestartOnlyIfServing, serviceQ # <<>>,
         Head(serviceQ).kind = "command", StopSelfByUs, UNCHANGED alive
  PROVE  QueueShape' /\ StopPending' /\ alive' /\ redeliver' = NoIntent
<1>1. CASE StopPending
  <2>1. Consume /\ UNCHANGED redeliver
    BY <1>1 DEF StopSelfByUs
  <2> QED
    BY <1>1, <2>1, ConsumeShape DEF RestartOnlyIfServing
<1>2. CASE ~StopPending
  <2>1. /\ serviceQ \in Seq(Messages) /\ Tail(serviceQ) \in Seq(Messages)
        /\ alive \in BOOLEAN /\ started \in BOOLEAN
    BY DEF TypeOK
  <2>2. Shape(Tail(serviceQ), TRUE, started) /\ alive
    BY <2>1, ShapeTail, ShapeIsQueueShape
  <2>3. started
    BY <1>2, <2>1, ShapeStarted, ShapeIsQueueShape
  <2>4. started = TRUE
    BY <2>1, <2>3
  <2>5. /\ Shape(Append(Tail(serviceQ), Destroy), TRUE, FALSE)
        /\ Pending(Append(Tail(serviceQ), Destroy))
    BY <2>1, <2>2, <2>4, ShapeDestroy
  <2>6. /\ serviceQ' = Append(Tail(serviceQ), Destroy)
        /\ started' = FALSE /\ redeliver' = NoIntent
    BY <1>2 DEF StopSelfByUs
  <2>7. alive = TRUE
    BY <2>1, <2>2
  <2> QED
    BY <2>5, <2>6, <2>7, ShapeIsQueueShape
<1> QED
  BY <1>1, <1>2

LEMMA StartServiceShape ==
  ASSUME TypeOK, QueueShape, NEW i \in Intents, StartService(i), UNCHANGED alive
  PROVE  QueueShape' /\ (StopPending' <=> StopPending) /\ started'
<1> DEFINE r == serviceQ \o (IF started THEN <<Command(i)>> ELSE <<Create, Command(i)>>)
<1>1. serviceQ \in Seq(Messages) /\ alive \in BOOLEAN /\ started \in BOOLEAN
  BY DEF TypeOK
<1>2. Shape(r, alive, TRUE) /\ (Pending(r) <=> Pending(serviceQ))
  BY <1>1, ShapeStart, ShapeIsQueueShape
<1>3. serviceQ' = r /\ started' = TRUE /\ alive' = alive
  BY DEF StartService
<1> QED
  BY <1>2, <1>3, ShapeIsQueueShape

-----------------------------------------------------------------------------
(* What is said to the activity *)

\* A START answered with success ends the broadcasts at Stop; a failure changes
\* nothing of what they say.
LEMMA SayAppend ==
  ASSUME TypeOK, NEW a \in Answers, broadcasts' = Append(broadcasts, a), UNCHANGED ui
  PROVE  /\ a = Answer("START", TRUE) => WillSayStop'
         /\ ~a.success /\ WillSayStop => WillSayStop'
<1>1. /\ DOMAIN broadcasts' = 1..(Len(broadcasts) + 1) /\ Len(broadcasts) \in Nat
      /\ broadcasts'[Len(broadcasts) + 1] = a
      /\ DOMAIN broadcasts = 1..Len(broadcasts)
      /\ \A n \in DOMAIN broadcasts : broadcasts'[n] = broadcasts[n]
  BY DEF TypeOK
<1>2. Answer("STOP", TRUE) # Answer("START", TRUE)
  BY DEF Answer
<1>3. ASSUME a = Answer("START", TRUE) PROVE WillSayStop'
  <2>1. Len(broadcasts) + 1 \in DOMAIN broadcasts'
    BY <1>1
  <2>2. \E n \in DOMAIN broadcasts' : broadcasts'[n] = Answer("START", TRUE)
    BY <1>1, <1>3, <2>1
  <2>3. ASSUME NEW n \in DOMAIN broadcasts', broadcasts'[n] = Answer("STOP", TRUE)
        PROVE  \E m \in DOMAIN broadcasts' : m > n /\ broadcasts'[m] = Answer("START", TRUE)
    <3>1. n # Len(broadcasts) + 1
      BY <1>1, <1>2, <1>3, <2>3
    <3>2. Len(broadcasts) + 1 > n
      BY <1>1, <3>1
    <3> QED
      BY <1>1, <1>3, <2>1, <3>2
  <2> QED
    BY <2>2, <2>3 DEF WillSayStop
<1>4. ASSUME ~a.success, WillSayStop PROVE WillSayStop'
  <2>1. a # Answer("STOP", TRUE)
    BY <1>4 DEF Answer
  <2>2. DOMAIN broadcasts \subseteq DOMAIN broadcasts'
    BY <1>1
  <2>3. ui'.running \/ \E n \in DOMAIN broadcasts' : broadcasts'[n] = Answer("START", TRUE)
    BY <1>1, <1>4, <2>2 DEF WillSayStop
  <2>4. ASSUME NEW n \in DOMAIN broadcasts', broadcasts'[n] = Answer("STOP", TRUE)
        PROVE  \E m \in DOMAIN broadcasts' : m > n /\ broadcasts'[m] = Answer("START", TRUE)
    <3>0. n # Len(broadcasts) + 1
      BY <1>1, <2>1, <2>4
    <3>1. n \in DOMAIN broadcasts /\ broadcasts[n] = Answer("STOP", TRUE)
      <4>1. n \in 1..(Len(broadcasts) + 1) /\ Len(broadcasts) \in Nat
        BY <1>1
      <4>2. n \in 1..Len(broadcasts)
        BY <3>0, <4>1
      <4> QED
        BY <1>1, <2>4, <4>2
    <3>2. PICK m \in DOMAIN broadcasts : m > n /\ broadcasts[m] = Answer("START", TRUE)
      BY <1>4, <3>1 DEF WillSayStop
    <3> QED
      BY <1>1, <2>2, <3>2
  <2> QED
    BY <2>3, <2>4 DEF WillSayStop
<1> QED
  BY <1>3, <1>4

\* Receiving a broadcast changes the button and leaves what is said in the end.
LEMMA SayReceive ==
  ASSUME TypeOK, OnReceive, WillSayStop
  PROVE  WillSayStop'
<1> DEFINE t == Tail(broadcasts)
<1>1. /\ Len(broadcasts) \in Nat /\ Head(broadcasts) = broadcasts[1]
      /\ Head(broadcasts) \in Answers
      /\ DOMAIN broadcasts = 1..Len(broadcasts) /\ broadcasts' = t
  BY DEF OnReceive, TypeOK
<1>2. /\ DOMAIN t = 1..(Len(broadcasts) - 1)
      /\ \A n \in DOMAIN t : t[n] = broadcasts[n + 1]
  BY HeadTailProperties, LenProperties DEF OnReceive, TypeOK
<1> HIDE DEF t
<1>3. ASSUME NEW m \in DOMAIN broadcasts, m # 1
      PROVE  m - 1 \in DOMAIN t /\ t[m - 1] = broadcasts[m]
  BY <1>1, <1>2, <1>3
<1>4. ASSUME NEW n \in DOMAIN t, t[n] = Answer("STOP", TRUE)
      PROVE  \E m \in DOMAIN t : m > n /\ t[m] = Answer("START", TRUE)
  <2>1. n + 1 \in DOMAIN broadcasts /\ broadcasts[n + 1] = Answer("STOP", TRUE)
    <3>1. n \in 1..(Len(broadcasts) - 1) /\ Len(broadcasts) \in Nat
      BY <1>1, <1>2
    <3>2. n + 1 \in 1..Len(broadcasts)
      BY <3>1
    <3> QED
      BY <1>1, <1>2, <1>4, <3>2
  <2>2. PICK m \in DOMAIN broadcasts : m > n + 1 /\ broadcasts[m] = Answer("START", TRUE)
    BY <2>1 DEF WillSayStop
  <2>3. m # 1 /\ m - 1 > n
    BY <1>1, <1>2, <2>2
  <2> QED
    BY <1>3, <2>2, <2>3
<1>5. ui'.running \/ \E n \in DOMAIN t : t[n] = Answer("START", TRUE)
  <2>1. CASE Head(broadcasts) = Answer("START", TRUE)
    <3>1. Head(broadcasts).success /\ Head(broadcasts).action = "START"
      BY <2>1 DEF Answer
    <3>2. ui' = ShowUi(Head(broadcasts).action = "START")
      BY <3>1 DEF OnReceive, Shown
    <3> QED
      BY <3>1, <3>2 DEF ShowUi
  <2>2. CASE Head(broadcasts) = Answer("STOP", TRUE)
    <3>1. 1 \in DOMAIN broadcasts
      BY <1>1 DEF OnReceive, TypeOK
    <3>2. PICK m \in DOMAIN broadcasts : m > 1 /\ broadcasts[m] = Answer("START", TRUE)
      BY <1>1, <2>2, <3>1 DEF WillSayStop
    <3>3. m # 1
      BY <1>1, <3>2
    <3> QED
      BY <1>3, <3>2, <3>3
  <2>3. CASE ~Head(broadcasts).success
    <3>1. ui.running => ui'.running
      BY <2>3 DEF OnReceive, Shown, TypeOK
    <3>2. Head(broadcasts) # Answer("START", TRUE)
      BY <2>3 DEF Answer
    <3>3. ASSUME NEW m \in DOMAIN broadcasts, broadcasts[m] = Answer("START", TRUE)
          PROVE  \E n \in DOMAIN t : t[n] = Answer("START", TRUE)
      <4>1. m # 1
        BY <1>1, <3>2, <3>3
      <4> QED
        BY <1>3, <3>3, <4>1
    <3>4. ui.running \/ \E n \in DOMAIN broadcasts : broadcasts[n] = Answer("START", TRUE)
      BY DEF WillSayStop
    <3>5. CASE ui.running
      BY <3>1, <3>5
    <3>6. CASE \E n \in DOMAIN broadcasts : broadcasts[n] = Answer("START", TRUE)
      BY <3>3, <3>6
    <3> QED
      BY <3>4, <3>5, <3>6
  <2> QED
    BY <1>1, <2>1, <2>2, <2>3 DEF Answers, Answer
<1> QED
  BY <1>1, <1>4, <1>5 DEF WillSayStop

-----------------------------------------------------------------------------
(* The inductive invariant *)

LEMMA InvInit == Init => IInv
<1> SUFFICES ASSUME Init PROVE IInv
  OBVIOUS
<1>1. QueueShape
  BY DEF Init, QueueShape
<1>2. ~active /\ capture = "none" /\ ~granted /\ nsd = NoServer /\ redeliver = NoIntent
  BY DEF Init, active
<1> QED
  BY <1>1, <1>2 DEF Init, IInv, ShowUi, ServerHasService, GrantNeedsServer,
     AdvertisedIsServed, RestartOnlyIfServing, ServerAnnounced

\* A step that leaves the service and what is said of it alone.
LEMMA InvQuiet ==
  ASSUME IInv, QueueShape', StopPending' <=> StopPending, started => started',
         UNCHANGED <<redeliver, svcVars, broadcasts, ui>>
  PROVE  IInv'
<1>1. UNCHANGED <<redeliver, alive, granted, capture, theScreen, nsd, broadcasts, ui>>
  BY DEF svcVars
<1>2. active' <=> active
  BY <1>1 DEF active
<1>3. WillSayStop => WillSayStop'
  BY <1>1 DEF WillSayStop
<1>4. RestartOnlyIfServing'
  BY <1>1, <1>2 DEF IInv, RestartOnlyIfServing
<1>5. ServerHasService' /\ GrantNeedsServer' /\ AdvertisedIsServed'
  BY <1>1, <1>2 DEF IInv, ServerHasService, GrantNeedsServer, AdvertisedIsServed
<1>6. ServerAnnounced'
  BY <1>1, <1>2, <1>3 DEF IInv, ServerAnnounced
<1> QED
  BY <1>1, <1>4, <1>5, <1>6 DEF IInv

\* A step after which the service is about to be destroyed.
LEMMA InvStopped ==
  ASSUME QueueShape', StopPending', redeliver' = NoIntent, alive', AdvertisedIsServed',
         ~ui'.shown => broadcasts' = <<>>
  PROVE  IInv'
BY DEF IInv, ServerHasService, GrantNeedsServer, RestartOnlyIfServing, ServerAnnounced

\* A step after which there is no instance of the service.
LEMMA InvGone ==
  ASSUME QueueShape', redeliver' = NoIntent, ~alive', capture' = "none", ~granted',
         theScreen' = NoServer, nsd' = NoServer, ~ui'.shown => broadcasts' = <<>>
  PROVE  IInv'
BY DEF IInv, ServerHasService, GrantNeedsServer, RestartOnlyIfServing,
       AdvertisedIsServed, ServerAnnounced, active

\* A refused command, an unknown one and CONNECT stop a service without server.
LEMMA InvRefuse ==
  ASSUME TypeOK, IInv, serviceQ # <<>>, Head(serviceQ).kind = "command",
         IF active THEN Consume /\ NotSticky /\ UNCHANGED stoppingByUs ELSE StopSelfByUs,
         UNCHANGED <<alive, granted, capture, theScreen, nsd, broadcasts, ui>>
  PROVE  IInv'
<1>1. CASE active
  <2>1. Consume /\ UNCHANGED redeliver /\ UNCHANGED stoppingByUs
    BY <1>1 DEF NotSticky
  <2>2. QueueShape' /\ (StopPending' <=> StopPending) /\ (started => started')
    BY <2>1, ConsumeShape DEF IInv, Consume
  <2> QED
    BY <2>1, <2>2, InvQuiet DEF svcVars
<1>2. CASE ~active
  <2>1. QueueShape' /\ StopPending' /\ alive' /\ redeliver' = NoIntent
    BY <1>2, StopSelfShape DEF IInv
  <2>2. AdvertisedIsServed'
    BY DEF IInv, AdvertisedIsServed
  <2> QED
    BY <2>1, <2>2, InvStopped DEF IInv
<1> QED
  BY <1>1, <1>2

\* vncStartServer by a service that was granted the screen, or not: flag becomes
\* the grant of the instance.
LEMMA InvStartServer ==
  ASSUME TypeOK, IInv, NEW ok \in BOOLEAN, serviceQ # <<>>,
         Head(serviceQ).kind = "command", StartServer(ok), UNCHANGED <<alive, ui>>,
         intent.action = "PROJECTION_RESULT" \/ active \/ StopPending
  PROVE  IInv'
<1>1. CASE /\ ~active
           /\ theScreen' = DefaultPort
           /\ SendBroadcast(Answer("START", TRUE))
           /\ nsd' = IF DefaultPort < 0 THEN NoServer ELSE DefaultPort
           /\ Consume
           /\ RedeliverIntent
  <2>1. QueueShape' /\ (StopPending' <=> StopPending) /\ alive /\ alive'
    BY <1>1, ConsumeShape DEF IInv
  <2>2. active'
    BY <1>1, PortsAssumption DEF active
  <2>3. AdvertisedIsServed' /\ ServerHasService' /\ GrantNeedsServer'
    BY <1>1, <2>1, <2>2 DEF AdvertisedIsServed, ServerHasService, GrantNeedsServer
  <2>4. RestartOnlyIfServing'
    <3>1. CASE StopPending
      BY <1>1, <3>1 DEF RedeliverIntent, IInv, RestartOnlyIfServing
    <3>2. CASE ~StopPending
      <4>1. started
        BY <1>1, <3>2, ShapeIsQueueShape, ShapeStarted DEF IInv, TypeOK
      <4>2. redeliver' = intent /\ intent.action = "PROJECTION_RESULT" /\ started'
        BY <1>1, <3>2, <4>1 DEF RedeliverIntent, Consume
      <4> QED
        BY <2>1, <2>2, <3>2, <4>2 DEF RestartOnlyIfServing
    <3> QED
      BY <3>1, <3>2
  <2>5. ServerAnnounced'
    <3>1. Answer("START", TRUE) \in Answers
      BY DEF Answer, Answers
    <3>2. CASE ui.shown
      BY <1>1, <3>1, <3>2, SayAppend DEF SendBroadcast, ServerAnnounced
    <3> QED
      BY <3>2 DEF ServerAnnounced
  <2>6. ~ui'.shown => broadcasts' = <<>>
    BY <1>1 DEF SendBroadcast, IInv
  <2> QED
    BY <2>1, <2>3, <2>4, <2>5, <2>6 DEF IInv
<1>2. CASE /\ SendBroadcast(Answer("START", FALSE))
           /\ StopSelfByUs
           /\ UNCHANGED <<theScreen, nsd>>
  <2>1. QueueShape' /\ StopPending' /\ alive' /\ redeliver' = NoIntent
    BY <1>2, StopSelfShape DEF IInv
  <2>2. AdvertisedIsServed'
    BY <1>2 DEF IInv, AdvertisedIsServed
  <2>3. ~ui'.shown => broadcasts' = <<>>
    BY <1>2 DEF SendBroadcast, IInv
  <2> QED
    BY <2>1, <2>2, <2>3, InvStopped
<1> QED
  BY <1>1, <1>2 DEF StartServer

\* The commands carried out by the service.
LEMMA InvService ==
  ASSUME TypeOK, IInv, ServiceStep
  PROVE  IInv'
<1>0. serviceQ \in Seq(Messages) /\ alive \in BOOLEAN /\ started \in BOOLEAN /\ QueueShape
  BY DEF TypeOK, IInv
<1>1. CASE OnCreate
  <2>1. serviceQ # <<>> /\ Head(serviceQ).kind = "create" /\ Consume /\ alive' = TRUE
    BY <1>1 DEF OnCreate
  <2>2. QueueShape' /\ (StopPending' <=> StopPending)
    <3>1. /\ Shape(Tail(serviceQ), TRUE, started)
          /\ Pending(Tail(serviceQ)) <=> Pending(serviceQ)
      <4>1. (Head(serviceQ).kind # "destroy") = TRUE
        BY <2>1
      <4>2. /\ Shape(Tail(serviceQ), Head(serviceQ).kind # "destroy", started)
            /\ Pending(Tail(serviceQ)) <=> Pending(serviceQ)
        BY <1>0, <2>1, <4>1, ShapeTail, ShapeIsQueueShape
      <4> QED
        BY <4>1, <4>2
    <3> QED
      BY <2>1, <3>1, ShapeIsQueueShape DEF Consume
  <2>3. ~alive
    BY <1>0, <2>1 DEF QueueShape
  <2>4. ~active /\ ~active' /\ capture' = "none" /\ ~granted' /\ nsd' = nsd
        /\ theScreen' = theScreen /\ redeliver' = redeliver
        /\ broadcasts' = broadcasts /\ ui' = ui
    BY <1>1, <2>3 DEF OnCreate, IInv, ServerHasService, GrantNeedsServer, active
  <2>5. redeliver' = NoIntent
    BY <2>4 DEF IInv, RestartOnlyIfServing
  <2> QED
    BY <2>2, <2>4, <2>5 DEF IInv, ServerHasService, GrantNeedsServer,
       RestartOnlyIfServing, AdvertisedIsServed, ServerAnnounced
<1>2. CASE OnDestroy
  <2>1. serviceQ # <<>> /\ Head(serviceQ).kind = "destroy" /\ Consume /\ alive' = FALSE
    BY <1>2 DEF OnDestroy
  <2>2. QueueShape'
    <3>1. Shape(Tail(serviceQ), FALSE, started)
      BY <1>0, <2>1, ShapeTail, ShapeIsQueueShape
    <3> QED
      BY <2>1, <3>1, ShapeIsQueueShape DEF Consume
  <2>3. StopPending
    <3>1. 1 \in DOMAIN serviceQ /\ Head(serviceQ) = serviceQ[1]
      BY <1>0, <2>1
    <3> QED
      BY <2>1, <3>1 DEF StopPending
  <2>4. redeliver' = NoIntent
    BY <1>2, <2>3 DEF OnDestroy, IInv, RestartOnlyIfServing
  <2>5. ~ui'.shown => broadcasts' = <<>>
    BY <1>2 DEF OnDestroy, TellStop, SendBroadcast, IInv
  <2> QED
    BY <1>2, <2>2, <2>4, <2>5, InvGone
    DEF OnDestroy, StopServer, StopScreenCapture, UnregisterNSD
<1>3. CASE RejectCommand
  BY <1>3, InvRefuse DEF RejectCommand
<1>4. CASE HandleMediaProjectionResult
  <2>1. serviceQ # <<>> /\ Head(serviceQ).kind = "command" /\ intent.flag \in BOOLEAN
    BY <1>4, ReceivedType, IntentFields DEF HandleMediaProjectionResult, Received
  <2>2. intent.action = "PROJECTION_RESULT"
    BY <1>4 DEF HandleMediaProjectionResult, Received, intent
  <2> QED
    BY <1>4, <2>1, <2>2, InvStartServer DEF HandleMediaProjectionResult
<1>5. CASE HandleWriteStorageResult
  <2>1. serviceQ # <<>> /\ Head(serviceQ).kind = "command"
    BY <1>5 DEF HandleWriteStorageResult, Received
  <2>2. CASE granted /\ StartServer(TRUE)
    <3>1. active \/ StopPending
      BY <2>2 DEF IInv, GrantNeedsServer
    <3> QED
      BY <1>5, <2>1, <2>2, <3>1, InvStartServer DEF HandleWriteStorageResult
  <2>3. CASE /\ Consume /\ NotSticky
             /\ UNCHANGED <<stoppingByUs, capture, theScreen, nsd, broadcasts, budget>>
    <3>1. QueueShape' /\ (StopPending' <=> StopPending) /\ (started => started')
      BY <1>5, <2>1, <2>3, ConsumeShape DEF HandleWriteStorageResult, IInv, Consume
    <3> QED
      BY <1>5, <2>3, <3>1, InvQuiet DEF HandleWriteStorageResult, NotSticky, svcVars
  <2> QED
    BY <1>5, <2>2, <2>3 DEF HandleWriteStorageResult
<1>6. CASE HandleInputResult
  <2>1. QueueShape' /\ (StopPending' <=> StopPending) /\ (started => started')
    BY <1>6, ConsumeShape DEF HandleInputResult, Received, svcVars, IInv, Consume
  <2> QED
    BY <1>6, <2>1, InvQuiet DEF HandleInputResult, NotSticky
<1>7. CASE HandleStart
  <2>1. QueueShape' /\ (StopPending' <=> StopPending) /\ (started => started')
    BY <1>7, ConsumeShape DEF HandleStart, Received, svcVars, IInv, Consume
  <2>2. CASE UNCHANGED broadcasts
    BY <1>7, <2>1, <2>2, InvQuiet DEF HandleStart, NotSticky
  <2>3. CASE SendBroadcast(Answer("START", FALSE))
    <3>1. Answer("START", FALSE) \in Answers /\ ~Answer("START", FALSE).success
      BY DEF Answer, Answers
    <3>2. UNCHANGED <<redeliver, alive, granted, capture, theScreen, nsd, ui>>
      BY <1>7 DEF HandleStart, NotSticky, svcVars
    <3>3. ui.shown /\ WillSayStop => WillSayStop'
      BY <2>3, <3>1, <3>2, SayAppend DEF SendBroadcast
    <3>4. ServerAnnounced'
      BY <2>1, <3>2, <3>3 DEF IInv, ServerAnnounced, active
    <3>5. RestartOnlyIfServing'
      BY <2>1, <3>2 DEF IInv, RestartOnlyIfServing, active
    <3>6. ServerHasService' /\ GrantNeedsServer' /\ AdvertisedIsServed'
      BY <2>1, <3>2 DEF IInv, ServerHasService, GrantNeedsServer, AdvertisedIsServed, active
    <3>7. ~ui'.shown => broadcasts' = <<>>
      BY <2>3, <3>2 DEF SendBroadcast, IInv
    <3> QED
      BY <2>1, <3>4, <3>5, <3>6, <3>7 DEF IInv
  <2> QED
    BY <1>7, <2>2, <2>3 DEF HandleStart
<1>8. CASE HandleStop
  <2>1. serviceQ # <<>> /\ Head(serviceQ).kind = "command" /\ StopSelfByUs /\ UNCHANGED alive
    BY <1>8 DEF HandleStop, Received
  <2>2. QueueShape' /\ StopPending' /\ alive' /\ redeliver' = NoIntent
    BY <2>1, StopSelfShape DEF IInv
  <2>3. AdvertisedIsServed' /\ (~ui'.shown => broadcasts' = <<>>)
    BY <1>8 DEF HandleStop, SendBroadcast, IInv, AdvertisedIsServed
  <2> QED
    BY <2>2, <2>3, InvStopped
<1>9. CASE HandleConnectOrOther
  BY <1>9, InvRefuse DEF HandleConnectOrOther, Received
<1> QED
  BY <1>1, <1>2, <1>3, <1>4, <1>5, <1>6, <1>7, <1>8, <1>9 DEF ServiceStep

\* The answers of the permission activities.
LEMMA InvDialog ==
  ASSUME TypeOK, IInv, DialogStep
  PROVE  IInv'
<1>1. PICK a \in Actions, flag \in BOOLEAN :
        /\ StartService(Intent(a, TRUE, flag))
        /\ UNCHANGED <<redeliver, svcVars, broadcasts, ui>>
  <2>1. CASE AnswerViewOnly
    BY <2>1 DEF AnswerViewOnly, PostAnswer
  <2>2. CASE AnswerInput
    BY <2>2 DEF AnswerInput, PostAnswer
  <2>3. CASE AnswerStorage
    BY <2>3 DEF AnswerStorage, PostAnswer
  <2>4. CASE AnswerProjection
    BY <2>4 DEF AnswerProjection, PostAnswer
  <2> QED
    BY <2>1, <2>2, <2>3, <2>4 DEF DialogStep
<1>2. Intent(a, TRUE, flag) \in Intents
  BY IntentTypes
<1>3. QueueShape' /\ (StopPending' <=> StopPending) /\ started'
  BY <1>1, <1>2, StartServiceShape DEF svcVars, IInv
<1> QED
  BY <1>1, <1>3, InvQuiet

\* What the ServerActivity and its user do.
LEMMA InvUi ==
  ASSUME TypeOK, IInv, UiStep
  PROVE  IInv'
<1>1. CASE OnReceive
  <2>1. UNCHANGED <<started, redeliver, serviceQ, alive, granted, capture, theScreen, nsd>>
    BY <1>1 DEF OnReceive, svcVars
  <2>2. (active' <=> active) /\ (StopPending' <=> StopPending) /\ QueueShape'
    BY <2>1 DEF active, StopPending, QueueShape, IInv
  <2>3. ui.shown /\ ui'.shown
    BY <1>1 DEF OnReceive, Shown, ShowUi, IInv, TypeOK
  <2>4. ServerAnnounced'
    BY <1>1, <2>2, <2>3, SayReceive DEF IInv, ServerAnnounced
  <2>5. RestartOnlyIfServing' /\ ServerHasService' /\ GrantNeedsServer' /\ AdvertisedIsServed'
    BY <2>1, <2>2 DEF IInv, RestartOnlyIfServing, ServerHasService, GrantNeedsServer,
       AdvertisedIsServed
  <2> QED
    BY <2>2, <2>3, <2>4, <2>5 DEF IInv
<1>2. CASE ClickToggle
  <2>1. PICK i \in Intents : StartService(i)
    BY <1>2, IntentTypes DEF ClickToggle, TypeOK
  <2>2. UNCHANGED <<redeliver, alive, granted, capture, theScreen, nsd, broadcasts>>
    BY <1>2 DEF ClickToggle, svcVars
  <2>3. QueueShape' /\ (StopPending' <=> StopPending) /\ started'
    BY <2>1, <2>2, StartServiceShape DEF IInv
  <2>4. active' <=> active
    BY <2>2 DEF active
  <2>5. ui'.shown /\ ui.shown /\ (ui.running => ui'.running)
    BY <1>2 DEF ClickToggle, TypeOK
  <2>6. ServerAnnounced'
    <3>1. WillSayStop => WillSayStop'
      BY <2>2, <2>5 DEF WillSayStop
    <3> QED
      BY <2>3, <2>4, <2>5, <3>1 DEF IInv, ServerAnnounced
  <2>7. RestartOnlyIfServing' /\ ServerHasService' /\ GrantNeedsServer' /\ AdvertisedIsServed'
    BY <2>2, <2>3, <2>4 DEF IInv, RestartOnlyIfServing, ServerHasService, GrantNeedsServer,
       AdvertisedIsServed
  <2> QED
    BY <2>3, <2>5, <2>6, <2>7 DEF IInv
<1>3. CASE UiCreate \/ UiDestroy
  <2>1. UNCHANGED <<started, redeliver, serviceQ, alive, granted, capture, theScreen, nsd>>
    BY <1>3 DEF UiCreate, UiDestroy, svcVars
  <2>2. (active' <=> active) /\ (StopPending' <=> StopPending) /\ QueueShape'
    BY <2>1 DEF active, StopPending, QueueShape, IInv
  <2>3. broadcasts' = <<>>
    BY <1>3 DEF UiCreate, UiDestroy, IInv
  <2>4. ServerAnnounced'
    <3>1. CASE UiCreate
      <4>1. ui'.running = (alive /\ active)
        BY <3>1 DEF UiCreate, ShowFound, ShowUi
      <4>2. active' => ui'.running
        BY <2>2, <4>1 DEF IInv, ServerHasService
      <4> QED
        BY <2>3, <4>2 DEF ServerAnnounced, WillSayStop
    <3>2. CASE UiDestroy
      BY <3>2 DEF UiDestroy, HiddenUi, ServerAnnounced
    <3> QED
      BY <1>3, <3>1, <3>2
  <2>5. RestartOnlyIfServing' /\ ServerHasService' /\ GrantNeedsServer' /\ AdvertisedIsServed'
    BY <2>1, <2>2 DEF IInv, RestartOnlyIfServing, ServerHasService, GrantNeedsServer,
       AdvertisedIsServed
  <2> QED
    BY <2>2, <2>3, <2>4, <2>5 DEF IInv
<1>4. CASE ConnectRequest
  <2>1. Intent("CONNECT", keyIsDefault, FALSE) \in Intents
    BY IntentTypes DEF TypeOK
  <2>2. QueueShape' /\ (StopPending' <=> StopPending) /\ started'
    BY <1>4, <2>1, StartServiceShape DEF ConnectRequest, svcVars, IInv
  <2> QED
    BY <1>4, <2>2, InvQuiet DEF ConnectRequest
<1>5. CASE ClickPermissionLabel \/ EditAccessKey
  <2>1. UNCHANGED <<started, redeliver, serviceQ, svcVars, broadcasts, ui>>
    BY <1>5 DEF ClickPermissionLabel, EditAccessKey
  <2>2. QueueShape' /\ (StopPending' <=> StopPending)
    BY <2>1 DEF IInv, QueueShape, StopPending, svcVars
  <2> QED
    BY <2>1, <2>2, InvQuiet
<1> QED
  BY <1>1, <1>2, <1>3, <1>4, <1>5 DEF UiStep

\* What Android and other components do.
LEMMA InvEnvironment ==
  ASSUME TypeOK, IInv, EnvironmentStep
  PROVE  IInv'
<1>1. CASE OnConfigurationChanged \/ RevokeProjection
  <2>1. /\ UNCHANGED <<started, redeliver, serviceQ, alive, granted, theScreen, nsd,
                       broadcasts, ui>>
    BY <1>1 DEF OnConfigurationChanged, RevokeProjection
  <2>2. capture # "none" \/ granted \/ capture' = "none"
    BY <1>1 DEF OnConfigurationChanged, RevokeProjection, StartScreenCapture
  <2>3. (active' <=> active) /\ (StopPending' <=> StopPending) /\ QueueShape'
    BY <2>1 DEF active, StopPending, QueueShape, IInv
  <2>4. GrantNeedsServer'
    BY <2>1, <2>2, <2>3 DEF IInv, GrantNeedsServer
  <2>5. RestartOnlyIfServing' /\ ServerHasService' /\ AdvertisedIsServed'
    BY <2>1, <2>3 DEF IInv, RestartOnlyIfServing, ServerHasService, AdvertisedIsServed
  <2>6. WillSayStop => WillSayStop'
    BY <2>1 DEF WillSayStop
  <2>7. ServerAnnounced'
    BY <2>1, <2>3, <2>6 DEF IInv, ServerAnnounced
  <2> QED
    BY <2>1, <2>3, <2>4, <2>5, <2>7 DEF IInv
<1>2. CASE AbandonDialog \/ RecreateDialog
  <2>1. UNCHANGED <<started, redeliver, serviceQ, svcVars, broadcasts, ui>>
    BY <1>2 DEF AbandonDialog, RecreateDialog
  <2>2. QueueShape' /\ (StopPending' <=> StopPending)
    BY <2>1 DEF IInv, QueueShape, StopPending, svcVars
  <2> QED
    BY <2>1, <2>2, InvQuiet
<1>3. CASE ForeignStartService
  <2>1. PICK i \in Intents : StartService(i)
    BY <1>3, IntentTypes DEF ForeignStartService
  <2>2. QueueShape' /\ (StopPending' <=> StopPending) /\ started'
    BY <1>3, <2>1, StartServiceShape DEF ForeignStartService, svcVars, IInv
  <2> QED
    BY <1>3, <2>2, InvQuiet DEF ForeignStartService
<1>4. CASE OsStopService
  <2>1. /\ serviceQ \in Seq(Messages) /\ alive \in BOOLEAN /\ started = TRUE
        /\ started' = FALSE /\ redeliver' = NoIntent
        /\ serviceQ' = Append(serviceQ, Destroy) /\ UNCHANGED <<alive, theScreen, nsd,
             granted, capture, broadcasts, ui>>
    BY <1>4 DEF OsStopService, svcVars, TypeOK
  <2>2. QueueShape' /\ StopPending'
    <3>1. Shape(serviceQ', alive, FALSE) /\ Pending(serviceQ')
      BY <2>1, ShapeDestroy, ShapeIsQueueShape DEF IInv
    <3> QED
      BY <2>1, <3>1, ShapeIsQueueShape
  <2>3. (active' <=> active) /\ AdvertisedIsServed'
    BY <2>1 DEF active, IInv, AdvertisedIsServed
  <2> QED
    BY <2>1, <2>2, <2>3 DEF IInv, ServerHasService, GrantNeedsServer, RestartOnlyIfServing,
       ServerAnnounced
<1>5. CASE ProcessDeath
  <2>1. PICK k \in {0} \cup {n \in DOMAIN serviceQ : serviceQ[n].kind = "destroy"} :
          /\ \A n \in (k + 1)..Len(serviceQ) : serviceQ[n].kind # "destroy"
          /\ serviceQ' = Restarted(SubSeq(serviceQ, k + 1, Len(serviceQ)))
          /\ started' = (Restarted(SubSeq(serviceQ, k + 1, Len(serviceQ))) # <<>>)
    BY <1>5 DEF ProcessDeath
  <2>2. Shape(serviceQ', FALSE, started')
    BY <2>1, ShapeDeath DEF IInv
  <2>3. /\ alive' = FALSE /\ redeliver' = NoIntent /\ capture' = "none" /\ ~granted'
        /\ theScreen' = NoServer /\ nsd' = NoServer /\ broadcasts' = <<>>
    BY <1>5 DEF ProcessDeath
  <2>4. QueueShape'
    BY <2>2, <2>3, ShapeIsQueueShape
  <2> QED
    BY <2>3, <2>4, InvGone
<1> QED
  BY <1>1, <1>2, <1>3, <1>4, <1>5 DEF EnvironmentStep

LEMMA InvNext == TypeOK /\ IInv /\ [Next]_vars => IInv'
<1> SUFFICES ASSUME TypeOK, IInv, [Next]_vars PROVE IInv'
  OBVIOUS
<1>1. CASE Next
  BY <1>1, NextSteps, InvService, InvDialog, InvUi, InvEnvironment
<1>2. CASE UNCHANGED vars
  <2>1. UNCHANGED <<started, redeliver, serviceQ, svcVars, broadcasts, ui>>
    BY <1>2 DEF vars
  <2>2. QueueShape' /\ (StopPending' <=> StopPending)
    BY <2>1 DEF IInv, QueueShape, StopPending, svcVars
  <2> QED
    BY <2>1, <2>2, InvQuiet
<1> QED
  BY <1>1, <1>2

\* The invariant that the safety properties follow from.
THEOREM InvCorrect == Spec => []IInv
BY TypeInit, TypeNext, InvInit, InvNext, PTL DEF Spec

\* No server outlives the service, whatever the order of commands, stops and
\* process deaths.
THEOREM ServerNeverOutlivesService == Spec => []ServerHasService
<1>1. IInv => ServerHasService
  BY DEF IInv
<1> QED
  BY <1>1, InvCorrect, PTL

\* Nothing captures the screen for longer than the server runs, a service that is
\* about to be destroyed excepted.
THEOREM CaptureNeverOutlivesServer == Spec => []CaptureNeedsServer
<1>1. IInv => CaptureNeedsServer
  BY DEF IInv, GrantNeedsServer, CaptureNeedsServer
<1> QED
  BY <1>1, InvCorrect, PTL

\* The network is told of no port but the one that is served.
THEOREM AdvertisedPortIsServed == Spec => []AdvertisedIsServed
<1>1. IInv => AdvertisedIsServed
  BY DEF IInv
<1> QED
  BY <1>1, InvCorrect, PTL

\* Android restarts the killed service only to start the server that ran.
THEOREM RestartsOnlyServing == Spec => []RestartOnlyIfServing
<1>1. IInv => RestartOnlyIfServing
  BY DEF IInv
<1> QED
  BY <1>1, InvCorrect, PTL

\* Once all messages have arrived, a running server can be stopped from the
\* activity: the button of a shown ServerActivity says Stop.
THEOREM RunningServerCanBeStopped == Spec => []StopOffered
<1>1. TypeOK /\ IInv => StopOffered
  <2> SUFFICES ASSUME IInv, Settled, active PROVE ui.running
    BY DEF StopOffered
  <2>1. ui.shown /\ ~StopPending /\ DOMAIN broadcasts = {}
    BY DEF Settled, StopPending
  <2> QED
    BY <2>1 DEF IInv, ServerAnnounced, WillSayStop
<1> QED
  BY <1>1, TypeCorrect, InvCorrect, PTL
=============================================================================
