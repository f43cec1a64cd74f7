-------------------------- MODULE ViewerConnection --------------------------
(***************************************************************************)
(* The viewer's connection after the handshake: the message loop of        *)
(* VncCanvas on its own thread, the events of the UI thread, and the       *)
(* executor of RfbProto that writes to the socket in the background, with  *)
(* the server as the loop sees it.  The frame buffer is held in full       *)
(* (FullBufferBitmapData).                                                 *)
(*                                                                         *)
(* RfbProto builds its messages in arrays and hands the arrays, not their  *)
(* contents, to the executor.  SetPixelFormat and SetEncodings use a fresh *)
(* array each; update requests share one array, and so do the events of    *)
(* the pointer and of the keyboard.                                        *)
(***************************************************************************)
EXTENDS Naturals, Sequences, FiniteSets

CONSTANTS
  Models,         \* colour models the user may choose
  FirstModel,     \* the one chosen before the connection
  NoModel,        \* null
  Capacity,       \* of the executor's queue: the number of processors
  MaxEvents,      \* bounds on the events of the user,
  MaxSelections,  \* on the colour models chosen,
  MaxChanges      \* and on what the server has to tell

ASSUME ModelsAssumption == FirstModel \in Models /\ NoModel \notin Models
ASSUME CapacityAssumption == Capacity \in Nat \ {0}
ASSUME BoundsAssumption == MaxEvents \in Nat /\ MaxSelections \in Nat /\ MaxChanges \in Nat

VARIABLES
  pc,                 \* where the thread of the loop is
  fullUpdateNeeded,   \* the next request is not incremental
  encodings,          \* SetEncodings: not yet due, due, sent
  pendingColorModel, colorModel, bytesPerPixel, colorPalette,
  maintainConnection, \* the user has not closed the connection
  bitmapData,         \* bitmapData # null
  eventBuf,           \* array of the pointer and keyboard events
  requestBuf,         \* array of the update requests: incremental or not
  oldModifiers,       \* the modifier sent as pressed
  overwritten,        \* since a modifier was sent on its own, an event has been put into
                      \* eventBuf while an earlier one was still to be written from it
  announced, crossed, \* what the last SetPixelFormat said, and whether another model was
                      \* chosen before setPixelFormat had read it; like overwritten, no
                      \* step asks for them
  putting,            \* the thread in execute() that waits for room, its task
  tasks,              \* the executor's queue
  writing,            \* the task of the executor's thread, if any
  toServer, toViewer, \* the two directions of the socket
  format, requested, changed, held, serverUp, \* the server
  events, selections, changes \* what the environment may still do

canvasVars == <<pc, fullUpdateNeeded, encodings, bytesPerPixel, colorPalette, colorModel>>
modelVars == <<pendingColorModel, announced, crossed>>
bufVars == <<eventBuf, requestBuf, oldModifiers, overwritten>>
execVars == <<putting, tasks, writing>>
serverVars == <<format, requested, changed, held, serverUp>>
budgets == <<events, selections, changes>>
vars == <<canvasVars, modelVars, maintainConnection, bitmapData, bufVars,
          execVars, toServer, toViewer, serverVars, budgets>>

-----------------------------------------------------------------------------
(* Messages.  An event is a sequence of units of two bytes, because the two *)
(* kinds of events differ in length: a pointer event has 6 bytes, a key     *)
(* event 8.  One modifier stands for the three, which are treated alike.    *)

PointerUnits(down) == [i \in 1..3 |-> <<"pointer", down, i>>]
KeyUnits(key, down) == [i \in 1..4 |-> <<key, down, i>>]

\* writeModifierKeyEvents.  Mutant: the modifier is never released.
PressUnits(old, new) == IF new /\ ~old THEN KeyUnits("modifier", TRUE) ELSE <<>>
ModifierUnits(old, new) == IF old = new THEN <<>> ELSE KeyUnits("modifier", new)

Format(m) == [kind |-> "format", model |-> m]
Encodings == [kind |-> "encodings"]
Request(incremental) == [kind |-> "request", incremental |-> incremental]
Event(units) == [kind |-> "event", units |-> units]

Update(m) == [kind |-> "update", model |-> m]
Other == [kind |-> "other"]
Unexpected == [kind |-> "unexpected"]

\* asked is what the caller wrote into the array; only for a fresh array is it
\* what the executor will find there.
Task(array, asked) == [array |-> array, asked |-> asked]

\* What the array of a task holds now, up to the length given with the task.
Contents(task) ==
  CASE task.array = "fresh"   -> task.asked
    [] task.array = "request" -> Request(requestBuf)
    [] task.array = "event"   -> Event(SubSeq(eventBuf, 1, Len(task.asked.units)))

\* Tasks accepted or about to be accepted, in the order of their writing.
Pending == writing \o tasks \o [n \in DOMAIN putting |-> putting[n].task]

-----------------------------------------------------------------------------
(* RfbProto: the executor.  put() waits for room in the queue, and the caller *)
(* keeps the monitor of the RfbProto meanwhile.                               *)

closed == pc = "closed"

\* A thread may go on unless it waits for room.
Free(thread) == \A n \in DOMAIN putting : putting[n].thread # thread

\* executeOutputStreamOnRunnable in a synchronized method.  A task is rejected
\* once the executor is shut down.
Execute(thread, task) ==
  /\ putting = <<>>
  /\ \/ closed /\ UNCHANGED <<putting, tasks>>
     \/ ~closed /\ Len(tasks) < Capacity
        /\ tasks' = Append(tasks, task) /\ UNCHANGED putting
     \/ ~closed /\ Len(tasks) >= Capacity
        /\ putting' = <<[thread |-> thread, task |-> task]>> /\ UNCHANGED tasks
  /\ UNCHANGED writing

PutDone ==
  /\ putting # <<>>
  /\ Len(tasks) < Capacity
  /\ tasks' = Append(tasks, putting[1].task)
  /\ putting' = <<>>
  /\ UNCHANGED <<canvasVars, modelVars, maintainConnection, bitmapData, bufVars,
                 writing, toServer, toViewer, serverVars, budgets>>

TakeTask ==
  /\ writing = <<>> /\ tasks # <<>>
  /\ writing' = <<Head(tasks)>>
  /\ tasks' = Tail(tasks)
  /\ UNCHANGED <<canvasVars, modelVars, maintainConnection, bitmapData, bufVars,
                 putting, toServer, toViewer, serverVars, budgets>>

\* os.write: the contents the array has now; lost when the socket is closed.
RunTask ==
  /\ writing # <<>>
  /\ toServer' = IF closed THEN toServer ELSE Append(toServer, Contents(writing[1]))
  /\ writing' = <<>>
  /\ UNCHANGED <<canvasVars, modelVars, maintainConnection, bitmapData, bufVars,
                 putting, tasks, toViewer, serverVars, budgets>>

-----------------------------------------------------------------------------
(* VncCanvas: the loop *)

Go(from, to) == pc = from /\ Free("canvas") /\ pc' = to

\* setPixelFormat reads pendingColorModel four times and then clears it.
\* Mutant: the model in use is sent once more.
UsedModel == colorModel
ChosenModel == pendingColorModel

SetPixelFormat ==
  /\ Go("format", "bpp")
  /\ Execute("canvas", Task("fresh", Format(ChosenModel)))
  /\ announced' = ChosenModel /\ crossed' = FALSE
  /\ UNCHANGED <<fullUpdateNeeded, encodings, bytesPerPixel, colorPalette, colorModel,
                 pendingColorModel, maintainConnection, bitmapData, bufVars,
                 toServer, toViewer, serverVars, budgets>>

ReadBpp ==
  /\ Go("bpp", "palette")
  /\ bytesPerPixel' = pendingColorModel
  /\ UNCHANGED <<fullUpdateNeeded, encodings, colorPalette, colorModel,
                 modelVars, maintainConnection, bitmapData, bufVars, execVars,
                 toServer, toViewer, serverVars, budgets>>

ReadPalette ==
  /\ Go("palette", "model")
  /\ colorPalette' = pendingColorModel
  /\ UNCHANGED <<fullUpdateNeeded, encodings, bytesPerPixel, colorModel,
                 modelVars, maintainConnection, bitmapData, bufVars, execVars,
                 toServer, toViewer, serverVars, budgets>>

ReadModel ==
  /\ Go("model", "clear")
  /\ colorModel' = pendingColorModel
  /\ UNCHANGED <<fullUpdateNeeded, encodings, bytesPerPixel, colorPalette,
                 modelVars, maintainConnection, bitmapData, bufVars, execVars,
                 toServer, toViewer, serverVars, budgets>>

ClearPending ==
  /\ Go("clear", IF encodings = "early" THEN "ask" ELSE "encodings")
  /\ pendingColorModel' = NoModel
  /\ UNCHANGED <<fullUpdateNeeded, encodings, bytesPerPixel, colorPalette, colorModel,
                 announced, crossed, maintainConnection, bitmapData, bufVars, execVars,
                 toServer, toViewer, serverVars, budgets>>

\* setEncodings(true): once, after the first update.
SetEncodings ==
  /\ Go("encodings", "ask")
  /\ encodings' = "sent"
  /\ \/ encodings = "due" /\ Execute("canvas", Task("fresh", Encodings))
     \/ encodings = "sent" /\ UNCHANGED execVars
  /\ UNCHANGED <<fullUpdateNeeded, bytesPerPixel, colorPalette, colorModel,
                 modelVars, maintainConnection, bitmapData, bufVars,
                 toServer, toViewer, serverVars, budgets>>

\* writeFullUpdateRequest(! fullUpdateNeeded)
WriteFullUpdateRequest ==
  /\ Go("ask", "loop")
  /\ bitmapData
  /\ requestBuf' = ~fullUpdateNeeded
  /\ Execute("canvas", Task("request", Request(~fullUpdateNeeded)))
  /\ encodings' = IF encodings = "early" THEN "due" ELSE encodings
  /\ UNCHANGED <<fullUpdateNeeded, bytesPerPixel, colorPalette, colorModel,
                 modelVars, maintainConnection, bitmapData, eventBuf, oldModifiers, overwritten,
                 toServer, toViewer, serverVars, budgets>>

\* Mutant: the loop does not look whether the connection is to be maintained.
Forever == "read"
WhileMaintained == IF maintainConnection THEN "read" ELSE "closing"

Loop ==
  /\ Go("loop", WhileMaintained)
  /\ maintainConnection => bitmapData
  /\ UNCHANGED <<fullUpdateNeeded, encodings, bytesPerPixel, colorPalette, colorModel,
                 modelVars, maintainConnection, bitmapData, bufVars, execVars,
                 toServer, toViewer, serverVars, budgets>>

\* What follows a message: the rectangles of an update, or the next message.
\* Mutant: every message is answered by a request.
AskAfterAll(kind) == IF kind = "unexpected" THEN "closing" ELSE "updated"
AfterMessage(kind) ==
  CASE kind = "update"     -> "updated"
    [] kind = "other"      -> "loop"
    [] kind = "unexpected" -> "closing"

\* readServerMessageType and the message it announces.
ReadMessage ==
  /\ toViewer # <<>>
  /\ bitmapData
  /\ Go("read", AfterMessage(Head(toViewer).kind))
  /\ toViewer' = Tail(toViewer)
  /\ UNCHANGED <<fullUpdateNeeded, encodings, bytesPerPixel, colorPalette, colorModel,
                 modelVars, maintainConnection, bitmapData, bufVars, execVars,
                 toServer, serverVars, budgets>>

\* After the rectangles of an update.  Mutant: only a new format is followed by a
\* request.
AskAfterFormat == IF pendingColorModel # NoModel THEN "format" ELSE "loop"
AskAgain == IF pendingColorModel # NoModel THEN "format" ELSE "encodings"

AfterUpdate ==
  /\ Go("updated", AskAgain)
  /\ fullUpdateNeeded' = (pendingColorModel # NoModel)
  /\ UNCHANGED <<encodings, bytesPerPixel, colorPalette, colorModel,
                 modelVars, maintainConnection, bitmapData, bufVars, execVars,
                 toServer, toViewer, serverVars, budgets>>

\* The loop ends by an exception: the end of the stream, or bitmapData gone.
LoopFails ==
  /\ \/ ~bitmapData /\ \/ Go("ask", "closing")
                       \/ Go("loop", "closing")
                       \/ toViewer # <<>> /\ Go("read", "closing")
     \/ toViewer = <<>> /\ ~serverUp /\ Go("read", "closing")
  /\ UNCHANGED <<fullUpdateNeeded, encodings, bytesPerPixel, colorPalette, colorModel,
                 modelVars, maintainConnection, bitmapData, bufVars, execVars,
                 toServer, toViewer, serverVars, budgets>>

\* rfb.close(), synchronized.
Close ==
  /\ Go("closing", "closed")
  /\ putting = <<>>
  /\ UNCHANGED <<fullUpdateNeeded, encodings, bytesPerPixel, colorPalette, colorModel,
                 modelVars, maintainConnection, bitmapData, bufVars, execVars,
                 toServer, toViewer, serverVars, budgets>>

-----------------------------------------------------------------------------
(* The UI thread *)

MayAct == Free("ui") /\ events > 0

\* An event is still to be written.
EventPending == \E n \in DOMAIN Pending : Pending[n].array = "event"
Tells(units) == \E n \in DOMAIN units : units[n][1] = "modifier"

\* Fills eventBuf from its start and leaves what was behind.
WriteEvent(units) ==
  /\ eventBuf' = units \o SubSeq(eventBuf, Len(units) + 1, Len(eventBuf))
  /\ overwritten' = (EventPending \/ (overwritten /\ ~Tells(units)))
  /\ Execute("ui", Task("event", Event(units)))
  /\ events' = events - 1
  /\ UNCHANGED <<canvasVars, modelVars, maintainConnection, bitmapData, requestBuf,
                 toServer, toViewer, serverVars, selections, changes>>

\* writePointerEvent: the release of the button releases the modifier.
WritePointerEvent ==
  /\ MayAct
  /\ \E down, modifier \in BOOLEAN :
       /\ WriteEvent(ModifierUnits(oldModifiers, modifier) \o PointerUnits(down)
                     \o (IF down THEN <<>> ELSE ModifierUnits(modifier, FALSE)))
       /\ oldModifiers' = (down /\ modifier)

\* writeKeyEvent: the modifier is set before a key goes down, and released
\* after one has gone up.
WriteKeyEvent ==
  /\ MayAct
  /\ \/ \E modifier \in BOOLEAN :
          /\ WriteEvent(ModifierUnits(oldModifiers, modifier) \o KeyUnits("key", TRUE))
          /\ oldModifiers' = modifier
     \/ /\ WriteEvent(KeyUnits("key", FALSE) \o ModifierUnits(oldModifiers, FALSE))
        /\ oldModifiers' = FALSE

\* setColorModel, from the menu, which the dialog of the first connection hides.
SetColorModel ==
  /\ Free("ui")
  /\ selections > 0
  /\ encodings # "early"
  /\ \E m \in Models \ {colorModel} : pendingColorModel' = m
  /\ crossed' = (crossed \/ pc \in {"bpp", "palette"})
  /\ selections' = selections - 1
  /\ UNCHANGED <<canvasVars, announced, maintainConnection, bitmapData, bufVars, execVars,
                 toServer, toViewer, serverVars, events, changes>>

\* closeConnection, from the menu or as the activity ends.
CloseConnection ==
  /\ Free("ui")
  /\ maintainConnection
  /\ maintainConnection' = FALSE
  /\ UNCHANGED <<canvasVars, modelVars, bitmapData, bufVars, execVars,
                 toServer, toViewer, serverVars, budgets>>

\* VncCanvas.onDestroy
OnDestroy ==
  /\ Free("ui")
  /\ ~maintainConnection /\ bitmapData
  /\ bitmapData' = FALSE
  /\ UNCHANGED <<canvasVars, modelVars, maintainConnection, bufVars, execVars,
                 toServer, toViewer, serverVars, budgets>>

-----------------------------------------------------------------------------
(* The server: it handles messages in order, and answers a request with one *)
(* update as soon as something has changed.                                 *)

\* The state of the modifier after the events in units.
HeldAfter(units) ==
  LET keys == {n \in DOMAIN units : units[n][1] = "modifier"}
  IN IF keys = {} THEN held ELSE \E n \in keys : units[n][2] /\ \A k \in keys : k <= n

ServerHandles ==
  /\ serverUp /\ toServer # <<>>
  /\ toServer' = Tail(toServer)
  /\ LET msg == Head(toServer) IN
       /\ format' = IF msg.kind = "format" THEN msg.model ELSE format
       /\ requested' = (requested \/ msg.kind = "request")
       /\ changed' = (changed \/ (msg.kind = "request" /\ ~msg.incremental))
       /\ held' = IF msg.kind = "event" THEN HeldAfter(msg.units) ELSE held
  /\ UNCHANGED <<canvasVars, modelVars, maintainConnection, bitmapData, bufVars,
                 execVars, toViewer, serverUp, budgets>>

ServerUpdates ==
  /\ serverUp /\ requested /\ changed
  /\ toViewer' = Append(toViewer, Update(format))
  /\ requested' = FALSE /\ changed' = FALSE
  /\ UNCHANGED <<canvasVars, modelVars, maintainConnection, bitmapData, bufVars,
                 execVars, toServer, format, held, serverUp, budgets>>

\* The screen changes, the server has something else to say, or it goes away.
ServerChanges ==
  /\ serverUp
  /\ changes > 0 /\ changes' = changes - 1
  /\ \/ changed' = TRUE /\ UNCHANGED <<toViewer, serverUp>>
     \/ \E msg \in {Other, Unexpected} :
          toViewer' = Append(toViewer, msg) /\ UNCHANGED <<changed, serverUp>>
     \/ serverUp' = FALSE /\ UNCHANGED <<changed, toViewer>>
  /\ UNCHANGED <<canvasVars, modelVars, maintainConnection, bitmapData, bufVars,
                 execVars, toServer, format, requested, held, events, selections>>

-----------------------------------------------------------------------------
Init ==
  /\ pc = "format"
  /\ fullUpdateNeeded = TRUE
  /\ encodings = "early"
  /\ pendingColorModel = FirstModel
  /\ colorModel = NoModel /\ bytesPerPixel = NoModel /\ colorPalette = NoModel
  /\ maintainConnection = TRUE /\ bitmapData = TRUE
  /\ eventBuf = <<>> /\ requestBuf = FALSE /\ oldModifiers = FALSE
  /\ overwritten = FALSE /\ announced = NoModel /\ crossed = FALSE
  /\ putting = <<>> /\ tasks = <<>> /\ writing = <<>>
  /\ toServer = <<>> /\ toViewer = <<>>
  /\ format = NoModel /\ requested = FALSE /\ changed = FALSE /\ held = FALSE
  /\ serverUp = TRUE
  /\ events = MaxEvents /\ selections = MaxSelections /\ changes = MaxChanges

CanvasStep ==
  \/ SetPixelFormat \/ ReadBpp \/ ReadPalette \/ ReadModel \/ ClearPending
  \/ SetEncodings \/ WriteFullUpdateRequest \/ Loop \/ ReadMessage \/ AfterUpdate
  \/ LoopFails \/ Close

WriterStep == PutDone \/ TakeTask \/ RunTask

UiStep == WritePointerEvent \/ WriteKeyEvent \/ SetColorModel \/ CloseConnection \/ OnDestroy

ServerStep == ServerHandles \/ ServerUpdates

Next == CanvasStep \/ WriterStep \/ UiStep \/ ServerStep \/ ServerChanges

Spec == Init /\ [][Next]_vars

\* The threads of the viewer run, and a server that is up does its work.
Fairness == WF_vars(CanvasStep) /\ WF_vars(WriterStep)
            /\ WF_vars(ServerHandles) /\ WF_vars(ServerUpdates)

FairSpec == Spec /\ Fairness

-----------------------------------------------------------------------------
(* Properties *)

Units == {"pointer", "key", "modifier"} \X BOOLEAN \X (1..4)
Requests == [kind : {"request"}, incremental : BOOLEAN]
Events == [kind : {"event"}, units : Seq(Units)]
Fresh == [kind : {"format"}, model : Models] \cup [kind : {"encodings"}]
Outgoing == Fresh \cup Requests \cup Events
Updates == [kind : {"update"}, model : Models \cup {NoModel}]
Incoming == Updates \cup [kind : {"other", "unexpected"}]
RequestTasks == [array : {"request"}, asked : Requests]
EventTasks == [array : {"event"}, asked : Events]
Tasks == [array : {"fresh"}, asked : Fresh] \cup RequestTasks \cup EventTasks

TypeOK ==
  /\ pc \in {"format", "bpp", "palette", "model", "clear", "encodings", "ask", "loop",
             "read", "updated", "closing", "closed"}
  /\ fullUpdateNeeded \in BOOLEAN /\ encodings \in {"early", "due", "sent"}
  /\ {pendingColorModel, colorModel, bytesPerPixel, colorPalette, format}
       \subseteq Models \cup {NoModel}
  /\ maintainConnection \in BOOLEAN /\ bitmapData \in BOOLEAN
  /\ eventBuf \in Seq(Units) /\ requestBuf \in BOOLEAN /\ oldModifiers \in BOOLEAN
  /\ overwritten \in BOOLEAN /\ announced \in Models \cup {NoModel} /\ crossed \in BOOLEAN
  /\ putting \in Seq([thread : {"canvas", "ui"}, task : Tasks]) /\ Len(putting) <= 1
  /\ tasks \in Seq(Tasks) /\ Len(tasks) <= Capacity
  /\ writing \in Seq(Tasks) /\ Len(writing) <= 1
  /\ toServer \in Seq(Outgoing) /\ toViewer \in Seq(Incoming)
  /\ requested \in BOOLEAN /\ changed \in BOOLEAN /\ held \in BOOLEAN
  /\ serverUp \in BOOLEAN
  /\ events \in 0..MaxEvents /\ selections \in 0..MaxSelections
  /\ changes \in 0..MaxChanges

\* The task that waits for room and those in the queue and in the executor's hands
\* are written as their caller meant them, although the array they are in is
\* shared: for update requests, because the loop asks for the next update only
\* when the answer to the last request is here.
RequestsIntact ==
  \A n \in DOMAIN Pending : Pending[n].array = "request" => Contents(Pending[n]) = Pending[n].asked

\* "A buffer for putting pointer and keyboard events before being sent" (RfbProto
\* 1134): an event is sent as it was put there.
EventsIntact ==
  \A n \in DOMAIN Pending : Pending[n].array = "event" => Contents(Pending[n]) = Pending[n].asked

\* How often something about an update is under way between the two sides.
Count(seq, S) == Cardinality({n \in DOMAIN seq : seq[n] \in S})
UnderWay ==
  Count(Pending, RequestTasks) + Count(toServer, Requests)
  + (IF requested THEN 1 ELSE 0) + Count(toViewer, Updates)

\* The loop never waits for an update it has not asked for, and never asks twice:
\* otherwise the viewer would freeze, or read an update in the wrong format.
OneRequestUnderWay ==
  /\ UnderWay <= 1
  /\ pc \in {"loop", "read"} => UnderWay = 1
  /\ pc \notin {"loop", "read", "closing", "closed"} => UnderWay = 0

\* The pixels of an update are read in the format they were sent in, which is that of the
\* last SetPixelFormat, however formats, requests and updates pass each other; but for
\* updates after another colour model was chosen while setPixelFormat was reading the one
\* it had announced.
ReadAsSent ==
  pc = "read" /\ toViewer # <<>> /\ Head(toViewer).kind = "update" =>
    /\ Head(toViewer).model = announced
    /\ ~crossed => bytesPerPixel = announced /\ colorPalette = announced

\* The server holds down the modifier that the viewer last sent as pressed: none
\* sticks once an "up" event has been handled, and one that sticks because its event was
\* overwritten in eventBuf does so only until a modifier is next sent on its own.
ModifiersAgree ==
  ~EventPending /\ Count(toServer, Events) = 0 /\ pc # "closed" /\ ~overwritten =>
    held = oldModifiers

\* A change of the screen is shown while the connection lasts.
ScreenFollowed == changed ~> ~changed \/ ~serverUp \/ closed

\* A connection closed by the user ends when the server next says something.
CloseTakesEffect == ~maintainConnection /\ (toViewer # <<>> \/ ~serverUp) ~> closed

=============================================================================
