# DroidLink in TLA+

DroidLink turns an Android device into a VNC server (its screen is captured and
served by libvncserver, its input is injected through an accessibility service)
and contains a VNC viewer. This directory holds models of the parts of the
program where order, concurrency and failure matter, the TLC instances that
check them, and proofs of the most important properties.

## 1. Inventory

| Part | Source | State | Operations | Talks to |
|---|---|---|---|---|
| Server service | `view/server/MainService.java` | projection grant, media projection and virtual display, `mIsStoppingByUs`, `instance`, NSD registration, preferences | `onCreate`, `onStartCommand` (8 actions), `onConfigurationChanged`, `onDestroy` | activities (intents, broadcasts), native server, Android |
| Native glue | `cpp/droidlink.c` | `theScreen` | `vncStartServer`, `vncStopServer`, reverse and repeater connections, frame buffer exchange, callbacks for clients and input | libvncserver (calls), Java (JNI) |
| Permission activities | `InputRequestActivity`, `WriteStorageRequestActivity`, `MediaProjectionRequestActivity` | the open dialog | answer by an intent to the service | service |
| Server activity | `ServerActivity.java` | what the button shows, settings | start, stop, connect, broadcast receiver | service |
| Input service | `InputService.java` | one `InputContext` per client, gesture callbacks | pointer, key and clipboard events of clients | native callbacks on client threads, Android gestures |
| libvncserver core | `libvncserver/main.c`, `rfbserver.c`, `sockets.c`, `auth.c` | client list, reference counts, locks, sockets, frame buffer, regions | listener, input and output thread of each client, shutdown, new frame buffer | sockets, glue |
| libvncserver encoders | `raw`/`tight`/`zrle`/... | compression streams | encode rectangles | output thread |
| TightVNC file transfer | `tightvnc-filetransfer/` | transfer per client | list, download, upload | message loop |
| WebSockets | `ws_decode.c`, `websockets.c` | frame decoder | hand shake, decode | sockets |
| Viewer connection | `viewer/VncCanvas.java`, `viewer/RfbProto.java` | message loop, pending colour model, shared event and request arrays, executor queue | handshake, message loop, events, close | server, UI thread |
| Viewer bitmaps | `FullBufferBitmapData`, `LargeBitmapData`, `CompactBitmapData`, `antlersoft/.../RectList`, `OverlappingCopy` | visible and valid rectangles | scroll, request, draw | loop, UI thread |
| Viewer UI | remaining `viewer/*.java` | menus, zoom, pan, key handlers, bookmarks | | canvas |

What is hard here:

* **The service** answers intents one at a time, but its life is driven by
  Android: a stop only takes effect later, an instance may be destroyed and
  re-created between two intents, the process may be killed and the last intent
  redelivered, and permission dialogs come back late, twice or never.
* **The server core** runs a listener thread and two threads per client, with
  reference counts and half a dozen locks; shutdown and a change of the frame
  buffer run against all of them.
* **The viewer** has a loop thread, the UI thread and a background writer that
  share arrays and fields without copying them.
* **Input** arrives on client threads, gestures complete on the main thread.

`PROJECT.json` lists the hazards one by one, each at its line.

## 2. Modules

| Module | Models | Is used by |
|---|---|---|
| `MainService` | the service, the permission activities and the server activity, over an Android that queues, stops, kills and redelivers | `MainService_proofs`, `OneUser_proofs` |
| `ViewerConnection` | the viewer's loop, UI thread and background writer, with a server | `ViewerConnection_proofs` |
| `FramebufferUpdates` | the way of the screen to the clients: main thread, input and output threads, with their locks | `FramebufferUpdates_proofs` |
| `ScreenSharing` | the abstract specification `FramebufferUpdates` implements | `FramebufferUpdates` |
| `ClientThreads` | the list of clients, its iterators and references, the threads of the clients and the end of the server | `ClientThreads_proofs` |
| `ClientLife` | the abstract specification `ClientThreads` implements | `ClientThreads` |
| `RfbHandshake` | versions, security types, authentication and initial messages, both sides | `RemoteSession`, `RfbHandshake_proofs` |
| `InputEvents` | pointer and key events from the message to the gesture, one context per client | `RemoteSession` |
| `RemoteSession` | a client from its connection to its end: `RfbHandshake` and `InputEvents` composed | `RemoteSession_proofs` |
| `SraRegion` | the lists of spans of `rfbregion.c` and their operations | `RectEncodings` |
| `RectEncodings` | the encoders raw, RRE, CoRRE, hextile, zlib, Ultra and ZRLE | `ViewerDrawing` |
| `ViewerDrawing` | the decoders of the viewer and of libvncclient, and what they draw | `CopyUpdates` |
| `CopyUpdates` | drawing, copying, regions, updates and their reception, composed of the three above | `MCCopyUpdates` |
| `UpdateRegions` | the regions of a client as sets of points; the abstract specification `CopyUpdates` implements | `MCCopyUpdates`, `UpdateRegions_proofs` |

Each specification that is checked has an `MC...` module with the values of its
constants, where these are not written in the `.cfg` itself.

### 2.1 MainService

Everything runs on the main thread of one process, so an action is one callback
run to its end, and the concurrency is in the order of messages. `serviceQ` is
the queue of messages Android has for the service (create, a command with its
intent, destroy). `StartService` appends a command, preceded by a create when
the service is not started; `stopSelf()` and `stopService()` append a destroy.
That a stop is only *asked for* is what makes the component hard: between the
request and `onDestroy` more commands may arrive in the queue of the old or of
the next instance.

| Code | Model |
|---|---|
| `instance`, `mIsStoppingByUs` | `alive`, `stoppingByUs` |
| `mResultCode != 0 && mResultData != null` | `granted` |
| `mMediaProjection`, `mVirtualDisplay` | `capture`: `"none"`, `"projection"` (no display), `"display"` |
| `theScreen` of `droidlink.c` | `theScreen`: the port served, or `NoServer` |
| `registerNSD` / `unregisterService` | `nsd` |
| preferences written by START | `prefs` |
| `START_REDELIVER_INTENT` | `redeliver` |
| open permission activities | `dialogs`, a number per kind |
| `sendBroadcast`, receiver | `broadcasts`, delivered in order while the activity lives |
| `mIsMainServiceRunning`, `mButtonToggle` | `ui` |

An intent carries its action, whether its access key is the expected one, a
port and a flag (view-only of a START, the answer in a result). Each branch of
`onStartCommand` is an action of its own, in the order of the code: the key is
checked first. `StartServer` is `vncStartServer` with what both callers do
around it. `CONNECT_REVERSE` and `CONNECT_REPEATER` differ from an unknown
action only in a toast, and share an action with it. The environment
(rotation, process death, a foreign component, a dialog abandoned or created
again, a busy port, a refused capture ...) acts within a budget:
`Disturbances` names what may happen, `MaxDisturbances` how often.

Several preferences files have different names in the code, so what one place
writes another never reads. The model has this as it is: the server is started
on `DefaultPort`, and the access key of the activity (`keyIsDefault`) is not
the one the service compares with.

### 2.2 ViewerConnection

Three threads: the loop of `VncCanvas.processNormalProtocol` (`pc` is its
place; `setPixelFormat` is split at each of its four reads of
`pendingColorModel`), the UI thread (events, choice of a colour model, close,
destroy), and the executor's thread, which takes a task and later writes *what
its array holds at that moment*. A task is therefore a name of an array
together with what its creator meant (`asked`); `Contents` is what will be
written. Calls block when the queue is full (`putting`) and keep the monitor of
`RfbProto`, so the other thread's calls and `close` wait too.

A key event has 8 bytes, a pointer event 6, and both start at the beginning of
`eventBuf`; units of two bytes keep these proportions, so an event overwritten
by a shorter one leaves a tail, as in the code. The server processes its
messages in order and answers a request with one update when something has
changed; it holds the modifiers that were pressed.

Nothing keeps a user, or the viewer itself, from sending an event before the
last one is written, or from choosing a colour model while the loop announces
another: `MouseScrollRunnable` sends two events in a row. Three variables that
no step asks for say what has happened: `announced` is the model of the last
`SetPixelFormat`, `crossed` that another was chosen before the loop had read
that one, `overwritten` that an event was put into `eventBuf` over another that
was still to be written, and no event has told of a modifier on its own since.

### 2.3 FramebufferUpdates and ScreenSharing

Three kinds of threads meet at a client record: the main thread (`pc`), which
copies images, exchanges the frame buffer when their size changes and marks the
clients; the client's input thread (`inPc`), which handles messages and at the
end joins the output thread and frees the record; and its output thread
(`outPc`), which waits until something is modified and requested, and sends it.

| Code | Model |
|---|---|
| `screen->frameBuffer` | `frameBuffer`, a number; `contents` is the number of the picture in it, `freed` those given back |
| `rfbClientIterator` | `todo`, the clients still to be visited, and `at`, the one whose reference is held |
| `cl->state`, `cl->sock` | `state`, `open` |
| `modifiedRegion`, `requestedRegion` | `modified`, `requested`, sets of parts of the screen |
| copy of the modified region, region sent | `given`, `sending` |
| `updateMutex`, `updateCond` | a section under the mutex is one action; a waiting output thread is at `"wait"`, `Signalled` wakes it |
| `sendMutex` | a variable: `"free"`, `"main"`, `"out"` |
| what the client shows, the size it knows | `shown`, `size` |

Where the code reads without the lock that protects what it reads, the model
has a step of its own: the look at `cl->state` before `updateMutex` is taken
(`Look`, `Test`), the copy of the modified region and its later subtraction
(`CopyRegion`, `TakeRegion`), the address of the frame buffer and the pixels
behind it (`ReadPointer`, `SendPart`). An image is copied without any lock
while updates are sent, so the parts of an update may be of different images;
the content of a freed frame buffer is no picture at all.

`ScreenSharing` is what remains of it for a client: the screen goes from
picture to picture, and each part shown was on the screen once and is never
replaced by an older one. `SharesScreen` maps `screen` to `picture` and `shown`
to itself.

### 2.4 ClientThreads and ClientLife

The records of clients are a doubly linked list in the screen. A thread is
`Main`, `Listener`, or a client, which stands for its input thread (`pc`); the
output threads are `outPc`. What the code does under one lock is one action.

| Code | Model |
|---|---|
| `screen->clientHead`, `cl->next`, `cl->prev` | `head`, `next`, `prev`; `listed` are the records between link and unlink |
| `cl->refCount`, `rfbIncrClientRef`, `rfbDecrClientRef` | `refCount`, `Referenced`, `Released` |
| `rfbClientIteratorNext` | `SkipClosed`, `TakeReference`, `Advance`, `LastFetched`: the pointer is read (`"fetched"`) before the reference is taken |
| loops over the iterator | `purpose`: counting, marking, closing the others, stopping, cleaning up; the last three fetch the next client before they handle one (`cur`) |
| `rfbCloseClient` | `CloseClient` |
| `rfbClientConnectionGone` | `Unlink`, `WaitAndHook`, `Free` |
| `listenerRun`, `rfbReverseConnection`, `rfbNewClient` | `Accept`, `Counted`, `Link`, `Hello`, `StartClient` |
| `clientInput`, `rfbProcessClientMessage` | `HandshakeMessage` (the state is looked at), `Answer` (the state is set), `Request`, `PeerGone`, `LeaveLoop`, `JoinOutput` |
| `clientOutput` | `Look`, `WaitForUpdate`, `StartSend`, `EndSend` |
| `vncStopServer`, `rfbShutdownServer`, `rfbScreenCleanup` | `Stop` to `ScreenFreed` |

A record taken out of the list still points to what followed it, as in the
code, and what is freed keeps its content. `ClientLife` is what the service is
told: each client is announced once, while the server serves, and is gone once
after that.

### 2.5 RfbHandshake, InputEvents and RemoteSession

In `RfbHandshake` each side reads the message its place makes it expect from a
queue (`toClient`, `toServer`). Messages are pairs of a kind and the one value
that matters: the version, the security types in the order of the list, the
choice, whether the response is right, whether the screen is shared. The server
is `rfbProcessClientMessage` with its handlers, the client the viewer of the
app (`kind` is `"app"`), any other one (`"foreign"`), or one the server has
connected to (`"called"`, `rfbReverseConnection`). A client that is not the app
picks any security type, offered or not: the server does not compare its choice
with what it has sent, but looks it up in its list (`SecurityType`). Apart from
that each client follows the protocol of its version.

The list of security handlers is global and its records are linked through
`next`; registering and unregistering go on with the record behind, which is
modelled as it is (`Register`, `Unregister`). Nothing locks the list, and
`rfbSendSecurityTypeList` changes and reads it on the thread of each client.
Its three parts are steps of their own, between which other clients' threads
may do theirs: the other type is unregistered (`ProtocolVersion`), the type the
server wants is registered (`RegisterType`), and the list is walked and sent
(`SendTypeList`), or found empty.

`InputEvents` follows an event from `rfbProcessClientNormalMessage` (`PointerEvent`,
`KeyEvent`) through the hook of `droidlink.c` (`Hook`) to `onPointerEvent` of
`InputService` (`Deliver`, and `Dispatch` for a scroll); gestures end on the
main thread (`OnGestureEnd`). `pointerClient` is tested without a lock
(`PointerEvent`, which drops the event when another client is the pointer's)
and set later (`TakePointer`), so several clients may have passed the test.
`contexts` is `mInputContexts`; `user`, `drags` and `strokes` say what a user
did and what was dispatched for it. The accessibility service is connected and
destroyed by Android; it is not told of clients that were there before, and
`missed` are the clients an event of which it could not have got. `crowded` are
those a pointer event of which came while another client was between
`pointerClient` and the hook. No step asks for `missed` or `crowded`.

`RemoteSession` composes the two: a client is announced to the input service
when it connects (`newClientHook`), sends events once its handshake is over,
and is taken back when its thread ends.

### 2.6 SraRegion, RectEncodings, ViewerDrawing, CopyUpdates and UpdateRegions

A region is a sequence of bands, a band a span of y with a sequence of spans of
x. The loops of `sraSpanListOr`, `And` and `Subtract` walk a list that they
change; they are recursive operators here, with a place in the destination and
in the source. Pixels are small numbers, one byte (colours are halved) or four.

An encoder gives records with the content of a rectangle and the number of its
bytes; a decoder gives the picture it has drawn and the number of bytes it has
read. Neither relies on the other: that both numbers are equal is
`StreamInStep`, that the colours are right is `PictureFollows`. Deflate and
inflate are external, and give back what they were given. `CopyUpdates` puts
them between a screen, on which the program draws (`Draw`) or copies
(`DoCopyRegion`, with `rfbScheduleCopyRegion`), and a client that requests,
receives and draws. `Moved` is the `memmove` of `rfbDoCopyRegion`, line by line
in its order, and the client copies in the order of the rectangles sent.

`UpdateRegions` is what the regions are for, without the lists, the encodings
and the order of copies: `modified` and `copied` (with `copyBy`) are what one
copy and one sending of pixels must bring to the client. A region is a set of
points, and any set of points may be drawn, copied or requested. In exchange
the steps are smaller than those of `CopyUpdates`: the program draws first and
calls `rfbMarkRectAsModified` later (`Draw`, `Mark`, with `unmarked` in between),
the output thread copies the modified region before it takes it (`TakeRegion`,
`SendFramebufferUpdate`), and the pixels of an update are read from the screen
bit by bit while the program draws on (`SendPixels`, `sending`).
`rfbDoCopyRegion` moves the pixels and schedules the copy in one step.

`KeepsRegions` in `MCCopyUpdates` is the refinement: the points of its regions,
the colours the client sees, and for its picture `coming`, a variable that
`MCCopyUpdates` adds: the picture with the update that is on its way drawn. So
that every client of the run follows `UpdateRegions` says at once that the
operations on regions, encoder and decoder, and the order of copies do what
sets of points and one assignment do.

## 3. Runs

| Run | Shows | Bounds |
|---|---|---|
| `service_safety` | type and safety invariants and the inductive invariant, under all disturbances | two disturbances in one behaviour, one set of arguments; 2.4 million states |
| `service_one_user` | the button agrees with the server, view-only holds, clicks are answered (liveness), no deadlock | disturbances `busyPort`, `rotate`, `osStop`, `revoke`, three of them; two ports, view-only or not |
| `viewer` | one request under way, requests intact, updates read in the format announced unless a choice crosses it, a modifier sticks only through an overwritten event and until the next that tells of it; screen followed, close takes effect (liveness) | queue of one; three colour models; two events, two choices of a model, one change at the server, not all of them at once |
| `updates_one` | nothing out of date is forgotten; a client gets answers to its requests (liveness) | one client that connects and may leave, two parts, two images, one change of size, two requests |
| `updates_settled` | readers locked out, no freed frame buffer read, size announced, refinement of `ScreenSharing` | two clients in operation, two images, two changes of size, two requests each |
| `threads` | nothing is freed while it is referenced, references and links are right, walks miss nobody, a stop ends (liveness), refinement of `ClientLife` | two clients that come, exclude each other, leave and are stopped, while images are marked; the listener accepts; 0.24 million states |
| `handshake` | both sides read what the other has written, and never wait for each other; until the server calls somebody, nobody gets round the password | two clients of any kind that pick any type, protocol versions 3.3, 3.7, 3.8 and 3.889, with and without password; 1.0 million states |
| `session` | what a user holds down and draws is what the service does, but for events missed or crowded out; swipes are counted, contexts belong to clients | two clients, one of them called by the server, version 3.7, three pointer or key events in all, one key, the accessibility service switched twice; 2.9 million states |
| `regions` | what the regions do not name is shown right, while the program draws, marks later and copies, and pixels are sent bit by bit | a line of three points, two colours (symmetric), every region of neighbours, moves by one to either side; `Apart`; 0.9 million states |
| `pixels` | what is not marked is shown right, decoders read what encoders write, regions are exact, refinement of `UpdateRegions` | screen of 6 × 3, five images, 24 clients: all but the viewer with CoRRE or with ZRLE of one byte, see section 4 (decoder, encoding, 1 or 4 bytes, copies or not), two changes between updates |
| `updates_leave_lock` | *violation*: a client that closes during the exchange stays locked | one client, one image, one change of size |
| `threads_closed` | *violation*: a closed client goes on with its handshake | as `threads` |

**Service.** Two disturbances are enough for each pair of them to meet, which is
where the protocol between service and activity is delicate: each handler looks
at no more than one message of the past (a pending stop, a stale grant, an
unanswered dialog).

**Viewer.** A queue of one is the smallest that blocks, and the array behind a
task is shared whatever its length, so the second of two events can be put over
the first. Two choices of a colour model are one more than the loop can have
pending, and three models let the second choice be neither the model in use nor
the one being announced. `MCViewerConnection` keeps two events apart from
choices and changes (`OneThingAtATime`), and the third model apart from events
and changes (`ThirdAlone`), so that all are checked in one run.

**Updates.** Two changes of size let a frame buffer be exchanged again while a
client still reads after the first exchange, and two requests let a client ask
while its first request is served; a third thread of a kind adds no new pair of
neighbours, as clients meet only through the main thread. `updates_settled`
leaves out clients that come and go, for the code breaks its properties with
them. What `updates_one` checks holds for clients that come and go.

**Threads.** With two clients a record is unlinked at the head, behind it and
alone, a walk meets a record that leaves while it is the current or the next
one, and each client may close the other. Reverse connections are set up by the
main thread with the actions of the listener; `Acceptors` may contain both, as
in the invariant of the proofs.

**Handshake and session.** Two clients are needed since the list of security
types is one for all. In `session` the handshakes are interleaved with each
other, but no event is handled while one is under way (`MCSession`): a
handshake touches no state of `InputEvents` but in announcing a client and in
closing one, which may come between any two steps of the input of another. The
first client is called by the server, and the other picks any type that is
registered, so one that got in without the password takes part in the input.
The theorems about `RemoteSession` need no such order.

**Pixels.** The sizes of tiles are constants, and small enough for a screen of
18 pixels to have whole and partial ones in both directions: hextiles of 4, ZRLE
tiles of 6, CoRRE rectangles of at most 4, zlib rectangles of 8, a palette of
6, run lengths of at most 4 in a byte. Raw, palette, runs and one colour all
occur. The regions do not depend on the encoding, so one client that copies
goes through the interleavings of drawing, copying, requesting and sending; the
others see one change between two updates and, as the viewer and libvncclient
do, request the whole screen when no request is waiting. An update on its way
is received at once: nothing else reads or changes what receiving it does.

**Regions.** Three points are the fewest for a copy to have a source that is
itself a destination while a third is neither, and two moves the fewest for a
copy to be scheduled on top of another of a different move. Nothing is bounded:
the run goes through all states of its constants.

CHECK_DEADLOCK is off where the system really stops: a connection that is
closed, a start whose dialog the user abandons, a server that is stopped, and a
screen on which nothing changes any more. `handshake` states that nobody is
stuck as an invariant of its own (`NobodyStuck`).

## 4. What the conditions of the runs hide

Properties that hold under a condition the code does not see to, or not at all,
are found violated when the condition is lifted. These were seen while
modelling and have no run of their own; each can be reproduced by the change
that is named, of a configuration file or of the property.

| Property | Configuration and change | What happens |
|---|---|---|
| `EventsIntact` | `MCViewer.cfg`, as invariant | two events in a row, as `MouseScrollRunnable` sends them (VncCanvas.java:923), share `eventBuf`: the second is sent twice, or with the tail of the first (RfbProto.java:1174) |
| `ModifiersAgree` | without `~overwritten` in `ViewerConnection` | the event that presses a modifier is written over before it is sent, and the server does not get it; or the one that releases it, and it sticks |
| `ReadAsSent` | without `~crossed` in `ViewerConnection` | a second colour model chosen while the loop announces the first: announced and used formats differ (VncCanvas.java:327) |
| `LeaversFreed` | `MCUpdatesOne.cfg`, as property | the signal of a closing client comes between the output thread's test and its wait; without another image nothing wakes it (main.c:488) |
| `ReadsLockedOut` | `MCUpdatesOne.cfg`, as invariant | a client linked after the first walk of `rfbNewFramebuffer` reads during the exchange |
| `SizeKnown` | `MCUpdatesOne.cfg`, as invariant | a client between ServerInit and SetEncodings is never told of a new size (main.c:1131) |
| `ServesPersistedPort` | `MCMainServiceOneUser.cfg`, as invariant | START writes to preferences of one name, the server is started from another (MainService.java:280) |
| `ConfirmationKeepsServer` | `MCMainService.cfg`, `Disturbances <- Refused`, as property | a second confirmation of a capture makes `vncStartServer` fail, and the service stop (MainService.java:302) |
| `UiAgrees` | `MCMainServiceOneUser.cfg`, `Disturbances <- Everything` | a reverse connection asked for while a dialog of the start is open stops the service, and the start that goes on in it is undone without a broadcast (MainService.java:432) |
| `ViewOnlyHonoured` | the same | the label of the input permission opens the dialog of a start that is not view-only, and its answer enables the input |
| `ToggleAnswered` | `MCMainServiceOneUser.cfg`, `Disturbances <- Everything`, no deadlock check | a dialog that is cancelled leaves START unanswered and the button disabled |
| `NoDanglingUse` | `MCThreads.cfg`, as invariant | the iterator follows `next` to a record whose own thread frees it before the reference is taken (rfbserver.c:217) |
| `OfferHonoured` | `MCHandshake.cfg`, as invariant | another client's thread unregisters what this one has been offered (auth.c:349); and it is not compared with what the client picks |
| `PasswordAsked` | without `CalledOut` in `RfbHandshake` | once the server has called somebody, `None` is in the list until the next client's thread takes it out (auth.c:213); a client that is to give a password and picks `None` is let in, against the comment of auth.c:349 |
| `InputFollowsUser` | without `c \notin crowded` in `InputEvents` | a pointer event of one client is dropped while another is on the way to the pointer hook; it may be the release of the button (rfbserver.c:2687). `droidlink.c:60` releases the pointer in the hook to "allow multiple dragging actions at once", which leaves the time before it |
| `StreamInStep`, `PictureFollows` | `MCPixels.cfg` with the viewer's CoRRE, or its ZRLE of one byte, in `MCClients` | subrectangles of CoRRE are read as long as those of RRE; raw one byte ZRLE tiles are drawn past the palette (VncCanvas.java:1310) |
| `ShowsScreen` of `UpdateRegions` | `MCRegions.cfg`, `Apart = FALSE` | `rfbDoCopyRegion` moves pixels without `sendMutex` while an update is being sent: a point that is being sent is read after it has been copied over, and the client copies the new pixel where the old one belongs (main.c:377) |
| `PictureFollows` of `CopyUpdates` | `MCPixels.cfg` with a region of two rectangles in `MCCopied` | the program moves the rectangles in the order of one direction (main.c:377), the client gets them in another (rfbserver.c:3614), and one overwrites the source of the other |

The access key has no property: what the activity saves and what the service
compares with are in different files, which the model has as it is.

## 5. Fairness

`MainService`: Android runs the messages of the main thread and delivers
broadcasts, so `ServiceStep` and `OnReceive` are weakly fair; that the user
answers an open dialog (`DialogStep`) is a condition of `ToggleAnswered`, which
promises nothing to a user who leaves a dialog open. Clicks and disturbances
are never fair. `ViewerConnection`: the loop and the executor are running
threads (weak fairness of `CanvasStep`, `WriterStep`); a server that is up
handles messages and sends updates. Users are not fair. `FramebufferUpdates`:
the threads of the server are weakly fair (a write ends, at the latest after
`rfbMaxClientWait`); images, clients and their messages need never come, which
is why a lost signal can be final. `ClientThreads`: each input thread, output
thread, the listener and the main thread are weakly fair in what they do of
their own; connections, messages, a peer that goes, images and the stop itself
need never come. `StopEnds` therefore excepts the two states in which the stop
depends on a peer or an image: `Overslept` and `Overwritten`.

No liveness is stated for `RfbHandshake`: a handshake is a number of steps
bounded by its messages, so that a pair of sides that is never stuck
(`NobodyStuck`) ends.

## 6. Proofs

### MainService_proofs

For every value of the constants (any arguments, any disturbances, any bound),
under the assumptions on constants named in `MainService` (ports are integers
and `NoServer` is none, the bound is a natural number):

* `TypeCorrect`: `TypeOK`;
* `InvCorrect`: the inductive invariant `IInv`;
* from these, `ServerNeverOutlivesService`, `CaptureNeverOutlivesServer`,
  `AdvertisedPortIsServed`, `RestartsOnlyServing`, `RunningServerCanBeStopped`.

`ServerHasService` is not inductive: nothing in it says that a start server
command can only be found where an instance exists. `QueueShape` says so: in
`serviceQ` a create follows a destroy and nothing else, the queue begins with a
create exactly when there is no instance, and `started` tells whether the
service will exist once the queue is carried out. `GrantNeedsServer` is what
keeps `CaptureNeedsServer` over a rotation: a grant is left behind only in an
instance that is being stopped. `ServerAnnounced` makes `StopOffered`
inductive: the broadcasts on their way leave the button at "Stop" as long as
the server is not being stopped. The proof splits `Next` into the callbacks,
the dialogs, the activity and the environment; the facts about queues
(`ShapeTail`, `ShapeDestroy`, `ShapeStart`, `ShapeDeath`) and about the last
broadcast (`SayAppend`, `SayReceive`) are lemmas of their own.

### OneUser_proofs

About `MainService` under `Disturbances \subseteq OneUserEvents`: any arguments
and any number of `busyPort`, `rotate`, `osStop`, `revoke`, `abandon` and
`rekey`. This is one user who keeps to the button, the dialogs and the access
key, and an Android that neither re-creates activities, nor refuses a capture,
nor kills the process. Each of the other
disturbances breaks `UiAgrees` by itself, and each but `connect` breaks
`ViewOnlyHonoured` (section 4).

* `OneStartAtATime`: the inductive invariant `OneUserInv`;
* `ButtonAgrees`: `UiAgrees`, and `ViewOnlyIsHonoured`: `ViewOnlyHonoured`.

Neither says anything of messages under way, which is all that matters for
them. `InQueue` says what the queue of the service may hold: at most one start
(or answer to a dialog) and one stop, in that order of asking, and a running
server has no start ahead of its destruction. `InDialogs` allows one dialog, and
only while nothing else is under way. `Button` lists what may be on its way to
the activity in each state of the button (`SaysStart`, `StartAnswered`,
`SaysStop`): a stop that Android asked for may be answered twice, and the
refusal of a late stop may come ahead of the answer to the next start, both of
which the activity must come through. `ViewOnly` says that what the user has
been asked, and has answered, is about the START persisted last.

### FramebufferUpdates_proofs

For any clients, parts and bounds:

* `TypeCorrect`: `TypeOK`, and with it `Bounded`, which says where the bounds
  are known to leave room;
* `NothingIsForgotten`: `PictureKept`, whichever clients come and go. It is not
  inductive, because of a client whose output thread read the address of the
  frame buffer before an exchange: what it sends is out of date at once.
  `OldMarked` says that all of the screen is marked for such a client;
  `SendingPlaces` and `Handshaking` say where a region may be in sending and
  when the output thread is at rest;
* under `Settled = Clients` and `Leavers = {}` (no client comes or goes; the
  violations show that this is needed): `LockInvCorrect`, and from it
  `ReadersAreLockedOut`, `NoFreedBufferIsRead` and `UpdatesShareTheScreen`, the
  refinement of `ScreenSharing`. `Holders` is the core of `LockInv`: it names
  the owner of each `sendMutex` at each place of the threads. With it an
  exchange finds no output thread between `ReadPointer` and the end of its
  sending (`BufferInPlace`), so each part sent is of the youngest picture, and
  nothing shown is younger (`ShownBefore`);
* under the same two, `PixelsInKnownSize`: `SizeKnown`. `SizesInv` adds to
  `LockInv` that a client whose size is not that of the frame buffer has the
  new size pending, or is about to have it set by the main thread, which holds
  its `sendMutex` until then.

### RfbHandshake_proofs

For any clients of any kind, any versions among those the server tells apart
(`HandshakeAssumption`), with and without a password:

* `PhasesKept`: the inductive invariant `PhaseInv`;
* `SidesInStep`: `InStep`, and `NeverStuck`: `NobodyStuck`;
* `NobodyUnasked`: `PasswordAsked`.

`InStep` compares the first message with who reads it and says nothing of the
second, so it is not inductive. `Phase` lists the phases of a connection: the
state of the server, the place of the client, and all that is under way between
them (`Talk`). Each step of one side leads from a phase to a phase; what a step
leaves alone, above all the other clients, is said once. Once a side has ended,
only what the other may still read matters (`Ended`, `Left`). What the list of
security handlers holds, and what a client was offered, does not matter to it:
any choice is answered by its handler or by the end of the connection.

`PasswordInv` adds two facts to `PhaseInv` for `PasswordAsked`. `UnknowingWords`
bounds all that a client without the password may write: a right response is
not among it. `Guarded` says that, until the server has called somebody, no
field of the list points to the handler `None` (`WithoutNone`), so that
neither registering nor unregistering, which go on with stale `next` fields,
can bring it back; whatever type such a client picks then ends in a challenge
or a refusal.

### RemoteSession_proofs

For any clients, keys, versions and bounds, about the composition of handshake
and input:

* `SessionInvariant`: `SessionInv`, the types of the input side with what relates
  the two parts: a client that has not connected has left no trace, an event
  being handled and a context belong to a client that was announced;
* `SwipesCounted`: `ScrollsCounted`. A gesture that ends takes one stroke from
  those dispatched, which needs that a swipe that is not completed has one;
* `ContextsBelong`: `ContextsOfClients`. Contexts are made for clients that are
  announced and removed with them, and an accessibility service that comes
  later has none for those before it;
* `UsersAreFollowed`: `InputFollowsUser`. `PointerInHook` says that `pointerClient`
  is a client in the hook, if any, so an event is turned away only when another
  client is there. `Tracked` has three parts for each client: an event under way
  is the last thing its user did (`LastOf`); a client that nothing was lost of
  has in its context the keys of its user, and unless it is `crowded` his button
  and his strokes, but for the event under way (`FollowsOf`); and whatever was
  lost, no more strokes were dispatched than drawn (`BoundedOf`), which needs the
  one that is still to come when the button is down in the service only;
* `HandshakesInSession`: every behaviour of `RemoteSession` is one of
  `RfbHandshake`, whose theorems therefore hold in it.

### ClientThreads_proofs

For any number of clients, whoever sets them up:

* `ThreadsInvariant`: the inductive invariant `ThreadsInv`, and `TypeCorrect`;
* `ListStaysLinked`: `ListLinked`. It is not inductive: nothing about neighbours
  excludes a ring of records apart from the head, and an empty list with records
  in `listed`. `ListInOrder` excludes it by an order: each record has the set of
  those after it, without itself, and all that is listed is the head and what is
  after it. Records that have been taken out have one too, since a walk may still
  stand on them;
* `CountsAreRight`: `RefsBalanced`. `Walking` says where an iterator has a
  client, so that taking adds one element to `Iterating` and going on removes
  one (`ReferenceTaken`, `ReferenceGiven`); it also gives that the count does
  not get below zero;
* `ServiceIsTold`: `KeepsClients`, the refinement of `ClientLife`. `Hosting` says
  that two hosts never have the same client and that its thread has not been
  started; `Stages` at which places a record is listed and has been said to be
  gone; `Stopping` that nobody is set up once the server is being stopped;
* `NothingHeldIsFreed`: `NoneFreedInUse`. `Alive` says that a record that is
  disposed of is closed, so that no walk takes a reference to it any more, has no
  output thread and no walk at it. A pointer that was read before the reference
  is taken is not a reference; what becomes of it is `NoDanglingUse`, which does
  not hold (section 4);
* `MarksEverybody` and `StoppedServesNobody`: `NoneMissed` and `NobodyServed`. Both
  rest on `WalkInv`: with the same order of the list, whoever is open and still to
  be visited is `Ahead` of the main thread's iterator, be it on a record that has
  been taken out meanwhile (`Covered`); and `Opened` says at which places a client
  is open, so that one that is no longer in the list is one being dropped.

The proof keeps `OwnInv`, which knows nothing of references, apart from the
rest: each action has one lemma for it, and all steps of a walk have
`WalkKeepsOwn` in common.

### ViewerConnection_proofs

For any colour models, any capacity of the queue, any number of events and
changes; every invariant the run `viewer` checks:

* `TypeCorrect`: `TypeOK`. `BufferLongEnough` keeps the executor within the array
  of an event, `ModelChosen` keeps `setPixelFormat` from a `null` model;
* `AsksOnce` and `RequestsAsAsked`: `OneRequestUnderWay` and `RequestsIntact`. What the executor does to `Pending`, the one sequence of
  caller, queue and writer, is said once (`ExecutePending`, `MovePending`,
  `RunPending`): a task is appended, moves on, or is written. `CountAppend` and
  `CountTail` then turn each step into arithmetic on the four places the one
  request can be at, and that no second one is pending keeps the shared array
  intact (`RequestKept`);
* `ReadsWhatWasSent`: `ReadAsSent`. `FormatFirst` says that no format is behind a
  request, in the executor, in the socket, or across the two, and
  `FormatSettled` that none is under way when a request is being answered; so an
  update has the format that was announced last, whatever is chosen meanwhile.
  `ModelInv` follows `setPixelFormat` through its reads of `pendingColorModel`:
  unless another choice crosses them (`crossed`), they are of the model announced;
* `NoModifierSticks`: `ModifiersAgree`, for any number of events in a row.
  `PendingSays`, `SentSays` and `HeldSays` follow the last event that tells of the
  modifier from the array to the server; `EventTells` says that what an event tells
  is what the viewer remembers, for each way `writePointerEvent` and
  `writeKeyEvent` put presses and releases around the event. `HeldInv` holds as
  long as no event has been `overwritten`, since then only one is pending and the
  shared array is intact (`EventKept`); an event that is put there when no other
  is pending, and tells of the modifier, makes it hold again (`HeldAtEvents`).

### UpdateRegions_proofs

For any screen, pixels and regions, any moves, and a client that requests what
it wants and switches `CopyRect` on and off, under `Apart` (no copy on the screen
between the pixels of an update; section 4 shows that this is needed):

* `RegionsCorrect`: the inductive invariant `RegionsInv`;
* `PictureIsFollowed`: `PictureFollows`, the promise of rfb.h:510;
* `NothingMissing`: `ShowsScreen`, which is what the promise comes to when the
  regions are empty.

`PictureFollows` looks behind a copy that waits, so `SourcesInScreen` has to say
that its source is on the screen, and `SendingAlone` that no copy waits while
pixels are being sent: otherwise the pixels sent would change the source of a copy.
`CopySound` is the core. With the same move as before, a point of the new copy
whose source waits for a copy itself, or a waiting point whose source is copied
over, is shown right only because `WithWaiting` marks it; with another move all
that waited is marked; and what has a modified source is marked by `WithCopied`
(`ThereAndBack`, `MovedBack` say that the way back undoes a move, which is what
relates the two). `UpdateSound` has the rest: what is sent is what was modified
when the thread looked, what is copied is not modified now, and what
has been modified in between is sent as it is by then, or stays marked.

`CopyUpdates` inherits these theorems as far as `KeepsRegions` is checked: the
refinement is a property of the run `pixels`, not a theorem.

### Only model-checked

Every invariant the runs check is proved, except three of `pixels`
(`PictureFollows` of `CopyUpdates`, `StreamInStep`, `RegionsExact`). The
refinement `KeepsRegions` is only checked, too. Lists of spans, encoders and decoders
are recursive over lists and tiles, and what they compute would need induction
over data, which the installed provers cannot use. What the regions mean is
proved on `UpdateRegions`, where they are sets. Liveness also stays with TLC
(`ToggleAnswered`, `ScreenFollowed`, `CloseTakesEffect`, `RequestAnswered`,
`StopEnds`), which needs fairness and `ENABLED`. Of each inductive invariant a
proof rests on, TLC has checked an instance first: `IInv` in the run
`service_safety`, the others on the instances of the runs named for their module.

## 7. Assumptions of the models

* Locks exclude each other, and a section under one lock is one step. Reads
  outside the lock that protects what they read are steps of their own.
* A read of freed memory is no picture (`FramebufferUpdates`) or finds the old
  content (`ClientThreads`, where it does happen: section 4, `NoDanglingUse`).
* Nobody is set up while the server is stopped: `rfbShutdownServer` would free
  such a client with its threads running.
* A walk over the list of security handlers is one step (`RfbHandshake`): the
  registration of a handler, the making of the list that is sent, and the search
  for a choice each see it as it is at one time.
* A write to the socket returns (`ViewerConnection`): a server that reads nothing
  for so long that the executor stays in a write is not modelled.
* An update is encoded in one step in `CopyUpdates`; that the screen changes
  meanwhile is in `FramebufferUpdates` and `UpdateRegions`.
* `Apart` (`UpdateRegions`): the screen is not copied over by `rfbDoCopyRegion`
  between the pixels of an update. The program of the app never copies on its
  screen; nothing in libvncserver keeps the two apart. The move of the pixels
  and the scheduling of the copy are one step.
* The static buffers of `hextile.c` and `rre.c` that find the background
  colour are shared by all output threads; a race there chooses another
  background, which the decoder is told, and is not modelled.
* `accept` succeeds; a listener whose `accept` fails starts the threads of the
  last client once more (main.c:673).
* Zlib and LZO give back what they were given, and a compressor's state
  is in step when all of its output has been read.
* Positions of the pointer, key codes other than modifiers, and the text of
  the clipboard are left out.

## 8. Not modelled

* Tight: built only with libjpeg, which `app/src/main/cpp/CMakeLists.txt` has
  commented out. ZYWRLE, which is lossy, and the compression itself (`minilzo`,
  zlib).
* `libvncclient` apart from its decoders, the examples and the tests: not part
  of the running app.
* WebSockets and HTTP: the glue starts no HTTP server, and WebSockets are
  spoken to browsers only.
* UltraVNC file transfer and chat, compiled in but not permitted; the transfer
  of files of the TightVNC extension, which is input and output of one thread.
* Scaled screens, cursors of the server, ExtDesktopSize and colour maps: never
  used by the glue.
* `LargeBitmapData`, `CompactBitmapData`, `RectList`, `OverlappingCopy`: bitmaps
  for memory sizes where the whole screen does not fit. `FullBufferBitmapData`
  is modelled.
* Menus, zooming, bookmarks and the look of the UI.

Most of the lines of the repository are of these kinds: headers, `minilzo`,
`libvncclient` and Tight alone are a third. What is modelled of the rest is the
logic of the service, of the server's core and of the viewer's connection.

## 9. What could follow

1. `LargeBitmapData` with `RectList`: valid, pending and visible parts under
   scrolling and updates. `RectList` does not do what its comments say: `add`
   keeps the smaller of two rectangles one of which contains the other, and
   `subtract` drops what is left on the right. Its lists stay disjoint and
   claim nothing that was not added, but they lose points.
2. The decoder of `ws_decode.c` and the messages of the file transfer.
