-------------------------- MODULE FramebufferUpdates --------------------------
(***************************************************************************)
(* How the screen of the device gets to the clients of the server: the     *)
(* main thread copies each image into the frame buffer or, when its size   *)
(* has changed, exchanges the frame buffer first (droidlink.c,             *)
(* rfbNewFramebuffer); the input thread of a client handles its messages,  *)
(* and its output thread sends what is modified and requested (main.c,     *)
(* rfbserver.c of libvncserver).                                           *)
(*                                                                         *)
(* Sections under updateMutex are one action each, as nothing they touch   *)
(* is used outside of it; sendMutex, which is held while the frame buffer  *)
(* is read and while it is exchanged, is modelled as such.  Regions are    *)
(* sets of parts of the screen.  DroidLink sets no cursor and schedules no *)
(* copies, so copyRegion is empty and updates consist of pixels, or of a   *)
(* new size.                                                               *)
(***************************************************************************)
EXTENDS Naturals, FiniteSets

CONSTANTS
  Clients,      \* clients the server may have
  Settled,      \* those that are in normal operation at the beginning
  Leavers,      \* those whose connection may break
  Parts,        \* parts of the screen
  NoClient,
  MaxFrames,    \* bounds on the images of the screen,
  MaxSwaps,     \* on the changes of its size,
  MaxRequests   \* and on the requests of each client

ASSUME ClientsAssumption == Settled \subseteq Clients /\ Leavers \subseteq Clients
ASSUME NoClientAssumption == NoClient \notin Clients
ASSUME BoundsAssumption == MaxFrames \in Nat /\ MaxSwaps \in Nat /\ MaxRequests \in Nat

VARIABLES
  pc, todo, at,            \* main thread: its place, the clients of its iterator still
                           \* to be visited, the client visited (holding a reference)
  frameBuffer,             \* screen->frameBuffer, with a size of its own: its number
  contents,                \* of each frame buffer: the number of the picture in it
  freed,                   \* the frame buffers given back
  frames,                  \* images copied so far
  listed,                  \* the clients in the list of the screen
  state,                   \* cl->state: "handshake", "normal", "shutdown"
  open,                    \* cl->sock # RFB_INVALID_SOCKET
  inPc, outPc,             \* the threads of each client
  modified, requested,     \* cl->modifiedRegion, cl->requestedRegion
  given, sending,          \* output thread: region found modified, region being sent
  buf,                     \* output thread: the frame buffer it reads
  useNewFBSize, newFBSizePending, sendMutex, \* fields of the client record
  shown, size,             \* at the client: the picture of each part, the size it knows
  requests                 \* requests the client may still make

mainVars == <<pc, todo, at, frameBuffer, contents, freed, frames>>
clientVars == <<listed, state, open, inPc, useNewFBSize, requests>>
outVars == <<outPc, given, sending, buf, shown>>
regionVars == <<modified, requested, newFBSizePending>>
vars == <<mainVars, clientVars, outVars, regionVars, sendMutex, size>>

-----------------------------------------------------------------------------
(* Helpers *)

NoPicture == 0
picture == contents[frameBuffer]

\* TSIGNAL(cl->updateCond).  Mutant: the output thread is not woken.
NoSignal(c) == outPc
Signalled(c) == IF outPc[c] = "wait" THEN [outPc EXCEPT ![c] = "look"] ELSE outPc

MainGo(from, to) == pc = from /\ pc' = to
InGo(c, from, to) == inPc[c] = from /\ inPc' = [inPc EXCEPT ![c] = to]
OutGo(c, from, to) == outPc[c] = from /\ outPc' = [outPc EXCEPT ![c] = to]

-----------------------------------------------------------------------------
(* The main thread.  rfbClientIteratorNext visits the clients that were in  *)
(* the list when the iteration began, new ones being put before its head,   *)
(* and skips those whose socket is closed.                                  *)

\* An image of the screen arrives: in the size of the frame buffer, or not.
NewImage ==
  /\ frames < MaxFrames
  /\ \/ MainGo("idle", "copy") /\ UNCHANGED todo
     \/ frameBuffer < MaxSwaps /\ MainGo("idle", "lockOut") /\ todo' = listed
  /\ UNCHANGED <<at, frameBuffer, contents, freed, frames, clientVars, outVars,
                 regionVars, sendMutex, size>>

\* rfbNewFramebuffer, "Lock out client reads": the first pass over the clients.
VisitToLock ==
  /\ at = NoClient
  /\ \E c \in todo :
       /\ open[c]
       /\ at' = c
       /\ todo' = todo \ {c}
  /\ MainGo("lockOut", "lockOut")
  /\ UNCHANGED <<frameBuffer, contents, freed, frames, clientVars, outVars, regionVars,
                 sendMutex, size>>

\* Mutant: the client is visited but not locked.
KeepReading == UNCHANGED sendMutex
LockSend == sendMutex[at] = "free" /\ sendMutex' = [sendMutex EXCEPT ![at] = "main"]

LockOut ==
  /\ at # NoClient
  /\ LockSend
  /\ at' = NoClient
  /\ MainGo("lockOut", "lockOut")
  /\ UNCHANGED <<todo, frameBuffer, contents, freed, frames, clientVars, outVars,
                 regionVars, size>>

\* The new frame buffer, all black, is put in place.
Swap ==
  /\ at = NoClient /\ \A c \in todo : ~open[c]
  /\ MainGo("lockOut", "unlock")
  /\ frameBuffer' = frameBuffer + 1
  /\ contents' = [contents EXCEPT ![frameBuffer + 1] = picture + 1]
  /\ todo' = listed
  /\ UNCHANGED <<at, freed, frames, clientVars, outVars, regionVars, sendMutex, size>>

\* The second pass: mark the screen, schedule the new size, unlock.
\* Mutant: the client is not told the new size.
MarkAll(c) == modified' = [modified EXCEPT ![c] = Parts]
ForgetSize(c) == UNCHANGED newFBSizePending
ScheduleSize(c) ==
  newFBSizePending' = [newFBSizePending EXCEPT ![c] = @ \/ useNewFBSize[c]]

VisitToUnlock ==
  /\ \E c \in todo :
       /\ open[c]
       /\ todo' = todo \ {c}
       /\ MarkAll(c)
       /\ ScheduleSize(c)
       /\ outPc' = Signalled(c)
       /\ sendMutex' = [sendMutex EXCEPT ![c] = "free"]
  /\ MainGo("unlock", "unlock")
  /\ UNCHANGED <<at, frameBuffer, contents, freed, frames, clientVars, given, sending,
                 buf, shown, requested, size>>

\* vncNewFramebuffer: free(oldfb).  What its memory holds from then on is no picture.
FreeOld ==
  /\ \A c \in todo : ~open[c]
  /\ MainGo("unlock", "copy")
  /\ freed' = freed \cup {frameBuffer - 1}
  /\ contents' = [contents EXCEPT ![frameBuffer - 1] = NoPicture]
  /\ todo' = {}
  /\ UNCHANGED <<at, frameBuffer, frames, clientVars, outVars, regionVars,
                 sendMutex, size>>

\* vncUpdateFramebuffer: memcpy, then rfbMarkRectAsModified for the whole screen.
CopyImage ==
  /\ MainGo("copy", "mark")
  /\ contents' = [contents EXCEPT ![frameBuffer] = @ + 1]
  /\ frames' = frames + 1
  /\ todo' = listed
  /\ UNCHANGED <<at, frameBuffer, freed, clientVars, outVars, regionVars, sendMutex, size>>

VisitToMark ==
  /\ \E c \in todo :
       /\ open[c]
       /\ todo' = todo \ {c}
       /\ MarkAll(c)
       /\ outPc' = Signalled(c)
  /\ MainGo("mark", "mark")
  /\ UNCHANGED <<at, frameBuffer, contents, freed, frames, clientVars, given, sending,
                 buf, shown, requested, newFBSizePending, sendMutex, size>>

ImageDone ==
  /\ \A c \in todo : ~open[c]
  /\ MainGo("mark", "idle")
  /\ todo' = {}
  /\ UNCHANGED <<at, frameBuffer, contents, freed, frames, clientVars, outVars, regionVars,
                 sendMutex, size>>

-----------------------------------------------------------------------------
(* A client connects, and its input thread handles its messages *)

\* rfbNewClient and rfbStartOnHoldClient on the listener thread.
Connect(c) ==
  /\ InGo(c, "none", "read")
  /\ state' = [state EXCEPT ![c] = "handshake"]
  /\ open' = [open EXCEPT ![c] = TRUE]
  /\ listed' = listed \cup {c}
  /\ outPc' = [outPc EXCEPT ![c] = "look"]
  /\ modified' = [modified EXCEPT ![c] = Parts]
  /\ UNCHANGED <<mainVars, useNewFBSize, requests, given, sending, buf, shown, requested,
                 newFBSizePending, sendMutex, size>>

\* rfbProcessClientInitMessage: the size is written, then the state is set.
InitMessage(c) ==
  /\ state[c] = "handshake"
  /\ InGo(c, "read", "ready")
  /\ size' = [size EXCEPT ![c] = frameBuffer]
  /\ UNCHANGED <<mainVars, listed, state, open, useNewFBSize, requests, outVars,
                 regionVars, sendMutex>>

Ready(c) ==
  /\ InGo(c, "ready", "read")
  /\ state' = [state EXCEPT ![c] = "normal"]
  /\ UNCHANGED <<mainVars, listed, open, useNewFBSize, requests, outVars, regionVars,
                 sendMutex, size>>

\* A SetEncodings message with NewFBSize.
SetEncodings(c) ==
  /\ inPc[c] = "read" /\ state[c] = "normal"
  /\ ~useNewFBSize[c]
  /\ useNewFBSize' = [useNewFBSize EXCEPT ![c] = TRUE]
  /\ UNCHANGED <<mainVars, listed, state, open, inPc, requests, outVars, regionVars,
                 sendMutex, size>>

\* A FramebufferUpdateRequest message, of an empty rectangle perhaps.
UpdateRequest(c) ==
  /\ inPc[c] = "read" /\ state[c] = "normal"
  /\ requests[c] > 0
  /\ requests' = [requests EXCEPT ![c] = @ - 1]
  /\ \E parts \in SUBSET Parts, incremental \in BOOLEAN :
       /\ requested' = [requested EXCEPT ![c] = @ \cup parts]
       /\ modified' = IF incremental THEN modified
                      ELSE [modified EXCEPT ![c] = @ \cup parts]
  /\ outPc' = Signalled(c)
  /\ UNCHANGED <<mainVars, listed, state, open, inPc, useNewFBSize, given, sending, buf,
                 shown, newFBSizePending, sendMutex, size>>

\* The connection breaks: rfbCloseClient signals and sets the state.
CloseClient(c) ==
  /\ c \in Leavers /\ state[c] # "shutdown"
  /\ InGo(c, "read", "closing")
  /\ outPc' = Signalled(c)
  /\ UNCHANGED <<mainVars, listed, state, open, useNewFBSize, requests, given, sending,
                 buf, shown, regionVars, sendMutex, size>>

SetShutdown(c) ==
  /\ InGo(c, "closing", "read")
  /\ state' = [state EXCEPT ![c] = "shutdown"]
  /\ UNCHANGED <<mainVars, listed, open, useNewFBSize, requests, outVars, regionVars,
                 sendMutex, size>>

\* clientInput after its loop: the output thread is signalled and joined.
EndInput(c) ==
  /\ state[c] = "shutdown"
  /\ InGo(c, "read", "join")
  /\ outPc' = Signalled(c)
  /\ UNCHANGED <<mainVars, listed, state, open, useNewFBSize, requests, given, sending,
                 buf, shown, regionVars, sendMutex, size>>

Joined(c) ==
  /\ outPc[c] = "ended"
  /\ InGo(c, "join", "gone")
  /\ open' = [open EXCEPT ![c] = FALSE]
  /\ UNCHANGED <<mainVars, listed, state, useNewFBSize, requests, outVars, regionVars,
                 sendMutex, size>>

\* rfbClientConnectionGone: out of the list, then wait for references and for
\* sendMutex, then the record is freed.
Unlink(c) ==
  /\ InGo(c, "gone", "free")
  /\ listed' = listed \ {c}
  /\ UNCHANGED <<mainVars, state, open, useNewFBSize, requests, outVars, regionVars,
                 sendMutex, size>>

FreeClient(c) ==
  /\ InGo(c, "free", "freed")
  /\ at # c
  /\ sendMutex[c] = "free"
  /\ UNCHANGED <<mainVars, listed, state, open, useNewFBSize, requests, outVars,
                 regionVars, sendMutex, size>>

-----------------------------------------------------------------------------
(* The output thread of a client: clientOutput, rfbSendFramebufferUpdate *)

\* Until the client is in normal operation the thread sleeps.
Look(c) ==
  /\ state[c] # "handshake"
  /\ OutGo(c, "look", IF state[c] = "shutdown" \/ ~open[c] THEN "ended" ELSE "test")
  /\ UNCHANGED <<mainVars, clientVars, given, sending, buf, shown, regionVars, sendMutex,
                 size>>

UpdatePending(c) ==
  modified[c] # {} \/ (useNewFBSize[c] /\ newFBSizePending[c])

Test(c) ==
  /\ OutGo(c, "test", IF requested[c] # {} /\ UpdatePending(c) THEN "copy" ELSE "wait")
  /\ UNCHANGED <<mainVars, clientVars, given, sending, buf, shown, regionVars, sendMutex,
                 size>>

CopyRegion(c) ==
  /\ OutGo(c, "copy", "lock")
  /\ given' = [given EXCEPT ![c] = modified[c]]
  /\ UNCHANGED <<mainVars, clientVars, sending, buf, shown, regionVars, sendMutex, size>>

StartSend(c) ==
  /\ sendMutex[c] = "free"
  /\ OutGo(c, "lock",
           IF useNewFBSize[c] /\ newFBSizePending[c] THEN "size" ELSE "take")
  /\ sendMutex' = [sendMutex EXCEPT ![c] = "out"]
  /\ UNCHANGED <<mainVars, clientVars, given, sending, buf, shown, regionVars, size>>

\* rfbSendNewFBSize
SendSize(c) ==
  /\ OutGo(c, "size", "unlock")
  /\ newFBSizePending' = [newFBSizePending EXCEPT ![c] = FALSE]
  /\ size' = [size EXCEPT ![c] = frameBuffer]
  /\ UNCHANGED <<mainVars, clientVars, given, sending, buf, shown, modified, requested,
                 sendMutex>>

\* What is sent is taken out of the modified region before the pixels are read.
\* Mutant: all that is modified is taken out, requested or not.
TakeAll(c) == {}
Remainder(c) == modified[c] \ (given[c] \cap requested[c])

TakeRegion(c) ==
  LET parts == given[c] \cap requested[c] IN
  /\ OutGo(c, "take", IF parts = {} THEN "unlock" ELSE "read")
  /\ sending' = [sending EXCEPT ![c] = parts]
  /\ modified' = [modified EXCEPT ![c] = Remainder(c)]
  /\ requested' = IF parts = {} THEN requested ELSE [requested EXCEPT ![c] = {}]
  /\ UNCHANGED <<mainVars, clientVars, given, buf, shown, newFBSizePending, sendMutex, size>>

ReadPointer(c) ==
  /\ OutGo(c, "read", "pixels")
  /\ buf' = [buf EXCEPT ![c] = frameBuffer]
  /\ UNCHANGED <<mainVars, clientVars, given, sending, shown, regionVars, sendMutex, size>>

\* Part by part, while the main thread may be copying the next image; parts of one
\* rectangle are read from one address.
SendPart(c) ==
  /\ \E p \in sending[c] :
       /\ shown' = [shown EXCEPT ![c][p] = contents[buf[c]]]
       /\ sending' = [sending EXCEPT ![c] = @ \ {p}]
       /\ \E next \in IF sending[c] = {p} THEN {"unlock"} ELSE {"pixels", "read"} :
            OutGo(c, "pixels", next)
  /\ UNCHANGED <<mainVars, clientVars, given, buf, regionVars, sendMutex, size>>

\* The write fails: rfbCloseClient on the output thread.
SendFails(c) ==
  /\ c \in Leavers
  /\ outPc[c] \in {"size", "pixels"}
  /\ OutGo(c, outPc[c], "unlock")
  /\ state' = [state EXCEPT ![c] = "shutdown"]
  /\ sending' = [sending EXCEPT ![c] = {}]
  /\ newFBSizePending' = [newFBSizePending EXCEPT ![c] = @ /\ outPc[c] # "size"]
  /\ UNCHANGED <<mainVars, listed, open, inPc, useNewFBSize, requests, given, buf, shown,
                 modified, requested, sendMutex, size>>

EndSend(c) ==
  /\ OutGo(c, "unlock", "look")
  /\ sendMutex' = [sendMutex EXCEPT ![c] = "free"]
  /\ UNCHANGED <<mainVars, clientVars, given, sending, buf, shown, regionVars, size>>

-----------------------------------------------------------------------------
Init ==
  /\ pc = "idle" /\ todo = {} /\ at = NoClient
  /\ frameBuffer = 0 /\ freed = {} /\ frames = 0
  /\ contents = [b \in 0..MaxSwaps |-> IF b = 0 THEN 1 ELSE NoPicture]
  /\ listed = Settled
  /\ state = [c \in Clients |-> IF c \in Settled THEN "normal" ELSE "handshake"]
  /\ open = [c \in Clients |-> c \in Settled]
  /\ inPc = [c \in Clients |-> IF c \in Settled THEN "read" ELSE "none"]
  /\ outPc = [c \in Clients |-> IF c \in Settled THEN "look" ELSE "none"]
  /\ modified = [c \in Clients |-> Parts] /\ requested = [c \in Clients |-> {}]
  /\ given = [c \in Clients |-> {}] /\ sending = [c \in Clients |-> {}]
  /\ buf = [c \in Clients |-> 0]
  /\ useNewFBSize = [c \in Clients |-> c \in Settled]
  /\ newFBSizePending = [c \in Clients |-> FALSE]
  /\ sendMutex = [c \in Clients |-> "free"]
  /\ shown = [c \in Clients |-> [p \in Parts |-> NoPicture]]
  /\ size = [c \in Clients |-> 0]
  /\ requests = [c \in Clients |-> MaxRequests]

MainStep ==
  \/ VisitToLock \/ LockOut \/ Swap \/ VisitToUnlock \/ FreeOld \/ CopyImage
  \/ VisitToMark \/ ImageDone

\* What an input thread does without a message of its client.
InStep(c) ==
  \/ Ready(c) \/ SetShutdown(c) \/ EndInput(c) \/ Joined(c) \/ Unlink(c) \/ FreeClient(c)

ClientStep(c) ==
  \/ Connect(c) \/ InitMessage(c) \/ SetEncodings(c) \/ UpdateRequest(c) \/ CloseClient(c)

OutStep(c) ==
  \/ Look(c) \/ Test(c) \/ CopyRegion(c) \/ StartSend(c) \/ SendSize(c) \/ TakeRegion(c)
  \/ ReadPointer(c) \/ SendPart(c) \/ SendFails(c) \/ EndSend(c)

Next ==
  \/ NewImage \/ MainStep
  \/ \E c \in Clients : InStep(c) \/ ClientStep(c) \/ OutStep(c)

Spec == Init /\ [][Next]_vars

\* Threads run; images, clients and their messages need never come.
Fairness ==
  /\ WF_vars(MainStep)
  /\ \A c \in Clients : WF_vars(InStep(c)) /\ WF_vars(OutStep(c))

FairSpec == Spec /\ Fairness

-----------------------------------------------------------------------------
(* Properties *)

MainPlaces == {"idle", "lockOut", "unlock", "copy", "mark"}
InPlaces == {"none", "read", "ready", "closing", "join", "gone", "free", "freed"}
OutPlaces == {"none", "look", "test", "wait", "copy", "lock", "size", "take", "read",
              "pixels", "unlock", "ended"}

TypeOK ==
  /\ pc \in MainPlaces /\ todo \subseteq Clients /\ at \in Clients \cup {NoClient}
  /\ frameBuffer \in 0..MaxSwaps
  /\ contents \in [0..MaxSwaps -> Nat]
  /\ freed \subseteq 0..MaxSwaps
  /\ frames \in 0..MaxFrames
  /\ listed \subseteq Clients
  /\ state \in [Clients -> {"handshake", "normal", "shutdown"}]
  /\ open \in [Clients -> BOOLEAN]
  /\ inPc \in [Clients -> InPlaces] /\ outPc \in [Clients -> OutPlaces]
  /\ modified \in [Clients -> SUBSET Parts] /\ requested \in [Clients -> SUBSET Parts]
  /\ given \in [Clients -> SUBSET Parts] /\ sending \in [Clients -> SUBSET Parts]
  /\ buf \in [Clients -> 0..MaxSwaps]
  /\ useNewFBSize \in [Clients -> BOOLEAN] /\ newFBSizePending \in [Clients -> BOOLEAN]
  /\ sendMutex \in [Clients -> {"free", "main", "out"}]
  /\ shown \in [Clients -> [Parts -> Nat]]
  /\ size \in [Clients -> 0..MaxSwaps]
  /\ requests \in [Clients -> 0..MaxRequests]

Sending(c) == outPc[c] \in {"size", "take", "read", "pixels", "unlock"}

Served(c) == c \in listed /\ open[c] /\ state[c] # "shutdown"
Marked(c, p) == p \in modified[c] \/ (c \in todo /\ pc \in {"unlock", "mark"})

\* What a client with a working connection shows is what is on the screen, or it will
\* be replaced: it is marked as modified, or taken for the update under way, or the
\* main thread has yet to mark it.  No change of the screen is forgotten between the
\* copy of the modified region (main.c:502) and its removal (rfbserver.c:3317).
PictureKept ==
  \A c \in Clients, p \in Parts :
    Served(c) /\ shown[c][p] # picture => p \in sending[c] \/ Marked(c, p)

\* "Lock out client reads" (main.c:1075): no output thread is inside its sending
\* section between the two passes of rfbNewFramebuffer over the clients.
ReadsLockedOut == pc = "unlock" => \A c \in todo : open[c] => ~Sending(c)

\* The frame buffer an output thread reads is not one given back by
\* vncNewFramebuffer.
BufferAlive == \A c \in Clients : outPc[c] = "pixels" => buf[c] \notin freed

\* "Clients supporting NewFBSize pseudo-encoding will change their local framebuffer
\* dimensions if necessary" (main.c:1059): pixels reach such a client only in the size
\* it knows.
SizeKnown ==
  \A c \in Clients : outPc[c] = "pixels" /\ useNewFBSize[c] => size[c] = frameBuffer

\* "Swapping frame buffers finished, re-enable client reads" (main.c:1138): then no
\* client is left locked.
ReadsReenabled == pc \in {"copy", "mark", "idle"} => \A c \in Clients : sendMutex[c] # "main"

\* A request for a part that is out of date is answered, or the part gets up to date
\* by an update under way: no wakeup of the output thread is lost.
RequestAnswered ==
  \A c \in Clients, p \in Parts :
    p \in requested[c] /\ shown[c][p] # picture ~>
      p \notin requested[c] \/ shown[c][p] = picture \/ state[c] = "shutdown"

\* A client whose connection has broken is freed in the end.
LeaversFreed == \A c \in Clients : state[c] = "shutdown" ~> inPc[c] = "freed"

-----------------------------------------------------------------------------
(* The inductive invariants: KeptInv in general, LockInv as long as no client *)
(* comes or goes                                                             *)

\* The bounds are looked at when an image arrives; an exchange leaves an old frame buffer.
Bounded ==
  /\ pc \in {"lockOut", "unlock", "copy"} => frames < MaxFrames
  /\ pc = "lockOut" => frameBuffer < MaxSwaps
  /\ pc = "unlock" => frameBuffer > 0

\* Nothing is sent to a client before it is in normal operation.
Handshaking ==
  \A c \in Clients :
    /\ inPc[c] \in {"none", "ready"} => state[c] = "handshake"
    /\ state[c] = "handshake" => outPc[c] \in {"none", "look"}

\* A region is sent at two places of the output thread only.
SendingPlaces ==
  \A c \in Clients : outPc[c] \notin {"read", "pixels"} => sending[c] = {}

\* Whoever still reads a frame buffer that has been exchanged will be sent the new one.
OldMarked ==
  \A c \in Clients :
    Served(c) /\ outPc[c] = "pixels" /\ buf[c] # frameBuffer => \A p \in Parts : Marked(c, p)

KeptInv ==
  TypeOK /\ Bounded /\ Handshaking /\ SendingPlaces /\ OldMarked /\ PictureKept

\* Every client is in normal operation.
AllNormal ==
  /\ listed = Clients
  /\ \A c \in Clients : open[c] /\ state[c] = "normal" /\ inPc[c] = "read"

\* The client being visited is not to be visited any more.
VisitOnce == at # NoClient => pc = "lockOut" /\ at \notin todo

\* sendMutex is held by the output thread inside its sending section, and by the main
\* thread from its first visit of the client to its second.
Holders ==
  \A c \in Clients :
    /\ sendMutex[c] = "out" <=> Sending(c)
    /\ sendMutex[c] = "main" <=> \/ pc = "lockOut" /\ c \notin todo \cup {at}
                                 \/ pc = "unlock" /\ c \in todo

\* Whoever reads pixels reads them from the frame buffer in place, which is the
\* youngest.
BufferInPlace ==
  /\ \A c \in Clients : outPc[c] = "pixels" => buf[c] = frameBuffer
  /\ \A b \in freed : b < frameBuffer

\* No client shows a picture that is still to come.
ShownBefore ==
  /\ picture > NoPicture
  /\ \A c \in Clients, p \in Parts : shown[c][p] <= picture

\* While no client comes or goes: who holds sendMutex, and what is read under it.
LockInv ==
  TypeOK /\ Bounded /\ AllNormal /\ VisitOnce /\ Holders /\ BufferInPlace /\ ShownBefore

-----------------------------------------------------------------------------
(* Refinement *)

Sharing == INSTANCE ScreenSharing WITH screen <- picture

\* The updates implement the sharing of a screen.
SharesScreen == Sharing!Spec
=============================================================================
