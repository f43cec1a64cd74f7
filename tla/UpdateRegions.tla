---------------------------- MODULE UpdateRegions ----------------------------
(***************************************************************************)
(* What the regions of a client promise: its picture can be brought to the *)
(* screen's by one copy and by sending what is modified.  A region is a    *)
(* set of points here, whatever lists of spans stand for it, and an update *)
(* is as good as drawn when it is sent, whatever its encoding: CopyUpdates *)
(* implements this with both.                                              *)
(*                                                                         *)
(* Unlike CopyUpdates this has the times in between: the program draws and *)
(* marks later what it has drawn, and the pixels of an update are read     *)
(* from the screen while the program goes on drawing.                      *)
(***************************************************************************)
EXTENDS Integers

CONSTANTS
  Points,        \* of the screen, pairs of integers
  Pixels,        \* colours as the client sees them
  Areas,         \* what is drawn, copied or requested at a time
  Moves,         \* <<dx, dy>> of copies
  Apart          \* whether a copy on the screen waits for an update being sent

ASSUME PointsAssumption == Points \subseteq Int \X Int
ASSUME AreasAssumption == Areas \subseteq SUBSET Points
ASSUME MovesAssumption == Moves \subseteq Int \X Int
ASSUME ApartAssumption == Apart \in BOOLEAN

VARIABLES
  screen, unmarked,       \* the program's screen, and what it has drawn without marking it yet
  modified, copied, copyBy, requested, useCopyRect,    \* of the client record
  outPc, given, sending,  \* clientOutput: its region, and the pixels not sent yet
  picture                 \* the client's, with all drawn that was sent

progVars == <<screen, unmarked>>
regionVars == <<modified, copied, copyBy, requested>>
outVars == <<outPc, given, sending>>
vars == <<progVars, regionVars, useCopyRect, outVars, picture>>

Still == <<0, 0>>
Behind(p, d) == <<p[1] - d[1], p[2] - d[2]>>
Back(d) == <<-d[1], -d[2]>>
Offset(region, d) == {p \in Points : Behind(p, d) \in region}

\* Pictures, and regions of them.
Equal(f, g, region) == \A p \in region : f[p] = g[p]
CopyOf(f, region, d) == [p \in Points |-> IF p \in region THEN f[Behind(p, d)] ELSE f[p]]
Between(f, g, h) == \A p \in Points : f[p] \in {g[p], h[p]}

TypeOK ==
  /\ screen \in [Points -> Pixels] /\ picture \in [Points -> Pixels]
  /\ unmarked \subseteq Points /\ modified \subseteq Points
  /\ copied \subseteq Points /\ copyBy \in Int \X Int
  /\ requested \subseteq Points /\ useCopyRect \in BOOLEAN
  /\ outPc \in {"wait", "given", "send"}
  /\ given \subseteq Points /\ sending \subseteq Points

\* A new client record, once the client has said whether it copies.
Init ==
  /\ screen \in [Points -> Pixels] /\ unmarked = {}
  /\ modified = Points
  /\ copied = {} /\ copyBy = Still
  /\ requested = {} /\ useCopyRect \in BOOLEAN
  /\ outPc = "wait" /\ given = {} /\ sending = {}
  /\ picture \in [Points -> Pixels]

-----------------------------------------------------------------------------
(* The program that has the screen *)

\* It draws, and calls rfbMarkRectAsModified: at once, or the client's threads come between.
Draw ==
  /\ unmarked = {}
  /\ \E area \in Areas :
       /\ screen' \in [Points -> Pixels]
       /\ Equal(screen', screen, Points \ area)
       /\ \/ unmarked' = area /\ UNCHANGED modified
          \/ modified' = modified \cup area /\ UNCHANGED unmarked
  /\ UNCHANGED <<copied, copyBy, requested, useCopyRect, outVars, picture>>

Mark ==
  /\ unmarked # {}
  /\ modified' = modified \cup unmarked
  /\ unmarked' = {}
  /\ UNCHANGED <<screen, copied, copyBy, requested, useCopyRect, outVars, picture>>

(***************************************************************************)
(* rfbScheduleCopyRegion: a copy that waits becomes modified if it is      *)
(* another move; of the same move, what is both copied and a source is     *)
(* modified.  What is copied from something modified is modified.          *)
(***************************************************************************)
\* Mutant: a copy that waits is taken to be of the same move.
SameMove(region, d) == modified \cup (Offset(region, Back(d)) \cap copied)

WithWaiting(region, d) ==
  IF copyBy = d THEN modified \cup (Offset(region, Back(d)) \cap copied) ELSE modified \cup copied

\* Mutant: what is copied of a modified region is taken to be right.
CopyClean(mod, copy, d) == mod
WithCopied(mod, copy, d) == mod \cup (Offset(mod, d) \cap copy)

ScheduleCopyRegion(region, d) ==
  IF useCopyRect
  THEN /\ copied' = IF copyBy = d THEN copied \cup region ELSE region
       /\ copyBy' = d
       /\ modified' = WithCopied(WithWaiting(region, d), copied', d)
  ELSE /\ modified' = modified \cup region
       /\ UNCHANGED <<copied, copyBy>>

DoCopyRegion ==
  /\ unmarked = {}
  /\ Apart => outPc # "send"
  /\ \E region \in Areas, d \in Moves :
       /\ \A p \in region : Behind(p, d) \in Points
       /\ screen' = CopyOf(screen, region, d)
       /\ ScheduleCopyRegion(region, d)
  /\ UNCHANGED <<unmarked, requested, useCopyRect, outVars, picture>>

\* rfbNewFramebuffer, which holds sendMutex: another image of the same size.
NewFramebuffer ==
  /\ unmarked = {}
  /\ outPc # "send"
  /\ screen' \in [Points -> Pixels]
  /\ modified' = Points
  /\ copied' = {} /\ copyBy' = Still
  /\ UNCHANGED <<unmarked, requested, useCopyRect, outVars, picture>>

-----------------------------------------------------------------------------
(* The client's messages, on its input thread *)

UpdateRequest ==
  /\ \E area \in Areas, incremental \in BOOLEAN :
       /\ requested' = requested \cup area
       /\ modified' = IF incremental THEN modified ELSE modified \cup area
       /\ copied' = IF incremental THEN copied ELSE copied \ area
  /\ UNCHANGED <<progVars, copyBy, useCopyRect, outVars, picture>>

\* What is copied waits on when the client no longer wants copies.
SetEncodings ==
  /\ useCopyRect' \in BOOLEAN
  /\ UNCHANGED <<progVars, regionVars, outVars, picture>>

-----------------------------------------------------------------------------
(* The output thread: clientOutput *)

TakeRegion ==
  /\ outPc = "wait" /\ outPc' = "given"
  /\ requested # {}
  /\ modified \cup copied # {}
  /\ given' = modified
  /\ UNCHANGED <<progVars, regionVars, useCopyRect, sending, picture>>

\* The part of a copy the client can do: source and destination are requested.
ToCopy(copy) == copy \cap requested \cap Offset(requested, copyBy)

(***************************************************************************)
(* rfbSendFramebufferUpdate under updateMutex, the copies, and the pixels  *)
(* sent before anything else happens.  More than what has to be sent may   *)
(* be: a box around it.                                                    *)
(***************************************************************************)
SendFramebufferUpdate ==
  /\ outPc = "given" /\ given' = {}
  /\ LET copy == copied \ modified
         all == (given \cup copy) \cap requested
         toCopy == ToCopy(copy)
         toSend == all \ toCopy
     IN IF all = {}
        THEN /\ outPc' = "wait" /\ copied' = copy
             /\ UNCHANGED <<modified, copyBy, requested, sending, picture>>
        ELSE /\ sending' \in SUBSET Points
             /\ picture' \in [Points -> Pixels]
             /\ Between(picture', CopyOf(picture, toCopy, copyBy), screen)
             /\ Equal(picture', screen, toSend \ sending')
             /\ modified' = ((modified \cup copy) \ toSend) \ toCopy
             /\ requested' = {} /\ copied' = {} /\ copyBy' = Still
             /\ outPc' = IF sending' = {} THEN "wait" ELSE "send"
  /\ UNCHANGED <<progVars, useCopyRect>>

\* The encoders read from the screen without a lock.
SendPixels ==
  /\ outPc = "send"
  /\ \E part \in (SUBSET sending) \ {{}} :
       /\ picture' = [p \in Points |-> IF p \in part THEN screen[p] ELSE picture[p]]
       /\ sending' = sending \ part
       /\ outPc' = IF part = sending THEN "wait" ELSE "send"
  /\ UNCHANGED <<progVars, regionVars, useCopyRect, given>>

Next ==
  \/ Draw \/ Mark \/ DoCopyRegion \/ NewFramebuffer
  \/ UpdateRequest \/ SetEncodings
  \/ TakeRegion \/ SendFramebufferUpdate \/ SendPixels
Spec == Init /\ [][Next]_vars

-----------------------------------------------------------------------------
\* "The update needed to get the client's framebuffer from its present state to the current
\* state of our framebuffer" (rfb.h:510): what is not marked as modified, nor about to be, nor
\* being sent, is on the client's screen as on the server's, where a copy is waiting after it.
Source(p) == IF p \in copied THEN Behind(p, copyBy) ELSE p
PictureFollows ==
  \A p \in Points \ (modified \cup unmarked \cup sending) : picture[Source(p)] = screen[p]

\* With no update under way, and nothing marked or to be marked, the client shows the screen.
ShowsScreen ==
  outPc # "send" /\ unmarked \cup modified \cup copied = {} => picture = screen

\* The inductive invariant: a copy has its source on the screen, and none waits while pixels
\* are being sent.
SourcesInScreen == \A p \in copied : Behind(p, copyBy) \in Points
SendingAlone == sending # {} => outPc = "send" /\ (Apart => copied = {})
RegionsInv == TypeOK /\ SourcesInScreen /\ SendingAlone /\ PictureFollows
=============================================================================
