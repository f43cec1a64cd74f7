----------------------------- MODULE CopyUpdates -----------------------------
(***************************************************************************)
(* The pixels of the screen on their way to a client: the program draws    *)
(* and marks, or copies and schedules the copy; the output thread of the   *)
(* client takes what is modified, works out which of it the client can     *)
(* copy by itself, encodes the rest and sends it; the client draws it.     *)
(*                                                                         *)
(* FramebufferUpdates has the threads and locks of this, with parts for    *)
(* pixels; here an update is encoded in one step, and nothing is sent      *)
(* between a copy on the screen and its scheduling (rfbDoCopyRegion does   *)
(* not keep the output thread from it).  The cursor is drawn by the client *)
(* (enableCursorShapeUpdates) and nothing is scaled.                       *)
(***************************************************************************)
EXTENDS ViewerDrawing

CONSTANTS
  Width, Height,
  Clients,       \* records [decoder, enc, bytes, copies]: preferredEncoding, useCopyRect
  Images,        \* what is drawn, functions from the points of the screen to colours
  DrawnRects, CopiedRegions, RequestedRects,
  Moves,         \* <<dx, dy>> of copies
  MaxRects,      \* maxRectsPerUpdate
  MaxOps         \* bound on drawing and copying

VARIABLES
  client,        \* the one client, with its format and encoding
  screen,        \* frameBuffer
  modifiedRegion, copyRegion, copyBy, requestedRegion,
  updateRegion,  \* of clientOutput: what rfbSendFramebufferUpdate is given
  update,        \* the message on its way: [nRects, rects], or NoUpdate
  picture,       \* what the client has drawn
  inStep,        \* the client has read as many bytes as it was sent
  ops

regions == <<modifiedRegion, copyRegion, copyBy, requestedRegion>>
vars == <<client, screen, regions, updateRegion, update, picture, inStep, ops>>

Points == (0..(Width - 1)) \X (0..(Height - 1))
ScreenRect == Rect(0, 0, Width, Height)
NoUpdate == [nRects |-> 0, rects |-> << >>]
NoRegion == <<Span(0, 0, << >>)>>   \* updateRegion when no update is under way

Init ==
  /\ client \in Clients
  /\ screen \in Images
  /\ modifiedRegion = RectRegion(ScreenRect)
  /\ copyRegion = EmptyRegion /\ copyBy = <<0, 0>>
  /\ requestedRegion = EmptyRegion
  /\ updateRegion = NoRegion
  /\ update = NoUpdate
  /\ picture = [p \in Points |-> 0]
  /\ inStep = TRUE
  /\ ops = 0

-----------------------------------------------------------------------------
(* The program that has the screen *)

\* It draws, then calls rfbMarkRectAsModified.
Draw ==
  /\ ops < MaxOps /\ ops' = ops + 1
  /\ \E r \in DrawnRects, image \in Images :
       /\ screen' = [p \in Points |-> IF p \in PointsOfRect(r) THEN image[p] ELSE screen[p]]
       /\ modifiedRegion' = Or(modifiedRegion, RectRegion(r))
  /\ UNCHANGED <<client, copyRegion, copyBy, requestedRegion, updateRegion, update, picture,
                 inStep>>

\* rfbDoCopyRegion on the screen: the rectangles in turn, each line by line with memmove.
MoveLine(s, r, y, d) ==
  [p \in Points |-> IF p \in PointsOfRect(Rect(r.x, y, r.w, 1))
                    THEN s[<<p[1] - d[1], p[2] - d[2]>>] ELSE s[p]]
LinesOf(r, d) ==
  LET down == [i \in 1..r.h |-> r.y + i - 1] IN IF d[2] < 0 THEN down ELSE Reverse(down)
MoveRect(s, r, d) == FoldLeft(LAMBDA t, y : MoveLine(t, r, y, d), s, LinesOf(r, d))
Moved(s, region, d) ==
  FoldLeft(LAMBDA t, r : MoveRect(t, r, d), s, RectsOf(region, d[1] < 0, d[2] < 0))

(***************************************************************************)
(* rfbScheduleCopyRegion: a copy that waits already becomes a modified     *)
(* region if it is another move; of the same move, what is both copied and *)
(* source is modified.  What is copied of a modified region is modified.   *)
(***************************************************************************)
CopyClean(mod, copy, d) == mod
\* Mutant: a copy that waits is taken to be of the same move.
SameMove(region, d) == Or(modifiedRegion, And(Offset(region, <<-d[1], -d[2]>>), copyRegion))

WithWaiting(region, d) ==
  IF copyRegion = EmptyRegion THEN modifiedRegion
  ELSE IF copyBy # d THEN Or(modifiedRegion, copyRegion)
  ELSE Or(modifiedRegion, And(Offset(region, <<-d[1], -d[2]>>), copyRegion))

WithCopied(mod, copy, d) == Or(mod, And(Offset(mod, d), copy))

ScheduleCopyRegion(region, d) ==
  IF client.copies
  THEN LET mod == WithWaiting(region, d)
           waiting == IF copyBy # d THEN EmptyRegion ELSE copyRegion
       IN /\ copyRegion' = Or(waiting, region)
          /\ copyBy' = d
          /\ modifiedRegion' = WithCopied(mod, copyRegion', d)
  ELSE /\ modifiedRegion' = Or(modifiedRegion, region)
       /\ UNCHANGED <<copyRegion, copyBy>>

InScreen(region, d) ==
  \A p \in PointsOf(region) : p \in Points /\ <<p[1] - d[1], p[2] - d[2]>> \in Points

DoCopyRegion ==
  /\ ops < MaxOps /\ ops' = ops + 1
  /\ \E region \in CopiedRegions, d \in Moves :
       /\ InScreen(region, d)
       /\ screen' = Moved(screen, region, d)
       /\ ScheduleCopyRegion(region, d)
  /\ UNCHANGED <<client, requestedRegion, updateRegion, update, picture, inStep>>

-----------------------------------------------------------------------------
\* A FramebufferUpdateRequest of the client.
Request ==
  /\ \E r \in RequestedRects, incremental \in BOOLEAN :
       LET region == RectRegion(r)
       IN /\ requestedRegion' = Or(requestedRegion, region)
          /\ modifiedRegion' = IF incremental THEN modifiedRegion ELSE Or(modifiedRegion, region)
          /\ copyRegion' = IF incremental THEN copyRegion ELSE Subtract(copyRegion, region)
  /\ UNCHANGED <<client, screen, copyBy, updateRegion, update, picture, inStep, ops>>

-----------------------------------------------------------------------------
(* The output thread: clientOutput *)

TakeRegion ==
  /\ updateRegion = NoRegion
  /\ requestedRegion # EmptyRegion
  /\ modifiedRegion # EmptyRegion \/ copyRegion # EmptyRegion     \* FB_UPDATE_PENDING
  /\ updateRegion' = modifiedRegion
  /\ UNCHANGED <<client, screen, regions, update, picture, inStep, ops>>

\* rfbSendCopyRegion.
CopyRects(region, d) ==
  LET rects == RectsOf(region, d[1] > 0, d[2] > 0)
  IN [i \in DOMAIN rects |->
        Sent("CopyRect", rects[i], [x |-> rects[i].x - d[1], y |-> rects[i].y - d[2]], 4)]

\* The number of rectangles announced for a region; some encodings split them.
Sum(rects, Number(_)) == FoldLeft(LAMBDA n, r : n + Number(r), 0, rects)
CoRRENumber(r) == ((r.w - 1) \div CoRREMax + 1) * ((r.h - 1) \div CoRREMax + 1)
ZlibNumber(r) == (r.h - 1) \div ZlibLines(r.w) + 1
\* Mutant: the lines of a rectangle that are left over are not counted.
WholeNumber(region) ==
  IF client.enc = "Zlib" THEN Sum(Rects(region), LAMBDA r : r.h \div ZlibLines(r.w))
  ELSE CountRects(region)
NumberOfRects(region) ==
  CASE client.enc = "CoRRE" -> Sum(Rects(region), CoRRENumber)
    [] client.enc \in {"Zlib", "Ultra"} -> Sum(Rects(region), ZlibNumber)
    [] OTHER -> CountRects(region)

\* With too many rectangles the box around them is sent.
SentRegion(region) ==
  IF client.enc \notin {"CoRRE", "Zlib", "Ultra"} /\ NumberOfRects(region) > MaxRects
  THEN BBox(region) ELSE region

Encoded(region) ==
  LET rects == Rects(region)
  IN FlattenSeq([i \in DOMAIN rects |-> Encode(client.enc, screen, rects[i], client.bytes)])

\* What the client can copy: source and destination both requested.
ToCopy(copy) == And(And(copy, requestedRegion), Offset(requestedRegion, copyBy))

\* rfbSendFramebufferUpdate.
SendFramebufferUpdate ==
  /\ updateRegion # NoRegion
  /\ update = NoUpdate
  /\ updateRegion' = NoRegion
  /\ LET copy == Subtract(copyRegion, modifiedRegion)
         all == And(Or(updateRegion, copy), requestedRegion)
         toCopy == ToCopy(copy)
         toSend == Subtract(all, toCopy)
         sent == SentRegion(toSend)
     IN IF all = EmptyRegion
        THEN copyRegion' = copy
             /\ UNCHANGED <<modifiedRegion, copyBy, requestedRegion, update>>
        ELSE /\ modifiedRegion' =
                  Subtract(Subtract(Or(modifiedRegion, copy), toSend), toCopy)
             /\ requestedRegion' = EmptyRegion
             /\ copyRegion' = EmptyRegion /\ copyBy' = <<0, 0>>
             /\ update' = [nRects |-> CountRects(toCopy) + NumberOfRects(sent),
                           rects |-> CopyRects(toCopy, copyBy) \o Encoded(sent)]
  /\ UNCHANGED <<client, screen, picture, inStep, ops>>

-----------------------------------------------------------------------------
\* The client draws the rectangles announced, one after the other.
Read(drawn, s) ==
  LET h == Handle(client, drawn.picture, s)
  IN [picture |-> h.picture, inStep |-> drawn.inStep /\ h.read = s.length]

ReceiveUpdate ==
  /\ update # NoUpdate
  /\ LET drawn == FoldLeft(Read, [picture |-> picture, inStep |-> inStep], update.rects)
     IN /\ picture' = drawn.picture
        /\ inStep' = (drawn.inStep /\ update.nRects = Len(update.rects))
  /\ update' = NoUpdate
  /\ UNCHANGED <<client, screen, regions, updateRegion, ops>>

Next ==
  Draw \/ DoCopyRegion \/ Request \/ TakeRegion \/ SendFramebufferUpdate \/ ReceiveUpdate
Spec == Init /\ [][Next]_vars

-----------------------------------------------------------------------------
\* The client reads just the bytes and the rectangles it was sent, whatever the encoding.
StreamInStep == inStep

\* What the screen's colour is to the client.
Seen(colour) == Colour(client, Translate(colour, client.bytes))

\* With everything received, what is not marked as modified is on the client's screen as on
\* the server's: where a copy is waiting, it will be after the copy.
PictureFollows ==
  update = NoUpdate /\ inStep =>
    \A p \in Points \ PointsOf(modifiedRegion) :
      LET source == IF p \in PointsOf(copyRegion)
                    THEN <<p[1] - copyBy[1], p[2] - copyBy[2]>> ELSE p
      IN picture[source] = Seen(screen[p])

\* The lists of spans are in the form their operations rely on, and any two of the regions a
\* client has are united, intersected and subtracted as sets of points are.
RegionsExact ==
  LET all == {modifiedRegion, copyRegion, requestedRegion, updateRegion} \ {NoRegion}
      Is(region, points) == NormalForm(region) /\ PointsOf(region) = points
  IN \A a, b \in all :
       /\ Is(Or(a, b), PointsOf(a) \cup PointsOf(b))
       /\ Is(And(a, b), PointsOf(a) \cap PointsOf(b))
       /\ Is(Subtract(a, b), PointsOf(a) \ PointsOf(b))
=============================================================================
