---------------------------- MODULE MCCopyUpdates ----------------------------
(* Instances of CopyUpdates: a screen of 6 x 3 pixels. *)
EXTENDS CopyUpdates

\* The picture with the update on its way drawn.
VARIABLE coming

Painted(rows) == [p \in Points |-> rows[p[2] + 1][p[1] + 1]]
\* All different, and on it: two colours in two runs, two mixed, a long run and single
\* pixels, one colour.
Different ==
  Painted(<< <<2, 4, 6, 8, 10, 12>>, <<14, 16, 18, 20, 22, 24>>, <<3, 5, 7, 9, 11, 13>> >>)
MCImages ==
  {Different,
   Painted(<< <<4, 4, 4, 4, 4, 4>>, <<4, 4, 4, 4, 8, 8>>, <<8, 8, 8, 8, 8, 8>> >>),
   Painted(<< <<4, 8, 4, 4, 8, 8>>, <<8, 4, 8, 8, 4, 4>>, <<4, 8, 4, 4, 8, 8>> >>),
   Painted(<< <<2, 2, 2, 2, 2, 2>>, <<2, 2, 2, 2, 2, 2>>, <<2, 4, 6, 8, 2, 10>> >>),
   [p \in Points |-> 26]}

Client(decoder, enc, bytes, copies) ==
  [decoder |-> decoder, enc |-> enc, bytes |-> bytes, copies |-> copies]
MCClients ==
  {Client("viewer", e, b, FALSE) : e \in {"Raw", "RRE", "Hextile", "Zlib"}, b \in {1, 4}}
  \cup {Client("viewer", "ZRLE", 4, FALSE), Client("library", "CoRRE", 4, TRUE)}
  \cup {Client("library", e, b, FALSE) :
          e \in {"Raw", "RRE", "CoRRE", "Hextile", "Zlib", "Ultra", "ZRLE"}, b \in {1, 4}}

\* The regions do not depend on the encoding: one client copies, sees two changes of the
\* screen, what is drawn in one colour, and may request a part of it, and once more what it
\* waits for; the others see one change, between two updates, and like the viewer of the app
\* and libvncclient request the whole screen when no request is waiting.  An update on its way
\* is received first: nothing else reads or changes what receiving it does.
MCInit == Init /\ (client.copies => screen = Different) /\ coming = picture
MCNext ==
  /\ Next
  /\ update # NoUpdate => update' = NoUpdate
  /\ requestedRegion' \in {requestedRegion, EmptyRegion} \/ requestedRegion = EmptyRegion
  /\ ops' = ops \/ (screen' # screen /\ Range(screen') \subseteq Range(screen) \cup {26})
  /\ client.copies /\ Draw => \A p \in Points : screen'[p] \in {screen[p], 26}
  /\ ~client.copies =>
       /\ ops' < MaxOps
       /\ ops' # ops => requestedRegion = EmptyRegion /\ updateRegion = NoRegion
       /\ Request => requestedRegion = EmptyRegion
       /\ requestedRegion' \in {EmptyRegion, RectRegion(ScreenRect)}
  /\ coming' = IF update' = update THEN coming
               ELSE FoldLeft(Read, [picture |-> picture, inStep |-> inStep],
                             IF update = NoUpdate THEN update'.rects ELSE update.rects).picture
MCSpec == MCInit /\ [][MCNext]_<<vars, coming>>

\* With lists of spans for regions, with encoders, decoders and an order of copies, each step
\* of CopyUpdates is one of UpdateRegions, which knows sets of points only.
Tracking ==
  INSTANCE UpdateRegions WITH
    Pixels <- Nat, Apart <- TRUE,
    Areas <- {PointsOfRect(r) : r \in DrawnRects \cup RequestedRects}
             \cup {PointsOf(region) : region \in CopiedRegions},
    screen <- [p \in Points |-> Seen(screen[p])], unmarked <- {},
    modified <- PointsOf(modifiedRegion), copied <- PointsOf(copyRegion),
    requested <- PointsOf(requestedRegion), useCopyRect <- client.copies,
    outPc <- IF updateRegion = NoRegion THEN "wait" ELSE "given",
    given <- PointsOf(updateRegion), sending <- {},
    picture <- coming
KeepsRegions == Tracking!Spec

MCDrawn == {Rect(2, 0, 3, 2)}
MCCopied == {RectRegion(r) : r \in {Rect(1, 1, 3, 2), Rect(2, 0, 4, 2)}}
MCMoves == {<<1, 1>>, <<-1, 0>>, <<0, -1>>}
MCRequested == {ScreenRect, Rect(0, 0, 4, 2)}
=============================================================================
