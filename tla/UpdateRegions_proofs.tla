------------------------- MODULE UpdateRegions_proofs -------------------------
(***************************************************************************)
(* Proofs about UpdateRegions, for any screen, any regions and any moves:  *)
(* as long as copies keep apart from updates being sent, the regions of a  *)
(* client say what its picture lacks.                                      *)
(***************************************************************************)
EXTENDS UpdateRegions, TLAPS

-----------------------------------------------------------------------------
(* Moves of points *)

LEMMA MoveTypes ==
  /\ Still \in Int \X Int
  /\ \A d \in Int \X Int : Back(d) \in Int \X Int
  /\ \A p, d \in Int \X Int : Behind(p, d) \in Int \X Int
BY DEF Still, Back, Behind

\* The way back undoes a move.
LEMMA ThereAndBack ==
  ASSUME NEW p \in Points, NEW d \in Int \X Int
  PROVE  Behind(Behind(p, d), Back(d)) = p
<1>1. PICK x \in Int, y \in Int : p = <<x, y>>
  BY PointsAssumption
<1>2. PICK dx \in Int, dy \in Int : d = <<dx, dy>>
  OBVIOUS
<1>3. Behind(p, d) = <<x - dx, y - dy>> /\ Back(d) = <<-dx, -dy>>
  BY <1>1, <1>2 DEF Behind, Back
<1>4. Behind(<<x - dx, y - dy>>, <<-dx, -dy>>) = <<(x - dx) - (-dx), (y - dy) - (-dy)>>
  BY DEF Behind
<1>5. (x - dx) - (-dx) = x /\ (y - dy) - (-dy) = y
  OBVIOUS
<1> QED BY <1>1, <1>3, <1>4, <1>5

\* A point of a region is found behind itself, when the region has been moved back.
LEMMA MovedBack ==
  ASSUME NEW region \in SUBSET Points, NEW p \in region, NEW d \in Int \X Int,
         Behind(p, d) \in Points
  PROVE  Behind(p, d) \in Offset(region, Back(d))
BY ThereAndBack DEF Offset

-----------------------------------------------------------------------------
(* What one does to the client *)

\* Neither the program nor the client's messages touch the picture: it is enough to know
\* that what is not marked after the step has not changed, or will be copied from its old place.
LEMMA PictureLeft ==
  ASSUME RegionsInv, UNCHANGED <<picture, outVars>>, TypeOK', SourcesInScreen',
         sending # {} => (Apart => copied' = {}),
         \A p \in Points \ (modified' \cup unmarked' \cup sending) :
            picture[Source(p)'] = screen'[p]
  PROVE  RegionsInv'
BY DEF RegionsInv, SendingAlone, PictureFollows, outVars

LEMMA DrawSound == RegionsInv /\ Draw => RegionsInv'
<1> SUFFICES ASSUME RegionsInv, Draw PROVE RegionsInv'
  OBVIOUS
<1>1. PICK area \in Areas :
        /\ screen' \in [Points -> Pixels]
        /\ Equal(screen', screen, Points \ area)
        /\ \/ unmarked' = area /\ UNCHANGED modified
           \/ modified' = modified \cup area /\ UNCHANGED unmarked
  BY DEF Draw
<1>2. UNCHANGED <<copied, copyBy, requested, useCopyRect, outVars, picture>> /\ area \subseteq Points
  BY AreasAssumption DEF Draw
<1>3. TypeOK'
  BY <1>1, <1>2 DEF RegionsInv, TypeOK, outVars
<1>4. SourcesInScreen' /\ (sending # {} => (Apart => copied' = {}))
  BY <1>2 DEF RegionsInv, SourcesInScreen, SendingAlone
<1>5. ASSUME NEW p \in Points \ (modified' \cup unmarked' \cup sending)
      PROVE  picture[Source(p)'] = screen'[p]
  <2>1. p \notin area /\ p \notin modified /\ p \notin unmarked
    BY <1>1 DEF Draw
  <2>2. screen'[p] = screen[p]
    BY <1>1, <2>1 DEF Equal
  <2> QED BY <1>2, <2>1, <2>2 DEF RegionsInv, PictureFollows, Source
<1> QED BY <1>2, <1>3, <1>4, <1>5, PictureLeft

LEMMA MarkSound == RegionsInv /\ Mark => RegionsInv'
<1> SUFFICES ASSUME RegionsInv, Mark PROVE RegionsInv'
  OBVIOUS
<1>1. /\ TypeOK' /\ SourcesInScreen' /\ (sending # {} => (Apart => copied' = {}))
      /\ UNCHANGED <<picture, outVars>>
  BY DEF RegionsInv, TypeOK, SourcesInScreen, SendingAlone, Mark, outVars
<1>2. ASSUME NEW p \in Points \ (modified' \cup unmarked' \cup sending)
      PROVE  picture[Source(p)'] = screen'[p]
  BY DEF RegionsInv, PictureFollows, Source, Mark
<1> QED BY <1>1, <1>2, PictureLeft

(***************************************************************************)
(* A copy.  What is not marked after it was right, or will be right after  *)
(* the waiting copy, and its source has neither been marked nor waited for *)
(* a copy of its own.                                                      *)
(***************************************************************************)
LEMMA CopySound == RegionsInv /\ DoCopyRegion /\ Apart => RegionsInv'
<1> SUFFICES ASSUME RegionsInv, DoCopyRegion, Apart PROVE RegionsInv'
  OBVIOUS
<1>1. PICK region \in Areas, d \in Moves :
        /\ \A p \in region : Behind(p, d) \in Points
        /\ screen' = CopyOf(screen, region, d)
        /\ ScheduleCopyRegion(region, d)
  BY DEF DoCopyRegion
<1>2. /\ UNCHANGED <<unmarked, requested, useCopyRect, outVars, picture>>
      /\ unmarked = {} /\ outPc # "send"
      /\ region \subseteq Points /\ d \in Int \X Int
  BY AreasAssumption, MovesAssumption DEF DoCopyRegion
<1>3. sending = {} /\ TypeOK /\ SourcesInScreen /\ PictureFollows
  BY <1>2 DEF RegionsInv, SendingAlone
<1>4. screen' \in [Points -> Pixels]
  BY <1>1, <1>3 DEF CopyOf, TypeOK
<1>5. \A p \in Points : screen'[p] = IF p \in region THEN screen[Behind(p, d)] ELSE screen[p]
  BY <1>1 DEF CopyOf
<1>6. CASE ~useCopyRect
  <2>1. modified' = modified \cup region /\ UNCHANGED <<copied, copyBy>>
    BY <1>1, <1>6 DEF ScheduleCopyRegion
  <2>2. TypeOK' /\ SourcesInScreen'
    BY <1>2, <1>3, <1>4, <2>1 DEF TypeOK, SourcesInScreen, outVars
  <2>3. ASSUME NEW p \in Points \ (modified' \cup unmarked' \cup sending)
        PROVE  picture[Source(p)'] = screen'[p]
    BY <1>2, <1>3, <1>5, <2>1 DEF PictureFollows, Source
  <2> QED BY <1>2, <1>3, <2>2, <2>3, PictureLeft
<1>7. CASE useCopyRect
  <2> DEFINE mod == WithWaiting(region, d)
  <2>1. /\ copied' = IF copyBy = d THEN copied \cup region ELSE region
        /\ copyBy' = d
        /\ modified' = WithCopied(mod, copied', d)
    BY <1>1, <1>7 DEF ScheduleCopyRegion
  <2>2. mod \subseteq Points /\ modified \subseteq mod
    BY <1>3 DEF WithWaiting, TypeOK, Offset
  <2>3. copied' \subseteq Points /\ modified' \subseteq Points /\ mod \subseteq modified'
    BY <1>2, <1>3, <2>1, <2>2 DEF WithCopied, TypeOK
  <2>4. TypeOK'
    BY <1>2, <1>3, <1>4, <2>1, <2>3 DEF TypeOK, outVars
  <2>5. SourcesInScreen'
    BY <1>1, <1>3, <2>1 DEF SourcesInScreen
  <2>6. ASSUME NEW p \in Points \ (modified' \cup unmarked' \cup sending)
        PROVE  picture[Source(p)'] = screen'[p]
    <3>1. p \notin mod /\ p \notin modified
      BY <2>2, <2>3
    <3>2. CASE p \in region
      <4> DEFINE q == Behind(p, d)
      <4>1. q \in Points /\ p \in copied' /\ Source(p)' = q /\ screen'[p] = screen[q]
        BY <1>1, <1>5, <2>1, <3>2 DEF Source
      <4>2. p \in Points /\ p \notin Offset(mod, d)
        BY <2>1, <4>1 DEF WithCopied
      <4>3. q \notin mod
        BY <4>2 DEF Offset
      <4>4. q \notin modified /\ q \notin copied
        <5>1. CASE copyBy = d
          <6>1. q \in Offset(region, Back(d))
            BY <1>2, <3>2, <4>1, MovedBack
          <6> QED BY <4>3, <5>1, <6>1 DEF WithWaiting
        <5>2. CASE copyBy # d
          BY <4>3, <5>2 DEF WithWaiting
        <5> QED BY <5>1, <5>2
      <4>5. picture[q] = screen[q]
        BY <1>2, <1>3, <4>1, <4>4 DEF PictureFollows, Source
      <4> QED BY <4>1, <4>5
    <3>3. CASE p \notin region
      <4>1. screen'[p] = screen[p] /\ picture[Source(p)] = screen[p]
        BY <1>2, <1>3, <1>5, <3>1, <3>3 DEF PictureFollows
      <4>2. CASE copyBy = d
        BY <2>1, <3>3, <4>1, <4>2 DEF Source
      <4>3. CASE copyBy # d
        <5>1. p \notin copied /\ p \notin copied'
          BY <2>1, <3>1, <3>3, <4>3 DEF WithWaiting
        <5> QED BY <4>1, <5>1 DEF Source
      <4> QED BY <4>2, <4>3
    <3> QED BY <3>2, <3>3
  <2> HIDE DEF mod
  <2> QED BY <1>2, <1>3, <2>4, <2>5, <2>6, PictureLeft
<1> QED BY <1>6, <1>7

LEMMA NewFramebufferSound == RegionsInv /\ NewFramebuffer => RegionsInv'
<1> SUFFICES ASSUME RegionsInv, NewFramebuffer PROVE RegionsInv'
  OBVIOUS
<1>1. /\ modified' = Points /\ copied' = {} /\ copyBy' = Still
      /\ screen' \in [Points -> Pixels]
      /\ UNCHANGED <<unmarked, requested, useCopyRect, outVars, picture>>
  BY DEF NewFramebuffer
<1>2. TypeOK'
  BY <1>1, MoveTypes DEF RegionsInv, TypeOK, outVars
<1> QED BY <1>1, <1>2, PictureLeft DEF SourcesInScreen

\* What a full request takes from the waiting copy, it marks as modified.
LEMMA RequestSound == RegionsInv /\ UpdateRequest => RegionsInv'
<1> SUFFICES ASSUME RegionsInv, UpdateRequest PROVE RegionsInv'
  OBVIOUS
<1>1. PICK area \in Areas, incremental \in BOOLEAN :
        /\ requested' = requested \cup area
        /\ modified' = IF incremental THEN modified ELSE modified \cup area
        /\ copied' = IF incremental THEN copied ELSE copied \ area
  BY DEF UpdateRequest
<1>2. area \subseteq Points /\ UNCHANGED <<progVars, copyBy, useCopyRect, outVars, picture>>
  BY AreasAssumption DEF UpdateRequest
<1>3. copied' \subseteq copied /\ modified \subseteq modified' /\ copied \ modified' \subseteq copied'
  BY <1>1
<1>4. TypeOK'
  BY <1>1, <1>2 DEF RegionsInv, TypeOK, progVars, outVars
<1>5. SourcesInScreen' /\ (sending # {} => (Apart => copied' = {}))
  BY <1>2, <1>3 DEF RegionsInv, SourcesInScreen, SendingAlone
<1>6. ASSUME NEW p \in Points \ (modified' \cup unmarked' \cup sending)
      PROVE  picture[Source(p)'] = screen'[p]
  <2>1. p \notin modified /\ p \notin unmarked /\ (p \in copied <=> p \in copied')
    BY <1>2, <1>3 DEF progVars
  <2> QED BY <1>2, <2>1 DEF RegionsInv, PictureFollows, Source, progVars
<1> QED BY <1>2, <1>4, <1>5, <1>6, PictureLeft

LEMMA EncodingsSound == RegionsInv /\ SetEncodings => RegionsInv'
BY DEF RegionsInv, TypeOK, SourcesInScreen, SendingAlone, PictureFollows, Source,
       SetEncodings, progVars, regionVars, outVars

-----------------------------------------------------------------------------
(* The update *)

LEMMA TakeSound == RegionsInv /\ TakeRegion => RegionsInv'
<1> SUFFICES ASSUME RegionsInv, TakeRegion PROVE RegionsInv'
  OBVIOUS
<1>1. TypeOK' /\ SourcesInScreen'
  BY DEF RegionsInv, TypeOK, SourcesInScreen, TakeRegion, progVars, regionVars
<1>2. SendingAlone' /\ PictureFollows'
  BY DEF RegionsInv, SendingAlone, PictureFollows, Source, TakeRegion, progVars, regionVars
<1> QED BY <1>1, <1>2 DEF RegionsInv

(***************************************************************************)
(* When the update has begun, every point is drawn, or still sent, or was  *)
(* copied from a place that was right, or has been left as it was: and     *)
(* what was left of the copy that waited is modified.                      *)
(***************************************************************************)
LEMMA UpdateSound == RegionsInv /\ SendFramebufferUpdate => RegionsInv'
<1> SUFFICES ASSUME RegionsInv, SendFramebufferUpdate PROVE RegionsInv'
  OBVIOUS
<1> DEFINE copy == copied \ modified
           all == (given \cup copy) \cap requested
           toCopy == ToCopy(copy)
           toSend == all \ toCopy
<1>1. /\ outPc = "given" /\ given' = {}
      /\ UNCHANGED <<screen, unmarked, useCopyRect>>
      /\ sending = {}
      /\ TypeOK /\ SourcesInScreen /\ PictureFollows
  BY DEF SendFramebufferUpdate, RegionsInv, SendingAlone, progVars
<1>2. CASE all = {}
  <2>1. /\ outPc' = "wait" /\ copied' = copy
        /\ UNCHANGED <<modified, copyBy, requested, sending, picture>>
    BY <1>2 DEF SendFramebufferUpdate
  <2>2. TypeOK' /\ SourcesInScreen' /\ SendingAlone'
    BY <1>1, <2>1 DEF TypeOK, SourcesInScreen, SendingAlone
  <2>3. PictureFollows'
    BY <1>1, <2>1 DEF PictureFollows, Source
  <2> QED BY <2>2, <2>3 DEF RegionsInv
<1>3. CASE all # {}
  <2>1. /\ sending' \in SUBSET Points /\ picture' \in [Points -> Pixels]
        /\ Between(picture', CopyOf(picture, toCopy, copyBy), screen)
        /\ Equal(picture', screen, toSend \ sending')
        /\ modified' = ((modified \cup copy) \ toSend) \ toCopy
        /\ requested' = {} /\ copied' = {} /\ copyBy' = Still
        /\ outPc' = IF sending' = {} THEN "wait" ELSE "send"
    BY <1>3 DEF SendFramebufferUpdate
  <2>2. TypeOK'
    BY <1>1, <2>1, MoveTypes DEF TypeOK
  <2>3. SourcesInScreen' /\ SendingAlone'
    BY <2>1 DEF SourcesInScreen, SendingAlone
  <2>4. toCopy \subseteq copy
    BY DEF ToCopy
  <2>5. ASSUME NEW p \in Points \ (modified' \cup unmarked' \cup sending')
        PROVE  picture'[p] = screen[p]
    <3>1. picture'[p] \in {CopyOf(picture, toCopy, copyBy)[p], screen[p]}
      BY <2>1 DEF Between
    <3>2. CASE p \in toSend
      BY <2>1, <3>2 DEF Equal
    <3>3. CASE p \in toCopy
      <4>1. p \in copied /\ p \notin modified
        BY <2>4, <3>3
      <4>2. picture[Behind(p, copyBy)] = screen[p]
        BY <1>1, <4>1 DEF PictureFollows, Source
      <4>3. CopyOf(picture, toCopy, copyBy)[p] = picture[Behind(p, copyBy)]
        BY <3>3 DEF CopyOf
      <4> QED BY <3>1, <4>2, <4>3
    <3>4. CASE p \notin toSend /\ p \notin toCopy
      <4>1. p \notin modified /\ p \notin copied
        BY <2>1, <3>4
      <4>2. picture[p] = screen[p]
        BY <1>1, <4>1 DEF PictureFollows, Source
      <4>3. CopyOf(picture, toCopy, copyBy)[p] = picture[p]
        BY <3>4 DEF CopyOf
      <4> QED BY <3>1, <4>2, <4>3
    <3> QED BY <3>2, <3>3, <3>4
  <2>6. PictureFollows'
    BY <1>1, <2>1, <2>5 DEF PictureFollows, Source
  <2> QED BY <2>2, <2>3, <2>6 DEF RegionsInv
<1> QED BY <1>2, <1>3

\* A pixel sent is the screen's, and no copy waits whose source it could be.
LEMMA PixelsSound == RegionsInv /\ SendPixels /\ Apart => RegionsInv'
<1> SUFFICES ASSUME RegionsInv, SendPixels, Apart PROVE RegionsInv'
  OBVIOUS
<1>1. PICK part \in (SUBSET sending) \ {{}} :
        /\ picture' = [p \in Points |-> IF p \in part THEN screen[p] ELSE picture[p]]
        /\ sending' = sending \ part
        /\ outPc' = IF part = sending THEN "wait" ELSE "send"
  BY DEF SendPixels
<1>2. /\ UNCHANGED <<progVars, regionVars, useCopyRect, given>>
      /\ copied = {} /\ part \subseteq sending
  BY <1>1 DEF SendPixels, RegionsInv, SendingAlone
<1>3. TypeOK'
  BY <1>1, <1>2 DEF RegionsInv, TypeOK, progVars, regionVars
<1>4. SourcesInScreen' /\ SendingAlone'
  BY <1>1, <1>2 DEF SourcesInScreen, SendingAlone, regionVars
<1>5. ASSUME NEW p \in Points \ (modified' \cup unmarked' \cup sending')
      PROVE  picture'[p] = screen[p]
  BY <1>1, <1>2 DEF RegionsInv, PictureFollows, Source, progVars, regionVars
<1>6. PictureFollows'
  BY <1>2, <1>5 DEF PictureFollows, Source, progVars, regionVars
<1> QED BY <1>3, <1>4, <1>6 DEF RegionsInv

-----------------------------------------------------------------------------
(* The theorems *)

LEMMA InitSound == Init => RegionsInv
BY MoveTypes
   DEF Init, RegionsInv, TypeOK, SourcesInScreen, SendingAlone, PictureFollows

LEMMA StepSound == RegionsInv /\ Apart /\ [Next]_vars => RegionsInv'
<1> SUFFICES ASSUME RegionsInv, Apart, [Next]_vars PROVE RegionsInv'
  OBVIOUS
<1>1. CASE Draw BY <1>1, DrawSound
<1>2. CASE Mark BY <1>2, MarkSound
<1>3. CASE DoCopyRegion BY <1>3, CopySound
<1>4. CASE NewFramebuffer BY <1>4, NewFramebufferSound
<1>5. CASE UpdateRequest BY <1>5, RequestSound
<1>6. CASE SetEncodings BY <1>6, EncodingsSound
<1>7. CASE TakeRegion BY <1>7, TakeSound
<1>8. CASE SendFramebufferUpdate BY <1>8, UpdateSound
<1>9. CASE SendPixels BY <1>9, PixelsSound
<1>10. CASE UNCHANGED vars
  BY <1>10 DEF RegionsInv, TypeOK, SourcesInScreen, SendingAlone, PictureFollows, Source,
               vars, progVars, regionVars, outVars
<1> QED BY <1>1, <1>2, <1>3, <1>4, <1>5, <1>6, <1>7, <1>8, <1>9, <1>10 DEF Next

\* The inductive invariant of the regions: every waiting copy has its source on the screen, none
\* waits while rfbSendFramebufferUpdate is sending pixels, and the client's picture follows.
THEOREM RegionsCorrect == Apart => (Spec => []RegionsInv)
<1> SUFFICES ASSUME Apart PROVE Spec => []RegionsInv
  OBVIOUS
<1>1. RegionsInv /\ [Next]_vars => RegionsInv'
  BY StepSound
<1> QED BY <1>1, InitSound, PTL DEF Spec

\* If no copy on the screen (rfbDoCopyRegion) runs into an update being sent, the regions of the
\* client record never lose anything: what is not in modifiedRegion, nor drawn and not yet
\* marked, nor being sent, the client has, in its place or where copyRegion will copy it from.
THEOREM PictureIsFollowed == Apart => (Spec => []PictureFollows)
<1> SUFFICES ASSUME Apart PROVE Spec => []PictureFollows
  OBVIOUS
<1>1. RegionsInv => PictureFollows
  BY DEF RegionsInv
<1> QED BY <1>1, RegionsCorrect, PTL

\* And so clientOutput may stop when modifiedRegion and copyRegion are empty: once everything
\* drawn has been marked and no update is under way, the client shows the server's screen.
THEOREM NothingMissing == Apart => (Spec => []ShowsScreen)
<1> SUFFICES ASSUME Apart PROVE Spec => []ShowsScreen
  OBVIOUS
<1>1. RegionsInv => ShowsScreen
  <2> SUFFICES ASSUME RegionsInv, outPc # "send", unmarked \cup modified \cup copied = {}
               PROVE  picture = screen
    BY DEF ShowsScreen
  <2>1. \A p \in Points : picture[p] = screen[p]
    BY DEF RegionsInv, SendingAlone, PictureFollows, Source
  <2> QED BY <2>1 DEF RegionsInv, TypeOK
<1> QED BY <1>1, RegionsCorrect, PTL
=============================================================================
