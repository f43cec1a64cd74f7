---------------------- MODULE FramebufferUpdates_proofs ----------------------
(***************************************************************************)
(* Proofs about FramebufferUpdates, for any clients, any parts of the      *)
(* screen and any bounds: types and that no change is forgotten, in        *)
(* general; and, as long as no client comes or goes, that readers are      *)
(* locked out of an exchange, that no freed frame buffer is read, that     *)
(* pixels come in the size that was told, and that ScreenSharing is        *)
(* implemented.                                                            *)
(***************************************************************************)
EXTENDS FramebufferUpdates, TLAPS

-----------------------------------------------------------------------------
(* Types *)

LEMMA InitTypes == Init => TypeOK /\ Bounded
BY ClientsAssumption, NoClientAssumption, BoundsAssumption
   DEF Init, TypeOK, Bounded, MainPlaces, InPlaces, OutPlaces, NoPicture

LEMMA MainTypes ==
  ASSUME TypeOK, Bounded, NewImage \/ MainStep
  PROVE  TypeOK' /\ Bounded'
<1> USE NoClientAssumption, BoundsAssumption DEF TypeOK, Bounded, MainPlaces, OutPlaces,
                                                 InPlaces, mainVars, clientVars,
                                                 outVars, regionVars
<1>1. CASE NewImage
  BY <1>1 DEF NewImage, MainGo
<1>2. CASE VisitToLock
  BY <1>2 DEF VisitToLock, MainGo
<1>3. CASE LockOut
  BY <1>3 DEF LockOut, MainGo, LockSend
<1>4. CASE Swap
  BY <1>4 DEF Swap, MainGo, picture
<1>5. CASE VisitToUnlock
  <2>1. PICK c \in todo :
          /\ todo' = todo \ {c} /\ MarkAll(c) /\ ScheduleSize(c) /\ outPc' = Signalled(c)
          /\ sendMutex' = [sendMutex EXCEPT ![c] = "free"]
    BY <1>5 DEF VisitToUnlock
  <2>2. outPc' \in [Clients -> OutPlaces] /\ sendMutex' \in [Clients -> {"free", "main", "out"}]
    BY <2>1 DEF Signalled
  <2>3. modified' \in [Clients -> SUBSET Parts] /\ newFBSizePending' \in [Clients -> BOOLEAN]
    BY <2>1 DEF MarkAll, ScheduleSize
  <2>4. todo' \subseteq Clients
    BY <2>1
  <2> QED
    BY <1>5, <2>2, <2>3, <2>4 DEF VisitToUnlock, MainGo
<1>6. CASE FreeOld
  BY <1>6 DEF FreeOld, MainGo, NoPicture
<1>7. CASE CopyImage
  BY <1>7 DEF CopyImage, MainGo
<1>8. CASE VisitToMark
  BY <1>8 DEF VisitToMark, MainGo, MarkAll, Signalled
<1>9. CASE ImageDone
  BY <1>9 DEF ImageDone, MainGo
<1> QED
  BY <1>1, <1>2, <1>3, <1>4, <1>5, <1>6, <1>7, <1>8, <1>9 DEF MainStep

LEMMA InTypes ==
  ASSUME TypeOK, Bounded, NEW c \in Clients, InStep(c)
  PROVE  TypeOK' /\ Bounded'
<1> USE BoundsAssumption DEF TypeOK, Bounded, MainPlaces, OutPlaces, InPlaces, mainVars,
                             clientVars, outVars, regionVars
<1>1. CASE Ready(c)
  BY <1>1 DEF Ready, InGo
<1>2. CASE SetShutdown(c)
  BY <1>2 DEF SetShutdown, InGo
<1>3. CASE EndInput(c)
  BY <1>3 DEF EndInput, InGo, Signalled
<1>4. CASE Joined(c)
  BY <1>4 DEF Joined, InGo
<1>5. CASE Unlink(c)
  BY <1>5 DEF Unlink, InGo
<1>6. CASE FreeClient(c)
  BY <1>6 DEF FreeClient, InGo
<1> QED
  BY <1>1, <1>2, <1>3, <1>4, <1>5, <1>6 DEF InStep

LEMMA ClientTypes ==
  ASSUME TypeOK, Bounded, NEW c \in Clients, ClientStep(c)
  PROVE  TypeOK' /\ Bounded'
<1> USE BoundsAssumption DEF TypeOK, Bounded, MainPlaces, OutPlaces, InPlaces, mainVars,
                             clientVars, outVars, regionVars
<1>1. CASE Connect(c)
  BY <1>1 DEF Connect, InGo
<1>2. CASE InitMessage(c)
  BY <1>2 DEF InitMessage, InGo
<1>3. CASE SetEncodings(c)
  BY <1>3 DEF SetEncodings
<1>4. CASE UpdateRequest(c)
  <2>1. PICK parts \in SUBSET Parts, incremental \in BOOLEAN :
          /\ requested' = [requested EXCEPT ![c] = @ \cup parts]
          /\ modified' = IF incremental THEN modified
                         ELSE [modified EXCEPT ![c] = @ \cup parts]
    BY <1>4 DEF UpdateRequest
  <2>2. requested' \in [Clients -> SUBSET Parts] /\ modified' \in [Clients -> SUBSET Parts]
    BY <2>1
  <2>3. outPc' \in [Clients -> OutPlaces] /\ requests' \in [Clients -> 0..MaxRequests]
    BY <1>4 DEF UpdateRequest, Signalled
  <2> QED
    BY <1>4, <2>2, <2>3 DEF UpdateRequest
<1>5. CASE CloseClient(c)
  BY <1>5 DEF CloseClient, InGo, Signalled
<1> QED
  BY <1>1, <1>2, <1>3, <1>4, <1>5 DEF ClientStep

LEMMA OutTypes ==
  ASSUME TypeOK, Bounded, NEW c \in Clients, OutStep(c)
  PROVE  TypeOK' /\ Bounded'
<1> USE BoundsAssumption DEF TypeOK, Bounded, MainPlaces, OutPlaces, InPlaces, mainVars,
                             clientVars, outVars, regionVars
<1>1. CASE Look(c)
  BY <1>1 DEF Look, OutGo
<1>2. CASE Test(c)
  BY <1>2 DEF Test, OutGo
<1>3. CASE CopyRegion(c)
  BY <1>3 DEF CopyRegion, OutGo
<1>4. CASE StartSend(c)
  BY <1>4 DEF StartSend, OutGo
<1>5. CASE SendSize(c)
  BY <1>5 DEF SendSize, OutGo
<1>6. CASE TakeRegion(c)
  BY <1>6 DEF TakeRegion, OutGo, Remainder
<1>7. CASE ReadPointer(c)
  BY <1>7 DEF ReadPointer, OutGo
<1>8. CASE SendPart(c)
  <2>1. PICK p \in sending[c] :
          /\ shown' = [shown EXCEPT ![c][p] = contents[buf[c]]]
          /\ sending' = [sending EXCEPT ![c] = @ \ {p}]
    BY <1>8 DEF SendPart
  <2>2. contents[buf[c]] \in Nat
    OBVIOUS
  <2>3. shown' \in [Clients -> [Parts -> Nat]]
    BY <2>1, <2>2
  <2>4. sending' \in [Clients -> SUBSET Parts]
    BY <2>1
  <2>5. outPc' \in [Clients -> OutPlaces]
    <3>1. PICK next \in {"unlock", "pixels", "read"} : OutGo(c, "pixels", next)
      <4> HIDE DEF TypeOK, Bounded
      <4> QED BY <1>8 DEF SendPart
    <3>2. outPc' = [outPc EXCEPT ![c] = next] /\ next \in OutPlaces
      BY <3>1 DEF OutGo
    <3>3. outPc \in [Clients -> OutPlaces]
      OBVIOUS
    <3> HIDE DEF TypeOK, Bounded, OutPlaces
    <3> QED BY <3>2, <3>3
  <2>6. UNCHANGED <<mainVars, clientVars, given, buf, regionVars, sendMutex, size>>
    BY <1>8 DEF SendPart
  <2>7. Bounded'
    BY <2>6
  <2>8. TypeOK'
    <3> HIDE DEF MainPlaces, OutPlaces, InPlaces, Bounded
    <3> QED BY <2>3, <2>4, <2>5, <2>6
  <2> QED
    BY <2>7, <2>8, Zenon
<1>9. CASE SendFails(c)
  BY <1>9 DEF SendFails, OutGo
<1>10. CASE EndSend(c)
  BY <1>10 DEF EndSend, OutGo
<1> QED
  BY <1>1, <1>2, <1>3, <1>4, <1>5, <1>6, <1>7, <1>8, <1>9, <1>10 DEF OutStep

LEMMA NextTypes == TypeOK /\ Bounded /\ [Next]_vars => TypeOK' /\ Bounded'
<1> SUFFICES ASSUME TypeOK, Bounded, [Next]_vars
             PROVE  TypeOK' /\ Bounded'
  OBVIOUS
<1>1. CASE NewImage \/ MainStep
  BY <1>1, MainTypes
<1>2. CASE \E c \in Clients : InStep(c) \/ ClientStep(c) \/ OutStep(c)
  BY <1>2, InTypes, ClientTypes, OutTypes
<1>3. CASE UNCHANGED vars
  BY <1>3 DEF vars, mainVars, clientVars, outVars, regionVars, TypeOK, Bounded
<1> QED
  BY <1>1, <1>2, <1>3 DEF Next

\* Every variable keeps its type, whoever comes and goes.
THEOREM TypeCorrect == Spec => []TypeOK
<1>1. TypeOK /\ Bounded /\ [Next]_vars => (TypeOK /\ Bounded)'
  BY NextTypes
<1> QED
  BY InitTypes, <1>1, PTL DEF Spec

-----------------------------------------------------------------------------
(* Nothing out of date is forgotten, whoever comes and goes *)

LEMMA MainSends ==
  ASSUME KeptInv, NewImage \/ MainStep
  PROVE  Handshaking' /\ SendingPlaces'
<1> USE DEF KeptInv, TypeOK, OutPlaces, mainVars, clientVars, outVars, regionVars,
            SendingPlaces, Handshaking
<1>1. CASE NewImage
  BY <1>1 DEF NewImage, MainGo
<1>2. CASE VisitToLock
  BY <1>2 DEF VisitToLock, MainGo
<1>3. CASE LockOut
  BY <1>3 DEF LockOut, MainGo, LockSend
<1>4. CASE Swap
  BY <1>4 DEF Swap, MainGo, picture
<1>5. CASE VisitToUnlock
  <2>1. PICK c \in todo : outPc' = Signalled(c)
    BY <1>5 DEF VisitToUnlock
  <2>2. \A d \in Clients : outPc'[d] = outPc[d] \/ (outPc[d] = "wait" /\ outPc'[d] = "look")
    BY <2>1 DEF Signalled
  <2>3. UNCHANGED <<state, inPc, sending>>
    BY <1>5 DEF VisitToUnlock
  <2> QED
    BY <2>2, <2>3
<1>6. CASE FreeOld
  BY <1>6 DEF FreeOld, MainGo, NoPicture
<1>7. CASE CopyImage
  BY <1>7 DEF CopyImage, MainGo
<1>8. CASE VisitToMark
  BY <1>8 DEF VisitToMark, MainGo, MarkAll, Signalled
<1>9. CASE ImageDone
  BY <1>9 DEF ImageDone, MainGo
<1> QED
  BY <1>1, <1>2, <1>3, <1>4, <1>5, <1>6, <1>7, <1>8, <1>9 DEF MainStep

LEMMA MainKept ==
  ASSUME KeptInv, NewImage \/ MainStep
  PROVE  OldMarked' /\ PictureKept'
<1> USE DEF KeptInv, TypeOK, OutPlaces, mainVars, clientVars, outVars, regionVars,
            OldMarked, PictureKept, Served, Marked, picture
<1>1. CASE NewImage
  BY <1>1 DEF NewImage, MainGo
<1>2. CASE VisitToLock
  BY <1>2 DEF VisitToLock, MainGo
<1>3. CASE LockOut
  BY <1>3 DEF LockOut, MainGo, LockSend
<1>4. CASE Swap
  BY <1>4 DEF Swap, MainGo, picture
<1>5. CASE VisitToUnlock
  <2>1. PICK c \in todo : MarkAll(c) /\ todo' = todo \ {c} /\ outPc' = Signalled(c)
    BY <1>5 DEF VisitToUnlock
  <2>2. \A d \in Clients : outPc'[d] = "pixels" => outPc[d] = "pixels"
    BY <2>1 DEF Signalled
  <2>3. /\ UNCHANGED <<listed, state, open, shown, sending, buf, picture, frameBuffer>>
        /\ pc = "unlock" /\ pc' = "unlock"
    BY <1>5 DEF VisitToUnlock, MainGo
  <2>4. \A d \in Clients, p \in Parts : Marked(d, p) => Marked(d, p)'
    BY <2>1, <2>3 DEF MarkAll
  <2>5. OldMarked'
    BY <2>2, <2>3, <2>4
  <2>6. PictureKept'
    BY <2>3, <2>4
  <2> QED
    BY <2>5, <2>6
<1>6. CASE FreeOld
  BY <1>6 DEF FreeOld, MainGo, NoPicture
<1>7. CASE CopyImage
  BY <1>7 DEF CopyImage, MainGo
<1>8. CASE VisitToMark
  BY <1>8 DEF VisitToMark, MainGo, MarkAll, Signalled
<1>9. CASE ImageDone
  BY <1>9 DEF ImageDone, MainGo
<1> QED
  BY <1>1, <1>2, <1>3, <1>4, <1>5, <1>6, <1>7, <1>8, <1>9 DEF MainStep

LEMMA InSends ==
  ASSUME KeptInv, NEW c \in Clients, InStep(c)
  PROVE  Handshaking' /\ SendingPlaces'
<1> USE DEF KeptInv, TypeOK, OutPlaces, mainVars, clientVars, outVars, regionVars,
            SendingPlaces, Handshaking
<1>1. CASE Ready(c)
  BY <1>1 DEF Ready, InGo
<1>2. CASE SetShutdown(c)
  BY <1>2 DEF SetShutdown, InGo
<1>3. CASE EndInput(c)
  BY <1>3 DEF EndInput, InGo, Signalled
<1>4. CASE Joined(c)
  BY <1>4 DEF Joined, InGo
<1>5. CASE Unlink(c)
  BY <1>5 DEF Unlink, InGo
<1>6. CASE FreeClient(c)
  BY <1>6 DEF FreeClient, InGo
<1> QED
  BY <1>1, <1>2, <1>3, <1>4, <1>5, <1>6 DEF InStep

LEMMA InKept ==
  ASSUME KeptInv, NEW c \in Clients, InStep(c)
  PROVE  OldMarked' /\ PictureKept'
<1> USE DEF KeptInv, TypeOK, OutPlaces, mainVars, clientVars, outVars, regionVars,
            OldMarked, PictureKept, Served, Marked, picture
<1>1. CASE Ready(c)
  BY <1>1 DEF Ready, InGo, Handshaking
<1>2. CASE SetShutdown(c)
  BY <1>2 DEF SetShutdown, InGo
<1>3. CASE EndInput(c)
  BY <1>3 DEF EndInput, InGo, Signalled
<1>4. CASE Joined(c)
  BY <1>4 DEF Joined, InGo
<1>5. CASE Unlink(c)
  BY <1>5 DEF Unlink, InGo
<1>6. CASE FreeClient(c)
  BY <1>6 DEF FreeClient, InGo
<1> QED
  BY <1>1, <1>2, <1>3, <1>4, <1>5, <1>6 DEF InStep

LEMMA ClientSends ==
  ASSUME KeptInv, NEW c \in Clients, ClientStep(c)
  PROVE  Handshaking' /\ SendingPlaces'
<1> USE DEF KeptInv, TypeOK, OutPlaces, mainVars, clientVars, outVars, regionVars,
            SendingPlaces, Handshaking
<1>1. CASE Connect(c)
  BY <1>1 DEF Connect, InGo
<1>2. CASE InitMessage(c)
  BY <1>2 DEF InitMessage, InGo
<1>3. CASE SetEncodings(c)
  BY <1>3 DEF SetEncodings
<1>4. CASE UpdateRequest(c)
  BY <1>4 DEF UpdateRequest, Signalled
<1>5. CASE CloseClient(c)
  BY <1>5 DEF CloseClient, InGo, Signalled
<1> QED
  BY <1>1, <1>2, <1>3, <1>4, <1>5 DEF ClientStep

LEMMA ClientKept ==
  ASSUME KeptInv, NEW c \in Clients, ClientStep(c)
  PROVE  OldMarked' /\ PictureKept'
<1> USE DEF KeptInv, TypeOK, OutPlaces, mainVars, clientVars, outVars, regionVars,
            OldMarked, PictureKept, Served, Marked, picture
<1>1. CASE Connect(c)
  BY <1>1 DEF Connect, InGo
<1>2. CASE InitMessage(c)
  BY <1>2 DEF InitMessage, InGo
<1>3. CASE SetEncodings(c)
  BY <1>3 DEF SetEncodings
<1>4. CASE UpdateRequest(c)
  <2>1. outPc' = Signalled(c) /\ UNCHANGED <<mainVars, listed, state, open, shown, sending, buf>>
    BY <1>4 DEF UpdateRequest
  <2>2. \A d \in Clients : modified[d] \subseteq modified'[d]
    BY <1>4 DEF UpdateRequest
  <2>3. \A d \in Clients : outPc'[d] = "pixels" => outPc[d] = "pixels"
    BY <2>1 DEF Signalled
  <2>4. \A d \in Clients, p \in Parts : Marked(d, p) => Marked(d, p)'
    BY <2>1, <2>2
  <2>5. OldMarked'
    BY <2>1, <2>3, <2>4
  <2>6. PictureKept'
    BY <2>1, <2>4
  <2> QED
    BY <2>5, <2>6
<1>5. CASE CloseClient(c)
  BY <1>5 DEF CloseClient, InGo, Signalled
<1> QED
  BY <1>1, <1>2, <1>3, <1>4, <1>5 DEF ClientStep

LEMMA OutSends ==
  ASSUME KeptInv, NEW c \in Clients, OutStep(c)
  PROVE  Handshaking' /\ SendingPlaces'
<1> USE DEF KeptInv, TypeOK, OutPlaces, mainVars, clientVars, outVars, regionVars,
            SendingPlaces, Handshaking
<1>1. CASE Look(c)
  BY <1>1 DEF Look, OutGo
<1>2. CASE Test(c)
  BY <1>2 DEF Test, OutGo
<1>3. CASE CopyRegion(c)
  BY <1>3 DEF CopyRegion, OutGo
<1>4. CASE StartSend(c)
  BY <1>4 DEF StartSend, OutGo
<1>5. CASE SendSize(c)
  BY <1>5 DEF SendSize, OutGo
<1>6. CASE TakeRegion(c)
  <2>1. sending'[c] = {} \/ outPc'[c] = "read"
    BY <1>6 DEF TakeRegion, OutGo
  <2>2. UNCHANGED <<state, inPc>> /\ state[c] # "handshake"
    BY <1>6 DEF TakeRegion, OutGo
  <2>3. \A d \in Clients : d # c => outPc'[d] = outPc[d] /\ sending'[d] = sending[d]
    BY <1>6 DEF TakeRegion, OutGo
  <2> QED
    BY <2>1, <2>2, <2>3
<1>7. CASE ReadPointer(c)
  BY <1>7 DEF ReadPointer, OutGo
<1>8. CASE SendPart(c)
  <2>1. PICK p \in sending[c] :
          /\ sending' = [sending EXCEPT ![c] = @ \ {p}]
          /\ \E next \in IF sending[c] = {p} THEN {"unlock"} ELSE {"pixels", "read"} :
               OutGo(c, "pixels", next)
    BY <1>8 DEF SendPart
  <2>2. PICK next \in {"unlock", "pixels", "read"} :
          /\ next = "unlock" => sending[c] = {p}
          /\ OutGo(c, "pixels", next)
    BY <2>1
  <2>3. UNCHANGED <<state, inPc>> /\ state[c] # "handshake"
    BY <1>8, <2>2 DEF SendPart, OutGo
  <2>4. sending'[c] = {} \/ outPc'[c] \in {"read", "pixels"}
    BY <2>1, <2>2 DEF OutGo
  <2>5. \A d \in Clients : d # c => outPc'[d] = outPc[d] /\ sending'[d] = sending[d]
    BY <2>1, <2>2 DEF OutGo
  <2> QED
    BY <2>3, <2>4, <2>5
<1>9. CASE SendFails(c)
  BY <1>9 DEF SendFails, OutGo
<1>10. CASE EndSend(c)
  BY <1>10 DEF EndSend, OutGo
<1> QED
  BY <1>1, <1>2, <1>3, <1>4, <1>5, <1>6, <1>7, <1>8, <1>9, <1>10 DEF OutStep

LEMMA OutKept ==
  ASSUME KeptInv, NEW c \in Clients, OutStep(c)
  PROVE  OldMarked' /\ PictureKept'
<1> USE DEF KeptInv, TypeOK, OutPlaces, mainVars, clientVars, outVars, regionVars,
            OldMarked, PictureKept, Served, Marked, picture
<1>1. CASE Look(c)
  BY <1>1 DEF Look, OutGo
<1>2. CASE Test(c)
  BY <1>2 DEF Test, OutGo
<1>3. CASE CopyRegion(c)
  BY <1>3 DEF CopyRegion, OutGo
<1>4. CASE StartSend(c)
  BY <1>4 DEF StartSend, OutGo
<1>5. CASE SendSize(c)
  BY <1>5 DEF SendSize, OutGo
<1>6. CASE TakeRegion(c)
  <2>1. /\ UNCHANGED <<mainVars, listed, state, open, shown, buf>>
        /\ outPc[c] = "take" /\ outPc'[c] # "pixels"
        /\ modified[c] \subseteq modified'[c] \cup sending'[c]
    BY <1>6 DEF TakeRegion, OutGo, Remainder
  <2>2. \A d \in Clients : d # c => /\ modified'[d] = modified[d] /\ sending'[d] = sending[d]
                                   /\ outPc'[d] = outPc[d]
    BY <1>6 DEF TakeRegion, OutGo
  <2>3. sending[c] = {}
    BY <2>1 DEF SendingPlaces
  <2> QED
    BY <2>1, <2>2, <2>3
<1>7. CASE ReadPointer(c)
  BY <1>7 DEF ReadPointer, OutGo
<1>8. CASE SendPart(c)
  <2>1. PICK p \in sending[c] :
          /\ shown' = [shown EXCEPT ![c][p] = contents[buf[c]]]
          /\ sending' = [sending EXCEPT ![c] = @ \ {p}]
    BY <1>8 DEF SendPart
  <2>2. /\ UNCHANGED <<mainVars, listed, state, open, buf, modified>>
        /\ outPc[c] = "pixels" /\ p \in Parts
    BY <1>8 DEF SendPart, OutGo
  <2>3. \A d \in Clients : outPc'[d] = "pixels" => outPc[d] = "pixels"
    BY <1>8 DEF SendPart, OutGo
  <2>4. OldMarked'
    BY <2>2, <2>3
  <2>5. ASSUME NEW d \in Clients, NEW q \in Parts, Served(d)', shown'[d][q] # picture'
        PROVE  q \in sending'[d] \/ Marked(d, q)'
    <3>1. CASE d = c /\ q = p
      <4>1. shown'[c][p] = contents[buf[c]]
        BY <2>1, <2>2
      <4>2. buf[c] # frameBuffer
        BY <2>2, <2>5, <3>1, <4>1
      <4> QED
        BY <2>2, <2>5, <3>1, <4>2
    <3>2. CASE ~(d = c /\ q = p)
      <4>1. shown'[d][q] = shown[d][q] /\ (q \in sending[d] => q \in sending'[d])
        BY <2>1, <3>2
      <4> QED
        BY <2>2, <2>5, <4>1
    <3> QED
      BY <3>1, <3>2
  <2> QED
    BY <2>4, <2>5
<1>9. CASE SendFails(c)
  BY <1>9 DEF SendFails, OutGo
<1>10. CASE EndSend(c)
  BY <1>10 DEF EndSend, OutGo
<1> QED
  BY <1>1, <1>2, <1>3, <1>4, <1>5, <1>6, <1>7, <1>8, <1>9, <1>10 DEF OutStep

LEMMA KeptStep == KeptInv /\ [Next]_vars => KeptInv'
<1> SUFFICES ASSUME KeptInv, [Next]_vars
             PROVE  KeptInv'
  OBVIOUS
<1>1. (TypeOK /\ Bounded)'
  BY NextTypes DEF KeptInv
<1>2. CASE NewImage \/ MainStep
  BY <1>1, <1>2, MainSends, MainKept DEF KeptInv
<1>3. CASE \E c \in Clients : InStep(c) \/ ClientStep(c) \/ OutStep(c)
  BY <1>1, <1>3, InSends, InKept, ClientSends, ClientKept, OutSends, OutKept DEF KeptInv
<1>4. CASE UNCHANGED vars
  BY <1>1, <1>4 DEF vars, mainVars, clientVars, outVars, regionVars, KeptInv,
                    Handshaking,
                    SendingPlaces, OldMarked, PictureKept, Served, Marked, picture
<1> QED
  BY <1>2, <1>3, <1>4 DEF Next

LEMMA InitKept == Init => KeptInv
<1> SUFFICES ASSUME Init PROVE KeptInv
  OBVIOUS
<1>1. TypeOK /\ Bounded
  BY InitTypes
<1>2. Handshaking /\ SendingPlaces
  BY DEF Init, Handshaking, SendingPlaces
<1>3. OldMarked
  BY DEF Init, OldMarked
<1>4. PictureKept
  BY DEF Init, PictureKept, Served, Marked
<1> QED
  BY <1>1, <1>2, <1>3, <1>4 DEF KeptInv

\* The invariant by which nothing out of date is forgotten is kept by every step.
THEOREM KeptInvCorrect == Spec => []KeptInv
BY InitKept, KeptStep, PTL DEF Spec

\* What is out of date at a client stays marked for it, or is being sent, whichever
\* clients come and go while images are copied and frame buffers exchanged.
THEOREM NothingIsForgotten == Spec => []PictureKept
<1>1. KeptInv => PictureKept
  BY DEF KeptInv
<1> QED
  BY KeptInvCorrect, <1>1, PTL

-----------------------------------------------------------------------------
(* Steps while no client comes or goes *)

\* What the output thread does while its writes succeed.
Sends(c) ==
  \/ Look(c) \/ Test(c) \/ CopyRegion(c) \/ StartSend(c) \/ SendSize(c) \/ TakeRegion(c)
  \/ ReadPointer(c) \/ SendPart(c) \/ EndSend(c)

Talks(c) == SetEncodings(c) \/ UpdateRequest(c)

\* Connecting, the handshake and closing are over, or do not happen.
LEMMA NormalSteps ==
  ASSUME Leavers = {}, AllNormal, NEW c \in Clients, InStep(c) \/ ClientStep(c) \/ OutStep(c)
  PROVE  Talks(c) \/ Sends(c)
<1>1. open[c] /\ state[c] = "normal" /\ inPc[c] = "read"
  BY DEF AllNormal
<1>2. ~InStep(c)
  BY <1>1 DEF InStep, Ready, SetShutdown, EndInput, Joined, Unlink, FreeClient, InGo
<1>3. ~Connect(c) /\ ~InitMessage(c) /\ ~CloseClient(c) /\ ~SendFails(c)
  BY <1>1 DEF Connect, InitMessage, CloseClient, SendFails, InGo
<1> QED
  BY <1>2, <1>3 DEF ClientStep, OutStep, Talks, Sends

LEMMA NormalKept ==
  ASSUME TypeOK, AllNormal,
         NewImage \/ MainStep \/ \E c \in Clients : Talks(c) \/ Sends(c)
  PROVE  AllNormal'
<1>1. UNCHANGED <<listed, state, open, inPc>>
  BY DEF MainStep, Talks, Sends, NewImage, VisitToLock, LockOut, Swap, VisitToUnlock,
         FreeOld, CopyImage, VisitToMark, ImageDone, SetEncodings, UpdateRequest, Look, Test,
         CopyRegion, StartSend, SendSize, TakeRegion, ReadPointer, SendPart, EndSend,
         clientVars
<1> QED
  BY <1>1 DEF AllNormal

-----------------------------------------------------------------------------
(* The steps preserve LockInv *)

\* A wakeup moves an output thread between places outside of its sending section.
SameSending(d) ==
  (Sending(d)' <=> Sending(d)) /\ (outPc'[d] = "pixels" <=> outPc[d] = "pixels")

LEMMA SignalOutside ==
  ASSUME TypeOK, NEW c \in Clients, outPc' = Signalled(c), NEW d \in Clients
  PROVE  SameSending(d)
BY DEF TypeOK, Signalled, Sending, SameSending

LEMMA MainLock ==
  ASSUME LockInv, NewImage \/ MainStep
  PROVE  VisitOnce' /\ Holders' /\ BufferInPlace' /\ ShownBefore'
<1> USE NoClientAssumption DEF LockInv, VisitOnce
<1> USE DEF mainVars, clientVars, outVars, regionVars, SameSending
<1>1. CASE NewImage
  BY <1>1 DEF NewImage, MainGo, TypeOK, AllNormal, Holders, BufferInPlace, ShownBefore,
              Sending, picture
<1>2. CASE VisitToLock
  BY <1>2 DEF VisitToLock, MainGo, TypeOK, Holders, BufferInPlace, ShownBefore, Sending,
              picture
<1>3. CASE LockOut
  BY <1>3 DEF LockOut, LockSend, MainGo, TypeOK, Holders, BufferInPlace, ShownBefore,
              Sending, picture
<1>4. CASE Swap
  <2>1. todo = {} /\ listed = Clients
    BY <1>4 DEF Swap, TypeOK, AllNormal
  <2>2. \A c \in Clients : sendMutex[c] = "main" /\ ~Sending(c)
    BY <1>4, <2>1 DEF Swap, MainGo, Holders
  <2>3. frameBuffer < MaxSwaps /\ frameBuffer \in Nat
    BY <1>4, BoundsAssumption DEF Swap, MainGo, Bounded, TypeOK
  <2>4. VisitOnce' /\ Holders'
    BY <1>4, <2>1, <2>2 DEF Swap, MainGo, Holders, Sending
  <2>5. BufferInPlace'
    BY <1>4, <2>2, <2>3, BoundsAssumption DEF Swap, BufferInPlace, Sending, TypeOK
  <2>6. picture' = picture + 1 /\ picture \in Nat
    BY <1>4, <2>3, BoundsAssumption DEF Swap, picture, TypeOK
  <2>7. ShownBefore'
    BY <1>4, <2>6 DEF Swap, ShownBefore, TypeOK, NoPicture
  <2> QED
    BY <2>4, <2>5, <2>7
<1>5. CASE VisitToUnlock
  <2>1. PICK c \in todo : /\ todo' = todo \ {c}
                          /\ outPc' = Signalled(c)
                          /\ sendMutex' = [sendMutex EXCEPT ![c] = "free"]
    BY <1>5 DEF VisitToUnlock
  <2>2. pc = "unlock" /\ pc' = "unlock" /\ at' = at /\ c \in Clients
    BY <1>5, <2>1 DEF VisitToUnlock, MainGo, TypeOK
  <2>3. \A d \in Clients : SameSending(d)
    BY <2>1, <2>2, SignalOutside
  <2>4. Holders'
    <3> SUFFICES ASSUME NEW d \in Clients
                 PROVE  /\ sendMutex'[d] = "out" <=> Sending(d)'
                        /\ sendMutex'[d] = "main" <=> d \in todo'
      BY <2>2 DEF Holders
    <3>1. sendMutex[c] = "main" /\ ~Sending(c)
      BY <2>1, <2>2 DEF Holders
    <3> QED
      BY <2>1, <2>2, <2>3, <3>1 DEF Holders, TypeOK
  <2>5. BufferInPlace' /\ ShownBefore' /\ VisitOnce'
    BY <1>5, <2>2, <2>3 DEF VisitToUnlock, BufferInPlace, ShownBefore, picture
  <2> QED
    BY <2>4, <2>5
<1>6. CASE FreeOld
  <2>1. todo = {}
    BY <1>6 DEF FreeOld, TypeOK, AllNormal
  <2>2. VisitOnce' /\ Holders'
    BY <1>6, <2>1 DEF FreeOld, MainGo, Holders, Sending
  <2>3. BufferInPlace'
    BY <1>6, BoundsAssumption DEF FreeOld, BufferInPlace, TypeOK
  <2>4. picture' = picture
    BY <1>6, BoundsAssumption DEF FreeOld, picture, TypeOK
  <2>5. ShownBefore'
    BY <1>6, <2>4 DEF FreeOld, ShownBefore
  <2> QED
    BY <2>2, <2>3, <2>5
<1>7. CASE CopyImage
  <2>1. VisitOnce' /\ Holders' /\ BufferInPlace'
    BY <1>7 DEF CopyImage, MainGo, Holders, Sending, BufferInPlace
  <2>2. picture' = picture + 1 /\ picture \in Nat
    BY <1>7 DEF CopyImage, picture, TypeOK
  <2>3. ShownBefore'
    BY <1>7, <2>2 DEF CopyImage, ShownBefore, TypeOK, NoPicture
  <2> QED
    BY <2>1, <2>3
<1>8. CASE VisitToMark
  <2>1. PICK c \in todo : outPc' = Signalled(c)
    BY <1>8 DEF VisitToMark
  <2>2. pc = "mark" /\ pc' = "mark" /\ at' = at /\ c \in Clients
    BY <1>8, <2>1 DEF VisitToMark, MainGo, TypeOK
  <2>3. \A d \in Clients : SameSending(d)
    BY <2>1, <2>2, SignalOutside
  <2> QED
    BY <1>8, <2>2, <2>3 DEF VisitToMark, Holders, BufferInPlace, ShownBefore, picture
<1>9. CASE ImageDone
  BY <1>9 DEF ImageDone, MainGo, Holders, BufferInPlace, ShownBefore, Sending, picture
<1> QED
  BY <1>1, <1>2, <1>3, <1>4, <1>5, <1>6, <1>7, <1>8, <1>9 DEF MainStep

LEMMA TalkLock ==
  ASSUME LockInv, NEW c \in Clients, Talks(c)
  PROVE  VisitOnce' /\ Holders' /\ BufferInPlace' /\ ShownBefore'
<1>1. UNCHANGED <<mainVars, sendMutex, buf, shown>>
  BY DEF Talks, SetEncodings, UpdateRequest, outVars
<1>2. \A d \in Clients : SameSending(d)
  <2>1. CASE SetEncodings(c)
    BY <2>1 DEF SetEncodings, outVars, Sending, SameSending
  <2>2. CASE UpdateRequest(c)
    BY <2>2, SignalOutside DEF UpdateRequest, LockInv
  <2> QED
    BY <2>1, <2>2 DEF Talks
<1> QED
  BY <1>1, <1>2 DEF SameSending, LockInv, mainVars, VisitOnce, Holders, BufferInPlace, ShownBefore,
                    picture

LEMMA SendLock ==
  ASSUME LockInv, NEW c \in Clients, Sends(c)
  PROVE  VisitOnce' /\ Holders' /\ BufferInPlace' /\ ShownBefore'
<1>1. VisitOnce' /\ UNCHANGED mainVars
  BY DEF Sends, Look, Test, CopyRegion, StartSend, SendSize, TakeRegion, ReadPointer,
         SendPart, EndSend, LockInv, VisitOnce, mainVars
<1>2. Holders'
  <2> USE DEF LockInv, TypeOK, Holders, Sending, mainVars, OutPlaces
  <2>1. CASE Look(c) \/ Test(c) \/ CopyRegion(c)
    BY <2>1 DEF Look, Test, CopyRegion, OutGo
  <2>2. CASE StartSend(c)
    BY <2>2 DEF StartSend, OutGo
  <2>3. CASE SendSize(c) \/ ReadPointer(c)
    BY <2>3 DEF SendSize, ReadPointer, OutGo
  <2>4. CASE TakeRegion(c)
    BY <2>4 DEF TakeRegion, OutGo
  <2>5. CASE SendPart(c)
    <3>1. PICK next \in {"unlock", "pixels", "read"} : OutGo(c, "pixels", next)
      BY <2>5 DEF SendPart
    <3>2. sendMutex' = sendMutex
      BY <2>5 DEF SendPart
    <3> QED
      BY <1>1, <3>1, <3>2 DEF OutGo
  <2>6. CASE EndSend(c)
    BY <2>6 DEF EndSend, OutGo
  <2> QED
    BY <2>1, <2>2, <2>3, <2>4, <2>5, <2>6 DEF Sends
<1>3. BufferInPlace'
  <2> USE DEF LockInv, TypeOK, BufferInPlace, mainVars, OutPlaces
  <2>1. CASE Look(c) \/ Test(c) \/ CopyRegion(c)
    BY <1>1, <2>1 DEF Look, Test, CopyRegion, OutGo
  <2>2. CASE StartSend(c) \/ EndSend(c) \/ SendSize(c) \/ TakeRegion(c)
    BY <1>1, <2>2 DEF StartSend, EndSend, SendSize, TakeRegion, OutGo
  <2>3. CASE ReadPointer(c)
    BY <2>3 DEF ReadPointer, OutGo
  <2>4. CASE SendPart(c)
    BY <2>4 DEF SendPart, OutGo
  <2> QED
    BY <2>1, <2>2, <2>3, <2>4 DEF Sends
<1>4. ShownBefore'
  <2>1. picture' = picture
    BY <1>1 DEF mainVars, picture
  <2>2. CASE SendPart(c)
    <3>1. PICK p \in sending[c] : shown' = [shown EXCEPT ![c][p] = contents[buf[c]]]
      BY <2>2 DEF SendPart
    <3>2. contents[buf[c]] = picture
      BY <2>2 DEF SendPart, OutGo, LockInv, BufferInPlace, picture
    <3>3. \A d \in Clients, q \in Parts : shown'[d][q] = shown[d][q] \/ shown'[d][q] = picture
      BY <3>1, <3>2 DEF LockInv, TypeOK
    <3>4. picture \in Nat
      BY DEF LockInv, TypeOK, picture
    <3> QED
      BY <2>1, <3>3, <3>4 DEF LockInv, ShownBefore
  <2>3. CASE ~SendPart(c)
    <3>1. shown' = shown
      BY <2>3 DEF Sends, Look, Test, CopyRegion, StartSend, SendSize, TakeRegion,
                  ReadPointer, EndSend
    <3> QED
      BY <2>1, <3>1 DEF LockInv, ShownBefore
  <2> QED
    BY <2>2, <2>3
<1> QED
  BY <1>1, <1>2, <1>3, <1>4

LEMMA LockStep ==
  ASSUME Leavers = {}, LockInv, [Next]_vars
  PROVE  LockInv'
<1>1. (TypeOK /\ Bounded)'
  BY NextTypes DEF LockInv
<1>2. CASE NewImage \/ MainStep
  BY <1>1, <1>2, MainLock, NormalKept DEF LockInv
<1>3. CASE \E c \in Clients : InStep(c) \/ ClientStep(c) \/ OutStep(c)
  <2>1. PICK c \in Clients : InStep(c) \/ ClientStep(c) \/ OutStep(c)
    BY <1>3
  <2>2. Talks(c) \/ Sends(c)
    BY <2>1, NormalSteps DEF LockInv
  <2>3. AllNormal'
    BY <2>2, NormalKept DEF LockInv
  <2> QED
    BY <1>1, <2>2, <2>3, TalkLock, SendLock DEF LockInv
<1>4. CASE UNCHANGED vars
  BY <1>1, <1>4 DEF vars, mainVars, clientVars, outVars, LockInv, AllNormal, VisitOnce,
                    Holders, Sending, BufferInPlace, ShownBefore, picture
<1> QED
  BY <1>2, <1>3, <1>4 DEF Next

LEMMA InitLock ==
  ASSUME Settled = Clients, Init
  PROVE  LockInv
<1>1. TypeOK /\ Bounded
  BY InitTypes
<1>2. AllNormal /\ VisitOnce
  BY DEF Init, AllNormal, VisitOnce
<1>3. Holders
  BY DEF Init, Holders, Sending
<1>4. BufferInPlace
  BY DEF Init, BufferInPlace
<1>5. ShownBefore
  BY BoundsAssumption DEF Init, ShownBefore, picture, NoPicture
<1> QED
  BY <1>1, <1>2, <1>3, <1>4, <1>5 DEF LockInv

\* While no client comes or goes, LockInv holds: sendMutex is held as the comments of
\* rfbNewFramebuffer say, and what is read under it is the frame buffer in place.
THEOREM LockInvCorrect ==
  ASSUME Settled = Clients, Leavers = {}
  PROVE  Spec => []LockInv
<1>1. LockInv /\ [Next]_vars => LockInv'
  BY LockStep
<1> QED
  BY InitLock, <1>1, PTL DEF Spec

-----------------------------------------------------------------------------
(* What follows from LockInv *)

\* While no client comes or goes, no output thread is in its sending section while the
\* frame buffer is exchanged (main.c:1075).
THEOREM ReadersAreLockedOut ==
  ASSUME Settled = Clients, Leavers = {}
  PROVE  Spec => []ReadsLockedOut
<1>1. LockInv => ReadsLockedOut
  BY DEF LockInv, ReadsLockedOut, Holders, TypeOK
<1> QED
  BY LockInvCorrect, <1>1, PTL

\* While no client comes or goes, no output thread reads a frame buffer that
\* vncNewFramebuffer has freed (droidlink.c:433).
THEOREM NoFreedBufferIsRead ==
  ASSUME Settled = Clients, Leavers = {}
  PROVE  Spec => []BufferAlive
<1>1. LockInv => BufferAlive
  BY DEF LockInv, BufferAlive, BufferInPlace, TypeOK
<1> QED
  BY LockInvCorrect, <1>1, PTL

-----------------------------------------------------------------------------
(* The size of the pixels, while no client comes or goes *)

\* A client that has not been told the size is about to be, and no pixels are sent to it
\* until it is.
SizeOf(c) ==
  /\ useNewFBSize[c]
  /\ \/ size[c] = frameBuffer
     \/ newFBSizePending[c]
     \/ pc = "unlock" /\ c \in todo
  /\ outPc[c] \in {"take", "read", "pixels"} => size[c] = frameBuffer
SizesInv == LockInv /\ \A c \in Clients : SizeOf(c)

LEMMA MainSizes ==
  ASSUME SizesInv, NewImage \/ MainStep, NEW c \in Clients
  PROVE  SizeOf(c)'
<1> USE DEF SizesInv, SizeOf, clientVars, outVars, regionVars
<1>1. UNCHANGED <<size, useNewFBSize>>
  BY DEF MainStep, NewImage, VisitToLock, LockOut, Swap, VisitToUnlock, FreeOld, CopyImage,
         VisitToMark, ImageDone
<1>2. CASE Swap
  <2>1. c \in todo' /\ pc' = "unlock" /\ UNCHANGED outPc
    BY <1>2 DEF Swap, MainGo, LockInv, AllNormal
  <2>2. todo = {} /\ c # at
    BY <1>2, NoClientAssumption DEF Swap, LockInv, AllNormal, TypeOK
  <2>3. sendMutex[c] = "main"
    BY <1>2, <2>2 DEF Swap, MainGo, LockInv, Holders
  <2>4. ~Sending(c)
    BY <2>3 DEF LockInv, Holders
  <2> QED BY <1>1, <2>1, <2>4 DEF Sending
<1>3. CASE VisitToUnlock
  <2>1. PICK d \in todo : /\ todo' = todo \ {d} /\ outPc' = Signalled(d)
                          /\ newFBSizePending' = [newFBSizePending EXCEPT ![d] = @ \/ useNewFBSize[d]]
    BY <1>3 DEF VisitToUnlock, ScheduleSize
  <2>2. pc = "unlock" /\ pc' = "unlock" /\ UNCHANGED frameBuffer
    BY <1>3 DEF VisitToUnlock, MainGo
  <2>3. outPc'[c] \in {"take", "read", "pixels"} => outPc'[c] = outPc[c]
    BY <2>1 DEF Signalled, LockInv, TypeOK
  <2>4. newFBSizePending'[c] = IF c = d THEN TRUE ELSE newFBSizePending[c]
    BY <2>1 DEF LockInv, TypeOK
  <2> QED BY <1>1, <2>1, <2>2, <2>3, <2>4
<1>4. CASE FreeOld
  <2>1. c \notin todo /\ UNCHANGED <<frameBuffer, outPc, newFBSizePending>>
    BY <1>4 DEF FreeOld, LockInv, AllNormal
  <2> QED BY <1>1, <2>1
<1>5. CASE NewImage \/ VisitToLock \/ LockOut \/ CopyImage \/ ImageDone
  <2>1. UNCHANGED <<frameBuffer, outPc, newFBSizePending>> /\ pc # "unlock"
    BY <1>5 DEF NewImage, VisitToLock, LockOut, CopyImage, ImageDone, MainGo
  <2> QED BY <1>1, <2>1
<1>6. CASE VisitToMark
  <2>1. PICK d \in todo : outPc' = Signalled(d)
    BY <1>6 DEF VisitToMark
  <2>2. outPc'[c] \in {"take", "read", "pixels"} => outPc'[c] = outPc[c]
    BY <2>1 DEF Signalled, LockInv, TypeOK
  <2>3. UNCHANGED <<frameBuffer, newFBSizePending>> /\ pc # "unlock"
    BY <1>6 DEF VisitToMark, MainGo
  <2> QED BY <1>1, <2>2, <2>3
<1> QED BY <1>2, <1>3, <1>4, <1>5, <1>6 DEF MainStep

LEMMA ClientSizes ==
  ASSUME SizesInv, NEW d \in Clients, Talks(d) \/ Sends(d), NEW c \in Clients
  PROVE  SizeOf(c)'
<1> USE DEF SizesInv, SizeOf, mainVars, clientVars, outVars, regionVars
<1>1. UNCHANGED mainVars
  BY DEF Talks, Sends, SetEncodings, UpdateRequest, Look, Test, CopyRegion, StartSend,
         SendSize, TakeRegion, ReadPointer, SendPart, EndSend
<1>2. ~SetEncodings(d)
  BY DEF SetEncodings
<1>3. UNCHANGED useNewFBSize
  BY <1>2 DEF Talks, Sends, UpdateRequest, Look, Test, CopyRegion, StartSend, SendSize,
              TakeRegion, ReadPointer, SendPart, EndSend
<1>4. CASE UpdateRequest(d)
  <2>1. outPc'[c] \in {"take", "read", "pixels"} => outPc'[c] = outPc[c]
    BY <1>4 DEF UpdateRequest, Signalled, LockInv, TypeOK
  <2> QED BY <1>1, <1>3, <1>4, <2>1 DEF UpdateRequest
<1>5. CASE StartSend(d)
  <2>1. UNCHANGED <<size, newFBSizePending>>
    BY <1>5 DEF StartSend
  <2>2. c # d => outPc'[c] = outPc[c]
    BY <1>5 DEF StartSend, OutGo, LockInv, TypeOK
  <2>3. ~(pc = "unlock" /\ d \in todo)
    BY <1>5 DEF StartSend, LockInv, Holders
  <2>4. outPc'[d] = "take" \/ outPc'[d] = "size"
    BY <1>5 DEF StartSend, OutGo, LockInv, TypeOK
  <2>5. outPc'[d] = "take" => ~newFBSizePending[d]
    BY <1>5 DEF StartSend, OutGo, LockInv, TypeOK
  <2> QED BY <1>1, <1>3, <2>1, <2>2, <2>3, <2>4, <2>5
<1>6. CASE SendSize(d)
  <2>1. /\ size' = [size EXCEPT ![d] = frameBuffer] /\ outPc' = [outPc EXCEPT ![d] = "unlock"]
        /\ newFBSizePending' = [newFBSizePending EXCEPT ![d] = FALSE]
    BY <1>6 DEF SendSize, OutGo
  <2>2. CASE c = d
    BY <1>1, <1>3, <2>1, <2>2 DEF LockInv, TypeOK
  <2>3. CASE c # d
    BY <1>1, <1>3, <2>1, <2>3 DEF LockInv, TypeOK
  <2> QED BY <2>2, <2>3
<1>7. CASE \/ Look(d) \/ Test(d) \/ CopyRegion(d) \/ TakeRegion(d) \/ ReadPointer(d)
           \/ SendPart(d) \/ EndSend(d)
  <2>1. UNCHANGED <<size, newFBSizePending>>
    BY <1>7 DEF Look, Test, CopyRegion, TakeRegion, ReadPointer, SendPart, EndSend
  <2>2. outPc'[c] \in {"take", "read", "pixels"} => outPc[c] \in {"take", "read", "pixels"}
    BY <1>7 DEF Look, Test, CopyRegion, TakeRegion, ReadPointer, SendPart, EndSend, OutGo,
                LockInv, TypeOK
  <2> QED BY <1>1, <1>3, <2>1, <2>2
<1> QED BY <1>2, <1>4, <1>5, <1>6, <1>7 DEF Talks, Sends

LEMMA SizeStep ==
  ASSUME Leavers = {}, SizesInv, [Next]_vars
  PROVE  SizesInv'
<1>1. LockInv'
  BY LockStep DEF SizesInv
<1>2. CASE NewImage \/ MainStep
  BY <1>1, <1>2, MainSizes DEF SizesInv
<1>3. CASE \E c \in Clients : InStep(c) \/ ClientStep(c) \/ OutStep(c)
  BY <1>1, <1>3, NormalSteps, ClientSizes DEF SizesInv, LockInv
<1>4. CASE UNCHANGED vars
  BY <1>1, <1>4 DEF vars, mainVars, clientVars, outVars, regionVars, SizesInv, SizeOf
<1> QED BY <1>2, <1>3, <1>4 DEF Next

\* While no client comes or goes, pixels reach a client in the size it was told last: between
\* the exchange of the frame buffer (rfbNewFramebuffer) and rfbSendNewFBSize, which follows
\* a test of another section than the exchange, nothing else is sent.
THEOREM PixelsInKnownSize ==
  ASSUME Settled = Clients, Leavers = {}
  PROVE  Spec => []SizeKnown
<1>1. Init => SizesInv
  <2>1. Init => LockInv
    BY InitLock
  <2> QED BY <2>1 DEF SizesInv, SizeOf, Init
<1>2. SizesInv /\ [Next]_vars => SizesInv'
  BY SizeStep
<1>3. SizesInv => SizeKnown
  BY DEF SizesInv, SizeOf, SizeKnown
<1> QED BY <1>1, <1>2, <1>3, PTL DEF Spec

-----------------------------------------------------------------------------
(* The refinement *)

LEMMA SharingInit == Init => Sharing!Init
BY BoundsAssumption DEF Init, Sharing!Init, picture, NoPicture

LEMMA MainShares ==
  ASSUME LockInv, NewImage \/ MainStep
  PROVE  [Sharing!Next]_<<picture, shown>>
<1> USE DEF mainVars, outVars
<1>1. CASE Swap
  <2>1. frameBuffer + 1 \in 0..MaxSwaps
    BY <1>1, BoundsAssumption DEF Swap, MainGo, LockInv, Bounded, TypeOK
  <2> QED
    BY <1>1, <2>1 DEF Swap, picture, LockInv, TypeOK, Sharing!Next, Sharing!Change
<1>2. CASE CopyImage
  BY <1>2 DEF CopyImage, picture, LockInv, TypeOK, Sharing!Next, Sharing!Change
<1>3. CASE FreeOld
  BY <1>3, BoundsAssumption DEF FreeOld, picture, LockInv, TypeOK
<1>4. CASE NewImage \/ VisitToLock \/ LockOut \/ VisitToUnlock \/ VisitToMark \/ ImageDone
  BY <1>4 DEF NewImage, VisitToLock, LockOut, VisitToUnlock, VisitToMark, ImageDone,
              picture
<1> QED
  BY <1>1, <1>2, <1>3, <1>4 DEF MainStep

LEMMA ClientShares ==
  ASSUME LockInv, NEW c \in Clients, Talks(c) \/ Sends(c)
  PROVE  [Sharing!Next]_<<picture, shown>>
<1>1. picture' = picture
  BY DEF Talks, Sends, SetEncodings, UpdateRequest, Look, Test, CopyRegion, StartSend,
         SendSize, TakeRegion, ReadPointer, SendPart, EndSend, mainVars, picture
<1>2. CASE SendPart(c)
  <2>1. PICK p \in sending[c] : shown' = [shown EXCEPT ![c][p] = contents[buf[c]]]
    BY <1>2 DEF SendPart
  <2>2. p \in Parts
    BY DEF LockInv, TypeOK
  <2>3. contents[buf[c]] = picture
    BY <1>2 DEF SendPart, OutGo, LockInv, BufferInPlace, picture
  <2>4. picture \in 1..picture /\ picture >= shown[c][p]
    BY <2>2 DEF LockInv, ShownBefore, TypeOK, picture, NoPicture
  <2>5. Sharing!Deliver(c, p)
    BY <1>1, <2>1, <2>3, <2>4 DEF Sharing!Deliver
  <2> QED
    BY <2>2, <2>5 DEF Sharing!Next
<1>3. CASE ~SendPart(c)
  <2>1. shown' = shown
    BY <1>3 DEF Talks, Sends, SetEncodings, UpdateRequest, Look, Test, CopyRegion,
                StartSend, SendSize, TakeRegion, ReadPointer, EndSend, outVars
  <2> QED
    BY <1>1, <2>1
<1> QED
  BY <1>2, <1>3

\* While no client comes or goes, the updates implement ScreenSharing: the parts a client
\* shows are of pictures the screen has had, in their order.
THEOREM UpdatesShareTheScreen ==
  ASSUME Settled = Clients, Leavers = {}
  PROVE  Spec => SharesScreen
<1>1. LockInv /\ [Next]_vars => [Sharing!Next]_<<picture, shown>>
  <2> SUFFICES ASSUME LockInv, [Next]_vars
               PROVE  [Sharing!Next]_<<picture, shown>>
    OBVIOUS
  <2>1. CASE NewImage \/ MainStep
    BY <2>1, MainShares
  <2>2. CASE \E c \in Clients : InStep(c) \/ ClientStep(c) \/ OutStep(c)
    BY <2>2, NormalSteps, ClientShares DEF LockInv
  <2>3. CASE UNCHANGED vars
    BY <2>3 DEF vars, mainVars, outVars, picture
  <2> QED
    BY <2>1, <2>2, <2>3 DEF Next
<1> QED
  BY LockInvCorrect, SharingInit, <1>1, PTL DEF Spec, SharesScreen, Sharing!Spec
=============================================================================
