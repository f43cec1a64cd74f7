-------------------------- MODULE RemoteSession_proofs --------------------------
(***************************************************************************)
(* Proofs about RemoteSession, for any clients, keys, versions and bounds: *)
(* swipes are counted, contexts belong to clients that are there, and the  *)
(* service follows what each user does, but for the events that the code   *)
(* is stated to lose.                                                      *)
(*                                                                         *)
(* The contexts of a client are a set of at most one; the invariants speak *)
(* of all its members, and ContextIs says which one Context is.            *)
(***************************************************************************)
EXTENDS RemoteSession, TLAPS

ContextType ==
  [down : BOOLEAN, keys : SUBSET Keys, completed : BOOLEAN, swipes : Nat]
Places == {"idle", "passed", "hook", "service", "dispatch"}

InputTypeOK ==
  /\ instance \in BOOLEAN /\ isEnabled \in BOOLEAN
  /\ contexts \in [Clients -> {{}} \cup {{x} : x \in ContextType}]
  /\ pointerClient \in Clients \cup {Nobody}
  /\ handling \in [Clients -> Places]
  /\ mask \in [Clients -> Masks]
  /\ announced \subseteq Clients
  /\ user \in [Clients -> [down : BOOLEAN, keys : SUBSET Keys]]
  /\ strokes \in [Clients -> Nat] /\ drags \in [Clients -> Nat]
  /\ missed \subseteq Clients /\ crowded \subseteq Clients
  /\ state = [c \in Clients |-> state[c]]

\* A client that has not connected yet has left no trace.
NewClients ==
  \A c \in Clients : state[c] = "absent" =>
    /\ c \notin announced
    /\ user[c] = [down |-> FALSE, keys |-> {}]
    /\ strokes[c] = 0 /\ drags[c] = 0
\* Events are those of clients that are announced.
HandledAnnounced == \A c \in Clients : handling[c] # "idle" => c \in announced
ContextAnnounced == \A c \in Clients : HasContext(c) => c \in announced

SwipesOf(c) ==
  \A x \in contexts[c] :
    /\ x.swipes = IF x.completed \/ handling[c] = "dispatch" THEN 0 ELSE 1
    /\ handling[c] = "dispatch" => ~x.completed
Swipes == \A c \in Clients : instance => SwipesOf(c)

SessionInv == InputTypeOK /\ NewClients /\ HandledAnnounced /\ ContextAnnounced /\ Swipes

-----------------------------------------------------------------------------
\* The one context of a client that has one.
LEMMA ContextIs ==
  ASSUME InputTypeOK, NEW c \in Clients, HasContext(c)
  PROVE  Context(c) \in ContextType /\ contexts[c] = {Context(c)}
<1>1. PICK x \in ContextType : contexts[c] = {x}
  BY DEF InputTypeOK, HasContext
<1>2. Context(c) = x
  BY <1>1 DEF Context
<1> QED BY <1>1, <1>2

\* Neither side of the handshake makes a client one that has not connected.
LEMMA HandshakeStates ==
  ASSUME state = [c \in Clients |-> state[c]],
         NEW c \in Clients, H!ServerStep(c) \/ H!ClientStep(c) \/ H!Leave(c)
  PROVE  /\ state' = [d \in Clients |-> state'[d]]
         /\ \A d \in Clients : state'[d] = "absent" => state[d] = "absent"
<1> DEFINE Kept == /\ state' = [d \in Clients |-> state'[d]]
                   /\ \A d \in Clients : state'[d] = "absent" => state[d] = "absent"
<1> SUFFICES Kept OBVIOUS
<1>1. ASSUME NEW s, s # "absent", H!Goto(c, s) PROVE Kept
  BY <1>1 DEF H!Goto
<1>2. ASSUME NEW shared, state' = H!Initialised(c, shared) PROVE Kept
  BY <1>2 DEF H!Initialised
<1>3. CASE H!ProtocolVersion(c)
  BY <1>3, <1>1 DEF H!ProtocolVersion
<1>10. CASE H!RegisterType(c)
  BY <1>10, <1>1 DEF H!RegisterType
<1>11. CASE H!SendTypeList(c)
  BY <1>11, <1>1 DEF H!SendTypeList
<1>4. CASE H!SecurityType(c)
  <2>1. \/ H!Goto(c, "shutdown") \/ H!Goto(c, "authentication")
        \/ H!AuthNone(c) \/ H!SecTypeTight(c)
    BY <1>4 DEF H!SecurityType
  <2>2. CASE H!AuthNone(c)
    <3>1. state' = H!Initialised(c, TRUE) \/ H!Goto(c, "init")
      BY <2>2, Zenon DEF H!AuthNone
    <3> QED BY <3>1, <1>1, <1>2
  <2>3. CASE H!SecTypeTight(c)
    <3>1. H!Goto(c, "tightType") \/ H!Goto(c, "init")
      BY <2>3 DEF H!SecTypeTight
    <3> QED BY <3>1, <1>1
  <2> QED BY <2>1, <2>2, <2>3, <1>1
<1>5. CASE H!AuthType(c)
  BY <1>5, <1>1 DEF H!AuthType
<1>6. CASE H!AuthMessage(c)
  <2>1. H!Goto(c, "init") \/ H!Goto(c, "shutdown")
    BY <1>6 DEF H!AuthMessage
  <2> QED BY <2>1, <1>1
<1>7. CASE H!InitMessage(c)
  BY <1>7, <1>2 DEF H!InitMessage
<1>8. CASE H!ClientGone(c)
  BY <1>8, <1>1 DEF H!ClientGone
<1>9. CASE H!ClientStep(c) \/ H!Leave(c)
  <2>1. UNCHANGED state
    BY <1>9, Zenon DEF H!ClientStep, H!Leave, H!ReadVersion, H!ReadType, H!ReadTypes, H!ReadTunnelCaps,
           H!ReadAuthCaps, H!ReadChallenge, H!ReadResult, H!ReadReason, H!ReadServerInit,
           H!ReadCaps, H!ServerClosed, H!serverVars
  <2> QED BY <2>1
<1> QED BY <1>3, <1>10, <1>11, <1>4, <1>5, <1>6, <1>7, <1>8, <1>9 DEF H!ServerStep

-----------------------------------------------------------------------------
(* Each action keeps SessionInv *)

LEMMA AddKeeps ==
  ASSUME SessionInv, NEW c \in Clients, state[c] = "absent", AddClient(c),
         state' = [state EXCEPT ![c] = "version"]
  PROVE  SessionInv'
<1> USE DEF SessionInv, AddClient, serviceVars
<1>1. Fresh \in ContextType
  BY DEF Fresh, ContextType
<1>2. InputTypeOK'
  BY <1>1 DEF InputTypeOK
<1>3. NewClients'
  BY DEF InputTypeOK, NewClients
<1>4. HandledAnnounced' /\ ContextAnnounced'
  BY DEF InputTypeOK, HandledAnnounced, ContextAnnounced, HasContext
<1>5. Swipes'
  <2>1. handling[c] = "idle"
    BY DEF InputTypeOK, NewClients, HandledAnnounced
  <2> SUFFICES ASSUME NEW d \in Clients, instance' PROVE SwipesOf(d)'
    BY DEF Swipes
  <2>2. CASE d = c
    BY <2>1, <2>2 DEF InputTypeOK, SwipesOf, Fresh
  <2>3. CASE d # c
    BY <2>3 DEF InputTypeOK, Swipes, SwipesOf
  <2> QED BY <2>2, <2>3
<1> QED BY <1>2, <1>3, <1>4, <1>5

LEMMA RemoveKeeps ==
  ASSUME SessionInv, NEW c \in Clients, state[c] = "shutdown", RemoveClient(c),
         state' = state
  PROVE  SessionInv'
<1> USE DEF SessionInv, RemoveClient, serviceVars, userVars
<1>1. InputTypeOK'
  BY DEF InputTypeOK
<1>2. NewClients' /\ HandledAnnounced' /\ ContextAnnounced'
  BY DEF InputTypeOK, NewClients, HandledAnnounced, ContextAnnounced, HasContext
<1>3. Swipes'
  BY DEF InputTypeOK, Swipes, SwipesOf
<1> QED BY <1>1, <1>2, <1>3

LEMMA SwitchKeeps ==
  ASSUME SessionInv, ServiceSwitch, state' = state
  PROVE  SessionInv'
<1> USE DEF SessionInv, contextVars, userVars
<1>1. CASE OnServiceConnected
  BY <1>1 DEF OnServiceConnected, NewContexts, InputTypeOK, NewClients, HandledAnnounced,
              ContextAnnounced, HasContext, Swipes, SwipesOf
<1>2. CASE OnDestroy
  BY <1>2 DEF OnDestroy, InputTypeOK, NewClients, HandledAnnounced,
              ContextAnnounced, HasContext, Swipes
<1>3. CASE SetEnabled
  BY <1>3 DEF SetEnabled, InputTypeOK, NewClients, HandledAnnounced,
              ContextAnnounced, HasContext, Swipes, SwipesOf
<1> QED BY <1>1, <1>2, <1>3 DEF ServiceSwitch

LEMMA PointerKeeps ==
  ASSUME SessionInv, NEW c \in Clients, NEW m \in Masks, PointerEvent(c, m), state' = state
  PROVE  SessionInv'
<1> USE DEF SessionInv, PointerEvent, serviceVars, contextVars
<1>1. PICK b \in BOOLEAN : user' = [user EXCEPT ![c].down = b]
  <2>1. ("one" \in m) \in BOOLEAN
    OBVIOUS
  <2> QED BY <2>1, Zenon DEF Pressing
<1>2. drags' \in [Clients -> Nat] /\ \A d \in Clients : d # c => drags'[d] = drags[d]
  BY DEF InputTypeOK, Pressing
<1>3. user' \in [Clients -> [down : BOOLEAN, keys : SUBSET Keys]]
  BY <1>1 DEF InputTypeOK
<1>4. InputTypeOK'
  BY <1>2, <1>3 DEF InputTypeOK, Places
<1>5. NewClients' /\ HandledAnnounced' /\ ContextAnnounced'
  BY <1>1, <1>2 DEF InputTypeOK, NewClients, HandledAnnounced, ContextAnnounced, HasContext
<1>6. Swipes'
  BY DEF InputTypeOK, Swipes, SwipesOf
<1> QED BY <1>4, <1>5, <1>6

LEMMA TakeKeeps ==
  ASSUME SessionInv, NEW c \in Clients, TakePointer(c), state' = state
  PROVE  SessionInv'
BY DEF SessionInv, TakePointer, serviceVars, contextVars, userVars, InputTypeOK, Places,
       NewClients, HandledAnnounced, ContextAnnounced, HasContext, Swipes, SwipesOf

LEMMA HookKeeps ==
  ASSUME SessionInv, NEW c \in Clients, Hook(c), state' = state
  PROVE  SessionInv'
BY DEF SessionInv, Hook, ClearPointer, serviceVars, contextVars, userVars, InputTypeOK, Places,
       NewClients, HandledAnnounced, ContextAnnounced, HasContext, Swipes, SwipesOf

LEMMA KeyKeeps ==
  ASSUME SessionInv, NEW c \in Clients, NEW key \in Keys, NEW down \in BOOLEAN,
         KeyEvent(c, key, down), state' = state
  PROVE  SessionInv'
<1> USE DEF SessionInv, KeyEvent, serviceVars, SetContext
<1>1. CASE Reached(c)
  <2> DEFINE x == Context(c)
             y == [x EXCEPT !.keys = IF down THEN @ \cup {key} ELSE @ \ {key}]
  <2>1. x \in ContextType /\ contexts[c] = {x}
    BY <1>1, ContextIs DEF Reached
  <2>2. /\ y \in ContextType /\ y.down = x.down /\ y.completed = x.completed
        /\ y.swipes = x.swipes
    BY <2>1 DEF ContextType
  <2>3. contexts' = [contexts EXCEPT ![c] = {y}] /\ missed' = missed
    BY <1>1
  <2> HIDE DEF x, y
  <2>4. InputTypeOK'
    BY <2>2, <2>3 DEF InputTypeOK
  <2>5. NewClients' /\ HandledAnnounced' /\ ContextAnnounced'
    BY <2>3 DEF InputTypeOK, NewClients, HandledAnnounced, ContextAnnounced, HasContext
  <2>6. Swipes'
    BY <2>1, <2>2, <2>3 DEF InputTypeOK, Swipes, SwipesOf
  <2> QED BY <2>4, <2>5, <2>6
<1>2. CASE ~Reached(c)
  BY <1>2 DEF InputTypeOK, NewClients, HandledAnnounced, ContextAnnounced, HasContext,
              Swipes, SwipesOf
<1> QED BY <1>1, <1>2

LEMMA DispatchKeeps ==
  ASSUME SessionInv, NEW c \in Clients, Dispatch(c), state' = state
  PROVE  SessionInv'
<1> USE DEF SessionInv, Dispatch, serviceVars, userVars, SetContext
<1>1. CASE HasContext(c)
  <2> DEFINE x == Context(c)
             y == [x EXCEPT !.swipes = @ + 1]
  <2>1. x \in ContextType /\ contexts[c] = {x}
    BY <1>1, ContextIs
  <2>2. y \in ContextType /\ y.completed = x.completed /\ y.swipes = x.swipes + 1
    BY <2>1 DEF ContextType
  <2>3. contexts' = [contexts EXCEPT ![c] = {y}]
    BY <1>1
  <2>4. x.swipes = 0 /\ ~x.completed
    BY <1>1, <2>1 DEF HasContext, Swipes, SwipesOf
  <2> HIDE DEF x, y
  <2>5. InputTypeOK'
    BY <2>2, <2>3 DEF InputTypeOK, Places
  <2>6. NewClients' /\ HandledAnnounced' /\ ContextAnnounced'
    BY <2>3 DEF InputTypeOK, NewClients, HandledAnnounced, ContextAnnounced, HasContext
  <2>7. Swipes'
    BY <2>2, <2>3, <2>4 DEF InputTypeOK, Swipes, SwipesOf
  <2> QED BY <2>5, <2>6, <2>7
<1>2. CASE ~HasContext(c)
  BY <1>2 DEF InputTypeOK, Places, NewClients, HandledAnnounced, ContextAnnounced, HasContext,
              Swipes, SwipesOf
<1> QED BY <1>1, <1>2

\* A swipe that ends was the one under way.
LEMMA EndedIs ==
  ASSUME NEW x \in ContextType, x.swipes = 1, NEW cancelled
  PROVE  /\ Ended(x, cancelled) \in ContextType
         /\ Ended(x, cancelled).swipes = 0 /\ Ended(x, cancelled).completed
         /\ Ended(x, cancelled).down = x.down /\ Ended(x, cancelled).keys = x.keys
<1> DEFINE y == [x EXCEPT !.swipes = 0, !.completed = TRUE]
<1>1. /\ y \in ContextType /\ y.swipes = 0 /\ y.completed = TRUE
      /\ y.down = x.down /\ y.keys = x.keys
  BY DEF ContextType
<1>2. x.swipes - 1 = 0
  OBVIOUS
<1>3. Ended(x, cancelled) = y
  BY <1>2, Zenon DEF Ended
<1> HIDE DEF y
<1> QED BY <1>1, <1>3, Zenon

LEMMA EndKeeps ==
  ASSUME SessionInv, NEW c \in Clients, OnGestureEnd(c), state' = state
  PROVE  SessionInv'
<1> USE DEF SessionInv
<1> DEFINE x == Context(c)
<1>1. HasContext(c) /\ x.swipes > 0 /\ x \in ContextType /\ contexts[c] = {x}
  BY ContextIs DEF OnGestureEnd
<1>2. x.swipes = 1 /\ handling[c] # "dispatch"
  BY <1>1 DEF HasContext, Swipes, SwipesOf
<1> HIDE DEF x
<1>3. PICK y \in ContextType :
        y.swipes = 0 /\ y.completed /\ contexts' = [contexts EXCEPT ![c] = {y}]
  <2>1. PICK cancelled \in BOOLEAN : contexts' = [contexts EXCEPT ![c] = {Ended(x, cancelled)}]
    BY DEF OnGestureEnd, SetContext, x
  <2> QED BY <1>1, <1>2, <2>1, EndedIs
<1>4. UNCHANGED <<instance, isEnabled, strokes, pointerClient, handling, mask, announced, user,
                  drags, missed, crowded>>
  BY DEF OnGestureEnd, serviceVars, userVars
<1>5. InputTypeOK'
  BY <1>3, <1>4 DEF InputTypeOK
<1>6. NewClients' /\ HandledAnnounced' /\ ContextAnnounced'
  BY <1>1, <1>3, <1>4 DEF InputTypeOK, NewClients, HandledAnnounced, ContextAnnounced, HasContext
<1>7. Swipes'
  <2> SUFFICES ASSUME NEW d \in Clients, instance' PROVE SwipesOf(d)'
    BY DEF Swipes
  <2>1. CASE d = c
    BY <1>2, <1>3, <1>4, <2>1 DEF InputTypeOK, SwipesOf
  <2>2. CASE d # c
    BY <1>3, <1>4, <2>2 DEF InputTypeOK, Swipes, SwipesOf
  <2> QED BY <2>1, <2>2
<1> QED BY <1>5, <1>6, <1>7

LEMMA DeliverKeeps ==
  ASSUME SessionInv, NEW c \in Clients, Deliver(c), state' = state
  PROVE  SessionInv'
<1> USE DEF SessionInv, Deliver, serviceVars
<1>1. CASE Reached(c)
  <2> DEFINE x == Context(c)
             swipe == "scroll" \in mask[c] /\ x.completed
  <2>1. x \in ContextType /\ contexts[c] = {x} /\ instance
    BY <1>1, ContextIs DEF Reached, HasContext
  <2>2. PICK y \in ContextType :
          /\ contexts' = [contexts EXCEPT ![c] = {y}]
          /\ y.swipes = x.swipes /\ y.completed = (x.completed /\ ~swipe)
    <3>1. PICK b \in BOOLEAN : b = ("one" \in mask[c])
      <4>1. ("one" \in mask[c]) \in BOOLEAN
        OBVIOUS
      <4> QED BY <4>1, Zenon
    <3> DEFINE z == [x EXCEPT !.down = b]
    <3>2. z \in ContextType /\ z.swipes = x.swipes /\ z.completed = x.completed
      BY <2>1 DEF ContextType
    <3>3. CASE swipe
      <4>1. contexts' = [contexts EXCEPT ![c] = {Scrolling(z)}]
        BY <1>1, <3>1, <3>3 DEF SetContext
      <4>2. /\ Scrolling(z) \in ContextType /\ Scrolling(z).swipes = z.swipes
            /\ Scrolling(z).completed = FALSE
        BY <3>2 DEF ContextType, Scrolling
      <4> QED BY <3>2, <3>3, <4>1, <4>2
    <3>4. CASE ~swipe
      <4>1. contexts' = [contexts EXCEPT ![c] = {z}]
        BY <1>1, <3>1, <3>4 DEF SetContext
      <4> QED BY <3>2, <3>4, <4>1, <2>1 DEF ContextType
    <3> QED BY <3>3, <3>4
  <2>3. /\ strokes' \in [Clients -> Nat]
        /\ \A d \in Clients : d # c => strokes'[d] = strokes[d]
    BY <1>1 DEF InputTypeOK
  <2>4. handling' = [handling EXCEPT ![c] = IF swipe THEN "dispatch" ELSE "idle"]
    BY <1>1
  <2>5. x.swipes = IF x.completed THEN 0 ELSE 1
    BY <2>1 DEF Swipes, SwipesOf
  <2>6. InputTypeOK'
    BY <1>1, <2>2, <2>3, <2>4 DEF InputTypeOK, Places
  <2>7. NewClients' /\ HandledAnnounced' /\ ContextAnnounced'
    BY <1>1, <2>2, <2>3, <2>4
       DEF InputTypeOK, NewClients, HandledAnnounced, ContextAnnounced, HasContext
  <2>8. Swipes'
    BY <2>1, <2>2, <2>4, <2>5 DEF InputTypeOK, Swipes, SwipesOf, ContextType
  <2> QED BY <2>6, <2>7, <2>8
<1>2. CASE ~Reached(c)
  <2>1. /\ UNCHANGED contextVars /\ missed' = missed \cup {c}
        /\ handling' = [handling EXCEPT ![c] = "idle"]
    BY <1>2
  <2>2. InputTypeOK'
    BY <2>1 DEF contextVars, InputTypeOK, Places
  <2>3. NewClients' /\ HandledAnnounced' /\ ContextAnnounced'
    BY <2>1 DEF contextVars, InputTypeOK, NewClients, HandledAnnounced, ContextAnnounced, HasContext
  <2>4. Swipes'
    BY <2>1 DEF contextVars, InputTypeOK, Swipes, SwipesOf
  <2> QED BY <2>2, <2>3, <2>4
<1> QED BY <1>1, <1>2

-----------------------------------------------------------------------------
LEMMA SessionInvInit == Init => SessionInv
<1> SUFFICES ASSUME InputInit, state = [c \in Clients |-> "absent"] PROVE SessionInv
  BY DEF Init, H!HandshakeInit
<1>1. InputTypeOK
  BY DEF InputInit, InputTypeOK, Places, Masks
<1>2. NewClients /\ HandledAnnounced /\ ContextAnnounced
  BY DEF InputInit, NewClients, HandledAnnounced, ContextAnnounced, HasContext
<1>3. Swipes
  BY DEF InputInit, Swipes, SwipesOf
<1> QED BY <1>1, <1>2, <1>3 DEF SessionInv

\* The steps of the handshake leave the input service alone.
LEMMA QuietKeeps ==
  ASSUME SessionInv, UNCHANGED inputVars,
         state' = [d \in Clients |-> state'[d]],
         \A d \in Clients : state'[d] = "absent" => state[d] = "absent"
  PROVE  SessionInv'
BY DEF SessionInv, inputVars, serviceVars, contextVars, userVars, InputTypeOK, NewClients,
       HandledAnnounced, ContextAnnounced, HasContext, Swipes, SwipesOf

LEMMA SessionInvNext == SessionInv /\ [Next]_vars => SessionInv'
<1> SUFFICES ASSUME SessionInv, [Next]_vars PROVE SessionInv'
  OBVIOUS
<1>1. ASSUME NEW c \in Clients, Connected(c) PROVE SessionInv'
  BY <1>1, AddKeeps DEF Connected, H!Connect, H!Goto
<1>2. ASSUME NEW c \in Clients, Negotiates(c) \/ PeerStep(c) PROVE SessionInv'
  <2>1. UNCHANGED inputVars /\ (H!ServerStep(c) \/ H!ClientStep(c) \/ H!Leave(c))
    BY <1>2 DEF Negotiates, PeerStep
  <2> QED BY <2>1, HandshakeStates, QuietKeeps DEF SessionInv, InputTypeOK
<1>3. ASSUME NEW c \in Clients, Controls(c) PROVE SessionInv'
  <2>1. state' = state
    BY <1>3 DEF Controls, handshakeVars
  <2> QED BY <1>3, <2>1, PointerKeeps, KeyKeeps, TakeKeeps, HookKeeps, DeliverKeeps, DispatchKeeps, EndKeeps
          DEF Controls, UserEvent, InputStep
<1>4. ASSUME NEW c \in Clients, Disconnected(c) PROVE SessionInv'
  BY <1>4, RemoveKeeps DEF Disconnected, handshakeVars
<1>5. CASE Switched
  BY <1>5, SwitchKeeps DEF Switched, handshakeVars
<1>6. CASE UNCHANGED vars
  BY <1>6, QuietKeeps DEF vars, handshakeVars, SessionInv, InputTypeOK
<1> QED BY <1>1, <1>2, <1>3, <1>4, <1>5, <1>6 DEF Next

\* Whatever clients, service and main thread do, the contexts of the input service are well
\* formed and their count of swipes is that of the gestures under way.
THEOREM SessionInvariant == Spec => []SessionInv
<1> QED BY SessionInvInit, SessionInvNext, PTL DEF Spec

\* mCompleted tells whether a swipe is under way, for any number of clients (InputService
\* onPointerEvent, scroll and the gesture callbacks).
THEOREM SwipesCounted == Spec => []ScrollsCounted
<1>1. SessionInv => ScrollsCounted
  BY ContextIs DEF SessionInv, Swipes, SwipesOf, HasContext, ScrollsCounted
<1> QED BY <1>1, SessionInvariant, PTL

\* The map of contexts never holds one of a client that is not there (InputService addClient,
\* removeClient), however often the service is destroyed and connected again.
THEOREM ContextsBelong == Spec => []ContextsOfClients
<1>1. SessionInv => ContextsOfClients
  BY DEF SessionInv, ContextAnnounced, ContextsOfClients
<1> QED BY <1>1, SessionInvariant, PTL

-----------------------------------------------------------------------------
(***************************************************************************)
(* The pointer's client is in the hook, so an event is turned away only    *)
(* when another one is there.  A client that none was turned away of has   *)
(* in the service what its user did, but for the event that is under way.  *)
(* Of any client, no more strokes are dispatched than its user drew: that  *)
(* there is one more to come, which Bounded counts, needs the button down  *)
(* in the service and up with the user.                                    *)
(***************************************************************************)
PointerInHook == \A c \in Clients : pointerClient = c => handling[c] = "hook"

UnderWay(c) == handling[c] \in {"passed", "hook", "service"}
\* An event that is under way is the last thing that the user did.
LastOf(c) == UnderWay(c) => (user[c].down <=> "one" \in mask[c])
PointerFollowed(c, x) ==
  /\ ~UnderWay(c) => (x.down <=> user[c].down) /\ strokes[c] = drags[c]
  /\ UnderWay(c) => drags[c] = strokes[c] + IF x.down /\ "one" \notin mask[c] THEN 1 ELSE 0
FollowsOf(c) ==
  /\ HasContext(c)
  /\ \A x \in contexts[c] :
       x.keys = user[c].keys /\ (c \notin crowded => PointerFollowed(c, x))
BoundedOf(c) ==
  /\ strokes[c] <= drags[c]
  /\ \A x \in contexts[c] :
       strokes[c] + (IF x.down /\ ~user[c].down THEN 1 ELSE 0) <= drags[c]
Tracked(c) == LastOf(c) /\ BoundedOf(c) /\ (c \in announced \ missed => FollowsOf(c))
Follows == \A c \in Clients : Tracked(c)

FollowInv == SessionInv /\ PointerInHook /\ Follows

\* What a step does to one client is nothing to the others.
LEMMA FollowsFrame ==
  ASSUME NEW d \in Clients, Tracked(d), instance' = instance, contexts'[d] = contexts[d],
         user'[d] = user[d], handling'[d] = handling[d], mask'[d] = mask[d],
         strokes'[d] = strokes[d], drags'[d] = drags[d],
         d \in crowded => d \in crowded',
         d \in (announced \ missed)' => d \in announced \ missed
  PROVE  Tracked(d)'
BY DEF Tracked, LastOf, BoundedOf, FollowsOf, PointerFollowed, UnderWay, HasContext

LEMMA AddFollows ==
  ASSUME FollowInv, NEW c \in Clients, state[c] = "absent", AddClient(c)
  PROVE  (PointerInHook /\ Follows)'
<1> USE DEF FollowInv, SessionInv, AddClient, serviceVars
<1>1. PointerInHook'
  BY DEF PointerInHook
<1>2. ASSUME NEW d \in Clients PROVE Tracked(d)'
  <2>1. CASE d = c
    <3>1. handling'[d] = "idle" /\ user'[d] = [down |-> FALSE, keys |-> {}]
          /\ strokes'[d] = 0 /\ drags'[d] = 0
      BY <2>1 DEF InputTypeOK, NewClients, HandledAnnounced
    <3>2. Fresh.down = FALSE /\ Fresh.keys = {}
      BY DEF Fresh
    <3>3. CASE instance
      <4>1. contexts'[d] = {Fresh} /\ instance'
        BY <2>1, <3>3 DEF InputTypeOK
      <4> QED BY <3>1, <3>2, <4>1
              DEF Tracked, LastOf, BoundedOf, FollowsOf, PointerFollowed, UnderWay, HasContext
    <3>4. CASE ~instance
      <4>1. contexts'[d] = contexts[d] /\ d \in missed'
        BY <2>1, <3>4
      <4>2. BoundedOf(d)
        BY DEF Follows, Tracked
      <4> QED BY <2>1, <3>1, <4>1, <4>2 DEF NewClients, Tracked, LastOf, BoundedOf, UnderWay
    <3> QED BY <3>3, <3>4
  <2>2. CASE d # c
    <3>1. Tracked(d) /\ contexts'[d] = contexts[d]
      BY <2>2 DEF InputTypeOK, Follows
    <3> QED BY <2>2, <3>1, FollowsFrame
  <2> QED BY <2>1, <2>2
<1> QED BY <1>1, <1>2 DEF Follows

LEMMA RemoveFollows ==
  ASSUME FollowInv, NEW c \in Clients, RemoveClient(c)
  PROVE  (PointerInHook /\ Follows)'
<1> USE DEF FollowInv, SessionInv, RemoveClient, serviceVars, userVars
<1>1. PointerInHook'
  BY InputAssumption DEF PointerInHook
<1>2. ASSUME NEW d \in Clients PROVE Tracked(d)'
  <2>1. Tracked(d)
    BY DEF Follows
  <2>2. CASE d = c
    <3>1. contexts'[d] \subseteq contexts[d]
      BY <2>2 DEF InputTypeOK
    <3> QED BY <2>1, <2>2, <3>1 DEF Tracked, LastOf, BoundedOf, UnderWay
  <2>3. CASE d # c
    <3>1. contexts'[d] = contexts[d]
      BY <2>3 DEF InputTypeOK
    <3> QED BY <2>1, <3>1, FollowsFrame
  <2> QED BY <2>2, <2>3
<1> QED BY <1>1, <1>2 DEF Follows

LEMMA SwitchFollows ==
  ASSUME FollowInv, ServiceSwitch
  PROVE  (PointerInHook /\ Follows)'
<1> USE DEF FollowInv, SessionInv, contextVars, userVars
<1>1. CASE OnServiceConnected
  BY <1>1 DEF OnServiceConnected, NewContexts, PointerInHook, Follows, Tracked, LastOf, BoundedOf,
              UnderWay
<1>2. CASE OnDestroy
  BY <1>2 DEF OnDestroy, PointerInHook, Follows, Tracked, LastOf, BoundedOf, UnderWay
<1>3. CASE SetEnabled
  <2>1. PointerInHook'
    BY <1>3 DEF SetEnabled, PointerInHook
  <2>2. ASSUME NEW d \in Clients PROVE Tracked(d)'
    BY <1>3, FollowsFrame DEF SetEnabled, Follows
  <2> QED BY <2>1, <2>2 DEF Follows
<1> QED BY <1>1, <1>2, <1>3 DEF ServiceSwitch

\* An event passes the test, or another client, which is in the hook, is the pointer's.
LEMMA PointerFollows ==
  ASSUME FollowInv, NEW c \in Clients, NEW m \in Masks, PointerEvent(c, m)
  PROVE  (PointerInHook /\ Follows)'
<1> USE DEF FollowInv, SessionInv, PointerEvent, serviceVars, contextVars
<1>1. \/ /\ handling' = [handling EXCEPT ![c] = "passed"]
         /\ mask' = [mask EXCEPT ![c] = m]
      \/ UNCHANGED <<handling, mask>> /\ c \in crowded'
  <2>1. CASE pointerClient \in {Nobody, c}
    BY <2>1
  <2>2. CASE pointerClient \notin {Nobody, c}
    BY <2>2 DEF InputTypeOK, PointerInHook
  <2> QED BY <2>1, <2>2
<1>2. \A d \in Clients : d # c => handling'[d] = handling[d] /\ mask'[d] = mask[d]
  BY <1>1 DEF InputTypeOK
<1>3. PICK b \in BOOLEAN : b = ("one" \in m) /\ user' = [user EXCEPT ![c].down = b]
  <2>1. ("one" \in m) \in BOOLEAN
    OBVIOUS
  <2> QED BY <2>1, Zenon DEF Pressing
<1>4. /\ drags'[c] = drags[c] + IF user[c].down /\ "one" \notin m THEN 1 ELSE 0
      /\ \A d \in Clients : d # c => drags'[d] = drags[d]
  BY DEF InputTypeOK, Pressing
<1>5. PointerInHook'
  BY <1>2 DEF InputTypeOK, PointerInHook
<1>6. ASSUME NEW d \in Clients PROVE Tracked(d)'
  <2>1. Tracked(d)
    BY DEF Follows
  <2>2. CASE d = c
    <3>1. user'[d].down = b /\ user'[d].keys = user[d].keys /\ ~UnderWay(d)
      BY <1>3, <2>2 DEF InputTypeOK, UnderWay
    <3>2. \/ UnderWay(d)' /\ mask'[d] = m
          \/ ~UnderWay(d)' /\ d \in crowded'
      BY <1>1, <2>2 DEF InputTypeOK, UnderWay
    <3>3. LastOf(d)'
      BY <1>3, <3>1, <3>2, <2>2, <1>1 DEF LastOf, UnderWay
    <3>4. BoundedOf(d)'
      BY <1>3, <1>4, <2>1, <2>2, <3>1 DEF Tracked, BoundedOf, InputTypeOK
    <3>5. d \in (announced \ missed)' => FollowsOf(d)'
      BY <1>3, <1>4, <2>1, <2>2, <3>1, <3>2
         DEF Tracked, FollowsOf, PointerFollowed, HasContext, InputTypeOK
    <3> QED BY <3>3, <3>4, <3>5 DEF Tracked
  <2>3. CASE d # c
    <3>1. user'[d] = user[d]
      BY <1>3, <2>3 DEF InputTypeOK
    <3> QED BY <1>2, <1>4, <2>1, <2>3, <3>1, FollowsFrame
  <2> QED BY <2>2, <2>3
<1> QED BY <1>5, <1>6 DEF Follows

\* On its way to the service an event stays under way.
LEMMA OnTheWay ==
  ASSUME NEW d \in Clients, Tracked(d), UnderWay(d)' <=> UnderWay(d),
         UNCHANGED <<instance, contexts, user, mask, strokes, drags, crowded, announced, missed>>
  PROVE  Tracked(d)'
BY DEF Tracked, LastOf, BoundedOf, FollowsOf, PointerFollowed, HasContext

LEMMA TakeFollows ==
  ASSUME FollowInv, NEW c \in Clients, TakePointer(c)
  PROVE  (PointerInHook /\ Follows)'
<1> USE DEF FollowInv, SessionInv, TakePointer, serviceVars, contextVars, userVars
<1>1. PointerInHook'
  BY InputAssumption DEF InputTypeOK, PointerInHook
<1>2. ASSUME NEW d \in Clients PROVE Tracked(d)'
  <2>1. Tracked(d) /\ (UnderWay(d)' <=> UnderWay(d))
    BY DEF InputTypeOK, Follows, UnderWay
  <2> QED BY <2>1, OnTheWay
<1> QED BY <1>1, <1>2 DEF Follows

LEMMA HookFollows ==
  ASSUME FollowInv, NEW c \in Clients, Hook(c)
  PROVE  (PointerInHook /\ Follows)'
<1> USE DEF FollowInv, SessionInv, Hook, ClearPointer, serviceVars, contextVars, userVars
<1>1. PointerInHook'
  BY InputAssumption DEF PointerInHook
<1>2. ASSUME NEW d \in Clients PROVE Tracked(d)'
  <2>1. Tracked(d) /\ (UnderWay(d)' <=> UnderWay(d))
    BY DEF InputTypeOK, Follows, UnderWay
  <2> QED BY <2>1, OnTheWay
<1> QED BY <1>1, <1>2 DEF Follows

LEMMA KeyFollows ==
  ASSUME FollowInv, NEW c \in Clients, NEW key \in Keys, NEW down \in BOOLEAN,
         KeyEvent(c, key, down)
  PROVE  (PointerInHook /\ Follows)'
<1> USE DEF FollowInv, SessionInv, KeyEvent, serviceVars
<1>1. PointerInHook'
  BY DEF PointerInHook
<1>2. ASSUME NEW d \in Clients PROVE Tracked(d)'
  <2>1. Tracked(d)
    BY DEF Follows
  <2>2. CASE d = c
    <3> DEFINE Changed(keys) == IF down THEN keys \cup {key} ELSE keys \ {key}
    <3>1. user' = [user EXCEPT ![d].keys = Changed(@)]
      BY <2>2, Zenon
    <3> HIDE DEF Changed
    <3>2. user'[d].keys = Changed(user[d].keys) /\ user'[d].down = user[d].down
      <4>1. PICK k : k = Changed(user[d].keys)
        OBVIOUS
      <4>2. user' = [user EXCEPT ![d].keys = k]
        BY <3>1, <4>1, Zenon
      <4> HIDE DEF KeyEvent
      <4>3. user'[d].keys = k /\ user'[d].down = user[d].down
        BY <4>2 DEF InputTypeOK
      <4> QED BY <4>1, <4>3
    <3>3. /\ UNCHANGED <<instance, handling, mask, strokes, drags, crowded, announced>>
          /\ ~UnderWay(d) /\ ~UnderWay(d)'
      BY <2>2 DEF UnderWay
    <3>4. CASE Reached(d)
      <4> DEFINE x == Context(d)
      <4>1. x \in ContextType /\ contexts[d] = {x} /\ missed' = missed
        BY <2>2, <3>4, ContextIs DEF Reached
      <4>2. contexts' = [contexts EXCEPT ![d] = {[x EXCEPT !.keys = Changed(@)]}]
        BY <2>2, <3>4, Zenon DEF SetContext, Changed
      <4> HIDE DEF x
      <4>3. PICK y : /\ contexts' = [contexts EXCEPT ![d] = {y}]
                     /\ y.keys = Changed(x.keys) /\ y.down = x.down
        <5>1. PICK k : k = Changed(x.keys)
          OBVIOUS
        <5>2. [x EXCEPT !.keys = k].keys = k /\ [x EXCEPT !.keys = k].down = x.down
          BY <4>1 DEF ContextType
        <5> QED BY <4>2, <5>1, <5>2, Zenon
      <4>4. contexts'[d] = {y}
        BY <4>3 DEF InputTypeOK
      <4> HIDE DEF KeyEvent
      <4>5. LastOf(d)' /\ BoundedOf(d)'
        BY <2>1, <3>2, <3>3, <4>1, <4>3, <4>4 DEF Tracked, LastOf, BoundedOf
      <4>6. d \in (announced \ missed)' => FollowsOf(d)'
        BY <2>1, <3>2, <3>3, <4>1, <4>3, <4>4
           DEF Tracked, FollowsOf, PointerFollowed, HasContext
      <4> QED BY <4>5, <4>6 DEF Tracked
    <3>5. CASE ~Reached(d)
      <4>1. d \in missed' /\ contexts' = contexts
        BY <2>2, <3>5
      <4> HIDE DEF KeyEvent
      <4> QED BY <2>1, <3>2, <3>3, <4>1 DEF Tracked, LastOf, BoundedOf
    <3> QED BY <3>4, <3>5
  <2>3. CASE d # c
    <3>1. contexts'[d] = contexts[d] /\ user'[d] = user[d]
      BY <2>3 DEF InputTypeOK, SetContext
    <3> QED BY <2>1, <2>3, <3>1, FollowsFrame
  <2> QED BY <2>2, <2>3
<1> QED BY <1>1, <1>2 DEF Follows

LEMMA DispatchFollows ==
  ASSUME FollowInv, NEW c \in Clients, Dispatch(c)
  PROVE  (PointerInHook /\ Follows)'
<1> USE DEF FollowInv, SessionInv, Dispatch, serviceVars, userVars
<1>1. PointerInHook'
  BY DEF InputTypeOK, PointerInHook
<1>2. ASSUME NEW d \in Clients PROVE Tracked(d)'
  <2>1. Tracked(d)
    BY DEF Follows
  <2>2. CASE d = c
    <3>1. ~UnderWay(d) /\ ~UnderWay(d)'
      BY <2>2 DEF InputTypeOK, UnderWay
    <3>2. CASE HasContext(d)
      <4> DEFINE x == Context(d)
      <4>1. x \in ContextType /\ contexts[d] = {x}
        BY <3>2, ContextIs
      <4>2. contexts' = [contexts EXCEPT ![d] = {[x EXCEPT !.swipes = @ + 1]}]
        BY <2>2, <3>2, Zenon DEF SetContext
      <4> HIDE DEF x
      <4>3. PICK y : /\ contexts' = [contexts EXCEPT ![d] = {y}]
                     /\ y.keys = x.keys /\ y.down = x.down
        <5> DEFINE y == [x EXCEPT !.swipes = @ + 1]
        <5>1. y.keys = x.keys /\ y.down = x.down
          BY <4>1 DEF ContextType
        <5> QED BY <4>2, <5>1, Zenon
      <4>4. contexts'[d] = {y}
        BY <4>3 DEF InputTypeOK
      <4> QED BY <2>1, <3>1, <4>1, <4>3, <4>4
              DEF Tracked, LastOf, BoundedOf, FollowsOf, PointerFollowed, HasContext
    <3>3. CASE ~HasContext(d)
      BY <2>1, <2>2, <3>1, <3>3
         DEF Tracked, LastOf, BoundedOf, FollowsOf, PointerFollowed, HasContext
    <3> QED BY <3>2, <3>3
  <2>3. CASE d # c
    <3>1. contexts'[d] = contexts[d] /\ handling'[d] = handling[d]
      BY <2>3 DEF InputTypeOK, SetContext
    <3> QED BY <2>1, <3>1, FollowsFrame
  <2> QED BY <2>2, <2>3
<1> QED BY <1>1, <1>2 DEF Follows

LEMMA EndFollows ==
  ASSUME FollowInv, NEW c \in Clients, OnGestureEnd(c)
  PROVE  (PointerInHook /\ Follows)'
<1> USE DEF FollowInv, SessionInv, serviceVars, userVars
<1> DEFINE x == Context(c)
<1>1. HasContext(c) /\ x.swipes > 0 /\ x \in ContextType /\ contexts[c] = {x}
  BY ContextIs DEF OnGestureEnd
<1>2. x.swipes = 1
  BY <1>1 DEF HasContext, Swipes, SwipesOf
<1> HIDE DEF x
<1>3. PICK y : y.keys = x.keys /\ y.down = x.down /\ contexts' = [contexts EXCEPT ![c] = {y}]
  <2>1. PICK cancelled \in BOOLEAN : contexts' = [contexts EXCEPT ![c] = {Ended(x, cancelled)}]
    BY DEF OnGestureEnd, SetContext, x
  <2> QED BY <1>1, <1>2, <2>1, EndedIs
<1>4. UNCHANGED <<instance, strokes, pointerClient, handling, mask, announced, user, drags, missed,
                  crowded>>
  BY DEF OnGestureEnd
<1>5. PointerInHook'
  BY <1>4 DEF PointerInHook
<1>6. ASSUME NEW d \in Clients PROVE Tracked(d)'
  <2>1. Tracked(d)
    BY DEF Follows
  <2>2. CASE d = c
    <3>1. contexts'[d] = {y} /\ (UnderWay(d)' <=> UnderWay(d))
      BY <1>3, <1>4, <2>2 DEF InputTypeOK, UnderWay
    <3> QED BY <1>1, <1>3, <1>4, <2>1, <2>2, <3>1
            DEF Tracked, LastOf, BoundedOf, FollowsOf, PointerFollowed, HasContext
  <2>3. CASE d # c
    BY <1>3, <1>4, <2>1, <2>3, FollowsFrame DEF InputTypeOK
  <2> QED BY <2>2, <2>3
<1> QED BY <1>5, <1>6 DEF Follows

LEMMA DeliverFollows ==
  ASSUME FollowInv, NEW c \in Clients, Deliver(c)
  PROVE  (PointerInHook /\ Follows)'
<1> USE DEF FollowInv, SessionInv, Deliver, serviceVars
<1>1. PICK place \in Places \ {"passed", "hook", "service"} : handling' = [handling EXCEPT ![c] = place]
  BY Zenon DEF Places
<1>2. PointerInHook'
  BY <1>1 DEF InputTypeOK, PointerInHook
<1>3. ASSUME NEW d \in Clients PROVE Tracked(d)'
  <2>1. Tracked(d)
    BY DEF Follows
  <2>2. CASE d = c
    <3>1. ~UnderWay(d)' /\ UnderWay(d)
      BY <1>1, <2>2 DEF InputTypeOK, UnderWay
    <3>2. CASE Reached(d)
      <4> DEFINE x == Context(d)
                 swipe == "scroll" \in mask[d] /\ x.completed
      <4>1. x \in ContextType /\ contexts[d] = {x} /\ missed' = missed
        BY <2>2, <3>2, ContextIs DEF Reached
      <4>2. PICK b \in BOOLEAN : b = ("one" \in mask[d])
        <5>1. ("one" \in mask[d]) \in BOOLEAN
          OBVIOUS
        <5> QED BY <5>1, Zenon
      <4>3. PICK y : /\ contexts' = [contexts EXCEPT ![d] = {y}]
                     /\ y.down = b /\ y.keys = x.keys
        <5> DEFINE z == [x EXCEPT !.down = b]
        <5>1. z.down = b /\ z.keys = x.keys /\ z \in ContextType
          BY <4>1 DEF ContextType
        <5>2. \/ contexts' = [contexts EXCEPT ![d] = {Scrolling(z)}]
              \/ contexts' = [contexts EXCEPT ![d] = {z}]
          BY <2>2, <3>2, <4>2 DEF SetContext
        <5>3. Scrolling(z).down = z.down /\ Scrolling(z).keys = z.keys
          BY <5>1 DEF ContextType, Scrolling
        <5> HIDE DEF z
        <5> QED BY <5>1, <5>2, <5>3
      <4>4. strokes' = IF x.down /\ "one" \notin mask[d]
                       THEN [strokes EXCEPT ![d] = @ + 1] ELSE strokes
        BY <2>2, <3>2
      <4> HIDE DEF x
      <4>5. /\ strokes'[d] = strokes[d] + IF x.down /\ "one" \notin mask[d] THEN 1 ELSE 0
            /\ strokes[d] \in Nat /\ drags[d] \in Nat
        BY <4>4 DEF InputTypeOK
      <4>6. contexts'[d] = {y}
        BY <4>3 DEF InputTypeOK
      <4>7. (user[d].down <=> b) /\ UNCHANGED <<user, drags, crowded, announced, instance>>
        BY <2>1, <2>2, <3>1, <4>2 DEF Tracked, LastOf
      <4> HIDE DEF Deliver
      <4>8. BoundedOf(d)'
        <5>1. strokes'[d] = strokes[d] + IF x.down /\ ~b THEN 1 ELSE 0
          BY <4>2, <4>5
        <5>2. strokes[d] + (IF x.down /\ ~user[d].down THEN 1 ELSE 0) <= drags[d]
          BY <2>1, <4>1 DEF Tracked, BoundedOf
        <5>3. strokes'[d] <= drags'[d]
          BY <4>7, <5>1, <5>2
        <5>4. strokes'[d] + (IF y.down /\ ~user'[d].down THEN 1 ELSE 0) <= drags'[d]
          BY <4>3, <4>5, <4>7, <5>3
        <5> QED BY <4>6, <5>3, <5>4 DEF BoundedOf
      <4>9. ASSUME d \in (announced \ missed)' PROVE FollowsOf(d)'
        <5>1. FollowsOf(d) /\ HasContext(d)'
          BY <2>1, <4>1, <4>6, <4>7, <4>9 DEF Tracked, FollowsOf, HasContext
        <5>2. y.keys = user'[d].keys
          BY <4>1, <4>3, <4>7, <5>1 DEF FollowsOf
        <5>3. ASSUME d \notin crowded' PROVE PointerFollowed(d, y)'
          <6>1. PointerFollowed(d, x)
            BY <4>1, <4>7, <5>1, <5>3 DEF FollowsOf
          <6>2. strokes'[d] = drags'[d]
            BY <3>1, <4>5, <4>7, <6>1 DEF PointerFollowed
          <6>3. y.down <=> user'[d].down
            BY <4>3, <4>7
          <6> QED BY <3>1, <6>2, <6>3 DEF PointerFollowed
        <5> QED BY <4>6, <5>1, <5>2, <5>3 DEF FollowsOf
      <4> QED BY <3>1, <4>8, <4>9 DEF Tracked, LastOf
    <3>3. CASE ~Reached(d)
      <4>1. d \in missed' /\ UNCHANGED <<contexts, strokes, user, drags>>
        BY <2>2, <3>3 DEF contextVars
      <4> QED BY <2>1, <3>1, <4>1 DEF Tracked, LastOf, BoundedOf
    <3> QED BY <3>2, <3>3
  <2>3. CASE d # c
    <3>1. contexts'[d] = contexts[d] /\ handling'[d] = handling[d] /\ strokes'[d] = strokes[d]
      BY <1>1, <2>3 DEF InputTypeOK, SetContext, contextVars
    <3> QED BY <2>1, <2>3, <3>1, FollowsFrame
  <2> QED BY <2>2, <2>3
<1> QED BY <1>2, <1>3 DEF Follows

-----------------------------------------------------------------------------
LEMMA FollowInvInit == Init => FollowInv
BY SessionInvInit, InputAssumption
   DEF Init, InputInit, FollowInv, PointerInHook, Follows, Tracked, LastOf, BoundedOf, UnderWay

LEMMA FollowInvNext == FollowInv /\ [Next]_vars => FollowInv'
<1> SUFFICES ASSUME FollowInv, [Next]_vars PROVE (PointerInHook /\ Follows)'
  BY SessionInvNext DEF FollowInv
<1>1. ASSUME NEW c \in Clients, Connected(c) PROVE (PointerInHook /\ Follows)'
  BY <1>1, AddFollows DEF Connected, H!Connect
<1>2. ASSUME NEW c \in Clients, Controls(c) PROVE (PointerInHook /\ Follows)'
  BY <1>2, PointerFollows, KeyFollows, TakeFollows, HookFollows, DeliverFollows, DispatchFollows, EndFollows
     DEF Controls, UserEvent, InputStep
<1>3. ASSUME NEW c \in Clients, Disconnected(c) PROVE (PointerInHook /\ Follows)'
  BY <1>3, RemoveFollows DEF Disconnected
<1>4. CASE Switched
  BY <1>4, SwitchFollows DEF Switched
<1>5. CASE UNCHANGED inputVars
  <2>1. PointerInHook'
    BY <1>5 DEF FollowInv, inputVars, PointerInHook
  <2>2. ASSUME NEW d \in Clients PROVE Tracked(d)'
    BY <1>5, FollowsFrame
       DEF FollowInv, Follows, inputVars, serviceVars, contextVars, userVars
  <2> QED BY <2>1, <2>2 DEF Follows
<1> QED BY <1>1, <1>2, <1>3, <1>4, <1>5 DEF Next, Negotiates, PeerStep, vars

\* The service holds down what each user holds down and has dispatched one stroke for each
\* drag, whatever other clients do meanwhile (rfbPointerEvent, onPointerEvent of droidlink.c,
\* InputService.onPointerEvent, onKeyEvent), but for clients an event of which came when the
\* service was away, and but for the pointer of those that sent an event while another one
\* was in the hook; and it never draws more than the user did.
THEOREM UsersAreFollowed == Spec => []InputFollowsUser
<1>1. FollowInv => InputFollowsUser
  <2> SUFFICES ASSUME FollowInv PROVE InputFollowsUser
    OBVIOUS
  <2> USE DEF FollowInv, SessionInv, Follows
  <2>1. ASSUME NEW c \in announced \ missed, handling[c] = "idle"
        PROVE  /\ HasContext(c)
               /\ Context(c).keys = user[c].keys
               /\ c \notin crowded => Context(c).down = user[c].down /\ strokes[c] = drags[c]
    <3>1. c \in Clients /\ FollowsOf(c) /\ ~UnderWay(c)
      BY <2>1 DEF InputTypeOK, Tracked, UnderWay
    <3>2. HasContext(c) /\ Context(c) \in ContextType /\ contexts[c] = {Context(c)}
      BY <3>1, ContextIs DEF FollowsOf
    <3>3. Context(c).down \in BOOLEAN /\ user[c].down \in BOOLEAN
      BY <3>1, <3>2 DEF ContextType, InputTypeOK
    <3> QED BY <3>1, <3>2, <3>3 DEF FollowsOf, PointerFollowed
  <2>2. \A c \in Clients : strokes[c] <= drags[c]
    BY DEF Tracked, BoundedOf
  <2> QED BY <2>1, <2>2 DEF InputFollowsUser
<1>2. Init => FollowInv
  BY FollowInvInit
<1>3. FollowInv /\ [Next]_vars => FollowInv'
  BY FollowInvNext
<1> QED BY <1>1, <1>2, <1>3, PTL DEF Spec

-----------------------------------------------------------------------------
\* What is proved of RfbHandshake holds in a session too: input, hooks and the accessibility
\* service leave the handshakes alone, and a thread that handles an event reads nothing.
THEOREM HandshakesInSession == Spec => H!HandshakeSpec
<1>1. Init => H!HandshakeInit
  BY DEF Init
<1>2. [Next]_vars => [H!HandshakeNext]_H!handshakeVars
  BY DEF Next, vars, handshakeVars, H!HandshakeNext, H!handshakeVars, H!fixedVars, Connected,
         Negotiates, PeerStep, Controls, Disconnected, Switched
<1> QED BY <1>1, <1>2, PTL DEF Spec, H!HandshakeSpec
=============================================================================
