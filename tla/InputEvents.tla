------------------------------ MODULE InputEvents ------------------------------
(***************************************************************************)
(* Pointer and key events of the clients, from rfbProcessClientNormal-     *)
(* Message through the callbacks of droidlink.c to InputService, which     *)
(* keeps an InputContext for each client and has Android carry out the     *)
(* gestures.                                                               *)
(*                                                                         *)
(* An event is handled on the input thread of its client.  Between the     *)
(* steps here other clients' threads run; gesture callbacks and the life   *)
(* of the accessibility service are on the main thread.  screen->pointer-  *)
(* Client belongs to no lock.  Positions are left out: a stroke is the     *)
(* button going down and up again.                                         *)
(***************************************************************************)
EXTENDS Integers, FiniteSets

CONSTANTS
  Clients, Nobody,
  Keys,        \* modifiers the service keeps track of
  MaxEvents,   \* bound: pointer and key events of the clients
  MaxSwitches  \* bound: how often the service is connected, destroyed or (dis)abled

ASSUME InputAssumption ==
  /\ Nobody \notin Clients
  /\ MaxEvents \in Nat /\ MaxSwitches \in Nat

VARIABLES
  instance,       \* InputService.instance # null
  isEnabled,
  contexts,       \* mInputContexts of the instance: the context of a client, or {}
  pointerClient,
  handling,       \* where the thread of a client is in the handling of an event
  mask,           \* buttonMask of that event
  announced,      \* clients addClient was called for and removeClient was not
  user,           \* what the user of a client holds down: button one, keys
  strokes,        \* strokes of a client dispatched
  drags,          \* buttons pressed and released by its user
  missed,         \* clients an event of which was not for the service as it was
  crowded,        \* clients a pointer event of which came on the way of another one's to
                  \* the hook; like missed, no step asks for it
  events, switches

contextVars == <<contexts, strokes>>
serviceVars == <<instance, isEnabled, switches>>
userVars == <<user, drags, missed, crowded, events>>
inputVars ==
  <<serviceVars, contextVars, pointerClient, handling, mask, announced, userVars>>

Masks == {{}, {"one"}, {"scroll"}}

\* new InputContext(): nothing pressed, no swipe of a scroll waiting for its callback.
Fresh == [down |-> FALSE, keys |-> {}, completed |-> TRUE, swipes |-> 0]

HasContext(c) == instance /\ contexts[c] # {}
Context(c) == CHOOSE x \in contexts[c] : TRUE
SetContext(c, x) == contexts' = [contexts EXCEPT ![c] = {x}]
Reached(c) == isEnabled /\ HasContext(c)

-----------------------------------------------------------------------------
(* Clients and the service come and go *)

\* MainService.onClientConnected, InputService.addClient: without a service there is no
\* context, then or later.
AddClient(c) ==
  /\ announced' = announced \cup {c}
  /\ contexts' = IF instance THEN [contexts EXCEPT ![c] = {Fresh}] ELSE contexts
  /\ missed' = IF instance THEN missed ELSE missed \cup {c}
  /\ UNCHANGED <<serviceVars, strokes, pointerClient, handling, mask, user, drags, crowded,
                 events>>

\* rfbClientConnectionGone, on the input thread of the client, which handles no event any
\* more: clientGoneHook, and the pointer is free.
RemoveClient(c) ==
  /\ c \in announced /\ handling[c] = "idle"
  /\ announced' = announced \ {c}
  /\ contexts' = IF instance THEN [contexts EXCEPT ![c] = {}] ELSE contexts
  /\ pointerClient' = IF pointerClient = c THEN Nobody ELSE pointerClient
  /\ UNCHANGED <<serviceVars, strokes, handling, mask, userVars>>

\* onServiceConnected: a new instance with an empty map.  Mutant: the map is static.
StaticContexts == contexts
NewContexts == [c \in Clients |-> {}]

OnServiceConnected ==
  /\ ~instance /\ switches < MaxSwitches
  /\ instance' = TRUE
  /\ contexts' = NewContexts
  /\ isEnabled' \in BOOLEAN
  /\ switches' = switches + 1
  /\ missed' = missed \cup announced
  /\ UNCHANGED <<strokes, pointerClient, handling, mask, announced, user, drags, crowded,
                 events>>

OnDestroy ==
  /\ instance /\ switches < MaxSwitches
  /\ instance' = FALSE
  /\ switches' = switches + 1
  /\ missed' = missed \cup announced
  /\ UNCHANGED <<isEnabled, contextVars, pointerClient, handling, mask, announced, user,
                 drags, crowded, events>>

\* MainService has the answer of the input activity.
SetEnabled ==
  /\ switches < MaxSwitches
  /\ isEnabled' = ~isEnabled
  /\ switches' = switches + 1
  /\ UNCHANGED <<instance, contextVars, pointerClient, handling, mask, announced, userVars>>

-----------------------------------------------------------------------------
(* Pointer events *)

\* What the user has done when this event is sent.
Pressing(c, m) ==
  /\ user' = [user EXCEPT ![c].down = "one" \in m]
  /\ drags' = IF user[c].down /\ "one" \notin m THEN [drags EXCEPT ![c] = @ + 1] ELSE drags

\* rfbPointerEvent: the event of a second client is dropped while the first one is the
\* pointer's client.
PointerEvent(c, m) ==
  /\ c \in announced /\ handling[c] = "idle" /\ events < MaxEvents
  /\ events' = events + 1
  /\ Pressing(c, m)
  /\ crowded' = IF \E d \in Clients \ {c} : handling[d] = "hook" THEN crowded \cup {c} ELSE crowded
  /\ IF pointerClient \notin {Nobody, c}
     THEN UNCHANGED <<handling, mask>>
     ELSE /\ handling' = [handling EXCEPT ![c] = "passed"]
          /\ mask' = [mask EXCEPT ![c] = m]
  /\ UNCHANGED <<serviceVars, contextVars, pointerClient, announced, missed>>

\* It is the pointer's client from here to the hook; others may have passed the test too.
TakePointer(c) ==
  /\ handling[c] = "passed"
  /\ pointerClient' = IF mask[c] = {} THEN Nobody ELSE c
  /\ handling' = [handling EXCEPT ![c] = "hook"]
  /\ UNCHANGED <<serviceVars, contextVars, mask, announced, userVars>>

\* onPointerEvent of droidlink.c.  Mutant: it leaves pointerClient alone.
LeavePointer(c) == pointerClient
ClearPointer(c) == Nobody

Hook(c) ==
  /\ handling[c] = "hook"
  /\ handling' = [handling EXCEPT ![c] = "service"]
  /\ pointerClient' = ClearPointer(c)
  /\ UNCHANGED <<serviceVars, contextVars, mask, announced, userVars>>

\* onPointerEvent of InputService.  Before a swipe of a scroll is dispatched mCompleted is
\* cleared.
Scrolling(x) == [x EXCEPT !.completed = FALSE]

Deliver(c) ==
  /\ handling[c] = "service"
  /\ IF Reached(c)
     THEN LET x == Context(c)
              y == [x EXCEPT !.down = "one" \in mask[c]]
              swipe == "scroll" \in mask[c] /\ x.completed
          IN  /\ SetContext(c, IF swipe THEN Scrolling(y) ELSE y)
              /\ strokes' = IF x.down /\ "one" \notin mask[c]
                            THEN [strokes EXCEPT ![c] = @ + 1] ELSE strokes
              /\ handling' = [handling EXCEPT ![c] = IF swipe THEN "dispatch" ELSE "idle"]
              /\ UNCHANGED missed
     ELSE /\ handling' = [handling EXCEPT ![c] = "idle"]
          /\ missed' = missed \cup {c}
          /\ UNCHANGED contextVars
  /\ UNCHANGED <<serviceVars, pointerClient, mask, announced, user, drags, crowded, events>>

\* dispatchGesture of scroll, by the instance and into the context that were found.
Dispatch(c) ==
  /\ handling[c] = "dispatch"
  /\ handling' = [handling EXCEPT ![c] = "idle"]
  /\ IF HasContext(c) THEN SetContext(c, [Context(c) EXCEPT !.swipes = @ + 1])
     ELSE UNCHANGED contexts
  /\ UNCHANGED <<serviceVars, strokes, pointerClient, mask, announced, userVars>>

\* GestureCallback.onCompleted, onCancelled: Android carries a gesture out or cancels it
\* for another one.  Mutant: a cancelled gesture is not noticed.
OnlyCompleted(x, cancelled) == [x EXCEPT !.swipes = @ - 1, !.completed = ~cancelled]
Ended(x, cancelled) == [x EXCEPT !.swipes = @ - 1, !.completed = TRUE]

OnGestureEnd(c) ==
  /\ HasContext(c) /\ Context(c).swipes > 0
  /\ \E cancelled \in BOOLEAN : SetContext(c, Ended(Context(c), cancelled))
  /\ UNCHANGED <<serviceVars, strokes, pointerClient, handling, mask, announced, userVars>>

-----------------------------------------------------------------------------
(* Key events: handled in one go, no state is shared *)

KeyEvent(c, key, down) ==
  /\ c \in announced /\ handling[c] = "idle" /\ events < MaxEvents
  /\ events' = events + 1
  /\ LET held == IF down THEN user[c].keys \cup {key} ELSE user[c].keys \ {key} IN
     user' = [user EXCEPT ![c].keys = held]
  /\ IF Reached(c)
     THEN /\ SetContext(c, [Context(c) EXCEPT
                              !.keys = IF down THEN @ \cup {key} ELSE @ \ {key}])
          /\ UNCHANGED missed
     ELSE missed' = missed \cup {c} /\ UNCHANGED contexts
  /\ UNCHANGED <<serviceVars, strokes, pointerClient, handling, mask, announced, drags, crowded>>

-----------------------------------------------------------------------------
InputInit ==
  /\ instance = TRUE
  /\ isEnabled \in BOOLEAN
  /\ contexts = [c \in Clients |-> {}]
  /\ pointerClient = Nobody
  /\ handling = [c \in Clients |-> "idle"]
  /\ mask = [c \in Clients |-> {}]
  /\ announced = {}
  /\ user = [c \in Clients |-> [down |-> FALSE, keys |-> {}]]
  /\ strokes = [c \in Clients |-> 0]
  /\ drags = [c \in Clients |-> 0]
  /\ missed = {}
  /\ crowded = {}
  /\ events = 0
  /\ switches = 0

\* The user of c, the thread of c, and the main thread.
UserEvent(c) ==
  \/ \E m \in Masks : PointerEvent(c, m)
  \/ \E key \in Keys, down \in BOOLEAN : KeyEvent(c, key, down)
InputStep(c) == TakePointer(c) \/ Hook(c) \/ Deliver(c) \/ Dispatch(c)
ServiceSwitch == OnServiceConnected \/ OnDestroy \/ SetEnabled

-----------------------------------------------------------------------------
(* Properties *)

\* What the user of a client holds down is what the service takes to be held down, and
\* each drag has been dispatched as one stroke: rfbPointerEvent, the hook of droidlink.c and
\* onPointerEvent lose no event but those that come while the service is away or disabled
\* and the pointer events that come while another client is between pointerClient and the
\* hook.  Whatever is lost, no stroke is dispatched that the user did not draw.
InputFollowsUser ==
  /\ \A c \in announced \ missed :
       handling[c] = "idle" =>
         /\ HasContext(c)
         /\ Context(c).keys = user[c].keys
         /\ c \notin crowded => Context(c).down = user[c].down /\ strokes[c] = drags[c]
  /\ \A c \in Clients : strokes[c] <= drags[c]

\* mCompleted tells whether a swipe of a scroll is under way: onPointerEvent on the
\* client's thread and the callbacks on the main thread never get out of step, so no
\* second swipe cancels the first, and none that is wanted is refused.
ScrollsCounted ==
  \A c \in Clients : HasContext(c) =>
    /\ Context(c).swipes = IF Context(c).completed \/ handling[c] = "dispatch" THEN 0 ELSE 1
    /\ handling[c] = "dispatch" => ~Context(c).completed

\* Contexts are those of clients that are there: addClient and removeClient pair up, also
\* over a restart of the service.
ContextsOfClients == \A c \in Clients : HasContext(c) => c \in announced
=============================================================================
