----------------------------- MODULE RemoteSession -----------------------------
(***************************************************************************)
(* A client from its connection to its end: RfbHandshake up to normal      *)
(* operation, InputEvents from there on.  The input thread of the client   *)
(* runs both; newClientHook announces the client to the input service when *)
(* it connects, before it has said anything, and clientGoneHook takes it   *)
(* back when its thread is done with it.                                   *)
(***************************************************************************)
EXTENDS InputEvents

CONSTANT Minors
VARIABLES password, knows, list, state, minor, tight, toClient, toServer, at, kind

H == INSTANCE RfbHandshake
handshakeVars ==
  <<password, knows, list, state, minor, tight, toClient, toServer, at, kind>>
vars == <<handshakeVars, inputVars>>

\* rfbNewTCPOrUDPClient.
Connected(c) ==
  \E as \in {"app", "foreign", "called"} : H!Connect(c, as) /\ AddClient(c)

\* Reading is the thread's next step when no event is being handled.
Negotiates(c) ==
  /\ handling[c] = "idle" /\ c \in announced
  /\ H!ServerStep(c)
  /\ UNCHANGED inputVars

PeerStep(c) == (H!ClientStep(c) \/ H!Leave(c)) /\ UNCHANGED inputVars

InNormal(c) == state[c] = "normal" /\ at[c] = "normal"
Controls(c) ==
  /\ \/ InNormal(c) /\ UserEvent(c)
     \/ InputStep(c) \/ OnGestureEnd(c)
  /\ UNCHANGED handshakeVars

\* rfbClientConnectionGone.
Disconnected(c) == state[c] = "shutdown" /\ RemoveClient(c) /\ UNCHANGED handshakeVars

Switched == ServiceSwitch /\ UNCHANGED handshakeVars

Init == H!HandshakeInit /\ InputInit
Next ==
  \/ \E c \in Clients :
       \/ Connected(c) \/ Negotiates(c) \/ PeerStep(c) \/ Controls(c) \/ Disconnected(c)
  \/ Switched
Spec == Init /\ [][Next]_vars
=============================================================================
