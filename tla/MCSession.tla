------------------------------- MODULE MCSession -------------------------------
(* RemoteSession where no events are handled while a handshake is under way.  The        *)
(* handshakes are interleaved with each other; all they do to the input of the others is *)
(* to announce a client and to close one, at any point of what that one is doing.        *)
EXTENDS RemoteSession

Settled(c) == state[c] \in {"absent", "shutdown"} \/ at[c] \in {"normal", "closed"}
Reads(c) == H!ClientStep(c) /\ UNCHANGED inputVars
MCNext ==
  \/ \E c \in Clients : Connected(c) \/ (~Settled(c) /\ (Negotiates(c) \/ Reads(c)))
  \/ (\A c \in Clients : Settled(c)) /\ Next
\* The server has connected to one of the clients, the other one has called and picks any
\* type that is registered.
First == CHOOSE c \in Clients : TRUE
MCInit == Init /\ password /\ knows = Clients /\ isEnabled
MCKinds == \A c \in Clients : kind'[c] \in {"none", IF c = First THEN "called" ELSE "foreign"}
MCSpec == MCInit /\ [][MCNext /\ MCKinds]_vars
=============================================================================
