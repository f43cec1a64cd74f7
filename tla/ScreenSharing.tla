---------------------------- MODULE ScreenSharing ----------------------------
(***************************************************************************)
(* What the frame buffer updates of the server promise to its clients: the *)
(* screen goes from picture to picture, and each part of what a client     *)
(* shows is taken from a picture the screen has had, never from one older  *)
(* than what the client has shown there.  The parts may come from          *)
(* different pictures: images are copied while updates are sent.           *)
(***************************************************************************)
EXTENDS Naturals

CONSTANTS Clients, Parts

VARIABLES screen, \* the number of the picture on the screen
          shown   \* for each client and part, the picture its content is of, or 0

Init == screen = 1 /\ shown = [c \in Clients |-> [p \in Parts |-> 0]]

\* The screen changes.
Change == screen' = screen + 1 /\ UNCHANGED shown

\* A part of a picture is brought to a client.
Deliver(c, p) ==
  /\ \E n \in 1..screen : n >= shown[c][p] /\ shown' = [shown EXCEPT ![c][p] = n]
  /\ UNCHANGED screen

Next == Change \/ \E c \in Clients, p \in Parts : Deliver(c, p)

Spec == Init /\ [][Next]_<<screen, shown>>
=============================================================================
