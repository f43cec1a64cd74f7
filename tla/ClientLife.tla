------------------------------ MODULE ClientLife ------------------------------
(***************************************************************************)
(* What the server tells the service about its clients: each one is        *)
(* announced once, while the server serves, and is said to be gone once,   *)
(* after that.                                                             *)
(***************************************************************************)
CONSTANT Clients
VARIABLES life, serving

Init == life = [c \in Clients |-> "new"] /\ serving = TRUE

Announce(c) ==
  /\ serving /\ life[c] = "new"
  /\ life' = [life EXCEPT ![c] = "known"]
  /\ UNCHANGED serving

Leave(c) ==
  /\ life[c] = "known"
  /\ life' = [life EXCEPT ![c] = "past"]
  /\ UNCHANGED serving

EndService == serving /\ serving' = FALSE /\ UNCHANGED life

Next == (\E c \in Clients : Announce(c) \/ Leave(c)) \/ EndService

Spec == Init /\ [][Next]_<<life, serving>>
===============================================================================
