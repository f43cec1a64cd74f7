---------------------------- MODULE MCClientThreads ----------------------------
(* Instances of ClientThreads. *)
EXTENDS ClientThreads, TLC

=============================================================================
