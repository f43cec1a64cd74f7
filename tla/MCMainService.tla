---------------------------- MODULE MCMainService ----------------------------
(* TLC instances of MainService. *)
EXTENDS MainService

MCDefaultPort == 5900

OneArgument == {[port |-> 5900, viewOnly |-> FALSE]}
AllArguments == [port : {5900, 5901}, viewOnly : BOOLEAN]

Everything == {"security", "busyPort", "rotate", "abandon", "recreate",
               "connect", "label", "rekey", "foreign", "osStop", "revoke", "kill"}

\* What a user who answers every dialog, and Android, do to a service that nobody
\* else drives, in one process.
OneUser == {"busyPort", "rotate", "osStop", "revoke"}

\* Android withdraws the projection while the device is rotated.
Refused == {"rotate", "security"}
=============================================================================
