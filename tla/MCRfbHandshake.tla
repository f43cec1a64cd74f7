---------------------------- MODULE MCRfbHandshake ----------------------------
(* Instances of RfbHandshake. *)
EXTENDS RfbHandshake
=============================================================================
