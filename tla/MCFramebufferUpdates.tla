------------------------ MODULE MCFramebufferUpdates ------------------------
(***************************************************************************)
(* FramebufferUpdates for TLC.                                             *)
(***************************************************************************)
EXTENDS FramebufferUpdates

CONSTANTS c1, c2, left, right

JustC1 == {c1}
Both == {c1, c2}
Nobody == {}
OnePart == {left}
TwoParts == {left, right}
=============================================================================
