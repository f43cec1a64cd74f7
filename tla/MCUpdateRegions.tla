--------------------------- MODULE MCUpdateRegions ---------------------------
(* A line of three points, two colours, and every region of neighbours. *)
EXTENDS UpdateRegions, TLC

CONSTANTS dark, light

MCPoints == (0..2) \X {0}
MCPixels == {dark, light}
MCMoves == {<<1, 0>>, <<-1, 0>>}
MCAreas == {{<<x, 0>> : x \in from..to} : from, to \in 0..2} \ {{}}
MCSymmetry == Permutations(MCPixels)
=============================================================================
