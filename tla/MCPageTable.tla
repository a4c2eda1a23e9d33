---------------------------- MODULE MCPageTable ----------------------------
(* Two tables and pages that share a leaf node, a node above it, or only   *)
(* the root.                                                               *)
EXTENDS UserBuffer

CONSTANTS t1, t2

MCSymmetry == Permutations({t1, t2})
MCPermissions == {{"R", "W", "U"}, {"R", "X", "U"}}
=============================================================================
