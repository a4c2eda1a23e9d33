---------------------------- MODULE MCBlockCache -----------------------------
(* Three overlapping uses of a cache of two buffers over three blocks.     *)
EXTENDS BlockCache

CONSTANTS c1, c2, c3, b1, b2, b3
=============================================================================
