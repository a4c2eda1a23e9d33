----------------------------- MODULE MCMemorySet -----------------------------
(* A program of one segment, page 0, which is written; a guard page and a  *)
(* stack follow, then free pages below the trap context.                   *)
EXTENDS PrivateSpaces

CONSTANTS p1, p2

MCSegments == << <<0, 1, 1>> >>
=============================================================================
