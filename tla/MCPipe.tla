------------------------------- MODULE MCPipe -------------------------------
(* Two processes, for the runs of Pipe that look at the bytes.             *)
EXTENDS Pipe

CONSTANTS p1, p2
=============================================================================
