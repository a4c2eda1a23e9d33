---------------------------- MODULE MCOpenFiles ----------------------------
(* Two processes, two names of which one is in the directory at boot.      *)
EXTENDS OpenFiles

CONSTANTS p1, p2, a, b

MCSlices == {<<1>>, <<0, 1>>}
MCOpenings == {{}, {"WRONLY", "CREATE"}, {"RDWR", "TRUNC"}}
=============================================================================
