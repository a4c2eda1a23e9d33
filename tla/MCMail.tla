------------------------------- MODULE MCMail -------------------------------
(* Packets of up to two bytes: nothing, one byte and a message that is too *)
(* long by one.                                                            *)
EXTENDS Mail

MCMessages == {<<>>, <<1>>, <<2, 1, 2>>}
=============================================================================
