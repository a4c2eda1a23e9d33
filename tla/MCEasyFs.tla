------------------------------ MODULE MCEasyFs ------------------------------
(* Reads and writes within one block and across several: up to a file as  *)
(* large as it can be (9 + 5 units), one unit larger than that (10 + 5),   *)
(* and empty ones where no index block is needed (0) and at ends of a file *)
(* where an index block is missing (6 and 10).                             *)
EXTENDS EasyFs

MCSpan == {<<0, 0>>, <<0, 1>>, <<0, 5>>, <<3, 5>>, <<6, 0>>, <<9, 1>>, <<9, 5>>,
           <<10, 0>>, <<10, 5>>}

(* Two files of these sizes take more blocks than the data area has.       *)
MCAreaSpan == {<<0, 5>>, <<9, 5>>}
=============================================================================
