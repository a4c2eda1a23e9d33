--------------------------------- MODULE Vec ---------------------------------
(***************************************************************************)
(* The operations of Vec and of iterators that the kernel uses, on         *)
(* sequences.  Indexes are counted from 1.                                 *)
(***************************************************************************)
EXTENDS Integers, Sequences, Functions

(* Vec::last, and what Vec::pop and Vec::remove leave.                     *)
top(v) == v[Len(v)]
pop(v) == SubSeq(v, 1, Len(v) - 1)
remove(v, i) == SubSeq(v, 1, i - 1) \o SubSeq(v, i + 1, Len(v))

(* Iterator::min                                                           *)
least(S) == CHOOSE i \in S : \A j \in S : i <= j

(* Iterator::position: the first index that passes the test, 0 for None.   *)
position(v, Test(_)) ==
  LET found == {i \in 1 .. Len(v) : Test(v[i])}
  IN IF found # {} THEN least(found) ELSE 0

(* A for loop: the state after Step has been taken for each element of v,  *)
(* in order.                                                               *)
for_each(Step(_, _), st, v) ==
  LET at[k \in 0 .. Len(v)] == IF k = 0 THEN st ELSE Step(at[k - 1], v[k])
  IN at[Len(v)]
=============================================================================
