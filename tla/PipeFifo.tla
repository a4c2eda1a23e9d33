------------------------------ MODULE PipeFifo ------------------------------
(***************************************************************************)
(* What a pipe promises its readers and writers: a bounded queue of bytes. *)
(* Every byte of a write enters the queue once, in the order of the        *)
(* buffer, before the write returns; every byte that leaves the queue is   *)
(* the oldest one and goes to exactly one read.                            *)
(***************************************************************************)
EXTENDS Integers, Sequences

CONSTANTS Proc, Capacity, Byte, MaxLen

VARIABLES
  queue,  \* the bytes written and not yet read
  todo,   \* of each process: the bytes of its write not yet in the queue
  got     \* of each process: the bytes its read has received

vars == <<queue, todo, got>>

Buffers == UNION {[1 .. n -> Byte] : n \in 0 .. MaxLen}

Init ==
  /\ queue = <<>>
  /\ todo = [p \in Proc |-> <<>>]
  /\ got = [p \in Proc |-> <<>>]

(* A write starts; the previous one has sent all its bytes.                *)
StartWrite(p) ==
  /\ todo[p] = <<>>
  /\ \E bytes \in Buffers : todo' = [todo EXCEPT ![p] = bytes]
  /\ UNCHANGED <<queue, got>>

Send(p) ==
  /\ todo[p] # <<>>
  /\ Len(queue) < Capacity
  /\ queue' = Append(queue, Head(todo[p]))
  /\ todo' = [todo EXCEPT ![p] = Tail(@)]
  /\ UNCHANGED got

Receive(p) ==
  /\ queue # <<>>
  /\ Len(got[p]) < MaxLen
  /\ got' = [got EXCEPT ![p] = Append(@, Head(queue))]
  /\ queue' = Tail(queue)
  /\ UNCHANGED todo

(* A read returns.                                                         *)
EndRead(p) ==
  /\ got' = [got EXCEPT ![p] = <<>>]
  /\ UNCHANGED <<queue, todo>>

Next == \E p \in Proc : StartWrite(p) \/ Send(p) \/ Receive(p) \/ EndRead(p)

Spec == Init /\ [][Next]_vars
=============================================================================
