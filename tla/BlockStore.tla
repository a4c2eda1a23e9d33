----------------------------- MODULE BlockStore ------------------------------
(***************************************************************************)
(* What a write-back block cache promises its clients: one client at a     *)
(* time is inside a block, only that client changes it, and it finds what  *)
(* was written last.  The device receives contents of blocks now and then, *)
(* and is all that is left when the program ends.                          *)
(***************************************************************************)
CONSTANTS Block, Value, Client, NoBlock

VARIABLES
  mem,     \* what a reader of a block gets
  inside,  \* the block each client is inside
  stored,  \* what the device holds
  up       \* the program is running

vars == <<mem, inside, stored, up>>

Init ==
  /\ mem \in [Block -> Value]
  /\ inside = [c \in Client |-> NoBlock]
  /\ stored = mem
  /\ up = TRUE

Enter(c, b) ==
  /\ inside[c] = NoBlock /\ \A d \in Client : inside[d] # b
  /\ inside' = [inside EXCEPT ![c] = b]
  /\ UNCHANGED <<mem, stored, up>>

Write(c, v) ==
  /\ inside[c] # NoBlock
  /\ mem' = [mem EXCEPT ![inside[c]] = v]
  /\ UNCHANGED <<inside, stored, up>>

Leave(c) ==
  /\ inside' = [inside EXCEPT ![c] = NoBlock]
  /\ UNCHANGED <<mem, stored, up>>

Flush(b) ==
  /\ stored' = [stored EXCEPT ![b] = mem[b]]
  /\ UNCHANGED <<mem, inside, up>>

End == up' = FALSE /\ mem' = stored /\ UNCHANGED <<inside, stored>>

Next ==
  /\ up
  /\ \/ End
     \/ \E b \in Block : Flush(b) \/ \E c \in Client : Enter(c, b)
     \/ \E c \in Client : Leave(c) \/ \E v \in Value : Write(c, v)

Spec == Init /\ [][Next]_vars
=============================================================================
