----------------------------- MODULE RingBuffer -----------------------------
(***************************************************************************)
(* PipeRingBuffer (os/src/fs/pipe.rs): the circular byte queue of a pipe.  *)
(* A ring is a record of its fields but write_end, which module Pipe       *)
(* models.                                                                 *)
(***************************************************************************)
EXTENDS Integers, Sequences

CONSTANTS
  RING_BUFFER_SIZE,
  Byte               \* the byte values told apart; 0 is one of them

ASSUME RingAssumption == RING_BUFFER_SIZE \in Nat \ {0} /\ 0 \in Byte

Index == 0 .. RING_BUFFER_SIZE - 1

Ring == [arr : [Index -> Byte], head : Index, tail : Index,
         status : {"FULL", "EMPTY", "NORMAL"}]

(* PipeRingBuffer::new                                                     *)
new_ring == [arr |-> [i \in Index |-> 0], head |-> 0, tail |-> 0,
             status |-> "EMPTY"]

write_byte(r, byte) ==
  LET tail == (r.tail + 1) % RING_BUFFER_SIZE
  IN [r EXCEPT !.arr[r.tail] = byte,
               !.tail = tail,
               !.status = IF tail = r.head THEN "FULL" ELSE "NORMAL"]

(* read_byte returns next_byte(r) and leaves the ring read_byte(r).        *)
next_byte(r) == r.arr[r.head]

(* Mutated form: the ring that became empty is not noticed.                *)
read_byte_never_empty(r) ==
  [r EXCEPT !.head = (r.head + 1) % RING_BUFFER_SIZE, !.status = "NORMAL"]

read_byte(r) ==
  LET head == (r.head + 1) % RING_BUFFER_SIZE
  IN [r EXCEPT !.head = head,
               !.status = IF head = r.tail THEN "EMPTY" ELSE "NORMAL"]

available_read(r) ==
  IF r.status = "EMPTY" THEN 0
  ELSE IF r.tail > r.head THEN r.tail - r.head
  ELSE r.tail + RING_BUFFER_SIZE - r.head

available_write(r) ==
  IF r.status = "FULL" THEN 0 ELSE RING_BUFFER_SIZE - available_read(r)

(* The status tells the two cases of head = tail apart.                    *)
StatusOK(r) == r.head = r.tail <=> r.status \in {"FULL", "EMPTY"}

(* The bytes in the ring, oldest first.                                    *)
contents(r) ==
  [i \in 1 .. available_read(r) |-> r.arr[(r.head + i - 1) % RING_BUFFER_SIZE]]
=============================================================================
