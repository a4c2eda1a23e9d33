-------------------------------- MODULE Pipe --------------------------------
(***************************************************************************)
(* One pipe (os/src/fs/pipe.rs) and the processes that share it: blocking  *)
(* reads and writes that give the hart up inside a system call, and the    *)
(* life of the two ends through fork, close, exit and waitpid.             *)
(*                                                                         *)
(* Kernel code is not interrupted: while cpu is a process, that process is *)
(* inside Pipe::read or Pipe::write and nothing else happens.              *)
(***************************************************************************)
EXTENDS RingBuffer, FiniteSets

CONSTANTS
  Proc,     \* processes
  Maker,    \* the one that made the pipe
  Idle,     \* no process is inside Pipe::read or Pipe::write
  initproc, \* the process that adopts orphans; it has no end of the pipe
  MaxLen    \* bound: length of a user buffer

ASSUME PipeAssumption ==
  /\ Maker \in Proc /\ Idle \notin Proc /\ initproc \notin Proc
  /\ MaxLen \in Nat

VARIABLES
  ring,     \* the PipeRingBuffer
  cpu,      \* the process inside Pipe::read or Pipe::write, or Idle
  loop,     \* iterations left of its for loop; 0: at the head of `loop`
  op,       \* the call each process is in: "user" when in none
  room,     \* read: bytes of the user buffer still to be filled
  got,      \* read: bytes received so far
  todo,     \* write: bytes of the user buffer still to be written
  readers,  \* processes whose fd_table holds the read end
  writers,  \* processes whose fd_table holds the write end
  life,     \* of the TCB: "none", "live", "zombie", or "leaked" if it stays
  parent

call_vars == <<op, room, got, todo>>
proc_vars == <<readers, writers, life, parent>>
vars == <<ring, cpu, loop, call_vars, proc_vars>>

Buffers == UNION {[1 .. n -> Byte] : n \in 0 .. MaxLen}

(* make_pipe, called by Maker                                              *)
Init ==
  /\ ring = new_ring
  /\ cpu = Idle
  /\ loop = 0
  /\ op = [p \in Proc |-> "user"]
  /\ room = [p \in Proc |-> 0]
  /\ got = [p \in Proc |-> <<>>]
  /\ todo = [p \in Proc |-> <<>>]
  /\ readers = {Maker}
  /\ writers = {Maker}
  /\ life = [p \in Proc |-> IF p = Maker THEN "live" ELSE "none"]
  /\ parent = [p \in Proc |-> initproc]

(* p is in user mode and may make a system call.                           *)
InUser(p) == cpu = Idle /\ life[p] = "live" /\ op[p] = "user"

(* The Weak pointer to the write end cannot be upgraded: no fd_table, also *)
(* of a zombie, holds it.  (A write in progress holds one more Arc, but    *)
(* its process cannot close the descriptor meanwhile.)                     *)
all_write_ends_closed == writers = {}

-----------------------------------------------------------------------------
(* Pipe::read                                                              *)

sys_read(p, len) ==
  /\ InUser(p) /\ p \in readers
  /\ cpu' = p
  /\ op' = [op EXCEPT ![p] = "read"]
  /\ room' = [room EXCEPT ![p] = len]
  /\ UNCHANGED <<ring, loop, got, todo, proc_vars>>

(* The call returns the number of bytes transferred.                       *)
return(p) ==
  /\ cpu' = Idle
  /\ loop' = 0
  /\ op' = [op EXCEPT ![p] = "user"]
  /\ room' = [room EXCEPT ![p] = 0]
  /\ got' = [got EXCEPT ![p] = <<>>]
  /\ todo' = [todo EXCEPT ![p] = <<>>]
  /\ UNCHANGED <<ring, proc_vars>>

suspend_current_and_run_next ==
  /\ cpu' = Idle
  /\ UNCHANGED <<ring, loop, call_vars, proc_vars>>

(* One round of `loop` starts with n bytes (or free bytes) available.      *)
start_round(n) ==
  /\ loop' = n
  /\ UNCHANGED <<ring, cpu, call_vars, proc_vars>>

(* Mutated forms: end of file without looking whether the ring is empty;   *)
(* the reader that finds the ring empty waits for ever.                    *)
read_head_eager(p) ==
  /\ cpu = p /\ op[p] = "read" /\ loop = 0
  /\ IF all_write_ends_closed THEN return(p)
     ELSE IF available_read(ring) = 0 THEN suspend_current_and_run_next
     ELSE start_round(available_read(ring))

read_head_without_eof(p) ==
  /\ cpu = p /\ op[p] = "read" /\ loop = 0
  /\ IF available_read(ring) = 0 THEN suspend_current_and_run_next
     ELSE start_round(available_read(ring))

read_head(p) ==
  /\ cpu = p /\ op[p] = "read" /\ loop = 0
  /\ IF available_read(ring) = 0
     THEN IF all_write_ends_closed THEN return(p)
          ELSE suspend_current_and_run_next
     ELSE start_round(available_read(ring))

read_copy(p) ==
  /\ cpu = p /\ op[p] = "read" /\ loop > 0
  /\ IF room[p] = 0 THEN return(p)
     ELSE /\ ring' = read_byte(ring)
          /\ got' = [got EXCEPT ![p] = Append(@, next_byte(ring))]
          /\ room' = [room EXCEPT ![p] = @ - 1]
          /\ loop' = loop - 1
          /\ UNCHANGED <<cpu, op, todo, proc_vars>>

-----------------------------------------------------------------------------
(* Pipe::write                                                             *)

sys_write(p, bytes) ==
  /\ InUser(p) /\ p \in writers
  /\ cpu' = p
  /\ op' = [op EXCEPT ![p] = "write"]
  /\ todo' = [todo EXCEPT ![p] = bytes]
  /\ UNCHANGED <<ring, loop, room, got, proc_vars>>

(* Mutated form: a writer that finds the ring full gives up.               *)
write_head_nonblocking(p) ==
  /\ cpu = p /\ op[p] = "write" /\ loop = 0
  /\ IF available_write(ring) = 0 THEN return(p)
     ELSE start_round(available_write(ring))

write_head(p) ==
  /\ cpu = p /\ op[p] = "write" /\ loop = 0
  /\ IF available_write(ring) = 0 THEN suspend_current_and_run_next
     ELSE start_round(available_write(ring))

write_copy(p) ==
  /\ cpu = p /\ op[p] = "write" /\ loop > 0
  /\ IF todo[p] = <<>> THEN return(p)
     ELSE /\ ring' = write_byte(ring, Head(todo[p]))
          /\ todo' = [todo EXCEPT ![p] = Tail(@)]
          /\ loop' = loop - 1
          /\ UNCHANGED <<cpu, op, room, got, proc_vars>>

(* The scheduler runs a process that gave the hart up inside a call.       *)
resume(p) ==
  /\ cpu = Idle /\ op[p] # "user"
  /\ cpu' = p
  /\ UNCHANGED <<ring, loop, call_vars, proc_vars>>

-----------------------------------------------------------------------------
(* The life of the ends.                                                   *)

(* Mutated form: the child gets both ends, open in the parent or not.      *)
fork_reopening(p, c) ==
  /\ InUser(p) /\ life[c] = "none"
  /\ life' = [life EXCEPT ![c] = "live"]
  /\ parent' = [parent EXCEPT ![c] = p]
  /\ readers' = readers \cup {c}
  /\ writers' = writers \cup {c}
  /\ UNCHANGED <<ring, cpu, loop, call_vars>>

(* TaskControlBlock::fork copies the fd_table.                             *)
fork(p, c) ==
  /\ InUser(p) /\ life[c] = "none"
  /\ life' = [life EXCEPT ![c] = "live"]
  /\ parent' = [parent EXCEPT ![c] = p]
  /\ readers' = IF p \in readers THEN readers \cup {c} ELSE readers
  /\ writers' = IF p \in writers THEN writers \cup {c} ELSE writers
  /\ UNCHANGED <<ring, cpu, loop, call_vars>>

(* sys_close of the last descriptor p has for an end                       *)
close_read(p) ==
  /\ InUser(p) /\ p \in readers
  /\ readers' = readers \ {p}
  /\ UNCHANGED <<ring, cpu, loop, call_vars, writers, life, parent>>

close_write(p) ==
  /\ InUser(p) /\ p \in writers
  /\ writers' = writers \ {p}
  /\ UNCHANGED <<ring, cpu, loop, call_vars, readers, life, parent>>

(* exit_current_and_run_next leaves the fd_table as it is.  Called inside  *)
(* sys_fork, short of frames, it also leaves an Arc to the TCB behind, so  *)
(* that waitpid will not drop it.                                          *)
exit(p, in_fork) ==
  /\ InUser(p)
  /\ life' = [life EXCEPT ![p] = IF in_fork THEN "leaked" ELSE "zombie"]
  /\ parent' = [c \in Proc |-> IF parent[c] = p THEN initproc ELSE parent[c]]
  /\ UNCHANGED <<ring, cpu, loop, call_vars, readers, writers>>

(* Mutated form: the zombie's descriptors stay open after waitpid.         *)
waitpid_leaking(c) ==
  /\ cpu = Idle /\ life[c] = "zombie"
  /\ parent[c] \in Proc => InUser(parent[c])
  /\ life' = [life EXCEPT ![c] = "none"]
  /\ parent' = [parent EXCEPT ![c] = initproc]
  /\ UNCHANGED <<ring, cpu, loop, call_vars, readers, writers>>

(* waitpid of c's parent drops the TCB and with it the fd_table.           *)
waitpid(c) ==
  /\ cpu = Idle /\ life[c] = "zombie"
  /\ parent[c] \in Proc => InUser(parent[c])
  /\ life' = [life EXCEPT ![c] = "none"]
  /\ parent' = [parent EXCEPT ![c] = initproc]
  /\ readers' = readers \ {c}
  /\ writers' = writers \ {c}
  /\ UNCHANGED <<ring, cpu, loop, call_vars>>

-----------------------------------------------------------------------------
kernel_step(p) == read_head(p) \/ read_copy(p) \/ write_head(p) \/ write_copy(p)

Next ==
  \E p \in Proc :
    \/ \E len \in 0 .. MaxLen : sys_read(p, len)
    \/ \E bytes \in Buffers : sys_write(p, bytes)
    \/ kernel_step(p)
    \/ resume(p)
    \/ \E c \in Proc : fork(p, c)
    \/ close_read(p)
    \/ close_write(p)
    \/ \E in_fork \in BOOLEAN : exit(p, in_fork)
    \/ waitpid(p)

Spec == Init /\ [][Next]_vars

(* The kernel goes on; a process in the ready queue is run again (the FIFO *)
(* queue of module Task never starves one); initproc waits for its         *)
(* children for ever.                                                      *)
Fairness ==
  \A p \in Proc :
    /\ WF_vars(kernel_step(p))
    /\ SF_vars(resume(p))
    /\ SF_vars(parent[p] = initproc /\ waitpid(p))

FairSpec == Spec /\ Fairness

-----------------------------------------------------------------------------
(* Properties.                                                             *)

TypeOK ==
  /\ ring \in Ring
  /\ cpu \in Proc \cup {Idle}
  /\ loop \in 0 .. RING_BUFFER_SIZE
  /\ op \in [Proc -> {"user", "read", "write"}]
  /\ room \in [Proc -> 0 .. MaxLen]
  /\ got \in [Proc -> Seq(Byte)]
  /\ todo \in [Proc -> Seq(Byte)]
  /\ readers \in SUBSET Proc
  /\ writers \in SUBSET Proc
  /\ life \in [Proc -> {"none", "live", "zombie", "leaked"}]
  /\ parent \in [Proc -> Proc \cup {initproc}]

(* Pipe::read and Pipe::write trust available_read and available_write for *)
(* a whole round: the ring never has fewer bytes (or free slots) than the  *)
(* iterations left, whoever ran before.                                    *)
RoundCovered ==
  /\ StatusOK(ring)
  /\ loop > 0 => /\ cpu # Idle
                 /\ op[cpu] = "read" => loop = available_read(ring)
                 /\ op[cpu] = "write" => loop = available_write(ring)

(* A process inside a call has the end it uses, so the Pipe and its buffer *)
(* exist; a process without TCB has neither end.                           *)
EndsHeld ==
  \A p \in Proc :
    /\ op[p] = "read" => p \in readers /\ life[p] = "live"
    /\ op[p] = "write" => p \in writers /\ life[p] = "live"
    /\ op[p] = "user" => cpu # p
    /\ life[p] = "none" => p \notin readers \cup writers

(* A process keeps the state of a call only while it is in that call, and  *)
(* a read never overruns its buffer: with the invariants above, inductive. *)
CallsOK ==
  \A p \in Proc :
    /\ op[p] # "write" => todo[p] = <<>>
    /\ op[p] # "read" => got[p] = <<>>
    /\ Len(got[p]) + room[p] <= MaxLen

IInv == TypeOK /\ RoundCovered /\ EndsHeld /\ CallsOK

(* A read returns fewer bytes than its buffer holds only at end of file:   *)
(* the ring is empty and no process, not even a zombie, has the write end. *)
ShortReadIsEof ==
  [][\A p \in Proc : op[p] = "read" /\ op'[p] = "user" /\ room[p] > 0 =>
       available_read(ring) = 0 /\ writers = {}]_vars

(* End of file is final: once a reader can see it, no byte ever comes out  *)
(* of the pipe again, whoever forks, writes or exits afterwards.           *)
EofIsFinal ==
  [](writers = {} /\ available_read(ring) = 0
       => [](writers = {} /\ available_read(ring) = 0))

(* The pipe is a bounded FIFO queue for its users.                         *)
Fifo == INSTANCE PipeFifo WITH queue <- contents(ring),
                               Capacity <- RING_BUFFER_SIZE

FifoSpec == Fifo!Spec

(* A blocked read returns once all processes with the write end are gone   *)
(* or are orphaned zombies: initproc's waitpid closes their descriptors.   *)
EofDelivered ==
  \A p \in Proc :
    (op[p] = "read" /\ \A w \in writers : life[w] = "zombie"
                                         /\ parent[w] = initproc)
      ~> op[p] = "user"
=============================================================================
