-------------------------------- MODULE Mail --------------------------------
(***************************************************************************)
(* Mail boxes (os/src/fs/mail_box.rs, the mail calls of syscall/fs.rs,     *)
(* TaskManager::set_task_mail), on top of the processes of Task: every     *)
(* TCB owns a box, fork fills the child's with copies of the parent's      *)
(* packets, and mail to another process is delivered by searching the      *)
(* ready queue for its pid.  No mail call gives up the hart or changes the *)
(* scheduler, so the steps of Task stay as they are.                       *)
(*                                                                         *)
(* A packet is the sequence of its bytes.  User buffers are valid and lie  *)
(* within a page; the calls return -1 and do nothing otherwise.            *)
(***************************************************************************)
EXTENDS Task

CONSTANTS
  MAX_PACKET_NUM,      \* capacity of a box
  PACKET_BUFFER_SIZE,  \* largest packet
  Byte,                \* values of a byte
  Messages,            \* the buffers that programs send
  ReadLens             \* the lengths of the buffers that they read into

ASSUME MailAssumption ==
  /\ MAX_PACKET_NUM \in Nat
  /\ PACKET_BUFFER_SIZE \in Nat \ {0}
  /\ Messages \subseteq Seq(Byte)
  /\ ReadLens \subseteq Nat

VARIABLE mail_box   \* the MailBox of each TCB

mail_vars == <<vars, mail_box>>

-----------------------------------------------------------------------------
(* MailBox.                                                                *)

(* MailBox::new                                                            *)
empty_box == [size |-> 0, packets |-> <<>>]

push(box, packet) ==
  [size |-> box.size + 1, packets |-> Append(box.packets, packet)]

(* MailPacket::from_buffer                                                 *)
from_buffer(buf) ==
  SubSeq(buf, 1, IF Len(buf) < PACKET_BUFFER_SIZE THEN Len(buf) ELSE PACKET_BUFFER_SIZE)

(* MailBox::write: the box afterwards and the result.                      *)
is_full(box) == box.size >= MAX_PACKET_NUM

write(box, buf) ==
  IF is_full(box) \/ Len(from_buffer(buf)) = 0 THEN box
  ELSE push(box, from_buffer(buf))

write_result(box, buf) == IF is_full(box) THEN -1 ELSE Len(from_buffer(buf))

(* Mutated form: the newest packet is taken.                               *)
read_last(box, len) ==
  IF box.size = 0 \/ len = 0 THEN box
  ELSE [size |-> box.size - 1, packets |-> pop(box.packets)]

(* MailBox::read into a buffer of len bytes.                               *)
read(box, len) ==
  IF box.size = 0 \/ len = 0 THEN box
  ELSE [size |-> box.size - 1, packets |-> Tail(box.packets)]

(* MailPacket::write_buf cuts the packet off at the end of the buffer.     *)
read_result(box, len) ==
  IF box.size = 0 THEN -1
  ELSE IF len = 0 \/ Len(Head(box.packets)) > len THEN len
  ELSE Len(Head(box.packets))

-----------------------------------------------------------------------------
(* Mail calls.                                                             *)

(* Mutated form: only the head of the queue is looked at.                  *)
reachable_at_head(p, q) == q = p \/ (ready_queue # <<>> /\ q = Head(ready_queue))

(* p finds the box of q: its own, or set_task_mail finds q.                *)
reachable(p, q) == q = p \/ q \in Range(ready_queue)

sys_mail_write(p, q, buf) ==
  /\ current = p
  /\ reachable(p, q)
  /\ mail_box' = [mail_box EXCEPT ![q] = write(@, buf)]
  /\ UNCHANGED vars

mail_write_result(p, q, buf) ==
  IF reachable(p, q) THEN write_result(mail_box[q], buf) ELSE -1

sys_mail_read(p, len) ==
  /\ current = p
  /\ mail_box' = [mail_box EXCEPT ![p] = read(@, len)]
  /\ UNCHANGED vars

(* Mutated form: the copied packets are not counted.                       *)
inherited_uncounted(box) == [size |-> 0, packets |-> box.packets]

(* The mail box of TaskControlBlock::fork: every packet of the parent is   *)
(* pushed into a new box.                                                  *)
inherited(box) == [size |-> Len(box.packets), packets |-> box.packets]

(* A step of Task: a box comes and goes with its TCB.                      *)
task_step ==
  /\ Next
  /\ mail_box' = [p \in Pid |->
       IF task_status'[p] = "Dropped" THEN empty_box
       ELSE IF task_status[p] = "Dropped" THEN inherited(mail_box[current])
       ELSE mail_box[p]]

-----------------------------------------------------------------------------
MailInit == Init /\ mail_box = [p \in Pid |-> empty_box]

(* initproc sends and reads no mail; others do so at any time.             *)
MailNext ==
  \/ task_step
  \/ \E p \in Pid \ {INITPROC} :
       \/ \E q \in Pid, buf \in Messages : sys_mail_write(p, q, buf)
       \/ \E len \in ReadLens : sys_mail_read(p, len)

MailSpec == MailInit /\ [][MailNext]_mail_vars

-----------------------------------------------------------------------------
(* Properties.                                                             *)

(* Boxes hold non-empty packets that fit the packet buffer.                *)
MailTypeOK ==
  /\ TypeOK
  /\ mail_box \in [Pid -> [size : Nat, packets : Seq(Seq(Byte))]]
  /\ \A p \in Pid : \A i \in DOMAIN mail_box[p].packets :
       Len(mail_box[p].packets[i]) \in 1 .. PACKET_BUFFER_SIZE

(* The separate counter of a box agrees with its queue through writes,     *)
(* reads, forks and reuse of pids, and the box never holds more than it    *)
(* may ("at most 16 packets").                                             *)
SizeMatches ==
  \A p \in Pid : /\ mail_box[p].size = Len(mail_box[p].packets)
                 /\ mail_box[p].size <= MAX_PACKET_NUM

Exists(q) == task_status[q] \in {"Ready", "Running"}

(* The mail calls tell their caller the truth.  Mail to a process that has *)
(* not exited fails exactly when its box is full, wherever the scheduler   *)
(* keeps the process ("sending fails when the box is full"); reading fails *)
(* exactly when there is no mail.                                          *)
AnswersTruthful ==
  \A p, q \in Pid : current = p /\ Exists(q) =>
    /\ \A buf \in Messages :
         mail_write_result(p, q, buf) = -1
           <=> Len(mail_box[q].packets) = MAX_PACKET_NUM
    /\ \A len \in ReadLens :
         read_result(mail_box[p], len) = -1 <=> mail_box[p].packets = <<>>

FifoStep(q) ==
  LET old == mail_box[q].packets
      new == mail_box'[q].packets
  IN \/ new = old
     \/ q = current /\ old # <<>> /\ new = Tail(old)
     \/ /\ current # None /\ Exists(q)
        /\ \E buf \in Messages : new = Append(old, from_buffer(buf))

(* Boxes are FIFO queues of their process: while a process exists, its     *)
(* oldest packet is removed by itself, a new one comes last, sent by the   *)
(* running process, and nothing else happens, whatever forks and exits.    *)
MailFifo ==
  [][\A q \in Pid : q \in Live /\ q \in Live' => FifoStep(q)]_mail_vars
=============================================================================
