-------------------------------- MODULE Files --------------------------------
(***************************************************************************)
(* What a flat file system promises: named files, each a sequence of       *)
(* units that grows, with zeros in the holes.  A step is one call, which   *)
(* the file system answers.                                                *)
(***************************************************************************)
EXTENDS Integers, Sequences, TLC

CONSTANTS Name, Call

VARIABLES
  file,   \* the contents of the files there are
  call,   \* the last call
  answer  \* and its answer

vars == <<file, call, answer>>

greater(m, n) == IF m > n THEN m ELSE n

(* The contents f after buf is written at offset.                          *)
Overwritten(f, offset, buf) ==
  [k \in 1 .. greater(Len(f), offset + Len(buf)) |->
     IF k \in offset + 1 .. offset + Len(buf) THEN buf[k - offset]
     ELSE IF k <= Len(f) THEN f[k] ELSE 0]

(* What is left of f after offset, up to len units.                        *)
Part(f, offset, len) ==
  SubSeq(f, offset + 1, IF offset + len < Len(f) THEN offset + len ELSE Len(f))

Init == file = [n \in {} |-> <<>>] /\ call = [op |-> "mkfs"] /\ answer = TRUE

Create(c) ==
  /\ c.op = "create"
  /\ answer' = (c.name \notin DOMAIN file)
  /\ file' = file @@ (c.name :> <<>>)

Write(c) ==
  /\ c.op = "write" /\ c.name \in DOMAIN file
  /\ answer' = Len(c.buf)
  /\ file' = [file EXCEPT ![c.name] = Overwritten(@, c.offset, c.buf)]

Read(c) ==
  /\ c.op = "read" /\ c.name \in DOMAIN file
  /\ answer' = Part(file[c.name], c.offset, c.len)
  /\ UNCHANGED file

Clear(c) ==
  /\ c.op = "clear" /\ c.name \in DOMAIN file
  /\ answer' = TRUE
  /\ file' = [file EXCEPT ![c.name] = <<>>]

(* Starting again from what is stored.                                     *)
Open(c) == c.op = "open" /\ answer' = TRUE /\ UNCHANGED file

Next ==
  /\ call' \in Call
  /\ Open(call') \/ Create(call') \/ Write(call') \/ Read(call') \/ Clear(call')

Spec == Init /\ [][Next]_vars
=============================================================================
