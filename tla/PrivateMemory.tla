---------------------------- MODULE PrivateMemory ----------------------------
(***************************************************************************)
(* What the kernel promises programs about their memory: every process has *)
(* pages of its own, which nobody else writes.                             *)
(***************************************************************************)
EXTENDS Integers, Sequences

CONSTANTS Proc, Page, Value, Segments, First

VARIABLE mem   \* of each process: the contents of its pages, None: unmapped

None == -1
NoPages == [v \in Page |-> None]

(* A freshly loaded program: its segments and one page of cleared stack    *)
(* above a guard page.                                                     *)
Image ==
  [v \in Page |->
     IF \E s \in {Segments[i] : i \in DOMAIN Segments} : v \in s[1] .. s[2] - 1
     THEN (CHOOSE s \in {Segments[i] : i \in DOMAIN Segments} :
             v \in s[1] .. s[2] - 1)[3]
     ELSE IF v = Segments[Len(Segments)][2] + 1 THEN 0
     ELSE None]

Init == mem = [p \in Proc |-> IF p = First THEN Image ELSE NoPages]

Alive(p) == mem[p] # NoPages

Store(p) ==
  \E v \in Page, x \in Value :
    mem[p][v] # None /\ mem' = [mem EXCEPT ![p][v] = x]

(* Pages of p change one by one, the others stay.                          *)
Pages(p, Change(_, _)) ==
  /\ mem' = [mem EXCEPT ![p] = mem'[p]]
  /\ \A v \in Page : mem'[p][v] = mem[p][v] \/ Change(mem[p][v], mem'[p][v])

(* New pages are cleared, and never replace pages that are there.          *)
Map(p) == Pages(p, LAMBDA old, new : old = None /\ new = 0)

Unmap(p) == Pages(p, LAMBDA old, new : new = None)

Exec(p) == mem' = [mem EXCEPT ![p] = Image]

(* A child starts with a copy of its parent's memory, or with a program.   *)
Fork(p, c) == ~Alive(c) /\ mem' = [mem EXCEPT ![c] = mem[p]]
Spawn(c) == ~Alive(c) /\ mem' = [mem EXCEPT ![c] = Image]

Exit(p) == mem' = [mem EXCEPT ![p] = NoPages]

Next ==
  \E p \in Proc :
    \/ Store(p) \/ Map(p) \/ Unmap(p) \/ Exec(p) \/ Exit(p)
    \/ \E c \in Proc : Fork(p, c) \/ Spawn(c)

Spec == Init /\ [][Next]_mem
=============================================================================
