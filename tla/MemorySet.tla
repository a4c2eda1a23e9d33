------------------------------ MODULE MemorySet ------------------------------
(***************************************************************************)
(* Physical frames and the address spaces of processes: the system calls   *)
(* that build, change, copy and drop address spaces (task/mod.rs,          *)
(* task/task.rs, syscall/process.rs).  The frames of the kernel and of     *)
(* initproc are not counted in FRAMES.                                     *)
(***************************************************************************)
EXTENDS AddressSpace

CONSTANTS
  Proc,          \* processes
  First,         \* the process that exists at first, started by initproc
  Margin,        \* 100 + INITPROC.frames_used()
  MaxPages,      \* bound: pages of an mmap or munmap
  MaxAreas,      \* bound: mmap stops when a process has this many areas
  MaxCalls       \* bound: calls that build, change or copy an address space

ASSUME MemoryAssumption ==
  /\ First \in Proc /\ Margin \in Nat
  /\ MaxPages \in Nat /\ MaxAreas \in Nat /\ MaxCalls \in Nat

(* The nodes on the way to the pages of one mmap are fewer than the frames *)
(* that are kept back: memory has a few thousand frames, a node has 512    *)
(* entries, and the margin is over 100.                                    *)
ASSUME MarginAssumption ==
  \A start \in Vpn, n \in 1 .. MaxPages :
    start + n <= TRAMPOLINE => Cardinality(nodes_of(start .. start + n - 1)) < Margin

VARIABLES
  fa,            \* FRAME_ALLOCATOR
  bytes,         \* contents of the frames
  space,         \* the MemorySet of each process
  kstack,        \* the frames of each process's kernel stack
  life,          \* of the TCB: "none", "live", "zombie", or "leaked"
  panic,         \* "no", or why the kernel has panicked
  calls          \* the calls made, up to MaxCalls

vars == <<fa, bytes, space, kstack, life, panic, calls>>

-----------------------------------------------------------------------------
(* System calls.                                                           *)

Init ==
  LET st == new_kernel_stack(from_elf(new_allocator, [ppn \in Frame |-> 0]))
  IN /\ st.status = "ok"
     /\ fa = st.fa
     /\ bytes = st.bytes
     /\ space = [p \in Proc |-> IF p = First THEN st.space ELSE no_space]
     /\ kstack = [p \in Proc |-> IF p = First THEN st.stack ELSE <<>>]
     /\ life = [p \in Proc |-> IF p = First THEN "live" ELSE "none"]
     /\ panic = "no"
     /\ calls = 0

commit(p, st) ==
  IF panics(st) THEN panic' = st.status /\ UNCHANGED <<fa, bytes, space>>
  ELSE /\ fa' = st.fa
       /\ bytes' = st.bytes
       /\ space' = [space EXCEPT ![p] = st.space]
       /\ UNCHANGED panic

(* A store of a user program.                                              *)
store(p, vpn, value) ==
  /\ life[p] = "live" /\ space[p].pte[vpn] # None
  /\ bytes' = [bytes EXCEPT ![space[p].pte[vpn]] = value]
  /\ UNCHANGED <<fa, space, kstack, life, panic>>

(* Mutated form: no frames are kept back for page tables.                  *)
mmap_fits_exactly(n, whole) == usable_frames(fa) >= n

(* map_virtual_pages of n pages; whole: len is a multiple of the page size *)
(* (len / 4096 is n, otherwise n - 1).                                     *)
mmap_fits(n, whole) == usable_frames(fa) >= (IF whole THEN n ELSE n - 1) + Margin

mmap_space(p, start, n) ==
  push([fa |-> fa, bytes |-> bytes, space |-> space[p], stack |-> <<>>,
        status |-> "ok"], start, start + n)

(* A range that reaches the last page, the trampoline: its end wraps to 0, *)
(* and SimpleRange::new asserts that start <= end.                         *)
wraps(start, n) == start + n > TRAMPOLINE

range_panic == panic' = "start > end" /\ UNCHANGED <<fa, bytes, space>>

map_virtual_pages(p, start, n, whole) ==
  IF ~mmap_fits(n, whole) THEN UNCHANGED <<fa, bytes, space, panic>>
  ELSE IF wraps(start, n) THEN range_panic
  ELSE IF \E vpn \in start .. start + n - 1 : have_mapped(space[p], vpn)
       THEN UNCHANGED <<fa, bytes, space, panic>>
  ELSE commit(p, mmap_space(p, start, n))

sys_mmap(p, start, n, whole) ==
  /\ life[p] = "live" /\ Len(space[p].areas) < MaxAreas
  /\ map_virtual_pages(p, start, n, whole)
  /\ UNCHANGED <<kstack, life>>

munmap_space(p, start, n) ==
  unmap([fa |-> fa, bytes |-> bytes, space |-> space[p], stack |-> <<>>,
         status |-> "ok"], start, start + n)

(* __restore and __alltraps go through the trap context; without its page  *)
(* the one faults into the other for ever.                                 *)
trap_return(st) ==
  IF st.space.pte[TRAP_CONTEXT] = None THEN fail(st, "trap context lost") ELSE st

unmap_virtual_pages(p, start, n) ==
  IF wraps(start, n) THEN range_panic
  ELSE /\ \A vpn \in start .. start + n - 1 : have_mapped(space[p], vpn)
       /\ commit(p, trap_return(munmap_space(p, start, n)))

sys_munmap(p, start, n) ==
  /\ life[p] = "live"
  /\ unmap_virtual_pages(p, start, n)
  /\ UNCHANGED <<kstack, life>>

(* TaskControlBlock::exec                                                  *)
sys_exec(p) ==
  /\ life[p] = "live"
  /\ commit(p, exec_space([fa |-> fa, bytes |-> bytes, space |-> space[p],
                           stack |-> <<>>]))
  /\ UNCHANGED <<kstack, life>>

(* The child's memory is st, or the copy ran out of frames and the part    *)
(* that was built is dropped again.                                        *)
start_child(c, st) ==
  IF st.status = "full"
  THEN /\ fa' = drop_space(st.fa, st.space)
       /\ bytes' = st.bytes
       /\ UNCHANGED <<space, kstack, life, panic>>
  ELSE /\ commit(c, st)
       /\ kstack' = IF panics(st) THEN kstack ELSE [kstack EXCEPT ![c] = st.stack]
       /\ life' = IF panics(st) THEN life ELSE [life EXCEPT ![c] = "live"]

(* Mutated form: the data frames are not given back.                       *)
exit_keeping_areas(p, in_fork) ==
  /\ life[p] = "live"
  /\ life' = [life EXCEPT ![p] = IF in_fork THEN "leaked" ELSE "zombie"]
  /\ space' = [space EXCEPT ![p].areas = <<>>]
  /\ UNCHANGED <<fa, bytes, kstack, panic>>

(* exit_current_and_run_next: recycle_data_pages drops the areas, not the  *)
(* page table and its entries.                                             *)
exit(p, in_fork) ==
  /\ life[p] = "live"
  /\ life' = [life EXCEPT ![p] = IF in_fork THEN "leaked" ELSE "zombie"]
  /\ fa' = dealloc_all(fa, data_frames_of(space[p]))
  /\ space' = [space EXCEPT ![p].areas = <<>>]
  /\ UNCHANGED <<bytes, kstack, panic>>

(* The memory of TaskControlBlock::fork.                                   *)
fork_space(p) == new_kernel_stack(from_existed_user(fa, bytes, space[p]))

(* Mutated form: no frames are kept back for page table and kernel stack.  *)
fork_fits_exactly(p) == usable_frames(fa) >= frames_used(space[p])

fork_fits(p) == usable_frames(fa) >= frames_used(space[p]) + Margin

sys_fork(p, c) ==
  /\ life[p] = "live" /\ life[c] = "none"
  /\ IF fork_fits(p) THEN start_child(c, fork_space(p)) ELSE exit(p, TRUE)

(* sys_spawn: fork, then exec in the child; no check of the frames.        *)
sys_spawn(p, c) ==
  LET st == fork_space(p)
  IN /\ life[p] = "live" /\ life[c] = "none"
     /\ start_child(c, IF st.status = "ok" THEN exec_space(st) ELSE st)

(* Dropping a KernelStack removes its area from the kernel's space.        *)
drop_kernel_stack(f, c) == dealloc_all(f, kstack[c])

(* waitpid drops the TCB of a zombie: its kernel stack and page table.     *)
waitpid(c) ==
  /\ life[c] = "zombie"
  /\ life' = [life EXCEPT ![c] = "none"]
  /\ fa' = drop_space(drop_kernel_stack(fa, c), space[c])
  /\ space' = [space EXCEPT ![c] = no_space]
  /\ kstack' = [kstack EXCEPT ![c] = <<>>]
  /\ UNCHANGED <<bytes, panic>>

memory_call(p) ==
  \/ \E start \in Vpn, n \in 1 .. MaxPages :
       \/ \E whole \in BOOLEAN : sys_mmap(p, start, n, whole)
       \/ sys_munmap(p, start, n)
  \/ sys_exec(p)
  \/ \E c \in Proc : sys_fork(p, c) \/ sys_spawn(p, c)

Next ==
  /\ panic = "no"
  /\ \E p \in Proc :
       \/ calls < MaxCalls /\ memory_call(p) /\ calls' = calls + 1
       \/ /\ \/ \E vpn \in UserVpn, value \in Value \ {0} : store(p, vpn, value)
             \/ exit(p, FALSE)
             \/ waitpid(p)
          /\ UNCHANGED calls

Spec == Init /\ [][Next]_vars

-----------------------------------------------------------------------------
(* Properties.                                                             *)

(* The state is well typed; no frame beyond the last one is handed out.    *)
TypeOK ==
  /\ fa.current \in 0 .. FRAMES /\ fa.recycled \in Seq(Frame)
  /\ bytes \in [Frame -> Value]
  /\ \A p \in Proc : space[p].pte \in [Vpn -> Frame \cup {None}]
  /\ kstack \in [Proc -> Seq(Frame)]
  /\ life \in [Proc -> {"none", "live", "zombie", "leaked"}]

(* Every frame ever handed out is in exactly one place: recycled, a page   *)
(* table, an area or a kernel stack.  So dealloc never panics, nothing is  *)
(* freed twice, and nothing but the memory of leaked TCBs is lost.         *)
held_by(p) == kstack[p] \o table_frames_of(space[p]) \o data_frames_of(space[p])

FramesAccounted ==
  /\ IsInjective(fa.recycled)
  /\ \A p \in Proc : /\ IsInjective(held_by(p))
                     /\ Range(held_by(p)) \cap Range(fa.recycled) = {}
  /\ \A p, q \in Proc : p # q => Range(held_by(p)) \cap Range(held_by(q)) = {}
  /\ Range(fa.recycled) \cup UNION {Range(held_by(p)) : p \in Proc} = 0 .. fa.current - 1

(* The page table of a live process agrees with its areas: a page is       *)
(* mapped exactly when one area holds a frame for it, and to that frame.   *)
(* (A zombie's page table keeps entries for frames it has given back.)     *)
TableMatchesAreas ==
  \A p \in Proc : life[p] = "live" =>
    \A vpn \in Vpn \ {TRAMPOLINE} :
      {area.data_frames[vpn] : area \in
         {a \in Range(space[p].areas) : vpn \in DOMAIN a.data_frames}}
      = {space[p].pte[vpn]} \ {None}

(* After the check of sys_fork, the data, the page table and the kernel    *)
(* stack of the child find frames, as long as the root, the nodes on the   *)
(* way to the pages of the parent's areas and to the trampoline, and the   *)
(* kernel stack are no more than the margin.  (The nodes are not checked:  *)
(* with areas far apart they are more, and find_pte_create panics.)        *)
nodes_to(s) ==
  nodes_of({TRAMPOLINE} \cup UNION {Range(pages(area)) : area \in Range(s.areas)})

ForkFits ==
  \A p \in Proc :
    /\ life[p] = "live" /\ fork_fits(p)
    /\ 1 + Cardinality(nodes_to(space[p])) + KSTACK <= Margin
    => fork_space(p).status \notin {"full", "out of frames"}

(* Nor does an mmap run out of frames after the check of                   *)
(* map_virtual_pages, also when the check has rounded its length down.     *)
MmapFits ==
  \A p \in Proc, start \in Vpn, n \in 1 .. MaxPages :
    life[p] = "live" /\ mmap_fits(n, FALSE) /\ ~wraps(start, n) =>
      mmap_space(p, start, n).status \notin {"full", "out of frames"}

(* memory_set.rs says of from_existed_user: "copies an identical address   *)
(* space".  So a fork does not fail on the parent's own pages.             *)
ForkCopies == panic \notin {"unmapped page copied", "mapped before"}
=============================================================================
