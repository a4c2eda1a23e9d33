-------------------------------- MODULE Task --------------------------------
(***************************************************************************)
(* Processes of the kernel: the pid allocator, the FIFO ready queue, the   *)
(* processor, the process tree and the system calls that change them       *)
(* (os/src/task, os/src/syscall/process.rs), driven by timer interrupts    *)
(* and by user programs.  One hart, and a trap taken inside the kernel     *)
(* panics, so kernel code runs without interruption from a trap to the     *)
(* point where it gives the hart up: each action is such a stretch.        *)
(*                                                                         *)
(* A task control block (TCB) owns its PidHandle, so at any time a pid     *)
(* names at most one TCB and TCBs are identified by their pid.  Arcs to a  *)
(* TCB are the places that hold it: ready_queue, current, the children     *)
(* vectors, the static INITPROC, and the kernel stack of a task that       *)
(* called exit inside sys_fork (leaked).  A TCB with no Arc is dropped.    *)
(***************************************************************************)
EXTENDS Vec, FiniteSets

CONSTANT MaxPid  \* bound: fork stops when the allocator would pass this pid

ASSUME MaxPidAssumption == MaxPid \in Nat \ {0}

VARIABLES
  pid_current,   \* PidAllocator.current
  pid_recycled,  \* PidAllocator.recycled, a stack
  ready_queue,   \* TaskManager.ready_queue
  current,       \* ProcessorInner.current
  task_status,   \* TaskStatus of each TCB, "Dropped" when there is none
  parent,        \* the Weak parent pointer of each TCB
  children,      \* the children vector of each TCB
  leaked,        \* TCBs with an Arc in a frame that is never returned to
  a0,            \* x[10] in initproc's trap context: its last call's result
  result         \* what the last step returned to its program, 0 if nothing

vars == <<pid_current, pid_recycled, ready_queue, current, task_status,
          parent, children, leaked, a0, result>>

Pid == 0 .. MaxPid - 1
INITPROC == 0
None == -1       \* Option::None

Live == {p \in Pid : task_status[p] # "Dropped"}

(* Some Arc to p exists, for the given contents of the places that hold   *)
(* Arcs.                                                                   *)
Referenced(p, queue, cur, kids, leak) ==
  \/ p = INITPROC
  \/ p \in Range(queue)
  \/ p = cur
  \/ \E q \in Pid : p \in Range(kids[q])
  \/ p \in leak

(* Arc::strong_count                                                       *)
strong_count(p) ==
    (IF p = INITPROC THEN 1 ELSE 0)
  + Cardinality({i \in DOMAIN ready_queue : ready_queue[i] = p})
  + (IF p = current THEN 1 ELSE 0)
  + Cardinality({slot \in UNION {{q} \X DOMAIN children[q] : q \in Pid} :
                   children[slot[1]][slot[2]] = p})
  + (IF p \in leaked THEN 1 ELSE 0)

Init ==
  /\ pid_current = 1
  /\ pid_recycled = <<>>
  /\ ready_queue = <<INITPROC>>
  /\ current = None
  /\ task_status = [p \in Pid |-> IF p = INITPROC THEN "Ready" ELSE "Dropped"]
  /\ parent = [p \in Pid |-> None]
  /\ children = [p \in Pid |-> <<>>]
  /\ leaked = {}
  /\ a0 = 0
  /\ result = 0

(* A system call of p returns r.  Only initproc's program is modelled, so  *)
(* only its trap context is kept.                                          *)
answers(p, r) ==
  /\ result' = r
  /\ a0' = IF p = INITPROC THEN r ELSE a0

(* No system call returns.                                                 *)
no_answer == result' = 0 /\ UNCHANGED a0

-----------------------------------------------------------------------------
(* The scheduler.                                                          *)

(* Processor::run: the idle flow fetches the head of the ready queue.  It  *)
(* panics when the queue is empty.                                         *)
run_tasks ==
  /\ current = None
  /\ ready_queue # <<>>
  /\ current' = Head(ready_queue)
  /\ ready_queue' = Tail(ready_queue)
  /\ task_status' = [task_status EXCEPT ![Head(ready_queue)] = "Running"]
  /\ no_answer
  /\ UNCHANGED <<pid_current, pid_recycled, parent, children, leaked>>

(* Mutated forms: add_task forgotten; the processor keeps its Arc; the     *)
(* task is put at the front of the queue.                                  *)
suspend_without_add(p) ==
  /\ current = p
  /\ current' = None
  /\ task_status' = [task_status EXCEPT ![p] = "Ready"]
  /\ UNCHANGED <<pid_current, pid_recycled, ready_queue, parent, children,
                 leaked>>

suspend_keeping_current(p) ==
  /\ current = p
  /\ current' = p
  /\ task_status' = [task_status EXCEPT ![p] = "Ready"]
  /\ ready_queue' = Append(ready_queue, p)
  /\ UNCHANGED <<pid_current, pid_recycled, parent, children, leaked>>

suspend_to_front(p) ==
  /\ current = p
  /\ current' = None
  /\ task_status' = [task_status EXCEPT ![p] = "Ready"]
  /\ ready_queue' = <<p>> \o ready_queue
  /\ UNCHANGED <<pid_current, pid_recycled, parent, children, leaked>>

suspend_current_and_run_next(p) ==
  /\ current = p
  /\ current' = None
  /\ task_status' = [task_status EXCEPT ![p] = "Ready"]
  /\ ready_queue' = Append(ready_queue, p)
  /\ UNCHANGED <<pid_current, pid_recycled, parent, children, leaked>>

(* A supervisor timer interrupt taken in user mode.                        *)
timer_interrupt(p) ==
  suspend_current_and_run_next(p) /\ no_answer

(* sys_yield returns 0 when p runs again; nobody reads it before that.     *)
sys_yield(p) ==
  suspend_current_and_run_next(p) /\ answers(p, 0)

-----------------------------------------------------------------------------
(* Exit.                                                                   *)

(* PidHandle::drop and PidAllocator::dealloc                               *)
dealloc(pid) == Append(pid_recycled, pid)

(* Mutated form: children.clear() forgotten.                               *)
reparented_without_clear(p) ==
  [q \in Pid |-> IF q = INITPROC /\ p # INITPROC
                 THEN children[INITPROC] \o children[p] ELSE children[q]]

(* The children vectors after p has handed its own to initproc.            *)
reparented(p) ==
  [q \in Pid |-> IF q = p THEN <<>>
                 ELSE IF q = INITPROC THEN children[INITPROC] \o children[p]
                 ELSE children[q]]

(* Mutated form: the children stay with the zombie.                        *)
exit_without_reparenting(p, abandoned) ==
  /\ current = p
  /\ current' = None
  /\ leaked' = leaked \cup abandoned
  /\ task_status' = [task_status EXCEPT ![p] = "Zombie"]
  /\ no_answer
  /\ UNCHANGED <<pid_current, pid_recycled, ready_queue, parent, children>>

(* exit_current_and_run_next; abandoned are the TCBs to which the frames   *)
(* of the exiting kernel flow, which are never unwound, hold an Arc.  The  *)
(* TCB itself is dropped when no Arc is left.                              *)
exit_current_and_run_next(p, abandoned) ==
  LET kids == reparented(p)
      leak == leaked \cup abandoned
      kept == Referenced(p, ready_queue, None, kids, leak)
  IN /\ current = p
     /\ current' = None
     /\ children' = kids
     /\ leaked' = leak
     /\ parent' = [c \in Pid |->
                     IF p # INITPROC /\ c \in Range(children[p])
                     THEN INITPROC ELSE parent[c]]
     /\ task_status' = [task_status EXCEPT
                          ![p] = IF kept THEN "Zombie" ELSE "Dropped"]
     /\ pid_recycled' = IF kept THEN pid_recycled ELSE dealloc(p)
     /\ no_answer
     /\ UNCHANGED <<pid_current, ready_queue>>

(* sys_exit, and the page faults and illegal instructions that kill the    *)
(* running program.                                                        *)
sys_exit(p) == exit_current_and_run_next(p, {})

-----------------------------------------------------------------------------
(* Fork and spawn.                                                         *)

(* PidAllocator::alloc                                                     *)
pid_alloc == IF pid_recycled # <<>> THEN top(pid_recycled) ELSE pid_current

PidAvailable == pid_recycled # <<>> \/ pid_current < MaxPid

(* Mutated form: the recycled pid is read but not popped.                  *)
fork_without_pop(p) ==
  LET c == pid_alloc
  IN /\ PidAvailable
     /\ pid_current' = IF pid_recycled # <<>> THEN pid_current
                                              ELSE pid_current + 1
     /\ task_status' = [task_status EXCEPT ![c] = "Ready"]
     /\ parent' = [parent EXCEPT ![c] = p]
     /\ children' = [children EXCEPT ![p] = Append(@, c), ![c] = <<>>]
     /\ ready_queue' = Append(ready_queue, c)
     /\ answers(p, c)
     /\ UNCHANGED <<pid_recycled, current, leaked>>

(* TaskControlBlock::fork, when the address space could be copied,         *)
(* followed by add_task.                                                   *)
fork(p) ==
  LET c == pid_alloc
  IN /\ PidAvailable
     /\ pid_recycled' = IF pid_recycled # <<>> THEN pop(pid_recycled)
                                               ELSE pid_recycled
     /\ pid_current' = IF pid_recycled # <<>> THEN pid_current
                                              ELSE pid_current + 1
     /\ task_status' = [task_status EXCEPT ![c] = "Ready"]
     /\ parent' = [parent EXCEPT ![c] = p]
     /\ children' = [children EXCEPT ![p] = Append(@, c), ![c] = <<>>]
     /\ ready_queue' = Append(ready_queue, c)
     /\ answers(p, c)
     /\ UNCHANGED <<current, leaked>>

(* A syscall of p that returns r and changes nothing else.                 *)
returns(p, r) ==
  /\ answers(p, r)
  /\ UNCHANGED <<pid_current, pid_recycled, ready_queue, current,
                 task_status, parent, children, leaked>>

(* sys_fork: short of frames it exits the caller, while its own local      *)
(* current_task still holds an Arc to the caller's TCB; -1 when the frames *)
(* left run out while the address space is copied.                         *)
sys_fork(p, low_memory, copied) ==
  /\ current = p
  /\ IF low_memory THEN exit_current_and_run_next(p, {p})
     ELSE IF copied THEN fork(p)
     ELSE returns(p, -1)

(* sys_spawn: no frame check; -1 when the file does not exist or the       *)
(* address space cannot be copied.                                         *)
sys_spawn(p, ok) ==
  /\ current = p
  /\ IF ok THEN fork(p) ELSE returns(p, -1)

-----------------------------------------------------------------------------
(* Waitpid.                                                                *)

Matches(c, pid) == pid = -1 \/ pid = 0 \/ pid = c

(* Mutated forms: children that have not exited are taken too; only the    *)
(* first child is looked at.                                               *)
any_child_idx(p, pid) ==
  position(children[p], LAMBDA c : Matches(c, pid))

first_child_idx(p, pid) ==
  IF /\ children[p] # <<>>
     /\ task_status[children[p][1]] = "Zombie" /\ Matches(children[p][1], pid)
  THEN 1 ELSE 0

(* The index of the first matching zombie in p's children vector, or 0.    *)
zombie_idx(p, pid) ==
  position(children[p],
           LAMBDA c : task_status[c] = "Zombie" /\ Matches(c, pid))

(* Mutated form: the zombie stays in the vector.                           *)
reap_without_remove(p, i, writable) ==
  /\ answers(p, IF writable THEN children[p][i] ELSE -1)
  /\ UNCHANGED <<pid_current, pid_recycled, ready_queue, current,
                 task_status, parent, children, leaked>>

(* The found zombie leaves the vector; its TCB is dropped when the Arc     *)
(* taken out was the last.  All this is done before exit_code_ptr is       *)
(* looked at.                                                              *)
reap(p, i, writable) ==
  LET c == children[p][i]
      kids == [children EXCEPT ![p] = remove(@, i)]
      kept == Referenced(c, ready_queue, current, kids, leaked)
  IN /\ children' = kids
     /\ task_status' = IF kept THEN task_status
                       ELSE [task_status EXCEPT ![c] = "Dropped"]
     /\ parent' = IF kept THEN parent ELSE [parent EXCEPT ![c] = None]
     /\ pid_recycled' = IF kept THEN pid_recycled ELSE dealloc(c)
     /\ answers(p, IF writable THEN c ELSE -1)
     /\ UNCHANGED <<pid_current, ready_queue, current, leaked>>

(* sys_waitpid_non_blocking; writable: exit_code_ptr can be written.       *)
sys_waitpid(p, pid, writable) ==
  /\ current = p
  /\ IF ~ \E c \in Range(children[p]) : Matches(c, pid) THEN returns(p, -1)
     ELSE IF zombie_idx(p, pid) = 0 THEN returns(p, -2)
     ELSE reap(p, zombie_idx(p, pid), writable)

-----------------------------------------------------------------------------
(* User programs.                                                          *)

(* initproc forks the shell, then waits for any child for ever, yielding   *)
(* when there is none (-1) or none has exited yet (-2).                    *)
initproc_step ==
  \/ pid_current = 1 /\ sys_fork(INITPROC, FALSE, TRUE)
  \/ pid_current # 1 /\ a0 \in {-1, -2} /\ sys_yield(INITPROC)
  \/ /\ pid_current # 1 /\ a0 \notin {-1, -2}
     /\ sys_waitpid(INITPROC, -1, TRUE)

(* Any other program makes any call at any time.                           *)
user_step(p) ==
  \/ \E low_memory, copied \in BOOLEAN : sys_fork(p, low_memory, copied)
  \/ \E ok \in BOOLEAN : sys_spawn(p, ok)
  \/ \E pid \in {-1} \cup Pid, writable \in BOOLEAN :
       sys_waitpid(p, pid, writable)
  \/ sys_yield(p)
  \/ sys_exit(p)

Next ==
  \/ run_tasks
  \/ \E p \in Pid : timer_interrupt(p)
  \/ current = INITPROC /\ initproc_step
  \/ \E p \in Pid \ {INITPROC} : user_step(p)

Spec == Init /\ [][Next]_vars

(* The timer is re-armed at every timer trap, so a running program is      *)
(* interrupted again and again; the idle flow never stops; and initproc,   *)
(* resumed where it was interrupted, reaches its next system call if it    *)
(* is scheduled often enough.  Nothing is assumed of other programs.       *)
Fairness ==
  /\ WF_vars(run_tasks)
  /\ \A p \in Pid : WF_vars(timer_interrupt(p))
  /\ SF_vars(current = INITPROC /\ initproc_step)

FairSpec == Spec /\ Fairness

-----------------------------------------------------------------------------
(* Properties.                                                             *)

TypeOK ==
  /\ pid_current \in 1 .. MaxPid
  /\ pid_recycled \in Seq(Pid)
  /\ ready_queue \in Seq(Pid)
  /\ current \in Pid \cup {None}
  /\ task_status \in [Pid -> {"Ready", "Running", "Zombie", "Dropped"}]
  /\ parent \in [Pid -> Pid \cup {None}]
  /\ children \in [Pid -> Seq(Pid)]
  /\ leaked \in SUBSET Pid
  /\ a0 \in Pid \cup {-1, -2}
  /\ result \in Pid \cup {-1, -2}

(* A process that has not exited is held by the scheduler exactly once:    *)
(* either in one slot of the ready queue, with status Ready, or as the     *)
(* running one; exited and dropped processes are in neither                *)
(* (processor.rs: "either in the task manager or in a Processor").         *)
ScheduledOnce ==
  /\ IsInjective(ready_queue)
  /\ Range(ready_queue) = {p \in Pid : task_status[p] = "Ready"}
  /\ {current} \ {None} = {p \in Pid : task_status[p] = "Running"}

(* The process tree survives exits, orphans and reaping: every live process *)
(* but initproc is in exactly one slot of exactly one children vector, the  *)
(* one of its parent, unless it is a leaked zombie that was waited for;     *)
(* exited processes have no children; dropped ones own nothing.             *)
Owns(q, c) == c \in Range(children[q])

ProcessTree ==
  /\ \A q \in Pid : IsInjective(children[q])
  /\ \A q, c \in Pid : Owns(q, c) =>
        /\ parent[c] = q
        /\ c # INITPROC
        /\ task_status[q] \in {"Ready", "Running"}
        /\ task_status[c] # "Dropped"
  /\ \A c \in Live \ {INITPROC} :
        \/ \E q \in Pid : Owns(q, c)
        \/ c \in leaked /\ task_status[c] = "Zombie"

(* Every process hangs below initproc: no set of processes is cut off from *)
(* it, whatever the order of forks and exits and however pids are reused   *)
(* (leaked zombies, which have no children, are left out).                 *)
RootedAtInitproc ==
  \A S \in SUBSET (Live \ ({INITPROC} \cup leaked)) :
    S # {} => \E c \in S : parent[c] \notin S

(* Pids are neither lost nor handed out twice: below pid_current a pid is  *)
(* either recycled, once, or belongs to a live TCB, so the two assertions  *)
(* of PidAllocator::dealloc hold and a new process never gets the pid, and *)
(* with it the kernel stack, of one that still exists.                     *)
PidsAccounted ==
  /\ IsInjective(pid_recycled)
  /\ Range(pid_recycled) \cap Live = {}
  /\ Range(pid_recycled) \cup Live = 0 .. pid_current - 1

(* initproc never exits, and only exited processes are leaked: with the    *)
(* type and the three invariants above, an inductive invariant.            *)
InitprocAlive == task_status[INITPROC] \in {"Ready", "Running"}

LeakedExited == \A p \in leaked : task_status[p] = "Zombie"

IInv ==
  /\ TypeOK
  /\ ScheduledOnce
  /\ ProcessTree
  /\ PidsAccounted
  /\ InitprocAlive
  /\ LeakedExited

(* "No more tasks" is never reached: some process can always be run.       *)
SomethingToRun == current # None \/ ready_queue # <<>>

(* The assertion of sys_waitpid_non_blocking on the strong count of the    *)
(* zombie it removes holds, and the count is 1 unless the zombie exited    *)
(* inside sys_fork.                                                        *)
WaitpidAssertion ==
  \A q, c \in Pid :
    Owns(q, c) /\ task_status[c] = "Zombie" =>
      strong_count(c) = IF c \in leaked THEN 2 ELSE 1

(* A TCB, and the pid and kernel stack it owns, is only ever dropped by a  *)
(* waitpid of its parent after it exited: in particular no process drops   *)
(* its own TCB, on whose kernel stack exit_current_and_run_next still      *)
(* runs, and none is dropped while it waits in the ready queue.            *)
DroppedByParentOnly ==
  [][\A c \in Pid : c \in Live /\ task_status'[c] = "Dropped" =>
       task_status[c] = "Zombie" /\ current = parent[c]]_vars

(* No starvation: every process in the ready queue gets the processor.     *)
ReadyRuns ==
  \A p \in Pid : task_status[p] = "Ready" ~> task_status[p] = "Running"

(* ch7_initproc.rs: initproc "eventually always reclaims" the zombies that *)
(* were moved under it.                                                    *)
OrphansReaped ==
  \A c \in Pid :
    Owns(INITPROC, c) /\ task_status[c] = "Zombie" ~> ~Owns(INITPROC, c)

(* waitpid reports an exit once, to the parent, and only after the exit:   *)
(* when a call answers with the pid of a child the caller already had,     *)
(* that child was a zombie and is not the caller's child any more.         *)
WaitpidAnswers ==
  [][\A q, c \in Pid :
       q = current /\ Owns(q, c) /\ result' = c =>
         task_status[c] = "Zombie" /\ ~Owns(q, c)']_vars
=============================================================================
