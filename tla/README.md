# TLA+ models of the rCore v3 kernel and easy-fs

This directory holds TLA+ specifications of the kernel in `src/os` and of the
file system in `src/easy-fs`, the TLC configurations that check them on small
instances, and TLAPS proofs of the properties that matter most. Each module
translates the Rust code named at its head; `PROJECT.json` maps every definition
to the lines it models and lists runs, mutants, findings, hazards and theorems.

## 1. The system

A single-hart RISC-V kernel runs user programs in Sv39 address spaces. A trap
from user mode enters the kernel, which is never interrupted there (a trap taken
in the kernel panics) and gives the hart up only in
`suspend_current_and_run_next` and `exit_current_and_run_next`. So the atomic
steps of the kernel are the stretches between two such points. What makes it
hard in spite of that is long-lived shared state: reference-counted task control
blocks, recycled pids and frames, file descriptors that survive in zombies,
system calls that block in the middle of a transfer, and a file system whose
pointers, bitmaps and buffers must agree.

| Component | State | Operations | Hard behaviour | Module |
|---|---|---|---|---|
| processes, scheduler (`os/src/task`, `syscall/process.rs`) | pid allocator, ready queue, processor, statuses, parent/children | fork, spawn, exit, waitpid, yield, timer, idle loop | orphans, zombies, pid reuse, the last `Arc`, starvation | `Task` |
| pipes (`os/src/fs/pipe.rs`) | ring buffer, blocked calls, who has which end | read, write, fork, close, exit, waitpid | blocking mid-transfer, wrap-around, end of file | `Pipe`, `RingBuffer` |
| frames (`os/src/mm/frame_allocator.rs`) | counter and stack of recycled frames | alloc, dealloc | double free, stale contents | `FrameAllocator` |
| address spaces (`os/src/mm`, `task/task.rs`, `task/mod.rs`) | areas, page-table entries and nodes, kernel stacks | exec, fork, spawn, mmap, munmap, exit, waitpid | failing half-way, frame checks made in advance | `AddressSpace`, `MemorySet` |
| block cache (`easy-fs/src/block_cache.rs`) | queue of buffers, flags, references, locks | get, lock, modify, release, replace, end | replacement while in use, lost write-back | `BlockCache` |
| easy-fs (`easy-fs/src/{layout,bitmap,efs,vfs}.rs`) | layout, bitmaps, inodes, data and index blocks, directory | create, open, find, read, write, clear | index boundaries, reuse of blocks, full disk | `DiskInode`, `EasyFs` |
| page tables, user buffers (`os/src/mm/page_table.rs`) | nodes and entries in physical frames | new, map, unmap, drop, translation of user buffers | recycled frames that hold old entries, page boundaries | `PageTable` |
| descriptors, open files, hard links (`os/src/fs/inode.rs`, `syscall/fs.rs`) | fd tables, offsets, two name maps, link counts | openat, close, dup, pipe, read, write, link, unlink, fork, exit, waitpid | name maps against the directory, shared offsets | `OpenFiles` |
| mail boxes (`os/src/fs/mail_box.rs`) | bounded queues of packets | mail_read, mail_write, fork, exit | the target is looked up by pid in the ready queue | `Mail` (over `Task`) |
| the rest | | | see section 6 | |

Interactions: exit and waitpid of `Task` decide when a TCB is dropped, and with
it the descriptors (`Pipe`), the kernel stack and the page table (`MemorySet`).
`Task` shows that only the parent's waitpid drops a TCB, and that the ready
queue starves nobody; `Pipe` and `MemorySet` build on that with a small copy of
the life cycle (`"none"`, `"live"`, `"zombie"`, and `"leaked"` for a process that
exited inside `sys_fork`, whose TCB is never dropped). `Mail` is composed with
`Task` itself: its steps are those of `Task`, with a box added to each TCB, and
the mail calls. `MemorySet` keeps only which pages are mapped; `PageTable` shows
that the nodes in physical memory implement such partial functions. `OpenFiles`
keeps the size of a file and leaves its contents to `EasyFs`. `EasyFs` treats
blocks as a function, which is what `BlockCache` is shown to implement.

## 2. Modules

**`Task`.** TCBs are identified by their pid, as a TCB owns its `PidHandle`.
`Referenced` and `strong_count` count the places that hold an `Arc`; a TCB with
none is dropped and its pid recycled, inside the action that gives up the last
one. `run_tasks` is `Processor::run`, `timer_interrupt` the timer trap,
`exit_current_and_run_next(p, abandoned)` the exit path, where `abandoned` are
the `Arc`s left on a kernel stack that is never unwound (`sys_fork` without
frames). `initproc_step` follows `user/src/bin/ch7_initproc.rs`, because the
kernel relies on it; every other program makes any call in any order, so of the
values calls return only initproc's (`a0`) is kept, and `result` shows the one of
the last step. Whether
memory suffices is a free choice here and the subject of `MemorySet`.

**`RingBuffer`, `Pipe`, `PipeFifo`.** `RingBuffer` is `PipeRingBuffer` with its
head, tail and status. In `Pipe` a read or write is a loop of rounds: at the head
of a round (`read_head`, `write_head`) it looks at the ring once and returns,
gives the hart up, or starts a round; then it moves one byte per step
(`read_copy`, `write_copy`). `PipeFifo` is the promise: a bounded FIFO queue from
which each byte goes to one read.

**`FrameAllocator`, `AddressSpace`, `MemorySet`, `PrivateSpaces`,
`PrivateMemory`.** `AddressSpace` has address spaces as records of areas,
page-table leaves and page-table nodes, and the operations that build them.
Operators that allocate thread a state whose `status` says whether the kernel goes
on, returns an error (`"full"`) or panics. Partly built areas and spaces are
dropped as the code's destructors do. `MemorySet` is the state machine: the
processes and their calls. `PrivateMemory` is the promise, related to the state of
`MemorySet` in `PrivateSpaces`: each process has private pages, cleared when
mapped, copied by fork, replaced by exec. mmap and munmap take any range. One that
reaches the trampoline panics, because its end wraps to 0 and `SimpleRange::new`
asserts `start <= end` (`wraps`); a munmap of the trap context leaves `__restore`
and `__alltraps` faulting into each other (`trap_return`), and ends the behaviour
as a panic does.

**`PageTable`, `UserBuffer`, `PageMap`.** The frames are memory: arrays of
entries, whoever writes them. `find_pte_create` creates the nodes that are missing and `find_pte`
walks from the root, in frames that come from `FrameAllocator` and go back to it,
while programs store what looks like an entry into frames they own (`store`).
`translated_byte_buffer` is an operator on that state, with its check at both
ends of a buffer (`virtual_addr_range_writable`); `UserBuffer` adds the iterator
over its slices, whose `next` panics on an empty slice (`OutOfBounds`).
`PageMap` is the promise: each table is a partial function, changed one page at a
time.

**`OpenFiles`.** The directory, `HARD_LINK_MAP` and `RECYCLED_MAP`, the OSInodes
they and the descriptors refer to, and the descriptor tables. An OSInode is
dropped in the step that gives up the last reference (`refer`). `open_file` has
three cases: `open_named`, `create_file` and `create_again`. Reads and writes go
slice by slice, as the loops of `OSInode` do. An open with a flag that `OpenFlags`
does not have panics (`openat_unknown_flag`).

**`Mail`.** A box is its counter and its queue, kept apart as in the code.
`task_step` is a step of `Task` in which a new TCB gets copies of its parent's
packets; `reachable` is the search of the ready queue.

**`BlockCache`, `BlockStore`.** Overlapping uses of the cache (threads, or nested
closures of one) get, lock, modify and release buffers; replacement takes the
first buffer with no user and writes it back when modified. `BlockStore` is the
promise: one memory of blocks, changed only by whoever is inside the block, of
which the device holds some earlier contents. The block device is external and
appears as the function `disk`.

**`DiskInode`, `EasyFs`, `Files`.** `DiskInode` holds the pointer arithmetic:
`total_blocks`, `get_block_id`, `increase_size` (as the sequence of places that
are filled), `clear_size`, `read_at`, `write_at`. `EasyFs` adds the layout of the
device (the super block that `create` writes and the areas that `create` and
`open` compute from the same numbers on different paths), bitmaps, the directory
and the calls; each holds the file-system lock throughout and is one step. Inodes
and data are at the block numbers that the code computes, and looking for a block
that the device does not have is a failure. An empty write looks up a block all
the same; at the end of a file there may be none, and the lookup then ends at
block 0, the super block (`words`), or panics. Growing a file beyond its last
pointer panics (`too_large`). `Files` is the
promise: named sequences, with the last call and its answer visible, so that a
wrong effect cannot pass for another call's right one.

**`Vec`** has the operations of Rust's vectors and iterators that the code above
uses (`pop`, `remove`, `position`, `for_each`: a loop). It defines a loop by a
recursive function instead of a fold of the community modules, because the loops
of `AddressSpace`, `PageTable` and `OpenFiles` are reasoned about turn by turn.

**`SeqLemmas`, `TaskProofs`, `PipeProofs`, `FileProofs`, `PageTableLemmas`,
`PageTableProofs`, `AddressSpaceLemmas`, `MemorySetProofs`** hold the proofs
(section 5). `FileProofs` is about `BlockCache` and `OpenFiles`; `BlockCache`
therefore calls its specification `CacheSpec`. **`MCPipe`, `MCMemorySet`,
`MCBlockCache`, `MCEasyFs`, `MCPageTable`, `MCOpenFiles`, `MCMail`** name model
values, programs, spans, buffers and flags for TLC. Definitions whose comment starts with
"Mutated form" are plausible mistakes in the definition that follows. Nothing uses them; each, put in the
place of the original, makes TLC refute the property it is paired with in
`PROJECT.json`.

## 3. Runs

| Run | Checks | Shows |
|---|---|---|
| `task` | `ScheduledOnce ProcessTree RootedAtInitproc PidsAccounted SomethingToRun WaitpidAssertion DroppedByParentOnly WaitpidAnswers ReadyRuns OrphansReaped` | scheduler, tree and pid allocator agree in every order of calls and interrupts; the kernel's assertions hold; waitpid answers what it has done; nobody starves; orphaned zombies are reaped |
| `pipe` | `RoundCovered EndsHeld ShortReadIsEof EofIsFinal FifoSpec EofDelivered` | a pipe is a bounded FIFO queue; a short read means end of file; end of file is final, and a blocked reader learns of it once the writers are orphaned zombies |
| `memory` | `TypeOK FramesAccounted TableMatchesAreas ForkFits MmapFits PrivateSpec` | each frame has one owner; an mmap that passes its frame check does not run out of frames, nor does a fork whose page table fits the margin of the check; memory is private |
| `page_table` | `TreeOwned SlicesOwned BytesInOrder MapSpec` | walks stay within the frames of the table; tables are partial functions that programs cannot disturb; a checked buffer leads only to its own bytes, and its iterator skips none of them: it visits them in order, or panics at an empty slice |
| `open_files` | `NamesCovered DescriptorsStable NamesKeepTheirFile OffsetsAdvance` | the maps cover the directory, so open_file always finds a created name; a descriptor means the same open file until it is closed; a name keeps its file through unlink and create; offsets only advance |
| `mail` | `SizeMatches AnswersTruthful MailFifo` | boxes are bounded FIFO queues; mail to a process that has not exited fails exactly when its box is full |
| `cache` | `OneBuffer OnlyRunsOutInUse StoreSpec` | replacement is invisible, and fails only when every buffer is in use |
| `easyfs` | `BlocksOwnedOnce AreasDisjoint AssertionsHold FilesSpec` | no block shared, lost or miscounted; the areas of the device are apart, also when the file system is opened again; easy-fs is a set of named sequences, up to a panic on a full disk, beyond the last pointer of a file, or of an empty write at the end of a file |

Four runs end in a counterexample. Each states what a comment of the
repository says and the code does not do:

| Run | Property | What happens |
|---|---|---|
| `memory_fork` | `ForkCopies` | fork after munmap copies an unmapped page and panics |
| `cache_end` | `WrittenBackAtEnd` | buffers cached when the program ends are not written back |
| `easyfs_area` | `AllocatedBlocksExist` | the data bitmap has more bits than the data area has blocks |
| `page_table_buffer` | `BufferCovered` | the part of a buffer that reaches the end of a page comes out empty, or panics |

### Bounds

- `Task`: 4 pids. Four are enough for a
  grandchild to be orphaned, adopted and reaped while its pid is reused, and for a
  zombie to stand behind a running sibling among initproc's children.
- `Pipe`: 2 processes, a ring of 2 bytes, buffers of up to 2.
  A read or a write of 2 bytes meets a ring that holds one, so calls block in the
  middle, and the ring wraps at once. The proofs cover every ring and buffer size.
- `MemorySet`: 2 processes, one program of one segment, at most 5 areas, 3
  calls that change address spaces, of up to 2 pages each (stores, exits and waits
  are not limited), in 8 pages under nodes of 3 entries. 23 frames are enough for
  a spawn, which needs two address spaces for the child at once, and too few for
  many forks and mmaps: the run meets panics, partial failures and checks that
  just succeed or just fail. The margin of the checks is 5 frames, which covers
  the page table and kernel stack of most forks and not of all: an address space
  with areas in enough places passes the check of `sys_fork` and runs out of frames
  in the copy.
- `PageTable`: 2 tables, 8 frames, nodes of 2 entries, three pages that share a
  leaf node, the node above it or only the root, pages of 3 bytes, and 7 steps, so
  that a frame is node, data and node again, of different tables. Two of the
  pointers lie beyond the last page and lead to the first one, because `indexes`
  takes only the lowest digits of a page number.
- `OpenFiles`: 2 processes, 2 names, 3 OSInodes, 4 descriptors, 6 calls: enough to
  create, link, unlink and create again while a second process shares the file.
  The proofs cover any number.
- `Mail`: 3 pids, boxes of 2 packets, packets of up to 2 bytes, so that boxes fill
  up, packets are cut off and pids are reused while there is mail.
- `BlockCache`: 3 blocks, 2 buffers and 3 clients, so that every buffer can be in
  use when another is needed.
- `EasyFs`: 1 direct pointer, index blocks of 2 pointers, 2 units per block, so a
  file has at most 7 data blocks and reaches every level. Offsets and lengths
  hit, cross and skip the boundaries of each level, are empty at some of them, and
  go beyond the last pointer. Bitmap blocks of 3 bits and 2
  inodes per block, so that the inode area ends in a block that is half used and
  the data bitmap has several blocks. 3 names, 2 inodes beside the directory and
  5 calls, so that inodes run out too.

`CHECK_DEADLOCK FALSE` is set where the model may stop: behind a panic, at the
end of the program, at the bound on calls, or when all processes of a pipe have
exited. The runs `task` and `mail` check deadlock.

### Fairness

`Task`: the idle loop never stops; the timer is re-armed at every timer trap, so
a running program is interrupted again and again (weak fairness of each
interrupt); initproc is resumed where it was interrupted and so reaches its next
call if scheduled often enough (strong fairness). Nothing is assumed of other
programs. `Pipe`: kernel code goes on (weak fairness); a process in the ready
queue is run again, which is `ReadyRuns` of `Task`, though other processes may
hold the hart in between (strong fairness); initproc waits for its children for
ever, which is `OrphansReaped`.

## 4. What the models leave out

Panics end a behaviour; what the interrupted call had done so far is not kept.
Page permissions and the contents of trap contexts are not modelled, a page's
contents is one value. `Task` has no exec (it changes nothing there) and not the
blocking waitpid, which no system-call number reaches. In `EasyFs` a name is a
number and a directory entry one unit; a power failure between two block writes is not a step, since
easy-fs has no recovery to check (`BlockStore` says what the device may hold).
`PageTable` takes it for granted that the frames suffice for a page and its nodes,
and has no `translated_str` and `translated_refmut`, which make the same walk for
one address. In `OpenFiles` calls that return -1 or change nothing (`fstat`, a
name that is refused) are not steps, a file that grows is bounded, and a write of
an empty slice succeeds; that it may panic is in `EasyFs`.
In `Mail` user buffers are valid and lie within a page.
In `MemorySet` addresses have the 39 bits that the page table looks at; a higher
one would lead to the page of its lowest 39 bits, as it does in `PageTable`.
`Margin` is what the frame checks of `sys_fork` and `sys_mmap` keep back.
`MarginAssumption` says that it exceeds the page-table nodes of one mmap, which is
so for any mmap that memory is large enough for. Nothing of the kind is assumed of
a fork, whose page table can need more nodes than the margin when the parent's
areas are far apart. Such a fork passes the check and panics in
`find_pte_create`; `ForkFits` is about the others.

## 5. Proofs

TLAPS proves, for every value of the constants that satisfies the named
assumptions:

- `TaskProofs` (from `MaxPidAssumption`): `TypeCorrect`, `SchedulerCorrect`,
  `TreeCorrect`, `PidsCorrect`, `NeverIdle`, `AssertionHolds`, `Rooted`,
  `DropsCorrect`, `AnswersOnce`, that is, every safety property of the run
  `task`, for any number of pids. The inductive invariant `IInv` joins the type, `ScheduledOnce`,
  `ProcessTree`, `PidsAccounted`, that initproc has not exited and that only
  zombies are leaked. None of these is inductive alone: that a new child is in no
  children vector needs `PidsAccounted` (its pid is not in use), that needs
  `ProcessTree` (a dropped TCB is nobody's child), and that a zombie loses its
  last reference in waitpid needs `ScheduledOnce`. There is one lemma per kind of
  step (`SuspendIInv`, `RunIInv`, `ExitIInv`, `ForkIInv`, `ReturnsIInv`,
  `ReapIInv`), and `StepKinds` reduces `Next` to them. `RootedAtInitproc` is
  proved on top, by showing for each step that a set of processes cut off from
  initproc would have been cut off before.
- `TaskProofs`, second part, on `Mail` (from `MaxPidAssumption` and
  `MailAssumption`): `MailTypeCorrect`, `SizesCorrect`, `AnswersCorrect`, `FifoCorrect`, for any number of pids and any
  capacity. `MailRefinesTask` shows that mail leaves the processes alone, so the
  invariant of `Task` carries over; `AnswersCorrect` needs its
  `ScheduledOnce`: a process that has not exited is running, hence the sender, or
  in the ready queue, hence found. The invariant adds that a dropped TCB has an
  empty box, without which a reused pid would start with old mail.
- `PipeProofs` (from `RingAssumption` and `PipeAssumption`): `TypeCorrect`,
  `RoundsCorrect`, `EndsCorrect`, the refinement `Spec => FifoSpec`
  (`Refinement`), `ShortReadsCorrect` and finality of end of file, for any number
  of processes, ring size and buffer length. `WriteByte` and `ReadByte` say what
  the ring operations do to `contents`; the modulo arithmetic they rest on is in
  `WrapAround` and the `Distance` lemmas.
- `FileProofs` on `BlockCache` (from `CacheAssumption`): `TypeCorrect`,
  `BuffersCorrect`, `PanicsOnlyInUse` and the refinement `CacheSpec => StoreSpec`
  (`Refinement`), for any blocks, clients and cache size. The invariant
  (`CacheInvariant`) joins the type, `OneBuffer`, that a lock has one holder, and
  that a buffer that is not modified equals its block on the device; the last one
  is what makes dropping such a buffer invisible.
- `FileProofs` on `OpenFiles` (from `OpenFilesAssumption`): `NamesCorrect`,
  `DescriptorsCorrect`, `FilesKept`, `OffsetsCorrect`, for any number of
  processes, names and open files and buffers of any number of slices. The
  invariant says that the tables are typed, that whatever the maps and tables refer
  to exists, that a process that does not exist has no descriptors, and that the
  maps cover the directory. A new OSInode takes the place of one that nothing
  refers to (`NextHandleFree`); that is why it is nobody else's, and why the OSInode
  of a name keeps its inode while the name moves between the maps (`FilesKept`).
  `OffsetsCorrect` goes through the loops of read and write slice by slice.
- `PageTableProofs`, with `PageTableLemmas` (from `FramesAssumption` and
  `PageTableAssumption`): `TablesOwnTheirFrames` (`TreeOwned`),
  `BuffersStayInside` (`SlicesOwned`) and the refinement `TablesImplementMaps`
  (`MapSpec`), for any number of frames and tables, any fanout, any page size and
  any set of pages that differ in their indexes. The inductive invariant
  (`Invariance`) joins the type, `FramesOwnedOnce` (a frame is recycled or node or
  data of one table, in one place) and `TablesAreTrees` (the entries of each node
  lead to exactly the nodes, and those of the last level to exactly the data
  frames, that the table keeps). Neither is inductive alone: a walk stays within the
  table's own frames because they form a tree, and the tree stays one because
  nobody else owns, and so nobody else writes, a node. `drop` gives the frames of
  an area back in the order of its pages; that they are an enumeration of them is a
  lemma.
- `MemorySetProofs`, with `AddressSpaceLemmas` (from `FramesAssumption`,
  `SpaceAssumption`, `MemoryAssumption` and `MarginAssumption`): `TypeCorrect`,
  `AllFramesAccounted`, `TablesMatchAreas`, `ForksFit` and `MmapsFit`, that is,
  every invariant of the run `memory`, for any number of frames, pages and processes, any
  program, stack size and fanout. The inductive invariant `IInv` (`SpacesSound`)
  says of each process that its address space and kernel stack are `Sound`: areas,
  entries and nodes are typed, no frame is used twice in it, the entries agree with
  the areas while it lives, nodes are what its pages need; further that the frames
  of two processes are disjoint, and that what processes own and what the
  allocator can hand out are all frames, each once. `AddressSpaceLemmas` shows for
  every operation that builds an address space (`map_one`, `push`, `from_elf`,
  `from_existed_user`, `new_kernel_stack`, also where they fail half-way) that it
  takes frames from the allocator and gives them to that space and to nobody else.
  `ForksFit` and `MmapsFit` need a count: `Enough` says that the frames left cover
  the pages still to be mapped, and one for each node that may still be missing
  among those on the way to the pages in question;
  each turn of the copy keeps it (`MapOneEnough`, `CopyAreaEnough`), so no turn
  runs out of frames. `IInv` was checked with TLC on the instance of the run
  `memory` before it was proved.
- `SeqLemmas`: what `Append`, `Tail`, `remove` and concatenation do to ranges
  and injectivity, that a set of numbers that is not empty has a least one, and
  induction over the turns of a loop (`UpTo`, `StepByStep`).

The prover cannot instantiate induction theorems over an operator. `UpTo` says the
same of a set of numbers, which it can; so the loops that are recursive functions
over `0 .. n` are proved about, one lemma for each loop (`...Turns`) giving its
states one by one.

Only proved, and in no run: the type invariants of `Task`, `Pipe`, `Mail` and
`BlockCache` (that of `Mail` says, too, that packets fit their buffer). Only
model-checked: the liveness properties (the prover does not do fairness),
`BytesInOrder` of `UserBuffer`, the refinement `PrivateSpec` of `MemorySet`
(contents of pages; who owns which frame is proved), `EasyFs`, and the four
properties that the code does not satisfy.

## 6. Not modelled

Standard input and output, logging, SBI calls, the virtio driver, the kernel heap
and the boot sequence are I/O, hardware access or external crates. Context switch
and trap entry are assembly, modelled only by their effect. The stride scheduler
is not used by the build, so priorities steer nothing. The kernel's own address
space is set up once; the kernel stacks that come and go in it are in `MemorySet`.
User programs other than initproc and the user library are arbitrary sequences of
calls. The host side of `easy-fs-fuse` is file I/O; only the end of the program
matters to `BlockCache`, and opening an image again to `EasyFs`.

Not composed: `Pipe`, `MemorySet` and `OpenFiles` each carry their own small life
cycle of processes instead of that of `Task`, because the product is out of TLC's
reach. File-system calls are not interleaved block by block with the cache, since
each of them holds one lock throughout; that the blocks it locks are different
ones is `BlocksOwnedOnce` and `AreasDisjoint`.
