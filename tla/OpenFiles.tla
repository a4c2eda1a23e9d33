------------------------------ MODULE OpenFiles ------------------------------
(***************************************************************************)
(* Names, open files and file descriptors: os/src/fs/inode.rs, the file    *)
(* calls of os/src/syscall/fs.rs, and the descriptor tables of TCBs.       *)
(*                                                                         *)
(* Programs find files through HARD_LINK_MAP, which lives in memory only;  *)
(* the directory of easy-fs keeps every name a file was created under, and *)
(* unlink moves a name to RECYCLED_MAP.  Both maps hold OSInodes: an open  *)
(* file with an offset and access rights, which a descriptor may share.    *)
(* An OSInode is dropped when no map and no descriptor refers to it.       *)
(*                                                                         *)
(* An easy-fs inode is identified by the name it was created under; of its *)
(* contents, which Files describes, only the size is kept.  No call gives  *)
(* up the hart, so each is one step.  Calls that return -1, or that read   *)
(* or write other files than OSInodes, change nothing here and are not     *)
(* steps.                                                                  *)
(***************************************************************************)
EXTENDS Vec, FiniteSets

CONSTANTS
  Proc, First,   \* processes, and the one that exists at the beginning
  Name,          \* file names
  Apps,          \* the names in the directory when the kernel starts
  Slices,        \* the user buffers: lengths of the slices they come in
  Openings,      \* the sets of flags that programs pass to openat
  MaxHandles,    \* bound: OSInodes
  MaxFds,        \* bound: length of a descriptor table
  MaxLinks,      \* bound: link count
  MaxLen,        \* bound: size of a file
  MaxCalls       \* bound: calls made

ASSUME OpenFilesAssumption ==
  /\ First \in Proc
  /\ 0 \notin Name
  /\ Apps \subseteq Name /\ IsFiniteSet(Apps) /\ Cardinality(Apps) <= MaxHandles
  /\ Slices \subseteq Seq(Nat)
  /\ Openings \subseteq SUBSET {"WRONLY", "RDWR", "CREATE", "TRUNC"}
  /\ MaxHandles \in Nat /\ MaxFds \in Nat
  /\ MaxLinks \in Nat /\ MaxLen \in Nat /\ MaxCalls \in Nat

VARIABLES
  directory,   \* the names in the root directory of easy-fs
  size,        \* of each inode's file
  nlink,       \* its link count, kept in the Inode in memory
  hard,        \* HARD_LINK_MAP
  recycled,    \* RECYCLED_MAP
  os_inode,    \* the OSInodes
  fd_table,    \* of each process: Stdin, Stdout, an OSInode or None
  life,        \* "none", "live" or "zombie"; a zombie keeps its table
  panic,       \* whether the kernel has panicked
  calls        \* the calls made, up to MaxCalls

fs_vars == <<directory, size, nlink>>
map_vars == <<hard, recycled>>
vars == <<fs_vars, map_vars, os_inode, fd_table, life, panic, calls>>

None == 0
Stdin == -1
Stdout == -2
PipeRead == -3      \* the ends of a pipe: see Pipe
PipeWrite == -4
Handle == 1 .. MaxHandles
Entry == Handle \cup {None, Stdin, Stdout, PipeRead, PipeWrite}

Dropped == [inode |-> None, offset |-> 0, readable |-> FALSE, writable |-> FALSE]

(* OSInode::new                                                            *)
new_os_inode(n, readable, writable) ==
  [inode |-> n, offset |-> 0, readable |-> readable, writable |-> writable]

(* OpenFlags::read_write                                                   *)
readable(flags) == "WRONLY" \notin flags
writable(flags) == flags # {}

Named == {n \in Name : hard[n] # None}
inode_of(n) == os_inode[hard[n]].inode

(* Some Arc to OSInode h exists.                                           *)
Referenced(h, named, unlinked, tables) ==
  \/ \E n \in Name : named[n] = h \/ unlinked[n] = h
  \/ \E p \in Proc : h \in Range(tables[p])

(* The OSInodes after those that nothing refers to are dropped.            *)
dropping(inodes, named, unlinked, tables) ==
  [h \in Handle |-> IF Referenced(h, named, unlinked, tables)
                    THEN inodes[h] ELSE Dropped]

FreeHandles == {h \in Handle : os_inode[h] = Dropped}
NextHandle == least(FreeHandles)

(* list_apps maps the names it finds in the directory; initproc starts     *)
(* with three descriptors.                                                 *)
Init ==
  LET apps == CHOOSE s \in [1 .. Cardinality(Apps) -> Apps] : IsInjective(s)
  IN /\ directory = Apps
     /\ size = [n \in Name |-> IF n \in Apps THEN 1 ELSE 0]
     /\ nlink = [n \in Name |-> 1]
     /\ hard = [n \in Name |->
                  IF n \in Apps THEN position(apps, LAMBDA m : m = n) ELSE None]
     /\ recycled = [n \in Name |-> None]
     /\ os_inode = [h \in Handle |-> IF h <= Len(apps)
                                     THEN new_os_inode(apps[h], TRUE, FALSE)
                                     ELSE Dropped]
     /\ fd_table = [p \in Proc |-> IF p = First THEN <<Stdin, Stdout, Stdout>>
                                                ELSE <<>>]
     /\ life = [p \in Proc |-> IF p = First THEN "live" ELSE "none"]
     /\ panic = FALSE
     /\ calls = 0

(* New contents of the maps and tables; OSInodes that lost their last Arc  *)
(* are dropped.                                                            *)
refer(inodes, named, unlinked, tables) ==
  /\ hard' = named
  /\ recycled' = unlinked
  /\ fd_table' = tables
  /\ os_inode' = dropping(inodes, named, unlinked, tables)

-----------------------------------------------------------------------------
(* Descriptor tables.  Descriptor fd is element fd + 1 of the table.       *)

(* Mutated form: a full table is not extended.                             *)
alloc_fd_last(table) ==
  IF None \in Range(table) THEN position(table, LAMBDA e : e = None)
  ELSE Len(table)

(* TaskControlBlockInner::alloc_fd: the lowest free descriptor.            *)
alloc_fd(table) ==
  IF None \in Range(table) THEN position(table, LAMBDA e : e = None)
  ELSE Len(table) + 1

with_file(table, e) ==
  IF alloc_fd(table) > Len(table) THEN Append(table, e)
  ELSE [table EXCEPT ![alloc_fd(table)] = e]

FdAvailable(p) == alloc_fd(fd_table[p]) <= MaxFds

Open(p) == {i \in DOMAIN fd_table[p] : fd_table[p][i] # None}
OpenFile(p) == {i \in Open(p) : fd_table[p][i] \in Handle}

sys_close(p, i) ==
  /\ i \in Open(p)
  /\ refer(os_inode, hard, recycled, [fd_table EXCEPT ![p][i] = None])
  /\ UNCHANGED <<fs_vars, life>>

sys_dup(p, i) ==
  /\ i \in Open(p) /\ FdAvailable(p)
  /\ refer(os_inode, hard, recycled,
           [fd_table EXCEPT ![p] = with_file(@, fd_table[p][i])])
  /\ UNCHANGED <<fs_vars, life>>

sys_pipe(p) ==
  LET one == with_file(fd_table[p], PipeRead)
  IN /\ FdAvailable(p) /\ alloc_fd(one) <= MaxFds
     /\ refer(os_inode, hard, recycled,
              [fd_table EXCEPT ![p] = with_file(one, PipeWrite)])
     /\ UNCHANGED <<fs_vars, life>>

(* The child inherits the table; exec leaves it alone.                     *)
fork(p, c) ==
  /\ life[c] = "none"
  /\ life' = [life EXCEPT ![c] = "live"]
  /\ refer(os_inode, hard, recycled, [fd_table EXCEPT ![c] = fd_table[p]])
  /\ UNCHANGED fs_vars

(* Exit closes nothing; the table goes with the TCB when it is waited for. *)
exit(p) ==
  /\ p # First
  /\ life' = [life EXCEPT ![p] = "zombie"]
  /\ UNCHANGED <<fs_vars, map_vars, os_inode, fd_table>>

reap(c) ==
  /\ life[c] = "zombie"
  /\ life' = [life EXCEPT ![c] = "none"]
  /\ refer(os_inode, hard, recycled, [fd_table EXCEPT ![c] = <<>>])
  /\ UNCHANGED fs_vars

-----------------------------------------------------------------------------
(* open_file, followed by alloc_fd.                                        *)

opened_in(p, h) == [fd_table EXCEPT ![p] = with_file(@, h)]

(* Mutated form: the map's OSInode is rewound.                             *)
open_named_rewinding(p, n, flags) ==
  LET h == NextHandle
  IN /\ n \in Named /\ FreeHandles # {}
     /\ size' = IF flags \cap {"CREATE", "TRUNC"} = {} THEN size
                ELSE [size EXCEPT ![inode_of(n)] = 0]
     /\ refer([os_inode EXCEPT ![h] = new_os_inode(inode_of(n), readable(flags),
                                                   writable(flags)),
                               ![hard[n]].offset = 0],
              hard, recycled, opened_in(p, h))
     /\ UNCHANGED <<directory, nlink>>

(* The name is in HARD_LINK_MAP: a new OSInode for the inode it leads to,  *)
(* which CREATE and TRUNC empty.                                           *)
open_named(p, n, flags) ==
  LET h == NextHandle
  IN /\ n \in Named /\ FreeHandles # {}
     /\ size' = IF flags \cap {"CREATE", "TRUNC"} = {} THEN size
                ELSE [size EXCEPT ![inode_of(n)] = 0]
     /\ refer([os_inode EXCEPT ![h] = new_os_inode(inode_of(n), readable(flags),
                                                   writable(flags))],
              hard, recycled, opened_in(p, h))
     /\ UNCHANGED <<directory, nlink>>

(* Neither in the map nor in the directory: a new inode, whose OSInode is  *)
(* both returned and kept in the map.                                      *)
create_file(p, n, flags) ==
  LET h == NextHandle
  IN /\ "CREATE" \in flags /\ n \notin Named /\ n \notin directory
     /\ FreeHandles # {}
     /\ directory' = directory \cup {n}
     /\ size' = [size EXCEPT ![n] = 0]
     /\ nlink' = [nlink EXCEPT ![n] = 1]
     /\ refer([os_inode EXCEPT ![h] = new_os_inode(n, readable(flags),
                                                   writable(flags))],
              [hard EXCEPT ![n] = h], recycled, opened_in(p, h))

(* In the directory only: the OSInode that unlink put aside comes back as  *)
(* it is.  The unwrap fails when there is none (NamesCovered).             *)
create_again(p, n, flags) ==
  /\ "CREATE" \in flags /\ n \notin Named /\ n \in directory
  /\ recycled[n] # None
  /\ refer(os_inode, [hard EXCEPT ![n] = recycled[n]],
           [recycled EXCEPT ![n] = None], opened_in(p, recycled[n]))
  /\ UNCHANGED fs_vars

sys_openat(p, n, flags) ==
  /\ FdAvailable(p)
  /\ \/ open_named(p, n, flags)
     \/ create_file(p, n, flags)
     \/ create_again(p, n, flags)
  /\ UNCHANGED life

(* sys_openat with a bit that is no flag: from_bits returns None, and its  *)
(* unwrap panics.                                                          *)
openat_unknown_flag ==
  /\ panic' = TRUE
  /\ UNCHANGED <<fs_vars, map_vars, os_inode, fd_table, life>>

-----------------------------------------------------------------------------
(* Hard links.                                                             *)

(* link: the new name gets the OSInode of the old one.                     *)
sys_linkat(old, new) ==
  /\ old # new /\ old \in Named
  /\ nlink[inode_of(old)] < MaxLinks
  /\ nlink' = [nlink EXCEPT ![inode_of(old)] = @ + 1]
  /\ refer(os_inode, [hard EXCEPT ![new] = hard[old]], recycled, fd_table)
  /\ UNCHANGED <<directory, size, life>>

(* Inode::destory_nlink                                                    *)
destory_nlink(count) == IF count > 1 THEN count - 1 ELSE count

(* Mutated form: the name is forgotten.                                    *)
unlink_without_recycling(n) ==
  /\ n \in Named
  /\ nlink' = [nlink EXCEPT ![inode_of(n)] = destory_nlink(@)]
  /\ refer(os_inode, [hard EXCEPT ![n] = None], recycled, fd_table)
  /\ UNCHANGED <<directory, size, life>>

(* Mutated form: an OSInode that was put aside under the name stays there. *)
unlink_keeping_first(n) ==
  /\ n \in Named
  /\ nlink' = [nlink EXCEPT ![inode_of(n)] = destory_nlink(@)]
  /\ refer(os_inode, [hard EXCEPT ![n] = None],
           [recycled EXCEPT ![n] = IF @ = None THEN hard[n] ELSE @], fd_table)
  /\ UNCHANGED <<directory, size, life>>

sys_unlinkat(n) ==
  /\ n \in Named
  /\ nlink' = [nlink EXCEPT ![inode_of(n)] = destory_nlink(@)]
  /\ refer(os_inode, [hard EXCEPT ![n] = None],
           [recycled EXCEPT ![n] = hard[n]], fd_table)
  /\ UNCHANGED <<directory, size, life>>

-----------------------------------------------------------------------------
(* OSInode::read and OSInode::write, slice by slice.                       *)

smaller(m, n) == IF m < n THEN m ELSE n
larger(m, n) == IF m > n THEN m ELSE n

(* Inode::read_at                                                          *)
read_at(bytes, offset, len) ==
  IF offset >= smaller(offset + len, bytes) THEN 0
  ELSE smaller(offset + len, bytes) - offset

(* One slice of a read: the loop ends at the first one that gets nothing.  *)
read_slice(bytes, st, len) ==
  LET n == read_at(bytes, st.offset, len)
  IN IF st.done \/ n = 0 THEN [offset |-> st.offset, done |-> TRUE]
     ELSE [offset |-> st.offset + n, done |-> FALSE]

(* The offset after a read.                                                *)
after_read(bytes, offset, slices) ==
  for_each(LAMBDA st, len : read_slice(bytes, st, len),
           [offset |-> offset, done |-> FALSE], slices).offset

(* write_at grows the file to the end of the slice.                        *)
write_slice(st, len) ==
  [offset |-> st.offset + len, size |-> larger(st.size, st.offset + len)]

(* Offset and size after a write.                                          *)
after_write(bytes, offset, slices) ==
  for_each(write_slice, [offset |-> offset, size |-> bytes], slices)

sys_read(p, i, slices) ==
  LET h == fd_table[p][i]
  IN /\ i \in OpenFile(p) /\ os_inode[h].readable
     /\ os_inode' = [os_inode EXCEPT ![h].offset =
                       after_read(size[os_inode[h].inode], @, slices)]
     /\ UNCHANGED <<fs_vars, map_vars, fd_table, life>>

sys_write(p, i, slices) ==
  LET h == fd_table[p][i]
      n == os_inode[h].inode
      st == after_write(size[n], os_inode[h].offset, slices)
  IN /\ i \in OpenFile(p) /\ os_inode[h].writable
     /\ st.size <= MaxLen
     /\ os_inode' = [os_inode EXCEPT ![h].offset = st.offset]
     /\ size' = [size EXCEPT ![n] = st.size]
     /\ UNCHANGED <<directory, nlink, map_vars, fd_table, life>>

-----------------------------------------------------------------------------
call(p) ==
  \/ \E i \in DOMAIN fd_table[p] :
       \/ sys_close(p, i)
       \/ sys_dup(p, i)
       \/ \E slices \in Slices : sys_read(p, i, slices) \/ sys_write(p, i, slices)
  \/ \E c \in Proc : fork(p, c)
  \/ exit(p)
  \/ sys_pipe(p)
  \/ \E n \in Name : \/ \E flags \in Openings : sys_openat(p, n, flags)
                     \/ sys_unlinkat(n)
                     \/ \E new \in Name : sys_linkat(n, new)

Next ==
  /\ ~panic /\ calls < MaxCalls /\ calls' = calls + 1
  /\ \/ /\ \/ \E p \in Proc : life[p] = "live" /\ call(p)
           \/ \E c \in Proc : reap(c)
        /\ UNCHANGED panic
     \/ openat_unknown_flag

Spec == Init /\ [][Next]_vars

-----------------------------------------------------------------------------
(* Properties.                                                             *)

(* The unwrap in open_file cannot fail: whatever programs create, link and *)
(* unlink, every name of the directory is in one of the two maps.          *)
NamesCovered ==
  \A n \in directory : hard[n] # None \/ recycled[n] # None

Holders(h) == {x \in Proc \X (1 .. MaxFds) :
                 x[2] \in DOMAIN fd_table[x[1]] /\ fd_table[x[1]][x[2]] = h}

Kept(p, i) == i \in DOMAIN fd_table'[p] /\ fd_table'[p][i] = fd_table[p][i]

(* A descriptor means the same open file until its own process closes it   *)
(* (or is gone): no open, dup or fork takes a descriptor that is in use.   *)
DescriptorsStable ==
  [][\A p \in Proc : \A i \in Open(p) :
       Kept(p, i) \/ (life[p] = "live" /\ sys_close(p, i)) \/ reap(p)]_vars

(* The inode that a name leads to, or led to before it was unlinked.       *)
file_of(n) ==
  IF hard[n] # None THEN os_inode[hard[n]].inode
  ELSE IF recycled[n] # None THEN os_inode[recycled[n]].inode ELSE None

(* A name of the directory leads to the same file for ever: while its      *)
(* OSInode moves between the two maps, descriptors to it come and go, and  *)
(* whichever processes unlink the name and create it again.  Only link     *)
(* gives the name another file.                                            *)
NamesKeepTheirFile ==
  [][\A n \in directory :
       \/ n \in directory' /\ file_of(n)' = file_of(n)
       \/ \E old \in Name : sys_linkat(old, n)]_vars

(* Writes through one open file never go back over what was written        *)
(* through it: its offset never decreases, whoever shares it, while some   *)
(* descriptor refers to it, and the file it leads to stays the same.       *)
OffsetsAdvance ==
  [][\A h \in Handle : Holders(h) # {} /\ Holders(h)' # {} =>
       /\ os_inode'[h].offset >= os_inode[h].offset
       /\ os_inode'[h].inode = os_inode[h].inode]_vars
=============================================================================
