-------------------------------- MODULE EasyFs -------------------------------
(***************************************************************************)
(* The easy-fs file system (easy-fs/src: bitmap.rs, efs.rs, vfs.rs, and    *)
(* layout.rs through DiskInode): two bitmaps, inodes, and one directory.   *)
(*                                                                         *)
(* Blocks are read and written as BlockStore promises, so their contents   *)
(* is a function.  The five areas of the device are at the block numbers   *)
(* that the code computes, but what they hold is kept in a variable each.  *)
(* A unit of data is a directory entry in the directory and a byte in a    *)
(* file; BLOCK_SZ units fill a block.  Every operation holds the lock of   *)
(* the file system from beginning to end and is one step.                  *)
(***************************************************************************)
EXTENDS DiskInode, FiniteSets

CONSTANTS
  Name,                 \* file names, positive numbers
  TOTAL_BLOCKS,         \* blocks of the file system
  INODE_BITMAP_BLOCKS,  \* blocks of the inode bitmap
  INODES_PER_BLOCK,     \* inodes in a block
  BLOCK_BITS,           \* bits in a block of a bitmap
  Span,                 \* <<offset, length>> of the reads and the writes
  MaxCalls              \* bound: calls made to the file system

ASSUME EasyFsAssumption == Name \subseteq Nat \ {0} /\ Span \subseteq Nat \X Nat

VARIABLES
  super_block,                \* on the device
  efs,                        \* EasyFileSystem, in memory
  inode_bitmap, data_bitmap,  \* the bits that are set
  inode,                      \* the inode area, by block and slot
  block,                      \* contents of block 0 and the data area
  panic,                      \* "no", or why the kernel has panicked
  call, answer,               \* the last call and its answer
  calls                       \* the calls made, up to MaxCalls

layout_vars == <<super_block, efs>>
vars == <<layout_vars, inode_bitmap, data_bitmap, inode, block, panic, call, answer, calls>>

-----------------------------------------------------------------------------
(* The layout of the device.                                               *)

(* The size of a DiskInode divides the size of a block.                    *)
inode_area_blocks ==
  (INODE_BITMAP_BLOCKS * BLOCK_BITS + INODES_PER_BLOCK - 1) \div INODES_PER_BLOCK

(* How EasyFileSystem::create divides the blocks behind the inodes between *)
(* the data bitmap and the data area.                                      *)
data_total_blocks == TOTAL_BLOCKS - 1 - (INODE_BITMAP_BLOCKS + inode_area_blocks)
data_bitmap_blocks == (data_total_blocks + BLOCK_BITS) \div (BLOCK_BITS + 1)
data_area_blocks == data_total_blocks - data_bitmap_blocks

EFS_MAGIC == 998244353

(* SuperBlock::initialize, SuperBlock::is_valid                            *)
initialized ==
  [magic |-> EFS_MAGIC, total_blocks |-> TOTAL_BLOCKS,
   inode_bitmap_blocks |-> INODE_BITMAP_BLOCKS, inode_area_blocks |-> inode_area_blocks,
   data_bitmap_blocks |-> data_bitmap_blocks, data_area_blocks |-> data_area_blocks]
is_valid(sb) == sb.magic = EFS_MAGIC

Bitmap(start, blocks) == [start_block_id |-> start, blocks |-> blocks]
maximum(bitmap) == bitmap.blocks * BLOCK_BITS

(* The EasyFileSystem that create returns.                                 *)
created ==
  [inode_bitmap |-> Bitmap(1, INODE_BITMAP_BLOCKS),
   data_bitmap |-> Bitmap(1 + INODE_BITMAP_BLOCKS + inode_area_blocks, data_bitmap_blocks),
   inode_area_start_block |-> 1 + INODE_BITMAP_BLOCKS,
   data_area_start_block |->
     1 + (INODE_BITMAP_BLOCKS + inode_area_blocks) + data_bitmap_blocks]

(* Mutated form: the data area begins where the data bitmap does.          *)
opened_without_bitmap(sb) ==
  LET inode_total_blocks == sb.inode_bitmap_blocks + sb.inode_area_blocks
  IN [inode_bitmap |-> Bitmap(1, sb.inode_bitmap_blocks),
      data_bitmap |-> Bitmap(1 + inode_total_blocks, sb.data_bitmap_blocks),
      inode_area_start_block |-> 1 + sb.inode_bitmap_blocks,
      data_area_start_block |-> 1 + inode_total_blocks]

(* The EasyFileSystem that open makes of a super block.                    *)
opened(sb) ==
  LET inode_total_blocks == sb.inode_bitmap_blocks + sb.inode_area_blocks
  IN [inode_bitmap |-> Bitmap(1, sb.inode_bitmap_blocks),
      data_bitmap |-> Bitmap(1 + inode_total_blocks, sb.data_bitmap_blocks),
      inode_area_start_block |-> 1 + sb.inode_bitmap_blocks,
      data_area_start_block |-> 1 + inode_total_blocks + sb.data_bitmap_blocks]

(* The block of an inode, and its place in the block.                      *)
get_disk_inode_pos[i \in 0 .. maximum(efs.inode_bitmap) - 1] ==
  <<efs.inode_area_start_block + i \div INODES_PER_BLOCK, i % INODES_PER_BLOCK>>

get_data_block_id(bit) == efs.data_area_start_block + bit

INODES == maximum(created.inode_bitmap)
Width == IF BLOCK_SZ > INODE_INDIRECT1_COUNT THEN BLOCK_SZ ELSE INODE_INDIRECT1_COUNT
Block == {0} \cup created.data_area_start_block .. TOTAL_BLOCKS - 1
InodePos == {<<created.inode_area_start_block + k, slot>> :
               k \in 0 .. inode_area_blocks - 1, slot \in 0 .. INODES_PER_BLOCK - 1}
zeros == [k \in 0 .. Width - 1 |-> 0]

(* The super block when it is read as an array of pointers.                *)
words(sb) ==
  LET fields == <<sb.magic, sb.total_blocks, sb.inode_bitmap_blocks, sb.inode_area_blocks,
                  sb.data_bitmap_blocks, sb.data_area_blocks>>
  IN [k \in 0 .. Width - 1 |-> IF k < Len(fields) THEN fields[k + 1] ELSE 0]

(* EasyFileSystem::create: all blocks cleared, inode 0 for the directory.  *)
Init ==
  /\ super_block = initialized /\ efs = created
  /\ inode_bitmap = {0} /\ data_bitmap = {}
  /\ inode = [pos \in InodePos |-> new_inode]
  /\ block = [b \in Block |-> IF b = 0 THEN words(initialized) ELSE zeros]
  /\ panic = "no"
  /\ call = [op |-> "mkfs"] /\ answer = TRUE /\ calls = 0

-----------------------------------------------------------------------------
(* Bitmaps.                                                                *)

free_bits(bits, bitmap) == (0 .. maximum(bitmap) - 1) \ bits

(* Bitmap::alloc takes the lowest bit that is not set.                     *)
lowest(bits) == CHOOSE b \in bits : \A c \in bits : b <= c

(* The data bits that alloc_data takes when it is called n times.          *)
next_bits(bits, n) ==
  SubSeq(SelectSeq([k \in 1 .. maximum(efs.data_bitmap) |-> k - 1],
                   LAMBDA b : b \notin bits), 1, n)

-----------------------------------------------------------------------------
(* Operations on one inode.  Their state adds the data bitmap and a status *)
(* to the state of DiskInode.                                              *)

disk_inode(i) == inode[get_disk_inode_pos[i]]

state_of(i) == [node |-> disk_inode(i), block |-> block, bits |-> data_bitmap, status |-> "no"]

(* Inode::increase_size: allocate the blocks, then hand them to the inode. *)
grow(st, new_size) ==
  LET n == blocks_num_needed(st.node, new_size)
      taken == next_bits(st.bits, n)
      ids == [k \in 1 .. n |-> get_data_block_id(taken[k])]
  IN IF new_size < st.node.size THEN st
     ELSE IF Cardinality(free_bits(st.bits, efs.data_bitmap)) < n
          THEN [st EXCEPT !.status = "disk full", !.bits = 0 .. maximum(efs.data_bitmap) - 1]
     ELSE LET allocated == [st EXCEPT !.bits = @ \cup Range(taken)]
          IN IF n < Len(places_for(st, new_size))
             THEN [allocated EXCEPT !.status = "too few new_blocks"]
             ELSE IF too_large(new_size) THEN [allocated EXCEPT !.status = "file too large"]
             ELSE IF ~index_exists(st, new_size, ids)
                  THEN [allocated EXCEPT !.status = "no such block"]
             ELSE increase_size(allocated, new_size, ids)

(* Inode::write_at.  Of an empty buffer the block at offset is looked up   *)
(* all the same, and at the end of a file there may be none.               *)
grow_and_write(st, offset, buf) ==
  LET grown == grow(st, offset + Len(buf))
      end == offset + write_size(grown, offset, buf)
  IN IF grown.status # "no" THEN grown
     ELSE IF looked_up(grown, offset, end) \subseteq DOMAIN grown.block
          THEN write_at(grown, offset, buf)
     ELSE [grown EXCEPT !.status = IF buf = <<>> THEN "empty write" ELSE "no such block"]

(* Inode::read_at, which changes nothing.                                  *)
look_up_to_read(st, offset, len) ==
  LET end == read_end(st, offset, len)
  IN IF offset < end /\ ~looked_up(st, offset, end) \subseteq DOMAIN st.block
     THEN [st EXCEPT !.status = "no such block"] ELSE st

(* Mutated form: the blocks keep their contents.                           *)
dealloc_data_dirty(st, id) ==
  IF id - efs.data_area_start_block \notin st.bits
  THEN [st EXCEPT !.status = "block not allocated"]
  ELSE [st EXCEPT !.bits = @ \ {id - efs.data_area_start_block}]

dealloc_data(st, id) ==
  IF id \notin DOMAIN st.block THEN [st EXCEPT !.status = "no such block"]
  ELSE IF id - efs.data_area_start_block \notin st.bits
  THEN [st EXCEPT !.status = "block not allocated"]
  ELSE [st EXCEPT !.block[id] = zeros, !.bits = @ \ {id - efs.data_area_start_block}]

(* Inode::clear                                                            *)
clear_all(st) ==
  LET ids == blocks_to_clear(st)
  IN IF Len(ids) # total_blocks(st.node.size)
     THEN [st EXCEPT !.status = "blocks miscounted"]
     ELSE FoldLeft(dealloc_data, [st EXCEPT !.node = cleared(@)], ids)

-----------------------------------------------------------------------------
(* The directory.  An entry is a name and an inode number in one unit.     *)

dirent(name, i) == name * INODES + i
name_of(entry) == entry \div INODES
inode_of(entry) == entry % INODES

dirents == read_at(state_of(0), 0, disk_inode(0).size)

(* find_inode_id: the first entry with the name.                           *)
entries_of(name) ==
  LET all == dirents IN {k \in DOMAIN all : name_of(all[k]) = name}
found(name) == entries_of(name) # {}
find(name) == inode_of(dirents[lowest(entries_of(name))])

-----------------------------------------------------------------------------
(* Calls.                                                                  *)

(* What st says is done, with the given inodes.  A panic ends everything;  *)
(* of how far the call had come by then only the data bitmap is kept.      *)
finish(st, nodes, c, result) ==
  IF st.status # "no"
  THEN /\ panic' = st.status /\ data_bitmap' = st.bits
       /\ UNCHANGED <<inode, block, call, answer>>
  ELSE /\ data_bitmap' = st.bits
       /\ block' = st.block
       /\ inode' = nodes
       /\ call' = c /\ answer' = result
       /\ UNCHANGED panic

(* A call that concerns inode i only.                                      *)
finish_file(i, st, c, result) ==
  /\ finish(st, [inode EXCEPT ![get_disk_inode_pos[i]] = st.node], c, result)
  /\ UNCHANGED inode_bitmap

(* Inode::create for a new name: a new inode, then an entry at the end of  *)
(* the directory.                                                          *)
create_new(name) ==
  LET id == lowest(free_bits(inode_bitmap, efs.inode_bitmap))
      root == grow_and_write(state_of(0), disk_inode(0).size, <<dirent(name, id)>>)
  IN /\ free_bits(inode_bitmap, efs.inode_bitmap) # {}
     /\ finish(root, [inode EXCEPT ![get_disk_inode_pos[id]] = new_inode,
                                   ![get_disk_inode_pos[0]] = root.node],
               [op |-> "create", name |-> name], TRUE)
     /\ inode_bitmap' = inode_bitmap \cup {id}

(* alloc_inode fails.                                                      *)
no_inode_left ==
  /\ free_bits(inode_bitmap, efs.inode_bitmap) = {}
  /\ panic' = "no inode"
  /\ UNCHANGED <<inode_bitmap, data_bitmap, inode, block, call, answer>>

create(name) ==
  IF found(name)
  THEN finish_file(0, state_of(0), [op |-> "create", name |-> name], FALSE)
  ELSE create_new(name) \/ no_inode_left

write(name, offset, buf) ==
  LET i == find(name)
      st == grow_and_write(state_of(i), offset, buf)
  IN /\ found(name)
     /\ finish_file(i, st,
             [op |-> "write", name |-> name, offset |-> offset, buf |-> buf],
             write_size(st, offset, buf))

read(name, offset, len) ==
  LET i == find(name)
  IN /\ found(name)
     /\ finish_file(i, look_up_to_read(state_of(i), offset, len),
             [op |-> "read", name |-> name, offset |-> offset, len |-> len],
             read_at(state_of(i), offset, len))

clear(name) ==
  LET i == find(name)
  IN /\ found(name)
     /\ finish_file(i, clear_all(state_of(i)), [op |-> "clear", name |-> name], TRUE)

(* EasyFileSystem::open, as when the kernel starts from the image that the *)
(* packer has written.  Modified buffers that did not reach the device are *)
(* the subject of BlockCache.                                              *)
open ==
  /\ is_valid(super_block)
  /\ efs' = opened(super_block)
  /\ call' = [op |-> "open"] /\ answer' = TRUE
  /\ UNCHANGED <<super_block, inode_bitmap, data_bitmap, inode, block, panic>>

(* A buffer of distinct units.                                             *)
buffer(len) == [k \in 1 .. len |-> k]

Next ==
  /\ panic = "no" /\ calls < MaxCalls /\ calls' = calls + 1
  /\ \/ open
     \/ /\ \E name \in Name :
             \/ create(name)
             \/ clear(name)
             \/ \E s \in Span :
                  write(name, s[1], buffer(s[2])) \/ read(name, s[1], s[2])
        /\ UNCHANGED layout_vars

Spec == Init /\ [][Next]_vars

-----------------------------------------------------------------------------
(* Properties.                                                             *)

(* All pointers of an inode other than 0, whatever its size is.            *)
pointers(i) ==
  LET st == state_of(i)
      node == st.node
      index(id) == IF id = 0 THEN <<>> ELSE entries(st, id, INODE_INDIRECT1_COUNT)
      subs == index(node.indirect2)
      all == [k \in 1 .. INODE_DIRECT_COUNT |-> node.direct[k - 1]]
             \o <<node.indirect1>> \o index(node.indirect1)
             \o <<node.indirect2>> \o subs
             \o concat([a \in DOMAIN subs |-> index(subs[a])])
  IN SelectSeq(all, LAMBDA id : id # 0)

all_pointers == concat([i \in 1 .. INODES |-> pointers(i - 1)])

(* Every block marked in the data bitmap is pointed to exactly once, from  *)
(* one inode or one of its index blocks, and no pointer leads to a block   *)
(* that is not marked: no block is shared, lost or used after it is freed. *)
BlocksOwnedOnce == panic = "no" =>
  /\ IsInjective(all_pointers)
  /\ Range(all_pointers) = {get_data_block_id(bit) : bit \in data_bitmap}

(* The blocks that the file system in memory, created or opened, uses for  *)
(* the super block, the bitmaps, the inodes and the data are different     *)
(* ones, each inode has a place of its own, and all but the data are below *)
(* total_blocks.  So a lock on an inode's block is never met again when    *)
(* bitmaps and data are used.                                              *)
AreasDisjoint ==
  LET blocks_of(bm) == bm.start_block_id .. bm.start_block_id + bm.blocks - 1
      ids == 0 .. maximum(efs.inode_bitmap) - 1
      areas == <<{0}, blocks_of(efs.inode_bitmap), {get_disk_inode_pos[i][1] : i \in ids},
                 blocks_of(efs.data_bitmap),
                 {get_data_block_id(bit) : bit \in 0 .. maximum(efs.data_bitmap) - 1}>>
  IN /\ \A a, b \in DOMAIN areas : a # b => areas[a] \cap areas[b] = {}
     /\ \A i, j \in ids : get_disk_inode_pos[i] = get_disk_inode_pos[j] => i = j
     /\ \A a \in 1 .. 4 : areas[a] \subseteq 0 .. super_block.total_blocks - 1

(* The assertions and unwraps of increase_size, clear and dealloc hold,    *)
(* and pointers lead to blocks: total_blocks, the places increase_size     *)
(* fills, and the blocks read_at, write_at and clear_size look for agree   *)
(* for every history of sizes.  The code panics for want of space, behind  *)
(* the last pointer, and when an empty write looks up a block behind the   *)
(* last one through an index block that is not there.                      *)
AssertionsHold == panic \in {"no", "disk full", "no inode", "file too large", "empty write"}

contents[i \in 0 .. INODES - 1] == read_at(state_of(i), 0, disk_inode(i).size)

Abstract == INSTANCE Files WITH
  file <- [name \in {n \in Name : found(n)} |-> contents[find(name)]],
  Call <- {[op |-> "open"]}
          \cup {[op |-> "create", name |-> n] : n \in Name}
          \cup {[op |-> "clear", name |-> n] : n \in Name}
          \cup {[op |-> "write", name |-> n, offset |-> s[1], buf |-> buffer(s[2])] :
                  n \in Name, s \in Span}
          \cup {[op |-> "read", name |-> n, offset |-> s[1], len |-> s[2]] :
                  n \in Name, s \in Span}

(* Seen through its calls, easy-fs is a set of named sequences: a write    *)
(* changes exactly the bytes it covers of one file, holes read as zeros,   *)
(* and creating, growing or clearing one file does not touch another.      *)
FilesSpec == Abstract!Spec

(* layout.rs: the data bitmap records which blocks of the data area behind *)
(* it are allocated.  So an allocated block is one of the data area.       *)
AllocatedBlocksExist == \A bit \in data_bitmap : bit < super_block.data_area_blocks
=============================================================================
