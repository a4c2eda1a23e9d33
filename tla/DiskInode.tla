------------------------------ MODULE DiskInode ------------------------------
(***************************************************************************)
(* DiskInode (easy-fs/src/layout.rs): how an inode finds the data blocks   *)
(* of a file through direct pointers, one indirect block, and one doubly   *)
(* indirect block.                                                         *)
(*                                                                         *)
(* A state [node, block] holds the inode and the contents of all blocks.   *)
(* A block is an array of INODE_INDIRECT1_COUNT pointers or of BLOCK_SZ    *)
(* units of data, depending on how it is used; pointer 0 is no block, but  *)
(* nothing keeps the code from following it to block 0, the super block.   *)
(***************************************************************************)
EXTENDS Integers, Sequences, SequencesExt

CONSTANTS BLOCK_SZ, INODE_DIRECT_COUNT, INODE_INDIRECT1_COUNT

INDIRECT1_BOUND == INODE_DIRECT_COUNT + INODE_INDIRECT1_COUNT
INDIRECT2_BOUND == INDIRECT1_BOUND + INODE_INDIRECT1_COUNT * INODE_INDIRECT1_COUNT

least(m, n) == IF m < n THEN m ELSE n

(* DiskInode::initialize                                                   *)
new_inode ==
  [size |-> 0, direct |-> [i \in 0 .. INODE_DIRECT_COUNT - 1 |-> 0],
   indirect1 |-> 0, indirect2 |-> 0]

data_blocks(size) == (size + BLOCK_SZ - 1) \div BLOCK_SZ

(* Mutated form: the index blocks below indirect2 are counted rounding     *)
(* down.                                                                   *)
total_blocks_rounded_down(size) ==
  LET n == data_blocks(size)
  IN n + (IF n > INODE_DIRECT_COUNT THEN 1 ELSE 0)
       + (IF n > INDIRECT1_BOUND
          THEN 1 + (n - INDIRECT1_BOUND) \div INODE_INDIRECT1_COUNT ELSE 0)

(* Data and index blocks of a file of this size.                           *)
total_blocks(size) ==
  LET n == data_blocks(size)
  IN n + (IF n > INODE_DIRECT_COUNT THEN 1 ELSE 0)
       + (IF n > INDIRECT1_BOUND
          THEN 1 + (n - INDIRECT1_BOUND + INODE_INDIRECT1_COUNT - 1)
                     \div INODE_INDIRECT1_COUNT
          ELSE 0)

blocks_num_needed(node, new_size) == total_blocks(new_size) - total_blocks(node.size)

(* The k-th pointer of index block id.  Reading a block that the device    *)
(* does not have, or an index behind the end of the block, panics.         *)
no_block == -1

pointer(st, id, k) ==
  IF id \in DOMAIN st.block /\ k < INODE_INDIRECT1_COUNT THEN st.block[id][k] ELSE no_block

(* The block that holds the i-th data block of the file.                   *)
get_block_id(st, i) ==
  LET last == i - INDIRECT1_BOUND
      sub == pointer(st, st.node.indirect2, last \div INODE_INDIRECT1_COUNT)
  IN IF i < INODE_DIRECT_COUNT THEN st.node.direct[i]
     ELSE IF i < INDIRECT1_BOUND
          THEN pointer(st, st.node.indirect1, i - INODE_DIRECT_COUNT)
     ELSE pointer(st, sub, last % INODE_INDIRECT1_COUNT)

-----------------------------------------------------------------------------
(* increase_size.  A place is where a new block's number is stored: in the *)
(* inode, in the indirect1 block, in the indirect2 block, or in an index   *)
(* block below that one.                                                   *)

(* F(from), F(from + 1), ... up to but not including F(to).                *)
run(F(_), from, to) ==
  IF to <= from THEN <<>> ELSE [k \in 1 .. to - from |-> F(from + k - 1)]

concat(seqs) == FoldLeft(LAMBDA s, t : s \o t, <<>>, seqs)

if_so(cond, place) == IF cond THEN <<place>> ELSE <<>>

direct(i) == <<"direct", i, 0>>
in_indirect1(i) == <<"in indirect1", i, 0>>

(* The k-th data block below indirect2, behind its index block when it is  *)
(* the first one there.                                                    *)
in_indirect2(k) ==
  LET a == k \div INODE_INDIRECT1_COUNT
      b == k % INODE_INDIRECT1_COUNT
  IN if_so(b = 0, <<"in indirect2", a, 0>>) \o << <<"below indirect2", a, b>> >>

(* The places filled when the file grows from current to total data blocks.*)
indirect2_places(current, total) ==
  IF total <= INODE_INDIRECT1_COUNT THEN <<>>
  ELSE if_so(current <= INODE_INDIRECT1_COUNT, <<"indirect2", 0, 0>>)
       \o concat(run(in_indirect2,
                     IF current < INODE_INDIRECT1_COUNT THEN 0
                     ELSE current - INODE_INDIRECT1_COUNT,
                     total - INODE_INDIRECT1_COUNT))

indirect1_places(current, total) ==
  IF total <= INODE_DIRECT_COUNT THEN <<>>
  ELSE LET from == IF current < INODE_DIRECT_COUNT THEN 0
                   ELSE current - INODE_DIRECT_COUNT
           to == total - INODE_DIRECT_COUNT
       IN if_so(current <= INODE_DIRECT_COUNT, <<"indirect1", 0, 0>>)
          \o run(in_indirect1, from, least(to, INODE_INDIRECT1_COUNT))
          \o indirect2_places(from, to)

new_places(current, total) ==
  run(direct, current, least(total, INODE_DIRECT_COUNT))
  \o indirect1_places(current, total)

set_place(st, place, id) ==
  CASE place[1] = "direct" -> [st EXCEPT !.node.direct[place[2]] = id]
    [] place[1] = "indirect1" -> [st EXCEPT !.node.indirect1 = id]
    [] place[1] = "in indirect1" -> [st EXCEPT !.block[st.node.indirect1][place[2]] = id]
    [] place[1] = "indirect2" -> [st EXCEPT !.node.indirect2 = id]
    [] place[1] = "in indirect2" -> [st EXCEPT !.block[st.node.indirect2][place[2]] = id]
    [] place[1] = "below indirect2" ->
         [st EXCEPT !.block[st.block[st.node.indirect2][place[2]]][place[3]] = id]

places_for(st, new_size) == new_places(data_blocks(st.node.size), data_blocks(new_size))

(* A file grows no further than the pointers reach; index blocks are       *)
(* written, so the device must have them.                                  *)
too_large(new_size) == data_blocks(new_size) > INDIRECT2_BOUND

index_exists(st, new_size, new_blocks) ==
  LET places == places_for(st, new_size)
  IN \A k \in DOMAIN places :
       places[k][1] \in {"indirect1", "indirect2", "in indirect2"}
         => new_blocks[k] \in DOMAIN st.block

increase_size(st, new_size, new_blocks) ==
  LET places == places_for(st, new_size)
      filled == FoldLeft(LAMBDA s, k : set_place(s, places[k], new_blocks[k]),
                         st, [k \in 1 .. Len(places) |-> k])
  IN [filled EXCEPT !.node.size = new_size]

-----------------------------------------------------------------------------
(* clear_size: the blocks to deallocate, and the inode afterwards.         *)

entries(st, id, n) == [j \in 1 .. n |-> st.block[id][j - 1]]

(* The blocks below indirect2, for n data blocks there: the full index     *)
(* blocks, then the last one.                                              *)
below_indirect2(st, n) ==
  LET a1 == n \div INODE_INDIRECT1_COUNT
      b1 == n % INODE_INDIRECT1_COUNT
      index == st.block[st.node.indirect2]
  IN concat([a \in 1 .. a1 |->
               <<index[a - 1]>> \o entries(st, index[a - 1], INODE_INDIRECT1_COUNT)])
     \o (IF b1 > 0 THEN <<index[a1]>> \o entries(st, index[a1], b1) ELSE <<>>)

blocks_to_clear(st) ==
  LET n == data_blocks(st.node.size)
      n1 == n - INODE_DIRECT_COUNT
      n2 == n1 - INODE_INDIRECT1_COUNT
  IN [i \in 1 .. least(n, INODE_DIRECT_COUNT) |-> st.node.direct[i - 1]]
     \o (IF n1 <= 0 THEN <<>>
         ELSE <<st.node.indirect1>>
              \o entries(st, st.node.indirect1, least(n1, INODE_INDIRECT1_COUNT)))
     \o (IF n2 <= 0 THEN <<>>
         ELSE <<st.node.indirect2>> \o below_indirect2(st, n2))

(* Mutated form: the pointer to the indirect1 block stays.                 *)
cleared_keeping_indirect1(node) ==
  [new_inode EXCEPT !.indirect1 = node.indirect1]

(* Only the pointers that the size covers are reset; the others are 0.     *)
cleared(node) ==
  LET n == data_blocks(node.size)
  IN [size |-> 0,
      direct |-> [i \in 0 .. INODE_DIRECT_COUNT - 1 |-> IF i < n THEN 0 ELSE node.direct[i]],
      indirect1 |-> IF n > INODE_DIRECT_COUNT THEN 0 ELSE node.indirect1,
      indirect2 |-> IF n > INDIRECT1_BOUND THEN 0 ELSE node.indirect2]

-----------------------------------------------------------------------------
(* Contents.  The loops of read_at and write_at go block by block; the     *)
(* units they move are the same.                                           *)

(* The blocks that the loop over the units from .. to - 1 looks up: one,   *)
(* to begin with, also when there are no units.                            *)
looked_up(st, from, to) ==
  {get_block_id(st, i) :
     i \in from \div BLOCK_SZ .. (IF from < to THEN to - 1 ELSE from) \div BLOCK_SZ}

unit_at(st, pos) == st.block[get_block_id(st, pos \div BLOCK_SZ)][pos % BLOCK_SZ]

(* read_at returns before the loop when there is nothing to read.          *)
read_end(st, offset, len) == least(offset + len, st.node.size)

read_at(st, offset, len) ==
  LET unit(pos) == unit_at(st, pos)
  IN run(unit, offset, read_end(st, offset, len))

(* The write_size that write_at returns.                                   *)
write_size(st, offset, buf) == least(offset + Len(buf), st.node.size) - offset

write_at(st, offset, buf) ==
  FoldLeft(LAMBDA s, k :
             [s EXCEPT !.block[get_block_id(s, (offset + k - 1) \div BLOCK_SZ)]
                                           [(offset + k - 1) % BLOCK_SZ] = buf[k]],
           st, [k \in 1 .. write_size(st, offset, buf) |-> k])
=============================================================================
