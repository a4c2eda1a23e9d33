------------------------------ MODULE PageTable ------------------------------
(***************************************************************************)
(* Three-level page tables (os/src/mm/page_table.rs, address.rs) as they   *)
(* lie in physical frames, and the access of the kernel to buffers of user *)
(* programs through them.  MemorySet keeps only which pages are mapped;    *)
(* here the entries are where the code keeps them, in frames that come     *)
(* from the frame allocator and go back to it, and that may hold anything  *)
(* a program has stored there before.                                      *)
(*                                                                         *)
(* A frame is an array of Fanout entries [ppn, flags], whoever writes it.  *)
(* An address is a number; its page is address \div PAGE_SIZE.  A table    *)
(* maps frames of its own (MapType::Framed); data_frames holds them as the *)
(* areas of a MemorySet do.                                                *)
(***************************************************************************)
EXTENDS FrameAllocator, FiniteSets, Functions

CONSTANTS
  Table,         \* page tables
  Fanout,        \* entries of a node
  Vpn,           \* virtual pages in use
  Permissions,   \* the flags that pages are mapped with
  PAGE_SIZE,     \* bytes of a page
  TRAP_CONTEXT,  \* address of the trap context
  Pointers,      \* addresses that programs pass
  Lengths,       \* lengths of buffers that they pass
  MaxCalls       \* bound: steps

(* VirtPageNum::indexes takes the three lowest digits of a page number,    *)
(* so the pages that a program uses must differ in them.                   *)
indexes(vpn) ==
  <<(vpn \div (Fanout * Fanout)) % Fanout, (vpn \div Fanout) % Fanout, vpn % Fanout>>

ASSUME PageTableAssumption ==
  /\ Fanout \in Nat \ {0} /\ PAGE_SIZE \in Nat \ {0} /\ TRAP_CONTEXT \in Nat
  /\ Vpn \subseteq Nat /\ Pointers \subseteq Nat /\ Lengths \subseteq Nat
  /\ Permissions \subseteq SUBSET {"R", "W", "X", "U"}
  /\ \A v, w \in Vpn : indexes(v) = indexes(w) => v = w

VARIABLES
  fa,            \* FRAME_ALLOCATOR
  mem,           \* the contents of the frames
  page_table,    \* of each table: root_ppn and frames
  data_frames,   \* of each table: the frames of the pages that are mapped
  calls          \* the steps made, up to MaxCalls

vars == <<fa, mem, page_table, data_frames, calls>>

None == -1
NoTable == [root_ppn |-> None, frames |-> <<>>]
no_frames == [v \in {} |-> None]

(* PageTableEntry::empty, is_valid, readable, writable, executable         *)
empty == [ppn |-> 0, flags |-> {}]
is_valid(pte) == "V" \in pte.flags
readable(pte) == "R" \in pte.flags
writable(pte) == "W" \in pte.flags
executable(pte) == "X" \in pte.flags

exists(t) == page_table[t].root_ppn # None

-----------------------------------------------------------------------------
(* Walking and changing a table.  A walk threads [fa, mem, frames, at]: at *)
(* is the node it has reached.                                             *)

(* frame_alloc and FrameTracker::new                                       *)
frame_alloc(w) ==
  [w EXCEPT !.mem[next_frame(w.fa)] = [i \in 0 .. Fanout - 1 |-> empty],
            !.fa = alloc(@)]

(* Mutated form: the new node's FrameTracker is dropped at once.           *)
descend_create_unkept(w, i) ==
  LET ppn == next_frame(w.fa)
  IN IF is_valid(w.mem[w.at][i]) THEN [w EXCEPT !.at = w.mem[w.at][i].ppn]
     ELSE [frame_alloc(w) EXCEPT !.mem[w.at][i] = [ppn |-> ppn, flags |-> {"V"}],
                                 !.fa = dealloc(@, ppn),
                                 !.at = ppn]

(* One round of find_pte_create: a node that is missing is created.        *)
descend_create(w, i) ==
  LET ppn == next_frame(w.fa)
  IN IF is_valid(w.mem[w.at][i]) THEN [w EXCEPT !.at = w.mem[w.at][i].ppn]
     ELSE [frame_alloc(w) EXCEPT !.mem[w.at][i] = [ppn |-> ppn, flags |-> {"V"}],
                                 !.frames = Append(@, ppn),
                                 !.at = ppn]

start(t) == [fa |-> fa, mem |-> mem, frames |-> page_table[t].frames,
             at |-> page_table[t].root_ppn]

(* The leaf entry is element indexes(vpn)[3] of node find_pte_create().at. *)
find_pte_create(w, vpn) ==
  descend_create(descend_create(w, indexes(vpn)[1]), indexes(vpn)[2])

(* find_pte returns the leaf entry, valid or not, or Missing for None.     *)
Missing == [ppn |-> None, flags |-> {}]

find_pte(t, vpn) ==
  LET idx == indexes(vpn)
      first == mem[page_table[t].root_ppn][idx[1]]
      second == mem[first.ppn][idx[2]]
  IN IF ~is_valid(first) THEN Missing
     ELSE IF ~is_valid(second) THEN Missing
     ELSE mem[second.ppn][idx[3]]

maps(t, vpn) == is_valid(find_pte(t, vpn))

-----------------------------------------------------------------------------
Init ==
  /\ fa = new_allocator
  /\ mem = [ppn \in Frame |-> [i \in 0 .. Fanout - 1 |-> empty]]
  /\ page_table = [t \in Table |-> NoTable]
  /\ data_frames = [t \in Table |-> no_frames]
  /\ calls = 0

(* PageTable::new                                                          *)
new(t) ==
  LET ppn == next_frame(fa)
      w == frame_alloc([fa |-> fa, mem |-> mem])
  IN /\ ~exists(t) /\ can_alloc(fa)
     /\ fa' = w.fa /\ mem' = w.mem
     /\ page_table' = [page_table EXCEPT ![t] = [root_ppn |-> ppn, frames |-> <<ppn>>]]
     /\ UNCHANGED data_frames

(* BTreeMap::insert                                                        *)
insert(frames, vpn, ppn) ==
  [v \in DOMAIN frames \cup {vpn} |-> IF v = vpn THEN ppn ELSE frames[v]]

(* Mutated form: the assertion of PageTable::map is missing.               *)
map_over(t, vpn, permission) ==
  LET ppn == next_frame(fa)
      w == find_pte_create(frame_alloc(start(t)), vpn)
      i == indexes(vpn)[3]
  IN /\ exists(t) /\ usable_frames(fa) >= 3
     /\ fa' = w.fa
     /\ mem' = [w.mem EXCEPT ![w.at][i] = [ppn |-> ppn, flags |-> permission \cup {"V"}]]
     /\ page_table' = [page_table EXCEPT ![t].frames = w.frames]
     /\ data_frames' = [data_frames EXCEPT ![t] = insert(@, vpn, ppn)]

(* MapArea::map_one: a data frame and PageTable::map.  The code takes it   *)
(* for granted that the frames suffice, the data frame and two nodes.      *)
map(t, vpn, permission) ==
  LET ppn == next_frame(fa)
      w == find_pte_create(frame_alloc(start(t)), vpn)
      i == indexes(vpn)[3]
  IN /\ exists(t) /\ usable_frames(fa) >= 3
     /\ ~is_valid(w.mem[w.at][i])
     /\ fa' = w.fa
     /\ mem' = [w.mem EXCEPT ![w.at][i] = [ppn |-> ppn, flags |-> permission \cup {"V"}]]
     /\ page_table' = [page_table EXCEPT ![t].frames = w.frames]
     /\ data_frames' = [data_frames EXCEPT ![t] = insert(@, vpn, ppn)]

(* MapArea::unmap_one: the data frame goes back, PageTable::unmap.         *)
unmap(t, vpn) ==
  LET w == find_pte_create(start(t), vpn)
      i == indexes(vpn)[3]
  IN /\ exists(t) /\ vpn \in DOMAIN data_frames[t]
     /\ is_valid(w.mem[w.at][i])
     /\ fa' = dealloc(w.fa, data_frames[t][vpn])
     /\ mem' = [w.mem EXCEPT ![w.at][i] = empty]
     /\ page_table' = [page_table EXCEPT ![t].frames = w.frames]
     /\ data_frames' = [data_frames EXCEPT ![t] = Restrict(@, DOMAIN @ \ {vpn})]

(* The data frames in the order of their pages.                            *)
in_order(frames) ==
  LET vpns == CHOOSE s \in [1 .. Cardinality(DOMAIN frames) -> DOMAIN frames] :
                \A k, l \in DOMAIN s : k < l => s[k] < s[l]
  IN [k \in DOMAIN vpns |-> frames[vpns[k]]]

(* Dropping a MemorySet: the page table, then the areas.                   *)
drop(t) ==
  /\ exists(t)
  /\ fa' = dealloc_all(fa, page_table[t].frames \o in_order(data_frames[t]))
  /\ page_table' = [page_table EXCEPT ![t] = NoTable]
  /\ data_frames' = [data_frames EXCEPT ![t] = no_frames]
  /\ UNCHANGED mem

(* A program stores into its page what would be an entry of a page table.  *)
store(t, vpn, i) ==
  /\ exists(t) /\ maps(t, vpn)
  /\ mem' = [mem EXCEPT ![find_pte(t, vpn).ppn][i] = [ppn |-> 0, flags |-> {"V", "R", "W"}]]
  /\ UNCHANGED <<fa, page_table, data_frames>>

Next ==
  /\ calls < MaxCalls /\ calls' = calls + 1
  /\ \E t \in Table :
       \/ new(t)
       \/ drop(t)
       \/ \E vpn \in Vpn :
            \/ \E permission \in Permissions : map(t, vpn, permission)
            \/ unmap(t, vpn)
            \/ \E i \in 0 .. Fanout - 1 : store(t, vpn, i)

Spec == Init /\ [][Next]_vars

-----------------------------------------------------------------------------
(* Buffers of user programs.                                               *)

floor(va) == va \div PAGE_SIZE
page_offset(va) == va % PAGE_SIZE

(* virtual_addr_printable, without the physical address.                   *)
virtual_addr_printable(t, va) ==
  LET pte == find_pte(t, floor(va))
  IN pte # Missing /\ is_valid(pte) /\ readable(pte) /\ ~executable(pte)

virtual_addr_writable(t, va) ==
  LET pte == find_pte(t, floor(va))
  IN /\ va < TRAP_CONTEXT
     /\ pte # Missing /\ is_valid(pte) /\ readable(pte) /\ writable(pte)

virtual_addr_range_printable(t, ptr, len) ==
  virtual_addr_printable(t, ptr) /\ virtual_addr_printable(t, ptr + len)

(* Mutated form: the end is not looked at.                                 *)
range_writable_at_start(t, ptr, len) == virtual_addr_writable(t, ptr)

virtual_addr_range_writable(t, ptr, len) ==
  virtual_addr_writable(t, ptr) /\ virtual_addr_writable(t, ptr + len)

(* translated_byte_buffer: one slice of a frame for each page, or Panic: a *)
(* page without a node, or a slice whose end is before its start.          *)
Panic == [ppn |-> None, from |-> 0, to |-> 0]
lesser(m, n) == IF m < n THEN m ELSE n
greater(m, n) == IF m > n THEN m ELSE n

slice(t, vpn, ptr, len) ==
  LET start_va == greater(ptr, vpn * PAGE_SIZE)
      end_va == lesser((vpn + 1) * PAGE_SIZE, ptr + len)
      pte == find_pte(t, vpn)
  IN IF pte = Missing \/ page_offset(start_va) > page_offset(end_va) THEN Panic
     ELSE [ppn |-> pte.ppn, from |-> page_offset(start_va), to |-> page_offset(end_va)]

translated_byte_buffer(t, ptr, len) ==
  IF len = 0 THEN <<>>
  ELSE [k \in 1 .. floor(ptr + len - 1) - floor(ptr) + 1 |->
          slice(t, floor(ptr) + k - 1, ptr, len)]

panics(slices) == Panic \in Range(slices)

-----------------------------------------------------------------------------
(* Properties.                                                             *)

(* The frames that valid entries of a node, or of nodes, lead to.          *)
children(ppn) == {mem[ppn][i].ppn : i \in {d \in 0 .. Fanout - 1 : is_valid(mem[ppn][d])}}
below(ppns) == UNION {children(ppn) : ppn \in ppns}

(* A table consists of the frames it owns and of no others: walks from the *)
(* root reach exactly them, and the leaves lead to exactly the data frames *)
(* of its areas.  So a walk never reads a frame that was given back, or    *)
(* that belongs to a program or to another table.                          *)
TreeOwned ==
  \A t \in Table : exists(t) =>
    LET root == {page_table[t].root_ppn}
        nodes == root \cup below(root) \cup below(below(root))
    IN /\ nodes = Range(page_table[t].frames)
       /\ IsInjective(page_table[t].frames)
       /\ nodes \cap Range(fa.recycled) = {}
       /\ below(below(below(root))) = Range(data_frames[t])

(* What find_pte finds for each page of each table.                        *)
mappings ==
  [t \in Table |-> [vpn \in Vpn |->
     IF exists(t) /\ maps(t, vpn) THEN find_pte(t, vpn) ELSE empty]]

Map == INSTANCE PageMap WITH
  pages <- mappings,
  Unmapped <- empty,
  Flags <- {permission \cup {"V"} : permission \in Permissions}

(* The nodes in memory implement a partial function for each table: map    *)
(* and unmap change one page of one table, and what programs store, or     *)
(* stored into the frames before, changes no mapping.                      *)
MapSpec == Map!Spec

(* The places of a byte of a program: the frames of the pages that a walk  *)
(* cannot tell from its page, and the offset in them.                      *)
places(t, va) ==
  {<<data_frames[t][vpn], page_offset(va)>> :
     vpn \in {v \in DOMAIN data_frames[t] : indexes(v) = indexes(floor(va))}}

(* Whatever the kernel touches through a buffer it has checked, at its two *)
(* ends only, is a byte of that buffer, in a frame that the program owns.  *)
SlicesOwned ==
  \A t \in Table, ptr \in Pointers, len \in Lengths :
    LET slices == translated_byte_buffer(t, ptr, len)
        within == UNION {places(t, va) : va \in ptr .. ptr + len - 1}
    IN /\ exists(t)
       /\ virtual_addr_range_writable(t, ptr, len)
            \/ virtual_addr_range_printable(t, ptr, len)
       /\ ~panics(slices)
       => \A k \in DOMAIN slices : \A b \in slices[k].from .. slices[k].to - 1 :
            <<slices[k].ppn, b>> \in within
=============================================================================
