---------------------------- MODULE AddressSpace ----------------------------
(***************************************************************************)
(* Address spaces as they are built and changed: MemorySet and MapArea     *)
(* (os/src/mm/memory_set.rs), PageTable (page_table.rs) and kernel stacks  *)
(* (task/pid.rs).                                                          *)
(*                                                                         *)
(* An address space is a record: areas, each with its range of pages and   *)
(* its data_frames; the valid leaf entries of the page table (pte); and    *)
(* the frames of the page table's nodes (tables), root first.  A page's    *)
(* contents is one value.  Operators that allocate thread a state          *)
(* [fa, bytes, space, stack, status]; stack is a new kernel stack, status  *)
(* is "ok", "full" when a data frame could not be allocated, or the reason *)
(* of a panic.                                                             *)
(***************************************************************************)
EXTENDS FrameAllocator, Vec, FiniteSets

CONSTANTS
  Value,         \* contents of a page told apart; 0 is a cleared page
  Segments,      \* the loadable segments of the program, <<first, end, value>>
  TRAP_CONTEXT,  \* page of the trap context; the trampoline is the next one
  Fanout,        \* entries of a page-table node
  KSTACK         \* pages of a kernel stack

(* A program lies below the trap context, with a guard page and its stack. *)
ASSUME SpaceAssumption ==
  /\ 0 \in Value
  /\ TRAP_CONTEXT \in Nat /\ Fanout \in Nat \ {0} /\ KSTACK \in Nat
  /\ Segments \in Seq(Nat \X Nat \X Value) /\ Segments # <<>>
  /\ \A i \in DOMAIN Segments :
       Segments[i][1] <= Segments[i][2] /\ Segments[i][2] + 1 < TRAP_CONTEXT

TRAMPOLINE == TRAP_CONTEXT + 1
Vpn == 0 .. TRAMPOLINE
UserVpn == 0 .. TRAP_CONTEXT - 1

None == -1
no_frames == [v \in {} |-> None]
no_space == [areas |-> <<>>, pte |-> [v \in Vpn |-> None], tables |-> <<>>]

-----------------------------------------------------------------------------
(* The page table.                                                         *)

fail(st, why) == [st EXCEPT !.status = why]

(* Mutated form: the frame is not cleared.                                 *)
frame_alloc_dirty(st) == [st EXCEPT !.fa = alloc(@)]

(* frame_alloc: a cleared frame, next_frame(st.fa), is taken.              *)
frame_alloc(st) == [st EXCEPT !.bytes[next_frame(st.fa)] = 0, !.fa = alloc(@)]

(* The nodes below the root on the way to the entry of a page.             *)
mid(vpn) == <<"mid", vpn \div (Fanout * Fanout)>>
leaf(vpn) == <<"leaf", vpn \div Fanout>>
nodes_of(V) == {mid(vpn) : vpn \in V} \cup {leaf(vpn) : vpn \in V}
Nodes == nodes_of(Vpn)

add_node(st, node) ==
  IF st.status # "ok" \/ \E t \in Range(st.space.tables) : t[1] = node THEN st
  ELSE IF ~can_alloc(st.fa) THEN fail(st, "out of frames")
  ELSE [frame_alloc(st) EXCEPT
          !.space.tables = Append(@, <<node, next_frame(st.fa)>>)]

find_pte_create(st, vpn) == add_node(add_node(st, mid(vpn)), leaf(vpn))

(* PageTable::map and PageTable::unmap, with their assertions.             *)
page_table_map(st, vpn, ppn) ==
  LET created == find_pte_create(st, vpn)
  IN IF created.status # "ok" THEN created
     ELSE IF created.space.pte[vpn] # None THEN fail(created, "mapped before")
     ELSE [created EXCEPT !.space.pte[vpn] = ppn]

(* PageTable::new                                                          *)
new_bare(f, b) ==
  LET st == [fa |-> f, bytes |-> b, space |-> no_space, stack |-> <<>>,
             status |-> "ok"]
  IN IF ~can_alloc(f) THEN fail(st, "out of frames")
     ELSE [frame_alloc(st) EXCEPT !.space.tables = << << <<"root", 0>>, next_frame(f)>> >>]

(* map_trampoline needs nodes only: the page itself is part of the kernel. *)
map_trampoline(st) == find_pte_create(st, TRAMPOLINE)

-----------------------------------------------------------------------------
(* Areas.                                                                  *)

(* The pages of a SimpleRange in the order in which it is iterated.        *)
VPNRange(start, end) == [i \in 1 .. end - start |-> start + i - 1]

MapArea(start, end) == [start |-> start, end |-> end, data_frames |-> no_frames]

pages(area) == VPNRange(area.start, area.end)

have_mapped(s, vpn) == \E area \in Range(s.areas) : vpn \in DOMAIN area.data_frames

frames_used(s) == for_each(LAMBDA n, area : n + area.end - area.start, 0, s.areas)

(* BTreeMap::insert                                                        *)
insert(frames, vpn, ppn) ==
  [v \in DOMAIN frames \cup {vpn} |-> IF v = vpn THEN ppn ELSE frames[v]]

(* MapArea::map_one, for the area that is being pushed, the last one.      *)
map_one(st, vpn) ==
  LET ppn == next_frame(st.fa)
      i == Len(st.space.areas)
  IN IF st.status # "ok" THEN st
     ELSE IF ~can_alloc(st.fa) THEN fail(st, "full")
     ELSE page_table_map(
            [frame_alloc(st) EXCEPT
               !.space.areas[i].data_frames = insert(@, vpn, ppn)],
            vpn, ppn)

(* MapArea::map                                                            *)
map_area(st, area) == for_each(map_one, st, pages(area))

(* MemorySet::push without data.                                           *)
push(st, start, end) ==
  LET area == MapArea(start, end)
  IN IF st.status # "ok" THEN st
     ELSE map_area([st EXCEPT !.space.areas = Append(@, area)], area)

(* The frames of an area in the order in which the map of them is dropped. *)
frames_of(area) ==
  for_each(LAMBDA ppns, vpn : IF vpn \in DOMAIN area.data_frames
                              THEN Append(ppns, area.data_frames[vpn]) ELSE ppns,
           <<>>, pages(area))

data_frames_of(s) == for_each(LAMBDA ppns, area : ppns \o frames_of(area), <<>>, s.areas)

table_frames_of(s) == [i \in DOMAIN s.tables |-> s.tables[i][2]]

(* Dropping a MemorySet: the page table first, then the areas.             *)
drop_space(f, s) == dealloc_all(f, table_frames_of(s) \o data_frames_of(s))

(* Mutated form: the page table keeps its entry.                           *)
unmap_one_keeping_pte(st, vpn) ==
  LET i == CHOOSE i \in DOMAIN st.space.areas :
             vpn \in DOMAIN st.space.areas[i].data_frames
      frames == st.space.areas[i].data_frames
  IN [st EXCEPT
        !.space.areas[i].data_frames = Restrict(frames, DOMAIN frames \ {vpn}),
        !.fa = dealloc(@, frames[vpn])]

(* MapArea::unmap_one, in the area that holds the page.                    *)
unmap_one(st, vpn) ==
  LET i == CHOOSE i \in DOMAIN st.space.areas :
             vpn \in DOMAIN st.space.areas[i].data_frames
      frames == st.space.areas[i].data_frames
  IN IF st.status # "ok" THEN st
     ELSE IF st.space.pte[vpn] = None THEN fail(st, "invalid before")
     ELSE [st EXCEPT
             !.space.areas[i].data_frames = Restrict(frames, DOMAIN frames \ {vpn}),
             !.space.pte[vpn] = None,
             !.fa = dealloc(@, frames[vpn])]

(* MemorySet::unmap                                                        *)
unmap(st, start, end) == for_each(unmap_one, st, VPNRange(start, end))

-----------------------------------------------------------------------------
(* Building address spaces.                                                *)

(* copy_data: the pages of the area pushed last get the given contents.    *)
copy_data(st, contents) ==
  LET frames == st.space.areas[Len(st.space.areas)].data_frames
  IN [st EXCEPT !.bytes = [ppn \in Frame |->
        IF ppn \in Range(frames)
        THEN contents[CHOOSE vpn \in DOMAIN frames : frames[vpn] = ppn]
        ELSE @[ppn]]]

(* from_elf ignores a failed push and runs into the missing page later.    *)
required(st) == IF st.status = "full" THEN fail(st, "out of frames") ELSE st

load(st, segment) ==
  LET pushed == required(push(st, segment[1], segment[2]))
  IN IF pushed.status # "ok" THEN pushed
     ELSE copy_data(pushed, [vpn \in Vpn |-> segment[3]])

(* MemorySet::from_elf: the segments, a guard page, a user stack of one    *)
(* page and the trap context.                                              *)
from_elf(f, b) ==
  LET loaded == for_each(load, map_trampoline(new_bare(f, b)), Segments)
      bottom == Segments[Len(Segments)][2] + 1
  IN required(push(push(loaded, bottom, bottom + 1), TRAP_CONTEXT, TRAMPOLINE))

(* One area of MemorySet::from_existed_user: the whole range is mapped and *)
(* then copied page by page; a page that the source has unmapped has no    *)
(* frame to copy from.                                                     *)
copy_area(s, b, st, area) ==
  LET pushed == push(st, area.start, area.end)
  IN IF pushed.status # "ok" THEN pushed
     ELSE IF \E vpn \in Range(pages(area)) : s.pte[vpn] = None
          THEN fail(pushed, "unmapped page copied")
     ELSE copy_data(pushed, [vpn \in Range(pages(area)) |-> b[s.pte[vpn]]])

from_existed_user(f, b, s) ==
  for_each(LAMBDA st, area : copy_area(s, b, st, area),
           map_trampoline(new_bare(f, b)), s.areas)

(* KernelStack::new; the frames come from the same allocator.              *)
add_stack_page(st, i) ==
  IF st.status # "ok" THEN st
  ELSE IF ~can_alloc(st.fa) THEN fail(st, "out of frames")
  ELSE [frame_alloc(st) EXCEPT !.stack = Append(@, next_frame(st.fa))]

new_kernel_stack(st) == for_each(add_stack_page, st, [i \in 1 .. KSTACK |-> i])

(* The new space is built before the old one is dropped.                   *)
exec_space(st) ==
  LET new == from_elf(st.fa, st.bytes)
  IN IF new.status # "ok" THEN new
     ELSE [new EXCEPT !.fa = drop_space(@, st.space), !.stack = st.stack]

(* The kernel stops at a panic, whatever it was in the middle of.          *)
panics(st) == st.status \notin {"ok", "full"}
=============================================================================
