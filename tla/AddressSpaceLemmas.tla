------------------------- MODULE AddressSpaceLemmas ------------------------
(***************************************************************************)
(* Lemmas about module AddressSpace: who owns which frames, and what the   *)
(* operations that build address spaces do to them.                        *)
(***************************************************************************)
EXTENDS AddressSpace, SeqLemmas, FiniteSetTheorems

USE ZenonT(10), SMTT(30)

-----------------------------------------------------------------------------
(* Types.                                                                  *)

Allocator == [current : 0 .. FRAMES, recycled : Seq(Frame)]
PageMap == UNION {[D -> Frame] : D \in SUBSET Vpn}

(* An area's frames are those of pages in its range.                       *)
Area ==
  {a \in [start : Nat, end : Nat, data_frames : PageMap] :
     /\ a.start <= a.end /\ a.end <= TRAMPOLINE
     /\ DOMAIN a.data_frames \subseteq a.start .. a.end - 1}

Tables == Seq((Nodes \cup {<<"root", 0>>}) \X Frame)
Space == [areas : Seq(Area), pte : [Vpn -> Frame \cup {None}], tables : Tables]
Status == {"ok", "full", "out of frames", "mapped before", "unmapped page copied",
           "invalid before"}
State == [fa : Allocator, bytes : [Frame -> Value], space : Space,
          stack : Seq(Frame), status : Status]

-----------------------------------------------------------------------------
(* Who owns which frames.                                                  *)

(* The allocator has handed out the frames below current, and those that   *)
(* are not in use are recycled, once each.                                 *)
Accounts(f, used) ==
  /\ f \in Allocator
  /\ IsInjective(f.recycled)
  /\ used \cap Range(f.recycled) = {}
  /\ used \cup Range(f.recycled) = 0 .. f.current - 1

data(s) == Range(s.pte) \ {None}
table(s) == Range(table_frames_of(s))
names(s) == {s.tables[i][1] : i \in DOMAIN s.tables}

(* Data, page table, kernel stack and the frames of others are apart.      *)
Apart(f, D, T, K, others) ==
  /\ D \cap T = {} /\ D \cap K = {} /\ T \cap K = {}
  /\ others \cap (D \cup T \cup K) = {}
  /\ Accounts(f, others \cup D \cup T \cup K)

(* No frame is in two pages.                                               *)
PagesApart(s) ==
  \A v, w \in Vpn : s.pte[v] # None /\ s.pte[v] = s.pte[w] => v = w

(* The page table and the areas hold the same pages, each in one area.     *)
Matches(s) ==
  /\ \A i \in DOMAIN s.areas : \A v \in DOMAIN s.areas[i].data_frames :
       s.pte[v] = s.areas[i].data_frames[v]
  /\ \A i, j \in DOMAIN s.areas :
       DOMAIN s.areas[i].data_frames \cap DOMAIN s.areas[j].data_frames # {} => i = j
  /\ \A v \in Vpn : s.pte[v] # None =>
       \E i \in DOMAIN s.areas : v \in DOMAIN s.areas[i].data_frames

(* A state under construction owns its frames, the others those of others. *)
Holds(st, others) ==
  /\ PagesApart(st.space)
  /\ IsInjective(table_frames_of(st.space)) /\ IsInjective(st.stack)
  /\ Apart(st.fa, data(st.space), table(st.space), Range(st.stack), others)

-----------------------------------------------------------------------------
(* The frame allocator.                                                    *)

LEMMA AllocatorFields ==
  ASSUME NEW f \in [current : 0 .. FRAMES, recycled : Seq(Frame)], NEW ppn, NEW ppns \in Seq(Frame)
  PROVE  /\ f.current \in 0 .. FRAMES /\ f.recycled \in Seq(Frame)
         /\ alloc(f) = IF f.recycled # <<>>
                       THEN [current |-> f.current, recycled |-> SubSeq(f.recycled, 1, Len(f.recycled) - 1)]
                       ELSE [current |-> f.current + 1, recycled |-> f.recycled]
         /\ dealloc(f, ppn) =
              [current |-> f.current, recycled |-> Append(f.recycled, ppn)]
         /\ dealloc_all(f, ppns) =
              [current |-> f.current, recycled |-> f.recycled \o ppns]
<1>1. f.current \in 0 .. FRAMES /\ f.recycled \in Seq(Frame)
  OBVIOUS
<1>2. alloc(f) = IF f.recycled # <<>>
                 THEN [current |-> f.current, recycled |-> SubSeq(f.recycled, 1, Len(f.recycled) - 1)]
                 ELSE [current |-> f.current + 1, recycled |-> f.recycled]
  <2> DEFINE front == SubSeq(f.recycled, 1, Len(f.recycled) - 1)
  <2>1. alloc(f) = IF f.recycled # <<>> THEN [f EXCEPT !.recycled = front]
                   ELSE [f EXCEPT !.current = f.current + 1]
    BY DEF alloc
  <2> HIDE DEF front
  <2>2. alloc(f) = IF f.recycled # <<>> THEN [current |-> f.current, recycled |-> front]
                   ELSE [current |-> f.current + 1, recycled |-> f.recycled]
    BY <2>1
  <2> QED BY <2>2 DEF front
<1>3. dealloc(f, ppn) = [current |-> f.current, recycled |-> Append(f.recycled, ppn)]
  BY DEF dealloc
<1>4. dealloc_all(f, ppns) = [current |-> f.current, recycled |-> f.recycled \o ppns]
  <2> DEFINE after == f.recycled \o ppns
  <2>1. dealloc_all(f, ppns) = [f EXCEPT !.recycled = after]
    BY DEF dealloc_all
  <2> HIDE DEF after
  <2>2. dealloc_all(f, ppns) = [current |-> f.current, recycled |-> after]
    BY <2>1
  <2> QED BY <2>2 DEF after
<1> QED BY <1>1, <1>2, <1>3, <1>4

(* alloc hands out a frame that is not in use, and accounts for it.        *)
LEMMA AllocAccounts ==
  ASSUME NEW f, NEW used, Accounts(f, used), can_alloc(f)
  PROVE  /\ next_frame(f) \in Frame
         /\ next_frame(f) \notin used
         /\ Accounts(alloc(f), used \cup {next_frame(f)})
<1>1. /\ f.current \in 0 .. FRAMES /\ f.recycled \in Seq(Frame)
      /\ IsInjective(f.recycled) /\ used \cap Range(f.recycled) = {}
      /\ used \cup Range(f.recycled) = 0 .. f.current - 1
      /\ FRAMES \in Nat /\ Frame = 0 .. FRAMES - 1
      /\ Len(f.recycled) \in Nat
  BY FramesAssumption, AllocatorFields, SeqFacts, SMTT(30) DEF Accounts, Allocator, Frame
<1>2. CASE f.recycled # <<>>
  <2> DEFINE front == SubSeq(f.recycled, 1, Len(f.recycled) - 1)
             last == f.recycled[Len(f.recycled)]
  <2>1. /\ front \in Seq(Frame)
        /\ last \in Frame
        /\ last \in Range(f.recycled)
        /\ Range(front) = Range(f.recycled) \ {last}
        /\ IsInjective(front)
        /\ Len(front) = Len(f.recycled) - 1
    BY <1>1, <1>2, PopRange, Zenon
  <2>2. /\ next_frame(f) = last
        /\ alloc(f) = [current |-> f.current, recycled |-> front]
    BY <1>1, <1>2, AllocatorFields, Zenon DEF next_frame, Accounts, Allocator
  <2> HIDE DEF front, last
  <2>4. Accounts(alloc(f), used \cup {next_frame(f)})
    BY <1>1, <2>1, <2>2, SMTT(30) DEF Accounts, Allocator
  <2> QED BY <1>1, <2>1, <2>2, <2>4
<1>3. CASE f.recycled = <<>>
  <2>1. f.current # FRAMES /\ f.current \in Frame
    BY <1>1, <1>3, SMTT(30) DEF can_alloc
  <2>2. /\ next_frame(f) = f.current
        /\ alloc(f) = [current |-> f.current + 1, recycled |-> f.recycled]
    BY <1>1, <1>3, AllocatorFields DEF next_frame, Accounts, Allocator
  <2>3. Accounts(alloc(f), used \cup {next_frame(f)})
    <3>1. Range(f.recycled) = {}
      BY <1>3, EmptySeqFacts DEF Range
    <3>2. used = 0 .. f.current - 1
      BY <1>1, <3>1
    <3>3. used \cup {f.current} = 0 .. (f.current + 1) - 1
      BY <1>1, <3>2, SMTT(30)
    <3>4. f.current + 1 \in 0 .. FRAMES
      BY <1>1, <2>1, SMTT(30)
    <3> QED BY <1>1, <2>2, <3>1, <3>3, <3>4, SMTT(30) DEF Accounts, Allocator
  <2> QED BY <1>1, <2>1, <2>2, <2>3, SMTT(30)
<1> QED BY <1>2, <1>3

(* alloc takes one of the frames that are left.                            *)
LEMMA AllocTyped ==
  ASSUME NEW f \in Allocator, can_alloc(f)
  PROVE  /\ next_frame(f) \in Frame /\ alloc(f) \in Allocator
         /\ usable_frames(alloc(f)) = usable_frames(f) - 1
<1>1. /\ f.current \in 0 .. FRAMES /\ f.recycled \in Seq(Frame)
      /\ FRAMES \in Nat /\ Frame = 0 .. FRAMES - 1 /\ Len(f.recycled) \in Nat
  BY FramesAssumption, AllocatorFields, SeqFacts DEF Allocator, Frame
<1>2. CASE f.recycled # <<>>
  <2> DEFINE front == SubSeq(f.recycled, 1, Len(f.recycled) - 1)
  <2>1. Len(f.recycled) \in Nat \ {0} /\ f.recycled[Len(f.recycled)] \in Frame
    BY <1>1, <1>2, SeqFacts, SMTT(30)
  <2>2. front \in Seq(Frame) /\ Len(front) = Len(f.recycled) - 1
    <3>1. /\ Len(f.recycled) - 1 \in Nat /\ 1 <= Len(f.recycled) - 1 + 1
          /\ Len(f.recycled) - 1 <= Len(f.recycled)
          /\ Len(f.recycled) - 1 + 1 - 1 = Len(f.recycled) - 1
      BY <2>1
    <3> QED BY <1>1, <3>1, SubSeqFacts, SMTT(30)
  <2>3. /\ next_frame(f) = f.recycled[Len(f.recycled)]
        /\ alloc(f) = [current |-> f.current, recycled |-> front]
    BY <1>2, AllocatorFields, Zenon DEF next_frame, Allocator
  <2> HIDE DEF front
  <2>4. alloc(f) \in Allocator /\ alloc(f).current = f.current /\ alloc(f).recycled = front
    BY <1>1, <2>2, <2>3 DEF Allocator
  <2> QED BY <1>1, <2>1, <2>2, <2>3, <2>4 DEF usable_frames
<1>3. CASE f.recycled = <<>>
  <2>1. f.current \in Frame /\ f.current + 1 \in 0 .. FRAMES
    BY <1>1, <1>3 DEF can_alloc
  <2>2. /\ next_frame(f) = f.current
        /\ alloc(f) = [current |-> f.current + 1, recycled |-> f.recycled]
    BY <1>3, AllocatorFields, Zenon DEF next_frame, Allocator
  <2>3. /\ alloc(f) \in Allocator /\ alloc(f).current = f.current + 1
        /\ alloc(f).recycled = f.recycled
    BY <1>1, <2>1, <2>2 DEF Allocator
  <2> QED BY <1>1, <2>1, <2>2, <2>3 DEF usable_frames
<1> QED BY <1>2, <1>3

(* Frames that are left can be handed out.                                 *)
LEMMA UsableMeansAlloc ==
  ASSUME NEW f \in Allocator, usable_frames(f) >= 1
  PROVE  can_alloc(f)
<1>1. f.current \in 0 .. FRAMES /\ f.recycled \in Seq(Frame) /\ FRAMES \in Nat
  BY FramesAssumption, AllocatorFields DEF Allocator
<1>2. f.recycled = <<>> => Len(f.recycled) = 0
  BY EmptySeqFacts
<1> QED BY <1>1, <1>2 DEF usable_frames, can_alloc

(* dealloc of frames that were in use.                                     *)
LEMMA DeallocAccounts ==
  ASSUME NEW f, NEW used, Accounts(f, used),
         NEW ppns \in Seq(Frame), IsInjective(ppns), Range(ppns) \subseteq used
  PROVE  Accounts(dealloc_all(f, ppns), used \ Range(ppns))
<1>1. /\ f.current \in 0 .. FRAMES /\ f.recycled \in Seq(Frame)
      /\ IsInjective(f.recycled) /\ used \cap Range(f.recycled) = {}
      /\ used \cup Range(f.recycled) = 0 .. f.current - 1
  BY AllocatorFields DEF Accounts, Allocator
<1>2. dealloc_all(f, ppns) = [current |-> f.current, recycled |-> f.recycled \o ppns]
  BY AllocatorFields, Zenon DEF Accounts, Allocator
<1>3. /\ f.recycled \o ppns \in Seq(Frame)
      /\ Range(f.recycled \o ppns) = Range(f.recycled) \cup Range(ppns)
      /\ IsInjective(f.recycled \o ppns)
  BY <1>1, ConcatRange, SMTT(30)
<1> QED BY <1>1, <1>2, <1>3, SMTT(30) DEF Accounts, Allocator

LEMMA DeallocOne ==
  ASSUME NEW f, NEW used, Accounts(f, used), NEW ppn \in used, ppn \in Frame
  PROVE  Accounts(dealloc(f, ppn), used \ {ppn})
<1>1. /\ f.current \in 0 .. FRAMES /\ f.recycled \in Seq(Frame)
      /\ IsInjective(f.recycled) /\ used \cap Range(f.recycled) = {}
      /\ used \cup Range(f.recycled) = 0 .. f.current - 1
  BY AllocatorFields DEF Accounts, Allocator
<1>2. dealloc(f, ppn) = [current |-> f.current, recycled |-> Append(f.recycled, ppn)]
  BY AllocatorFields DEF Accounts, Allocator
<1>3. /\ Append(f.recycled, ppn) \in Seq(Frame)
      /\ Range(Append(f.recycled, ppn)) = Range(f.recycled) \cup {ppn}
      /\ IsInjective(Append(f.recycled, ppn))
  BY <1>1, AppendRange, SMTT(30)
<1> QED BY <1>1, <1>2, <1>3, SMTT(30) DEF Accounts, Allocator

-----------------------------------------------------------------------------
(* Loops, turn by turn: at[k] is the state after k turns.                  *)

(* MapArea::map                                                            *)
LEMMA MapTurns ==
  ASSUME NEW st, NEW area, Len(pages(area)) \in Nat
  PROVE  \E at : /\ at[0] = st
                 /\ \A k \in 1 .. Len(pages(area)) : at[k] = map_one(at[k - 1], pages(area)[k])
                 /\ map_area(st, area) = at[Len(pages(area))]
<1> DEFINE s == pages(area)
           n == Len(s)
           z == st
           step(x, k) == map_one(x, s[k])
           turns(f, m) == f = [k \in 0 .. m |-> IF k = 0 THEN z ELSE step(f[k - 1], k)]
           at[k \in 0 .. Len(pages(area))] ==
             IF k = 0 THEN st
             ELSE map_one(at[k - 1], pages(area)[k])
           P == {m \in 0 .. n : \E f : turns(f, m)}
<1>1. n \in Nat /\ map_area(st, area) = at[n]
  BY DEF map_area, for_each
<1>2. ASSUME NEW f, turns(f, n) PROVE turns(at, n)
  BY <1>2, Zenon
<1>3. n = Len(pages(area)) /\ z = st /\ \A x, k : step(x, k) = map_one(x, pages(area)[k])
  OBVIOUS
<1> HIDE DEF at, step, n, z
<1>4. 0 \in P
  <2> DEFINE f == [k \in 0 .. 0 |-> z]
  <2>1. turns(f, 0)
    OBVIOUS
  <2> HIDE DEF f, turns
  <2> QED BY <1>1, <2>1
<1>5. ASSUME NEW m \in 1 .. n, m - 1 \in P PROVE m \in P
  <2>1. PICK f : turns(f, m - 1)
    BY <1>5
  <2>2. /\ m - 1 \in 0 .. m - 1 /\ m - 1 # m /\ m \in 0 .. n
        /\ \A k \in 0 .. m : k # m => k \in 0 .. m - 1 /\ k - 1 # m /\ (k # 0 => k - 1 \in 0 .. m)
    BY <1>1
  <2> DEFINE g == [k \in 0 .. m |-> IF k = m THEN step(f[m - 1], m) ELSE f[k]]
  <2>3. ASSUME NEW k \in 0 .. m PROVE g[k] = IF k = 0 THEN z ELSE step(g[k - 1], k)
    <3>1. k # m => f[k] = IF k = 0 THEN z ELSE step(f[k - 1], k)
      BY <2>1, <2>2, Zenon
    <3> QED BY <2>2, <3>1
  <2>4. turns(g, m)
    BY <2>3
  <2> HIDE DEF g, turns
  <2> QED BY <2>2, <2>4
<1>6. turns(at, n)
  <2> HIDE DEF P, turns
  <2>1. 0 .. n \subseteq P
    BY <1>1, <1>4, <1>5, UpTo, Zenon
  <2> QED BY <1>1, <1>2, <2>1 DEF P
<1>7. at[0] = z /\ \A k \in 1 .. n : at[k] = step(at[k - 1], k)
  BY <1>1, <1>6
<1> QED BY <1>1, <1>3, <1>7

(* MemorySet::from_elf                                                     *)
LEMMA LoadTurns ==
  ASSUME NEW st, Len(Segments) \in Nat
  PROVE  \E at : /\ at[0] = st
                 /\ \A k \in 1 .. Len(Segments) : at[k] = load(at[k - 1], Segments[k])
                 /\ for_each(load, st, Segments) = at[Len(Segments)]
<1> DEFINE s == Segments
           n == Len(s)
           z == st
           step(x, k) == load(x, s[k])
           turns(f, m) == f = [k \in 0 .. m |-> IF k = 0 THEN z ELSE step(f[k - 1], k)]
           at[k \in 0 .. Len(Segments)] ==
             IF k = 0 THEN st
             ELSE load(at[k - 1], Segments[k])
           P == {m \in 0 .. n : \E f : turns(f, m)}
<1>1. n \in Nat /\ for_each(load, st, Segments) = at[n]
  BY DEF for_each
<1>2. ASSUME NEW f, turns(f, n) PROVE turns(at, n)
  BY <1>2, Zenon
<1>3. n = Len(Segments) /\ z = st /\ \A x, k : step(x, k) = load(x, Segments[k])
  OBVIOUS
<1> HIDE DEF at, step, n, z
<1>4. 0 \in P
  <2> DEFINE f == [k \in 0 .. 0 |-> z]
  <2>1. turns(f, 0)
    OBVIOUS
  <2> HIDE DEF f, turns
  <2> QED BY <1>1, <2>1
<1>5. ASSUME NEW m \in 1 .. n, m - 1 \in P PROVE m \in P
  <2>1. PICK f : turns(f, m - 1)
    BY <1>5
  <2>2. /\ m - 1 \in 0 .. m - 1 /\ m - 1 # m /\ m \in 0 .. n
        /\ \A k \in 0 .. m : k # m => k \in 0 .. m - 1 /\ k - 1 # m /\ (k # 0 => k - 1 \in 0 .. m)
    BY <1>1
  <2> DEFINE g == [k \in 0 .. m |-> IF k = m THEN step(f[m - 1], m) ELSE f[k]]
  <2>3. ASSUME NEW k \in 0 .. m PROVE g[k] = IF k = 0 THEN z ELSE step(g[k - 1], k)
    <3>1. k # m => f[k] = IF k = 0 THEN z ELSE step(f[k - 1], k)
      BY <2>1, <2>2, Zenon
    <3> QED BY <2>2, <3>1
  <2>4. turns(g, m)
    BY <2>3
  <2> HIDE DEF g, turns
  <2> QED BY <2>2, <2>4
<1>6. turns(at, n)
  <2> HIDE DEF P, turns
  <2>1. 0 .. n \subseteq P
    BY <1>1, <1>4, <1>5, UpTo, Zenon
  <2> QED BY <1>1, <1>2, <2>1 DEF P
<1>7. at[0] = z /\ \A k \in 1 .. n : at[k] = step(at[k - 1], k)
  BY <1>1, <1>6
<1> QED BY <1>1, <1>3, <1>7

(* MemorySet::from_existed_user                                            *)
LEMMA CopyTurns ==
  ASSUME NEW f0, NEW b, NEW old, Len(old.areas) \in Nat
  PROVE  \E at : /\ at[0] = map_trampoline(new_bare(f0, b))
                 /\ \A k \in 1 .. Len(old.areas) : at[k] = copy_area(old, b, at[k - 1], old.areas[k])
                 /\ from_existed_user(f0, b, old) = at[Len(old.areas)]
<1> DEFINE s == old.areas
           n == Len(s)
           z == map_trampoline(new_bare(f0, b))
           step(x, k) == copy_area(old, b, x, s[k])
           turns(f, m) == f = [k \in 0 .. m |-> IF k = 0 THEN z ELSE step(f[k - 1], k)]
           at[k \in 0 .. Len(old.areas)] ==
             IF k = 0 THEN map_trampoline(new_bare(f0, b))
             ELSE copy_area(old, b, at[k - 1], old.areas[k])
           P == {m \in 0 .. n : \E f : turns(f, m)}
<1>1. n \in Nat /\ from_existed_user(f0, b, old) = at[n]
  BY DEF from_existed_user, for_each
<1>2. ASSUME NEW f, turns(f, n) PROVE turns(at, n)
  BY <1>2, Zenon
<1>3. n = Len(old.areas) /\ z = map_trampoline(new_bare(f0, b)) /\ \A x, k : step(x, k) = copy_area(old, b, x, old.areas[k])
  OBVIOUS
<1> HIDE DEF at, step, n, z
<1>4. 0 \in P
  <2> DEFINE f == [k \in 0 .. 0 |-> z]
  <2>1. turns(f, 0)
    OBVIOUS
  <2> HIDE DEF f, turns
  <2> QED BY <1>1, <2>1
<1>5. ASSUME NEW m \in 1 .. n, m - 1 \in P PROVE m \in P
  <2>1. PICK f : turns(f, m - 1)
    BY <1>5
  <2>2. /\ m - 1 \in 0 .. m - 1 /\ m - 1 # m /\ m \in 0 .. n
        /\ \A k \in 0 .. m : k # m => k \in 0 .. m - 1 /\ k - 1 # m /\ (k # 0 => k - 1 \in 0 .. m)
    BY <1>1
  <2> DEFINE g == [k \in 0 .. m |-> IF k = m THEN step(f[m - 1], m) ELSE f[k]]
  <2>3. ASSUME NEW k \in 0 .. m PROVE g[k] = IF k = 0 THEN z ELSE step(g[k - 1], k)
    <3>1. k # m => f[k] = IF k = 0 THEN z ELSE step(f[k - 1], k)
      BY <2>1, <2>2, Zenon
    <3> QED BY <2>2, <3>1
  <2>4. turns(g, m)
    BY <2>3
  <2> HIDE DEF g, turns
  <2> QED BY <2>2, <2>4
<1>6. turns(at, n)
  <2> HIDE DEF P, turns
  <2>1. 0 .. n \subseteq P
    BY <1>1, <1>4, <1>5, UpTo, Zenon
  <2> QED BY <1>1, <1>2, <2>1 DEF P
<1>7. at[0] = z /\ \A k \in 1 .. n : at[k] = step(at[k - 1], k)
  BY <1>1, <1>6
<1> QED BY <1>1, <1>3, <1>7

(* KernelStack::new                                                        *)
LEMMA StackTurns ==
  ASSUME NEW st, Len([i \in 1 .. KSTACK |-> i]) \in Nat
  PROVE  \E at : /\ at[0] = st
                 /\ \A k \in 1 .. Len([i \in 1 .. KSTACK |-> i]) : at[k] = add_stack_page(at[k - 1], [i \in 1 .. KSTACK |-> i][k])
                 /\ new_kernel_stack(st) = at[Len([i \in 1 .. KSTACK |-> i])]
<1> DEFINE s == [i \in 1 .. KSTACK |-> i]
           n == Len(s)
           z == st
           step(x, k) == add_stack_page(x, s[k])
           turns(f, m) == f = [k \in 0 .. m |-> IF k = 0 THEN z ELSE step(f[k - 1], k)]
           at[k \in 0 .. Len([i \in 1 .. KSTACK |-> i])] ==
             IF k = 0 THEN st
             ELSE add_stack_page(at[k - 1], [i \in 1 .. KSTACK |-> i][k])
           P == {m \in 0 .. n : \E f : turns(f, m)}
<1>1. n \in Nat /\ new_kernel_stack(st) = at[n]
  BY DEF new_kernel_stack, for_each
<1>2. ASSUME NEW f, turns(f, n) PROVE turns(at, n)
  BY <1>2, Zenon
<1>3. n = Len([i \in 1 .. KSTACK |-> i]) /\ z = st /\ \A x, k : step(x, k) = add_stack_page(x, [i \in 1 .. KSTACK |-> i][k])
  OBVIOUS
<1> HIDE DEF at, step, n, z
<1>4. 0 \in P
  <2> DEFINE f == [k \in 0 .. 0 |-> z]
  <2>1. turns(f, 0)
    OBVIOUS
  <2> HIDE DEF f, turns
  <2> QED BY <1>1, <2>1
<1>5. ASSUME NEW m \in 1 .. n, m - 1 \in P PROVE m \in P
  <2>1. PICK f : turns(f, m - 1)
    BY <1>5
  <2>2. /\ m - 1 \in 0 .. m - 1 /\ m - 1 # m /\ m \in 0 .. n
        /\ \A k \in 0 .. m : k # m => k \in 0 .. m - 1 /\ k - 1 # m /\ (k # 0 => k - 1 \in 0 .. m)
    BY <1>1
  <2> DEFINE g == [k \in 0 .. m |-> IF k = m THEN step(f[m - 1], m) ELSE f[k]]
  <2>3. ASSUME NEW k \in 0 .. m PROVE g[k] = IF k = 0 THEN z ELSE step(g[k - 1], k)
    <3>1. k # m => f[k] = IF k = 0 THEN z ELSE step(f[k - 1], k)
      BY <2>1, <2>2, Zenon
    <3> QED BY <2>2, <3>1
  <2>4. turns(g, m)
    BY <2>3
  <2> HIDE DEF g, turns
  <2> QED BY <2>2, <2>4
<1>6. turns(at, n)
  <2> HIDE DEF P, turns
  <2>1. 0 .. n \subseteq P
    BY <1>1, <1>4, <1>5, UpTo, Zenon
  <2> QED BY <1>1, <1>2, <2>1 DEF P
<1>7. at[0] = z /\ \A k \in 1 .. n : at[k] = step(at[k - 1], k)
  BY <1>1, <1>6
<1> QED BY <1>1, <1>3, <1>7
-----------------------------------------------------------------------------
(* The page table.                                                         *)

LEMMA StateFields ==
  ASSUME NEW st \in State
  PROVE  /\ st.fa \in Allocator /\ st.bytes \in [Frame -> Value]
         /\ st.space \in Space /\ st.stack \in Seq(Frame)
         /\ st.space.areas \in Seq(Area) /\ st.space.pte \in [Vpn -> Frame \cup {None}]
         /\ st.space.tables \in Tables /\ st.status \in Status
  BY DEF State, Space

(* A state is made of its fields.                                          *)
LEMMA StateMade ==
  ASSUME NEW f \in Allocator, NEW b \in [Frame -> Value], NEW s \in Space,
         NEW k \in Seq(Frame), NEW w \in Status
  PROVE  [fa |-> f, bytes |-> b, space |-> s, stack |-> k, status |-> w] \in State
  BY DEF State

LEMMA FailFields ==
  ASSUME NEW st \in State, NEW why \in Status
  PROVE  /\ fail(st, why) = [fa |-> st.fa, bytes |-> st.bytes, space |-> st.space,
                             stack |-> st.stack, status |-> why]
         /\ fail(st, why) \in State
         /\ fail(st, why).fa = st.fa /\ fail(st, why).bytes = st.bytes
         /\ fail(st, why).space = st.space /\ fail(st, why).stack = st.stack
         /\ fail(st, why).status = why
<1>1. fail(st, why) = [fa |-> st.fa, bytes |-> st.bytes, space |-> st.space,
                       stack |-> st.stack, status |-> why]
  BY DEF fail, State
<1> QED BY <1>1, StateFields, StateMade, SMTT(30)

LEMMA FrameAlloc ==
  ASSUME NEW st \in State, can_alloc(st.fa)
  PROVE  /\ frame_alloc(st) =
              [fa |-> alloc(st.fa), bytes |-> [st.bytes EXCEPT ![next_frame(st.fa)] = 0],
               space |-> st.space, stack |-> st.stack, status |-> st.status]
         /\ frame_alloc(st) \in State
<1> DEFINE f == alloc(st.fa)
           x == next_frame(st.fa)
           b == [st.bytes EXCEPT ![x] = 0]
<1>1. f \in Allocator /\ x \in Frame
  BY StateFields, AllocTyped
<1>2. frame_alloc(st) = [st EXCEPT !.bytes = b, !.fa = f]
  BY DEF frame_alloc
<1> HIDE DEF f, x
<1>3. b \in [Frame -> Value]
  BY <1>1, StateFields, SpaceAssumption
<1> HIDE DEF b
<1>4. frame_alloc(st) = [fa |-> f, bytes |-> b, space |-> st.space, stack |-> st.stack,
                         status |-> st.status]
  BY <1>2 DEF State
<1>5. st.status \in Status
  BY DEF State
<1>6. frame_alloc(st) \in State
  BY <1>1, <1>3, <1>4, <1>5, StateFields, StateMade, SMTT(30)
<1> QED BY <1>4, <1>6 DEF f, x, b

(* A frame taken from those that are left is added to one of the owners.   *)
LEMMA ApartAlloc ==
  ASSUME NEW f, NEW D, NEW T, NEW K, NEW others, Apart(f, D, T, K, others), can_alloc(f)
  PROVE  /\ next_frame(f) \in Frame /\ next_frame(f) \notin others
         /\ next_frame(f) \notin D /\ next_frame(f) \notin T /\ next_frame(f) \notin K
         /\ Apart(alloc(f), D, T \cup {next_frame(f)}, K, others)
         /\ Apart(alloc(f), D, T, K \cup {next_frame(f)}, others)
         /\ Apart(alloc(f), D, T, K, others \cup {next_frame(f)})
<1> DEFINE x == next_frame(f)
           U == others \cup D \cup T \cup K
           g == alloc(f)
<1>1. x \in Frame /\ x \notin U /\ Accounts(g, U \cup {x})
  BY AllocAccounts, Zenon DEF Apart
<1>2. /\ others \cup D \cup (T \cup {x}) \cup K = U \cup {x}
      /\ others \cup D \cup T \cup (K \cup {x}) = U \cup {x}
      /\ (others \cup {x}) \cup D \cup T \cup K = U \cup {x}
  OBVIOUS
<1> HIDE DEF x, g
<1>3. x \notin others /\ x \notin D /\ x \notin T /\ x \notin K
  BY <1>1
<1>4. Apart(g, D, T \cup {x}, K, others)
  BY <1>1, <1>2, <1>3, SMTT(30) DEF Apart
<1>5. Apart(g, D, T, K \cup {x}, others)
  BY <1>1, <1>2, <1>3, SMTT(30) DEF Apart
<1>6. Apart(g, D, T, K, others \cup {x})
  BY <1>1, <1>2, <1>3, SMTT(30) DEF Apart
<1> QED BY <1>1, <1>3, <1>4, <1>5, <1>6 DEF x, g

(* The frames and the names of the nodes, when a node is added.            *)
Extends(old, new, node, x) ==
  /\ old.tables \in Tables /\ node \in Nodes /\ x \in Frame
  /\ new.tables = Append(old.tables, <<node, x>>)

LEMMA TablesAppend ==
  ASSUME NEW old, NEW new, NEW node, NEW x, Extends(old, new, node, x)
  PROVE  /\ new.tables \in Tables
         /\ table_frames_of(old) \in Seq(Frame)
         /\ table_frames_of(new) = Append(table_frames_of(old), x)
         /\ names(new) = names(old) \cup {node}
<1> DEFINE N == Nodes \cup {<<"root", 0>>}
           t == old.tables
           u == new.tables
           n == Len(t)
<1> USE DEF Extends
<1>1. t \in Seq(N \X Frame) /\ n \in Nat /\ DOMAIN t = 1 .. n /\ <<node, x>> \in N \X Frame
      /\ \A i \in 1 .. n : t[i] \in N \X Frame
  BY SeqFacts DEF Tables
<1>2. /\ u \in Seq(N \X Frame) /\ Len(u) = n + 1 /\ DOMAIN u = 1 .. n + 1
      /\ (\A i \in 1 .. n : u[i] = t[i]) /\ u[n + 1] = <<node, x>>
  <2>1. u = Append(t, <<node, x>>)
    OBVIOUS
  <2> HIDE DEF t, u
  <2>2. u \in Seq(N \X Frame) /\ Len(u) = n + 1
        /\ (\A i \in 1 .. n : u[i] = t[i]) /\ u[n + 1] = <<node, x>>
    BY <1>1, <2>1, SMTT(30)
  <2> QED BY <2>2, SeqFacts
<1>3. table_frames_of(old) = [i \in 1 .. n |-> t[i][2]]
  BY <1>1 DEF table_frames_of
<1>4. table_frames_of(new) = [i \in 1 .. n + 1 |-> u[i][2]]
  BY <1>2 DEF table_frames_of
<1>5. names(old) = {t[i][1] : i \in 1 .. n}
  BY <1>1 DEF names
<1>6. names(new) = {u[i][1] : i \in 1 .. n + 1}
  BY <1>2 DEF names
<1> HIDE DEF t, u, n
<1>7. names(new) = names(old) \cup {node}
  BY <1>1, <1>2, <1>5, <1>6, SMTT(30)
<1> DEFINE tf == [i \in 1 .. n |-> t[i][2]]
<1>8. tf \in Seq(Frame) /\ Len(tf) = n
  BY <1>1
<1>9. [i \in 1 .. n + 1 |-> u[i][2]] = Append(tf, x)
  <2>1. Append(tf, x) = [i \in 1 .. n + 1 |-> IF i = n + 1 THEN x ELSE tf[i]]
    BY <1>1, <1>8, SMTT(30)
  <2>2. \A i \in 1 .. n + 1 : i # n + 1 => i \in 1 .. n
    BY <1>1, SMTT(30)
  <2>3. \A i \in 1 .. n + 1 : u[i][2] = IF i = n + 1 THEN x ELSE tf[i]
    BY <1>2, <2>2
  <2> HIDE DEF tf
  <2> QED BY <2>1, <2>3
<1> QED BY <1>2, <1>3, <1>4, <1>7, <1>8, <1>9 DEF u, Tables

(* What add_node does: nothing, fail, or take a frame for the node.        *)
AddsNode(st, node, r) ==
  /\ can_alloc(st.fa) /\ node \notin names(st.space)
  /\ r.fa = alloc(st.fa) /\ r.status = st.status
  /\ r.space.tables = Append(st.space.tables, <<node, next_frame(st.fa)>>)

LEMMA AddNode ==
  ASSUME NEW st \in State, NEW node \in Nodes, NEW r, r = add_node(st, node)
  PROVE  /\ r \in State
         /\ r.space.areas = st.space.areas /\ r.space.pte = st.space.pte
         /\ r.stack = st.stack
         /\ \/ r = st
            \/ /\ r = fail(st, "out of frames")
               /\ ~can_alloc(st.fa) /\ node \notin names(st.space)
            \/ AddsNode(st, node, r)
<1>1. (\E t \in Range(st.space.tables) : t[1] = node) <=> node \in names(st.space)
  BY DEF Range, names
<1>2. CASE st.status # "ok" \/ node \in names(st.space)
  BY <1>1, <1>2, Zenon DEF add_node
<1>3. CASE ~(st.status # "ok" \/ node \in names(st.space)) /\ ~can_alloc(st.fa)
  <2>1. r = fail(st, "out of frames")
    BY <1>1, <1>3, Zenon DEF add_node
  <2>2. fail(st, "out of frames") \in State
        /\ fail(st, "out of frames").space = st.space /\ fail(st, "out of frames").stack = st.stack
    <3>1. "out of frames" \in Status
      BY DEF Status
    <3> QED BY <3>1, FailFields, Zenon
  <2> QED BY <1>3, <2>1, <2>2, Zenon
<1>4. CASE ~(st.status # "ok" \/ node \in names(st.space)) /\ can_alloc(st.fa)
  <2> DEFINE a == frame_alloc(st)
             x == next_frame(st.fa)
             u == Append(st.space.tables, <<node, x>>)
             s == [areas |-> st.space.areas, pte |-> st.space.pte, tables |-> u]
  <2>1. r = [a EXCEPT !.space.tables = Append(a.space.tables, <<node, x>>)]
    BY <1>1, <1>4 DEF add_node
  <2>2. a = [fa |-> alloc(st.fa), bytes |-> a.bytes, space |-> st.space,
             stack |-> st.stack, status |-> st.status]
        /\ a \in State
    BY <1>4, FrameAlloc, SMTT(30)
  <2> HIDE DEF a
  <2>3. /\ st.space \in Space /\ st.space.areas \in Seq(Area)
        /\ st.space.pte \in [Vpn -> Frame \cup {None}]
        /\ st.space.tables \in Tables
        /\ st.stack \in Seq(Frame) /\ st.status \in Status
        /\ a.fa \in Allocator /\ a.bytes \in [Frame -> Value]
        /\ x \in Frame
    <3>1. st.status \in Status
      BY DEF State
    <3> QED BY <1>4, <2>2, <3>1, StateFields, AllocTyped
  <2>4. u \in Tables
    <3>1. <<node, x>> \in (Nodes \cup {<<"root", 0>>}) \X Frame
      BY <2>3
    <3> HIDE DEF x
    <3> QED BY <2>3, <3>1, SMTT(30) DEF Tables
  <2>5. a.space = st.space
    BY <2>2
  <2>6. r = [a EXCEPT !.space.tables = u]
    BY <2>1, <2>5
  <2> HIDE DEF u, x
  <2>7. r = [fa |-> a.fa, bytes |-> a.bytes, space |-> s, stack |-> a.stack,
             status |-> a.status]
    BY <2>2, <2>5, <2>6 DEF State, Space
  <2>8. s \in Space
    BY <2>3, <2>4 DEF Space
  <2>9. a.fa = alloc(st.fa) /\ a.stack = st.stack /\ a.status = st.status
    BY <2>2
  <2>10. r \in State
    <3> HIDE DEF s
    <3> QED BY <2>3, <2>7, <2>8, <2>9, StateMade, SMTT(30)
  <2> QED BY <1>4, <2>7, <2>9, <2>10 DEF AddsNode, u, x
<1> QED BY <1>2, <1>3, <1>4

LEMMA AddNodeHolds ==
  ASSUME NEW st \in State, NEW node \in Nodes, NEW others, Holds(st, others)
  PROVE  Holds(add_node(st, node), others)
<1> DEFINE r == add_node(st, node)
<1> SUFFICES Holds(r, others)
  OBVIOUS
<1>1. /\ r \in State
      /\ r.space.areas = st.space.areas /\ r.space.pte = st.space.pte
      /\ r.stack = st.stack
      /\ \/ r = st
         \/ r = fail(st, "out of frames")
         \/ AddsNode(st, node, r)
  BY AddNode
<1> HIDE DEF r
<1>2. CASE r = st
  BY <1>2
<1>3. CASE r = fail(st, "out of frames")
  <2>1. r.fa = st.fa /\ r.space = st.space /\ r.stack = st.stack
    <3>1. "out of frames" \in Status
      BY DEF Status
    <3> QED BY <1>3, <3>1, FailFields, Zenon
  <2> QED BY <2>1 DEF Holds
<1>4. CASE AddsNode(st, node, r)
  <2> DEFINE x == next_frame(st.fa)
  <2>1. Apart(st.fa, data(st.space), table(st.space), Range(st.stack), others)
    BY DEF Holds
  <2>2. /\ x \in Frame /\ x \notin table(st.space)
        /\ Apart(r.fa, data(st.space), table(st.space) \cup {x}, Range(st.stack), others)
    <3>1. can_alloc(st.fa) /\ r.fa = alloc(st.fa)
      BY <1>4 DEF AddsNode
    <3>2. /\ x \in Frame /\ x \notin table(st.space)
          /\ Apart(alloc(st.fa), data(st.space), table(st.space) \cup {x},
                   Range(st.stack), others)
      BY <2>1, <3>1, ApartAlloc, Zenon
    <3> QED BY <3>1, <3>2
  <2>3. /\ table_frames_of(st.space) \in Seq(Frame)
        /\ table_frames_of(r.space) = Append(table_frames_of(st.space), x)
    <3>1. st.space.tables \in Tables
      BY StateFields
    <3>2. r.space.tables = Append(st.space.tables, <<node, x>>)
      BY <1>4 DEF AddsNode
    <3> HIDE DEF x
    <3>3. Extends(st.space, r.space, node, x)
      BY <2>2, <3>1, <3>2 DEF Extends
    <3> QED BY <3>3, TablesAppend
  <2> HIDE DEF x
  <2>4. IsInjective(table_frames_of(r.space)) /\ table(r.space) = table(st.space) \cup {x}
    BY <2>2, <2>3, AppendRange, SMTT(30) DEF table, Holds
  <2>5. data(r.space) = data(st.space)
    BY <1>1 DEF data
  <2>6. PagesApart(r.space)
    BY <1>1 DEF PagesApart, Holds
  <2> QED BY <1>1, <2>2, <2>4, <2>5, <2>6 DEF Holds
<1> QED BY <1>1, <1>2, <1>3, <1>4



LEMMA UsableInt ==
  ASSUME NEW f \in Allocator
  PROVE  usable_frames(f) \in Int
<1>1. f.current \in 0 .. FRAMES /\ f.recycled \in Seq(Frame) /\ FRAMES \in Nat
  BY FramesAssumption, AllocatorFields DEF Allocator
<1>2. Len(f.recycled) \in Nat
  BY <1>1, SeqFacts
<1> QED BY <1>1, <1>2 DEF usable_frames

(* find_pte_create: only the nodes and the allocator change.               *)
LEMMA Create ==
  ASSUME NEW st \in State, NEW vpn \in Vpn
  PROVE  /\ find_pte_create(st, vpn) \in State
         /\ find_pte_create(st, vpn).space.areas = st.space.areas
         /\ find_pte_create(st, vpn).space.pte = st.space.pte
         /\ find_pte_create(st, vpn).stack = st.stack
         /\ find_pte_create(st, vpn).status \in {st.status, "out of frames"}
<1> DEFINE a == add_node(st, mid(vpn))
           r == add_node(a, leaf(vpn))
<1>1. mid(vpn) \in Nodes /\ leaf(vpn) \in Nodes
  BY DEF Nodes, nodes_of
<1>2. /\ a \in State /\ a.space.areas = st.space.areas /\ a.space.pte = st.space.pte
      /\ a.stack = st.stack
      /\ (a = st \/ a = fail(st, "out of frames") \/ AddsNode(st, mid(vpn), a))
  BY <1>1, AddNode
<1>3. a.status \in {st.status, "out of frames"}
  <2> HIDE DEF a
  <2>1. "out of frames" \in Status
    BY DEF Status
  <2>2. fail(st, "out of frames").status = "out of frames"
    BY <2>1, FailFields, Zenon
  <2> QED BY <1>2, <2>2 DEF AddsNode
<1> HIDE DEF a
<1>4. /\ r \in State /\ r.space.areas = a.space.areas /\ r.space.pte = a.space.pte
      /\ r.stack = a.stack
      /\ (r = a \/ r = fail(a, "out of frames") \/ AddsNode(a, leaf(vpn), r))
  BY <1>1, <1>2, AddNode, ZenonT(60)
<1>5. r.status \in {a.status, "out of frames"}
  <2> HIDE DEF r
  <2>1. "out of frames" \in Status
    BY DEF Status
  <2>2. fail(a, "out of frames").status = "out of frames"
    BY <1>2, <2>1, FailFields, Zenon
  <2> QED BY <1>4, <2>2 DEF AddsNode
<1>6. find_pte_create(st, vpn) = r
  BY DEF find_pte_create, a
<1> HIDE DEF r
<1> QED BY <1>2, <1>3, <1>4, <1>5, <1>6

LEMMA CreateHolds ==
  ASSUME NEW st \in State, NEW vpn \in Vpn, NEW others, Holds(st, others)
  PROVE  Holds(find_pte_create(st, vpn), others)
<1>1. mid(vpn) \in Nodes /\ leaf(vpn) \in Nodes
  BY DEF Nodes, nodes_of
<1>2. add_node(st, mid(vpn)) \in State /\ Holds(add_node(st, mid(vpn)), others)
  BY <1>1, AddNode, AddNodeHolds
<1> QED BY <1>1, <1>2, AddNodeHolds DEF find_pte_create

(* PageTable::map, from a state that has not failed: the entry of the page *)
(* was free and is set, or the kernel panics.                              *)
Mapped(st, vpn, ppn, r) ==
  LET created == find_pte_create(st, vpn)
  IN /\ r.status = "ok" /\ st.space.pte[vpn] = None
     /\ r.fa = created.fa /\ r.space.tables = created.space.tables
     /\ r.space.pte = [st.space.pte EXCEPT ![vpn] = ppn]

LEMMA PageTableMap ==
  ASSUME NEW st \in State, NEW vpn \in Vpn, NEW ppn \in Frame,
         NEW r, r = page_table_map(st, vpn, ppn), st.status = "ok"
  PROVE  /\ r \in State
         /\ r.space.areas = st.space.areas /\ r.stack = st.stack
         /\ \/ r.status = "out of frames"
               /\ find_pte_create(st, vpn).status = "out of frames"
            \/ r.status = "mapped before" /\ find_pte_create(st, vpn).status = "ok"
               /\ r = fail(find_pte_create(st, vpn), "mapped before")
            \/ Mapped(st, vpn, ppn, r)
<1> DEFINE c == find_pte_create(st, vpn)
<1>1. /\ c \in State /\ c.space.areas = st.space.areas /\ c.space.pte = st.space.pte
      /\ c.stack = st.stack /\ c.status \in {"ok", "out of frames"}
  BY Create
<1>2. r = IF c.status # "ok" THEN c
          ELSE IF c.space.pte[vpn] # None THEN fail(c, "mapped before")
          ELSE [c EXCEPT !.space.pte[vpn] = ppn]
  BY DEF page_table_map
<1>3. Mapped(st, vpn, ppn, r) <=>
        /\ r.status = "ok" /\ st.space.pte[vpn] = None
        /\ r.fa = c.fa /\ r.space.tables = c.space.tables
        /\ r.space.pte = [st.space.pte EXCEPT ![vpn] = ppn]
  BY Zenon DEF Mapped
<1> SUFFICES /\ r \in State
             /\ r.space.areas = st.space.areas /\ r.stack = st.stack
             /\ \/ r.status = "out of frames" /\ c.status = "out of frames"
                \/ r.status = "mapped before" /\ c.status = "ok"
                   /\ r = fail(c, "mapped before")
                \/ Mapped(st, vpn, ppn, r)
  OBVIOUS
<1> HIDE DEF c
<1>4. CASE c.status # "ok"
  BY <1>1, <1>2, <1>4
<1>5. CASE c.status = "ok" /\ c.space.pte[vpn] # None
  <2>1. "mapped before" \in Status
    BY DEF Status
  <2>2. r = fail(c, "mapped before")
    BY <1>2, <1>5
  <2>3. /\ fail(c, "mapped before") \in State
        /\ fail(c, "mapped before").space = c.space
        /\ fail(c, "mapped before").stack = c.stack
        /\ fail(c, "mapped before").status = "mapped before"
    BY <1>1, <2>1, FailFields, Zenon
  <2> QED BY <1>1, <1>5, <2>2, <2>3
<1>6. CASE c.status = "ok" /\ c.space.pte[vpn] = None
  <2> DEFINE e == [c.space.pte EXCEPT ![vpn] = ppn]
             s == [areas |-> c.space.areas, pte |-> e, tables |-> c.space.tables]
  <2>1. r = [c EXCEPT !.space.pte = e]
    BY <1>2, <1>6
  <2>2. e \in [Vpn -> Frame \cup {None}]
    BY <1>1, StateFields
  <2> HIDE DEF e
  <2>3. r = [fa |-> c.fa, bytes |-> c.bytes, space |-> s, stack |-> c.stack,
             status |-> c.status]
    BY <1>1, <2>1, ZenonT(60) DEF State, Space
  <2>4. /\ s \in Space /\ s.areas = c.space.areas /\ s.pte = e
        /\ s.tables = c.space.tables
    BY <1>1, <2>2, StateFields DEF Space
  <2>5. r \in State
    <3> HIDE DEF s
    <3>1. /\ c.fa \in Allocator /\ c.bytes \in [Frame -> Value]
          /\ c.stack \in Seq(Frame) /\ c.status \in Status
      BY <1>1, StateFields
    <3> QED BY <2>3, <2>4, <3>1, StateMade, Zenon
  <2>6. /\ r.fa = c.fa /\ r.space = s /\ r.stack = c.stack /\ r.status = "ok"
    BY <1>6, <2>3
  <2>7. e = [st.space.pte EXCEPT ![vpn] = ppn] /\ st.space.pte[vpn] = None
    BY <1>1, <1>6 DEF e
  <2> HIDE DEF s
  <2> QED BY <1>1, <1>3, <2>4, <2>5, <2>6, <2>7, Zenon
<1> QED BY <1>4, <1>5, <1>6

(* The frame that is mapped passes from the others to the pages.           *)
LEMMA MapHolds ==
  ASSUME NEW st \in State, NEW vpn \in Vpn, NEW ppn \in Frame, NEW others,
         NEW r, Mapped(st, vpn, ppn, r), r.stack = st.stack,
         Holds(st, others \cup {ppn}), ppn \notin others
  PROVE  Holds(r, others)
<1> DEFINE c == find_pte_create(st, vpn)
<1>1. /\ c \in State /\ c.space.pte = st.space.pte /\ c.stack = st.stack
      /\ Holds(c, others \cup {ppn})
  BY Create, CreateHolds, Zenon
<1>2. /\ st.space.pte[vpn] = None /\ r.fa = c.fa /\ r.space.tables = c.space.tables
      /\ r.space.pte = [st.space.pte EXCEPT ![vpn] = ppn]
  BY Zenon DEF Mapped
<1> HIDE DEF c
<1>3. st.space.pte \in [Vpn -> Frame \cup {None}] /\ None \notin Frame
  BY StateFields, SMTT(30) DEF None, Frame
<1>4. \A v \in Vpn : r.space.pte[v] = IF v = vpn THEN ppn ELSE st.space.pte[v]
  BY <1>2, <1>3
<1>5. /\ DOMAIN r.space.pte = Vpn /\ DOMAIN st.space.pte = Vpn
  BY <1>2, <1>3
<1>6. data(r.space) = data(st.space) \cup {ppn} /\ data(c.space) = data(st.space)
  <2>1. data(st.space) = {st.space.pte[v] : v \in Vpn} \ {None}
    BY <1>5 DEF data, Range
  <2>2. data(r.space) = {r.space.pte[v] : v \in Vpn} \ {None}
    BY <1>5 DEF data, Range
  <2>3. data(c.space) = data(st.space)
    BY <1>1 DEF data
  <2> QED BY <1>2, <1>3, <1>4, <2>1, <2>2, <2>3, SMTT(30)
<1>7. table_frames_of(r.space) = table_frames_of(c.space)
  BY <1>2 DEF table_frames_of
<1>8. table(r.space) = table(c.space)
  BY <1>7 DEF table
<1> DEFINE D == data(st.space)
           T == table(c.space)
           K == Range(st.stack)
<1>9. Apart(c.fa, D, T, K, others \cup {ppn})
  BY <1>1, <1>6, Zenon DEF Holds
<1>10. ppn \notin D
  BY <1>9 DEF Apart
<1>11. PagesApart(r.space)
  <2>1. \A v, w \in Vpn : st.space.pte[v] # None /\ st.space.pte[v] = st.space.pte[w] => v = w
    BY <1>1 DEF Holds, PagesApart
  <2>2. \A v \in Vpn : st.space.pte[v] # ppn
    BY <1>3, <1>5, <1>10 DEF data, Range
  <2> QED BY <1>4, <2>1, <2>2 DEF PagesApart
<1> HIDE DEF D, T, K
<1>12. Apart(c.fa, D \cup {ppn}, T, K, others)
  <2>1. others \cup (D \cup {ppn}) \cup T \cup K = (others \cup {ppn}) \cup D \cup T \cup K
    OBVIOUS
  <2> QED BY <1>9, <1>10, <2>1 DEF Apart
<1>13. IsInjective(table_frames_of(r.space)) /\ IsInjective(r.stack)
  BY <1>1, <1>7, Zenon DEF Holds
<1> QED BY <1>2, <1>6, <1>8, <1>11, <1>12, <1>13, Zenon DEF Holds, D, T, K

-----------------------------------------------------------------------------
(* Mapping the pages of an area.                                           *)

SameRanges(s, t) ==
  /\ Len(t.areas) = Len(s.areas)
  /\ \A j \in 1 .. Len(s.areas) :
       t.areas[j].start = s.areas[j].start /\ t.areas[j].end = s.areas[j].end

InLast(s, vpn) ==
  /\ Len(s.areas) >= 1
  /\ vpn \in s.areas[Len(s.areas)].start .. s.areas[Len(s.areas)].end - 1

LEMMA AreaFields ==
  ASSUME NEW area \in Area
  PROVE  /\ area.start \in Nat /\ area.end \in Nat /\ area.data_frames \in PageMap
         /\ area.start <= area.end /\ area.end <= TRAMPOLINE
         /\ DOMAIN area.data_frames \subseteq area.start .. area.end - 1
         /\ area.start .. area.end - 1 \subseteq Vpn
         /\ \A v \in DOMAIN area.data_frames : area.data_frames[v] \in Frame
<1>1. /\ area.start \in Nat /\ area.end \in Nat /\ area.data_frames \in PageMap
      /\ area.start <= area.end /\ area.end <= TRAMPOLINE
      /\ DOMAIN area.data_frames \subseteq area.start .. area.end - 1
  BY DEF Area
<1>2. TRAMPOLINE \in Nat
  BY SpaceAssumption DEF TRAMPOLINE
<1>3. area.start .. area.end - 1 \subseteq Vpn
  BY <1>1, <1>2 DEF Vpn
<1>4. \A v \in DOMAIN area.data_frames : area.data_frames[v] \in Frame
  <2>1. PICK D \in SUBSET Vpn : area.data_frames \in [D -> Frame]
    BY <1>1 DEF PageMap
  <2> QED BY <2>1
<1> QED BY <1>1, <1>3, <1>4

(* data_frames with one more page.                                         *)
LEMMA InsertArea ==
  ASSUME NEW area \in Area, NEW vpn \in area.start .. area.end - 1, NEW x \in Frame
  PROVE  /\ [area EXCEPT !.data_frames = insert(area.data_frames, vpn, x)] =
              [start |-> area.start, end |-> area.end,
               data_frames |-> insert(area.data_frames, vpn, x)]
         /\ [area EXCEPT !.data_frames = insert(area.data_frames, vpn, x)] \in Area
<1> DEFINE d == insert(area.data_frames, vpn, x)
           D == DOMAIN area.data_frames \cup {vpn}
<1>1. d = [v \in D |-> IF v = vpn THEN x ELSE area.data_frames[v]]
  BY DEF insert
<1>2. D \in SUBSET (area.start .. area.end - 1) /\ area.start .. area.end - 1 \subseteq Vpn
  BY AreaFields
<1>3. d \in [D -> Frame] /\ DOMAIN d = D
  BY <1>1, AreaFields
<1>4. d \in PageMap
  BY <1>2, <1>3 DEF PageMap
<1> HIDE DEF d
<1>5. [area EXCEPT !.data_frames = d] =
        [start |-> area.start, end |-> area.end, data_frames |-> d]
  BY DEF Area
<1>6. [start |-> area.start, end |-> area.end, data_frames |-> d] \in Area
  <2>1. /\ area.start \in Nat /\ area.end \in Nat
        /\ area.start <= area.end /\ area.end <= TRAMPOLINE
    BY AreaFields
  <2>2. DOMAIN d \subseteq area.start .. area.end - 1
    BY <1>2, <1>3
  <2> QED BY <1>4, <2>1, <2>2 DEF Area
<1> QED BY <1>5, <1>6 DEF d

(* What map_one does before it turns to the page table.                    *)
Staged(st, vpn, a) ==
  LET n == Len(st.space.areas)
  IN /\ a \in State /\ a.status = "ok" /\ a.fa = alloc(st.fa)
     /\ a.stack = st.stack /\ a.space.pte = st.space.pte
     /\ a.space.tables = st.space.tables
     /\ SameRanges(st.space, a.space)
     /\ \A j \in 1 .. n - 1 : a.space.areas[j] = st.space.areas[j]
     /\ a.space.areas[n].data_frames =
          insert(st.space.areas[n].data_frames, vpn, next_frame(st.fa))

LEMMA MapOneStage ==
  ASSUME NEW st \in State, NEW vpn, InLast(st.space, vpn), st.status = "ok",
         can_alloc(st.fa)
  PROVE  \E a : /\ Staged(st, vpn, a)
                /\ map_one(st, vpn) = page_table_map(a, vpn, next_frame(st.fa))
<1> DEFINE x == next_frame(st.fa)
           n == Len(st.space.areas)
           area == st.space.areas[n]
           b == frame_alloc(st)
           d == insert(area.data_frames, vpn, x)
           A == [st.space.areas EXCEPT ![n] = [area EXCEPT !.data_frames = d]]
           s == [areas |-> A, pte |-> st.space.pte, tables |-> st.space.tables]
           a == [b EXCEPT !.space.areas[n].data_frames = d]
<1>1. /\ b = [fa |-> alloc(st.fa), bytes |-> b.bytes, space |-> st.space,
              stack |-> st.stack, status |-> st.status]
      /\ b \in State
  BY FrameAlloc, SMTT(30)
<1>2. b.space = st.space
  BY <1>1
<1>3. map_one(st, vpn) = page_table_map(a, vpn, x)
  BY <1>2 DEF map_one
<1>4. /\ n \in Nat /\ n \in 1 .. n /\ DOMAIN st.space.areas = 1 .. n
      /\ st.space.areas \in Seq(Area)
      /\ \A j \in 1 .. n : st.space.areas[j] \in Area
      /\ vpn \in area.start .. area.end - 1
  BY StateFields, SeqFacts, SMTT(30) DEF InLast
<1>5. x \in Frame /\ alloc(st.fa) \in Allocator
  BY StateFields, AllocTyped
<1>6. /\ [area EXCEPT !.data_frames = d] =
            [start |-> area.start, end |-> area.end, data_frames |-> d]
      /\ [area EXCEPT !.data_frames = d] \in Area
  BY <1>4, <1>5, InsertArea
<1> HIDE DEF d, x
<1>7. a = [b EXCEPT !.space.areas = A]
  BY <1>2
<1> DEFINE e == [area EXCEPT !.data_frames = d]
<1>8. A = [st.space.areas EXCEPT ![n] = e]
  OBVIOUS
<1>9. e.start = area.start /\ e.end = area.end /\ e.data_frames = d /\ e \in Area
  BY <1>6
<1> HIDE DEF A, e, area, n, b, a
<1>10. /\ A \in Seq(Area) /\ Len(A) = n /\ A[n] = e
       /\ \A j \in 1 .. n : j # n => A[j] = st.space.areas[j]
  BY <1>4, <1>8, <1>9
<1>11. a = [fa |-> b.fa, bytes |-> b.bytes, space |-> s, stack |-> b.stack,
            status |-> b.status]
  BY <1>1, <1>2, <1>7 DEF State, Space
<1>12. s \in Space /\ s.areas = A /\ s.pte = st.space.pte /\ s.tables = st.space.tables
  BY <1>10, StateFields DEF Space
<1> HIDE DEF s
<1>13. a \in State
  <2>1. /\ b.fa \in Allocator /\ b.bytes \in [Frame -> Value]
        /\ b.stack \in Seq(Frame) /\ b.status \in Status
    BY <1>1, StateFields
  <2> QED BY <1>11, <1>12, <2>1, StateMade, Zenon
<1>14. /\ a.fa = alloc(st.fa) /\ a.stack = st.stack /\ a.status = "ok" /\ a.space = s
  BY <1>1, <1>11
<1>15. SameRanges(st.space, a.space)
  <2>1. \A j \in 1 .. n : A[j].start = st.space.areas[j].start
                          /\ A[j].end = st.space.areas[j].end
    BY <1>9, <1>10 DEF area
  <2> QED BY <1>10, <1>12, <1>14, <2>1 DEF SameRanges, n
<1>16. \A j \in 1 .. n - 1 : a.space.areas[j] = st.space.areas[j]
  <2>1. \A j \in 1 .. n - 1 : j \in 1 .. n /\ j # n
    BY <1>4
  <2> QED BY <1>10, <1>12, <1>14, <2>1
<1>17. a.space.areas[n].data_frames = d
  BY <1>9, <1>10, <1>12, <1>14
<1>18. Staged(st, vpn, a)
  BY <1>12, <1>13, <1>14, <1>15, <1>16, <1>17, Zenon DEF Staged, n, d, area, x
<1> QED BY <1>3, <1>18, Zenon DEF x

(* What may become of a state while pages are mapped.                      *)
MapStatus(status) == {status, "full", "out of frames", "mapped before"}

(* MapArea::map_one keeps the ranges of the areas.                         *)
LEMMA MapOne ==
  ASSUME NEW st \in State, NEW vpn, InLast(st.space, vpn), NEW r, r = map_one(st, vpn)
  PROVE  /\ r \in State /\ SameRanges(st.space, r.space) /\ r.stack = st.stack
         /\ st.status # "ok" => r = st
         /\ r.status \in MapStatus(st.status)
<1>1. CASE st.status # "ok"
  <2>1. r = st
    BY <1>1, Zenon DEF map_one
  <2> QED BY <2>1 DEF SameRanges, MapStatus
<1>2. CASE st.status = "ok" /\ ~can_alloc(st.fa)
  <2>1. r = fail(st, "full")
    BY <1>2 DEF map_one
  <2>2. "full" \in Status
    BY DEF Status
  <2>3. /\ fail(st, "full") \in State /\ fail(st, "full").space = st.space
        /\ fail(st, "full").stack = st.stack /\ fail(st, "full").status = "full"
    BY <2>2, FailFields, Zenon
  <2> QED BY <1>2, <2>1, <2>3 DEF SameRanges, MapStatus
<1>3. CASE st.status = "ok" /\ can_alloc(st.fa)
  <2> DEFINE x == next_frame(st.fa)
  <2>1. PICK a : Staged(st, vpn, a) /\ map_one(st, vpn) = page_table_map(a, vpn, x)
    BY <1>3, MapOneStage, Zenon
  <2>2. /\ a \in State /\ a.status = "ok" /\ a.stack = st.stack
        /\ SameRanges(st.space, a.space)
    BY <2>1, Zenon DEF Staged
  <2>3. x \in Frame /\ vpn \in Vpn
    <3>1. Len(st.space.areas) \in 1 .. Len(st.space.areas)
      BY StateFields, SeqFacts, SMTT(30) DEF InLast
    <3>2. st.space.areas[Len(st.space.areas)] \in Area
      BY <3>1, StateFields, SeqFacts
    <3> QED BY <1>3, <3>2, StateFields, AllocTyped, AreaFields DEF InLast
  <2> HIDE DEF x
  <2>4. /\ r \in State /\ r.space.areas = a.space.areas /\ r.stack = a.stack
        /\ \/ r.status = "out of frames"
           \/ r.status = "mapped before"
           \/ Mapped(a, vpn, x, r)
    BY <2>1, <2>2, <2>3, PageTableMap, ZenonT(60)
  <2>5. SameRanges(st.space, r.space)
    BY <2>2, <2>4 DEF SameRanges
  <2> QED BY <1>3, <2>2, <2>4, <2>5 DEF Mapped, MapStatus
<1> QED BY <1>1, <1>2, <1>3

(* A new page is in the page table and in its area, and in no other one.   *)
LEMMA MapOneMatches ==
  ASSUME NEW st \in State, NEW vpn, InLast(st.space, vpn), NEW a, Staged(st, vpn, a),
         NEW r, Mapped(a, vpn, next_frame(st.fa), r), r.space.areas = a.space.areas,
         next_frame(st.fa) \in Frame, Matches(st.space)
  PROVE  Matches(r.space)
<1> DEFINE x == next_frame(st.fa)
           n == Len(st.space.areas)
           old(j) == st.space.areas[j].data_frames
           new(j) == r.space.areas[j].data_frames
<1>1. /\ n \in Nat /\ n \in 1 .. n /\ DOMAIN st.space.areas = 1 .. n
      /\ st.space.areas \in Seq(Area)
      /\ \A j \in 1 .. n : st.space.areas[j] \in Area
  BY StateFields, SeqFacts, SMTT(30) DEF InLast
<1>2. /\ a \in State /\ a.space.pte = st.space.pte
      /\ Len(a.space.areas) = n
      /\ \A j \in 1 .. n - 1 : a.space.areas[j] = st.space.areas[j]
      /\ a.space.areas[n].data_frames = insert(old(n), vpn, x)
  BY DEF Staged, SameRanges
<1>3. DOMAIN r.space.areas = 1 .. n
  BY <1>2, StateFields, SeqFacts
<1>4. /\ st.space.pte[vpn] = None
      /\ r.space.pte = [st.space.pte EXCEPT ![vpn] = x]
  BY <1>2, Zenon DEF Mapped
<1>5. /\ \A j \in 1 .. n : j # n => new(j) = old(j)
      /\ new(n) = insert(old(n), vpn, x)
  <2>1. \A j \in 1 .. n : j # n => j \in 1 .. n - 1
    BY <1>1
  <2> QED BY <1>2, <2>1
<1>6. /\ DOMAIN new(n) = DOMAIN old(n) \cup {vpn}
      /\ new(n)[vpn] = x
      /\ \A v \in DOMAIN old(n) : v # vpn => new(n)[v] = old(n)[v]
  BY <1>5 DEF insert
<1>7. \A j \in 1 .. n : /\ DOMAIN old(j) \subseteq Vpn
                        /\ \A v \in DOMAIN old(j) : old(j)[v] \in Frame
  <2> SUFFICES ASSUME NEW j \in 1 .. n
               PROVE  /\ DOMAIN old(j) \subseteq Vpn
                      /\ \A v \in DOMAIN old(j) : old(j)[v] \in Frame
    OBVIOUS
  <2>1. st.space.areas[j] \in Area
    BY <1>1
  <2> QED BY <2>1, AreaFields
<1>8. /\ \A j \in 1 .. n : \A v \in DOMAIN old(j) : st.space.pte[v] = old(j)[v]
      /\ \A i, j \in 1 .. n : DOMAIN old(i) \cap DOMAIN old(j) # {} => i = j
      /\ \A v \in Vpn : st.space.pte[v] # None => \E j \in 1 .. n : v \in DOMAIN old(j)
  BY <1>1 DEF Matches
<1>9. vpn \in Vpn /\ \A v \in Vpn : r.space.pte[v] = IF v = vpn THEN x ELSE st.space.pte[v]
  <2>1. vpn \in Vpn
    <3>1. st.space.areas[n] \in Area
      BY <1>1
    <3> QED BY <3>1, AreaFields DEF InLast
  <2>2. st.space.pte \in [Vpn -> Frame \cup {None}]
    BY StateFields
  <2> QED BY <1>4, <2>1, <2>2
<1>10. None \notin Frame
  BY DEF None, Frame
<1> SUFFICES /\ \A j \in 1 .. n : \A v \in DOMAIN new(j) : r.space.pte[v] = new(j)[v]
             /\ \A i, j \in 1 .. n : DOMAIN new(i) \cap DOMAIN new(j) # {} => i = j
             /\ \A v \in Vpn : r.space.pte[v] # None => \E j \in 1 .. n : v \in DOMAIN new(j)
  BY <1>3 DEF Matches
<1> HIDE DEF old, new, n, x
<1>11. \A j \in 1 .. n : vpn \notin DOMAIN old(j)
  BY <1>4, <1>7, <1>8, <1>10, SMTT(30)
<1>12. ASSUME NEW j \in 1 .. n, NEW v \in DOMAIN new(j)
       PROVE  r.space.pte[v] = new(j)[v]
  <2>1. CASE j # n
    BY <1>5, <1>7, <1>8, <1>9, <1>11, <1>12, <2>1, SMTT(30)
  <2>2. CASE j = n
    BY <1>6, <1>7, <1>8, <1>9, <1>12, <2>2
  <2> QED BY <2>1, <2>2
<1>13. ASSUME NEW i \in 1 .. n, NEW j \in 1 .. n, NEW v \in DOMAIN new(i) \cap DOMAIN new(j)
       PROVE  i = j
  <2>1. CASE v = vpn
    BY <1>5, <1>11, <1>13, <2>1
  <2>2. CASE v # vpn
    <3>1. v \in DOMAIN old(i) \cap DOMAIN old(j)
      BY <1>5, <1>6, <1>13, <2>2, SMTT(30)
    <3> QED BY <1>8, <3>1
  <2> QED BY <2>1, <2>2
<1>14. ASSUME NEW v \in Vpn, r.space.pte[v] # None
       PROVE  \E j \in 1 .. n : v \in DOMAIN new(j)
  <2>1. CASE v = vpn
    BY <1>1, <1>6, <2>1
  <2>2. CASE v # vpn
    <3>1. PICK j \in 1 .. n : v \in DOMAIN old(j)
      BY <1>8, <1>9, <1>14, <2>2
    <3>2. v \in DOMAIN new(j)
      BY <1>5, <1>6, <3>1
    <3> QED BY <3>2
  <2> QED BY <2>1, <2>2
<1> QED BY <1>12, <1>13, <1>14

(* What was built so far is well-formed, unless the kernel panics.         *)
Fine(st, others) == panics(st) \/ (Holds(st, others) /\ Matches(st.space))

LEMMA MapOneFine ==
  ASSUME NEW st \in State, NEW vpn, InLast(st.space, vpn), NEW others, Fine(st, others)
  PROVE  Fine(map_one(st, vpn), others)
<1> DEFINE r == map_one(st, vpn)
           x == next_frame(st.fa)
<1> SUFFICES Fine(r, others)
  OBVIOUS
<1>1. CASE st.status # "ok"
  <2>1. r = st
    BY <1>1, Zenon DEF map_one
  <2> QED BY <2>1
<1>2. CASE st.status = "ok" /\ ~can_alloc(st.fa)
  <2>1. r = fail(st, "full") /\ Holds(st, others) /\ Matches(st.space)
    BY <1>2 DEF map_one, Fine, panics
  <2>2. "full" \in Status
    BY DEF Status
  <2>3. /\ fail(st, "full").fa = st.fa /\ fail(st, "full").space = st.space
        /\ fail(st, "full").stack = st.stack
    BY <2>2, FailFields, Zenon
  <2>4. Holds(fail(st, "full"), others) /\ Matches(fail(st, "full").space)
    BY <2>1, <2>3 DEF Holds
  <2> HIDE DEF r
  <2> QED BY <2>1, <2>4 DEF Fine
<1>3. CASE st.status = "ok" /\ can_alloc(st.fa)
  <2>1. PICK a : Staged(st, vpn, a) /\ r = page_table_map(a, vpn, x)
    BY <1>3, MapOneStage, Zenon
  <2>2. /\ Holds(st, others) /\ Matches(st.space)
        /\ Apart(st.fa, data(st.space), table(st.space), Range(st.stack), others)
    BY <1>3 DEF Fine, panics, Holds
  <2>3. /\ a \in State /\ a.status = "ok" /\ a.fa = alloc(st.fa)
        /\ a.stack = st.stack /\ a.space.pte = st.space.pte
        /\ a.space.tables = st.space.tables
    BY <2>1, Zenon DEF Staged
  <2>4. /\ x \in Frame /\ x \notin others
        /\ Apart(a.fa, data(st.space), table(st.space), Range(st.stack), others \cup {x})
    <3>1. /\ x \in Frame /\ x \notin others
          /\ Apart(alloc(st.fa), data(st.space), table(st.space), Range(st.stack),
                   others \cup {x})
      BY <1>3, <2>2, ApartAlloc, Zenon
    <3> QED BY <2>3, <3>1
  <2>5. vpn \in Vpn
    <3>1. Len(st.space.areas) \in 1 .. Len(st.space.areas)
      BY StateFields, SeqFacts, SMTT(30) DEF InLast
    <3>2. st.space.areas[Len(st.space.areas)] \in Area
      BY <3>1, StateFields, SeqFacts
    <3> QED BY <3>2, AreaFields DEF InLast
  <2>6. Holds(a, others \cup {x})
    <3>1. /\ data(a.space) = data(st.space)
          /\ table_frames_of(a.space) = table_frames_of(st.space)
      BY <2>3 DEF data, table_frames_of
    <3>2. PagesApart(a.space)
      BY <2>2, <2>3 DEF Holds, PagesApart
    <3> HIDE DEF x
    <3> QED BY <2>2, <2>3, <2>4, <3>1, <3>2, Zenon DEF Holds, table
  <2> HIDE DEF r
  <2>7. /\ r.space.areas = a.space.areas /\ r.stack = a.stack
        /\ \/ r.status = "out of frames"
           \/ r.status = "mapped before"
           \/ Mapped(a, vpn, x, r)
    <3> HIDE DEF x
    <3> QED BY <2>1, <2>3, <2>4, <2>5, PageTableMap, ZenonT(60)
  <2>8. CASE r.status \in {"out of frames", "mapped before"}
    BY <2>8 DEF Fine, panics
  <2>9. CASE Mapped(a, vpn, x, r)
    <3>1. Holds(r, others)
      <4> HIDE DEF x
      <4> QED BY <2>3, <2>4, <2>5, <2>6, <2>7, <2>9, MapHolds
    <3>2. Matches(r.space)
      BY <2>1, <2>2, <2>4, <2>7, <2>9, MapOneMatches, SMTT(30)
    <3> QED BY <3>1, <3>2 DEF Fine
  <2> QED BY <2>7, <2>8, <2>9
<1> QED BY <1>1, <1>2, <1>3

(* The pages of a range, in order.                                         *)
LEMMA RangePages ==
  ASSUME NEW start \in Nat, NEW end \in Nat, start <= end
  PROVE  /\ Len(VPNRange(start, end)) = end - start
         /\ end - start \in Nat
         /\ \A k \in 1 .. end - start : /\ VPNRange(start, end)[k] = start + k - 1
                                        /\ VPNRange(start, end)[k] \in start .. end - 1
         /\ Range(VPNRange(start, end)) = start .. end - 1
<1> DEFINE n == end - start
           s == VPNRange(start, end)
<1>1. n \in Nat
  OBVIOUS
<1>2. s = [i \in 1 .. n |-> start + i - 1]
  BY DEF VPNRange
<1> HIDE DEF n
<1>3. \A i \in 1 .. n : start + i - 1 \in start .. end - 1
  BY <1>1 DEF n
<1>4. s \in Seq(start .. end - 1) /\ Len(s) = n /\ DOMAIN s = 1 .. n
  BY <1>1, <1>2, <1>3
<1>5. \A k \in 1 .. n : s[k] = start + k - 1
  BY <1>2
<1>6. Range(s) = start .. end - 1
  <2>1. ASSUME NEW v \in start .. end - 1 PROVE v \in Range(s)
    <3>1. v - start + 1 \in 1 .. n /\ start + (v - start + 1) - 1 = v
      BY <1>1, <2>1 DEF n
    <3>2. v = s[v - start + 1]
      BY <1>5, <3>1
    <3> QED BY <1>4, <3>1, <3>2 DEF Range
  <2>2. ASSUME NEW v \in Range(s) PROVE v \in start .. end - 1
    BY <1>3, <1>4, <1>5, <2>2 DEF Range
  <2> QED BY <2>1, <2>2
<1> HIDE DEF s
<1>7. \A k \in 1 .. n : s[k] = start + k - 1 /\ s[k] \in start .. end - 1
  BY <1>3, <1>5
<1> QED BY <1>1, <1>4, <1>6, <1>7 DEF n, s

(* MapArea::map, turn by turn: the ranges of the areas stay.               *)
MapWalk(st, start, n, at) ==
  /\ at[0] = st
  /\ \A k \in 0 .. n :
       /\ at[k] \in State /\ SameRanges(st.space, at[k].space)
       /\ at[k].stack = st.stack
       /\ at[k].status \in MapStatus(st.status)
  /\ \A k \in 1 .. n :
       /\ at[k] = map_one(at[k - 1], start + k - 1)
       /\ InLast(at[k - 1].space, start + k - 1)

LEMMA MapAreaWalk ==
  ASSUME NEW st \in State, NEW start \in Nat, NEW end \in Nat, start <= end,
         NEW area, area.start = start, area.end = end,
         Len(st.space.areas) >= 1,
         st.space.areas[Len(st.space.areas)].start = start,
         st.space.areas[Len(st.space.areas)].end = end
  PROVE  \E at : MapWalk(st, start, end - start, at) /\ map_area(st, area) = at[end - start]
<1> DEFINE n == end - start
           v == VPNRange(start, end)
           r == map_area(st, area)
<1>1. /\ n \in Nat /\ pages(area) = v /\ Len(v) = n
      /\ \A k \in 1 .. n : v[k] \in start .. end - 1 /\ v[k] = start + k - 1
  BY RangePages DEF pages
<1> HIDE DEF n, v, r
<1>2. PICK at : /\ at[0] = st
                /\ \A k \in 1 .. n : at[k] = map_one(at[k - 1], v[k])
                /\ r = at[n]
  <2>1. Len(pages(area)) \in Nat
    BY <1>1
  <2>2. PICK at : /\ at[0] = st
                  /\ \A k \in 1 .. Len(pages(area)) :
                       at[k] = map_one(at[k - 1], pages(area)[k])
                  /\ map_area(st, area) = at[Len(pages(area))]
    BY <2>1, MapTurns, SMTT(30)
  <2> QED BY <1>1, <2>2 DEF r
<1> DEFINE Kept(k) ==
             /\ at[k] \in State /\ SameRanges(st.space, at[k].space)
             /\ at[k].stack = st.stack
             /\ at[k].status \in MapStatus(st.status)
           P == {k \in 0 .. n : Kept(k)}
<1>3. 0 \in P
  <2>1. Kept(0)
    BY <1>2 DEF SameRanges, MapStatus
  <2> HIDE DEF Kept
  <2> QED BY <1>1, <2>1
<1>4. ASSUME NEW k \in 1 .. n, Kept(k - 1) PROVE InLast(at[k - 1].space, v[k])
  <2>1. v[k] \in start .. end - 1
    BY <1>1
  <2>2. Len(st.space.areas) \in 1 .. Len(st.space.areas)
    BY StateFields, SeqFacts, SMTT(30)
  <2>3. SameRanges(st.space, at[k - 1].space)
    BY <1>4
  <2> QED BY <2>1, <2>2, <2>3 DEF InLast, SameRanges
<1>5. ASSUME NEW k \in 1 .. n, k - 1 \in P PROVE k \in P
  <2> DEFINE a == at[k - 1]
             b == at[k]
  <2>1. b = map_one(a, v[k])
    BY <1>2
  <2>2. Kept(k - 1)
    BY <1>5
  <2>3. InLast(a.space, v[k])
    <3> HIDE DEF Kept
    <3> QED BY <1>4, <2>2
  <2>4. /\ a \in State /\ SameRanges(st.space, a.space) /\ a.stack = st.stack
        /\ a.status \in MapStatus(st.status)
    BY <2>2
  <2> HIDE DEF a, b
  <2>5. /\ b \in State /\ SameRanges(a.space, b.space) /\ b.stack = a.stack
        /\ b.status \in MapStatus(a.status)
    BY ONLY <2>1, <2>3, <2>4, MapOne, Zenon
  <2>6. SameRanges(st.space, b.space)
    BY <2>4, <2>5 DEF SameRanges
  <2>7. b.status \in MapStatus(st.status)
    BY <2>4, <2>5 DEF MapStatus
  <2> QED BY <1>1, <2>4, <2>5, <2>6, <2>7, SMTT(30) DEF b
<1>6. \A k \in 0 .. n : Kept(k)
  <2> HIDE DEF P
  <2>1. 0 .. n \subseteq P
    BY <1>1, <1>3, <1>5, UpTo
  <2> QED BY <2>1 DEF P
<1> HIDE DEF P
<1>7. ASSUME NEW k \in 1 .. n
      PROVE  at[k] = map_one(at[k - 1], start + k - 1) /\ InLast(at[k - 1].space, start + k - 1)
  <2>1. k - 1 \in 0 .. n /\ v[k] = start + k - 1
    BY <1>1, SMTT(30)
  <2> HIDE DEF Kept
  <2> QED BY <1>2, <1>4, <1>6, <2>1
<1> QED
  <2>1. MapWalk(st, start, n, at)
    BY <1>2, <1>6, <1>7, Zenon DEF MapWalk
  <2> QED BY <1>2, <2>1 DEF n, r

(* MapArea::map accounts for the frames.                                   *)
LEMMA MapAreaFine ==
  ASSUME NEW st \in State, NEW start \in Nat, NEW end \in Nat, start <= end,
         NEW area, area.start = start, area.end = end,
         Len(st.space.areas) >= 1,
         st.space.areas[Len(st.space.areas)].start = start,
         st.space.areas[Len(st.space.areas)].end = end,
         NEW others, NEW r, r = map_area(st, area)
  PROVE  /\ r \in State /\ SameRanges(st.space, r.space) /\ r.stack = st.stack
         /\ r.status \in MapStatus(st.status)
         /\ Fine(st, others) => Fine(r, others)
<1> DEFINE n == end - start
<1>1. n \in Nat
  OBVIOUS
<1>2. PICK at : MapWalk(st, start, n, at) /\ r = at[n]
  BY MapAreaWalk, SMTT(30)
<1> HIDE DEF n
<1>3. n \in 0 .. n
  BY <1>1
<1>4. ASSUME Fine(st, others) PROVE Fine(r, others)
  <2> DEFINE P == {k \in 0 .. n : Fine(at[k], others)}
  <2>1. 0 \in P
    BY <1>1, <1>2, <1>4 DEF MapWalk
  <2>2. ASSUME NEW k \in 1 .. n, k - 1 \in P PROVE k \in P
    <3>1. k - 1 \in 0 .. n /\ k \in 0 .. n
      BY <1>1
    <3>2. Fine(map_one(at[k - 1], start + k - 1), others)
      BY <1>2, <2>2, <3>1, MapOneFine DEF MapWalk
    <3> QED BY <1>2, <3>1, <3>2 DEF MapWalk
  <2> HIDE DEF P
  <2>3. 0 .. n \subseteq P
    BY <1>1, <2>1, <2>2, UpTo
  <2> QED BY <1>2, <1>3, <2>3 DEF P
<1> QED BY <1>2, <1>3, <1>4 DEF MapWalk

-----------------------------------------------------------------------------
(* Pushing an area.                                                        *)

(* MemorySet::push before any page is mapped: there is an empty area.      *)
Pushing(st, start, end, a) ==
  /\ a \in State /\ a.fa = st.fa /\ a.stack = st.stack /\ a.status = st.status
  /\ a.space.pte = st.space.pte /\ a.space.tables = st.space.tables
  /\ a.space.areas = Append(st.space.areas, MapArea(start, end))

LEMMA PushStart ==
  ASSUME NEW st \in State, NEW start \in Nat, NEW end \in Nat, start <= end,
         end <= TRAMPOLINE
  PROVE  /\ Pushing(st, start, end,
                    [st EXCEPT !.space.areas = Append(@, MapArea(start, end))])
         /\ MapArea(start, end) \in Area
         /\ MapArea(start, end).start = start /\ MapArea(start, end).end = end
         /\ DOMAIN MapArea(start, end).data_frames = {}
<1> DEFINE m == MapArea(start, end)
           A == Append(st.space.areas, m)
           s == [areas |-> A, pte |-> st.space.pte, tables |-> st.space.tables]
           a == [st EXCEPT !.space.areas = A]
<1>1. DOMAIN no_frames = {} /\ no_frames \in PageMap
  <2>1. no_frames \in [{} -> Frame] /\ {} \in SUBSET Vpn
    BY DEF no_frames
  <2> QED BY <2>1 DEF PageMap
<1>2. m = [start |-> start, end |-> end, data_frames |-> no_frames]
  BY DEF MapArea
<1>3. m \in Area /\ m.start = start /\ m.end = end /\ DOMAIN m.data_frames = {}
  BY <1>1, <1>2 DEF Area
<1> HIDE DEF m
<1>4. A \in Seq(Area)
  BY <1>3, StateFields, SMTT(30)
<1> HIDE DEF A
<1>5. a = [fa |-> st.fa, bytes |-> st.bytes, space |-> s, stack |-> st.stack,
           status |-> st.status]
  BY SMTT(30) DEF State, Space
<1>6. s \in Space /\ s.areas = A /\ s.pte = st.space.pte /\ s.tables = st.space.tables
  BY <1>4, StateFields DEF Space
<1> HIDE DEF s, a
<1>7. a \in State
  <2>1. /\ st.fa \in Allocator /\ st.bytes \in [Frame -> Value]
        /\ st.stack \in Seq(Frame) /\ st.status \in Status
    BY StateFields
  <2> QED BY <1>5, <1>6, <2>1, StateMade, Zenon
<1>8. /\ a.fa = st.fa /\ a.stack = st.stack /\ a.status = st.status /\ a.space = s
  BY <1>5
<1>9. Pushing(st, start, end, a)
  BY <1>6, <1>7, <1>8 DEF Pushing, A, m
<1> QED BY <1>3, <1>9 DEF a, A, m

(* An area without pages adds nothing.                                     *)
LEMMA PushStartFine ==
  ASSUME NEW st \in State, NEW start, NEW end, NEW a, Pushing(st, start, end, a),
         DOMAIN MapArea(start, end).data_frames = {}, NEW others, Fine(st, others)
  PROVE  Fine(a, others)
<1> DEFINE s == st.space
           t == a.space
           n == Len(s.areas)
           m == MapArea(start, end)
<1>1. /\ a.fa = st.fa /\ a.stack = st.stack /\ a.status = st.status
      /\ t.pte = s.pte /\ t.tables = s.tables /\ t.areas = Append(s.areas, m)
  BY DEF Pushing
<1>2. Holds(st, others) => Holds(a, others)
  BY <1>1 DEF Holds, PagesApart, table_frames_of, data, table
<1>3. /\ n \in Nat /\ DOMAIN s.areas = 1 .. n /\ DOMAIN t.areas = 1 .. n + 1
      /\ t.areas[n + 1] = m /\ \A i \in 1 .. n : t.areas[i] = s.areas[i]
  BY <1>1, StateFields, SeqFacts, SMTT(30)
<1>4. DOMAIN m.data_frames = {}
  OBVIOUS
<1>5. panics(a) = panics(st)
  BY <1>1 DEF panics
<1> HIDE DEF m, n, s, t
<1>6. ASSUME Matches(s) PROVE Matches(t)
  <2>1. \A i \in 1 .. n + 1 : i \in 1 .. n \/ i = n + 1
    BY <1>3, SMTT(30)
  <2>2. \A i \in 1 .. n : i \in 1 .. n + 1 /\ i # n + 1
    BY <1>3, SMTT(30)
  <2>3. \A i \in 1 .. n + 1 : \A v \in DOMAIN t.areas[i].data_frames :
           i \in 1 .. n /\ t.areas[i] = s.areas[i]
    BY <1>3, <1>4, <2>1, Zenon
  <2>4. \A i \in DOMAIN t.areas : \A v \in DOMAIN t.areas[i].data_frames :
          t.pte[v] = t.areas[i].data_frames[v]
    BY <1>1, <1>3, <1>6, <2>3, SMTT(30) DEF Matches, s, t
  <2>5. ASSUME NEW i \in DOMAIN t.areas, NEW j \in DOMAIN t.areas,
               DOMAIN t.areas[i].data_frames \cap DOMAIN t.areas[j].data_frames # {}
        PROVE  i = j
    <3>1. /\ i \in 1 .. n /\ t.areas[i] = s.areas[i]
          /\ j \in 1 .. n /\ t.areas[j] = s.areas[j]
      BY <1>3, <2>3, <2>5
    <3> QED BY <1>3, <1>6, <2>5, <3>1, Zenon DEF Matches
  <2>6. ASSUME NEW v \in Vpn, t.pte[v] # None
        PROVE  \E i \in DOMAIN t.areas : v \in DOMAIN t.areas[i].data_frames
    <3>1. PICK i \in 1 .. n : v \in DOMAIN s.areas[i].data_frames
      BY <1>1, <1>3, <1>6, <2>6 DEF Matches, s, t
    <3> QED BY <1>3, <2>2, <3>1, Zenon
  <2> QED BY <2>4, <2>5, <2>6, Zenon DEF Matches
<1> QED BY <1>2, <1>5, <1>6 DEF Fine, s, t

(* What push makes of a state.                                             *)
Pushed(st, start, end, r) ==
  /\ r \in State /\ r.stack = st.stack
  /\ r.status \in MapStatus(st.status)
  /\ st.status # "ok" => r = st
  /\ st.status = "ok" =>
       LET n == Len(r.space.areas)
       IN n >= 1 /\ r.space.areas[n].start = start /\ r.space.areas[n].end = end

LEMMA Push ==
  ASSUME NEW st \in State, NEW start \in Nat, NEW end \in Nat, start <= end,
         end <= TRAMPOLINE, NEW others
  PROVE  /\ Pushed(st, start, end, push(st, start, end))
         /\ Fine(st, others) => Fine(push(st, start, end), others)
<1> DEFINE m == MapArea(start, end)
           a == [st EXCEPT !.space.areas = Append(@, m)]
           r == push(st, start, end)
<1>1. CASE st.status # "ok"
  <2>1. r = st
    BY <1>1 DEF push
  <2> QED BY <1>1, <2>1 DEF Pushed, MapStatus
<1>2. CASE st.status = "ok"
  <2>1. r = map_area(a, m)
    BY <1>2 DEF push
  <2>2. /\ Pushing(st, start, end, a) /\ m.start = start /\ m.end = end
        /\ DOMAIN m.data_frames = {}
    BY PushStart
  <2> HIDE DEF a, m, r
  <2>3. /\ a \in State /\ a.stack = st.stack /\ a.status = st.status
        /\ a.space.areas = Append(st.space.areas, m)
    BY <2>2 DEF Pushing, m
  <2>4. /\ Len(a.space.areas) \in Nat /\ Len(a.space.areas) >= 1
        /\ a.space.areas[Len(a.space.areas)] = m
    BY <2>3, StateFields, SeqFacts
  <2>5. /\ r \in State /\ SameRanges(a.space, r.space) /\ r.stack = a.stack
        /\ r.status \in MapStatus(a.status)
        /\ Fine(a, others) => Fine(r, others)
    BY <2>1, <2>2, <2>3, <2>4, MapAreaFine, SMTT(30)
  <2>6. Fine(st, others) => Fine(a, others)
    BY <2>2, PushStartFine DEF m
  <2>7. /\ Len(r.space.areas) >= 1
        /\ r.space.areas[Len(r.space.areas)].start = start
        /\ r.space.areas[Len(r.space.areas)].end = end
    BY <2>2, <2>4, <2>5 DEF SameRanges
  <2>8. Pushed(st, start, end, r)
    BY <1>2, <2>3, <2>5, <2>7 DEF Pushed
  <2> QED BY <2>5, <2>6, <2>8 DEF r
<1> QED BY <1>1, <1>2

-----------------------------------------------------------------------------
(* Building address spaces.                                                *)

(* Contents do not matter.                                                 *)
LEMMA FineSame ==
  ASSUME NEW st, NEW r, r.fa = st.fa, r.space = st.space, r.stack = st.stack,
         r.status = st.status, NEW others, Fine(st, others)
  PROVE  Fine(r, others)
  BY DEF Fine, Holds, panics

(* A panic ends the account.                                               *)
LEMMA FinePanic ==
  ASSUME NEW r, r.status \notin {"ok", "full"}, NEW others
  PROVE  Fine(r, others)
  BY DEF Fine, panics

LEMMA MatchesSame ==
  ASSUME NEW s, NEW t, t.areas = s.areas, t.pte = s.pte, Matches(s)
  PROVE  Matches(t)
<1>1. \A i \in DOMAIN t.areas : \A v \in DOMAIN t.areas[i].data_frames :
        t.pte[v] = t.areas[i].data_frames[v]
  BY SMTT(30) DEF Matches
<1>2. \A i, j \in DOMAIN t.areas :
        DOMAIN t.areas[i].data_frames \cap DOMAIN t.areas[j].data_frames # {} => i = j
  BY Zenon DEF Matches
<1>3. \A v \in Vpn : t.pte[v] # None =>
        \E i \in DOMAIN t.areas : v \in DOMAIN t.areas[i].data_frames
  BY Zenon DEF Matches
<1> QED BY <1>1, <1>2, <1>3, Zenon DEF Matches

Fails(st, why, r) ==
  /\ r \in State /\ r.fa = st.fa /\ r.space = st.space /\ r.stack = st.stack
  /\ r.status = why

LEMMA FailsWith ==
  ASSUME NEW st \in State, NEW why \in Status
  PROVE  Fails(st, why, fail(st, why))
  BY FailFields DEF Fails

LEMMA OutOfFrames ==
  ASSUME NEW st \in State, NEW r, r = fail(st, "out of frames")
  PROVE  /\ r \in State /\ r.fa = st.fa /\ r.space = st.space /\ r.stack = st.stack
         /\ r.status = "out of frames"
<1>1. "out of frames" \in Status
  BY DEF Status
<1>2. Fails(st, "out of frames", r)
  BY <1>1, FailsWith
<1> QED BY <1>2 DEF Fails

(* copy_data changes the contents of frames only.                          *)
LEMMA CopyData ==
  ASSUME NEW st \in State, Len(st.space.areas) >= 1, NEW contents,
         \A v \in DOMAIN st.space.areas[Len(st.space.areas)].data_frames :
           contents[v] \in Value,
         NEW r, r = copy_data(st, contents)
  PROVE  /\ r \in State /\ r.fa = st.fa /\ r.space = st.space
         /\ r.stack = st.stack /\ r.status = st.status
<1> DEFINE frames == st.space.areas[Len(st.space.areas)].data_frames
           b == [ppn \in Frame |->
                   IF ppn \in Range(frames)
                   THEN contents[CHOOSE vpn \in DOMAIN frames : frames[vpn] = ppn]
                   ELSE st.bytes[ppn]]
<1>1. r = [st EXCEPT !.bytes = b]
  BY DEF copy_data
<1>2. \A v \in DOMAIN frames : contents[v] \in Value
  OBVIOUS
<1> HIDE DEF frames
<1>3. b \in [Frame -> Value]
  <2>1. ASSUME NEW ppn \in Range(frames)
        PROVE  contents[CHOOSE vpn \in DOMAIN frames : frames[vpn] = ppn] \in Value
    <3>1. \E vpn \in DOMAIN frames : frames[vpn] = ppn
      BY <2>1 DEF Range
    <3> QED BY <1>2, <3>1
  <2>2. \A ppn \in Frame : st.bytes[ppn] \in Value
    BY StateFields
  <2> QED BY <2>1, <2>2
<1> HIDE DEF b
<1>4. r = [fa |-> st.fa, bytes |-> b, space |-> st.space, stack |-> st.stack,
           status |-> st.status]
  BY <1>1 DEF State
<1> QED BY <1>3, <1>4, StateFields, StateMade, SMTT(30)

(* from_elf goes on only when no frame was missing.                        *)
LEMMA Required ==
  ASSUME NEW st \in State, NEW r, r = required(st)
  PROVE  /\ r \in State /\ r.space = st.space /\ r.stack = st.stack
         /\ r.status # "full" /\ (r.status = "ok" => r = st)
         /\ \A others : Fine(st, others) => Fine(r, others)
<1>1. CASE st.status = "full"
  <2>1. r = fail(st, "out of frames")
    BY <1>1 DEF required
  <2>2. /\ r \in State /\ r.space = st.space /\ r.stack = st.stack
        /\ r.status = "out of frames"
    BY <2>1, OutOfFrames
  <2> QED BY <2>2, FinePanic
<1>2. CASE st.status # "full"
  BY <1>2 DEF required
<1> QED BY <1>1, <1>2

(* PageTable::new                                                          *)
LEMMA NewBare ==
  ASSUME NEW f, NEW others, Accounts(f, others), NEW b \in [Frame -> Value],
         NEW r, r = new_bare(f, b)
  PROVE  /\ r \in State /\ r.stack = <<>> /\ r.status \in {"ok", "out of frames"}
         /\ r.space.areas = <<>> /\ Fine(r, others)
<1> DEFINE st == [fa |-> f, bytes |-> b, space |-> no_space, stack |-> <<>>,
                  status |-> "ok"]
<1>1. r = IF ~can_alloc(f) THEN fail(st, "out of frames")
          ELSE [frame_alloc(st) EXCEPT !.space.tables = << << <<"root", 0>>, next_frame(f)>> >>]
  BY DEF new_bare
<1>2. f \in Allocator
  BY DEF Accounts
<1>3. /\ no_space \in Space /\ no_space.areas = <<>> /\ no_space.tables = <<>>
      /\ no_space.pte = [v \in Vpn |-> None]
  BY SMTT(30) DEF no_space, Space, Tables
<1>4. /\ st \in State /\ st.fa = f /\ st.bytes = b /\ st.stack = <<>> /\ st.status = "ok"
      /\ st.space = no_space
  <2>1. <<>> \in Seq(Frame) /\ "ok" \in Status
    BY DEF Status
  <2> HIDE DEF no_space
  <2> QED BY <1>2, <1>3, <2>1, StateMade
<1> HIDE DEF st
<1>5. CASE ~can_alloc(f)
  <2>1. r = fail(st, "out of frames")
    BY <1>1, <1>5
  <2>2. /\ r \in State /\ r.space = no_space /\ r.stack = <<>>
        /\ r.status = "out of frames"
    BY <1>4, <2>1, OutOfFrames
  <2> QED BY <1>3, <2>2, FinePanic
<1>6. CASE can_alloc(f)
  <2> DEFINE x == next_frame(f)
             T == << << <<"root", 0>>, x>> >>
             a == frame_alloc(st)
             s == [areas |-> <<>>, pte |-> no_space.pte, tables |-> T]
  <2>1. r = [a EXCEPT !.space.tables = T]
    BY <1>1, <1>6
  <2>2. /\ a \in State /\ a.fa = alloc(f) /\ a.space = no_space
        /\ a.stack = <<>> /\ a.status = "ok"
    <3>1. can_alloc(st.fa)
      BY <1>4, <1>6
    <3> QED BY <1>4, <3>1, FrameAlloc, SMTT(30)
  <2>3. x \in Frame
    BY <1>2, <1>6, AllocTyped
  <2> HIDE DEF x, a
  <2>4. /\ T \in Tables /\ Len(T) = 1 /\ T[1] = << <<"root", 0>>, x>>
        /\ DOMAIN T = {1} /\ T[1][2] = x
    BY <2>3 DEF Tables
  <2> HIDE DEF T
  <2>5. s \in Space /\ s.areas = <<>> /\ s.pte = no_space.pte /\ s.tables = T
    BY <1>3, <2>4 DEF Space
  <2>6. r = [fa |-> a.fa, bytes |-> a.bytes, space |-> s, stack |-> a.stack,
             status |-> a.status]
    BY <1>3, <2>1, <2>2 DEF State, Space
  <2> HIDE DEF s
  <2>7. /\ r \in State /\ r.fa = alloc(f) /\ r.space = s /\ r.stack = <<>>
        /\ r.status = "ok"
    BY <2>2, <2>5, <2>6, StateFields, StateMade, SMTT(30)
  <2>8. table_frames_of(s) = [i \in {1} |-> x]
    BY <2>4, <2>5 DEF table_frames_of
  <2>9. IsInjective(table_frames_of(s)) /\ table(s) = {x}
    BY <2>8 DEF IsInjective, table, Range
  <2>10. data(s) = {} /\ PagesApart(s) /\ Matches(s)
    <3>1. \A v \in Vpn : s.pte[v] = None
      BY <1>3, <2>5
    <3>2. DOMAIN s.pte = Vpn /\ DOMAIN s.areas = {}
      BY <1>3, <2>5, EmptySeqFacts
    <3>3. data(s) = {}
      BY <3>1, <3>2 DEF data, Range
    <3>4. PagesApart(s)
      BY <3>1 DEF PagesApart
    <3>5. Matches(s)
      BY <3>1, <3>2 DEF Matches
    <3> QED BY <3>3, <3>4, <3>5
  <2>11. Apart(f, {}, {}, {}, others)
    <3>1. others \cup {} \cup {} \cup {} = others
      OBVIOUS
    <3> QED BY <3>1 DEF Apart
  <2>12. Apart(alloc(f), {}, {} \cup {x}, {}, others)
    BY <1>6, <2>11, ApartAlloc DEF x
  <2>13. {} \cup {x} = {x} /\ Range(<<>>) = {} /\ IsInjective(<<>>)
    BY EmptySeqFacts
  <2>14. Holds(r, others)
    BY <2>7, <2>9, <2>10, <2>12, <2>13 DEF Holds
  <2> QED BY <2>5, <2>7, <2>10, <2>14 DEF Fine
<1> QED BY <1>5, <1>6

(* An address space with no more than the nodes for the trampoline.        *)
LEMMA Bare ==
  ASSUME NEW f, NEW others, Accounts(f, others), NEW b \in [Frame -> Value],
         NEW r, r = map_trampoline(new_bare(f, b))
  PROVE  /\ r \in State /\ r.stack = <<>> /\ r.status \in {"ok", "out of frames"}
         /\ Fine(r, others)
<1> DEFINE st == new_bare(f, b)
<1>1. /\ st \in State /\ st.stack = <<>> /\ st.status \in {"ok", "out of frames"}
      /\ Fine(st, others)
  BY NewBare
<1> HIDE DEF st
<1>2. r = find_pte_create(st, TRAMPOLINE)
  BY DEF map_trampoline, st
<1>3. TRAMPOLINE \in Vpn
  BY SpaceAssumption DEF Vpn, TRAMPOLINE
<1>4. /\ r \in State /\ r.space.areas = st.space.areas /\ r.space.pte = st.space.pte
      /\ r.stack = st.stack /\ r.status \in {st.status, "out of frames"}
  BY <1>1, <1>2, <1>3, Create, ZenonT(60)
<1>5. ASSUME Holds(st, others), Matches(st.space) PROVE Fine(r, others)
  <2>1. Holds(r, others)
    BY <1>1, <1>2, <1>3, <1>5, CreateHolds
  <2>2. Matches(r.space)
    BY <1>4, <1>5, MatchesSame
  <2> QED BY <2>1, <2>2 DEF Fine
<1>6. CASE panics(st)
  <2>1. r.status \notin {"ok", "full"}
    BY <1>1, <1>4, <1>6 DEF panics
  <2> QED BY <1>1, <1>4, <2>1, FinePanic
<1> QED BY <1>1, <1>4, <1>5, <1>6 DEF Fine

(* One segment of the program.                                             *)
LEMMA Load ==
  ASSUME NEW st \in State, NEW segment \in Nat \X Nat \X Value,
         segment[1] <= segment[2], segment[2] <= TRAMPOLINE, st.status # "full",
         NEW others, Fine(st, others), NEW r, r = load(st, segment)
  PROVE  r \in State /\ r.stack = st.stack /\ r.status # "full" /\ Fine(r, others)
<1> DEFINE a == push(st, segment[1], segment[2])
           b == required(a)
           contents == [vpn \in Vpn |-> segment[3]]
<1>1. segment[1] \in Nat /\ segment[2] \in Nat /\ segment[3] \in Value
  OBVIOUS
<1>2. Pushed(st, segment[1], segment[2], a) /\ Fine(a, others)
  BY <1>1, Push
<1>3. r = IF b.status # "ok" THEN b ELSE copy_data(b, contents)
  BY DEF load
<1> HIDE DEF a, b
<1>4. a \in State /\ a.stack = st.stack /\ a.status \in MapStatus(st.status)
  BY <1>2 DEF Pushed
<1>5. /\ b \in State /\ b.stack = st.stack /\ b.status # "full" /\ Fine(b, others)
      /\ b.status = "ok" => b = a
  BY <1>2, <1>4, Required DEF b
<1>6. CASE b.status = "ok"
  <2>1. a.status = "ok" /\ b = a
    BY <1>5, <1>6
  <2>2. st.status = "ok"
    BY <1>2, <2>1 DEF Pushed
  <2>3. Len(a.space.areas) >= 1
    BY <1>2, <2>2 DEF Pushed
  <2>4. \A v \in DOMAIN a.space.areas[Len(a.space.areas)].data_frames :
          contents[v] \in Value
    <3>1. a.space.areas[Len(a.space.areas)] \in Area
      BY <1>4, <2>3, StateFields, SeqFacts, SMTT(30)
    <3>2. DOMAIN a.space.areas[Len(a.space.areas)].data_frames \subseteq Vpn
      BY <3>1, AreaFields
    <3> QED BY <1>1, <3>2
  <2> HIDE DEF contents
  <2>5. r = copy_data(a, contents)
    BY <1>3, <1>6, <2>1
  <2>6. /\ r \in State /\ r.fa = a.fa /\ r.space = a.space
        /\ r.stack = a.stack /\ r.status = a.status
    BY <1>4, <2>3, <2>4, <2>5, CopyData, SMTT(30)
  <2>7. Fine(r, others)
    BY <1>2, <2>6, FineSame
  <2> QED BY <1>4, <2>1, <2>6, <2>7
<1> QED BY <1>3, <1>5, <1>6

(* MemorySet::from_elf                                                     *)
LEMMA FromElf ==
  ASSUME NEW f, NEW others, Accounts(f, others), NEW b \in [Frame -> Value],
         NEW r, r = from_elf(f, b)
  PROVE  r \in State /\ r.stack = <<>> /\ r.status # "full" /\ Fine(r, others)
<1> DEFINE n == Len(Segments)
           first == map_trampoline(new_bare(f, b))
           loaded == for_each(load, first, Segments)
           bottom == Segments[Len(Segments)][2] + 1
           a == push(loaded, bottom, bottom + 1)
           c == push(a, TRAP_CONTEXT, TRAMPOLINE)
<1>1. r = required(c)
  BY DEF from_elf
<1>2. /\ n \in Nat /\ n >= 1 /\ TRAP_CONTEXT \in Nat /\ TRAMPOLINE = TRAP_CONTEXT + 1
      /\ \A k \in 1 .. n : /\ Segments[k] \in Nat \X Nat \X Value
                           /\ Segments[k][1] <= Segments[k][2]
                           /\ Segments[k][2] \in Nat
                           /\ Segments[k][2] + 1 < TRAP_CONTEXT
  BY SpaceAssumption, SeqFacts, SMTT(30) DEF TRAMPOLINE
<1>3. /\ first \in State /\ first.stack = <<>> /\ first.status \in {"ok", "out of frames"}
      /\ Fine(first, others)
  BY Bare
<1> HIDE DEF first
<1>4. PICK at : /\ at[0] = first
                /\ \A k \in 1 .. n : at[k] = load(at[k - 1], Segments[k])
                /\ loaded = at[n]
  BY <1>2, LoadTurns
<1> HIDE DEF n, loaded
<1> DEFINE Good(k) == /\ at[k] \in State /\ at[k].stack = <<>> /\ at[k].status # "full"
                      /\ Fine(at[k], others)
           P == {k \in 0 .. n : Good(k)}
<1>5. 0 \in P
  <2>1. Good(0)
    BY <1>3, <1>4
  <2> HIDE DEF Good
  <2> QED BY <1>2, <2>1
<1>6. ASSUME NEW k \in 1 .. n, k - 1 \in P PROVE k \in P
  <2>1. /\ at[k - 1] \in State /\ at[k - 1].stack = <<>> /\ at[k - 1].status # "full"
        /\ Fine(at[k - 1], others)
    BY <1>6
  <2>2. /\ Segments[k] \in Nat \X Nat \X Value /\ Segments[k][1] <= Segments[k][2]
        /\ Segments[k][2] <= TRAMPOLINE
    BY <1>2
  <2>3. at[k] = load(at[k - 1], Segments[k])
    BY <1>4
  <2>4. Good(k)
    BY <2>1, <2>2, <2>3, Load
  <2> QED BY <1>2, <2>4
<1>7. Good(n)
  <2> HIDE DEF P
  <2>1. 0 .. n \subseteq P
    BY <1>2, <1>5, <1>6, UpTo
  <2>2. n \in P
    BY <1>2, <2>1, SMTT(30)
  <2> QED BY <2>2 DEF P
<1>8. /\ loaded \in State /\ loaded.stack = <<>> /\ Fine(loaded, others)
  BY <1>4, <1>7
<1>9. bottom \in Nat /\ bottom + 1 <= TRAMPOLINE
  BY <1>2 DEF n
<1> HIDE DEF bottom
<1>10. Pushed(loaded, bottom, bottom + 1, a) /\ Fine(a, others)
  BY <1>8, <1>9, Push, SMTT(30)
<1> HIDE DEF a
<1>11. a \in State /\ a.stack = <<>>
  BY <1>8, <1>10 DEF Pushed
<1>12. Pushed(a, TRAP_CONTEXT, TRAMPOLINE, c) /\ Fine(c, others)
  BY <1>2, <1>10, <1>11, Push, SMTT(30)
<1> HIDE DEF c
<1>13. c \in State /\ c.stack = <<>>
  BY <1>11, <1>12 DEF Pushed
<1> QED BY <1>1, <1>12, <1>13, Required

(* One area of from_existed_user.                                          *)
LEMMA CopyArea ==
  ASSUME NEW st \in State, NEW area \in Area, NEW old \in Space,
         NEW b \in [Frame -> Value],
         NEW others, Fine(st, others), NEW r, r = copy_area(old, b, st, area)
  PROVE  r \in State /\ r.stack = st.stack /\ Fine(r, others)
<1> DEFINE a == push(st, area.start, area.end)
           missing == \E vpn \in Range(pages(area)) : old.pte[vpn] = None
           contents == [vpn \in Range(pages(area)) |-> b[old.pte[vpn]]]
<1>1. /\ area.start \in Nat /\ area.end \in Nat /\ area.start <= area.end
      /\ area.end <= TRAMPOLINE /\ area.start .. area.end - 1 \subseteq Vpn
  BY AreaFields
<1>2. Pushed(st, area.start, area.end, a) /\ Fine(a, others)
  BY <1>1, Push
<1>3. r = IF a.status # "ok" THEN a
          ELSE IF missing THEN fail(a, "unmapped page copied")
          ELSE copy_data(a, contents)
  BY DEF copy_area
<1> HIDE DEF a
<1>4. a \in State /\ a.stack = st.stack
  BY <1>2 DEF Pushed
<1>5. CASE a.status = "ok" /\ missing
  <2>1. "unmapped page copied" \in Status
    BY DEF Status
  <2>2. r = fail(a, "unmapped page copied")
    BY <1>3, <1>5
  <2>3. Fails(a, "unmapped page copied", r)
    BY <1>4, <2>1, <2>2, FailsWith
  <2> QED BY <1>4, <2>3, FinePanic DEF Fails
<1>6. CASE a.status = "ok" /\ ~missing
  <2> DEFINE last == a.space.areas[Len(a.space.areas)]
  <2>1. r = copy_data(a, contents)
    BY <1>3, <1>6
  <2>2. st.status = "ok"
    BY <1>2, <1>6 DEF Pushed
  <2>3. Len(a.space.areas) >= 1 /\ last.start = area.start /\ last.end = area.end
    BY <1>2, <2>2 DEF Pushed
  <2>4. last \in Area
    BY <1>4, <2>3, StateFields, SeqFacts, SMTT(30)
  <2>5. DOMAIN last.data_frames \subseteq area.start .. area.end - 1
    BY <2>3, <2>4, AreaFields
  <2>6. Range(pages(area)) = area.start .. area.end - 1
    BY <1>1, RangePages DEF pages
  <2>7. \A v \in area.start .. area.end - 1 : b[old.pte[v]] \in Value
    <3>1. \A v \in Vpn : old.pte[v] \in Frame \cup {None}
      BY DEF Space
    <3>2. \A v \in area.start .. area.end - 1 : old.pte[v] # None
      BY <1>6, <2>6
    <3> QED BY <1>1, <3>1, <3>2
  <2>8. \A v \in DOMAIN last.data_frames : contents[v] \in Value
    BY <2>5, <2>6, <2>7
  <2> HIDE DEF contents
  <2>9. /\ r \in State /\ r.fa = a.fa /\ r.space = a.space
        /\ r.stack = a.stack /\ r.status = a.status
    BY <1>4, <2>1, <2>3, <2>8, CopyData, SMTT(30)
  <2>10. Fine(r, others)
    BY <1>2, <2>9, FineSame
  <2> QED BY <1>4, <2>9, <2>10
<1> QED BY <1>2, <1>3, <1>4, <1>5, <1>6

(* MemorySet::from_existed_user                                            *)
LEMMA FromExisted ==
  ASSUME NEW f, NEW others, Accounts(f, others), NEW b \in [Frame -> Value],
         NEW old \in Space, NEW r, r = from_existed_user(f, b, old)
  PROVE  r \in State /\ r.stack = <<>> /\ Fine(r, others)
<1> DEFINE n == Len(old.areas)
           first == map_trampoline(new_bare(f, b))
<1>1. n \in Nat /\ \A k \in 1 .. n : old.areas[k] \in Area
  BY SeqFacts DEF Space
<1>2. first \in State /\ first.stack = <<>> /\ Fine(first, others)
  BY Bare
<1>3. PICK at : /\ at[0] = first
                /\ \A k \in 1 .. n : at[k] = copy_area(old, b, at[k - 1], old.areas[k])
                /\ r = at[n]
  BY <1>1, CopyTurns, SMTT(30)
<1> HIDE DEF n, first
<1> DEFINE Good(k) == at[k] \in State /\ at[k].stack = <<>> /\ Fine(at[k], others)
           P == {k \in 0 .. n : Good(k)}
<1>4. 0 \in P
  <2>1. Good(0)
    BY <1>2, <1>3
  <2> HIDE DEF Good
  <2> QED BY <1>1, <2>1
<1>5. ASSUME NEW k \in 1 .. n, k - 1 \in P PROVE k \in P
  <2>1. at[k - 1] \in State /\ at[k - 1].stack = <<>> /\ Fine(at[k - 1], others)
    BY <1>5
  <2>2. Good(k)
    BY <1>1, <1>3, <2>1, CopyArea, SMTT(30)
  <2> QED BY <1>1, <2>2
<1>6. Good(n)
  <2> HIDE DEF P
  <2>1. 0 .. n \subseteq P
    BY <1>1, <1>4, <1>5, UpTo
  <2>2. n \in P
    BY <1>1, <2>1, SMTT(30)
  <2> QED BY <2>2 DEF P
<1> QED BY <1>3, <1>6

(* One page of KernelStack::new.                                           *)
StackPaged(st, others, r) ==
  /\ r \in State /\ r.space = st.space /\ Fine(r, others)
  /\ r.status \in {st.status, "out of frames"}
  /\ st.status # "ok" => r = st

LEMMA StackPage ==
  ASSUME NEW st \in State, NEW i, NEW others, Fine(st, others),
         NEW r, r = add_stack_page(st, i)
  PROVE  StackPaged(st, others, r)
<1> USE DEF StackPaged
<1>1. CASE st.status # "ok"
  BY <1>1 DEF add_stack_page
<1>2. CASE st.status = "ok" /\ ~can_alloc(st.fa)
  <2>1. r = fail(st, "out of frames")
    BY <1>2 DEF add_stack_page
  <2>2. r \in State /\ r.space = st.space /\ r.status = "out of frames"
    BY <2>1, OutOfFrames
  <2> QED BY <1>2, <2>2, FinePanic
<1>3. CASE st.status = "ok" /\ can_alloc(st.fa)
  <2> DEFINE x == next_frame(st.fa)
             a == frame_alloc(st)
             K == Append(st.stack, x)
  <2>1. r = [a EXCEPT !.stack = Append(a.stack, x)]
    BY <1>3 DEF add_stack_page
  <2>2. /\ a \in State /\ a.fa = alloc(st.fa) /\ a.space = st.space
        /\ a.stack = st.stack /\ a.status = "ok"
    BY <1>3, FrameAlloc, SMTT(30)
  <2>3. Holds(st, others) /\ Matches(st.space)
    BY <1>3 DEF Fine, panics
  <2>4. /\ x \in Frame /\ x \notin Range(st.stack)
        /\ Apart(alloc(st.fa), data(st.space), table(st.space), Range(st.stack) \cup {x}, others)
    BY <1>3, <2>3, ApartAlloc DEF Holds
  <2> HIDE DEF x, a
  <2>5. /\ K \in Seq(Frame) /\ Range(K) = Range(st.stack) \cup {x} /\ IsInjective(K)
    <3>1. st.stack \in Seq(Frame) /\ IsInjective(st.stack)
      BY <2>3, StateFields DEF Holds
    <3> QED BY <2>4, <3>1, AppendRange, SMTT(30)
  <2>6. r = [a EXCEPT !.stack = K]
    BY <2>1, <2>2
  <2> HIDE DEF K
  <2>7. r = [fa |-> a.fa, bytes |-> a.bytes, space |-> a.space, stack |-> K,
             status |-> a.status]
    BY <2>2, <2>6 DEF State
  <2>8. r \in State
    BY <2>2, <2>5, <2>7, StateFields, StateMade, SMTT(30)
  <2>9. r.fa = alloc(st.fa) /\ r.space = st.space /\ r.stack = K /\ r.status = "ok"
    BY <2>2, <2>7
  <2>10. Holds(r, others)
    BY <2>3, <2>4, <2>5, <2>9 DEF Holds
  <2> QED BY <1>3, <2>3, <2>8, <2>9, <2>10 DEF Fine
<1> QED BY <1>1, <1>2, <1>3

(* KernelStack::new: the address space stays; a state that is full has no  *)
(* kernel stack.                                                           *)
LEMMA NewStack ==
  ASSUME NEW st \in State, NEW others, Fine(st, others), st.stack = <<>>,
         NEW r, r = new_kernel_stack(st)
  PROVE  /\ r \in State /\ r.space = st.space /\ Fine(r, others)
         /\ r.status = "full" => r.stack = <<>>
<1> DEFINE s == [i \in 1 .. KSTACK |-> i]
<1>1. KSTACK \in Nat /\ Len(s) = KSTACK
  BY SpaceAssumption
<1> HIDE DEF s
<1>2. PICK at : /\ at[0] = st
                /\ \A k \in 1 .. KSTACK : at[k] = add_stack_page(at[k - 1], s[k])
                /\ r = at[KSTACK]
  BY <1>1, StackTurns, SMTT(30) DEF s
<1> DEFINE Good(k) == /\ at[k] \in State /\ at[k].space = st.space /\ Fine(at[k], others)
                      /\ at[k].status = "full" => at[k].stack = <<>>
           P == {k \in 0 .. KSTACK : Good(k)}
<1>3. 0 \in P
  <2>1. Good(0)
    BY <1>2
  <2> HIDE DEF Good
  <2> QED BY <1>1, <2>1
<1>4. ASSUME NEW k \in 1 .. KSTACK, k - 1 \in P PROVE k \in P
  <2> DEFINE a == at[k - 1]
             c == at[k]
  <2>1. /\ a \in State /\ a.space = st.space /\ Fine(a, others)
        /\ a.status = "full" => a.stack = <<>>
    BY <1>4
  <2>2. c = add_stack_page(a, s[k])
    BY <1>2
  <2> HIDE DEF a, c
  <2>3. /\ c \in State /\ c.space = a.space /\ Fine(c, others)
        /\ c.status \in {a.status, "out of frames"}
        /\ a.status # "ok" => c = a
    <3>1. StackPaged(a, others, c)
      BY <2>1, <2>2, StackPage
    <3> QED BY <3>1 DEF StackPaged
  <2>4. ASSUME c.status = "full" PROVE c.stack = <<>>
    <3>1. "full" # "out of frames" /\ "full" # "ok"
      OBVIOUS
    <3>2. a.status = "full"
      BY <2>3, <2>4, <3>1
    <3>3. c = a
      BY <2>3, <3>1, <3>2
    <3> QED BY <2>1, <3>2, <3>3
  <2>5. Good(k)
    BY <2>1, <2>3, <2>4 DEF c
  <2> QED BY <1>1, <2>5
<1>5. Good(KSTACK)
  <2> HIDE DEF P
  <2>1. 0 .. KSTACK \subseteq P
    BY <1>1, <1>3, <1>4, UpTo
  <2>2. KSTACK \in P
    BY <1>1, <2>1
  <2> QED BY <2>2 DEF P
<1> QED BY <1>2, <1>5

-----------------------------------------------------------------------------
(* How many frames address spaces take.                                    *)

LEMMA EmptySpace == no_space \in Space
  BY DEF no_space, Space, Tables

(* Enough frames are left for n more pages, and for those of the nodes N   *)
(* that the page table does not have yet.                                  *)
Covers(st, n, N) ==
  usable_frames(st.fa) >= n + Cardinality(N \ names(st.space))

(* MemorySet::frames_used                                                  *)
LEMMA UsedTurns ==
  ASSUME NEW old, Len(old.areas) \in Nat
  PROVE  \E at : /\ at[0] = 0
                 /\ \A k \in 1 .. Len(old.areas) : at[k] = at[k - 1] + old.areas[k].end - old.areas[k].start
                 /\ frames_used(old) = at[Len(old.areas)]
<1> DEFINE s == old.areas
           n == Len(s)
           z == 0
           step(x, k) == x + s[k].end - s[k].start
           turns(f, m) == f = [k \in 0 .. m |-> IF k = 0 THEN z ELSE step(f[k - 1], k)]
           at[k \in 0 .. Len(old.areas)] ==
             IF k = 0 THEN 0
             ELSE at[k - 1] + old.areas[k].end - old.areas[k].start
           P == {m \in 0 .. n : \E f : turns(f, m)}
<1>1. n \in Nat /\ frames_used(old) = at[n]
  BY DEF frames_used, for_each
<1>2. ASSUME NEW f, turns(f, n) PROVE turns(at, n)
  BY <1>2, Zenon
<1>3. n = Len(old.areas) /\ z = 0 /\ \A x, k : step(x, k) = x + old.areas[k].end - old.areas[k].start
  OBVIOUS
<1> HIDE DEF at, step, n, z
<1>4. 0 \in P
  <2> DEFINE f == [k \in 0 .. 0 |-> z]
  <2>1. turns(f, 0)
    OBVIOUS
  <2> HIDE DEF f, turns
  <2> QED BY <1>1, <2>1
<1>5. ASSUME NEW m \in 1 .. n, m - 1 \in P PROVE m \in P
  <2>1. PICK f : turns(f, m - 1)
    BY <1>5
  <2>2. /\ m - 1 \in 0 .. m - 1 /\ m - 1 # m /\ m \in 0 .. n
        /\ \A k \in 0 .. m : k # m => k \in 0 .. m - 1 /\ k - 1 # m /\ (k # 0 => k - 1 \in 0 .. m)
    BY <1>1
  <2> DEFINE g == [k \in 0 .. m |-> IF k = m THEN step(f[m - 1], m) ELSE f[k]]
  <2>3. ASSUME NEW k \in 0 .. m PROVE g[k] = IF k = 0 THEN z ELSE step(g[k - 1], k)
    <3>1. k # m => f[k] = IF k = 0 THEN z ELSE step(f[k - 1], k)
      BY <2>1, <2>2, Zenon
    <3> QED BY <2>2, <3>1
  <2>4. turns(g, m)
    BY <2>3
  <2> HIDE DEF g, turns
  <2> QED BY <2>2, <2>4
<1>6. turns(at, n)
  <2> HIDE DEF P, turns
  <2>1. 0 .. n \subseteq P
    BY <1>1, <1>4, <1>5, UpTo, Zenon
  <2> QED BY <1>1, <1>2, <2>1, SMTT(30) DEF P
<1>7. at[0] = z /\ \A k \in 1 .. n : at[k] = step(at[k - 1], k)
  BY <1>1, <1>6
<1> QED BY <1>1, <1>3, <1>7

LEMMA NodesFinite == IsFiniteSet(Nodes) /\ Cardinality(Nodes) \in Nat
<1>1. IsFiniteSet(Vpn)
  <2>1. 0 \in Int /\ TRAMPOLINE \in Int
    BY SpaceAssumption DEF TRAMPOLINE
  <2> QED BY <2>1, FS_Interval DEF Vpn
<1> DEFINE M == {mid(vpn) : vpn \in Vpn}
           L == {leaf(vpn) : vpn \in Vpn}
           m == [vpn \in Vpn |-> mid(vpn)]
           l == [vpn \in Vpn |-> leaf(vpn)]
<1>2. m \in Surjection(Vpn, M) /\ l \in Surjection(Vpn, L)
  BY DEF Surjection
<1> HIDE DEF m, l
<1>3. IsFiniteSet(M) /\ IsFiniteSet(L)
  BY <1>1, <1>2, FS_Surjection
<1>4. IsFiniteSet(Nodes)
  BY <1>3, FS_Union DEF Nodes, nodes_of
<1> QED BY <1>4, FS_CardinalityType

(* The nodes still to come are a number of them.                           *)
LEMMA Missing ==
  ASSUME NEW N, IsFiniteSet(N), NEW s
  PROVE  /\ IsFiniteSet(N \ names(s))
         /\ Cardinality(N) \in Nat /\ Cardinality(N \ names(s)) \in Nat
         /\ Cardinality(N \ names(s)) <= Cardinality(N)
<1>1. IsFiniteSet(N) /\ N \ names(s) \in SUBSET N
  OBVIOUS
<1>2. IsFiniteSet(N \ names(s))
      /\ Cardinality(N \ names(s)) <= Cardinality(N)
  BY <1>1, FS_Subset
<1> QED BY <1>1, <1>2, FS_CardinalityType

LEMMA AddNodeCovers ==
  ASSUME NEW N, IsFiniteSet(N), NEW st \in State, NEW node \in Nodes, node \in N,
         NEW n \in Nat, Covers(st, n, N)
  PROVE  Covers(add_node(st, node), n, N) /\ add_node(st, node).status = st.status
<1> DEFINE r == add_node(st, node)
           S == N \ names(st.space)
<1> SUFFICES Covers(r, n, N) /\ r.status = st.status
  OBVIOUS
<1>1. \/ r = st
      \/ /\ r = fail(st, "out of frames")
         /\ ~can_alloc(st.fa) /\ node \notin names(st.space)
      \/ AddsNode(st, node, r)
  BY AddNode
<1> HIDE DEF r
<1>2. /\ st.fa \in Allocator /\ usable_frames(st.fa) \in Int
      /\ usable_frames(st.fa) >= n + Cardinality(S)
  BY StateFields, UsableInt DEF Covers
<1>3. IsFiniteSet(S) /\ Cardinality(S) \in Nat
  BY Missing
<1>4. ASSUME node \notin names(st.space)
      PROVE  /\ Cardinality(S \ {node}) \in Nat
             /\ Cardinality(S \ {node}) = Cardinality(S) - 1
  <2>1. node \in S
    BY <1>4
  <2> HIDE DEF S
  <2>2. IsFiniteSet(S \ {node}) /\ Cardinality(S \ {node}) = Cardinality(S) - 1
    BY <1>3, <2>1, FS_RemoveElement
  <2> QED BY <2>2, FS_CardinalityType
<1>5. node \notin names(st.space) => can_alloc(st.fa)
  <2> SUFFICES ASSUME node \notin names(st.space) PROVE usable_frames(st.fa) >= 1
    BY <1>2, UsableMeansAlloc
  <2> QED BY <1>2, <1>3, <1>4
<1>6. CASE AddsNode(st, node, r)
  <2>1. /\ can_alloc(st.fa) /\ node \notin names(st.space)
        /\ r.fa = alloc(st.fa) /\ r.status = st.status
        /\ r.space.tables = Append(st.space.tables, <<node, next_frame(st.fa)>>)
    BY <1>6 DEF AddsNode
  <2>2. usable_frames(r.fa) = usable_frames(st.fa) - 1 /\ next_frame(st.fa) \in Frame
    BY <1>2, <2>1, AllocTyped
  <2>3. Extends(st.space, r.space, node, next_frame(st.fa))
    BY <2>1, <2>2, StateFields DEF Extends
  <2>4. N \ names(r.space) = S \ {node}
    BY <2>3, TablesAppend, SMTT(30)
  <2> HIDE DEF S
  <2>5. usable_frames(r.fa) >= n + Cardinality(S \ {node})
    BY <1>2, <1>3, <1>4, <2>1, <2>2
  <2> QED BY <2>1, <2>4, <2>5 DEF Covers
<1> QED BY <1>1, <1>5, <1>6

LEMMA CreateCovers ==
  ASSUME NEW N, IsFiniteSet(N), NEW st \in State, NEW vpn \in Vpn, nodes_of({vpn}) \subseteq N,
         NEW n \in Nat, Covers(st, n, N)
  PROVE  /\ Covers(find_pte_create(st, vpn), n, N)
         /\ find_pte_create(st, vpn).status = st.status
<1>1. mid(vpn) \in Nodes \cap N /\ leaf(vpn) \in Nodes \cap N
  BY DEF Nodes, nodes_of
<1>2. /\ add_node(st, mid(vpn)) \in State /\ Covers(add_node(st, mid(vpn)), n, N)
      /\ add_node(st, mid(vpn)).status = st.status
  BY <1>1, AddNode, AddNodeCovers
<1> QED BY <1>1, <1>2, AddNodeCovers DEF find_pte_create

(* A page and its nodes take what was covered.                             *)
LEMMA MapOneCovers ==
  ASSUME NEW N, IsFiniteSet(N), NEW st \in State, NEW vpn, InLast(st.space, vpn),
         nodes_of({vpn}) \subseteq N, NEW m \in Nat, Covers(st, m + 1, N)
  PROVE  /\ Covers(map_one(st, vpn), m, N)
         /\ map_one(st, vpn).status \in {st.status, "mapped before"}
<1> DEFINE r == map_one(st, vpn)
           x == next_frame(st.fa)
           M == Cardinality(N \ names(st.space))
<1> SUFFICES Covers(r, m, N) /\ r.status \in {st.status, "mapped before"}
  OBVIOUS
<1>1. /\ st.fa \in Allocator /\ usable_frames(st.fa) \in Int
      /\ M \in Nat /\ usable_frames(st.fa) >= m + 1 + M
  BY StateFields, UsableInt, Missing DEF Covers
<1> HIDE DEF M
<1>2. usable_frames(st.fa) >= 1
  BY <1>1
<1>3. can_alloc(st.fa)
  BY <1>1, <1>2, UsableMeansAlloc
<1>4. CASE st.status # "ok"
  <2>1. r = st
    BY <1>4, Zenon DEF map_one
  <2>2. usable_frames(st.fa) >= m + M
    BY <1>1
  <2> HIDE DEF r
  <2> QED BY <2>1, <2>2 DEF Covers, M
<1>5. CASE st.status = "ok"
  <2>1. PICK a : Staged(st, vpn, a) /\ r = page_table_map(a, vpn, x)
    BY <1>3, <1>5, MapOneStage, Zenon
  <2>2. /\ a \in State /\ a.status = "ok" /\ a.fa = alloc(st.fa)
        /\ a.space.tables = st.space.tables
    BY <2>1, Zenon DEF Staged
  <2>3. x \in Frame /\ usable_frames(a.fa) = usable_frames(st.fa) - 1
    BY <1>1, <1>3, <2>2, AllocTyped
  <2>4. Covers(a, m, N)
    <3>1. names(a.space) = names(st.space)
      BY <2>2 DEF names
    <3>2. usable_frames(a.fa) >= m + M
      BY <1>1, <2>3, SMTT(30)
    <3> QED BY <3>1, <3>2 DEF Covers, M
  <2>5. vpn \in Vpn
    <3>1. Len(st.space.areas) \in 1 .. Len(st.space.areas)
      BY StateFields, SeqFacts, SMTT(30) DEF InLast
    <3>2. st.space.areas[Len(st.space.areas)] \in Area
      BY <3>1, StateFields, SeqFacts
    <3> QED BY <3>2, AreaFields DEF InLast
  <2> DEFINE c == find_pte_create(a, vpn)
  <2>6. c \in State /\ Covers(c, m, N) /\ c.status = "ok"
    BY <2>2, <2>4, <2>5, Create, CreateCovers, Zenon
  <2> HIDE DEF r, x
  <2>7. \/ r.status = "out of frames" /\ c.status = "out of frames"
        \/ r = fail(c, "mapped before")
        \/ Mapped(a, vpn, x, r)
    BY <2>1, <2>2, <2>3, <2>5, PageTableMap
  <2>8. Mapped(a, vpn, x, r) => r.status = "ok" /\ r.fa = c.fa /\ r.space.tables = c.space.tables
    BY Zenon DEF Mapped
  <2> HIDE DEF c
  <2>9. /\ fail(c, "mapped before").fa = c.fa /\ fail(c, "mapped before").space = c.space
        /\ fail(c, "mapped before").status = "mapped before"
    <3>1. "mapped before" \in Status
      BY DEF Status
    <3> QED BY <2>6, <3>1, FailFields, Zenon
  <2>10. /\ r.fa = c.fa /\ r.space.tables = c.space.tables
         /\ r.status \in {"ok", "mapped before"}
    BY <2>6, <2>7, <2>8, <2>9
  <2>11. names(r.space) = names(c.space)
    BY <2>10 DEF names
  <2> QED BY <1>5, <2>6, <2>10, <2>11 DEF Covers
<1> QED BY <1>4, <1>5

Enough(st, m, N) == Covers(st, m, N) /\ st.status \notin {"full", "out of frames"}

LEMMA EnoughForLess ==
  ASSUME NEW N, IsFiniteSet(N), NEW st \in State, NEW x \in Nat, NEW y \in Nat, x <= y,
         Enough(st, y, N)
  PROVE  Enough(st, x, N)
<1> DEFINE u == usable_frames(st.fa)
           c == Cardinality(N \ names(st.space))
<1>1. u \in Int /\ c \in Nat
  BY StateFields, UsableInt, Missing
<1>2. u >= y + c
  BY DEF Enough, Covers
<1> HIDE DEF u, c
<1>3. u >= x + c
  BY <1>1, <1>2
<1> QED BY <1>3 DEF Enough, Covers, u, c

LEMMA MapOneEnough ==
  ASSUME NEW N, IsFiniteSet(N), NEW st \in State, NEW vpn, InLast(st.space, vpn),
         nodes_of({vpn}) \subseteq N, NEW m \in Nat, Enough(st, m + 1, N)
  PROVE  Enough(map_one(st, vpn), m, N)
<1>1. /\ Covers(map_one(st, vpn), m, N)
      /\ map_one(st, vpn).status \in {st.status, "mapped before"}
  BY MapOneCovers DEF Enough
<1> QED BY <1>1 DEF Enough

(* push of an area takes as many frames as it has pages, and nodes.        *)
LEMMA PushEnough ==
  ASSUME NEW N, IsFiniteSet(N), NEW st \in State, NEW start \in Nat, NEW end \in Nat,
         start <= end, end <= TRAMPOLINE, nodes_of(start .. end - 1) \subseteq N,
         NEW m \in Nat, Enough(st, m + (end - start), N),
         NEW r, r = push(st, start, end)
  PROVE  Enough(r, m, N)
<1> DEFINE n == end - start
           a == [st EXCEPT !.space.areas = Append(@, MapArea(start, end))]
           area == MapArea(start, end)
<1>1. n \in Nat
  OBVIOUS
<1>2. CASE st.status # "ok"
  <2>1. r = st
    BY <1>2 DEF push
  <2>2. m + n \in Nat /\ m <= m + n
    BY <1>1
  <2> QED BY <2>1, <2>2, EnoughForLess
<1>3. CASE st.status = "ok"
  <2>1. r = map_area(a, area)
    BY <1>3 DEF push
  <2>2. Pushing(st, start, end, a) /\ area.start = start /\ area.end = end /\ area \in Area
    BY PushStart
  <2> HIDE DEF a, area
  <2>3. /\ a \in State /\ a.fa = st.fa /\ a.status = st.status
        /\ a.space.tables = st.space.tables
        /\ a.space.areas = Append(st.space.areas, area)
    BY <2>2 DEF Pushing, area
  <2>4. /\ Len(a.space.areas) >= 1 /\ a.space.areas[Len(a.space.areas)] = area
    <3>1. st.space.areas \in Seq(Area)
      BY StateFields
    <3> QED BY <2>2, <2>3, <3>1, SMTT(30)
  <2>5. Enough(a, m + n, N)
    BY <2>3 DEF Enough, Covers, names
  <2>6. PICK at : MapWalk(a, start, n, at) /\ r = at[n]
    BY <2>1, <2>2, <2>3, <2>4, MapAreaWalk, SMTT(30)
  <2> HIDE DEF n
  <2> DEFINE Good(k) == at[k] \in State /\ \A x \in Nat : x + k <= m + n => Enough(at[k], x, N)
             P == {k \in 0 .. n : Good(k)}
  <2>7. 0 \in P
    <3>1. ASSUME NEW x \in Nat, x + 0 <= m + n PROVE Enough(a, x, N)
      <4>1. m + n \in Nat /\ x <= m + n
        BY <1>1, <3>1
      <4> QED BY <2>3, <2>5, <4>1, EnoughForLess
    <3>2. at[0] = a
      BY <2>6 DEF MapWalk
    <3>3. Good(0)
      BY <2>3, <3>1, <3>2
    <3> HIDE DEF Good
    <3> QED BY <1>1, <3>3
  <2>8. ASSUME NEW k \in 1 .. n, k - 1 \in P PROVE k \in P
    <3>1. /\ at[k - 1] \in State
          /\ \A x \in Nat : x + (k - 1) <= m + n => Enough(at[k - 1], x, N)
      BY <2>8
    <3>2. /\ k \in 0 .. n /\ at[k] \in State /\ at[k] = map_one(at[k - 1], start + k - 1)
          /\ InLast(at[k - 1].space, start + k - 1)
      <4>1. k \in 0 .. n
        BY <1>1
      <4> QED BY <2>6, <4>1 DEF MapWalk
    <3>3. ASSUME NEW x \in Nat, x + k <= m + n PROVE Enough(at[k], x, N)
      <4>1. x + 1 \in Nat /\ (x + 1) + (k - 1) <= m + n
        BY <1>1, <3>3
      <4>2. Enough(at[k - 1], x + 1, N)
        BY <3>1, <4>1
      <4>3. start + k - 1 \in start .. end - 1
        BY <1>1 DEF n
      <4>4. nodes_of({start + k - 1}) \subseteq N
        BY <4>3 DEF nodes_of
      <4> QED BY <3>1, <3>2, <4>2, <4>4, MapOneEnough
    <3>4. Good(k)
      BY <3>2, <3>3
    <3> HIDE DEF Good
    <3> QED BY <3>2, <3>4
  <2>9. Good(n)
    <3> HIDE DEF P
    <3>1. 0 .. n \subseteq P
      BY <1>1, <2>7, <2>8, UpTo
    <3>2. n \in P
      BY <1>1, <3>1
    <3> QED BY <3>2 DEF P
  <2> QED BY <1>1, <2>6, <2>9
<1> QED BY <1>2, <1>3

(* An empty address space.                                                 *)
LEMMA BareEnough ==
  ASSUME NEW N, IsFiniteSet(N), nodes_of({TRAMPOLINE}) \subseteq N,
         NEW f, NEW others, Accounts(f, others), NEW b \in [Frame -> Value],
         NEW m \in Nat, usable_frames(f) >= m + 1 + Cardinality(N),
         NEW r, r = map_trampoline(new_bare(f, b))
  PROVE  Enough(r, m, N)
<1> DEFINE a == new_bare(f, b)
           z == [fa |-> f, bytes |-> b, space |-> no_space, stack |-> <<>>, status |-> "ok"]
           t == << << <<"root", 0>>, next_frame(f)>> >>
<1>1. f \in Allocator /\ usable_frames(f) \in Int
  BY UsableInt DEF Accounts
<1>2. Cardinality(N) \in Nat
  BY Missing
<1>3. can_alloc(f)
  BY <1>1, <1>2, UsableMeansAlloc, SMTT(30)
<1>4. a = [frame_alloc(z) EXCEPT !.space.tables = t]
  BY <1>3 DEF new_bare
<1>5. z \in State
  BY <1>1, EmptySpace, EmptySeqFacts, StateMade DEF Status
<1>6. a \in State
  BY NewBare
<1>7. a.fa = alloc(f) /\ a.status = "ok"
  <2>1. z.fa = f /\ z.status = "ok"
    OBVIOUS
  <2> HIDE DEF z
  <2>2. frame_alloc(z) \in State /\ frame_alloc(z).fa = alloc(f) /\ frame_alloc(z).status = "ok"
    BY <1>3, <1>5, <2>1, FrameAlloc, SMTT(30)
  <2> HIDE DEF t, a
  <2> QED BY <1>4, <2>2 DEF State
<1> HIDE DEF a
<1>8. usable_frames(a.fa) = usable_frames(f) - 1
  BY <1>1, <1>3, <1>7, AllocTyped
<1>9. Covers(a, m, N)
  <2>1. /\ Cardinality(N \ names(a.space)) \in Nat
        /\ Cardinality(N \ names(a.space)) <= Cardinality(N)
    BY Missing
  <2> QED BY <1>1, <1>2, <1>8, <2>1, SMTT(30) DEF Covers
<1>10. TRAMPOLINE \in Vpn
  BY SpaceAssumption DEF Vpn, TRAMPOLINE
<1>11. r = find_pte_create(a, TRAMPOLINE)
  BY DEF map_trampoline, a
<1>12. Covers(r, m, N) /\ r.status = "ok"
  BY <1>6, <1>7, <1>9, <1>10, <1>11, CreateCovers
<1> QED BY <1>12 DEF Enough

LEMMA CopyAreaEnough ==
  ASSUME NEW N, IsFiniteSet(N), NEW st \in State, NEW area \in Area, NEW old \in Space,
         nodes_of(area.start .. area.end - 1) \subseteq N,
         NEW b \in [Frame -> Value], NEW m \in Nat,
         Enough(st, m + (area.end - area.start), N),
         NEW r, r = copy_area(old, b, st, area)
  PROVE  Enough(r, m, N)
<1> DEFINE a == push(st, area.start, area.end)
<1>1. /\ area.start \in Nat /\ area.end \in Nat /\ area.start <= area.end
      /\ area.end <= TRAMPOLINE
  BY AreaFields
<1>2. Enough(a, m, N)
  BY <1>1, PushEnough
<1>3. a \in State
  <2>1. Pushed(st, area.start, area.end, a)
    BY <1>1, Push
  <2> QED BY <2>1 DEF Pushed
<1>4. \/ r = a
      \/ r = fail(a, "unmapped page copied")
      \/ \E contents : r = copy_data(a, contents)
  BY DEF copy_area
<1> HIDE DEF a
<1>5. CASE r = a
  BY <1>2, <1>5
<1>6. CASE r = fail(a, "unmapped page copied")
  <2>1. r.fa = a.fa /\ r.space = a.space /\ r.status = "unmapped page copied"
    <3>1. "unmapped page copied" \in Status
      BY DEF Status
    <3>2. Fails(a, "unmapped page copied", r)
      BY <1>3, <1>6, <3>1, FailsWith
    <3> QED BY <3>2 DEF Fails
  <2> QED BY <1>2, <2>1 DEF Enough, Covers
<1>7. CASE \E contents : r = copy_data(a, contents)
  <2>1. r.fa = a.fa /\ r.space = a.space /\ r.status = a.status
    BY <1>3, <1>7 DEF copy_data, State
  <2> QED BY <1>2, <2>1 DEF Enough, Covers
<1> QED BY <1>4, <1>5, <1>6, <1>7

(* MemorySet::frames_used is a number of frames.                           *)
LEMMA UsedNat ==
  ASSUME NEW old \in Space
  PROVE  frames_used(old) \in Nat
<1> DEFINE n == Len(old.areas)
<1>1. n \in Nat /\ \A k \in 1 .. n : old.areas[k] \in Area
  BY SeqFacts DEF Space
<1>2. PICK u : /\ u[0] = 0
               /\ \A k \in 1 .. n : u[k] = u[k - 1] + old.areas[k].end - old.areas[k].start
               /\ frames_used(old) = u[n]
  BY <1>1, UsedTurns
<1> HIDE DEF n
<1> DEFINE P == {k \in 0 .. n : u[k] \in Nat}
<1>3. 0 \in P
  BY <1>1, <1>2, SMTT(30)
<1>4. ASSUME NEW k \in 1 .. n, k - 1 \in P PROVE k \in P
  <2> DEFINE area == old.areas[k]
  <2>1. /\ area.start \in Nat /\ area.end \in Nat /\ area.start <= area.end
    BY <1>1, AreaFields
  <2>2. u[k] = u[k - 1] + area.end - area.start /\ u[k - 1] \in Nat
    BY <1>2, <1>4
  <2> HIDE DEF area
  <2>3. u[k] \in Nat
    BY <2>1, <2>2
  <2> QED BY <1>1, <2>3
<1>5. n \in P
  <2> HIDE DEF P
  <2>1. 0 .. n \subseteq P
    BY <1>1, <1>3, <1>4, UpTo
  <2> QED BY <1>1, <2>1
<1> QED BY <1>2, <1>5

(* from_existed_user takes the root, the nodes and frames_used.            *)
LEMMA CopyEnough ==
  ASSUME NEW f, NEW others, Accounts(f, others), NEW b \in [Frame -> Value],
         NEW old \in Space, NEW N, IsFiniteSet(N), nodes_of({TRAMPOLINE}) \subseteq N,
         \A k \in 1 .. Len(old.areas) :
           nodes_of(old.areas[k].start .. old.areas[k].end - 1) \subseteq N,
         NEW m \in Nat, usable_frames(f) >= frames_used(old) + m + 1 + Cardinality(N),
         NEW r, r = from_existed_user(f, b, old)
  PROVE  Enough(r, m, N)
<1> DEFINE n == Len(old.areas)
           first == map_trampoline(new_bare(f, b))
<1>1. /\ n \in Nat /\ \A k \in 1 .. n : old.areas[k] \in Area
      /\ \A k \in 1 .. n : nodes_of(old.areas[k].start .. old.areas[k].end - 1) \subseteq N
  BY SeqFacts DEF Space
<1>2. first \in State /\ Fine(first, others)
  BY Bare
<1>3. PICK at : /\ at[0] = first
                /\ \A k \in 1 .. n : at[k] = copy_area(old, b, at[k - 1], old.areas[k])
                /\ r = at[n]
  BY <1>1, CopyTurns, SMTT(30)
<1>4. PICK u : /\ u[0] = 0
               /\ \A k \in 1 .. n : u[k] = u[k - 1] + old.areas[k].end - old.areas[k].start
               /\ frames_used(old) = u[n]
  BY <1>1, UsedTurns
<1> HIDE DEF n, first
<1> DEFINE Good(k) == /\ at[k] \in State /\ Fine(at[k], others) /\ u[k] \in Nat
                      /\ \A x \in Nat : Enough(first, x + u[k], N) => Enough(at[k], x, N)
           P == {k \in 0 .. n : Good(k)}
<1>5. 0 \in P
  <2>1. \A x \in Nat : x + 0 = x
    OBVIOUS
  <2>2. Good(0)
    BY <1>2, <1>3, <1>4, <2>1, SMTT(30)
  <2> HIDE DEF Good
  <2> QED BY <1>1, <2>2
<1>6. ASSUME NEW k \in 1 .. n, k - 1 \in P PROVE k \in P
  <2> DEFINE area == old.areas[k]
             l == area.end - area.start
  <2>1. /\ at[k - 1] \in State /\ Fine(at[k - 1], others) /\ u[k - 1] \in Nat
        /\ \A x \in Nat : Enough(first, x + u[k - 1], N) => Enough(at[k - 1], x, N)
    BY <1>6
  <2>2. /\ area \in Area /\ at[k] = copy_area(old, b, at[k - 1], area)
        /\ nodes_of(area.start .. area.end - 1) \subseteq N
    BY <1>1, <1>3
  <2>3. /\ area.start \in Nat /\ area.end \in Nat /\ area.start <= area.end
    BY <2>2, AreaFields
  <2>4. l \in Nat /\ u[k] = u[k - 1] + l /\ u[k] \in Nat
    <3>1. u[k] = u[k - 1] + area.end - area.start
      BY <1>4
    <3> HIDE DEF area
    <3> QED BY <2>1, <2>3, <3>1, SMTT(30)
  <2>5. at[k] \in State /\ Fine(at[k], others)
    BY <2>1, <2>2, CopyArea, SMTT(30)
  <2>6. ASSUME NEW x \in Nat, Enough(first, x + u[k], N) PROVE Enough(at[k], x, N)
    <3>1. x + l \in Nat /\ x + u[k] = (x + l) + u[k - 1]
      BY <2>1, <2>4, SMTT(30)
    <3>2. Enough(first, (x + l) + u[k - 1], N)
      BY <2>6, <3>1
    <3>3. Enough(at[k - 1], x + l, N)
      BY <2>1, <3>1, <3>2
    <3> QED BY <2>1, <2>2, <3>3, CopyAreaEnough
  <2>7. Good(k)
    BY <2>4, <2>5, <2>6
  <2> HIDE DEF Good
  <2> QED BY <1>1, <2>7
<1>7. Good(n)
  <2> HIDE DEF P
  <2>1. 0 .. n \subseteq P
    BY <1>1, <1>5, <1>6, UpTo
  <2>2. n \in P
    BY <1>1, <2>1, SMTT(30)
  <2> QED BY <2>2 DEF P
<1>8. u[n] \in Nat /\ m + u[n] \in Nat /\ usable_frames(f) >= (m + u[n]) + 1 + Cardinality(N)
  <2>1. u[n] \in Nat /\ usable_frames(f) >= u[n] + m + 1 + Cardinality(N)
    BY <1>4, <1>7
  <2>2. Cardinality(N) \in Nat
    BY Missing
  <2> QED BY <2>1, <2>2
<1>9. Enough(first, m + u[n], N)
  BY <1>8, BareEnough DEF first
<1> QED BY <1>3, <1>4, <1>7, <1>8, <1>9

(* One page of the kernel stack.                                           *)
LEMMA StackPageEnough ==
  ASSUME NEW N, IsFiniteSet(N), NEW st \in State, NEW i, NEW m \in Nat, Enough(st, m + 1, N),
         NEW r, r = add_stack_page(st, i)
  PROVE  Enough(r, m, N)
<1> DEFINE c == Cardinality(N \ names(st.space))
<1>1. st.fa \in Allocator /\ usable_frames(st.fa) \in Int /\ c \in Nat
  BY StateFields, UsableInt, Missing
<1>2. usable_frames(st.fa) >= m + 1 + c
  BY DEF Enough, Covers
<1> HIDE DEF c
<1>3. can_alloc(st.fa)
  <2>1. usable_frames(st.fa) >= 1
    BY <1>1, <1>2, SMTT(30)
  <2> QED BY <1>1, <2>1, UsableMeansAlloc
<1>4. CASE st.status # "ok"
  <2>1. r = st
    BY <1>4 DEF add_stack_page
  <2>2. m + 1 \in Nat /\ m <= m + 1
    OBVIOUS
  <2> QED BY <2>1, <2>2, EnoughForLess
<1>5. CASE st.status = "ok"
  <2> DEFINE a == frame_alloc(st)
  <2>1. r = [a EXCEPT !.stack = Append(a.stack, next_frame(st.fa))]
    BY <1>3, <1>5 DEF add_stack_page
  <2>2. /\ a \in State /\ a.fa = alloc(st.fa) /\ a.space = st.space /\ a.status = "ok"
    BY <1>3, <1>5, FrameAlloc, SMTT(30)
  <2> HIDE DEF a
  <2>3. r.fa = alloc(st.fa) /\ r.space = st.space /\ r.status = "ok"
    BY <2>1, <2>2 DEF State
  <2>4. usable_frames(r.fa) = usable_frames(st.fa) - 1
    BY <1>1, <1>3, <2>3, AllocTyped
  <2>5. usable_frames(r.fa) >= m + c
    BY <1>1, <1>2, <2>4, SMTT(30)
  <2> QED BY <2>3, <2>5 DEF Enough, Covers, c
<1> QED BY <1>4, <1>5

LEMMA StackEnough ==
  ASSUME NEW N, IsFiniteSet(N), NEW st \in State, NEW others, Fine(st, others),
         Enough(st, KSTACK, N), NEW r, r = new_kernel_stack(st)
  PROVE  Enough(r, 0, N)
<1> DEFINE s == [i \in 1 .. KSTACK |-> i]
<1>1. KSTACK \in Nat /\ Len(s) = KSTACK
  BY SpaceAssumption
<1> HIDE DEF s
<1>2. PICK at : /\ at[0] = st
                /\ \A k \in 1 .. KSTACK : at[k] = add_stack_page(at[k - 1], s[k])
                /\ r = at[KSTACK]
  BY <1>1, StackTurns, SMTT(30) DEF s
<1> DEFINE Good(k) == /\ at[k] \in State /\ Fine(at[k], others)
                      /\ \A x \in Nat : x + k = KSTACK => Enough(at[k], x, N)
           P == {k \in 0 .. KSTACK : Good(k)}
<1>3. 0 \in P
  <2>1. \A x \in Nat : x + 0 = x
    OBVIOUS
  <2>2. Good(0)
    BY <1>2, <2>1
  <2> HIDE DEF Good
  <2> QED BY <1>1, <2>2
<1>4. ASSUME NEW k \in 1 .. KSTACK, k - 1 \in P PROVE k \in P
  <2>1. /\ at[k - 1] \in State /\ Fine(at[k - 1], others)
        /\ \A x \in Nat : x + (k - 1) = KSTACK => Enough(at[k - 1], x, N)
    BY <1>4
  <2>2. at[k] = add_stack_page(at[k - 1], s[k])
    BY <1>2
  <2>3. at[k] \in State /\ Fine(at[k], others)
    <3> DEFINE a == at[k - 1]
               e == at[k]
    <3>1. a \in State /\ Fine(a, others) /\ e = add_stack_page(a, s[k])
      BY <2>1, <2>2
    <3> HIDE DEF a, e
    <3>2. e \in State /\ Fine(e, others)
      <4>1. StackPaged(a, others, e)
        BY <3>1, StackPage
      <4> QED BY <4>1 DEF StackPaged
    <3> QED BY <3>2 DEF e
  <2>4. ASSUME NEW x \in Nat, x + k = KSTACK PROVE Enough(at[k], x, N)
    <3>1. x + 1 \in Nat /\ (x + 1) + (k - 1) = KSTACK
      BY <1>1, <2>4, SMTT(30)
    <3>2. Enough(at[k - 1], x + 1, N)
      BY <2>1, <3>1
    <3> QED BY <2>1, <2>2, <3>2, StackPageEnough
  <2>5. Good(k)
    BY <2>3, <2>4
  <2> HIDE DEF Good
  <2> QED BY <1>1, <2>5
<1>5. Good(KSTACK)
  <2> HIDE DEF P
  <2>1. 0 .. KSTACK \subseteq P
    BY <1>1, <1>3, <1>4, UpTo
  <2>2. KSTACK \in P
    BY <1>1, <2>1, SMTT(30)
  <2> QED BY <2>2 DEF P
<1>6. 0 \in Nat /\ 0 + KSTACK = KSTACK
  BY <1>1
<1> QED BY <1>2, <1>5, <1>6
=============================================================================
