--------------------------- MODULE PageTableProofs --------------------------
(***************************************************************************)
(* Proofs about module PageTable, for every number of frames and tables,   *)
(* every fanout and every set of pages that differ in their indexes.       *)
(***************************************************************************)
EXTENDS PageTableLemmas

USE ZenonT(10), SMTT(30)

-----------------------------------------------------------------------------
(* What the operations do to a table.                                      *)

LEMMA TableFacts ==
  ASSUME NEW f, NEW m, NEW pt, NEW df, NEW U, IsTable(f, m, pt, df, U)
  PROVE  /\ pt.root_ppn \in Frame \cup {None} /\ pt.frames \in Seq(Frame)
         /\ Pages(df) /\ IsInjective(pt.frames) /\ f \in Allocator
         /\ Range(pt.frames) \subseteq Frame /\ Range(df) \subseteq Frame
         /\ pt.root_ppn # None =>
              /\ pt.root_ppn \in Frame
              /\ Tree(m, pt.root_ppn, Range(pt.frames)) /\ Leaves(m, pt.root_ppn, df)
         /\ \A vpn \in DOMAIN df : indexes(vpn) \in Digit \X Digit \X Digit
<1>1. pt.root_ppn \in Frame \cup {None} /\ pt.frames \in Seq(Frame)
  BY DEF IsTable
<1>2. Pages(df) /\ IsInjective(pt.frames) /\ f \in Allocator
  BY DEF IsTable, Pages, Accounts
<1>3. Range(pt.frames) \subseteq Frame
  <2>1. \A x \in DOMAIN pt.frames : pt.frames[x] \in Frame
    BY <1>1, SeqFacts
  <2> QED BY <2>1 DEF Range
<1>4. Range(df) \subseteq Frame
  BY <1>2 DEF Pages, Range
<1>5. pt.root_ppn # None =>
        /\ pt.root_ppn \in Frame
        /\ Tree(m, pt.root_ppn, Range(pt.frames)) /\ Leaves(m, pt.root_ppn, df)
  BY <1>1 DEF IsTable
<1>6. \A vpn \in DOMAIN df : indexes(vpn) \in Digit \X Digit \X Digit
  BY <1>2, VpnIndexes DEF Pages
<1> QED BY <1>1, <1>2, <1>3, <1>4, <1>5, <1>6

(* PageTable::new                                                          *)
LEMMA NewTable ==
  ASSUME NEW f, NEW m \in [Frame -> Node], NEW pt, NEW df, NEW U \in SUBSET Frame,
         IsTable(f, m, pt, df, U), pt.root_ppn = None, can_alloc(f)
  PROVE  LET p == next_frame(f)
             m2 == [m EXCEPT ![p] = cleared]
         IN /\ Becomes(alloc(f), m, m2, [root_ppn |-> p, frames |-> <<p>>], df, U)
            /\ \A x, y, z \in Digit : ~ has_page(m2, p, x, y, z)
<1> DEFINE p == next_frame(f)
           m2 == [m EXCEPT ![p] = cleared]
<1>1. /\ pt.frames = <<>> /\ df = no_frames /\ DOMAIN df = {}
      /\ Range(pt.frames) = {} /\ Range(df) = {}
  <2>1. pt.frames = <<>> /\ df = no_frames
    BY DEF IsTable
  <2>2. DOMAIN df = {}
    BY <2>1 DEF no_frames
  <2>3. Range(pt.frames) = {}
    BY <2>1, EmptySeqFacts DEF Range
  <2> QED BY <2>1, <2>2, <2>3 DEF Range
<1>2. Accounts(f, U)
  <2>1. U \cup (Range(pt.frames) \cup Range(df)) = U
    BY <1>1
  <2> QED BY <2>1, Zenon DEF IsTable
<1>3. p \in Frame /\ p \notin U /\ Accounts(alloc(f), U \cup {p})
  BY <1>2, AllocAccounts
<1> HIDE DEF p
<1>4. /\ m2 \in [Frame -> Node] /\ m2[p] = cleared
      /\ \A n \in U : m2[n] = m[n]
  BY <1>3, EntryTypes
<1> HIDE DEF m2
<1>5. \A i \in Digit : ~ has_mid(m2, p, i)
  BY <1>4, DigitFacts DEF has_mid, first
<1>6. /\ \A i, j \in Digit : ~ has_leaf(m2, p, i, j)
      /\ \A i, j, k \in Digit : ~ has_page(m2, p, i, j, k)
  BY <1>5 DEF has_leaf, has_page
<1>7. /\ <<p>> \in Seq(Frame) /\ Range(<<p>>) = {p} /\ IsInjective(<<p>>)
  BY <1>3 DEF Range, IsInjective
<1>8. Tree(m2, p, {p})
  BY <1>3, <1>5, <1>6, Zenon DEF Tree
<1>9. Leaves(m2, p, df)
  BY <1>1, <1>6 DEF Leaves
<1> DEFINE pt2 == [root_ppn |-> p, frames |-> <<p>>]
<1>10. /\ pt2 \in [root_ppn : Frame \cup {None}, frames : Seq(Frame)]
       /\ pt2.root_ppn = p /\ pt2.frames = <<p>> /\ p # None
  BY <1>3, <1>7, FrameFacts
<1>11. /\ DOMAIN df \subseteq Vpn /\ df \in [DOMAIN df -> Frame]
       /\ IsInjective(df)
  BY DEF IsTable
<1> HIDE DEF pt2
<1>12. IsTable(alloc(f), m2, pt2, df, U)
  BY <1>1, <1>3, <1>7, <1>8, <1>9, <1>10, <1>11, Zenon DEF IsTable
<1>13. Becomes(alloc(f), m, m2, pt2, df, U)
  BY <1>4, <1>12 DEF Becomes
<1> QED BY <1>6, <1>13, Zenon DEF pt2, m2, p

(* A walk that starts at the root of a table in use.                       *)
Started(w, f, m, pt, df, U) ==
  /\ Walk(w, U \cup Range(df), pt.root_ppn)
  /\ w.fa = f /\ w.mem = m /\ w.frames = pt.frames /\ w.at = pt.root_ppn

LEMMA TableWalk ==
  ASSUME NEW f, NEW m \in [Frame -> Node], NEW pt, NEW df, NEW U,
         IsTable(f, m, pt, df, U), pt.root_ppn # None,
         NEW w, w = [fa |-> f, mem |-> m, frames |-> pt.frames, at |-> pt.root_ppn]
  PROVE  Started(w, f, m, pt, df, U)
<1>1. /\ f \in Allocator /\ pt.frames \in Seq(Frame) /\ pt.root_ppn \in Frame
      /\ IsInjective(pt.frames) /\ Tree(m, pt.root_ppn, Range(pt.frames))
  BY TableFacts, Zenon
<1>2. w \in WalkState /\ w.fa = f /\ w.mem = m /\ w.frames = pt.frames /\ w.at = pt.root_ppn
  BY <1>1, Zenon DEF WalkState
<1>3. /\ (U \cup Range(df)) \cap Range(pt.frames) = {}
      /\ U \cup (Range(pt.frames) \cup Range(df)) = (U \cup Range(df)) \cup Range(pt.frames)
  BY DEF IsTable
<1>4. Accounts(f, (U \cup Range(df)) \cup Range(pt.frames))
  BY <1>3, Zenon DEF IsTable
<1> QED BY <1>1, <1>2, <1>3, <1>4 DEF Walk, Started

(* MapArea::unmap_one: the walk and the memory.                            *)
UnmapValues(f, m, pt, vpn, k, w, m2) ==
  /\ w = find_pte_create([fa |-> f, mem |-> m, frames |-> pt.frames,
                          at |-> pt.root_ppn], vpn)
  /\ m2 = [w.mem EXCEPT ![w.at][k] = empty]

UnmapCall(f, m, pt, df, U, vpn, i, j, k, w, m2) ==
  /\ m \in [Frame -> Node] /\ U \in SUBSET Frame /\ IsTable(f, m, pt, df, U)
  /\ pt.root_ppn # None
  /\ vpn \in DOMAIN df /\ i \in Digit /\ j \in Digit /\ k \in Digit
  /\ indexes(vpn) = <<i, j, k>>
  /\ UnmapValues(f, m, pt, vpn, k, w, m2)

UnmapDone(m, m2, pt, df, U, vpn, i, j, k, w) ==
  /\ Becomes(dealloc(w.fa, df[vpn]), m, m2,
             [root_ppn |-> pt.root_ppn, frames |-> w.frames],
             Restrict(df, DOMAIN df \ {vpn}), U)
  /\ SameBut(m, m2, pt.root_ppn, i, j, k)
  /\ has_page(m, pt.root_ppn, i, j, k) /\ ~ has_page(m2, pt.root_ppn, i, j, k)

LEMMA UnmapTable ==
  ASSUME NEW f, NEW m, NEW pt, NEW df, NEW U, NEW vpn, NEW i, NEW j, NEW k,
         NEW w, NEW m2, UnmapCall(f, m, pt, df, U, vpn, i, j, k, w, m2)
  PROVE  UnmapDone(m, m2, pt, df, U, vpn, i, j, k, w)
<1>call. /\ m \in [Frame -> Node] /\ U \in SUBSET Frame /\ IsTable(f, m, pt, df, U)
         /\ pt.root_ppn # None
         /\ vpn \in DOMAIN df /\ i \in Digit /\ j \in Digit /\ k \in Digit
         /\ indexes(vpn) = <<i, j, k>>
         /\ UnmapValues(f, m, pt, vpn, k, w, m2)
  BY DEF UnmapCall
<1> USE <1>call
<1> DEFINE r == pt.root_ppn
           N == Range(pt.frames)
           D == Range(df)
           V == U \cup D
<1>1. PICK w0 : w0 = [fa |-> f, mem |-> m, frames |-> pt.frames, at |-> r]
  BY Zenon
<1>2. Walk(w0, V, r) /\ w0.fa = f /\ w0.mem = m /\ w0.frames = pt.frames /\ w0.at = r
  <2>1. Started(w0, f, m, pt, df, U)
    BY <1>1, TableWalk, Zenon
  <2> QED BY <2>1 DEF Started
<1>3. /\ Pages(df) /\ Tree(m, r, N) /\ Leaves(m, r, df) /\ r \in Frame
      /\ pt.frames \in Seq(Frame) /\ IsInjective(pt.frames)
      /\ N \subseteq Frame /\ D \subseteq Frame
  BY TableFacts, Zenon
<1>4. has_page(m, r, i, j, k) /\ has_leaf(m, r, i, j)
  <2>1. Leaves(m, r, df) /\ vpn \in DOMAIN df /\ indexes(vpn) = <<i, j, k>>
    BY <1>3, ZenonT(60)
  <2> QED BY ONLY <2>1, LeafEntry
<1>5. w = find_pte_create(w0, vpn) /\ m2 = [w.mem EXCEPT ![w.at][k] = empty]
  BY <1>1, Zenon DEF UnmapValues
<1> HIDE DEF r, V, N, D
<1>6. /\ Walk(w, V, r) /\ w.at = second(w.mem, r, i, j).ppn
      /\ w.fa = f /\ w.mem = m /\ w.frames = pt.frames
  <2>1. /\ Walk(w, V, r) /\ w.at = second(w.mem, r, i, j).ppn
        /\ w.fa = w0.fa /\ w.mem = w0.mem /\ w.frames = w0.frames
    <3>1. i \in Digit /\ j \in Digit /\ k \in Digit /\ indexes(vpn) = <<i, j, k>>
      BY Zenon
    <3> QED BY ONLY <1>2, <1>4, <1>5, <3>1, FindPteCreate
  <2> QED BY <1>2, <2>1, Zenon
<1>7. second(m, r, i, j).ppn \in N
  BY <1>3, <1>4, Zenon DEF Tree
<1>8. empty \in PageTableEntry
  BY <1>3, EntryTypes
<1>9. /\ m2 \in [Frame -> Node]
      /\ \A n \in Frame \ {second(m, r, i, j).ppn} : m2[n] = m[n]
      /\ NewEntry(m, m2, N, second(m, r, i, j).ppn, k, empty)
  <2>1. PICK b : b = second(m, r, i, j).ppn
    OBVIOUS
  <2>2. b \in Frame /\ m2 = [m EXCEPT ![b][k] = empty]
    BY <1>3, <1>5, <1>6, <1>7, <2>1, Zenon
  <2>3. /\ m2 \in [Frame -> Node]
        /\ \A n \in Frame \ {b} : m2[n] = m[n]
        /\ \A M \in SUBSET Frame : NewEntry(m, m2, M, b, k, empty)
    BY ONLY <1>8, <2>2, m \in [Frame -> Node], k \in Digit, WriteEntry, Zenon
  <2> QED BY <1>3, <2>1, <2>3
<1>10. /\ Tree(m2, r, N) /\ third(m2, r, i, j, k) = empty
       /\ SameBut(m, m2, r, i, j, k)
  <2>1. Tree(m, r, N) /\ NewEntry(m, m2, N, second(m, r, i, j).ppn, k, empty)
    BY <1>3, <1>9
  <2> QED BY ONLY <1>4, <2>1, i \in Digit, j \in Digit, k \in Digit, SetLeafEntry, Zenon
<1>11. ~ has_page(m2, r, i, j, k)
  BY <1>10, DigitFacts, Zenon DEF has_page
<1>12. \A n \in U : m2[n] = m[n]
  <2>1. second(m, r, i, j).ppn \notin U
    BY <1>7 DEF IsTable, N
  <2> QED BY <1>9, <2>1
<1>13. PICK df2 : df2 = Restrict(df, DOMAIN df \ {vpn})
  OBVIOUS
<1>14. /\ Pages(df2) /\ DOMAIN df2 = DOMAIN df \ {vpn}
       /\ \A v \in DOMAIN df2 : df2[v] = df[v]
       /\ Range(df2) = D \ {df[vpn]} /\ df[vpn] \in D
  <2>1. Pages(df)
    BY <1>3
  <2>2. PageRemoved(df, vpn, df2)
    BY <1>13, <2>1, RemovePage
  <2> QED BY <2>2 DEF PageRemoved, D
<1>15. Leaves(m2, r, df2)
  <2>1. vpn \in Vpn /\ DOMAIN df \subseteq Vpn
    BY <1>3 DEF Pages
  <2> QED BY <1>3, <1>10, <1>11, <1>14, <2>1, LeavesRemove, Zenon
<1>16. Accounts(dealloc(f, df[vpn]), U \cup (N \cup Range(df2)))
  <2> DEFINE used == U \cup (N \cup D)
  <2>1. Accounts(f, used) /\ df[vpn] \in used /\ df[vpn] \in Frame
    BY <1>3, <1>14 DEF IsTable, N, D
  <2>2. used \ {df[vpn]} = U \cup (N \cup Range(df2))
    BY <1>14 DEF IsTable, N, D
  <2> HIDE DEF used
  <2> QED BY <2>1, <2>2, DeallocOne, SMTT(30)
<1> DEFINE pt2 == [root_ppn |-> r, frames |-> w.frames]
<1>17. /\ pt2 \in [root_ppn : Frame \cup {None}, frames : Seq(Frame)]
       /\ pt2.root_ppn = r /\ pt2.frames = pt.frames /\ r # None
  BY <1>3, <1>6, FrameFacts, Zenon
<1>18. N \cap Range(df2) = {} /\ U \cap (N \cup Range(df2)) = {}
  <2>1. N \cap D = {} /\ U \cap (N \cup D) = {}
    BY Zenon DEF IsTable, N, D
  <2> QED BY ONLY <1>14, <2>1 DEF D
<1> HIDE DEF pt2
<1>19. IsTable(dealloc(f, df[vpn]), m2, pt2, df2, U)
  BY <1>3, <1>10, <1>14, <1>15, <1>16, <1>17, <1>18 DEF IsTable, Pages, N
<1>20. Becomes(dealloc(f, df[vpn]), m, m2, pt2, df2, U)
  BY <1>9, <1>12, <1>19 DEF Becomes
<1> QED BY <1>4, <1>6, <1>10, <1>11, <1>13, <1>20, Zenon DEF pt2, r, UnmapDone

(* The data frame of a page that is being mapped.                          *)
LEMMA MapFrame ==
  ASSUME NEW f, NEW m \in [Frame -> Node], NEW pt, NEW df, NEW U \in SUBSET Frame,
         IsTable(f, m, pt, df, U), pt.root_ppn # None, can_alloc(f)
  PROVE  LET p == next_frame(f)
             w == frame_alloc([fa |-> f, mem |-> m, frames |-> pt.frames,
                               at |-> pt.root_ppn])
         IN /\ p \in Frame
            /\ p \notin U /\ p \notin Range(df) /\ p \notin Range(pt.frames)
            /\ Walk(w, (U \cup Range(df)) \cup {p}, pt.root_ppn) /\ w.at = pt.root_ppn
            /\ usable_frames(w.fa) = usable_frames(f) - 1
            /\ \A n \in U : w.mem[n] = m[n]
            /\ SamePages(m, w.mem, pt.root_ppn)
<1> DEFINE p == next_frame(f)
           w == frame_alloc([fa |-> f, mem |-> m, frames |-> pt.frames,
                             at |-> pt.root_ppn])
           r == pt.root_ppn
           N == Range(pt.frames)
           D == Range(df)
           m2 == [m EXCEPT ![p] = cleared]
<1>1. PICK w0 : w0 = [fa |-> f, mem |-> m, frames |-> pt.frames, at |-> r]
  BY Zenon
<1>2. /\ Walk(w0, U \cup D, r)
      /\ w0.fa = f /\ w0.mem = m /\ w0.frames = pt.frames /\ w0.at = r
  <2>1. Started(w0, f, m, pt, df, U)
    BY <1>1, TableWalk, Zenon
  <2> QED BY <2>1 DEF Started
<1>3. w0 \in WalkState
  BY <1>2, Zenon DEF Walk
<1>4. w = [fa |-> alloc(f), mem |-> m2, frames |-> pt.frames, at |-> r]
  <2>1. w = frame_alloc(w0)
    BY <1>1, Zenon
  <2> QED BY <1>2, <1>3, <2>1, FrameAllocFields
<1> HIDE DEF w
<1>5. /\ Tree(m, r, N) /\ Leaves(m, r, df) /\ r \in Frame /\ IsInjective(pt.frames)
      /\ pt.frames \in Seq(Frame) /\ N \subseteq Frame
      /\ \A vpn \in DOMAIN df : indexes(vpn) \in Digit \X Digit \X Digit
  BY TableFacts
<1>6. U \cap (N \cup D) = {} /\ N \cap D = {} /\ Accounts(f, U \cup (N \cup D))
  BY DEF IsTable
<1> HIDE DEF N, D, r
<1>7. /\ p \in Frame /\ p \notin U \cup (N \cup D)
      /\ Accounts(alloc(f), (U \cup (N \cup D)) \cup {p})
      /\ usable_frames(alloc(f)) = usable_frames(f) - 1
  <2>1. PICK used : used = U \cup (N \cup D)
    BY Zenon
  <2>2. /\ p \in Frame /\ p \notin used /\ Accounts(alloc(f), used \cup {p})
        /\ usable_frames(alloc(f)) = usable_frames(f) - 1
    BY <1>6, <2>1, AllocAccounts
  <2> QED BY <2>1, <2>2
<1> HIDE DEF p
<1>8. /\ m2 \in [Frame -> Node] /\ \A n \in Frame \ {p} : m2[n] = m[n]
  BY <1>7, EntryTypes
<1> HIDE DEF m2
<1>9. /\ w.fa = alloc(f) /\ w.mem = m2 /\ w.frames = pt.frames /\ w.at = r
      /\ w \in WalkState
  <2>1. alloc(f) \in Allocator
    BY <1>7 DEF Accounts
  <2> QED BY <1>4, <1>5, <1>8, <2>1, Zenon DEF WalkState
<1>10. \A n \in N : m2[n] = m[n]
  BY <1>5, <1>7, <1>8
<1>11. /\ Tree(m2, r, N)
       /\ SamePages(m, m2, r)
  <2>1. /\ Tree(m, r, N) /\ Leaves(m, r, df)
        /\ \A vpn \in DOMAIN df : indexes(vpn) \in Digit \X Digit \X Digit
    BY <1>5
  <2> QED BY ONLY <1>10, <2>1, TreeLocal
<1>12. /\ (U \cup (N \cup D)) \cup {p} = ((U \cup D) \cup {p}) \cup N
       /\ ((U \cup D) \cup {p}) \cap N = {}
  BY <1>6, <1>7
<1>13. Walk(w, (U \cup D) \cup {p}, r)
  BY <1>5, <1>7, <1>9, <1>11, <1>12, Zenon DEF Walk, N
<1>14. \A n \in U : m2[n] = m[n]
  BY <1>7, <1>8
<1> QED BY <1>7, <1>9, <1>11, <1>13, <1>14, Zenon DEF N, D, r, p, w

(* MapArea::map_one: the data frame, the walk, the entry, the memory.      *)
MapValues(f, m, pt, vpn, k, permission, p, w, e, m2) ==
  /\ p = next_frame(f)
  /\ w = find_pte_create(
           frame_alloc([fa |-> f, mem |-> m, frames |-> pt.frames, at |-> pt.root_ppn]), vpn)
  /\ e = [ppn |-> p, flags |-> permission \cup {"V"}]
  /\ m2 = [w.mem EXCEPT ![w.at][k] = e]

MapCall(f, m, pt, df, U, vpn, i, j, k, permission, p, w, e, m2) ==
  /\ m \in [Frame -> Node] /\ U \in SUBSET Frame /\ IsTable(f, m, pt, df, U)
  /\ pt.root_ppn # None /\ usable_frames(f) >= 3
  /\ vpn \in Vpn /\ i \in Digit /\ j \in Digit /\ k \in Digit
  /\ indexes(vpn) = <<i, j, k>> /\ permission \in SUBSET {"R", "W", "X", "U"}
  /\ MapValues(f, m, pt, vpn, k, permission, p, w, e, m2)
  /\ ~ is_valid(w.mem[w.at][k])

MapDone(m, m2, pt, df, U, vpn, i, j, k, p, w, e) ==
  /\ Becomes(w.fa, m, m2, [root_ppn |-> pt.root_ppn, frames |-> w.frames],
             insert(df, vpn, p), U)
  /\ p \notin U /\ p \notin Range(df)
  /\ SameBut(m, m2, pt.root_ppn, i, j, k)
  /\ ~ has_page(m, pt.root_ppn, i, j, k)
  /\ has_page(m2, pt.root_ppn, i, j, k) /\ third(m2, pt.root_ppn, i, j, k) = e

LEMMA MapTable ==
  ASSUME NEW f, NEW m, NEW pt, NEW df, NEW U, NEW vpn, NEW i, NEW j, NEW k,
         NEW permission, NEW p, NEW w, NEW e, NEW m2,
         MapCall(f, m, pt, df, U, vpn, i, j, k, permission, p, w, e, m2)
  PROVE  MapDone(m, m2, pt, df, U, vpn, i, j, k, p, w, e)
<1>call. /\ m \in [Frame -> Node] /\ U \in SUBSET Frame /\ IsTable(f, m, pt, df, U)
         /\ pt.root_ppn # None /\ usable_frames(f) >= 3
         /\ vpn \in Vpn /\ i \in Digit /\ j \in Digit /\ k \in Digit
         /\ indexes(vpn) = <<i, j, k>> /\ permission \in SUBSET {"R", "W", "X", "U"}
         /\ MapValues(f, m, pt, vpn, k, permission, p, w, e, m2)
         /\ ~ is_valid(w.mem[w.at][k])
  BY Zenon DEF MapCall
<1> USE <1>call
<1> DEFINE r == pt.root_ppn
           N == Range(pt.frames)
           D == Range(df)
           V == (U \cup D) \cup {p}
<1>0. /\ p = next_frame(f) /\ e = [ppn |-> p, flags |-> permission \cup {"V"}]
      /\ m2 = [w.mem EXCEPT ![w.at][k] = e]
  BY Zenon DEF MapValues
<1>1. PICK w1 : w1 = frame_alloc([fa |-> f, mem |-> m, frames |-> pt.frames,
                                  at |-> pt.root_ppn])
  BY Zenon
<1>2. w = find_pte_create(w1, vpn)
  BY <1>1, Zenon DEF MapValues
<1>3. usable_frames(f) \in Int /\ usable_frames(f) >= 3 /\ can_alloc(f)
  <2>1. Accounts(f, U \cup (N \cup D)) /\ f \in Allocator
    BY DEF IsTable, Accounts
  <2>2. f.current \in 0 .. FRAMES /\ f.recycled \in Seq(Frame) /\ FRAMES \in Nat
    BY <2>1, AllocatorFields, FrameFacts, Zenon DEF Allocator
  <2>3. Len(f.recycled) \in Nat
    BY <2>2, SeqFacts, Zenon
  <2>4. usable_frames(f) \in Int
    BY ONLY <2>2, <2>3 DEF usable_frames
  <2>5. usable_frames(f) >= 3
    BY Zenon
  <2>6. usable_frames(f) >= 1
    BY ONLY <2>4, <2>5
  <2> QED BY <2>1, <2>4, <2>6, UsableMeansAlloc, Zenon
<1>4. /\ p \in Frame /\ p \notin U /\ p \notin D /\ p \notin N
      /\ Walk(w1, V, r) /\ w1.at = r
      /\ usable_frames(w1.fa) = usable_frames(f) - 1
      /\ \A n \in U : w1.mem[n] = m[n]
      /\ SamePages(m, w1.mem, r)
  <2> DEFINE q == next_frame(f)
             v == frame_alloc([fa |-> f, mem |-> m, frames |-> pt.frames,
                               at |-> pt.root_ppn])
  <2>1. /\ q \in Frame
        /\ q \notin U /\ q \notin Range(df) /\ q \notin Range(pt.frames)
        /\ Walk(v, (U \cup Range(df)) \cup {q}, pt.root_ppn) /\ v.at = pt.root_ppn
        /\ usable_frames(v.fa) = usable_frames(f) - 1
        /\ \A n \in U : v.mem[n] = m[n]
        /\ SamePages(m, v.mem, pt.root_ppn)
    <3>1. /\ m \in [Frame -> Node] /\ U \in SUBSET Frame /\ IsTable(f, m, pt, df, U)
          /\ pt.root_ppn # None
      BY Zenon
    <3> QED BY ONLY <1>3, <3>1, MapFrame, Zenon
  <2>2. w1 = v /\ p = q
    BY <1>0, <1>1, Zenon
  <2> HIDE DEF v, q
  <2> QED BY <2>1, <2>2, Zenon
<1>5. usable_frames(w1.fa) >= 2
  <2>1. usable_frames(w1.fa) = usable_frames(f) - 1
    BY <1>4, Zenon
  <2> QED BY ONLY <1>3, <2>1
<1>6. /\ Pages(df) /\ Leaves(m, r, df) /\ r \in Frame /\ D \subseteq Frame
      /\ V \subseteq Frame
  BY <1>4, TableFacts, Zenon
<1> HIDE DEF r, N, D, V
<1>7. /\ Walk(w, V, r) /\ has_leaf(w.mem, r, i, j)
      /\ w.at = second(w.mem, r, i, j).ppn
      /\ V \subseteq Frame => \A n \in V : w.mem[n] = w1.mem[n]
      /\ SamePages(w1.mem, w.mem, r)
  <2>1. Walk(w1, V, r) /\ w1.at = r
    BY <1>4, Zenon
  <2>2. i \in Digit /\ j \in Digit /\ k \in Digit /\ indexes(vpn) = <<i, j, k>>
    BY Zenon
  <2> QED BY ONLY <1>2, <1>5, <2>1, <2>2, FindPteCreate
<1>8. ~ has_page(m, r, i, j, k)
  <2>1. ~ is_valid(third(w.mem, r, i, j, k))
    BY <1>7, ThirdEntry, Zenon
  <2>2. ~ has_page(w.mem, r, i, j, k)
    BY <2>1, Zenon DEF has_page
  <2> QED BY <1>4, <1>7, <2>2, Zenon DEF SamePages
<1>9. vpn \notin DOMAIN df
  BY <1>6, <1>8, LeafEntry, Zenon
<1>10. /\ w.mem \in [Frame -> Node] /\ w.frames \in Seq(Frame)
       /\ Range(w.frames) \subseteq Frame /\ V \cap Range(w.frames) = {}
       /\ Tree(w.mem, r, Range(w.frames)) /\ IsInjective(w.frames)
       /\ Accounts(w.fa, V \cup Range(w.frames))
  <2>1. /\ V \cap Range(w.frames) = {} /\ Tree(w.mem, r, Range(w.frames))
        /\ IsInjective(w.frames) /\ Accounts(w.fa, V \cup Range(w.frames))
    BY <1>7, Zenon DEF Walk
  <2> QED BY ONLY <1>7, <2>1, WalkFacts, Zenon
<1>11. w.at \in Range(w.frames)
  BY <1>7, <1>10, Zenon DEF Tree
<1>12. e \in PageTableEntry /\ e.ppn = p /\ is_valid(e)
  BY <1>0, <1>4, Zenon DEF PageTableEntry, Flag, is_valid
<1>13. /\ m2 \in [Frame -> Node]
       /\ \A n \in Frame \ {w.at} : m2[n] = w.mem[n]
       /\ NewEntry(w.mem, m2, Range(w.frames), w.at, k, e)
  <2>1. w.at \in Frame
    BY <1>10, <1>11, Zenon
  <2>2. /\ m2 \in [Frame -> Node]
        /\ \A n \in Frame \ {w.at} : m2[n] = w.mem[n]
        /\ \A M \in SUBSET Frame : NewEntry(w.mem, m2, M, w.at, k, e)
    <3>1. m2 = [w.mem EXCEPT ![w.at][k] = e] /\ w.mem \in [Frame -> Node]
      BY <1>0, <1>10, Zenon
    <3>2. k \in Digit
      BY Zenon
    <3> QED BY ONLY <1>12, <2>1, <3>1, <3>2, WriteEntry
  <2> QED BY <1>10, <2>2, Zenon
<1>14. /\ Tree(m2, r, Range(w.frames)) /\ has_leaf(m2, r, i, j)
       /\ third(m2, r, i, j, k) = e /\ SameBut(w.mem, m2, r, i, j, k)
  <2>1. /\ Tree(w.mem, r, Range(w.frames)) /\ has_leaf(w.mem, r, i, j)
        /\ NewEntry(w.mem, m2, Range(w.frames), second(w.mem, r, i, j).ppn, k, e)
    BY <1>7, <1>10, <1>13, Zenon
  <2>2. i \in Digit /\ j \in Digit /\ k \in Digit
    BY Zenon
  <2> QED BY ONLY <2>1, <2>2, SetLeafEntry, Zenon
<1>15. has_page(m2, r, i, j, k) /\ third(m2, r, i, j, k).ppn = p
  BY <1>12, <1>14, Zenon DEF has_page
<1>16. SameBut(m, m2, r, i, j, k)
  <2>1. SamePages(m, w1.mem, r)
    BY <1>4, Zenon
  <2> QED BY <1>7, <1>14, <2>1, SameButSame, Zenon
<1>17. \A n \in U : m2[n] = m[n]
  <2>1. \A n \in U : n \in V /\ n \in Frame
    BY <1>6, Zenon DEF V
  <2>2. \A n \in U : n # w.at
    BY <1>10, <1>11, <2>1, Zenon
  <2> QED BY <1>4, <1>6, <1>7, <1>13, <2>1, <2>2, Zenon
<1>18. PICK df2 : df2 = insert(df, vpn, p)
  BY Zenon
<1>19. /\ Pages(df2) /\ DOMAIN df2 = DOMAIN df \cup {vpn}
       /\ df2[vpn] = p /\ \A v \in DOMAIN df : df2[v] = df[v]
       /\ Range(df2) = D \cup {p}
  <2>1. p \in Frame /\ p \notin Range(df) /\ Pages(df) /\ vpn \in Vpn
    BY <1>4, <1>6, Zenon DEF D
  <2> QED BY ONLY <1>9, <1>18, <2>1, AddPage DEF D
<1>20. Leaves(m2, r, df2)
  <2>1. DOMAIN df \subseteq Vpn
    BY <1>6 DEF Pages
  <2> QED BY <1>6, <1>9, <1>15, <1>16, <1>19, <2>1, LeavesAdd, Zenon
<1>21. /\ V \cup Range(w.frames) = U \cup (Range(w.frames) \cup Range(df2))
       /\ Range(w.frames) \cap Range(df2) = {}
       /\ U \cap (Range(w.frames) \cup Range(df2)) = {}
  <2>1. U \cap D = {}
    BY DEF IsTable, D
  <2> QED BY <1>4, <1>10, <1>19, <2>1, Zenon DEF V
<1> DEFINE pt2 == [root_ppn |-> r, frames |-> w.frames]
<1>22. /\ pt2 \in [root_ppn : Frame \cup {None}, frames : Seq(Frame)]
       /\ pt2.root_ppn = r /\ pt2.frames = w.frames /\ r # None
  BY <1>6, <1>10, FrameFacts, Zenon
<1> HIDE DEF pt2
<1>23. IsTable(w.fa, m2, pt2, df2, U)
  BY <1>10, <1>14, <1>19, <1>20, <1>21, <1>22, Zenon DEF IsTable, Pages
<1>24. Becomes(w.fa, m, m2, pt2, df2, U)
  BY <1>13, <1>17, <1>23, Zenon DEF Becomes
<1> QED BY <1>4, <1>8, <1>14, <1>15, <1>16, <1>18, <1>24, Zenon DEF pt2, r, D, MapDone

(* A program stores into one of its pages.                                 *)
StoreCall(f, m, pt, df, U, i, j, k, q, d, m2) ==
  /\ m \in [Frame -> Node] /\ U \in SUBSET Frame /\ IsTable(f, m, pt, df, U)
  /\ pt.root_ppn # None
  /\ i \in Digit /\ j \in Digit /\ k \in Digit /\ d \in Digit
  /\ has_page(m, pt.root_ppn, i, j, k) /\ q = third(m, pt.root_ppn, i, j, k).ppn
  /\ m2 = [m EXCEPT ![q][d] = [ppn |-> 0, flags |-> {"V", "R", "W"}]]

LEMMA StoreTable ==
  ASSUME NEW f, NEW m, NEW pt, NEW df, NEW U, NEW i, NEW j, NEW k, NEW q, NEW d, NEW m2,
         StoreCall(f, m, pt, df, U, i, j, k, q, d, m2)
  PROVE  Becomes(f, m, m2, pt, df, U) /\ SamePages(m, m2, pt.root_ppn)
<1>call. /\ m \in [Frame -> Node] /\ U \in SUBSET Frame /\ IsTable(f, m, pt, df, U)
         /\ pt.root_ppn # None
         /\ i \in Digit /\ j \in Digit /\ k \in Digit /\ d \in Digit
         /\ has_page(m, pt.root_ppn, i, j, k) /\ q = third(m, pt.root_ppn, i, j, k).ppn
  BY DEF StoreCall
<1>m2. m2 = [m EXCEPT ![q][d] = [ppn |-> 0, flags |-> {"V", "R", "W"}]]
  BY DEF StoreCall
<1> USE <1>call
<1> DEFINE r == pt.root_ppn
           N == Range(pt.frames)
           D == Range(df)
           e == [ppn |-> 0, flags |-> {"V", "R", "W"}]
<1>1. /\ Pages(df) /\ Tree(m, r, N) /\ Leaves(m, r, df) /\ r \in Frame
      /\ N \subseteq Frame /\ D \subseteq Frame
      /\ \A vpn \in DOMAIN df : indexes(vpn) \in Digit \X Digit \X Digit
  BY TableFacts, Zenon
<1>2. PICK vpn \in DOMAIN df : indexes(vpn) = <<i, j, k>>
  BY <1>1, Zenon DEF Leaves
<1>3. q = df[vpn] /\ q \in D
  <2>1. Leaves(m, r, df) /\ vpn \in DOMAIN df /\ indexes(vpn) = <<i, j, k>>
    BY <1>1, <1>2, Zenon
  <2>2. third(m, r, i, j, k).ppn = df[vpn]
    BY ONLY <2>1, LeafEntry
  <2> QED BY <2>2, Zenon DEF Range
<1>4. N \cap D = {} /\ U \cap D = {}
  BY DEF IsTable
<1>5. e \in PageTableEntry /\ q \in Frame
  BY <1>1, <1>3, StoredEntry, Zenon
<1> HIDE DEF e, r, N, D
<1>6. m2 \in [Frame -> Node] /\ \A n \in Frame \ {q} : m2[n] = m[n]
  <2>1. m2 = [m EXCEPT ![q][d] = e]
    BY <1>m2 DEF e
  <2>2. m \in [Frame -> Node] /\ d \in Digit
    BY Zenon
  <2> QED BY ONLY <1>5, <2>1, <2>2, WriteEntry, Zenon
<1>7. /\ \A n \in N : m2[n] = m[n]
      /\ \A n \in U : m2[n] = m[n]
  BY <1>1, <1>3, <1>4, <1>6, Zenon
<1>8. /\ Tree(m2, r, N) /\ Leaves(m2, r, df)
      /\ SamePages(m, m2, r)
  <2>1. /\ Tree(m, r, N) /\ Leaves(m, r, df)
        /\ \A v \in DOMAIN df : indexes(v) \in Digit \X Digit \X Digit
    BY <1>1
  <2> QED BY ONLY <1>7, <2>1, TreeLocal, Zenon
<1>9. IsTable(f, m2, pt, df, U)
  BY <1>8 DEF IsTable, r, N
<1> QED BY <1>6, <1>7, <1>8, <1>9 DEF r, Becomes

-----------------------------------------------------------------------------
(* The inductive invariant.                                                *)

LEMMA InitIInv == Init => IInv
<1> SUFFICES ASSUME Init
             PROVE  IInv
  OBVIOUS
<1>1. /\ fa = [current |-> 0, recycled |-> <<>>] /\ mem = [ppn \in Frame |-> cleared]
      /\ page_table = [t \in Table |-> NoTable]
      /\ data_frames = [t \in Table |-> no_frames]
  BY DEF Init, new_allocator, cleared, Digit
<1>2. NoTable.root_ppn = None /\ NoTable.frames = <<>>
      /\ NoTable \in [root_ppn : Frame \cup {None}, frames : Seq(Frame)]
  BY EmptySeqFacts DEF NoTable
<1>3. /\ Range(<<>>) = {} /\ IsInjective(<<>>)
      /\ DOMAIN no_frames = {} /\ Range(no_frames) = {} /\ IsInjective(no_frames)
      /\ no_frames \in [DOMAIN no_frames -> Frame]
  BY EmptySeqFacts DEF no_frames, Range, IsInjective
<1>4. \A t \in Table : owned(t) = {} /\ nodes(t) = {} /\ data(t) = {}
  BY <1>1, <1>2, <1>3 DEF owned, nodes, data
<1>5. in_use = {}
  BY <1>4 DEF in_use
<1>6. Accounts(fa, in_use)
  <2>1. /\ fa.current = 0 /\ fa.recycled = <<>> /\ <<>> \in Seq(Frame)
        /\ 0 \in 0 .. FRAMES /\ 0 .. 0 - 1 = {}
    BY <1>1, FrameFacts, EmptySeqFacts
  <2>2. fa \in Allocator
    BY <1>1, <2>1 DEF Allocator
  <2> QED BY <1>3, <1>5, <2>1, <2>2 DEF Accounts
<1>7. Typed
  <2>1. mem \in [Frame -> Node]
    BY <1>1, EntryTypes
  <2> QED BY <1>1, <1>2, <1>3, <2>1 DEF Typed
<1>8. FramesOwnedOnce
  BY <1>1, <1>2, <1>3, <1>4, <1>6 DEF FramesOwnedOnce
<1>9. TablesAreTrees
  BY <1>1, <1>2 DEF TablesAreTrees, exists
<1> QED BY <1>7, <1>8, <1>9 DEF IInv

(* find_pte finds the leaf entry.                                          *)
LEMMA FindPte ==
  ASSUME NEW t, NEW vpn, NEW i, NEW j, NEW k, indexes(vpn) = <<i, j, k>>
  PROVE  LET r == page_table[t].root_ppn
         IN /\ find_pte(t, vpn) = IF has_leaf(mem, r, i, j) THEN third(mem, r, i, j, k)
                                  ELSE Missing
            /\ maps(t, vpn) <=> has_page(mem, r, i, j, k)
<1> DEFINE r == page_table[t].root_ppn
<1>1. find_pte(t, vpn) = IF has_leaf(mem, r, i, j) THEN third(mem, r, i, j, k) ELSE Missing
  <2>1. indexes(vpn)[1] = i /\ indexes(vpn)[2] = j /\ indexes(vpn)[3] = k
    OBVIOUS
  <2> QED BY <2>1, Zenon DEF find_pte, has_leaf, has_mid, first, second, third
<1>2. ~ is_valid(Missing)
  BY DEF Missing, is_valid
<1> QED BY <1>1, <1>2 DEF maps, has_page

(* PageTable::new                                                          *)
LEMMA NewEffect ==
  ASSUME IInv, NEW t \in Table, new(t)
  PROVE  \E pt :
           /\ page_table' = [page_table EXCEPT ![t] = pt]
           /\ data_frames' = [data_frames EXCEPT ![t] = data_frames[t]]
           /\ Becomes(fa', mem, mem', pt, data_frames[t], rest(t))
           /\ page_table[t].root_ppn = None
           /\ \A x, y, z \in Digit : ~ has_page(mem', pt.root_ppn, x, y, z)
<1> DEFINE p == next_frame(fa)
           pt == [root_ppn |-> p, frames |-> <<p>>]
           w == frame_alloc([fa |-> fa, mem |-> mem])
           m2 == [mem EXCEPT ![p] = cleared]
<1>1. /\ IsTable(fa, mem, page_table[t], data_frames[t], rest(t))
      /\ rest(t) \in SUBSET Frame /\ mem \in [Frame -> Node]
  BY TableOf
<1>2. /\ page_table[t].root_ppn = None /\ can_alloc(fa)
      /\ fa' = w.fa /\ mem' = w.mem
      /\ page_table' = [page_table EXCEPT ![t] = pt] /\ data_frames' = data_frames
  BY DEF new, exists
<1>3. w.fa = alloc(fa) /\ w.mem = m2
  <2> DEFINE a2 == alloc(fa)
  <2>1. w = [[fa |-> fa, mem |-> mem] EXCEPT !.mem = m2, !.fa = a2]
    BY DEF frame_alloc, cleared, Digit
  <2> HIDE DEF w, m2, a2
  <2>2. PICK v : v = [[fa |-> fa, mem |-> mem] EXCEPT !.mem = m2]
    BY Zenon
  <2>3. v = [fa |-> fa, mem |-> m2] /\ w = [v EXCEPT !.fa = a2]
    BY <2>1, <2>2
  <2>4. w.fa = a2 /\ w.mem = m2
    BY <2>3
  <2> QED BY <2>4 DEF a2
<1>4. data_frames' = [data_frames EXCEPT ![t] = data_frames[t]]
  BY <1>2 DEF IInv, Typed
<1>5. /\ Becomes(alloc(fa), mem, m2, pt, data_frames[t], rest(t))
      /\ \A x, y, z \in Digit : ~ has_page(m2, p, x, y, z)
  BY ONLY <1>1, <1>2, NewTable, Zenon
<1>6. pt.root_ppn = p
  OBVIOUS
<1> HIDE DEF pt, p, w, m2
<1> QED BY <1>2, <1>3, <1>4, <1>5, <1>6, Zenon

(* MapArea::map_one                                                        *)
LEMMA MapEffect ==
  ASSUME IInv, NEW t \in Table, NEW vpn \in Vpn, NEW permission \in Permissions,
         map(t, vpn, permission),
         NEW i \in Digit, NEW j \in Digit, NEW k \in Digit, indexes(vpn) = <<i, j, k>>
  PROVE  LET r == page_table[t].root_ppn
             p == next_frame(fa)
         IN \E pt, df :
              /\ page_table' = [page_table EXCEPT ![t] = pt]
              /\ data_frames' = [data_frames EXCEPT ![t] = df]
              /\ Becomes(fa', mem, mem', pt, df, rest(t))
              /\ pt.root_ppn = r /\ r # None
              /\ p \notin rest(t) /\ p \notin Range(data_frames[t])
              /\ SameBut(mem, mem', r, i, j, k)
              /\ ~ has_page(mem, r, i, j, k) /\ has_page(mem', r, i, j, k)
              /\ third(mem', r, i, j, k) = [ppn |-> p, flags |-> permission \cup {"V"}]
<1> DEFINE T == page_table[t]
           r == T.root_ppn
           p == next_frame(fa)
           df == insert(data_frames[t], vpn, p)
           e == [ppn |-> p, flags |-> permission \cup {"V"}]
<1>1. /\ IsTable(fa, mem, T, data_frames[t], rest(t))
      /\ rest(t) \in SUBSET Frame /\ mem \in [Frame -> Node]
  BY TableOf
<1>2. PICK w : w = find_pte_create(
                     frame_alloc([fa |-> fa, mem |-> mem, frames |-> T.frames,
                                  at |-> r]), vpn)
  OBVIOUS
<1>3. indexes(vpn)[3] = k
  OBVIOUS
<1>4. /\ r # None /\ usable_frames(fa) >= 3 /\ ~ is_valid(w.mem[w.at][k])
      /\ fa' = w.fa /\ mem' = [w.mem EXCEPT ![w.at][k] = e]
      /\ page_table' = [page_table EXCEPT ![t].frames = w.frames]
      /\ data_frames' = [data_frames EXCEPT ![t] = df]
  <2>1. w = find_pte_create(frame_alloc(start(t)), vpn)
    BY <1>2 DEF start
  <2> HIDE DEF e, df
  <2>2. data_frames' = [data_frames EXCEPT ![t] = df]
    BY DEF map, df
  <2> QED BY <1>3, <2>1, <2>2, Zenon DEF map, exists, e
<1> DEFINE pt == [root_ppn |-> r, frames |-> w.frames]
<1>5. page_table' = [page_table EXCEPT ![t] = pt]
  <2>1. T \in [root_ppn : Frame \cup {None}, frames : Seq(Frame)]
    BY DEF IInv, Typed
  <2>2. [T EXCEPT !.frames = w.frames] = pt
    BY <2>1
  <2>3. page_table' = [page_table EXCEPT ![t] = [T EXCEPT !.frames = w.frames]]
    BY <1>4
  <2> QED BY <2>2, <2>3, Zenon
<1>6. permission \in SUBSET {"R", "W", "X", "U"}
  BY PageTableAssumption
<1> HIDE DEF r, T, p, e
<1>7. MapDone(mem, mem', T, data_frames[t], rest(t), vpn, i, j, k, p, w, e)
  <2>1. MapValues(fa, mem, T, vpn, k, permission, p, w, e, mem')
    BY <1>2, <1>4 DEF r, e, p, MapValues
  <2>2. MapCall(fa, mem, T, data_frames[t], rest(t), vpn, i, j, k, permission, p, w, e, mem')
    BY <1>1, <1>4, <1>6, <2>1 DEF r, MapCall
  <2> QED BY ONLY <2>2, MapTable
<1>8. /\ pt.root_ppn = r /\ Becomes(fa', mem, mem', pt, df, rest(t))
  BY <1>4, <1>7 DEF r, MapDone
<1> HIDE DEF pt, df
<1> QED BY <1>4, <1>5, <1>7, <1>8, Zenon DEF r, p, e, T, MapDone

(* MapArea::unmap_one                                                      *)
LEMMA UnmapEffect ==
  ASSUME IInv, NEW t \in Table, NEW vpn \in Vpn, unmap(t, vpn),
         NEW i \in Digit, NEW j \in Digit, NEW k \in Digit, indexes(vpn) = <<i, j, k>>
  PROVE  LET r == page_table[t].root_ppn
         IN \E pt, df :
              /\ page_table' = [page_table EXCEPT ![t] = pt]
              /\ data_frames' = [data_frames EXCEPT ![t] = df]
              /\ Becomes(fa', mem, mem', pt, df, rest(t))
              /\ pt.root_ppn = r /\ r # None
              /\ SameBut(mem, mem', r, i, j, k)
              /\ has_page(mem, r, i, j, k) /\ ~ has_page(mem', r, i, j, k)
<1> DEFINE T == page_table[t]
           D == data_frames[t]
           r == T.root_ppn
           df == Restrict(D, DOMAIN D \ {vpn})
<1>1. /\ IsTable(fa, mem, T, D, rest(t))
      /\ rest(t) \in SUBSET Frame /\ mem \in [Frame -> Node]
  BY TableOf
<1>2. PICK w : w = find_pte_create([fa |-> fa, mem |-> mem, frames |-> T.frames,
                                    at |-> r], vpn)
  OBVIOUS
<1>3. indexes(vpn)[3] = k
  OBVIOUS
<1>4. /\ r # None /\ vpn \in DOMAIN D
      /\ fa' = dealloc(w.fa, D[vpn]) /\ mem' = [w.mem EXCEPT ![w.at][k] = empty]
      /\ page_table' = [page_table EXCEPT ![t].frames = w.frames]
      /\ data_frames' = [data_frames EXCEPT ![t] = df]
  <2>1. w = find_pte_create(start(t), vpn)
    BY <1>2 DEF start
  <2> HIDE DEF df
  <2>2. data_frames' = [data_frames EXCEPT ![t] = df]
    BY DEF unmap, df
  <2> QED BY <1>3, <2>1, <2>2, Zenon DEF unmap, exists
<1> DEFINE pt == [root_ppn |-> r, frames |-> w.frames]
<1>5. page_table' = [page_table EXCEPT ![t] = pt]
  <2>1. T \in [root_ppn : Frame \cup {None}, frames : Seq(Frame)]
    BY DEF IInv, Typed
  <2>2. [T EXCEPT !.frames = w.frames] = pt
    BY <2>1
  <2>3. page_table' = [page_table EXCEPT ![t] = [T EXCEPT !.frames = w.frames]]
    BY <1>4
  <2> QED BY <2>2, <2>3, Zenon
<1> HIDE DEF r, T, D
<1>6. UnmapDone(mem, mem', T, D, rest(t), vpn, i, j, k, w)
  <2>1. UnmapValues(fa, mem, T, vpn, k, w, mem')
    BY <1>2, <1>4 DEF r, UnmapValues
  <2>2. UnmapCall(fa, mem, T, D, rest(t), vpn, i, j, k, w, mem')
    BY <1>1, <1>4, <2>1 DEF r, UnmapCall
  <2> QED BY ONLY <2>2, UnmapTable
<1>7. /\ pt.root_ppn = r /\ Becomes(fa', mem, mem', pt, df, rest(t))
  BY <1>4, <1>6 DEF r, UnmapDone
<1> HIDE DEF pt, df
<1> QED BY <1>4, <1>5, <1>6, <1>7, Zenon DEF r, T, UnmapDone

(* A store of a program.                                                   *)
LEMMA StoreEffect ==
  ASSUME IInv, NEW t \in Table, NEW vpn \in Vpn, NEW d \in Digit, store(t, vpn, d)
  PROVE  /\ page_table' = [page_table EXCEPT ![t] = page_table[t]]
         /\ data_frames' = [data_frames EXCEPT ![t] = data_frames[t]]
         /\ Becomes(fa', mem, mem', page_table[t], data_frames[t], rest(t))
         /\ SamePages(mem, mem', page_table[t].root_ppn)
<1> DEFINE T == page_table[t]
           r == T.root_ppn
<1>1. /\ IsTable(fa, mem, T, data_frames[t], rest(t))
      /\ rest(t) \in SUBSET Frame /\ mem \in [Frame -> Node]
  BY TableOf
<1>2. PICK i \in Digit, j \in Digit, k \in Digit : indexes(vpn) = <<i, j, k>>
  BY PageIndexes
<1>3. /\ r # None /\ maps(t, vpn)
      /\ mem' = [mem EXCEPT ![find_pte(t, vpn).ppn][d] = [ppn |-> 0, flags |-> {"V", "R", "W"}]]
      /\ fa' = fa /\ page_table' = page_table /\ data_frames' = data_frames
  BY DEF store, exists
<1>4. has_page(mem, r, i, j, k) /\ find_pte(t, vpn) = third(mem, r, i, j, k)
  <2>1. /\ find_pte(t, vpn) = IF has_leaf(mem, r, i, j) THEN third(mem, r, i, j, k)
                              ELSE Missing
        /\ maps(t, vpn) <=> has_page(mem, r, i, j, k)
    BY ONLY <1>2, FindPte
  <2> QED BY <1>3, <2>1 DEF has_page
<1>5. /\ page_table' = [page_table EXCEPT ![t] = page_table[t]]
      /\ data_frames' = [data_frames EXCEPT ![t] = data_frames[t]]
  BY <1>3 DEF IInv, Typed
<1>6. StoreCall(fa, mem, T, data_frames[t], rest(t), i, j, k,
                third(mem, r, i, j, k).ppn, d, mem')
  BY <1>1, <1>2, <1>3, <1>4 DEF StoreCall
<1> HIDE DEF T
<1>7. Becomes(fa, mem, mem', T, data_frames[t], rest(t)) /\ SamePages(mem, mem', r)
  BY ONLY <1>6, StoreTable
<1> QED BY <1>3, <1>5, <1>7, Zenon DEF T

-----------------------------------------------------------------------------
(* The mappings.                                                           *)

(* The entry of a page in a table with root r, and those of all pages.     *)
mapped(m, r, vpn) ==
  r # None /\ has_page(m, r, indexes(vpn)[1], indexes(vpn)[2], indexes(vpn)[3])
entry(m, r, vpn) == third(m, r, indexes(vpn)[1], indexes(vpn)[2], indexes(vpn)[3])
row(m, r) == [vpn \in Vpn |-> IF mapped(m, r, vpn) THEN entry(m, r, vpn) ELSE empty]

LEMMA Rows == mappings = [t \in Table |-> row(mem, page_table[t].root_ppn)]
<1>1. ASSUME NEW t \in Table, NEW vpn \in Vpn
      PROVE  (IF mapped(mem, page_table[t].root_ppn, vpn)
              THEN entry(mem, page_table[t].root_ppn, vpn) ELSE empty)
             = (IF exists(t) /\ maps(t, vpn) THEN find_pte(t, vpn) ELSE empty)
  <2>1. PICK i \in Digit, j \in Digit, k \in Digit : indexes(vpn) = <<i, j, k>>
    BY PageIndexes
  <2> DEFINE r == page_table[t].root_ppn
  <2>2. /\ find_pte(t, vpn) = IF has_leaf(mem, r, i, j) THEN third(mem, r, i, j, k)
                              ELSE Missing
        /\ maps(t, vpn) <=> has_page(mem, r, i, j, k)
    BY ONLY <2>1, FindPte
  <2>3. indexes(vpn)[1] = i /\ indexes(vpn)[2] = j /\ indexes(vpn)[3] = k
    BY <2>1
  <2>4. /\ mapped(mem, r, vpn) <=> exists(t) /\ has_page(mem, r, i, j, k)
        /\ entry(mem, r, vpn) = third(mem, r, i, j, k)
    BY <2>3 DEF mapped, entry, exists
  <2> HIDE DEF r
  <2>5. has_page(mem, r, i, j, k) => has_leaf(mem, r, i, j)
    BY DEF has_page
  <2>6. (IF mapped(mem, r, vpn) THEN entry(mem, r, vpn) ELSE empty)
        = (IF exists(t) /\ maps(t, vpn) THEN find_pte(t, vpn) ELSE empty)
    BY ONLY <2>2, <2>4, <2>5, Zenon
  <2> QED BY <2>6, Zenon DEF r
<1> QED BY <1>1, Zenon DEF mappings, row

LEMMA RowsAfter == (mappings = [t \in Table |-> row(mem, page_table[t].root_ppn)])'
  BY Rows, PTL

(* Rows of memories with the same mappings.                                *)
LEMMA SameRow ==
  ASSUME NEW m, NEW m2, NEW r, SamePages(m, m2, r)
  PROVE  row(m2, r) = row(m, r)
<1>1. \A vpn \in Vpn : indexes(vpn)[1] \in Digit /\ indexes(vpn)[2] \in Digit
                       /\ indexes(vpn)[3] \in Digit
  BY PageIndexes
<1>2. \A vpn \in Vpn : /\ mapped(m2, r, vpn) <=> mapped(m, r, vpn)
                       /\ mapped(m, r, vpn) => entry(m2, r, vpn) = entry(m, r, vpn)
  BY <1>1 DEF SamePages, mapped, entry
<1> QED BY <1>2 DEF row

(* A table without pages.                                                  *)
LEMMA EmptyRow ==
  ASSUME NEW m, NEW r, r = None \/ \A x, y, z \in Digit : ~ has_page(m, r, x, y, z)
  PROVE  row(m, r) = [vpn \in Vpn |-> empty]
<1>1. \A vpn \in Vpn : indexes(vpn)[1] \in Digit /\ indexes(vpn)[2] \in Digit
                       /\ indexes(vpn)[3] \in Digit
  BY PageIndexes
<1>2. \A vpn \in Vpn : ~ mapped(m, r, vpn)
  BY <1>1 DEF mapped
<1> QED BY <1>2 DEF row

(* Rows of memories that differ in one page.                               *)
LEMMA ChangedRow ==
  ASSUME NEW m, NEW m2, NEW r, r # None, NEW vpn \in Vpn,
         NEW i \in Digit, NEW j \in Digit, NEW k \in Digit, indexes(vpn) = <<i, j, k>>,
         SameBut(m, m2, r, i, j, k)
  PROVE  /\ row(m2, r) = [row(m, r) EXCEPT ![vpn] = row(m2, r)[vpn]]
         /\ row(m, r)[vpn] = IF has_page(m, r, i, j, k) THEN third(m, r, i, j, k) ELSE empty
         /\ row(m2, r)[vpn] = IF has_page(m2, r, i, j, k) THEN third(m2, r, i, j, k) ELSE empty
<1>1. ASSUME NEW v \in Vpn, v # vpn
      PROVE  row(m2, r)[v] = row(m, r)[v]
  <2>1. PICK x \in Digit, y \in Digit, z \in Digit : indexes(v) = <<x, y, z>>
    BY PageIndexes
  <2>2. indexes(v) # indexes(vpn)
    BY <1>1, PageTableAssumption
  <2>3. x # i \/ y # j \/ z # k
    BY <2>1, <2>2
  <2>4. indexes(v)[1] = x /\ indexes(v)[2] = y /\ indexes(v)[3] = z
    BY <2>1
  <2>5. /\ has_page(m2, r, x, y, z) <=> has_page(m, r, x, y, z)
        /\ has_page(m, r, x, y, z) => third(m2, r, x, y, z) = third(m, r, x, y, z)
    BY <2>3 DEF SameBut
  <2> QED BY <1>1, <2>4, <2>5 DEF row, mapped, entry
<1>2. indexes(vpn)[1] = i /\ indexes(vpn)[2] = j /\ indexes(vpn)[3] = k
  OBVIOUS
<1>3. /\ row(m, r)[vpn] = IF has_page(m, r, i, j, k) THEN third(m, r, i, j, k) ELSE empty
      /\ row(m2, r)[vpn] = IF has_page(m2, r, i, j, k) THEN third(m2, r, i, j, k) ELSE empty
  BY <1>2 DEF row, mapped, entry
<1>4. row(m, r) = [v \in Vpn |-> row(m, r)[v]] /\ row(m2, r) = [v \in Vpn |-> row(m2, r)[v]]
  BY DEF row
<1>5. row(m2, r) = [row(m, r) EXCEPT ![vpn] = row(m2, r)[vpn]]
  BY ONLY <1>1, <1>4, vpn \in Vpn
<1> QED BY <1>3, <1>5

(* A step on one table changes its row only.                               *)
LEMMA MappingsStep ==
  ASSUME IInv, NEW t \in Table, NEW pt, NEW df,
         page_table' = [page_table EXCEPT ![t] = pt],
         Becomes(fa', mem, mem', pt, df, rest(t))
  PROVE  mappings' = [mappings EXCEPT ![t] = row(mem', pt.root_ppn)]
<1>1. /\ page_table'[t] = pt
      /\ \A u \in Table \ {t} : page_table'[u] = page_table[u]
  BY DEF IInv, Typed
<1>2. ASSUME NEW u \in Table \ {t}
      PROVE  row(mem', page_table[u].root_ppn) = row(mem, page_table[u].root_ppn)
  <2> DEFINE r == page_table[u].root_ppn
  <2>1. CASE r = None
    BY <2>1, EmptyRow
  <2>2. CASE r # None
    <3>1. Tree(mem, r, nodes(u)) /\ Leaves(mem, r, data_frames[u])
      BY <2>2 DEF IInv, TablesAreTrees, exists
    <3>2. \A n \in nodes(u) : mem'[n] = mem[n]
      BY SMTT(30) DEF Becomes, rest, owned
    <3>3. \A vpn \in DOMAIN data_frames[u] : indexes(vpn) \in Digit \X Digit \X Digit
      BY VpnIndexes, Zenon DEF IInv, Typed
    <3> HIDE DEF r
    <3>4. SamePages(mem, mem', r)
      BY ONLY <3>1, <3>2, <3>3, TreeLocal
    <3>5. row(mem', r) = row(mem, r)
      BY ONLY <3>4, SameRow
    <3> QED BY <3>5 DEF r
  <2> QED BY <2>1, <2>2
<1>3. /\ mappings'[t] = row(mem', pt.root_ppn)
      /\ \A u \in Table \ {t} : mappings'[u] = mappings[u]
      /\ mappings = [u \in Table |-> mappings[u]] /\ mappings' = [u \in Table |-> mappings'[u]]
  <2>1. mappings = [u \in Table |-> row(mem, page_table[u].root_ppn)]
    BY Rows
  <2>2. mappings' = [u \in Table |-> row(mem', page_table'[u].root_ppn)]
    BY RowsAfter
  <2> QED BY <1>1, <1>2, <2>1, <2>2, SMTT(30)
<1> QED BY ONLY <1>3, t \in Table

LEMMA InitRefines == Init => Map!Init
<1> SUFFICES ASSUME Init
             PROVE  Map!Init
  OBVIOUS
<1>1. \A t \in Table : page_table[t].root_ppn = None
  BY DEF Init, NoTable
<1>2. \A t \in Table : row(mem, page_table[t].root_ppn) = [vpn \in Vpn |-> empty]
  BY <1>1, EmptyRow
<1> QED BY <1>2, Rows DEF Map!Init, Map!Nothing

LEMMA NewRefines ==
  ASSUME IInv, NEW t \in Table, new(t)
  PROVE  mappings' = mappings
<1>1. PICK pt : /\ page_table' = [page_table EXCEPT ![t] = pt]
                /\ Becomes(fa', mem, mem', pt, data_frames[t], rest(t))
                /\ page_table[t].root_ppn = None
                /\ \A x, y, z \in Digit : ~ has_page(mem', pt.root_ppn, x, y, z)
  BY NewEffect
<1>2. mappings' = [mappings EXCEPT ![t] = row(mem', pt.root_ppn)]
  BY <1>1, MappingsStep, Zenon
<1>3. row(mem', pt.root_ppn) = [vpn \in Vpn |-> empty]
  BY ONLY <1>1, EmptyRow
<1>4. row(mem, page_table[t].root_ppn) = [vpn \in Vpn |-> empty]
  BY ONLY <1>1, EmptyRow
<1> QED BY <1>2, <1>3, <1>4, Rows

LEMMA StoreRefines ==
  ASSUME IInv, NEW t \in Table, NEW vpn \in Vpn, NEW d \in Digit, store(t, vpn, d)
  PROVE  mappings' = mappings
<1>1. /\ page_table' = [page_table EXCEPT ![t] = page_table[t]]
      /\ Becomes(fa', mem, mem', page_table[t], data_frames[t], rest(t))
      /\ SamePages(mem, mem', page_table[t].root_ppn)
  BY StoreEffect
<1>2. mappings' = [mappings EXCEPT ![t] = row(mem', page_table[t].root_ppn)]
  BY <1>1, MappingsStep, Zenon
<1>3. row(mem', page_table[t].root_ppn) = row(mem, page_table[t].root_ppn)
  BY ONLY <1>1, SameRow
<1> QED BY <1>2, <1>3, Rows

LEMMA UnmapRefines ==
  ASSUME IInv, NEW t \in Table, NEW vpn \in Vpn, unmap(t, vpn)
  PROVE  Map!Unmap(t, vpn)
<1> DEFINE r == page_table[t].root_ppn
<1>1. PICK i \in Digit, j \in Digit, k \in Digit : indexes(vpn) = <<i, j, k>>
  BY PageIndexes
<1>2. PICK pt, df : /\ page_table' = [page_table EXCEPT ![t] = pt]
                    /\ Becomes(fa', mem, mem', pt, df, rest(t))
                    /\ pt.root_ppn = r /\ r # None
                    /\ SameBut(mem, mem', r, i, j, k)
                    /\ has_page(mem, r, i, j, k) /\ ~ has_page(mem', r, i, j, k)
  BY <1>1, UnmapEffect, SMTT(30)
<1>3. mappings' = [mappings EXCEPT ![t] = row(mem', pt.root_ppn)]
  BY <1>2, MappingsStep, Zenon
<1>4. mappings[t] = row(mem, r)
  BY Rows
<1> HIDE DEF r
<1>5. /\ row(mem', r) = [row(mem, r) EXCEPT ![vpn] = row(mem', r)[vpn]]
      /\ row(mem, r)[vpn] = IF has_page(mem, r, i, j, k) THEN third(mem, r, i, j, k) ELSE empty
      /\ row(mem', r)[vpn] =
           IF has_page(mem', r, i, j, k) THEN third(mem', r, i, j, k) ELSE empty
  BY ONLY <1>1, <1>2, vpn \in Vpn, ChangedRow
<1>6. row(mem, r)[vpn] # empty /\ row(mem', r)[vpn] = empty
  <2>1. is_valid(third(mem, r, i, j, k)) /\ ~ is_valid(empty)
    BY <1>2, DigitFacts DEF has_page
  <2> QED BY <1>2, <1>5, <2>1
<1>7. mappings' = [mappings EXCEPT ![t] = [mappings[t] EXCEPT ![vpn] = empty]]
  BY <1>2, <1>3, <1>4, <1>5, <1>6, Zenon
<1> QED BY <1>4, <1>6, <1>7 DEF Map!Unmap

(* The leaves of a table lead to its data frames.                          *)
LEMMA LeafFrames ==
  ASSUME NEW m, NEW r, NEW df, Leaves(m, r, df), Pages(df), NEW x
  PROVE  x \in Range(df) <=>
           \E i, j, k \in Digit : has_page(m, r, i, j, k) /\ x = third(m, r, i, j, k).ppn
<1>1. \A vpn \in DOMAIN df : \E i, j, k \in Digit : indexes(vpn) = <<i, j, k>>
  BY PageIndexes DEF Pages
<1>2. ASSUME NEW vpn \in DOMAIN df, NEW i \in Digit, NEW j \in Digit, NEW k \in Digit,
             indexes(vpn) = <<i, j, k>>
      PROVE  has_page(m, r, i, j, k) /\ third(m, r, i, j, k).ppn = df[vpn]
  BY <1>2, SMTT(30) DEF Leaves
<1>3. \A i, j, k \in Digit : has_page(m, r, i, j, k) =>
        \E vpn \in DOMAIN df : indexes(vpn) = <<i, j, k>>
  BY DEF Leaves
<1>4. x \in Range(df) <=> \E vpn \in DOMAIN df : x = df[vpn]
  BY DEF Range
<1> QED BY ONLY <1>1, <1>2, <1>3, <1>4

(* The frames of mapped pages are data frames.                             *)
LEMMA MappedFrames ==
  ASSUME IInv, NEW u \in Table, NEW v \in Vpn, mappings[u][v] # empty
  PROVE  mappings[u][v].ppn \in data(u)
<1> DEFINE r == page_table[u].root_ppn
<1>1. PICK i \in Digit, j \in Digit, k \in Digit : indexes(v) = <<i, j, k>>
  BY PageIndexes
<1>2. mappings[u][v] = IF mapped(mem, r, v) THEN entry(mem, r, v) ELSE empty
  BY Rows DEF row
<1>3. /\ r # None /\ has_page(mem, r, i, j, k)
      /\ mappings[u][v] = third(mem, r, i, j, k)
  <2>1. indexes(v)[1] = i /\ indexes(v)[2] = j /\ indexes(v)[3] = k
    BY <1>1
  <2> QED BY <1>2, <2>1 DEF mapped, entry
<1>4. Leaves(mem, r, data_frames[u]) /\ Pages(data_frames[u])
  BY <1>3 DEF IInv, TablesAreTrees, exists, Typed, FramesOwnedOnce, Pages
<1> QED BY <1>3, <1>4, LeafFrames, SMTT(30) DEF data

LEMMA MapRefines ==
  ASSUME IInv, NEW t \in Table, NEW vpn \in Vpn, NEW permission \in Permissions,
         map(t, vpn, permission)
  PROVE  Map!Map(t, vpn)
<1> DEFINE r == page_table[t].root_ppn
           p == next_frame(fa)
           e == [ppn |-> p, flags |-> permission \cup {"V"}]
<1>1. PICK i \in Digit, j \in Digit, k \in Digit : indexes(vpn) = <<i, j, k>>
  BY PageIndexes
<1>2. PICK pt, df : /\ page_table' = [page_table EXCEPT ![t] = pt]
                    /\ Becomes(fa', mem, mem', pt, df, rest(t))
                    /\ pt.root_ppn = r /\ r # None
                    /\ p \notin rest(t) /\ p \notin Range(data_frames[t])
                    /\ SameBut(mem, mem', r, i, j, k)
                    /\ ~ has_page(mem, r, i, j, k) /\ has_page(mem', r, i, j, k)
                    /\ third(mem', r, i, j, k) = e
  BY <1>1, MapEffect, SMTT(30)
<1>3. mappings' = [mappings EXCEPT ![t] = row(mem', pt.root_ppn)]
  BY <1>2, MappingsStep, Zenon
<1>4. mappings[t] = row(mem, r) /\ mappings = [u \in Table |-> mappings[u]]
  BY Rows
<1>5. e.ppn = p /\ e.flags = permission \cup {"V"}
  OBVIOUS
<1> HIDE DEF r, e, p
<1>6. /\ row(mem', r) = [row(mem, r) EXCEPT ![vpn] = row(mem', r)[vpn]]
      /\ row(mem, r)[vpn] = IF has_page(mem, r, i, j, k) THEN third(mem, r, i, j, k) ELSE empty
      /\ row(mem', r)[vpn] =
           IF has_page(mem', r, i, j, k) THEN third(mem', r, i, j, k) ELSE empty
  BY ONLY <1>1, <1>2, vpn \in Vpn, ChangedRow
<1>7. /\ mappings[t][vpn] = empty
      /\ mappings' = [mappings EXCEPT ![t] = [mappings[t] EXCEPT ![vpn] = e]]
      /\ row(mem', r)[vpn] = e
  BY <1>2, <1>3, <1>4, <1>6, Zenon
<1>8. mappings'[t] = row(mem', r)
  BY ONLY <1>2, <1>3, <1>4, t \in Table
<1>9. mappings'[t][vpn] = e
  BY <1>7, <1>8, Zenon
<1>10. \A s \in Table, v \in Vpn : mappings[s][v] # empty => mappings[s][v].ppn # p
  <2> SUFFICES ASSUME NEW s \in Table, NEW v \in Vpn, mappings[s][v] # empty
               PROVE  mappings[s][v].ppn # p
    OBVIOUS
  <2>1. mappings[s][v].ppn \in data(s)
    BY MappedFrames
  <2>2. CASE s = t
    BY <1>2, <2>1, <2>2, Zenon DEF data
  <2>3. CASE s # t
    BY <1>2, <2>1, <2>3, Zenon DEF rest, owned
  <2> QED BY <2>2, <2>3
<1>11. e.flags \in {q \cup {"V"} : q \in Permissions}
  BY <1>5
<1>12. mappings' = [mappings EXCEPT ![t][vpn] = mappings'[t][vpn]]
  BY <1>7, <1>9, Zenon
<1> QED BY <1>5, <1>7, <1>9, <1>10, <1>11, <1>12, SMTT(30) DEF Map!Map

-----------------------------------------------------------------------------
(* The data frames in the order of their pages.                            *)

INSTANCE FiniteSetTheorems

Increasing(s) == \A k, l \in DOMAIN s : k < l => s[k] < s[l]

(* Every finite set of natural numbers can be enumerated in order.         *)
LEMMA Enumeration ==
  ASSUME NEW S \in SUBSET Nat, IsFiniteSet(S)
  PROVE  \E s \in [1 .. Cardinality(S) -> S] : Increasing(s)
<1> DEFINE Good(T) == \E s \in [1 .. Cardinality(T) -> T] : Increasing(s)
           Bad == {n \in Nat : \E T \in SUBSET Nat :
                     IsFiniteSet(T) /\ Cardinality(T) = n /\ ~ Good(T)}
<1> SUFFICES ASSUME ~ Good(S)
             PROVE  FALSE
  OBVIOUS
<1>1. Cardinality(S) \in Bad
  BY FS_CardinalityType
<1>2. PICK n \in Bad : \A l \in Bad : n <= l
  <2>1. Bad \in SUBSET Nat /\ Bad # {}
    BY <1>1
  <2> HIDE DEF Bad
  <2> QED BY <2>1, LeastElement
<1>3. PICK T \in SUBSET Nat : IsFiniteSet(T) /\ Cardinality(T) = n /\ ~ Good(T)
  OBVIOUS
<1>4. T # {}
  <2>1. ASSUME T = {} PROVE FALSE
    <3>1. Cardinality(T) = 0
      BY <2>1, FS_EmptySet
    <3>2. [x \in {} |-> 0] \in [1 .. 0 -> {}] /\ Increasing([x \in {} |-> 0])
      BY DEF Increasing
    <3> QED BY <1>3, <2>1, <3>1, <3>2, Zenon
  <2> QED BY <2>1
<1>5. PICK x \in T : \A y \in T : x <= y
  BY <1>4, LeastElement
<1>6. /\ IsFiniteSet(T \ {x}) /\ Cardinality(T \ {x}) = n - 1
      /\ n \in Nat \ {0} /\ n - 1 \in Nat
  <2>1. IsFiniteSet(T \ {x}) /\ Cardinality(T \ {x}) = n - 1
    BY <1>3, FS_RemoveElement
  <2>2. n - 1 \in Nat /\ n \in Nat
    BY <2>1, FS_CardinalityType
  <2> QED BY <2>1, <2>2, SMTT(30)
<1>7. Good(T \ {x})
  <2>1. n - 1 \notin Bad
    BY <1>2, <1>6, SMTT(30)
  <2>2. T \ {x} \in SUBSET Nat
    OBVIOUS
  <2> QED BY <1>6, <2>1, <2>2, Zenon
<1>8. PICK s \in [1 .. n - 1 -> T \ {x}] : Increasing(s)
  BY <1>6, <1>7, Zenon
<1> DEFINE u == [k \in 1 .. n |-> IF k = 1 THEN x ELSE s[k - 1]]
<1>9. \A k \in 1 .. n : k # 1 => k - 1 \in 1 .. n - 1
  BY <1>6, SMTT(30)
<1>10. u \in [1 .. n -> T]
  BY <1>8, <1>9
<1>11. \A k \in 1 .. n : k # 1 => u[k] = s[k - 1] /\ u[k] \in T /\ u[k] # x
  BY <1>8, <1>9
<1>12. u[1] = x /\ DOMAIN u = 1 .. n
  BY <1>6, SMTT(30)
<1> HIDE DEF u
<1>13. Increasing(u)
  <2> SUFFICES ASSUME NEW k \in 1 .. n, NEW l \in 1 .. n, k < l
               PROVE  u[k] < u[l]
    BY <1>12 DEF Increasing
  <2>1. l # 1 /\ u[l] = s[l - 1] /\ u[l] \in T /\ u[l] # x /\ l - 1 \in 1 .. n - 1
    BY <1>9, <1>11, SMTT(30)
  <2>2. CASE k = 1
    <3>1. x \in Nat /\ u[l] \in Nat /\ x <= u[l] /\ u[l] # x
      BY <1>5, <2>1, Zenon
    <3> QED BY <1>12, <2>2, <3>1, SMTT(30)
  <2>3. CASE k # 1
    <3>1. u[k] = s[k - 1] /\ k - 1 \in 1 .. n - 1 /\ k - 1 < l - 1
      BY <1>9, <1>11, <2>3, SMTT(30)
    <3>2. DOMAIN s = 1 .. n - 1
      BY <1>8
    <3> QED BY <1>8, <2>1, <3>1, <3>2 DEF Increasing
  <2> QED BY <2>2, <2>3
<1> QED BY <1>3, <1>10, <1>13

LEMMA InOrder ==
  ASSUME NEW df, Pages(df)
  PROVE  /\ in_order(df) \in Seq(Frame) /\ IsInjective(in_order(df))
         /\ Range(in_order(df)) = Range(df)
<1> DEFINE S == DOMAIN df
           n == Cardinality(S)
           vpns == CHOOSE s \in [1 .. n -> S] : \A k, l \in DOMAIN s : k < l => s[k] < s[l]
<1>1. S \in SUBSET Nat /\ IsFiniteSet(S) /\ n \in Nat
  <2>1. df \in Injection(S, Frame)
    BY DEF Pages, Injection, IsInjective
  <2>2. IsFiniteSet(Frame)
    BY FrameFacts, FS_Interval, SMTT(30)
  <2>3. IsFiniteSet(S)
    BY <2>1, <2>2, FS_Injection
  <2> QED BY <2>3, PageTableAssumption, FS_CardinalityType DEF Pages
<1>2. vpns \in [1 .. n -> S] /\ Increasing(vpns)
  <2>1. \E s \in [1 .. n -> S] : \A k, l \in DOMAIN s : k < l => s[k] < s[l]
    BY <1>1, Enumeration DEF Increasing
  <2> QED BY <2>1, Zenon DEF Increasing
<1>3. in_order(df) = [k \in DOMAIN vpns |-> df[vpns[k]]]
  BY DEF in_order
<1> HIDE DEF vpns, n, S
<1>4. \A k, l \in 1 .. n : vpns[k] = vpns[l] => k = l
  <2> SUFFICES ASSUME NEW k \in 1 .. n, NEW l \in 1 .. n, vpns[k] = vpns[l], k # l
               PROVE  FALSE
    OBVIOUS
  <2>1. k < l \/ l < k
    BY <1>1, SMTT(30)
  <2>2. vpns[k] \in Nat /\ DOMAIN vpns = 1 .. n
    BY <1>1, <1>2, Zenon
  <2>3. vpns[k] < vpns[l] \/ vpns[l] < vpns[k]
    BY <1>2, <2>1, <2>2 DEF Increasing
  <2> QED BY <2>2, <2>3, SMTT(30)
<1>5. vpns \in Injection(1 .. n, S)
  BY <1>2, <1>4 DEF Injection, IsInjective
<1>6. vpns \in Surjection(1 .. n, S)
  <2>1. Cardinality(1 .. n) = n
    BY <1>1, FS_Interval, SMTT(30)
  <2> QED BY <1>1, <1>5, <2>1, FS_Injection DEF n
<1>7. \A v \in S : \E k \in 1 .. n : vpns[k] = v
  BY <1>6 DEF Surjection
<1>8. /\ DOMAIN vpns = 1 .. n
      /\ df \in [S -> Frame]
      /\ \A u, v \in S : df[u] = df[v] => u = v
  BY <1>2 DEF Pages, S, IsInjective
<1> DEFINE o == [k \in 1 .. n |-> df[vpns[k]]]
<1>9. o \in [1 .. n -> Frame] /\ DOMAIN o = 1 .. n
  BY <1>2, <1>8
<1>10. IsInjective(o)
  BY <1>2, <1>4, <1>8, SMTT(30) DEF IsInjective
<1>11. Range(o) = Range(df)
  <2>1. \A x : x \in Range(o) <=> \E k \in 1 .. n : x = df[vpns[k]]
    BY <1>9 DEF Range
  <2>2. \A x : x \in Range(df) <=> \E v \in S : x = df[v]
    BY DEF Range, S
  <2>3. \A k \in 1 .. n : vpns[k] \in S
    BY <1>2
  <2> HIDE DEF o
  <2>4. \A x : x \in Range(o) <=> x \in Range(df)
    BY ONLY <1>7, <2>1, <2>2, <2>3
  <2> QED BY <2>4
<1>12. o \in Seq(Frame)
  BY <1>1, <1>9, SMTT(30)
<1> QED BY <1>3, <1>8, <1>10, <1>11, <1>12, Zenon

(* Dropping the table and its areas.                                       *)
LEMMA DropTable ==
  ASSUME NEW f, NEW m \in [Frame -> Node], NEW pt, NEW df, NEW U, IsTable(f, m, pt, df, U)
  PROVE  Becomes(dealloc_all(f, pt.frames \o in_order(df)), m, m, NoTable, no_frames, U)
<1> DEFINE N == Range(pt.frames)
           D == Range(df)
           ppns == pt.frames \o in_order(df)
<1>1. /\ Accounts(f, U \cup (N \cup D)) /\ N \cap D = {} /\ U \cap (N \cup D) = {}
      /\ pt.frames \in Seq(Frame) /\ IsInjective(pt.frames) /\ Pages(df)
  BY TableFacts, Zenon DEF IsTable
<1>2. in_order(df) \in Seq(Frame) /\ IsInjective(in_order(df)) /\ Range(in_order(df)) = D
  BY <1>1, InOrder
<1>3. ppns \in Seq(Frame) /\ Range(ppns) = N \cup D /\ IsInjective(ppns)
  BY <1>1, <1>2, ConcatRange, SMTT(30)
<1>4. Accounts(dealloc_all(f, ppns), U)
  <2> HIDE DEF ppns, N, D
  <2>1. Accounts(dealloc_all(f, ppns), (U \cup (N \cup D)) \ (N \cup D))
    <3> DEFINE used == U \cup (N \cup D)
    <3>1. Range(ppns) \subseteq used
      BY <1>3
    <3>2. Accounts(f, used)
      BY <1>1
    <3> HIDE DEF used
    <3>3. Accounts(dealloc_all(f, ppns), used \ Range(ppns))
      BY <1>3, <3>1, <3>2, DeallocAccounts
    <3> QED BY <1>3, <3>3 DEF used
  <2>2. (U \cup (N \cup D)) \ (N \cup D) = U
    BY <1>1
  <2> QED BY <2>1, <2>2
<1>5. /\ NoTable \in [root_ppn : Frame \cup {None}, frames : Seq(Frame)]
      /\ NoTable.root_ppn = None /\ NoTable.frames = <<>>
  BY EmptySeqFacts DEF NoTable
<1>6. Range(<<>>) = {} /\ IsInjective(<<>>)
  BY EmptySeqFacts DEF Range, IsInjective
<1>7. /\ DOMAIN no_frames = {} /\ Range(no_frames) = {} /\ IsInjective(no_frames)
      /\ no_frames \in [DOMAIN no_frames -> Frame]
  BY DEF no_frames, Range, IsInjective
<1>8. U \cup ({} \cup {}) = U
  OBVIOUS
<1> HIDE DEF ppns
<1>9. IsTable(dealloc_all(f, ppns), m, NoTable, no_frames, U)
  BY <1>4, <1>5, <1>6, <1>7, <1>8, Zenon DEF IsTable
<1> QED BY <1>9 DEF ppns, Becomes

(* Dropping a table.                                                       *)
LEMMA DropEffect ==
  ASSUME IInv, NEW t \in Table, drop(t)
  PROVE  /\ page_table' = [page_table EXCEPT ![t] = NoTable]
         /\ data_frames' = [data_frames EXCEPT ![t] = no_frames]
         /\ mem' = mem
         /\ Becomes(fa', mem, mem', NoTable, no_frames, rest(t))
<1>1. /\ IsTable(fa, mem, page_table[t], data_frames[t], rest(t))
      /\ mem \in [Frame -> Node]
  BY TableOf
<1>2. Becomes(dealloc_all(fa, page_table[t].frames \o in_order(data_frames[t])), mem, mem,
              NoTable, no_frames, rest(t))
  BY ONLY <1>1, DropTable
<1> QED BY <1>1, <1>2 DEF drop

(* Every step keeps the inductive invariant.                               *)
LEMMA NextIInv == IInv /\ [Next]_vars => IInv'
<1> SUFFICES ASSUME IInv, [Next]_vars
             PROVE  IInv'
  OBVIOUS
<1>1. CASE UNCHANGED vars
  <2>1. fa' = fa /\ mem' = mem /\ page_table' = page_table /\ data_frames' = data_frames
    BY <1>1 DEF vars
  <2>2. Typed'
    BY <2>1 DEF IInv, Typed
  <2>3. FramesOwnedOnce'
    BY <2>1, Zenon DEF IInv, FramesOwnedOnce, in_use, owned, nodes, data
  <2>4. TablesAreTrees'
    BY <2>1 DEF IInv, TablesAreTrees, nodes, exists
  <2> QED BY <2>2, <2>3, <2>4 DEF IInv
<1>2. CASE Next
  <2>1. PICK t \in Table :
          \/ new(t)
          \/ drop(t)
          \/ \E vpn \in Vpn :
               \/ \E permission \in Permissions : map(t, vpn, permission)
               \/ unmap(t, vpn)
               \/ \E d \in Digit : store(t, vpn, d)
    BY <1>2 DEF Next, Digit
  <2>2. CASE new(t)
    <3>1. PICK pt : /\ page_table' = [page_table EXCEPT ![t] = pt]
                    /\ data_frames' = [data_frames EXCEPT ![t] = data_frames[t]]
                    /\ Becomes(fa', mem, mem', pt, data_frames[t], rest(t))
      BY <2>2, NewEffect
    <3> QED BY <3>1, TableStep, Zenon
  <2>3. CASE drop(t)
    BY <2>3, DropEffect, TableStep
  <2>4. ASSUME NEW vpn \in Vpn, NEW permission \in Permissions, map(t, vpn, permission)
        PROVE  IInv'
    <3>1. PICK i \in Digit, j \in Digit, k \in Digit : indexes(vpn) = <<i, j, k>>
      BY PageIndexes
    <3>2. PICK pt, df : /\ page_table' = [page_table EXCEPT ![t] = pt]
                        /\ data_frames' = [data_frames EXCEPT ![t] = df]
                        /\ Becomes(fa', mem, mem', pt, df, rest(t))
      BY <2>4, <3>1, MapEffect, Zenon
    <3> QED BY <3>2, TableStep, Zenon
  <2>5. ASSUME NEW vpn \in Vpn, unmap(t, vpn)
        PROVE  IInv'
    <3>1. PICK i \in Digit, j \in Digit, k \in Digit : indexes(vpn) = <<i, j, k>>
      BY PageIndexes
    <3>2. PICK pt, df : /\ page_table' = [page_table EXCEPT ![t] = pt]
                        /\ data_frames' = [data_frames EXCEPT ![t] = df]
                        /\ Becomes(fa', mem, mem', pt, df, rest(t))
      BY <2>5, <3>1, UnmapEffect
    <3> QED BY <3>2, TableStep, Zenon
  <2>6. ASSUME NEW vpn \in Vpn, NEW d \in Digit, store(t, vpn, d)
        PROVE  IInv'
    BY <2>6, StoreEffect, TableStep
  <2> QED BY <2>1, <2>2, <2>3, <2>4, <2>5, <2>6
<1> QED BY <1>1, <1>2

(* In every reachable state the frames of the tables are trees, whose      *)
(* leaves are the mapped pages, and every frame has one owner.             *)
THEOREM Invariance == Spec => []IInv
  BY InitIInv, NextIInv, PTL DEF Spec

LEMMA DropRefines ==
  ASSUME IInv, NEW t \in Table, drop(t)
  PROVE  Map!Drop(t)
<1>1. /\ page_table' = [page_table EXCEPT ![t] = NoTable]
      /\ Becomes(fa', mem, mem', NoTable, no_frames, rest(t))
  BY DropEffect
<1>2. mappings' = [mappings EXCEPT ![t] = row(mem', NoTable.root_ppn)]
  BY <1>1, MappingsStep, Zenon
<1>3. NoTable.root_ppn = None
  BY DEF NoTable
<1>4. row(mem', NoTable.root_ppn) = [vpn \in Vpn |-> empty]
  BY ONLY <1>3, EmptyRow
<1> QED BY <1>2, <1>4 DEF Map!Drop, Map!Nothing

LEMMA NextRefines == IInv /\ [Next]_vars => [Map!Next]_mappings
<1> SUFFICES ASSUME IInv, [Next]_vars
             PROVE  Map!Next \/ mappings' = mappings
  BY Zenon
<1>1. CASE UNCHANGED vars
  BY <1>1, SMTT(30) DEF vars, mappings, exists, maps, find_pte
<1>2. CASE Next
  <2>1. PICK t \in Table :
          \/ new(t)
          \/ drop(t)
          \/ \E vpn \in Vpn :
               \/ \E permission \in Permissions : map(t, vpn, permission)
               \/ unmap(t, vpn)
               \/ \E d \in Digit : store(t, vpn, d)
    BY <1>2 DEF Next, Digit
  <2>2. CASE new(t)
    BY <2>2, NewRefines
  <2>3. CASE drop(t)
    BY <2>3, DropRefines DEF Map!Next
  <2>4. ASSUME NEW vpn \in Vpn, NEW permission \in Permissions, map(t, vpn, permission)
        PROVE  Map!Next
    BY <2>4, MapRefines DEF Map!Next
  <2>5. ASSUME NEW vpn \in Vpn, unmap(t, vpn)
        PROVE  Map!Next
    BY <2>5, UnmapRefines DEF Map!Next
  <2>6. ASSUME NEW vpn \in Vpn, NEW d \in Digit, store(t, vpn, d)
        PROVE  mappings' = mappings
    BY <2>6, StoreRefines
  <2> QED BY <2>1, <2>2, <2>3, <2>4, <2>5, <2>6
<1> QED BY <1>1, <1>2

(* The nodes in memory implement PageMap: find_pte_create, PageTable::map, *)
(* unmap and the frames that come and go change the mapping of the page    *)
(* they are about and no other one, whatever the frames held before.       *)
THEOREM TablesImplementMaps == Spec => MapSpec
  BY InitRefines, NextRefines, Invariance, PTL DEF Spec, MapSpec, Map!Spec

-----------------------------------------------------------------------------
(* What walks reach.                                                       *)

LEMMA Below ==
  ASSUME NEW S, NEW x
  PROVE  x \in below(S) <=> \E n \in S, d \in Digit : is_valid(mem[n][d]) /\ x = mem[n][d].ppn
  BY SMTT(30) DEF below, children, Digit

LEMMA Levels ==
  ASSUME NEW r
  PROVE  /\ \A x : x \in below({r}) <=>
              \E i \in Digit : has_mid(mem, r, i) /\ x = first(mem, r, i).ppn
         /\ \A x : x \in below(below({r})) <=>
              \E i, j \in Digit : has_leaf(mem, r, i, j) /\ x = second(mem, r, i, j).ppn
         /\ \A x : x \in below(below(below({r}))) <=>
              \E i, j, k \in Digit :
                has_page(mem, r, i, j, k) /\ x = third(mem, r, i, j, k).ppn
<1>1. \A x : x \in below({r}) <=>
        \E i \in Digit : has_mid(mem, r, i) /\ x = first(mem, r, i).ppn
  BY Below, SMTT(30) DEF has_mid, first
<1>2. \A x : x \in below(below({r})) <=>
        \E i, j \in Digit : has_leaf(mem, r, i, j) /\ x = second(mem, r, i, j).ppn
  <2>1. PICK S : S = below({r})
    OBVIOUS
  <2>2. \A x : x \in below(S) <=>
          \E n \in S, j \in Digit : is_valid(mem[n][j]) /\ x = mem[n][j].ppn
    BY Below, SMTT(30)
  <2>3. \A n : n \in S <=> \E i \in Digit : has_mid(mem, r, i) /\ n = first(mem, r, i).ppn
    BY <1>1, <2>1
  <2>4. \A x : x \in below(S) <=>
          \E i, j \in Digit : has_leaf(mem, r, i, j) /\ x = second(mem, r, i, j).ppn
    BY ONLY <2>2, <2>3, SecondEntry DEF has_leaf
  <2> QED BY <2>1, <2>4, Zenon
<1>3. \A x : x \in below(below(below({r}))) <=>
        \E i, j, k \in Digit : has_page(mem, r, i, j, k) /\ x = third(mem, r, i, j, k).ppn
  <2>1. PICK S : S = below(below({r}))
    OBVIOUS
  <2>2. \A x : x \in below(S) <=>
          \E n \in S, k \in Digit : is_valid(mem[n][k]) /\ x = mem[n][k].ppn
    BY Below, SMTT(30)
  <2>3. \A n : n \in S <=>
          \E i, j \in Digit : has_leaf(mem, r, i, j) /\ n = second(mem, r, i, j).ppn
    BY <1>2, <2>1, Zenon
  <2>4. \A x : x \in below(S) <=>
          \E i, j, k \in Digit : has_page(mem, r, i, j, k) /\ x = third(mem, r, i, j, k).ppn
    BY ONLY <2>2, <2>3, ThirdEntry DEF has_page
  <2> QED BY <2>1, <2>4, Zenon
<1> QED BY <1>1, <1>2, <1>3, Zenon

(* What walks reach.                                                       *)

LEMMA TreeOwnedStep == IInv => TreeOwned
<1> SUFFICES ASSUME IInv, NEW t \in Table, exists(t)
             PROVE  LET root == {page_table[t].root_ppn}
                        N == root \cup below(root) \cup below(below(root))
                    IN /\ N = Range(page_table[t].frames)
                       /\ IsInjective(page_table[t].frames)
                       /\ N \cap Range(fa.recycled) = {}
                       /\ below(below(below(root))) = Range(data_frames[t])
  BY Zenon DEF TreeOwned
<1> DEFINE r == page_table[t].root_ppn
           N == Range(page_table[t].frames)
           df == data_frames[t]
<1>1. /\ Tree(mem, r, N) /\ Leaves(mem, r, df)
      /\ IsInjective(page_table[t].frames)
      /\ Pages(df)
  BY Zenon DEF IInv, TablesAreTrees, FramesOwnedOnce, Typed, nodes, Pages
<1>2. N \cap Range(fa.recycled) = {}
  BY SMTT(30) DEF IInv, FramesOwnedOnce, Accounts, in_use, owned, nodes
<1> HIDE DEF r, N, df
<1>3. {r} \cup below({r}) \cup below(below({r})) = N
  <2>1. PICK S1, S2 : S1 = below({r}) /\ S2 = below(below({r}))
    OBVIOUS
  <2>2. /\ \A x : x \in S1 <=> \E i \in Digit : has_mid(mem, r, i) /\ x = first(mem, r, i).ppn
        /\ \A x : x \in S2 <=>
             \E i, j \in Digit : has_leaf(mem, r, i, j) /\ x = second(mem, r, i, j).ppn
    BY ONLY <2>1, Levels
  <2>3. Tree(mem, r, N)
    BY <1>1
  <2>4. \A x : x \in {r} \cup S1 \cup S2 <=> x \in N
    BY ONLY <2>2, <2>3 DEF Tree
  <2> QED BY ONLY <2>1, <2>4
<1>4. below(below(below({r}))) = Range(df)
  <2>1. PICK S3 : S3 = below(below(below({r})))
    OBVIOUS
  <2>2. \A x : x \in S3 <=>
          \E i, j, k \in Digit : has_page(mem, r, i, j, k) /\ x = third(mem, r, i, j, k).ppn
    BY ONLY <2>1, Levels
  <2>3. \A x : x \in Range(df) <=>
          \E i, j, k \in Digit : has_page(mem, r, i, j, k) /\ x = third(mem, r, i, j, k).ppn
    BY <1>1, LeafFrames, SMTT(30)
  <2>4. \A x : x \in S3 <=> x \in Range(df)
    BY ONLY <2>2, <2>3
  <2> QED BY ONLY <2>1, <2>4
<1> QED BY <1>1, <1>2, <1>3, <1>4 DEF r, N, df

(* In every reachable state, with any number of tables and frames and any  *)
(* fanout, a table consists of exactly the frames that PageTable.frames    *)
(* keeps, each at one place, and its leaves lead to exactly the frames of  *)
(* its areas: find_pte and find_pte_create never read a recycled frame.    *)
THEOREM TablesOwnTheirFrames == Spec => []TreeOwned
  BY Invariance, TreeOwnedStep, PTL

-----------------------------------------------------------------------------
(* The bytes of buffers.                                                   *)

LEMMA DivMod ==
  ASSUME NEW d \in Nat \ {0}, NEW n \in Nat
  PROVE  \E q \in Nat, b \in 0 .. d - 1 :
           q = n \div d /\ b = n % d /\ n = q * d + b
<1>1. n \div d \in Nat
  OBVIOUS
<1>2. n % d \in 0 .. d - 1
  OBVIOUS
<1>3. PICK q \in Nat, b \in 0 .. d - 1 : q = n \div d /\ b = n % d
  BY <1>1, <1>2
<1>4. n = q * d + b
  BY <1>3, SMTT(30)
<1> QED BY <1>3, <1>4, Zenon

LEMMA Quotient ==
  ASSUME NEW d \in Nat \ {0}, NEW n \in Nat, NEW q \in Nat, NEW b \in 0 .. d - 1,
         n = q * d + b
  PROVE  n \div d = q /\ n % d = b
<1>2. PICK p \in Nat, c \in 0 .. d - 1 : p = n \div d /\ c = n % d /\ n = p * d + c
  BY DivMod
<1>3. ASSUME p < q PROVE FALSE
  <2>1. (p + 1) * d <= q * d
    BY <1>3
  <2>2. (p + 1) * d = p * d + d /\ p * d \in Nat /\ q * d \in Nat
    OBVIOUS
  <2> QED BY <1>2, <2>1, <2>2, SMTT(30)
<1>4. ASSUME q < p PROVE FALSE
  <2>1. (q + 1) * d <= p * d
    BY <1>4, SMTT(30)
  <2>2. (q + 1) * d = q * d + d /\ p * d \in Nat /\ q * d \in Nat
    OBVIOUS
  <2> QED BY <1>2, <2>1, <2>2
<1>5. p = q
  BY <1>3, <1>4, SMTT(30)
<1>6. p * d \in Nat
  OBVIOUS
<1> QED BY <1>2, <1>5, <1>6

(* Only the slice with the end of a buffer has bytes, unless it ends with  *)
(* its page: they are bytes of the buffer.                                 *)
SliceByte(P, ptr, len, v, from, to, b) ==
  /\ P \in Nat \ {0} /\ ptr \in Nat /\ len \in Nat \ {0} /\ v \in Nat
  /\ v >= ptr \div P /\ v <= (ptr + len - 1) \div P
  /\ from = (IF ptr > v * P THEN ptr ELSE v * P) % P
  /\ to = (IF (v + 1) * P < ptr + len THEN (v + 1) * P ELSE ptr + len) % P
  /\ b \in from .. to - 1

LEMMA SliceArith ==
  ASSUME NEW P, NEW ptr, NEW len, NEW v, NEW from, NEW to, NEW b,
         SliceByte(P, ptr, len, v, from, to, b)
  PROVE  /\ (ptr + len) \div P = v
         /\ v * P + b \in ptr .. ptr + len - 1
         /\ (v * P + b) \div P = v /\ (v * P + b) % P = b
<1>0. P \in Nat \ {0} /\ ptr \in Nat /\ len \in Nat \ {0} /\ v \in Nat
  BY DEF SliceByte
<1> USE <1>0
<1>1. PICK base \in Nat : base = v * P /\ (v + 1) * P = base + P
  OBVIOUS
<1>2. PICK end \in Nat, last \in Nat : end = ptr + len /\ last = end - 1
  OBVIOUS
<1>3. PICK lo \in Nat, hi \in Nat :
        /\ lo = IF ptr > base THEN ptr ELSE base
        /\ hi = IF base + P < end THEN base + P ELSE end
  <2>1. (IF ptr > base THEN ptr ELSE base) \in Nat
        /\ (IF base + P < end THEN base + P ELSE end) \in Nat
    OBVIOUS
  <2> QED BY <2>1, Zenon
<1>ends. from = lo % P /\ to = hi % P /\ b \in from .. to - 1
  BY <1>1, <1>2, <1>3, Zenon DEF SliceByte
<1>4. base <= last
  <2>1. PICK q \in Nat, c \in 0 .. P - 1 :
          q = last \div P /\ c = last % P /\ last = q * P + c
    BY DivMod, Zenon
  <2>2. v <= q
    BY <1>2, <2>1, SMTT(30) DEF SliceByte
  <2>3. q * P \in Nat /\ v * P <= q * P
    BY <2>2
  <2> QED BY <1>1, <2>1, <2>3, SMTT(30)
<1>5. /\ from \in Nat /\ to \in Nat /\ to > 0 /\ to < P
      /\ b \in Nat /\ b < to /\ b >= from
  <2>1. \A n \in Nat : n % P \in 0 .. P - 1
    OBVIOUS
  <2>2. from \in 0 .. P - 1 /\ to \in 0 .. P - 1
    BY <1>ends, <2>1, Zenon
  <2> QED BY <1>ends, <2>2, SMTT(30)
<1>6. (base + P) % P = 0
  <2>1. PICK u \in Nat, n \in Nat : u = v + 1 /\ n = base + P
    OBVIOUS
  <2>2. n = u * P + 0 /\ 0 \in 0 .. P - 1
    BY <1>1, <2>1
  <2>3. n % P = 0
    BY <2>2, Quotient, SMTT(30)
  <2> QED BY <2>1, <2>3
<1>7. end < base + P /\ to = end % P
  <2>1. hi # base + P
    BY <1>5, <1>6, <1>ends, SMTT(30)
  <2>2. hi = end /\ end < base + P
    BY <1>3, <2>1
  <2> QED BY <1>ends, <2>2
<1>8. end \div P = v /\ to = end - base
  <2>1. PICK k \in 0 .. P - 1 : k = end - base
    BY <1>2, <1>4, <1>7, SMTT(30)
  <2>2. end = v * P + k
    BY <1>1, <2>1
  <2>3. end \div P = v /\ end % P = k
    BY <2>2, Quotient, SMTT(30)
  <2> QED BY <1>7, <2>1, <2>3
<1>9. base + b >= ptr
  <2>1. CASE ptr > base
    <3>1. PICK k \in 0 .. P - 1 : k = ptr - base
      BY <1>2, <1>7, <2>1
    <3>2. ptr = v * P + k
      BY <1>1, <3>1, SMTT(30)
    <3>3. from = k
      BY <1>3, <1>ends, <2>1, <3>2, Quotient, SMTT(30)
    <3> QED BY <1>5, <3>1, <3>3, SMTT(30)
  <2>2. CASE ~ (ptr > base)
    BY <1>5, <2>2, SMTT(30)
  <2> QED BY <2>1, <2>2
<1>10. PICK n \in Nat, c \in 0 .. P - 1 : c = b /\ n = base + b
  BY <1>5
<1>11. n \div P = v /\ n % P = c
  <2>1. n = v * P + c
    BY <1>1, <1>10
  <2> QED BY ONLY <2>1, Quotient, n \in Nat, v \in Nat, c \in 0 .. P - 1, P \in Nat \ {0}
<1>12. n \in ptr .. ptr + len - 1
  BY <1>2, <1>5, <1>8, <1>9, <1>10, SMTT(30)
<1> QED BY <1>1, <1>2, <1>8, <1>10, <1>11, <1>12, Zenon

(* Buffers.                                                                *)

LEMMA SlicesOwnedStep == IInv => SlicesOwned
<1> SUFFICES ASSUME IInv, NEW t \in Table, NEW ptr \in Pointers, NEW len \in Lengths,
                    exists(t),
                    virtual_addr_range_writable(t, ptr, len)
                      \/ virtual_addr_range_printable(t, ptr, len),
                    ~ panics(translated_byte_buffer(t, ptr, len)),
                    NEW n \in DOMAIN translated_byte_buffer(t, ptr, len),
                    NEW b \in translated_byte_buffer(t, ptr, len)[n].from
                               .. translated_byte_buffer(t, ptr, len)[n].to - 1
             PROVE  <<translated_byte_buffer(t, ptr, len)[n].ppn, b>>
                      \in UNION {places(t, va) : va \in ptr .. ptr + len - 1}
  BY Zenon DEF SlicesOwned
<1> DEFINE slices == translated_byte_buffer(t, ptr, len)
           vpn == floor(ptr) + n - 1
           pte == find_pte(t, vpn)
           r == page_table[t].root_ppn
           va == vpn * PAGE_SIZE + b
<1>1. ptr \in Nat /\ len \in Nat /\ PAGE_SIZE \in Nat \ {0}
  BY PageTableAssumption
<1>2. len # 0
  BY DEF translated_byte_buffer
<1>3. /\ n \in 1 .. floor(ptr + len - 1) - floor(ptr) + 1
      /\ slices[n] = slice(t, vpn, ptr, len)
  BY <1>2 DEF translated_byte_buffer
<1>4. vpn \in Nat /\ vpn >= floor(ptr) /\ vpn <= floor(ptr + len - 1)
  <2>1. floor(ptr) \in Nat /\ floor(ptr + len - 1) \in Nat
    BY <1>1, <1>2, SMTT(30) DEF floor
  <2> QED BY <1>3, <2>1, SMTT(30)
<1>5. slices[n] # Panic
  BY DEF panics, Range
<1>6. slices[n] = [ppn |-> pte.ppn,
                   from |-> page_offset(greater(ptr, vpn * PAGE_SIZE)),
                   to |-> page_offset(lesser((vpn + 1) * PAGE_SIZE, ptr + len))]
  BY <1>3, <1>5 DEF slice
<1> HIDE DEF slices, vpn, pte
<1>7. /\ slices[n].ppn = pte.ppn
      /\ slices[n].from = (IF ptr > vpn * PAGE_SIZE THEN ptr ELSE vpn * PAGE_SIZE) % PAGE_SIZE
      /\ slices[n].to = (IF (vpn + 1) * PAGE_SIZE < ptr + len THEN (vpn + 1) * PAGE_SIZE
                         ELSE ptr + len) % PAGE_SIZE
  BY <1>6, SMTT(30) DEF page_offset, greater, lesser
<1>8. /\ floor(ptr + len) = vpn /\ va \in ptr .. ptr + len - 1
      /\ floor(va) = vpn /\ page_offset(va) = b
  <2>1. /\ len \in Nat \ {0} /\ b \in slices[n].from .. slices[n].to - 1
        /\ vpn >= ptr \div PAGE_SIZE /\ vpn <= (ptr + len - 1) \div PAGE_SIZE
    BY <1>1, <1>2, <1>4 DEF slices, floor
  <2>2. /\ (ptr + len) \div PAGE_SIZE = vpn
        /\ vpn * PAGE_SIZE + b \in ptr .. ptr + len - 1
        /\ (vpn * PAGE_SIZE + b) \div PAGE_SIZE = vpn
        /\ (vpn * PAGE_SIZE + b) % PAGE_SIZE = b
    <3>1. SliceByte(PAGE_SIZE, ptr, len, vpn, slices[n].from, slices[n].to, b)
      BY <1>1, <1>4, <1>7, <2>1 DEF SliceByte
    <3> QED BY ONLY <3>1, SliceArith
  <2> QED BY <2>2 DEF floor, page_offset
<1> HIDE DEF va
<1>9. is_valid(pte)
  BY <1>8 DEF virtual_addr_range_writable, virtual_addr_range_printable,
              virtual_addr_writable, virtual_addr_printable, pte
<1>10. PICK i \in Digit, j \in Digit, k \in Digit : indexes(vpn) = <<i, j, k>>
  BY <1>4, IndexFacts
<1>11. has_page(mem, r, i, j, k) /\ pte = third(mem, r, i, j, k)
  <2>1. /\ find_pte(t, vpn) = IF has_leaf(mem, r, i, j) THEN third(mem, r, i, j, k)
                              ELSE Missing
        /\ maps(t, vpn) <=> has_page(mem, r, i, j, k)
    BY ONLY <1>10, FindPte
  <2> QED BY <1>9, <2>1 DEF has_page, maps, pte
<1>leaves. Leaves(mem, r, data_frames[t])
  BY Zenon DEF IInv, TablesAreTrees
<1>12. PICK v \in DOMAIN data_frames[t] : indexes(v) = <<i, j, k>>
  BY <1>11, <1>leaves DEF Leaves
<1>13. third(mem, r, i, j, k).ppn = data_frames[t][v]
  <2>1. indexes(v)[1] = i /\ indexes(v)[2] = j /\ indexes(v)[3] = k
    BY <1>12, SMTT(30)
  <2> QED BY ONLY <1>12, <1>leaves, <2>1 DEF Leaves
<1>14. <<data_frames[t][v], b>> \in places(t, va)
  BY <1>8, <1>10, <1>12 DEF places
<1> QED BY <1>7, <1>8, <1>11, <1>13, <1>14 DEF slices

(* For every buffer and page size: what the kernel touches through slices  *)
(* of translated_byte_buffer, after virtual_addr_range_writable or         *)
(* virtual_addr_range_printable has looked at the two ends of the buffer,  *)
(* is a byte of the buffer in a frame that the program owns.               *)
THEOREM BuffersStayInside == Spec => []SlicesOwned
  BY Invariance, SlicesOwnedStep, PTL
=============================================================================
