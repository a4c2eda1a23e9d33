--------------------------- MODULE MemorySetProofs ---------------------------
(***************************************************************************)
(* Proofs about module MemorySet, for every number of frames, processes    *)
(* and pages, every program and every bound on the calls.                  *)
(***************************************************************************)
EXTENDS MemorySet, AddressSpaceLemmas

USE ZenonT(10), SMTT(30)

-----------------------------------------------------------------------------
(* Loops, turn by turn: at[k] is the state after k turns.                  *)

(* MemorySet::unmap                                                        *)
LEMMA UnmapTurns ==
  ASSUME NEW st, NEW start, NEW end, Len(VPNRange(start, end)) \in Nat
  PROVE  \E at : /\ at[0] = st
                 /\ \A k \in 1 .. Len(VPNRange(start, end)) : at[k] = unmap_one(at[k - 1], VPNRange(start, end)[k])
                 /\ unmap(st, start, end) = at[Len(VPNRange(start, end))]
<1> DEFINE s == VPNRange(start, end)
           n == Len(s)
           z == st
           step(x, k) == unmap_one(x, s[k])
           turns(f, m) == f = [k \in 0 .. m |-> IF k = 0 THEN z ELSE step(f[k - 1], k)]
           at[k \in 0 .. Len(VPNRange(start, end))] ==
             IF k = 0 THEN st
             ELSE unmap_one(at[k - 1], VPNRange(start, end)[k])
           P == {m \in 0 .. n : \E f : turns(f, m)}
<1>1. n \in Nat /\ unmap(st, start, end) = at[n]
  BY DEF unmap, for_each
<1>2. ASSUME NEW f, turns(f, n) PROVE turns(at, n)
  BY <1>2, Zenon
<1>3. n = Len(VPNRange(start, end)) /\ z = st /\ \A x, k : step(x, k) = unmap_one(x, VPNRange(start, end)[k])
  OBVIOUS
<1> HIDE DEF at, step, n, z
<1>4. 0 \in P
  <2> DEFINE f == [k \in 0 .. 0 |-> z]
  <2>1. turns(f, 0)
    OBVIOUS
  <2> HIDE DEF f, turns
  <2> QED BY <1>1, <2>1
<1>5. ASSUME NEW m \in 1 .. n, m - 1 \in P PROVE m \in P
  <2>1. PICK f : turns(f, m - 1)
    BY <1>5
  <2>2. /\ m - 1 \in 0 .. m - 1 /\ m - 1 # m /\ m \in 0 .. n
        /\ \A k \in 0 .. m : k # m => k \in 0 .. m - 1 /\ k - 1 # m /\ (k # 0 => k - 1 \in 0 .. m)
    BY <1>1
  <2> DEFINE g == [k \in 0 .. m |-> IF k = m THEN step(f[m - 1], m) ELSE f[k]]
  <2>3. ASSUME NEW k \in 0 .. m PROVE g[k] = IF k = 0 THEN z ELSE step(g[k - 1], k)
    <3>1. k # m => f[k] = IF k = 0 THEN z ELSE step(f[k - 1], k)
      BY <2>1, <2>2, Zenon
    <3> QED BY <2>2, <3>1
  <2>4. turns(g, m)
    BY <2>3
  <2> HIDE DEF g, turns
  <2> QED BY <2>2, <2>4
<1>6. turns(at, n)
  <2> HIDE DEF P, turns
  <2>1. 0 .. n \subseteq P
    BY <1>1, <1>4, <1>5, UpTo, Zenon
  <2> QED BY <1>1, <1>2, <2>1 DEF P
<1>7. at[0] = z /\ \A k \in 1 .. n : at[k] = step(at[k - 1], k)
  BY <1>1, <1>6
<1> QED BY <1>1, <1>3, <1>7

(* The drop of the frames of an area.                                      *)
LEMMA FramesTurns ==
  ASSUME NEW area, Len(pages(area)) \in Nat
  PROVE  \E at : /\ at[0] = <<>>
                 /\ \A k \in 1 .. Len(pages(area)) : at[k] = (IF pages(area)[k] \in DOMAIN area.data_frames THEN Append(at[k - 1], area.data_frames[pages(area)[k]]) ELSE at[k - 1])
                 /\ frames_of(area) = at[Len(pages(area))]
<1> DEFINE s == pages(area)
           n == Len(s)
           z == <<>>
           step(x, k) == (IF s[k] \in DOMAIN area.data_frames THEN Append(x, area.data_frames[s[k]]) ELSE x)
           turns(f, m) == f = [k \in 0 .. m |-> IF k = 0 THEN z ELSE step(f[k - 1], k)]
           at[k \in 0 .. Len(pages(area))] ==
             IF k = 0 THEN <<>>
             ELSE (IF pages(area)[k] \in DOMAIN area.data_frames THEN Append(at[k - 1], area.data_frames[pages(area)[k]]) ELSE at[k - 1])
           P == {m \in 0 .. n : \E f : turns(f, m)}
<1>1. n \in Nat /\ frames_of(area) = at[n]
  BY DEF frames_of, for_each
<1>2. ASSUME NEW f, turns(f, n) PROVE turns(at, n)
  BY <1>2, Zenon
<1>3. n = Len(pages(area)) /\ z = <<>> /\ \A x, k : step(x, k) = (IF pages(area)[k] \in DOMAIN area.data_frames THEN Append(x, area.data_frames[pages(area)[k]]) ELSE x)
  OBVIOUS
<1> HIDE DEF at, step, n, z
<1>4. 0 \in P
  <2> DEFINE f == [k \in 0 .. 0 |-> z]
  <2>1. turns(f, 0)
    OBVIOUS
  <2> HIDE DEF f, turns
  <2> QED BY <1>1, <2>1
<1>5. ASSUME NEW m \in 1 .. n, m - 1 \in P PROVE m \in P
  <2>1. PICK f : turns(f, m - 1)
    BY <1>5
  <2>2. /\ m - 1 \in 0 .. m - 1 /\ m - 1 # m /\ m \in 0 .. n
        /\ \A k \in 0 .. m : k # m => k \in 0 .. m - 1 /\ k - 1 # m /\ (k # 0 => k - 1 \in 0 .. m)
    BY <1>1
  <2> DEFINE g == [k \in 0 .. m |-> IF k = m THEN step(f[m - 1], m) ELSE f[k]]
  <2>3. ASSUME NEW k \in 0 .. m PROVE g[k] = IF k = 0 THEN z ELSE step(g[k - 1], k)
    <3>1. k # m => f[k] = IF k = 0 THEN z ELSE step(f[k - 1], k)
      BY <2>1, <2>2, Zenon
    <3> QED BY <2>2, <3>1
  <2>4. turns(g, m)
    BY <2>3
  <2> HIDE DEF g, turns
  <2> QED BY <2>2, <2>4
<1>6. turns(at, n)
  <2> HIDE DEF P, turns
  <2>1. 0 .. n \subseteq P
    BY <1>1, <1>4, <1>5, UpTo, Zenon
  <2> QED BY <1>1, <1>2, <2>1, SMTT(30) DEF P
<1>7. at[0] = z /\ \A k \in 1 .. n : at[k] = step(at[k - 1], k)
  BY <1>1, <1>6, SMTT(30)
<1> QED BY <1>1, <1>3, <1>7

(* The drop of the areas of an address space.                              *)
LEMMA DataTurns ==
  ASSUME NEW old, Len(old.areas) \in Nat
  PROVE  \E at : /\ at[0] = <<>>
                 /\ \A k \in 1 .. Len(old.areas) : at[k] = at[k - 1] \o frames_of(old.areas[k])
                 /\ data_frames_of(old) = at[Len(old.areas)]
<1> DEFINE s == old.areas
           n == Len(s)
           z == <<>>
           step(x, k) == x \o frames_of(s[k])
           turns(f, m) == f = [k \in 0 .. m |-> IF k = 0 THEN z ELSE step(f[k - 1], k)]
           at[k \in 0 .. Len(old.areas)] ==
             IF k = 0 THEN <<>>
             ELSE at[k - 1] \o frames_of(old.areas[k])
           P == {m \in 0 .. n : \E f : turns(f, m)}
<1>1. n \in Nat /\ data_frames_of(old) = at[n]
  BY DEF data_frames_of, for_each
<1>2. ASSUME NEW f, turns(f, n) PROVE turns(at, n)
  BY <1>2, Zenon
<1>3. n = Len(old.areas) /\ z = <<>> /\ \A x, k : step(x, k) = x \o frames_of(old.areas[k])
  OBVIOUS
<1> HIDE DEF at, step, n, z
<1>4. 0 \in P
  <2> DEFINE f == [k \in 0 .. 0 |-> z]
  <2>1. turns(f, 0)
    OBVIOUS
  <2> HIDE DEF f, turns
  <2> QED BY <1>1, <2>1
<1>5. ASSUME NEW m \in 1 .. n, m - 1 \in P PROVE m \in P
  <2>1. PICK f : turns(f, m - 1)
    BY <1>5
  <2>2. /\ m - 1 \in 0 .. m - 1 /\ m - 1 # m /\ m \in 0 .. n
        /\ \A k \in 0 .. m : k # m => k \in 0 .. m - 1 /\ k - 1 # m /\ (k # 0 => k - 1 \in 0 .. m)
    BY <1>1
  <2> DEFINE g == [k \in 0 .. m |-> IF k = m THEN step(f[m - 1], m) ELSE f[k]]
  <2>3. ASSUME NEW k \in 0 .. m PROVE g[k] = IF k = 0 THEN z ELSE step(g[k - 1], k)
    <3>1. k # m => f[k] = IF k = 0 THEN z ELSE step(f[k - 1], k)
      BY <2>1, <2>2, Zenon
    <3> QED BY <2>2, <3>1
  <2>4. turns(g, m)
    BY <2>3
  <2> HIDE DEF g, turns
  <2> QED BY <2>2, <2>4
<1>6. turns(at, n)
  <2> HIDE DEF P, turns
  <2>1. 0 .. n \subseteq P
    BY <1>1, <1>4, <1>5, UpTo, Zenon
  <2> QED BY <1>1, <1>2, <2>1, SMTT(30) DEF P
<1>7. at[0] = z /\ \A k \in 1 .. n : at[k] = step(at[k - 1], k)
  BY <1>1, <1>6, SMTT(30)
<1> QED BY <1>1, <1>3, <1>7

-----------------------------------------------------------------------------
(* Unmapping pages.                                                        *)

(* The area that MapArea::unmap_one finds, and what it makes of it.        *)
LEMMA UnmapArea ==
  ASSUME NEW area \in Area, NEW vpn
  PROVE  LET frames == area.data_frames
             e == [area EXCEPT !.data_frames = Restrict(frames, DOMAIN frames \ {vpn})]
         IN /\ e \in Area /\ e.start = area.start /\ e.end = area.end
            /\ DOMAIN e.data_frames = DOMAIN frames \ {vpn}
            /\ \A v \in DOMAIN e.data_frames : e.data_frames[v] = frames[v]
<1> DEFINE frames == area.data_frames
           d == Restrict(frames, DOMAIN frames \ {vpn})
           e == [area EXCEPT !.data_frames = d]
<1>1. /\ area.start \in Nat /\ area.end \in Nat
      /\ area.start <= area.end /\ area.end <= TRAMPOLINE
      /\ DOMAIN frames \subseteq area.start .. area.end - 1
      /\ area.start .. area.end - 1 \subseteq Vpn
      /\ \A v \in DOMAIN frames : frames[v] \in Frame
  BY AreaFields
<1>2. /\ d = [v \in DOMAIN frames \ {vpn} |-> frames[v]]
      /\ DOMAIN d = DOMAIN frames \ {vpn}
      /\ \A v \in DOMAIN d : d[v] = frames[v]
  BY DEF Restrict
<1> HIDE DEF d, frames
<1>3. d \in PageMap
  <2>1. d \in [DOMAIN frames \ {vpn} -> Frame]
    BY <1>1, <1>2
  <2>2. DOMAIN frames \ {vpn} \in SUBSET Vpn
    BY <1>1
  <2> QED BY <2>1, <2>2 DEF PageMap
<1>4. e = [start |-> area.start, end |-> area.end, data_frames |-> d]
  BY DEF Area
<1>5. e.start = area.start /\ e.end = area.end /\ e.data_frames = d
  BY <1>4
<1>6. e \in [start : Nat, end : Nat, data_frames : PageMap]
  BY <1>1, <1>3, <1>4
<1> HIDE DEF e
<1>7. e \in Area
  BY <1>1, <1>2, <1>5, <1>6 DEF Area
<1> QED BY <1>2, <1>5, <1>7 DEF e, d, frames

(* What unmap_one does to a page that is mapped.                           *)
Unmaps(st, vpn, i, r) ==
  LET old == st.space.areas
      new == r.space.areas
  IN /\ r \in State /\ r.status = st.status /\ r.stack = st.stack
     /\ i \in DOMAIN old /\ vpn \in DOMAIN old[i].data_frames
     /\ DOMAIN new = DOMAIN old
     /\ \A j \in DOMAIN old \ {i} : new[j] = old[j]
     /\ DOMAIN new[i].data_frames = DOMAIN old[i].data_frames \ {vpn}
     /\ \A v \in DOMAIN new[i].data_frames : new[i].data_frames[v] = old[i].data_frames[v]
     /\ r.space.pte = [st.space.pte EXCEPT ![vpn] = None]
     /\ r.space.tables = st.space.tables
     /\ r.fa = dealloc(st.fa, old[i].data_frames[vpn])

LEMMA UnmapOne ==
  ASSUME NEW st \in State, NEW vpn \in Vpn, st.status = "ok", st.space.pte[vpn] # None,
         Matches(st.space)
  PROVE  \E i : Unmaps(st, vpn, i, unmap_one(st, vpn))
<1> DEFINE s == st.space
           old == s.areas
           i == CHOOSE i \in DOMAIN old : vpn \in DOMAIN old[i].data_frames
           frames == old[i].data_frames
           d == Restrict(frames, DOMAIN frames \ {vpn})
           e == [old[i] EXCEPT !.data_frames = d]
           A == [old EXCEPT ![i] = e]
           pte == [s.pte EXCEPT ![vpn] = None]
           x == frames[vpn]
           f == dealloc(st.fa, x)
           a == [st EXCEPT !.space.areas[i].data_frames = d]
           b == [a EXCEPT !.space.pte[vpn] = None]
           r == unmap_one(st, vpn)
<1>1. /\ old \in Seq(Area) /\ s.pte \in [Vpn -> Frame \cup {None}] /\ s.tables \in Tables
      /\ st.fa \in Allocator /\ st.bytes \in [Frame -> Value]
      /\ st.stack \in Seq(Frame) /\ st.status \in Status /\ s \in Space
  BY StateFields
<1>2. i \in DOMAIN old /\ vpn \in DOMAIN old[i].data_frames
  <2>1. \E j \in DOMAIN old : vpn \in DOMAIN old[j].data_frames
    BY DEF Matches
  <2> QED BY <2>1, Zenon
<1>3. r = [b EXCEPT !.fa = dealloc(b.fa, x)]
  BY SMTT(30) DEF unmap_one
<1>4. a = [st EXCEPT !.space.areas = A]
  BY Zenon
<1> HIDE DEF i, r
<1>5. old[i] \in Area
  BY <1>1, <1>2, SeqFacts
<1>6. /\ e \in Area /\ DOMAIN e.data_frames = DOMAIN frames \ {vpn}
      /\ \A v \in DOMAIN e.data_frames : e.data_frames[v] = frames[v]
  BY <1>5, UnmapArea
<1>7. x \in Frame
  BY <1>2, <1>5, AreaFields
<1> HIDE DEF d, e, frames, x
<1>8. f \in Allocator
  <2>1. Append(st.fa.recycled, x) \in Seq(Frame)
    BY <1>1, <1>7, SMTT(30) DEF Allocator
  <2>2. f = [st.fa EXCEPT !.recycled = Append(st.fa.recycled, x)]
    BY DEF dealloc
  <2> QED BY <1>1, <2>1, <2>2 DEF Allocator
<1>9. /\ A \in Seq(Area) /\ DOMAIN A = DOMAIN old /\ A[i] = e
      /\ \A j \in DOMAIN old \ {i} : A[j] = old[j]
  BY <1>1, <1>2, <1>6, SMTT(30)
<1>10. pte \in [Vpn -> Frame \cup {None}]
  BY <1>1
<1> DEFINE t == [areas |-> A, pte |-> pte, tables |-> s.tables]
<1> HIDE DEF A, a, b
<1>11. r = [fa |-> f, bytes |-> st.bytes, space |-> t, stack |-> st.stack,
            status |-> st.status]
  <2>1. a = [fa |-> st.fa, bytes |-> st.bytes,
             space |-> [areas |-> A, pte |-> s.pte, tables |-> s.tables],
             stack |-> st.stack, status |-> st.status]
    BY <1>4 DEF State, Space
  <2>2. b = [a EXCEPT !.space.pte = pte]
    BY <2>1 DEF b
  <2> HIDE DEF pte
  <2>3. b = [fa |-> st.fa, bytes |-> st.bytes, space |-> t,
             stack |-> st.stack, status |-> st.status]
    BY <2>1, <2>2
  <2> HIDE DEF t
  <2>4. b.fa = st.fa
    BY <2>3
  <2>5. r = [b EXCEPT !.fa = f]
    BY <1>3, <2>4
  <2> HIDE DEF f
  <2> QED BY <2>3, <2>5
<1> HIDE DEF pte, f
<1>12. t \in Space /\ t.areas = A /\ t.pte = pte /\ t.tables = s.tables
  BY <1>1, <1>9, <1>10 DEF Space
<1> HIDE DEF t
<1>13. r \in State
  BY <1>1, <1>8, <1>11, <1>12, StateMade
<1>14. r.fa = f /\ r.space = t /\ r.stack = st.stack /\ r.status = st.status
  BY <1>11
<1>15. Unmaps(st, vpn, i, r)
  BY <1>2, <1>6, <1>9, <1>12, <1>13, <1>14 DEF Unmaps, frames, f, pte, x
<1> QED BY <1>15 DEF r

(* The frame of the page goes back, and nothing else is disturbed.         *)
LEMMA UnmapOneKeeps ==
  ASSUME NEW st \in State, NEW vpn \in Vpn, NEW i, NEW r, Unmaps(st, vpn, i, r),
         st.space.pte[vpn] # None,
         NEW others, Holds(st, others), Matches(st.space)
  PROVE  Holds(r, others) /\ Matches(r.space)
<1> DEFINE s == st.space
           t == r.space
           x == s.pte[vpn]
           D == data(s)
           T == table(s)
           K == Range(st.stack)
           U == others \cup D \cup T \cup K
<1>1. /\ r.stack = st.stack /\ i \in DOMAIN s.areas /\ vpn \in DOMAIN s.areas[i].data_frames
      /\ DOMAIN t.areas = DOMAIN s.areas
      /\ \A j \in DOMAIN s.areas \ {i} : t.areas[j] = s.areas[j]
      /\ DOMAIN t.areas[i].data_frames = DOMAIN s.areas[i].data_frames \ {vpn}
      /\ \A v \in DOMAIN t.areas[i].data_frames :
           t.areas[i].data_frames[v] = s.areas[i].data_frames[v]
      /\ t.pte = [s.pte EXCEPT ![vpn] = None] /\ t.tables = s.tables
      /\ r.fa = dealloc(st.fa, s.areas[i].data_frames[vpn])
  BY DEF Unmaps
<1>2. s.areas[i].data_frames[vpn] = x
  BY <1>1, SMTT(30) DEF Matches
<1>3. s.pte \in [Vpn -> Frame \cup {None}]
  BY StateFields
<1>4. /\ PagesApart(s) /\ IsInjective(table_frames_of(s)) /\ IsInjective(st.stack)
      /\ Apart(st.fa, D, T, K, others)
  BY DEF Holds
<1>5. x \in Frame /\ x \in D
  BY <1>3 DEF data, Range
<1>6. /\ t.pte[vpn] = None /\ DOMAIN t.pte = Vpn
      /\ \A v \in Vpn \ {vpn} : t.pte[v] = s.pte[v]
  BY <1>1, <1>3
<1> HIDE DEF s, t, x
<1>7. data(t) = D \ {x}
  <2>1. ASSUME NEW y \in data(t) PROVE y \in D \ {x}
    <3>1. PICK v \in Vpn : y = t.pte[v]
      BY <1>6 DEF data, Range
    <3>2. y # None
      BY <2>1 DEF data
    <3>3. v # vpn /\ y = s.pte[v]
      BY <1>6, <3>1, <3>2
    <3>4. y # x
      BY <1>4, <3>2, <3>3 DEF PagesApart, x
    <3> QED BY <1>3, <3>2, <3>3, <3>4 DEF data, Range, s
  <2>2. ASSUME NEW y \in D \ {x} PROVE y \in data(t)
    <3>1. PICK v \in Vpn : y = s.pte[v] /\ y # None
      BY <1>3 DEF data, Range, s
    <3>2. v # vpn
      BY <2>2, <3>1 DEF x
    <3> QED BY <1>6, <3>1, <3>2 DEF data, Range
  <2> QED BY <2>1, <2>2
<1>8. table_frames_of(t) = table_frames_of(s)
  BY <1>1 DEF table_frames_of
<1>9. table(t) = T
  BY <1>8 DEF table
<1>10. PagesApart(t)
  BY <1>4, <1>6 DEF PagesApart
<1>11. Accounts(r.fa, U \ {x})
  BY <1>1, <1>2, <1>4, <1>5, DeallocOne, SMTT(30) DEF Apart
<1> HIDE DEF D, T, K
<1>12. others \cup (D \ {x}) \cup T \cup K = U \ {x}
  BY <1>4, <1>5 DEF Apart
<1>13. Apart(r.fa, D \ {x}, T, K, others)
  BY <1>4, <1>11, <1>12 DEF Apart
<1>14. Holds(r, others)
  BY <1>1, <1>4, <1>7, <1>8, <1>9, <1>10, <1>13 DEF Holds, t, s, K
<1>15. Matches(s)
  BY DEF s
<1>16. \A j \in DOMAIN t.areas :
         /\ DOMAIN t.areas[j].data_frames \subseteq DOMAIN s.areas[j].data_frames \ {vpn}
         /\ \A v \in DOMAIN t.areas[j].data_frames :
              t.areas[j].data_frames[v] = s.areas[j].data_frames[v]
  <2>1. ASSUME NEW j \in DOMAIN s.areas \ {i}
        PROVE  t.areas[j] = s.areas[j] /\ vpn \notin DOMAIN s.areas[j].data_frames
    <3>1. DOMAIN s.areas[i].data_frames \cap DOMAIN s.areas[j].data_frames = {}
      BY <1>1, <1>15, <2>1, Zenon DEF Matches
    <3> QED BY <1>1, <3>1
  <2> QED BY <1>1, <2>1, SMTT(30)
<1>17. Matches(t)
  <2>1. ASSUME NEW j \in DOMAIN t.areas, NEW v \in DOMAIN t.areas[j].data_frames
        PROVE  t.pte[v] = t.areas[j].data_frames[v]
    <3>1. v # vpn /\ t.areas[j].data_frames[v] = s.areas[j].data_frames[v]
          /\ v \in DOMAIN s.areas[j].data_frames /\ j \in DOMAIN s.areas
      BY <1>1, <1>16
    <3>2. s.pte[v] = s.areas[j].data_frames[v]
      BY <1>15, <3>1, SMTT(30) DEF Matches
    <3>3. v \in Vpn
      <4>1. s.areas[j] \in Area
        BY <3>1, StateFields, SeqFacts DEF s
      <4> QED BY <3>1, <4>1, AreaFields
    <3> QED BY <1>6, <3>1, <3>2, <3>3
  <2>2. ASSUME NEW j \in DOMAIN t.areas, NEW k \in DOMAIN t.areas,
               DOMAIN t.areas[j].data_frames \cap DOMAIN t.areas[k].data_frames # {}
        PROVE  j = k
    <3>1. DOMAIN s.areas[j].data_frames \cap DOMAIN s.areas[k].data_frames # {}
      BY <1>16, <2>2
    <3> QED BY <1>1, <1>15, <3>1, Zenon DEF Matches
  <2>3. ASSUME NEW v \in Vpn, t.pte[v] # None
        PROVE  \E j \in DOMAIN t.areas : v \in DOMAIN t.areas[j].data_frames
    <3>1. v # vpn /\ s.pte[v] # None
      BY <1>6, <2>3
    <3>2. PICK j \in DOMAIN s.areas : v \in DOMAIN s.areas[j].data_frames
      BY <1>15, <3>1 DEF Matches
    <3>3. v \in DOMAIN t.areas[j].data_frames
      BY <1>1, <3>1, <3>2
    <3> QED BY <1>1, <3>3
  <2> QED BY <2>1, <2>2, <2>3, Zenon DEF Matches
<1> QED BY <1>14, <1>17 DEF t

(* MemorySet::unmap of pages that are mapped.                              *)
LEMMA Unmap ==
  ASSUME NEW st \in State, st.status = "ok", NEW start \in Nat, NEW end \in Nat,
         start <= end, end <= TRAMPOLINE,
         \A v \in start .. end - 1 : st.space.pte[v] # None,
         NEW others, Holds(st, others), Matches(st.space),
         NEW r, r = unmap(st, start, end)
  PROVE  /\ r \in State /\ r.status = "ok" /\ r.stack = st.stack
         /\ Holds(r, others) /\ Matches(r.space)
<1> DEFINE n == end - start
           V == VPNRange(start, end)
<1>1. /\ n \in Nat /\ Len(V) = n
      /\ \A k \in 1 .. n : V[k] = start + k - 1 /\ V[k] \in start .. end - 1
  BY RangePages
<1>2. start .. end - 1 \subseteq Vpn
  BY SpaceAssumption DEF Vpn, TRAMPOLINE
<1> HIDE DEF n, V
<1>3. PICK at : /\ at[0] = st
                /\ \A k \in 1 .. n : at[k] = unmap_one(at[k - 1], V[k])
                /\ r = at[n]
  <2>1. Len(V) \in Nat
    BY <1>1
  <2>2. PICK at : /\ at[0] = st
                  /\ \A k \in 1 .. Len(V) : at[k] = unmap_one(at[k - 1], V[k])
                  /\ unmap(st, start, end) = at[Len(V)]
    BY <2>1, UnmapTurns, SMTT(30) DEF V
  <2> QED BY <1>1, <2>2
<1> DEFINE Good(k) ==
             /\ at[k] \in State /\ at[k].status = "ok" /\ at[k].stack = st.stack
             /\ Holds(at[k], others) /\ Matches(at[k].space)
             /\ \A v \in start .. end - 1 : v >= start + k => at[k].space.pte[v] # None
           P == {k \in 0 .. n : Good(k)}
<1>4. 0 \in P
  <2>1. Good(0)
    BY <1>3
  <2> HIDE DEF Good
  <2> QED BY <1>1, <2>1
<1>5. ASSUME NEW k \in 1 .. n, k - 1 \in P PROVE k \in P
  <2> DEFINE a == at[k - 1]
             b == at[k]
             vpn == start + k - 1
  <2>1. /\ a \in State /\ a.status = "ok" /\ a.stack = st.stack
        /\ Holds(a, others) /\ Matches(a.space)
        /\ \A v \in start .. end - 1 : v >= start + (k - 1) => a.space.pte[v] # None
    BY <1>5
  <2>2. b = unmap_one(a, vpn) /\ vpn \in start .. end - 1
    BY <1>1, <1>3
  <2>3. vpn \in Vpn /\ a.space.pte[vpn] # None
    BY <1>1, <1>2, <2>1, <2>2, SMTT(30)
  <2> HIDE DEF a, b
  <2>4. PICK i : Unmaps(a, vpn, i, b)
    BY <2>1, <2>2, <2>3, UnmapOne
  <2>5. Holds(b, others) /\ Matches(b.space)
    BY <2>1, <2>3, <2>4, UnmapOneKeeps
  <2>6. /\ b \in State /\ b.status = "ok" /\ b.stack = st.stack
        /\ b.space.pte = [a.space.pte EXCEPT ![vpn] = None]
    BY <2>1, <2>4 DEF Unmaps
  <2>7. ASSUME NEW v \in start .. end - 1, v >= start + k PROVE b.space.pte[v] # None
    <3>1. v # vpn /\ v >= start + (k - 1)
      BY <1>1, <2>7
    <3>2. a.space.pte \in [Vpn -> Frame \cup {None}] /\ v \in Vpn
      BY <1>2, <2>1, StateFields
    <3>3. b.space.pte[v] = a.space.pte[v]
      BY <2>6, <3>1, <3>2
    <3> QED BY <2>1, <3>1, <3>3
  <2>8. Good(k)
    BY <2>5, <2>6, <2>7 DEF b
  <2> HIDE DEF Good
  <2> QED BY <1>1, <2>8, SMTT(30)
<1>6. Good(n)
  <2> HIDE DEF P
  <2>1. 0 .. n \subseteq P
    BY <1>1, <1>4, <1>5, UpTo
  <2>2. n \in P
    BY <1>1, <2>1, SMTT(30)
  <2> QED BY <2>2 DEF P
<1> QED BY <1>3, <1>6

-----------------------------------------------------------------------------
(* Dropping address spaces.                                                *)

(* The frames of an area, once each.                                       *)
LEMMA FramesOf ==
  ASSUME NEW area \in Area,
         \A v, w \in DOMAIN area.data_frames :
           area.data_frames[v] = area.data_frames[w] => v = w
  PROVE  /\ frames_of(area) \in Seq(Frame) /\ IsInjective(frames_of(area))
         /\ Range(frames_of(area)) = {area.data_frames[v] : v \in DOMAIN area.data_frames}
<1> DEFINE n == area.end - area.start
           start == area.start
           d == area.data_frames
           V == pages(area)
           got(k) == {d[v] : v \in {w \in DOMAIN d : w < start + k}}
<1>1. /\ start \in Nat /\ area.end \in Nat /\ start <= area.end
      /\ DOMAIN d \subseteq start .. area.end - 1
      /\ \A v \in DOMAIN d : d[v] \in Frame
  BY AreaFields
<1>2. /\ n \in Nat /\ Len(V) = n /\ \A k \in 1 .. n : V[k] = start + k - 1
  BY <1>1, RangePages DEF pages
<1>3. PICK at : /\ at[0] = <<>>
                /\ \A k \in 1 .. n : at[k] = (IF V[k] \in DOMAIN d
                                              THEN Append(at[k - 1], d[V[k]]) ELSE at[k - 1])
                /\ frames_of(area) = at[n]
  BY <1>2, FramesTurns
<1>4. start + n = area.end
  BY <1>1
<1>5. \A v, w \in DOMAIN d : d[v] = d[w] => v = w
  OBVIOUS
<1> HIDE DEF n, V, d, start
<1> DEFINE Good(k) == /\ at[k] \in Seq(Frame) /\ IsInjective(at[k])
                      /\ Range(at[k]) = got(k)
           P == {k \in 0 .. n : Good(k)}
<1>6. 0 \in P
  <2>1. got(0) = {}
    BY <1>1, SMTT(30)
  <2>2. Good(0)
    BY <1>3, <2>1, EmptySeqFacts
  <2> HIDE DEF Good
  <2> QED BY <1>2, <2>2, SMTT(30)
<1>7. ASSUME NEW k \in 1 .. n, k - 1 \in P PROVE k \in P
  <2> DEFINE v == start + k - 1
             a == at[k - 1]
  <2>1. a \in Seq(Frame) /\ IsInjective(a) /\ Range(a) = got(k - 1)
    BY <1>7
  <2>2. at[k] = IF v \in DOMAIN d THEN Append(a, d[v]) ELSE a
    BY <1>2, <1>3
  <2>3. \A w \in DOMAIN d : w < start + k <=> w < start + (k - 1) \/ w = v
    BY <1>1, <1>2, SMTT(30)
  <2>4. ~ (v < start + (k - 1))
    BY <1>1, <1>2, SMTT(30)
  <2> HIDE DEF a, v
  <2>5. CASE v \in DOMAIN d
    <3>1. got(k) = got(k - 1) \cup {d[v]}
      BY <2>3, <2>5
    <3>2. d[v] \notin got(k - 1)
      BY <1>5, <2>4, <2>5
    <3>3. d[v] \in Frame
      BY <1>1, <2>5
    <3>4. at[k] = Append(a, d[v])
      BY <2>2, <2>5
    <3> HIDE DEF got
    <3>5. Good(k)
      BY <2>1, <3>1, <3>2, <3>3, <3>4, AppendRange, SMTT(30)
    <3> QED BY <1>2, <3>5, SMTT(30)
  <2>6. CASE v \notin DOMAIN d
    <3>1. got(k) = got(k - 1)
      BY <2>3, <2>6
    <3> HIDE DEF got
    <3> QED BY <1>2, <2>1, <2>2, <2>6, <3>1, SMTT(30)
  <2> QED BY <2>5, <2>6
<1>8. Good(n)
  <2> HIDE DEF P
  <2>1. 0 .. n \subseteq P
    BY <1>2, <1>6, <1>7, UpTo
  <2>2. n \in P
    BY <1>2, <2>1, SMTT(30)
  <2> QED BY <2>2 DEF P
<1>9. got(n) = {d[v] : v \in DOMAIN d}
  <2>1. \A v \in DOMAIN d : v < start + n
    BY <1>1, <1>4
  <2> QED BY <2>1
<1> QED BY <1>3, <1>8, <1>9 DEF d

(* The frames of an address space whose page table matches its areas.      *)
LEMMA DataFramesOf ==
  ASSUME NEW s \in Space, PagesApart(s), Matches(s)
  PROVE  /\ data_frames_of(s) \in Seq(Frame) /\ IsInjective(data_frames_of(s))
         /\ Range(data_frames_of(s)) = data(s)
<1> DEFINE n == Len(s.areas)
           dom(i) == DOMAIN s.areas[i].data_frames
           pte == s.pte
           got(k) == {pte[v] : v \in {w \in Vpn : \E i \in 1 .. k : w \in dom(i)}}
<1>1. /\ n \in Nat /\ DOMAIN s.areas = 1 .. n /\ \A i \in 1 .. n : s.areas[i] \in Area
  BY SeqFacts DEF Space
<1>2. pte \in [Vpn -> Frame \cup {None}]
  BY DEF Space
<1>3. \A i \in 1 .. n : \A v \in dom(i) :
        v \in Vpn /\ pte[v] = s.areas[i].data_frames[v] /\ pte[v] \in Frame /\ pte[v] # None
  <2>1. ASSUME NEW i \in 1 .. n, NEW v \in dom(i)
        PROVE  v \in Vpn /\ pte[v] = s.areas[i].data_frames[v] /\ pte[v] \in Frame
    <3>1. pte[v] = s.areas[i].data_frames[v]
      BY <1>1 DEF Matches
    <3>2. v \in Vpn /\ s.areas[i].data_frames[v] \in Frame
      BY <1>1, AreaFields
    <3> QED BY <3>1, <3>2
  <2>2. None \notin Frame
    BY FramesAssumption DEF None, Frame
  <2> QED BY <2>1, <2>2
<1>4. \A v, w \in Vpn : pte[v] # None /\ pte[v] = pte[w] => v = w
  BY DEF PagesApart
<1>5. \A i, j \in 1 .. n : dom(i) \cap dom(j) # {} => i = j
  BY <1>1, Zenon DEF Matches
<1>6. \A v \in Vpn : pte[v] # None => \E i \in 1 .. n : v \in dom(i)
  BY <1>1 DEF Matches
<1>7. PICK at : /\ at[0] = <<>>
                /\ \A k \in 1 .. n : at[k] = at[k - 1] \o frames_of(s.areas[k])
                /\ data_frames_of(s) = at[n]
  BY <1>1, DataTurns
<1>8. ASSUME NEW i \in 1 .. n
      PROVE  /\ frames_of(s.areas[i]) \in Seq(Frame) /\ IsInjective(frames_of(s.areas[i]))
             /\ Range(frames_of(s.areas[i])) = {pte[v] : v \in dom(i)}
  <2> DEFINE d == s.areas[i].data_frames
  <2>1. \A v, w \in DOMAIN d : d[v] = d[w] => v = w
    BY <1>3, <1>4
  <2>2. /\ frames_of(s.areas[i]) \in Seq(Frame) /\ IsInjective(frames_of(s.areas[i]))
        /\ Range(frames_of(s.areas[i])) = {d[v] : v \in DOMAIN d}
    BY <1>1, <2>1, FramesOf
  <2>3. {d[v] : v \in DOMAIN d} = {pte[v] : v \in DOMAIN d}
    BY <1>3
  <2> QED BY <2>2, <2>3
<1> HIDE DEF n, dom, pte
<1> DEFINE Good(k) == /\ at[k] \in Seq(Frame) /\ IsInjective(at[k])
                      /\ Range(at[k]) = got(k)
           P == {k \in 0 .. n : Good(k)}
<1>9. 0 \in P
  <2>1. got(0) = {}
    <3>1. 1 .. 0 = {}
      OBVIOUS
    <3> QED BY <3>1
  <2>2. Good(0)
    BY <1>7, <2>1, EmptySeqFacts
  <2> HIDE DEF Good
  <2> QED BY <1>1, <2>2, SMTT(30)
<1>10. ASSUME NEW k \in 1 .. n, k - 1 \in P PROVE k \in P
  <2> DEFINE a == at[k - 1]
             c == frames_of(s.areas[k])
             D == {pte[v] : v \in dom(k)}
  <2>1. a \in Seq(Frame) /\ IsInjective(a) /\ Range(a) = got(k - 1)
    BY <1>10
  <2>2. c \in Seq(Frame) /\ IsInjective(c) /\ Range(c) = D
    BY <1>8
  <2>3. at[k] = a \o c
    BY <1>7
  <2>4. \A i : i \in 1 .. k <=> i \in 1 .. k - 1 \/ i = k
    BY <1>1, SMTT(30)
  <2>5. \A i \in 1 .. k - 1 : i \in 1 .. n /\ i # k
    BY <1>1
  <2> HIDE DEF a, c
  <2>6. got(k) = got(k - 1) \cup D
    BY <1>3, <2>4
  <2>7. got(k - 1) \cap D = {}
    <3> SUFFICES ASSUME NEW x \in got(k - 1), x \in D PROVE FALSE
      OBVIOUS
    <3>1. PICK v \in Vpn, i \in 1 .. k - 1 : v \in dom(i) /\ x = pte[v]
      OBVIOUS
    <3>2. PICK w \in dom(k) : x = pte[w]
      OBVIOUS
    <3>3. v = w
      BY <1>3, <1>4, <2>5, <3>1, <3>2
    <3>4. i = k
      BY <1>5, <2>5, <3>1, <3>2, <3>3, Zenon
    <3> QED BY <2>5, <3>4
  <2> HIDE DEF got, D
  <2>8. Good(k)
    BY <2>1, <2>2, <2>3, <2>6, <2>7, ConcatRange, SMTT(30)
  <2> QED BY <1>1, <2>8, SMTT(30)
<1>11. Good(n)
  <2> HIDE DEF P
  <2>1. 0 .. n \subseteq P
    BY <1>1, <1>9, <1>10, UpTo
  <2>2. n \in P
    BY <1>1, <2>1, SMTT(30)
  <2> QED BY <2>2 DEF P
<1>12. got(n) = data(s)
  <2>1. ASSUME NEW x \in got(n) PROVE x \in data(s)
    <3>1. PICK v \in Vpn, i \in 1 .. n : v \in dom(i) /\ x = pte[v]
      BY <2>1
    <3>2. x # None /\ x \in Range(pte)
      BY <1>2, <1>3, <3>1 DEF Range
    <3> QED BY <3>2 DEF data, pte
  <2>2. ASSUME NEW x \in data(s) PROVE x \in got(n)
    <3>1. PICK v \in Vpn : x = pte[v] /\ x # None
      BY <1>2, <2>2 DEF data, Range, pte
    <3> QED BY <1>6, <3>1
  <2> QED BY <2>1, <2>2
<1> QED BY <1>7, <1>11, <1>12

LEMMA TableFrames ==
  ASSUME NEW s \in Space
  PROVE  table_frames_of(s) \in Seq(Frame) /\ table(s) \subseteq Frame
<1>1. s.tables \in Seq((Nodes \cup {<<"root", 0>>}) \X Frame)
  BY DEF Space, Tables
<1>2. table_frames_of(s) \in Seq(Frame)
  <2>1. \A i \in 1 .. Len(s.tables) : s.tables[i][2] \in Frame
    BY <1>1
  <2> QED BY <1>1, <2>1, SMTT(30) DEF table_frames_of
<1> QED BY <1>2, SeqFacts, SMTT(30) DEF table, Range

(* Dropping a MemorySet gives back the frames of its pages and its nodes.  *)
LEMMA DropSpace ==
  ASSUME NEW s \in Space, PagesApart(s), Matches(s), IsInjective(table_frames_of(s)),
         data(s) \cap table(s) = {},
         NEW f, NEW U, Accounts(f, U), data(s) \cup table(s) \subseteq U
  PROVE  Accounts(drop_space(f, s), U \ (data(s) \cup table(s)))
<1> DEFINE t == table_frames_of(s)
           d == data_frames_of(s)
<1>1. t \in Seq(Frame) /\ Range(t) = table(s) /\ IsInjective(t)
  BY TableFrames DEF table
<1>2. d \in Seq(Frame) /\ Range(d) = data(s) /\ IsInjective(d)
  BY DataFramesOf
<1>3. drop_space(f, s) = dealloc_all(f, t \o d)
  BY DEF drop_space
<1> HIDE DEF t, d
<1>4. /\ t \o d \in Seq(Frame) /\ Range(t \o d) = table(s) \cup data(s)
      /\ IsInjective(t \o d)
  BY <1>1, <1>2, ConcatRange, SMTT(30)
<1>5. table(s) \cup data(s) = data(s) \cup table(s)
  OBVIOUS
<1> DEFINE e == t \o d
<1> HIDE DEF e
<1>6. Accounts(dealloc_all(f, e), U \ Range(e))
  BY <1>4, <1>5, DeallocAccounts DEF e
<1> QED BY <1>3, <1>4, <1>5, <1>6 DEF e

(* Without areas there is only the page table to drop.                     *)
LEMMA DropNodes ==
  ASSUME NEW s \in Space, s.areas = <<>>, IsInjective(table_frames_of(s)),
         NEW f, NEW U, Accounts(f, U), table(s) \subseteq U
  PROVE  /\ data_frames_of(s) = <<>>
         /\ Accounts(drop_space(f, s), U \ table(s))
<1> DEFINE t == table_frames_of(s)
<1>1. data_frames_of(s) = <<>>
  <2>1. Len(s.areas) = 0
    BY EmptySeqFacts
  <2>2. 0 \in Nat
    OBVIOUS
  <2> QED BY <2>1, <2>2, DataTurns
<1>2. t \in Seq(Frame) /\ Range(t) = table(s) /\ IsInjective(t)
  BY TableFrames DEF table
<1>3. drop_space(f, s) = dealloc_all(f, t \o <<>>)
  BY <1>1 DEF drop_space
<1> HIDE DEF t
<1>4. t \o <<>> = t
  BY <1>2
<1>5. Accounts(dealloc_all(f, t), U \ Range(t))
  BY <1>2, DeallocAccounts
<1> QED BY <1>1, <1>2, <1>3, <1>4, <1>5

(* exec: the new address space takes the place of the old one.             *)
LEMMA ExecSpace ==
  ASSUME NEW st, st.bytes \in [Frame -> Value], st.space \in Space, st.stack \in Seq(Frame),
         NEW others, Holds(st, others), Matches(st.space),
         NEW r, r = exec_space(st)
  PROVE  /\ r.status # "full"
         /\ r.status = "ok" => /\ r \in State /\ r.stack = st.stack
                               /\ Holds(r, others) /\ Matches(r.space)
<1> DEFINE new == from_elf(st.fa, st.bytes)
           s == st.space
           D == data(s)
           T == table(s)
           K == Range(st.stack)
           All == others \cup D \cup T \cup K
<1>1. /\ PagesApart(s) /\ IsInjective(table_frames_of(s)) /\ IsInjective(st.stack)
      /\ Apart(st.fa, D, T, K, others)
  BY DEF Holds
<1>2. Accounts(st.fa, All)
  BY <1>1 DEF Apart
<1>3. new \in State /\ new.stack = <<>> /\ new.status # "full" /\ Fine(new, All)
  BY <1>2, FromElf
<1>4. r = IF new.status # "ok" THEN new
          ELSE [new EXCEPT !.fa = drop_space(new.fa, s), !.stack = st.stack]
  BY DEF exec_space
<1> HIDE DEF new
<1>5. CASE new.status # "ok"
  BY <1>3, <1>4, <1>5
<1>6. CASE new.status = "ok"
  <2> DEFINE f == drop_space(new.fa, s)
             M == data(new.space)
             N == table(new.space)
             U == All \cup M \cup N \cup {}
  <2>1. Holds(new, All) /\ Matches(new.space)
    BY <1>3, <1>6 DEF Fine, panics
  <2>2. /\ PagesApart(new.space) /\ IsInjective(table_frames_of(new.space))
        /\ Apart(new.fa, M, N, {}, All)
    BY <1>3, <2>1, EmptySeqFacts DEF Holds
  <2>3. r = [new EXCEPT !.fa = f, !.stack = st.stack]
    BY <1>4, <1>6
  <2>4. D \cap T = {} /\ D \cup T \subseteq U /\ Accounts(new.fa, U)
    BY <1>1, <2>2 DEF Apart
  <2>5. Accounts(f, U \ (D \cup T))
    BY <1>1, <2>4, DropSpace
  <2> HIDE DEF f
  <2>6. f \in Allocator
    BY <2>5 DEF Accounts
  <2>7. r = [fa |-> f, bytes |-> new.bytes, space |-> new.space, stack |-> st.stack,
             status |-> new.status]
    BY <1>3, <2>3 DEF State
  <2>8. r \in State
    <3>1. new.bytes \in [Frame -> Value] /\ new.space \in Space /\ new.status \in Status
      BY <1>3, StateFields
    <3> QED BY <2>6, <2>7, <3>1, StateMade
  <2>9. r.fa = f /\ r.space = new.space /\ r.stack = st.stack /\ r.status = "ok"
    BY <1>6, <2>7, SMTT(30)
  <2> HIDE DEF M, N, D, T, K
  <2>10. U \ (D \cup T) = others \cup M \cup N \cup K
    <3>1. /\ D \cap K = {} /\ T \cap K = {} /\ others \cap (D \cup T \cup K) = {}
          /\ All \cap (M \cup N \cup {}) = {}
      BY <1>1, <2>2 DEF Apart
    <3> QED BY <3>1
  <2>11. Apart(f, M, N, K, others)
    <3>1. /\ M \cap N = {} /\ All \cap (M \cup N \cup {}) = {}
          /\ others \cap (D \cup T \cup K) = {}
      BY <1>1, <2>2 DEF Apart
    <3>2. M \cap K = {} /\ N \cap K = {} /\ others \cap (M \cup N \cup K) = {}
      BY <3>1
    <3> QED BY <2>5, <2>10, <3>1, <3>2 DEF Apart
  <2>12. Holds(r, others)
    BY <1>1, <2>2, <2>9, <2>11 DEF Holds, M, N, K
  <2> QED BY <2>1, <2>8, <2>9, <2>12
<1> QED BY <1>5, <1>6

-----------------------------------------------------------------------------
(* The inductive invariant.                                                *)

Life == {"none", "live", "zombie", "leaked"}

(* The memory of a process with address space s and kernel stack k: while  *)
(* it lives its page table and its areas match; an exited process has      *)
(* given its areas back, a process that is gone everything.                *)
Sound(s, k, l) ==
  /\ IsInjective(k) /\ IsInjective(table_frames_of(s)) /\ Range(k) \cap table(s) = {}
  /\ l = "live" => /\ PagesApart(s) /\ Matches(s)
                   /\ data(s) \cap table(s) = {} /\ data(s) \cap Range(k) = {}
  /\ l # "live" => s.areas = <<>>
  /\ l = "none" => s.tables = <<>> /\ k = <<>>

(* The frames it owns.  A page table of an exited process still names      *)
(* frames it has given back.                                               *)
Held(s, k, l) == Range(k) \cup table(s) \cup (IF l = "live" THEN data(s) ELSE {})
of(p) == Held(space[p], kstack[p], life[p])
Others(p) == UNION {of(q) : q \in Proc \ {p}}

IInv ==
  /\ bytes \in [Frame -> Value] /\ space \in [Proc -> Space]
  /\ kstack \in [Proc -> Seq(Frame)] /\ life \in [Proc -> Life]
  /\ \A p \in Proc : Sound(space[p], kstack[p], life[p])
  /\ \A p, q \in Proc : p # q => of(p) \cap of(q) = {}
  /\ Accounts(fa, UNION {of(p) : p \in Proc})

(* The frames of one process and those of the others.                      *)
LEMMA Owned ==
  ASSUME IInv, NEW p \in Proc
  PROVE  /\ space[p] \in Space /\ kstack[p] \in Seq(Frame) /\ life[p] \in Life
         /\ Sound(space[p], kstack[p], life[p])
         /\ Others(p) \cap of(p) = {} /\ Accounts(fa, Others(p) \cup of(p))
<1>1. Others(p) \cap of(p) = {}
  BY SMTT(30) DEF IInv, Others
<1>2. Others(p) \cup of(p) = UNION {of(q) : q \in Proc}
  BY DEF Others
<1>3. Accounts(fa, UNION {of(q) : q \in Proc})
  BY DEF IInv
<1> QED BY <1>1, <1>2, <1>3 DEF IInv

(* A step that changes the memory of one process.                          *)
LEMMA Keep ==
  ASSUME IInv, NEW p \in Proc, NEW s \in Space, NEW k \in Seq(Frame), NEW l \in Life,
         Sound(s, k, l), Others(p) \cap Held(s, k, l) = {},
         Accounts(fa', Others(p) \cup Held(s, k, l)),
         bytes' \in [Frame -> Value], space' = [space EXCEPT ![p] = s],
         kstack' = [kstack EXCEPT ![p] = k], life' = [life EXCEPT ![p] = l]
  PROVE  IInv'
<1>1. /\ space \in [Proc -> Space] /\ kstack \in [Proc -> Seq(Frame)]
      /\ life \in [Proc -> Life]
  BY DEF IInv
<1>2. /\ space' \in [Proc -> Space] /\ kstack' \in [Proc -> Seq(Frame)]
      /\ life' \in [Proc -> Life]
  BY <1>1
<1>3. space'[p] = s /\ kstack'[p] = k /\ life'[p] = l
  BY <1>1
<1>4. \A q \in Proc \ {p} :
        space'[q] = space[q] /\ kstack'[q] = kstack[q] /\ life'[q] = life[q]
  BY <1>1
<1>5. of(p)' = Held(s, k, l)
  BY <1>3 DEF of
<1>6. \A q \in Proc \ {p} : of(q)' = of(q)
  BY <1>4 DEF of
<1>7. \A q \in Proc : Sound(space'[q], kstack'[q], life'[q])
  BY <1>3, <1>4 DEF IInv
<1>8. \A q \in Proc \ {p} : of(q) \cap Held(s, k, l) = {}
  BY DEF Others
<1>9. \A q, r \in Proc : q # r => of(q)' \cap of(r)' = {}
  <2> SUFFICES ASSUME NEW q \in Proc, NEW r \in Proc, q # r
               PROVE  of(q)' \cap of(r)' = {}
    OBVIOUS
  <2>1. CASE q = p
    BY <1>5, <1>6, <1>8, <2>1, SMTT(30)
  <2>2. CASE r = p
    BY <1>5, <1>6, <1>8, <2>2
  <2>3. CASE q # p /\ r # p
    <3>1. of(q)' = of(q) /\ of(r)' = of(r)
      BY <1>6, <2>3
    <3> QED BY <3>1 DEF IInv
  <2> QED BY <2>1, <2>2, <2>3
<1>10. UNION {of(q)' : q \in Proc} = Others(p) \cup Held(s, k, l)
  BY <1>5, <1>6 DEF Others
<1>11. (UNION {of(q) : q \in Proc})' = UNION {of(q)' : q \in Proc}
  OBVIOUS
<1>12. Accounts(fa', UNION {of(q)' : q \in Proc})
  BY <1>10
<1> QED BY <1>2, <1>7, <1>9, <1>11, <1>12 DEF IInv

(* A step that changes at most the contents of frames.                     *)
LEMMA Stays ==
  ASSUME IInv, UNCHANGED <<fa, space, kstack, life>>, bytes' \in [Frame -> Value]
  PROVE  IInv'
<1>1. \A q : of(q)' = of(q)
  BY DEF of
<1>2. UNION {of(q)' : q \in Proc} = UNION {of(q) : q \in Proc}
  BY <1>1
<1> QED BY <1>1, <1>2 DEF IInv

LEMMA ExceptSame ==
  ASSUME NEW S, NEW T, NEW f \in [S -> T], NEW x \in S
  PROVE  f = [f EXCEPT ![x] = f[x]]
OBVIOUS

-----------------------------------------------------------------------------
(* The system calls.                                                       *)

(* The state in which a call of a live process starts.                     *)
LEMMA Start ==
  ASSUME IInv, NEW p \in Proc, life[p] = "live",
         NEW st, st = [fa |-> fa, bytes |-> bytes, space |-> space[p], stack |-> <<>>,
                       status |-> "ok"]
  PROVE  /\ st \in State /\ st.status = "ok" /\ st.stack = <<>> /\ st.space = space[p]
         /\ Holds(st, Others(p) \cup Range(kstack[p])) /\ Matches(st.space)
<1> DEFINE s == space[p]
           K == Range(kstack[p])
           D == data(s)
           T == table(s)
<1>1. /\ s \in Space /\ Sound(s, kstack[p], "live")
      /\ Others(p) \cap of(p) = {} /\ Accounts(fa, Others(p) \cup of(p))
  BY Owned
<1>2. of(p) = K \cup T \cup D
  BY DEF of, Held
<1>3. /\ PagesApart(s) /\ Matches(s) /\ IsInjective(table_frames_of(s))
      /\ K \cap T = {} /\ D \cap T = {} /\ D \cap K = {}
  BY <1>1 DEF Sound
<1>4. fa \in Allocator /\ bytes \in [Frame -> Value]
  BY <1>1 DEF Accounts, IInv
<1>5. "ok" \in Status /\ <<>> \in Seq(Frame) /\ IsInjective(<<>>) /\ Range(<<>>) = {}
  BY EmptySeqFacts DEF Status
<1>6. st \in State
  BY <1>1, <1>4, <1>5, StateMade
<1>7. st.fa = fa /\ st.space = s /\ st.stack = <<>> /\ st.status = "ok"
  OBVIOUS
<1> HIDE DEF K, D, T
<1>8. Others(p) \cup of(p) = (Others(p) \cup K) \cup D \cup T \cup {}
  BY <1>2
<1>9. (Others(p) \cup K) \cap (D \cup T \cup {}) = {}
  BY <1>1, <1>2, <1>3
<1>10. Apart(fa, D, T, {}, Others(p) \cup K)
  BY <1>1, <1>3, <1>8, <1>9 DEF Apart
<1> QED BY <1>3, <1>5, <1>6, <1>7, <1>10 DEF Holds, K, D, T

(* It ends with the new address space, or in a panic.                      *)
LEMMA CommitLive ==
  ASSUME IInv, NEW p \in Proc, life[p] = "live", NEW st,
         ~panics(st) => /\ st \in State /\ st.stack = <<>>
                        /\ Holds(st, Others(p) \cup Range(kstack[p])) /\ Matches(st.space),
         commit(p, st), UNCHANGED <<kstack, life>>
  PROVE  IInv'
<1>1. CASE panics(st)
  <2>1. UNCHANGED <<fa, bytes, space>>
    BY <1>1 DEF commit
  <2>2. bytes' \in [Frame -> Value]
    BY <2>1 DEF IInv
  <2> QED BY <2>1, <2>2, Stays
<1>2. CASE ~panics(st)
  <2> DEFINE s == st.space
             k == kstack[p]
             K == Range(k)
             D == data(s)
             T == table(s)
             O == Others(p)
  <2>1. /\ st \in State /\ Matches(s) /\ PagesApart(s)
        /\ IsInjective(table_frames_of(s)) /\ Apart(st.fa, D, T, {}, O \cup K)
    BY <1>2, EmptySeqFacts DEF Holds
  <2>2. fa' = st.fa /\ bytes' = st.bytes /\ space' = [space EXCEPT ![p] = s]
    BY <1>2 DEF commit
  <2>3. s \in Space /\ st.bytes \in [Frame -> Value]
    BY <2>1, StateFields
  <2>4. /\ k \in Seq(Frame) /\ Sound(space[p], k, "live") /\ O \cap of(p) = {}
    BY Owned
  <2>5. O \cap K = {} /\ IsInjective(k)
    BY <2>4 DEF of, Held, Sound
  <2> HIDE DEF K, D, T, O
  <2>6. /\ D \cap T = {} /\ (O \cup K) \cap (D \cup T \cup {}) = {}
        /\ Accounts(st.fa, (O \cup K) \cup D \cup T \cup {})
    BY <2>1 DEF Apart
  <2>7. /\ K \cap T = {} /\ D \cap K = {} /\ O \cap (K \cup T \cup D) = {}
        /\ (O \cup K) \cup D \cup T \cup {} = O \cup (K \cup T \cup D)
    BY <2>5, <2>6
  <2>8. Held(s, k, "live") = K \cup T \cup D
    BY DEF Held, K, T, D
  <2>9. Sound(s, k, "live")
    BY <2>1, <2>5, <2>6, <2>7 DEF Sound, K, T, D
  <2>10. kstack' = [kstack EXCEPT ![p] = k] /\ life' = [life EXCEPT ![p] = "live"]
    <3>1. kstack \in [Proc -> Seq(Frame)] /\ life \in [Proc -> Life]
      BY DEF IInv
    <3> QED BY <3>1, ExceptSame
  <2>11. "live" \in Life
    BY DEF Life
  <2>12. /\ Others(p) \cap Held(s, k, "live") = {}
         /\ Accounts(fa', Others(p) \cup Held(s, k, "live"))
    BY <2>2, <2>6, <2>7, <2>8 DEF O
  <2> HIDE DEF s, k
  <2> QED BY <2>2, <2>3, <2>4, <2>9, <2>10, <2>11, <2>12, Keep
<1> QED BY <1>1, <1>2

LEMMA ChildOwnsNothing ==
  ASSUME IInv, NEW c \in Proc, life[c] = "none"
  PROVE  of(c) = {} /\ Accounts(fa, Others(c))
<1>1. space[c] \in Space /\ Sound(space[c], kstack[c], "none") /\ Accounts(fa, Others(c) \cup of(c))
  BY Owned
<1>2. space[c].tables = <<>> /\ kstack[c] = <<>>
  BY <1>1 DEF Sound
<1>3. table_frames_of(space[c]) = <<>>
  BY <1>2, EmptySeqFacts, SMTT(30) DEF table_frames_of
<1>4. of(c) = {}
  BY <1>2, <1>3, EmptySeqFacts DEF of, Held, table
<1>5. Others(c) \cup {} = Others(c)
  OBVIOUS
<1> QED BY <1>1, <1>4, <1>5

LEMMA ForkSpace ==
  ASSUME IInv, NEW p \in Proc, NEW c \in Proc, life[c] = "none",
         NEW r, r = fork_space(p)
  PROVE  /\ r \in State /\ Fine(r, Others(c))
         /\ r.status = "full" => r.stack = <<>>
<1>1. Accounts(fa, Others(c)) /\ space[p] \in Space /\ bytes \in [Frame -> Value]
  BY ChildOwnsNothing, Owned DEF IInv
<1> DEFINE st == from_existed_user(fa, bytes, space[p])
<1>2. st \in State /\ st.stack = <<>> /\ Fine(st, Others(c))
  BY <1>1, FromExisted
<1>3. r = new_kernel_stack(st)
  BY DEF fork_space
<1> HIDE DEF st
<1> QED BY <1>2, <1>3, NewStack

(* What start_child is given.                                              *)
Startable(c, st) ==
  \/ panics(st)
  \/ /\ st \in State /\ Holds(st, Others(c)) /\ Matches(st.space)
     /\ st.status = "full" => st.stack = <<>>

LEMMA StartChild ==
  ASSUME IInv, NEW c \in Proc, life[c] = "none", NEW st, Startable(c, st),
         start_child(c, st)
  PROVE  IInv'
<1> DEFINE s == st.space
           k == st.stack
           K == Range(k)
           D == data(s)
           T == table(s)
           O == Others(c)
<1>1. of(c) = {} /\ O \cap of(c) = {}
  BY ChildOwnsNothing
<1>2. CASE panics(st)
  <2>1. st.status # "full"
    BY <1>2 DEF panics
  <2>2. UNCHANGED <<fa, bytes, space, kstack, life>>
    BY <1>2, <2>1 DEF start_child, commit
  <2>3. bytes' \in [Frame -> Value]
    BY <2>2 DEF IInv
  <2> QED BY <2>2, <2>3, Stays
<1>3. ASSUME ~panics(st)
      PROVE  /\ st \in State /\ Matches(s) /\ PagesApart(s)
             /\ IsInjective(table_frames_of(s)) /\ IsInjective(k)
             /\ Apart(st.fa, D, T, K, O)
             /\ st.status = "full" => k = <<>>
             /\ s \in Space /\ st.bytes \in [Frame -> Value] /\ k \in Seq(Frame)
  BY <1>3, StateFields DEF Startable, Holds
<1>4. CASE ~panics(st) /\ st.status = "full"
  <2>1. /\ fa' = drop_space(st.fa, s) /\ bytes' = st.bytes
        /\ UNCHANGED <<space, kstack, life>>
    BY <1>4 DEF start_child
  <2>2. K = {}
    BY <1>3, <1>4, EmptySeqFacts
  <2>3. D \cap T = {} /\ O \cap (D \cup T) = {} /\ Accounts(st.fa, O \cup D \cup T \cup K)
    BY <1>3, <1>4 DEF Apart
  <2>4. Accounts(fa', (O \cup D \cup T \cup K) \ (D \cup T))
    <3>1. D \cup T \subseteq O \cup D \cup T \cup K
      OBVIOUS
    <3> QED BY <1>3, <1>4, <2>1, <2>3, <3>1, DropSpace
  <2> HIDE DEF D, T, K, O, s
  <2>5. (O \cup D \cup T \cup K) \ (D \cup T) = O
    BY <2>2, <2>3
  <2>6. Accounts(fa', O)
    BY <2>4, <2>5
  <2>7. bytes' \in [Frame -> Value]
    BY <1>3, <1>4, <2>1
  <2>8. \A q : of(q)' = of(q)
    BY <2>1 DEF of
  <2>9. UNION {of(q)' : q \in Proc} = O
    BY <1>1, <2>8 DEF Others, O
  <2> QED BY <2>1, <2>6, <2>7, <2>8, <2>9 DEF IInv
<1>5. CASE ~panics(st) /\ st.status # "full"
  <2>1. /\ fa' = st.fa /\ bytes' = st.bytes /\ space' = [space EXCEPT ![c] = s]
        /\ kstack' = [kstack EXCEPT ![c] = k] /\ life' = [life EXCEPT ![c] = "live"]
    BY <1>5 DEF start_child, commit
  <2>2. Held(s, k, "live") = K \cup T \cup D
    BY DEF Held
  <2>3. /\ D \cap T = {} /\ D \cap K = {} /\ T \cap K = {} /\ O \cap (D \cup T \cup K) = {}
        /\ Accounts(st.fa, O \cup D \cup T \cup K)
    BY <1>3, <1>5 DEF Apart
  <2>4. Sound(s, k, "live")
    BY <1>3, <1>5, <2>3 DEF Sound
  <2> HIDE DEF D, T, K
  <2>5. /\ O \cap (K \cup T \cup D) = {}
        /\ O \cup D \cup T \cup K = O \cup (K \cup T \cup D)
    BY <2>3
  <2>6. O \cap Held(s, k, "live") = {} /\ Accounts(fa', O \cup Held(s, k, "live"))
    BY <2>1, <2>2, <2>3, <2>5
  <2>7. "live" \in Life /\ s \in Space /\ k \in Seq(Frame) /\ bytes' \in [Frame -> Value]
    BY <1>3, <1>5, <2>1 DEF Life
  <2> HIDE DEF s, k
  <2> QED BY <2>1, <2>4, <2>6, <2>7, Keep
<1> QED BY <1>2, <1>4, <1>5

LEMMA Exit ==
  ASSUME IInv, NEW p \in Proc, NEW in_fork, exit(p, in_fork)
  PROVE  IInv'
<1> DEFINE old == space[p]
           s == [old EXCEPT !.areas = <<>>]
           k == kstack[p]
           l == IF in_fork THEN "leaked" ELSE "zombie"
           K == Range(k)
           D == data(old)
           T == table(old)
           O == Others(p)
<1>1. /\ life[p] = "live" /\ life' = [life EXCEPT ![p] = l]
      /\ fa' = dealloc_all(fa, data_frames_of(old))
      /\ space' = [space EXCEPT ![p].areas = <<>>] /\ bytes' = bytes /\ kstack' = kstack
  BY DEF exit
<1>2. /\ old \in Space /\ k \in Seq(Frame) /\ Sound(old, k, "live")
      /\ O \cap of(p) = {} /\ Accounts(fa, O \cup of(p))
  BY <1>1, Owned
<1>3. of(p) = K \cup T \cup D
  BY <1>1 DEF of, Held
<1>4. /\ PagesApart(old) /\ Matches(old) /\ IsInjective(k)
      /\ IsInjective(table_frames_of(old))
      /\ K \cap T = {} /\ D \cap T = {} /\ D \cap K = {}
  BY <1>2 DEF Sound
<1>5. s = [areas |-> <<>>, pte |-> old.pte, tables |-> old.tables]
  BY <1>2, SMTT(30) DEF Space
<1>6. s \in Space /\ s.areas = <<>> /\ s.tables = old.tables
  <2>1. <<>> \in Seq(Area) /\ old.pte \in [Vpn -> Frame \cup {None}] /\ old.tables \in Tables
    BY <1>2, SMTT(30) DEF Space
  <2> HIDE DEF old
  <2>2. [areas |-> <<>>, pte |-> old.pte, tables |-> old.tables] \in Space
    BY <2>1 DEF Space
  <2> QED BY <1>5, <2>2
<1>7. table_frames_of(s) = table_frames_of(old)
  BY <1>6 DEF table_frames_of
<1>8. l \in Life /\ l # "live" /\ l # "none"
  BY DEF Life
<1>9. space' = [space EXCEPT ![p] = s]
  BY <1>1
<1>10. kstack' = [kstack EXCEPT ![p] = k]
  <2>1. kstack \in [Proc -> Seq(Frame)]
    BY DEF IInv
  <2> QED BY <1>1, <2>1, ExceptSame
<1>11. bytes' \in [Frame -> Value]
  BY <1>1 DEF IInv
<1> HIDE DEF s, l
<1>12. Sound(s, k, l)
  BY <1>4, <1>6, <1>7, <1>8 DEF Sound, table
<1>13. Held(s, k, l) = K \cup T
  BY <1>7, <1>8 DEF Held, table
<1>14. Accounts(fa', (O \cup of(p)) \ D)
  <2>1. D \subseteq O \cup of(p)
    BY <1>3
  <2>2. /\ data_frames_of(old) \in Seq(Frame) /\ IsInjective(data_frames_of(old))
        /\ Range(data_frames_of(old)) = D
    BY <1>2, <1>4, DataFramesOf
  <2> DEFINE d == data_frames_of(old)
  <2> HIDE DEF d, D
  <2>3. Accounts(dealloc_all(fa, d), (O \cup of(p)) \ Range(d))
    BY <1>2, <2>1, <2>2, DeallocAccounts DEF d
  <2> QED BY <1>1, <2>2, <2>3 DEF d
<1> HIDE DEF K, D, T
<1>15. (O \cup of(p)) \ D = O \cup (K \cup T) /\ O \cap (K \cup T) = {}
  BY <1>2, <1>3, <1>4
<1>16. O \cap Held(s, k, l) = {} /\ Accounts(fa', O \cup Held(s, k, l))
  BY <1>13, <1>14, <1>15
<1> HIDE DEF k
<1> QED BY <1>1, <1>2, <1>6, <1>8, <1>9, <1>10, <1>11, <1>12, <1>16, Keep

LEMMA NoSpace ==
  /\ no_space \in Space /\ no_space.areas = <<>> /\ no_space.tables = <<>>
  /\ table_frames_of(no_space) = <<>> /\ table(no_space) = {}
  /\ Sound(no_space, <<>>, "none") /\ Held(no_space, <<>>, "none") = {}
<1>1. no_space.areas = <<>> /\ no_space.tables = <<>>
  BY DEF no_space
<1>2. no_space \in Space
  BY DEF no_space, Space, Tables
<1>3. table_frames_of(no_space) = <<>>
  BY <1>1, EmptySeqFacts DEF table_frames_of
<1>4. table(no_space) = {}
  BY <1>3, EmptySeqFacts DEF table
<1>5. Sound(no_space, <<>>, "none")
  BY <1>1, <1>3, <1>4, EmptySeqFacts DEF Sound
<1>6. Held(no_space, <<>>, "none") = {}
  BY <1>4, EmptySeqFacts DEF Held
<1> QED BY <1>1, <1>2, <1>3, <1>4, <1>5, <1>6

LEMMA Waitpid ==
  ASSUME IInv, NEW c \in Proc, waitpid(c)
  PROVE  IInv'
<1> DEFINE s == space[c]
           k == kstack[c]
           K == Range(k)
           T == table(s)
           O == Others(c)
           f == dealloc_all(fa, k)
<1>1. /\ life[c] = "zombie" /\ life' = [life EXCEPT ![c] = "none"]
      /\ fa' = drop_space(f, s) /\ space' = [space EXCEPT ![c] = no_space]
      /\ kstack' = [kstack EXCEPT ![c] = <<>>] /\ bytes' = bytes
  BY DEF waitpid, drop_kernel_stack
<1>2. /\ s \in Space /\ k \in Seq(Frame) /\ Sound(s, k, "zombie")
      /\ O \cap of(c) = {} /\ Accounts(fa, O \cup of(c))
  BY <1>1, Owned
<1>3. of(c) = K \cup T
  BY <1>1 DEF of, Held
<1>4. IsInjective(k) /\ IsInjective(table_frames_of(s)) /\ K \cap T = {} /\ s.areas = <<>>
  BY <1>2 DEF Sound
<1>5. Accounts(f, (O \cup of(c)) \ K)
  <2>1. K \subseteq O \cup of(c)
    BY <1>3
  <2> QED BY <1>2, <1>4, <2>1, DeallocAccounts
<1> HIDE DEF f
<1>6. Accounts(fa', ((O \cup of(c)) \ K) \ T)
  <2>1. T \subseteq (O \cup of(c)) \ K
    BY <1>3, <1>4
  <2> QED BY <1>1, <1>2, <1>4, <1>5, <2>1, DropNodes
<1> HIDE DEF K, T
<1>7. ((O \cup of(c)) \ K) \ T = O \cup {} /\ O \cap {} = {}
  BY <1>2, <1>3
<1>8. "none" \in Life /\ <<>> \in Seq(Frame) /\ bytes' \in [Frame -> Value]
  BY <1>1, SMTT(30) DEF Life, IInv
<1>9. /\ O \cap Held(no_space, <<>>, "none") = {}
      /\ Accounts(fa', O \cup Held(no_space, <<>>, "none"))
  BY <1>6, <1>7, NoSpace
<1>10. no_space \in Space /\ Sound(no_space, <<>>, "none")
  BY NoSpace
<1> QED BY <1>1, <1>8, <1>9, <1>10, Keep

LEMMA InitHolds ==
  ASSUME Init
  PROVE  IInv
<1> DEFINE b == [ppn \in Frame |-> 0]
           e == from_elf(new_allocator, b)
           st == new_kernel_stack(e)
<1>1. Accounts(new_allocator, {})
  <2>1. new_allocator.current = 0 /\ new_allocator.recycled = <<>>
    BY DEF new_allocator
  <2>2. new_allocator \in Allocator
    BY FramesAssumption DEF new_allocator, Allocator
  <2>3. 0 .. 0 - 1 = {}
    OBVIOUS
  <2> QED BY <2>1, <2>2, <2>3, EmptySeqFacts DEF Accounts
<1>2. b \in [Frame -> Value]
  BY SpaceAssumption
<1> HIDE DEF b
<1>3. e \in State /\ e.stack = <<>> /\ Fine(e, {})
  BY <1>1, <1>2, FromElf
<1> HIDE DEF e
<1>4. st \in State /\ Fine(st, {})
  BY <1>3, NewStack
<1>5. /\ st.status = "ok" /\ fa = st.fa /\ bytes = st.bytes
      /\ space = [p \in Proc |-> IF p = First THEN st.space ELSE no_space]
      /\ kstack = [p \in Proc |-> IF p = First THEN st.stack ELSE <<>>]
      /\ life = [p \in Proc |-> IF p = First THEN "live" ELSE "none"]
  BY DEF Init, e, b
<1> HIDE DEF st
<1> DEFINE s == st.space
           k == st.stack
           K == Range(k)
           D == data(s)
           T == table(s)
<1>6. ~panics(st)
  BY <1>5 DEF panics
<1>7. /\ PagesApart(s) /\ IsInjective(table_frames_of(s)) /\ IsInjective(k)
      /\ Apart(st.fa, D, T, K, {}) /\ Matches(s)
  BY <1>4, <1>6 DEF Fine, Holds
<1>8. s \in Space /\ k \in Seq(Frame) /\ st.bytes \in [Frame -> Value]
  BY <1>4, StateFields
<1>9. First \in Proc
  BY MemoryAssumption
<1>10. /\ D \cap T = {} /\ D \cap K = {} /\ T \cap K = {}
       /\ Accounts(st.fa, {} \cup D \cup T \cup K)
  BY <1>7 DEF Apart
<1>11. Sound(s, k, "live")
  BY <1>7, <1>10 DEF Sound
<1>12. Held(s, k, "live") = {} \cup D \cup T \cup K
  BY DEF Held
<1> HIDE DEF s, k
<1>13. /\ space[First] = s /\ kstack[First] = k /\ life[First] = "live"
       /\ \A p \in Proc \ {First} : space[p] = no_space /\ kstack[p] = <<>> /\ life[p] = "none"
  BY <1>5, <1>9 DEF s, k
<1>14. of(First) = Held(s, k, "live") /\ \A p \in Proc \ {First} : of(p) = {}
  BY <1>13, NoSpace DEF of
<1>15. \A p \in Proc : Sound(space[p], kstack[p], life[p])
  BY <1>11, <1>13, NoSpace
<1>16. UNION {of(p) : p \in Proc} = Held(s, k, "live")
  BY <1>9, <1>14
<1>17. Accounts(fa, UNION {of(p) : p \in Proc})
  BY <1>5, <1>10, <1>12, <1>16
<1>18. \A p, q \in Proc : p # q => of(p) \cap of(q) = {}
  <2> SUFFICES ASSUME NEW p \in Proc, NEW q \in Proc, p # q
               PROVE  of(p) \cap of(q) = {}
    OBVIOUS
  <2>1. of(p) = {} \/ of(q) = {}
    BY <1>14
  <2> QED BY <2>1
<1>19. /\ space \in [Proc -> Space] /\ kstack \in [Proc -> Seq(Frame)]
       /\ life \in [Proc -> Life]
  <2>1. <<>> \in Seq(Frame) /\ no_space \in Space /\ "live" \in Life /\ "none" \in Life
    BY NoSpace, SMTT(30) DEF Life
  <2> QED BY <1>5, <1>8, <2>1 DEF s, k
<1> QED BY <1>5, <1>8, <1>15, <1>17, <1>18, <1>19 DEF IInv

LEMMA Store ==
  ASSUME IInv, NEW p, NEW vpn, NEW value \in Value, store(p, vpn, value)
  PROVE  IInv'
<1>1. /\ bytes' = [bytes EXCEPT ![space[p].pte[vpn]] = value]
      /\ UNCHANGED <<fa, space, kstack, life>>
  BY DEF store
<1>2. bytes \in [Frame -> Value]
  BY DEF IInv
<1>3. bytes' \in [Frame -> Value]
  BY <1>1, <1>2
<1> QED BY <1>1, <1>3, Stays

LEMMA Mmap ==
  ASSUME IInv, NEW p \in Proc, NEW start \in Vpn, NEW n \in Nat, NEW whole,
         sys_mmap(p, start, n, whole)
  PROVE  IInv'
<1>1. life[p] = "live" /\ UNCHANGED <<kstack, life>> /\ map_virtual_pages(p, start, n, whole)
  BY DEF sys_mmap
<1>2. CASE UNCHANGED <<fa, bytes, space>>
  <2>1. bytes' \in [Frame -> Value]
    BY <1>2 DEF IInv
  <2> QED BY <1>1, <1>2, <2>1, Stays
<1>3. CASE ~wraps(start, n) /\ commit(p, mmap_space(p, start, n))
  <2> DEFINE st == [fa |-> fa, bytes |-> bytes, space |-> space[p], stack |-> <<>>,
                    status |-> "ok"]
             O == Others(p) \cup Range(kstack[p])
             r == push(st, start, start + n)
  <2>1. st \in State /\ st.stack = <<>> /\ Holds(st, O) /\ Matches(st.space)
    BY <1>1, Start
  <2>2. mmap_space(p, start, n) = r
    BY DEF mmap_space
  <2>3. /\ start \in Nat /\ start + n \in Nat /\ start <= start + n
        /\ start + n <= TRAMPOLINE
    BY <1>3, SpaceAssumption, SMTT(30) DEF Vpn, TRAMPOLINE, wraps
  <2> HIDE DEF st, O
  <2>4. Fine(st, O)
    BY <2>1 DEF Fine
  <2>5. Pushed(st, start, start + n, r) /\ Fine(r, O)
    BY <2>1, <2>3, <2>4, Push
  <2> HIDE DEF r
  <2>6. r \in State /\ r.stack = <<>>
    BY <2>1, <2>5 DEF Pushed
  <2>7. ~panics(r) => /\ r \in State /\ r.stack = <<>>
                      /\ Holds(r, Others(p) \cup Range(kstack[p])) /\ Matches(r.space)
    BY <2>5, <2>6 DEF Fine, O
  <2>8. commit(p, r)
    BY <1>3, <2>2
  <2> QED BY <1>1, <2>7, <2>8, CommitLive
<1> QED BY <1>1, <1>2, <1>3 DEF map_virtual_pages, range_panic

LEMMA MunmapRange ==
  ASSUME IInv, NEW p \in Proc, NEW start \in Vpn, NEW n \in Nat, ~wraps(start, n),
         sys_munmap(p, start, n)
  PROVE  IInv'
<1> DEFINE st == [fa |-> fa, bytes |-> bytes, space |-> space[p], stack |-> <<>>,
                  status |-> "ok"]
           O == Others(p) \cup Range(kstack[p])
           r == unmap(st, start, start + n)
<1>1. /\ life[p] = "live" /\ UNCHANGED <<kstack, life>> /\ commit(p, trap_return(r))
      /\ \A vpn \in start .. start + n - 1 : have_mapped(space[p], vpn)
  BY DEF sys_munmap, unmap_virtual_pages, munmap_space
<1>2. /\ st \in State /\ st.stack = <<>> /\ st.status = "ok" /\ st.space = space[p]
      /\ Holds(st, O) /\ Matches(st.space)
  BY <1>1, Start
<1>3. /\ start \in Nat /\ start + n \in Nat /\ start <= start + n
      /\ start + n <= TRAMPOLINE
  BY SpaceAssumption, SMTT(30) DEF Vpn, TRAMPOLINE, wraps
<1> HIDE DEF st, O
<1>4. ASSUME NEW v \in start .. start + n - 1
      PROVE  st.space.pte[v] # None
  <2>1. PICK area \in Range(st.space.areas) : v \in DOMAIN area.data_frames
    BY <1>1, <1>2 DEF have_mapped
  <2>2. PICK i \in DOMAIN st.space.areas : area = st.space.areas[i]
    BY <2>1 DEF Range
  <2>3. st.space.pte[v] = area.data_frames[v]
    BY <1>2, <2>1, <2>2 DEF Matches
  <2>4. st.space.areas \in Seq(Area)
    BY <1>2, StateFields
  <2>5. area \in Area
    BY <2>2, <2>4, SeqFacts
  <2>6. area.data_frames[v] \in Frame
    BY <2>1, <2>5, AreaFields
  <2> QED BY <2>3, <2>6, FramesAssumption DEF Frame, None
<1>5. /\ r \in State /\ r.status = "ok" /\ r.stack = st.stack
      /\ Holds(r, O) /\ Matches(r.space)
  BY <1>2, <1>3, <1>4, Unmap, SMTT(30)
<1> HIDE DEF r
<1> DEFINE b == trap_return(r)
<1>6. b = r \/ panics(b)
  BY <1>5, FailFields DEF trap_return, panics, fail, State
<1> HIDE DEF b
<1>7. ~panics(b) => /\ b \in State /\ b.stack = <<>>
                    /\ Holds(b, Others(p) \cup Range(kstack[p])) /\ Matches(b.space)
  BY <1>2, <1>5, <1>6 DEF O
<1>8. commit(p, b)
  BY <1>1 DEF b
<1> QED BY <1>1, <1>7, <1>8, CommitLive

LEMMA Munmap ==
  ASSUME IInv, NEW p \in Proc, NEW start \in Vpn, NEW n \in Nat, sys_munmap(p, start, n)
  PROVE  IInv'
<1>1. CASE ~wraps(start, n)
  BY <1>1, MunmapRange
<1>2. CASE wraps(start, n)
  <2>1. UNCHANGED <<fa, bytes, space, kstack, life>>
    BY <1>2 DEF sys_munmap, unmap_virtual_pages, range_panic
  <2>2. bytes' \in [Frame -> Value]
    BY <2>1 DEF IInv
  <2> QED BY <2>1, <2>2, Stays
<1> QED BY <1>1, <1>2

LEMMA Exec ==
  ASSUME IInv, NEW p \in Proc, sys_exec(p)
  PROVE  IInv'
<1> DEFINE a == [fa |-> fa, bytes |-> bytes, space |-> space[p], stack |-> <<>>,
                 status |-> "ok"]
           st == [fa |-> fa, bytes |-> bytes, space |-> space[p], stack |-> <<>>]
           O == Others(p) \cup Range(kstack[p])
           r == exec_space(st)
<1>1. life[p] = "live" /\ UNCHANGED <<kstack, life>> /\ commit(p, r)
  BY DEF sys_exec
<1>2. /\ a \in State /\ a.stack = <<>> /\ Holds(a, O) /\ Matches(a.space)
  BY <1>1, Start
<1>3. st.fa = a.fa /\ st.bytes = a.bytes /\ st.space = a.space /\ st.stack = a.stack
  OBVIOUS
<1> HIDE DEF a, st, O
<1>4. /\ st.bytes \in [Frame -> Value] /\ st.space \in Space /\ st.stack \in Seq(Frame)
  BY <1>2, <1>3, StateFields
<1>5. Holds(st, O) /\ Matches(st.space)
  BY <1>2, <1>3 DEF Holds
<1>6. /\ r.status # "full"
      /\ r.status = "ok" => /\ r \in State /\ r.stack = st.stack
                            /\ Holds(r, O) /\ Matches(r.space)
  BY <1>4, <1>5, ExecSpace
<1> HIDE DEF r
<1>7. ~panics(r) => /\ r \in State /\ r.stack = <<>>
                    /\ Holds(r, Others(p) \cup Range(kstack[p])) /\ Matches(r.space)
  BY <1>2, <1>3, <1>6 DEF O, panics
<1> QED BY <1>1, <1>7, CommitLive

LEMMA Fork ==
  ASSUME IInv, NEW p \in Proc, NEW c \in Proc, sys_fork(p, c)
  PROVE  IInv'
<1> DEFINE r == fork_space(p)
<1>1. life[c] = "none" /\ (start_child(c, r) \/ exit(p, TRUE))
  BY DEF sys_fork
<1>2. /\ r \in State /\ Fine(r, Others(c))
      /\ r.status = "full" => r.stack = <<>>
  BY <1>1, ForkSpace
<1> HIDE DEF r
<1>3. Startable(c, r)
  BY <1>2 DEF Startable, Fine
<1>4. CASE start_child(c, r)
  BY <1>1, <1>3, <1>4, StartChild
<1>5. CASE exit(p, TRUE)
  BY <1>5, Exit
<1> QED BY <1>1, <1>4, <1>5

LEMMA Spawn ==
  ASSUME IInv, NEW p \in Proc, NEW c \in Proc, sys_spawn(p, c)
  PROVE  IInv'
<1> DEFINE st == fork_space(p)
           r == IF st.status = "ok" THEN exec_space(st) ELSE st
<1>1. life[c] = "none" /\ start_child(c, r)
  BY DEF sys_spawn
<1>2. /\ st \in State /\ Fine(st, Others(c))
      /\ st.status = "full" => st.stack = <<>>
  BY <1>1, ForkSpace
<1> HIDE DEF st
<1>3. Startable(c, r)
  <2>1. CASE st.status # "ok"
    BY <1>2, <2>1 DEF Startable, Fine
  <2>2. CASE st.status = "ok"
    <3>1. ~panics(st)
      BY <2>2 DEF panics
    <3>2. Holds(st, Others(c)) /\ Matches(st.space)
      BY <1>2, <3>1 DEF Fine
    <3>3. st.bytes \in [Frame -> Value] /\ st.space \in Space /\ st.stack \in Seq(Frame)
      BY <1>2, StateFields
    <3>4. r = exec_space(st)
      BY <2>2
    <3> HIDE DEF r
    <3>5. /\ r.status # "full"
          /\ r.status = "ok" => /\ r \in State /\ r.stack = st.stack
                                /\ Holds(r, Others(c)) /\ Matches(r.space)
      BY <3>2, <3>3, <3>4, ExecSpace
    <3> QED BY <3>5 DEF Startable, panics
  <2> QED BY <2>1, <2>2
<1> HIDE DEF r
<1> QED BY <1>1, <1>3, StartChild

LEMMA NextHolds ==
  ASSUME IInv, [Next]_vars
  PROVE  IInv'
<1>1. CASE UNCHANGED vars
  <2>1. UNCHANGED <<fa, bytes, space, kstack, life>>
    BY <1>1 DEF vars
  <2>2. bytes' \in [Frame -> Value]
    BY <2>1 DEF IInv
  <2> QED BY <2>1, <2>2, Stays
<1>2. CASE Next
  <2>1. PICK p \in Proc :
          \/ memory_call(p)
          \/ \E vpn \in UserVpn, value \in Value \ {0} : store(p, vpn, value)
          \/ exit(p, FALSE)
          \/ waitpid(p)
    BY <1>2 DEF Next
  <2>2. ASSUME NEW start \in Vpn, NEW n \in 1 .. MaxPages, NEW whole,
               sys_mmap(p, start, n, whole)
        PROVE  IInv'
    <3>1. n \in Nat
      BY MemoryAssumption, SMTT(30)
    <3> QED BY <2>2, <3>1, Mmap
  <2>3. ASSUME NEW start \in Vpn, NEW n \in 1 .. MaxPages, sys_munmap(p, start, n)
        PROVE  IInv'
    <3>1. n \in Nat
      BY MemoryAssumption, SMTT(30)
    <3> QED BY <2>3, <3>1, Munmap
  <2>4. CASE memory_call(p)
    <3>1. CASE sys_exec(p)
      BY <3>1, Exec
    <3>2. CASE \E c \in Proc : sys_fork(p, c) \/ sys_spawn(p, c)
      BY <3>2, Fork, Spawn
    <3> QED BY <2>2, <2>3, <2>4, <3>1, <3>2 DEF memory_call
  <2>5. CASE \E vpn \in UserVpn, value \in Value \ {0} : store(p, vpn, value)
    <3>1. PICK vpn \in UserVpn, value \in Value \ {0} : store(p, vpn, value)
      BY <2>5
    <3>2. value \in Value
      OBVIOUS
    <3> QED BY <3>1, <3>2, Store
  <2>6. CASE exit(p, FALSE)
    BY <2>6, Exit
  <2>7. CASE waitpid(p)
    BY <2>7, Waitpid
  <2> QED BY <2>1, <2>4, <2>5, <2>6, <2>7
<1> QED BY <1>1, <1>2

-----------------------------------------------------------------------------
(* Theorems.                                                               *)

(* The inductive invariant: while a process lives its areas and its page   *)
(* table match, each process owns its frames alone, and the allocator      *)
(* accounts for them.                                                      *)
THEOREM SpacesSound ==
  Spec => []IInv
<1>1. Init => IInv
  BY InitHolds
<1>2. IInv /\ [Next]_vars => IInv'
  BY NextHolds
<1> QED BY <1>1, <1>2, PTL DEF Spec

(* The state is well typed; no frame beyond the last one is handed out.    *)
THEOREM TypeCorrect ==
  Spec => []TypeOK
<1>1. IInv => TypeOK
  <2> SUFFICES ASSUME IInv PROVE TypeOK
    OBVIOUS
  <2>1. fa.current \in 0 .. FRAMES /\ fa.recycled \in Seq(Frame)
    BY DEF IInv, Accounts, Allocator
  <2>2. \A p \in Proc : space[p].pte \in [Vpn -> Frame \cup {None}]
    <3> SUFFICES ASSUME NEW p \in Proc PROVE space[p].pte \in [Vpn -> Frame \cup {None}]
      OBVIOUS
    <3>1. space[p] \in Space
      BY Owned
    <3> QED BY <3>1 DEF Space
  <2> QED BY <2>1, <2>2 DEF TypeOK, IInv, Life
<1> QED BY <1>1, SpacesSound, PTL

(* The frames of a process, as FramesAccounted lists them.                 *)
LEMMA HeldBy ==
  ASSUME IInv, NEW p \in Proc
  PROVE  IsInjective(held_by(p)) /\ Range(held_by(p)) = of(p)
<1> DEFINE s == space[p]
           k == kstack[p]
           t == table_frames_of(s)
           d == data_frames_of(s)
<1>1. s \in Space /\ k \in Seq(Frame) /\ Sound(s, k, life[p])
  BY Owned
<1>2. t \in Seq(Frame) /\ IsInjective(t) /\ IsInjective(k) /\ Range(k) \cap Range(t) = {}
  BY <1>1, TableFrames DEF Sound, table
<1>3. held_by(p) = (k \o t) \o d
  BY DEF held_by
<1>4. of(p) = Range(k) \cup Range(t) \cup (IF life[p] = "live" THEN data(s) ELSE {})
  BY DEF of, Held, table
<1>5. k \o t \in Seq(Frame) /\ Range(k \o t) = Range(k) \cup Range(t) /\ IsInjective(k \o t)
  BY <1>1, <1>2, ConcatRange, SMTT(30)
<1>6. CASE life[p] = "live"
  <2>1. /\ PagesApart(s) /\ Matches(s)
        /\ data(s) \cap Range(t) = {} /\ data(s) \cap Range(k) = {}
    BY <1>1, <1>6 DEF Sound, table
  <2>2. d \in Seq(Frame) /\ IsInjective(d) /\ Range(d) = data(s)
    BY <1>1, <2>1, DataFramesOf
  <2> HIDE DEF d, t, k, s
  <2>3. Range(k \o t) \cap Range(d) = {}
    BY <1>5, <2>1, <2>2
  <2> DEFINE kt == k \o t
  <2>4. kt \in Seq(Frame) /\ IsInjective(kt) /\ Range(kt) \cap Range(d) = {}
    BY <1>5, <2>3
  <2> HIDE DEF kt
  <2>5. Range(kt \o d) = Range(kt) \cup Range(d) /\ IsInjective(kt \o d)
    BY <2>2, <2>4, ConcatRange, SMTT(30)
  <2> QED BY <1>3, <1>4, <1>5, <1>6, <2>2, <2>5 DEF kt
<1>7. CASE life[p] # "live"
  <2>1. s.areas = <<>>
    BY <1>1, <1>7 DEF Sound
  <2>2. d = <<>>
    <3>1. Len(s.areas) = 0 /\ 0 \in Nat
      BY <2>1, EmptySeqFacts
    <3> QED BY <2>1, <3>1, DataTurns
  <2> HIDE DEF d, t, k, s
  <2>3. (k \o t) \o d = k \o t
    BY <1>5, <2>2, SMTT(30)
  <2> QED BY <1>3, <1>4, <1>5, <1>7, <2>3
<1> QED BY <1>6, <1>7

(* Every frame ever handed out is in exactly one place.                    *)
THEOREM AllFramesAccounted ==
  Spec => []FramesAccounted
<1>1. IInv => FramesAccounted
  <2> SUFFICES ASSUME IInv PROVE FramesAccounted
    OBVIOUS
  <2> DEFINE U == UNION {of(p) : p \in Proc}
  <2>1. \A p \in Proc : IsInjective(held_by(p)) /\ Range(held_by(p)) = of(p)
    BY HeldBy
  <2>2. /\ IsInjective(fa.recycled) /\ U \cap Range(fa.recycled) = {}
        /\ U \cup Range(fa.recycled) = 0 .. fa.current - 1
    BY DEF IInv, Accounts
  <2>3. \A p \in Proc : Range(held_by(p)) \cap Range(fa.recycled) = {}
    BY <2>1, <2>2
  <2>4. \A p, q \in Proc : p # q => Range(held_by(p)) \cap Range(held_by(q)) = {}
    BY <2>1 DEF IInv
  <2>5. UNION {Range(held_by(p)) : p \in Proc} = U
    BY <2>1
  <2> HIDE DEF U
  <2>6. Range(fa.recycled) \cup U = 0 .. fa.current - 1
    BY <2>2
  <2> QED BY <2>1, <2>2, <2>3, <2>4, <2>5, <2>6 DEF FramesAccounted
<1> QED BY <1>1, SpacesSound, PTL

(* The page table of a live process agrees with its areas.                 *)
THEOREM TablesMatchAreas ==
  Spec => []TableMatchesAreas
<1>1. IInv => TableMatchesAreas
  <2> SUFFICES ASSUME IInv, NEW p \in Proc, life[p] = "live",
                      NEW vpn \in Vpn \ {TRAMPOLINE}
               PROVE  {area.data_frames[vpn] : area \in
                         {a \in Range(space[p].areas) : vpn \in DOMAIN a.data_frames}}
                      = {space[p].pte[vpn]} \ {None}
    BY DEF TableMatchesAreas
  <2> DEFINE s == space[p]
  <2>1. s \in Space /\ Matches(s)
    BY Owned DEF Sound
  <2> HIDE DEF s
  <2>2. s.areas \in Seq(Area)
    BY <2>1 DEF Space
  <2>3. ASSUME NEW a \in Range(s.areas), vpn \in DOMAIN a.data_frames
        PROVE  a.data_frames[vpn] = s.pte[vpn] /\ s.pte[vpn] # None
    <3>1. PICK i \in DOMAIN s.areas : a = s.areas[i]
      BY DEF Range
    <3>2. s.pte[vpn] = a.data_frames[vpn]
      BY <2>1, <2>3, <3>1 DEF Matches
    <3>3. a \in Area
      BY <2>2, <3>1, SeqFacts
    <3>4. a.data_frames[vpn] \in Frame
      BY <2>3, <3>3, AreaFields
    <3> QED BY <3>2, <3>4, FramesAssumption, SMTT(30) DEF Frame, None
  <2>4. ASSUME s.pte[vpn] # None
        PROVE  \E a \in Range(s.areas) : vpn \in DOMAIN a.data_frames
    <3>1. PICK i \in DOMAIN s.areas : vpn \in DOMAIN s.areas[i].data_frames
      BY <2>1, <2>4 DEF Matches
    <3> QED BY <3>1 DEF Range
  <2> QED BY <2>3, <2>4 DEF s
<1> QED BY <1>1, SpacesSound, PTL

(* The nodes on the way to some pages are finitely many.                   *)
LEMMA NodesOf ==
  ASSUME NEW V \in SUBSET Vpn
  PROVE  IsFiniteSet(nodes_of(V)) /\ Cardinality(nodes_of(V)) \in Nat
<1>1. nodes_of(V) \subseteq Nodes
  BY DEF nodes_of, Nodes
<1>2. IsFiniteSet(nodes_of(V))
  BY <1>1, NodesFinite, FS_Subset
<1> QED BY <1>2, FS_CardinalityType

(* The nodes of a copy of an address space are among nodes_to.             *)
LEMMA NodesTo ==
  ASSUME NEW s \in Space
  PROVE  /\ IsFiniteSet(nodes_to(s)) /\ Cardinality(nodes_to(s)) \in Nat
         /\ nodes_of({TRAMPOLINE}) \subseteq nodes_to(s)
         /\ \A k \in 1 .. Len(s.areas) :
              nodes_of(s.areas[k].start .. s.areas[k].end - 1) \subseteq nodes_to(s)
<1> DEFINE V == {TRAMPOLINE} \cup UNION {Range(pages(area)) : area \in Range(s.areas)}
<1>1. /\ Len(s.areas) \in Nat /\ DOMAIN s.areas = 1 .. Len(s.areas)
      /\ \A k \in 1 .. Len(s.areas) : s.areas[k] \in Area
  BY SeqFacts DEF Space
<1>2. ASSUME NEW area \in Area
      PROVE  Range(pages(area)) = area.start .. area.end - 1
             /\ area.start .. area.end - 1 \subseteq Vpn
  <2> DEFINE a == area.start
             e == area.end
  <2>1. a \in Nat /\ e \in Nat /\ a <= e /\ a .. e - 1 \subseteq Vpn
    BY AreaFields
  <2>2. pages(area) = [i \in 1 .. e - a |-> a + i - 1]
    BY DEF pages, VPNRange
  <2> HIDE DEF a, e
  <2>3. \A v \in a .. e - 1 : v - a + 1 \in 1 .. e - a /\ a + (v - a + 1) - 1 = v
    BY <2>1
  <2>4. \A i \in 1 .. e - a : a + i - 1 \in a .. e - 1
    BY <2>1
  <2>5. Range([i \in 1 .. e - a |-> a + i - 1]) = a .. e - 1
    BY <2>3, <2>4 DEF Range
  <2> QED BY <2>1, <2>2, <2>5 DEF a, e
<1>3. TRAMPOLINE \in Vpn
  BY SpaceAssumption DEF Vpn, TRAMPOLINE
<1>4. ASSUME NEW k \in 1 .. Len(s.areas)
      PROVE  s.areas[k].start .. s.areas[k].end - 1 \subseteq V
  <2>1. s.areas[k] \in Range(s.areas) /\ s.areas[k] \in Area
    BY <1>1 DEF Range
  <2> QED BY <1>2, <2>1
<1>5. V \in SUBSET Vpn
  <2>1. \A area \in Range(s.areas) : area \in Area
    BY <1>1 DEF Range
  <2> QED BY <1>2, <1>3, <2>1
<1>6. nodes_to(s) = nodes_of(V)
  BY DEF nodes_to
<1>7. \A W \in SUBSET V : nodes_of(W) \subseteq nodes_of(V)
  BY DEF nodes_of
<1>8. {TRAMPOLINE} \in SUBSET V
  OBVIOUS
<1> HIDE DEF V
<1> QED BY <1>4, <1>5, <1>6, <1>7, <1>8, NodesOf

(* After sys_fork's check, a fork does not run out of frames, as long as   *)
(* root, nodes and kernel stack are within the margin.                     *)
THEOREM ForksFit ==
  Spec => []ForkFits
<1>1. IInv => ForkFits
  <2> SUFFICES ASSUME IInv, NEW p \in Proc, fork_fits(p),
                      1 + Cardinality(nodes_to(space[p])) + KSTACK <= Margin
               PROVE  fork_space(p).status \notin {"full", "out of frames"}
    BY DEF ForkFits
  <2> DEFINE st == from_existed_user(fa, bytes, space[p])
             U == UNION {of(q) : q \in Proc}
             N == nodes_to(space[p])
             c == Cardinality(N)
             n == frames_used(space[p])
  <2>1. Accounts(fa, U) /\ bytes \in [Frame -> Value] /\ space[p] \in Space
    BY Owned DEF IInv
  <2>2. st \in State /\ Fine(st, U)
    BY <2>1, FromExisted
  <2>3. KSTACK \in Nat /\ Margin \in Nat /\ 1 + c + KSTACK <= Margin
    BY SpaceAssumption, MemoryAssumption
  <2>4. n \in Nat
    BY <2>1, UsedNat
  <2>5. usable_frames(fa) >= n + Margin /\ usable_frames(fa) \in Int
    BY <2>1, UsableInt DEF fork_fits, Accounts
  <2>6. /\ IsFiniteSet(N) /\ c \in Nat /\ nodes_of({TRAMPOLINE}) \subseteq N
        /\ \A k \in 1 .. Len(space[p].areas) :
             nodes_of(space[p].areas[k].start .. space[p].areas[k].end - 1) \subseteq N
    BY <2>1, NodesTo
  <2> HIDE DEF n, c, N, U
  <2>7. usable_frames(fa) >= n + KSTACK + 1 + c
    BY <2>3, <2>4, <2>5, <2>6, SMTT(30)
  <2>8. Enough(st, KSTACK, N)
    BY <2>1, <2>3, <2>6, <2>7, CopyEnough DEF n, c
  <2>9. fork_space(p) = new_kernel_stack(st)
    BY DEF fork_space
  <2> HIDE DEF st
  <2>10. Enough(fork_space(p), 0, N)
    BY <2>2, <2>6, <2>8, <2>9, StackEnough
  <2> QED BY <2>10 DEF Enough
<1> QED BY <1>1, SpacesSound, PTL

(* After sys_mmap's check, the pages and their nodes find frames.          *)
THEOREM MmapsFit ==
  Spec => []MmapFits
<1>1. IInv => MmapFits
  <2> SUFFICES ASSUME IInv, NEW p \in Proc, NEW start \in Vpn, NEW n \in 1 .. MaxPages,
                      life[p] = "live", mmap_fits(n, FALSE), ~wraps(start, n)
               PROVE  mmap_space(p, start, n).status \notin {"full", "out of frames"}
    BY DEF MmapFits
  <2> DEFINE st == [fa |-> fa, bytes |-> bytes, space |-> space[p], stack |-> <<>>,
                    status |-> "ok"]
             N == nodes_of(start .. start + n - 1)
             c == Cardinality(N)
             d == Cardinality(N \ names(st.space))
  <2>1. st \in State /\ st.status = "ok"
    BY Start
  <2>2. st.fa = fa /\ mmap_space(p, start, n) = push(st, start, start + n)
    BY DEF mmap_space
  <2> HIDE DEF st
  <2>3. /\ n \in Nat /\ start \in Nat /\ start + n \in Nat /\ start <= start + n
        /\ start + n <= TRAMPOLINE /\ (start + n) - start = n
        /\ start .. start + n - 1 \subseteq Vpn
    BY MemoryAssumption, SpaceAssumption, SMTT(30) DEF Vpn, TRAMPOLINE, wraps
  <2>4. c < Margin /\ Margin \in Nat
    BY <2>3, MarginAssumption, MemoryAssumption
  <2>5. IsFiniteSet(N)
    BY <2>3, NodesOf
  <2>6. c \in Nat /\ d \in Nat /\ d <= c
    <3> HIDE DEF N
    <3> QED BY <2>5, Missing
  <2>7. usable_frames(fa) >= (n - 1) + Margin /\ usable_frames(fa) \in Int
    BY <2>1, <2>2, StateFields, UsableInt DEF mmap_fits
  <2>8. usable_frames(st.fa) >= n + d
    <3> HIDE DEF c, d
    <3> QED BY <2>2, <2>3, <2>4, <2>6, <2>7, SMTT(30)
  <2>9. Enough(st, 0 + ((start + n) - start), N)
    <3>1. Enough(st, n, N)
      BY <2>1, <2>8 DEF Enough, Covers, d
    <3>2. 0 + ((start + n) - start) = n
      BY <2>3, SMTT(30)
    <3> QED BY <3>1, <3>2
  <2>10. Enough(mmap_space(p, start, n), 0, N)
    <3>1. 0 \in Nat /\ nodes_of(start .. (start + n) - 1) \subseteq N
      BY <2>3
    <3> HIDE DEF N
    <3> QED BY <2>1, <2>2, <2>3, <2>5, <2>9, <3>1, PushEnough
  <2> QED BY <2>10 DEF Enough
<1> QED BY <1>1, SpacesSound, PTL
=============================================================================
