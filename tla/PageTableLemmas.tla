--------------------------- MODULE PageTableLemmas --------------------------
(***************************************************************************)
(* Lemmas about the tree of nodes below the root of a page table, as it    *)
(* lies in memory: what writes do to it, and what walks reach; and about   *)
(* the frames of module PageTable and their owners: the invariant IInv,    *)
(* and what the allocator and the walks do to the tables.                  *)
(***************************************************************************)
EXTENDS PageTable, SeqLemmas

USE ZenonT(10), SMTT(30)

Digit == 0 .. Fanout - 1
Flag == {"V", "R", "W", "X", "U"}
PageTableEntry == [ppn : Frame, flags : SUBSET Flag]
Node == [Digit -> PageTableEntry]
cleared == [i \in Digit |-> empty]

(* The entries on the way from the root r to a leaf entry, in memory m.    *)
first(m, r, i) == m[r][i]
second(m, r, i, j) == m[m[r][i].ppn][j]
third(m, r, i, j, k) == m[m[m[r][i].ppn][j].ppn][k]

has_mid(m, r, i) == is_valid(first(m, r, i))
has_leaf(m, r, i, j) == has_mid(m, r, i) /\ is_valid(second(m, r, i, j))
has_page(m, r, i, j, k) == has_leaf(m, r, i, j) /\ is_valid(third(m, r, i, j, k))

(* In memory m, the frames N are a tree below r, in which every node is at *)
(* one place only.                                                         *)
Tree(m, r, N) ==
  /\ r \in N /\ N \subseteq Frame
  /\ \A i \in Digit : has_mid(m, r, i) => first(m, r, i).ppn \in N \ {r}
  /\ \A i, j \in Digit : has_leaf(m, r, i, j) => second(m, r, i, j).ppn \in N \ {r}
  /\ \A i, x \in Digit :
       has_mid(m, r, i) /\ has_mid(m, r, x)
       /\ first(m, r, i).ppn = first(m, r, x).ppn => i = x
  /\ \A i, j, x \in Digit :
       has_leaf(m, r, i, j) /\ has_mid(m, r, x)
       => second(m, r, i, j).ppn # first(m, r, x).ppn
  /\ \A i, j, x, y \in Digit :
       has_leaf(m, r, i, j) /\ has_leaf(m, r, x, y)
       /\ second(m, r, i, j).ppn = second(m, r, x, y).ppn => i = x /\ j = y
  /\ \A n \in N \ {r} :
       \/ \E i \in Digit : has_mid(m, r, i) /\ n = first(m, r, i).ppn
       \/ \E i, j \in Digit : has_leaf(m, r, i, j) /\ n = second(m, r, i, j).ppn

(* The valid leaf entries of the tree are those of the pages in df, and    *)
(* lead to their frames.                                                   *)
Leaves(m, r, df) ==
  /\ \A i, j, k \in Digit : has_page(m, r, i, j, k) =>
       \E vpn \in DOMAIN df : indexes(vpn) = <<i, j, k>>
  /\ \A vpn \in DOMAIN df :
       /\ has_page(m, r, indexes(vpn)[1], indexes(vpn)[2], indexes(vpn)[3])
       /\ third(m, r, indexes(vpn)[1], indexes(vpn)[2], indexes(vpn)[3]).ppn = df[vpn]

(* The data frames after a page is mapped or unmapped.                     *)
Pages(df) ==
  /\ DOMAIN df \subseteq Vpn /\ df \in [DOMAIN df -> Frame]
  /\ IsInjective(df)

-----------------------------------------------------------------------------
(* Frames, entries and indexes.                                            *)

LEMMA FrameFacts == FRAMES \in Nat /\ Frame = 0 .. FRAMES - 1 /\ None \notin Frame
  BY FramesAssumption DEF Frame, None

(* The entry that a store of the model writes.                             *)
LEMMA StoredEntry ==
  ASSUME NEW q \in Frame
  PROVE  [ppn |-> 0, flags |-> {"V", "R", "W"}] \in PageTableEntry
<1>1. 0 \in Frame
  BY FrameFacts
<1> QED BY <1>1 DEF PageTableEntry, Flag

LEMMA EntryTypes ==
  /\ Fanout \in Nat \ {0}
  /\ Frame # {} => empty \in PageTableEntry /\ cleared \in Node
  /\ \A ppn \in Frame : [ppn |-> ppn, flags |-> {"V"}] \in PageTableEntry
<1>1. Fanout \in Nat \ {0}
  BY PageTableAssumption
<1>2. Frame # {} => 0 \in Frame
  BY FrameFacts
<1>3. Frame # {} => empty \in PageTableEntry
  BY <1>2 DEF empty, PageTableEntry
<1> QED BY <1>1, <1>3 DEF cleared, Node, PageTableEntry, Flag

LEMMA IndexFacts ==
  \A vpn \in Nat : \E i, j, k \in Digit : indexes(vpn) = <<i, j, k>>
<1>1. Fanout \in Nat \ {0}
  BY EntryTypes
<1>2. \A n \in Nat : n % Fanout \in Digit
  BY <1>1 DEF Digit
<1>3. Fanout * Fanout \in Nat \ {0}
  BY <1>1
<1>4. \A n \in Nat, d \in Nat \ {0} : n \div d \in Nat
  OBVIOUS
<1> SUFFICES ASSUME NEW vpn \in Nat
             PROVE  \E i, j, k \in Digit : indexes(vpn) = <<i, j, k>>
  OBVIOUS
<1>5. vpn \div (Fanout * Fanout) \in Nat /\ vpn \div Fanout \in Nat
  BY <1>1, <1>3, <1>4
<1>6. /\ (vpn \div (Fanout * Fanout)) % Fanout \in Digit
      /\ (vpn \div Fanout) % Fanout \in Digit /\ vpn % Fanout \in Digit
  BY <1>2, <1>5
<1> QED BY <1>6 DEF indexes

LEMMA PageIndexes ==
  \A vpn \in Vpn : \E i, j, k \in Digit : indexes(vpn) = <<i, j, k>>
<1>1. \A vpn \in Vpn : vpn \in Nat
  BY PageTableAssumption
<1> QED BY <1>1, IndexFacts

(* The indexes of pages in use.                                            *)
LEMMA VpnIndexes ==
  ASSUME NEW df, DOMAIN df \subseteq Vpn
  PROVE  \A vpn \in DOMAIN df : indexes(vpn) \in Digit \X Digit \X Digit
<1>1. \A vpn \in DOMAIN df : vpn \in Nat
  BY PageTableAssumption, Zenon
<1>2. \A vpn \in Nat : indexes(vpn) \in Digit \X Digit \X Digit
  BY IndexFacts
<1> QED BY <1>1, <1>2

-----------------------------------------------------------------------------
(* Trees in memory.                                                        *)

LEMMA DigitFacts ==
  /\ \A i \in Digit : cleared[i] = empty
  /\ ~ is_valid(empty)
  /\ \A p : is_valid([ppn |-> p, flags |-> {"V"}])
  BY DEF cleared, empty, is_valid

LEMMA SecondEntry ==
  \A m, r, i, j : second(m, r, i, j) = m[first(m, r, i).ppn][j]
  BY DEF first, second

LEMMA ThirdEntry ==
  \A m, r, i, j, k : third(m, r, i, j, k) = m[second(m, r, i, j).ppn][k]
  BY DEF second, third

(* Two memories with the same mappings below r.                            *)
SamePages(m, m2, r) ==
  \A x, y, z \in Digit :
    /\ has_page(m2, r, x, y, z) <=> has_page(m, r, x, y, z)
    /\ has_page(m, r, x, y, z) => third(m2, r, x, y, z) = third(m, r, x, y, z)

(* The entry of a page.                                                    *)
LEMMA LeafEntry ==
  ASSUME NEW m, NEW r, NEW df, Leaves(m, r, df),
         NEW vpn \in DOMAIN df, NEW i, NEW j, NEW k, indexes(vpn) = <<i, j, k>>
  PROVE  /\ has_page(m, r, i, j, k) /\ has_leaf(m, r, i, j)
         /\ third(m, r, i, j, k).ppn = df[vpn]
<1>1. indexes(vpn)[1] = i /\ indexes(vpn)[2] = j /\ indexes(vpn)[3] = k
  OBVIOUS
<1>2. has_page(m, r, i, j, k) /\ third(m, r, i, j, k).ppn = df[vpn]
  BY <1>1, Zenon DEF Leaves
<1> QED BY <1>2, Zenon DEF has_page

(* A tree depends on its own frames only.                                  *)
LEMMA TreeLocal ==
  ASSUME NEW m, NEW m2, NEW r, NEW N, NEW df, Tree(m, r, N), Leaves(m, r, df),
         \A n \in N : m2[n] = m[n],
         \A vpn \in DOMAIN df : indexes(vpn) \in Digit \X Digit \X Digit
  PROVE  /\ Tree(m2, r, N) /\ Leaves(m2, r, df)
         /\ SamePages(m, m2, r)
<1>1. \A i \in Digit : first(m2, r, i) = first(m, r, i)
  BY DEF Tree, first
<1>2. \A i \in Digit : has_mid(m2, r, i) <=> has_mid(m, r, i)
  BY <1>1 DEF has_mid
<1>3. \A i, j \in Digit : has_mid(m, r, i) => second(m2, r, i, j) = second(m, r, i, j)
  BY <1>1 DEF Tree, first, second
<1>4. \A i, j \in Digit : has_leaf(m2, r, i, j) <=> has_leaf(m, r, i, j)
  BY <1>2, <1>3 DEF has_leaf
<1>5. \A i, j \in Digit : has_leaf(m, r, i, j) => second(m2, r, i, j) = second(m, r, i, j)
  BY <1>3 DEF has_leaf
<1>6. \A i, j, k \in Digit : has_leaf(m, r, i, j) => third(m2, r, i, j, k) = third(m, r, i, j, k)
  BY <1>5, ThirdEntry, SMTT(30) DEF Tree
<1>7. \A i, j, k \in Digit : has_page(m2, r, i, j, k) <=> has_page(m, r, i, j, k)
  BY <1>4, <1>6 DEF has_page
<1>8. \A i, j, k \in Digit : has_page(m, r, i, j, k) => third(m2, r, i, j, k) = third(m, r, i, j, k)
  BY <1>6 DEF has_page
<1>9. Tree(m2, r, N)
  BY <1>1, <1>2, <1>4, <1>5, SMTT(30) DEF Tree
<1>10. Leaves(m2, r, df)
  BY <1>7, <1>8 DEF Leaves
<1> QED BY <1>7, <1>8, <1>9, <1>10 DEF SamePages

(* A cleared frame p becomes a node: entry i of node a leads to it.        *)
NewNode(m, m2, N, a, i, p) ==
  /\ p \in Frame \ N
  /\ m2[p] = cleared
  /\ \A n \in N \ {a} : m2[n] = m[n]
  /\ \A x \in Digit \ {i} : m2[a][x] = m[a][x]
  /\ m2[a][i] = [ppn |-> p, flags |-> {"V"}]

(* A new node below the root.                                              *)
LEMMA AddMid ==
  ASSUME NEW m, NEW m2, NEW r, NEW N, NEW p, NEW i \in Digit,
         Tree(m, r, N), ~ has_mid(m, r, i), NewNode(m, m2, N, r, i, p)
  PROVE  /\ Tree(m2, r, N \cup {p})
         /\ has_mid(m2, r, i) /\ first(m2, r, i).ppn = p
         /\ \A x, y, z \in Digit :
              /\ has_leaf(m2, r, x, y) <=> has_leaf(m, r, x, y)
              /\ has_leaf(m, r, x, y) => third(m2, r, x, y, z) = third(m, r, x, y, z)
<1>0. /\ p \in Frame /\ p \notin N /\ m2[p] = cleared
      /\ \A n \in N \ {r} : m2[n] = m[n]
      /\ \A x \in Digit \ {i} : m2[r][x] = m[r][x]
      /\ m2[r][i] = [ppn |-> p, flags |-> {"V"}]
  BY DEF NewNode
<1> USE <1>0
<1>1. /\ \A x \in Digit \ {i} : first(m2, r, x) = first(m, r, x)
      /\ first(m2, r, i) = [ppn |-> p, flags |-> {"V"}]
      /\ first(m2, r, i).ppn = p
  BY SMTT(30) DEF first
<1>2. /\ has_mid(m2, r, i)
      /\ \A x \in Digit \ {i} : has_mid(m2, r, x) <=> has_mid(m, r, x)
  BY <1>1, DigitFacts DEF has_mid
<1>3. \A x, y \in Digit :
        has_mid(m, r, x) => x # i /\ second(m2, r, x, y) = second(m, r, x, y)
  BY <1>1, SMTT(30) DEF Tree, first, second
<1>4. \A y \in Digit : ~ has_leaf(m2, r, i, y) /\ ~ has_leaf(m, r, i, y)
  BY <1>1, DigitFacts DEF has_leaf, first, second
<1>5. \A x, y \in Digit : has_leaf(m2, r, x, y) <=> has_leaf(m, r, x, y)
  BY <1>2, <1>3, <1>4 DEF has_leaf
<1>6. \A x, y \in Digit : has_leaf(m, r, x, y) =>
        has_mid(m, r, x) /\ x # i /\ second(m2, r, x, y) = second(m, r, x, y)
  BY <1>3 DEF has_leaf
<1>7. \A x, y, z \in Digit :
        has_leaf(m, r, x, y) => third(m2, r, x, y, z) = third(m, r, x, y, z)
  BY <1>6, ThirdEntry, SMTT(30) DEF Tree
<1>8. Tree(m2, r, N \cup {p})
  <2>1. r \in N \cup {p} /\ N \cup {p} \subseteq Frame /\ r # p
    BY DEF Tree
  <2>2. \A x \in Digit : has_mid(m2, r, x) => first(m2, r, x).ppn \in (N \cup {p}) \ {r}
    BY <1>1, <1>2, <2>1 DEF Tree
  <2>3. \A x, y \in Digit : has_leaf(m2, r, x, y) =>
          second(m2, r, x, y).ppn \in N \ {r}
    BY <1>5, <1>6, SMTT(30) DEF Tree
  <2>4. \A x, y \in Digit :
          has_mid(m2, r, x) /\ has_mid(m2, r, y)
          /\ first(m2, r, x).ppn = first(m2, r, y).ppn => x = y
    BY <1>1, <1>2 DEF Tree
  <2>5. \A x, y, z \in Digit :
          has_leaf(m2, r, x, y) /\ has_mid(m2, r, z)
          => second(m2, r, x, y).ppn # first(m2, r, z).ppn
    BY <1>1, <1>2, <1>5, <1>6, <2>3, SMTT(30) DEF Tree
  <2>6. \A x, y, z, u \in Digit :
          has_leaf(m2, r, x, y) /\ has_leaf(m2, r, z, u)
          /\ second(m2, r, x, y).ppn = second(m2, r, z, u).ppn => x = z /\ y = u
    BY <1>5, <1>6, SMTT(30) DEF Tree
  <2>7. ASSUME NEW n \in (N \cup {p}) \ {r}
        PROVE  \/ \E x \in Digit : has_mid(m2, r, x) /\ n = first(m2, r, x).ppn
               \/ \E x, y \in Digit : has_leaf(m2, r, x, y) /\ n = second(m2, r, x, y).ppn
    <3>1. CASE n = p
      BY <1>1, <1>2, <3>1
    <3>2. CASE \E x \in Digit : has_mid(m, r, x) /\ n = first(m, r, x).ppn
      BY <1>1, <1>2, <3>2
    <3>3. CASE \E x, y \in Digit : has_leaf(m, r, x, y) /\ n = second(m, r, x, y).ppn
      BY <1>5, <1>6, <3>3
    <3> QED BY <3>1, <3>2, <3>3, SMTT(30) DEF Tree
  <2> QED BY <2>1, <2>2, <2>3, <2>4, <2>5, <2>6, <2>7 DEF Tree
<1> QED BY <1>1, <1>2, <1>5, <1>7, <1>8

(* A new node below one of those.                                          *)
LEMMA AddLeaf ==
  ASSUME NEW m, NEW m2, NEW r, NEW N, NEW p,
         NEW i \in Digit, NEW j \in Digit,
         Tree(m, r, N), has_mid(m, r, i), ~ has_leaf(m, r, i, j),
         NewNode(m, m2, N, first(m, r, i).ppn, j, p)
  PROVE  /\ Tree(m2, r, N \cup {p})
         /\ has_leaf(m2, r, i, j) /\ second(m2, r, i, j).ppn = p
         /\ \A z \in Digit : third(m2, r, i, j, z) = empty
         /\ \A x, y, z \in Digit : x # i \/ y # j =>
              /\ has_leaf(m2, r, x, y) <=> has_leaf(m, r, x, y)
              /\ has_leaf(m, r, x, y) => third(m2, r, x, y, z) = third(m, r, x, y, z)
<1>0. PICK a :
        /\ a = first(m, r, i).ppn
        /\ p \in Frame /\ p \notin N /\ m2[p] = cleared
        /\ \A n \in N \ {a} : m2[n] = m[n]
        /\ \A y \in Digit \ {j} : m2[a][y] = m[a][y]
        /\ m2[a][j] = [ppn |-> p, flags |-> {"V"}]
  BY DEF NewNode
<1> USE <1>0
<1>1. a \in N \ {r} /\ a # p /\ r # p
  BY DEF Tree
<1>2. \A x \in Digit : /\ first(m2, r, x) = first(m, r, x)
                       /\ has_mid(m2, r, x) <=> has_mid(m, r, x)
  BY <1>1 DEF Tree, first, has_mid
<1>3. second(m2, r, i, j) = [ppn |-> p, flags |-> {"V"}]
  BY <1>2, SecondEntry
<1>4. \A x, y \in Digit : has_mid(m, r, x) /\ (x # i \/ y # j) =>
        second(m2, r, x, y) = second(m, r, x, y)
  <2> SUFFICES ASSUME NEW x \in Digit, NEW y \in Digit, has_mid(m, r, x), x # i \/ y # j
               PROVE  second(m2, r, x, y) = second(m, r, x, y)
    OBVIOUS
  <2>1. CASE x = i
    BY <1>2, <2>1, SecondEntry
  <2>2. CASE x # i
    <3>1. first(m, r, x).ppn \in N \ {a}
      BY <2>2 DEF Tree
    <3> QED BY <1>2, <3>1, SecondEntry
  <2> QED BY <2>1, <2>2
<1>5. has_leaf(m2, r, i, j) /\ second(m2, r, i, j).ppn = p
  BY <1>2, <1>3, DigitFacts, SMTT(30) DEF has_leaf
<1>6. \A x, y \in Digit : x # i \/ y # j =>
        (has_leaf(m2, r, x, y) <=> has_leaf(m, r, x, y))
  BY <1>2, <1>4 DEF has_leaf
<1>7. \A x, y \in Digit : has_leaf(m, r, x, y) =>
        /\ x # i \/ y # j
        /\ second(m2, r, x, y) = second(m, r, x, y)
        /\ second(m, r, x, y).ppn \in N \ {r, a}
  BY <1>4, SMTT(30) DEF has_leaf, Tree
<1>8. \A z \in Digit : third(m2, r, i, j, z) = empty
  BY <1>5, ThirdEntry, DigitFacts
<1>9. \A x, y, z \in Digit :
        has_leaf(m, r, x, y) => third(m2, r, x, y, z) = third(m, r, x, y, z)
  BY <1>7, ThirdEntry, SMTT(30)
<1>10. \A x, y \in Digit : has_leaf(m2, r, x, y) =>
         \/ x = i /\ y = j
         \/ has_leaf(m, r, x, y) /\ second(m2, r, x, y) = second(m, r, x, y)
  BY <1>6, <1>7
<1>11. Tree(m2, r, N \cup {p})
  <2>1. r \in N \cup {p} /\ N \cup {p} \subseteq Frame
    BY DEF Tree
  <2>2. \A x \in Digit : has_mid(m2, r, x) => first(m2, r, x).ppn \in N \ {r}
    BY <1>2 DEF Tree
  <2>3. \A x, y \in Digit : has_leaf(m2, r, x, y) =>
          second(m2, r, x, y).ppn \in (N \cup {p}) \ {r}
    BY <1>1, <1>5, <1>7, <1>10, SMTT(30)
  <2>4. \A x, y \in Digit :
          has_mid(m2, r, x) /\ has_mid(m2, r, y)
          /\ first(m2, r, x).ppn = first(m2, r, y).ppn => x = y
    BY <1>2 DEF Tree
  <2>5. \A x, y, z \in Digit :
          has_leaf(m2, r, x, y) /\ has_mid(m2, r, z)
          => second(m2, r, x, y).ppn # first(m2, r, z).ppn
    BY <1>2, <1>5, <1>10, <2>2, SMTT(30) DEF Tree
  <2>6. \A x, y, z, u \in Digit :
          has_leaf(m2, r, x, y) /\ has_leaf(m2, r, z, u)
          /\ second(m2, r, x, y).ppn = second(m2, r, z, u).ppn => x = z /\ y = u
    BY <1>5, <1>7, <1>10, SMTT(30) DEF Tree
  <2>7. ASSUME NEW n \in (N \cup {p}) \ {r}
        PROVE  \/ \E x \in Digit : has_mid(m2, r, x) /\ n = first(m2, r, x).ppn
               \/ \E x, y \in Digit : has_leaf(m2, r, x, y) /\ n = second(m2, r, x, y).ppn
    <3>1. CASE n = p
      BY <1>5, <3>1
    <3>2. CASE \E x \in Digit : has_mid(m, r, x) /\ n = first(m, r, x).ppn
      BY <1>2, <3>2
    <3>3. CASE \E x, y \in Digit : has_leaf(m, r, x, y) /\ n = second(m, r, x, y).ppn
      BY <1>6, <1>7, <3>3, SMTT(30)
    <3> QED BY <3>1, <3>2, <3>3, SMTT(30) DEF Tree
  <2> QED BY <2>1, <2>2, <2>3, <2>4, <2>5, <2>6, <2>7 DEF Tree
<1> QED BY <1>5, <1>6, <1>8, <1>9, <1>11

(* Two memories with the same mappings below r, but for one entry.         *)
SameBut(m, m2, r, i, j, k) ==
  \A x, y, z \in Digit : x # i \/ y # j \/ z # k =>
    /\ has_page(m2, r, x, y, z) <=> has_page(m, r, x, y, z)
    /\ has_page(m, r, x, y, z) => third(m2, r, x, y, z) = third(m, r, x, y, z)

LEMMA SameButSame ==
  ASSUME NEW m, NEW m1, NEW m2, NEW m3, NEW r, NEW i, NEW j, NEW k,
         SamePages(m, m1, r), SamePages(m1, m2, r), SameBut(m2, m3, r, i, j, k)
  PROVE  SameBut(m, m3, r, i, j, k)
<1> SUFFICES ASSUME NEW x \in Digit, NEW y \in Digit, NEW z \in Digit,
                    x # i \/ y # j \/ z # k
             PROVE  /\ has_page(m3, r, x, y, z) <=> has_page(m, r, x, y, z)
                    /\ has_page(m, r, x, y, z) =>
                         third(m3, r, x, y, z) = third(m, r, x, y, z)
  BY DEF SameBut
<1>1. /\ has_page(m1, r, x, y, z) <=> has_page(m, r, x, y, z)
      /\ has_page(m, r, x, y, z) => third(m1, r, x, y, z) = third(m, r, x, y, z)
  BY Zenon DEF SamePages
<1>2. /\ has_page(m2, r, x, y, z) <=> has_page(m1, r, x, y, z)
      /\ has_page(m1, r, x, y, z) => third(m2, r, x, y, z) = third(m1, r, x, y, z)
  BY Zenon DEF SamePages
<1>3. /\ has_page(m3, r, x, y, z) <=> has_page(m2, r, x, y, z)
      /\ has_page(m2, r, x, y, z) => third(m3, r, x, y, z) = third(m2, r, x, y, z)
  BY Zenon DEF SameBut
<1> QED BY <1>1, <1>2, <1>3, Zenon

(* Entry k of node b is set to e.                                          *)
NewEntry(m, m2, N, b, k, e) ==
  /\ \A n \in N \ {b} : m2[n] = m[n]
  /\ \A z \in Digit \ {k} : m2[b][z] = m[b][z]
  /\ m2[b][k] = e

(* Writing one entry.                                                      *)
LEMMA WriteEntry ==
  ASSUME NEW m \in [Frame -> Node], NEW b \in Frame, NEW k \in Digit,
         NEW e \in PageTableEntry, NEW m2, m2 = [m EXCEPT ![b][k] = e]
  PROVE  /\ m2 \in [Frame -> Node]
         /\ \A n \in Frame \ {b} : m2[n] = m[n]
         /\ \A N \in SUBSET Frame : NewEntry(m, m2, N, b, k, e)
<1>1. m[b] \in [Digit -> PageTableEntry]
  BY DEF Node
<1>2. PICK c : c = [m[b] EXCEPT ![k] = e]
  OBVIOUS
<1>3. c \in Node /\ c[k] = e /\ \A z \in Digit \ {k} : c[z] = m[b][z]
  BY <1>1, <1>2 DEF Node
<1>4. m2 = [m EXCEPT ![b] = c]
  BY <1>2
<1>5. m2 \in [Frame -> Node] /\ m2[b] = c /\ \A n \in Frame \ {b} : m2[n] = m[n]
  BY <1>3, <1>4, Zenon
<1> QED BY <1>3, <1>5, Zenon DEF NewEntry

(* A new value of a leaf entry.                                            *)
LEMMA SetLeafEntry ==
  ASSUME NEW m, NEW m2, NEW r, NEW N, NEW i \in Digit, NEW j \in Digit, NEW k \in Digit,
         NEW e, Tree(m, r, N), has_leaf(m, r, i, j),
         NewEntry(m, m2, N, second(m, r, i, j).ppn, k, e)
  PROVE  /\ Tree(m2, r, N) /\ has_leaf(m2, r, i, j)
         /\ third(m2, r, i, j, k) = e
         /\ SameBut(m, m2, r, i, j, k)
<1>0. PICK b :
        /\ b = second(m, r, i, j).ppn
        /\ \A n \in N \ {b} : m2[n] = m[n]
        /\ \A z \in Digit \ {k} : m2[b][z] = m[b][z]
        /\ m2[b][k] = e
  BY DEF NewEntry
<1> USE <1>0
<1>1. b \in N \ {r} /\ has_mid(m, r, i) /\ b # first(m, r, i).ppn
  BY SMTT(30) DEF Tree, has_leaf
<1>2. \A x \in Digit : /\ first(m2, r, x) = first(m, r, x)
                       /\ has_mid(m2, r, x) <=> has_mid(m, r, x)
  BY <1>1 DEF Tree, first, has_mid
<1>3. \A x, y \in Digit : has_mid(m, r, x) => second(m2, r, x, y) = second(m, r, x, y)
  <2>1. \A x \in Digit : has_mid(m, r, x) => first(m, r, x).ppn \in N \ {b}
    BY SMTT(30) DEF Tree
  <2> QED BY <1>2, <2>1, SecondEntry, SMTT(30)
<1>4. \A x, y \in Digit : has_leaf(m2, r, x, y) <=> has_leaf(m, r, x, y)
  BY <1>2, <1>3 DEF has_leaf
<1>5. \A x, y \in Digit : has_leaf(m, r, x, y) => second(m2, r, x, y) = second(m, r, x, y)
  BY <1>3 DEF has_leaf
<1>6. third(m2, r, i, j, k) = e
  BY <1>5, ThirdEntry
<1>7. ASSUME NEW x \in Digit, NEW y \in Digit, NEW z \in Digit,
             has_leaf(m, r, x, y), x # i \/ y # j \/ z # k
      PROVE  third(m2, r, x, y, z) = third(m, r, x, y, z)
  <2>1. CASE x = i /\ y = j
    BY <1>5, <1>7, <2>1, ThirdEntry
  <2>2. CASE ~ (x = i /\ y = j)
    <3>1. second(m, r, x, y).ppn \in N \ {b}
      BY <1>7, <2>2 DEF Tree
    <3> QED BY <1>5, <1>7, <3>1, ThirdEntry
  <2> QED BY <2>1, <2>2
<1>8. Tree(m2, r, N)
  BY <1>2, <1>4, <1>5, SMTT(30) DEF Tree
<1>9. SameBut(m, m2, r, i, j, k)
  BY <1>4, <1>7, ZenonT(60) DEF SameBut, has_page
<1> QED BY <1>4, <1>6, <1>8, <1>9

LEMMA LeavesAdd ==
  ASSUME NEW m, NEW m2, NEW r, NEW df, Leaves(m, r, df), DOMAIN df \subseteq Vpn,
         NEW vpn \in Vpn, NEW i \in Digit, NEW j \in Digit, NEW k \in Digit,
         indexes(vpn) = <<i, j, k>>, SameBut(m, m2, r, i, j, k),
         NEW p, has_page(m2, r, i, j, k), third(m2, r, i, j, k).ppn = p,
         NEW df2, DOMAIN df2 = DOMAIN df \cup {vpn}, df2[vpn] = p,
         \A v \in DOMAIN df : df2[v] = df[v], vpn \notin DOMAIN df
  PROVE  Leaves(m2, r, df2)
<1>1. ASSUME NEW x \in Digit, NEW y \in Digit, NEW z \in Digit, has_page(m2, r, x, y, z)
      PROVE  \E v \in DOMAIN df2 : indexes(v) = <<x, y, z>>
  <2>1. CASE x = i /\ y = j /\ z = k
    BY <2>1
  <2>2. CASE x # i \/ y # j \/ z # k
    <3>1. has_page(m, r, x, y, z)
      BY <1>1, <2>2 DEF SameBut
    <3>2. PICK v \in DOMAIN df : indexes(v) = <<x, y, z>>
      BY <3>1, Zenon DEF Leaves
    <3> QED BY <3>2, Zenon
  <2> QED BY <2>1, <2>2, Zenon
<1>2. ASSUME NEW v \in DOMAIN df2
      PROVE  /\ has_page(m2, r, indexes(v)[1], indexes(v)[2], indexes(v)[3])
             /\ third(m2, r, indexes(v)[1], indexes(v)[2], indexes(v)[3]).ppn = df2[v]
  <2>1. CASE v = vpn
    BY <2>1, SMTT(30)
  <2>2. CASE v # vpn
    <3>1. v \in DOMAIN df /\ v \in Vpn /\ v \in Nat
      BY <2>2, PageTableAssumption, Zenon
    <3>2. PICK x, y, z \in Digit : indexes(v) = <<x, y, z>>
      BY <3>1, IndexFacts
    <3>3. indexes(v) # indexes(vpn)
      BY <2>2, <3>1, PageTableAssumption
    <3>4. x # i \/ y # j \/ z # k
      BY <3>2, <3>3
    <3>5. has_page(m, r, x, y, z) /\ third(m, r, x, y, z).ppn = df[v]
      BY <3>1, <3>2, SMTT(30) DEF Leaves
    <3>6. has_page(m2, r, x, y, z) /\ third(m2, r, x, y, z).ppn = df2[v]
      BY <3>1, <3>4, <3>5 DEF SameBut
    <3> QED BY <3>2, <3>6, SMTT(30)
  <2> QED BY <2>1, <2>2
<1> QED BY <1>1, <1>2, Zenon DEF Leaves

LEMMA LeavesRemove ==
  ASSUME NEW m, NEW m2, NEW r, NEW df, Leaves(m, r, df), DOMAIN df \subseteq Vpn,
         NEW vpn \in Vpn, NEW i \in Digit, NEW j \in Digit, NEW k \in Digit,
         indexes(vpn) = <<i, j, k>>, SameBut(m, m2, r, i, j, k),
         ~ has_page(m2, r, i, j, k),
         NEW df2, DOMAIN df2 = DOMAIN df \ {vpn}, \A v \in DOMAIN df2 : df2[v] = df[v]
  PROVE  Leaves(m2, r, df2)
<1>1. ASSUME NEW x \in Digit, NEW y \in Digit, NEW z \in Digit, has_page(m2, r, x, y, z)
      PROVE  \E v \in DOMAIN df2 : indexes(v) = <<x, y, z>>
  <2>1. x # i \/ y # j \/ z # k
    BY <1>1
  <2>2. has_page(m, r, x, y, z)
    BY <1>1, <2>1 DEF SameBut
  <2>3. PICK v \in DOMAIN df : indexes(v) = <<x, y, z>>
    BY <2>2 DEF Leaves
  <2>4. v # vpn
    BY <2>1, <2>3
  <2> QED BY <2>3, <2>4
<1>2. ASSUME NEW v \in DOMAIN df2
      PROVE  /\ has_page(m2, r, indexes(v)[1], indexes(v)[2], indexes(v)[3])
             /\ third(m2, r, indexes(v)[1], indexes(v)[2], indexes(v)[3]).ppn = df2[v]
  <2>1. v \in DOMAIN df /\ v \in Vpn /\ v \in Nat /\ v # vpn
    BY PageTableAssumption, Zenon
  <2>2. PICK x, y, z \in Digit : indexes(v) = <<x, y, z>>
    BY <2>1, IndexFacts
  <2>3. indexes(v) # indexes(vpn)
    BY <2>1, PageTableAssumption
  <2>4. x # i \/ y # j \/ z # k
    BY <2>2, <2>3
  <2>5. has_page(m, r, x, y, z) /\ third(m, r, x, y, z).ppn = df[v]
    BY <2>1, <2>2, SMTT(30) DEF Leaves
  <2>6. has_page(m2, r, x, y, z) /\ third(m2, r, x, y, z).ppn = df2[v]
    BY <2>1, <2>4, <2>5, SMTT(30) DEF SameBut
  <2> QED BY <2>2, <2>6, SMTT(30)
<1> QED BY <1>1, <1>2 DEF Leaves

-----------------------------------------------------------------------------
(* Frames and their owners.                                                *)

nodes(t) == Range(page_table[t].frames)
data(t) == Range(data_frames[t])
owned(t) == nodes(t) \cup data(t)
in_use == UNION {owned(t) : t \in Table}

Allocator == [current : 0 .. FRAMES, recycled : Seq(Frame)]

(* The allocator has handed out the frames below current, and those that   *)
(* are not in use are recycled, once each.                                 *)
Accounts(f, used) ==
  /\ f \in Allocator
  /\ IsInjective(f.recycled)
  /\ used \cap Range(f.recycled) = {}
  /\ used \cup Range(f.recycled) = 0 .. f.current - 1

(* The types of the variables.                                             *)
Typed ==
  /\ mem \in [Frame -> Node]
  /\ page_table \in [Table -> [root_ppn : Frame \cup {None}, frames : Seq(Frame)]]
  /\ data_frames = [t \in Table |-> data_frames[t]]
  /\ \A t \in Table :
       /\ DOMAIN data_frames[t] \subseteq Vpn
       /\ data_frames[t] \in [DOMAIN data_frames[t] -> Frame]

(* No frame has two owners or two uses, and none is lost.                  *)
FramesOwnedOnce ==
  /\ Accounts(fa, in_use)
  /\ \A t \in Table :
       /\ IsInjective(page_table[t].frames) /\ IsInjective(data_frames[t])
       /\ nodes(t) \cap data(t) = {}
  /\ \A t, u \in Table : t # u => owned(t) \cap owned(u) = {}

(* A table that exists is a tree whose leaves are its pages.               *)
TablesAreTrees ==
  \A t \in Table :
    IF exists(t)
    THEN /\ Tree(mem, page_table[t].root_ppn, nodes(t))
         /\ Leaves(mem, page_table[t].root_ppn, data_frames[t])
    ELSE page_table[t].frames = <<>> /\ data_frames[t] = no_frames

(* The inductive invariant.                                                *)
IInv == Typed /\ FramesOwnedOnce /\ TablesAreTrees

-----------------------------------------------------------------------------
(* The frame allocator.                                                    *)

LEMMA AllocatorFields ==
  ASSUME NEW f \in [current : 0 .. FRAMES, recycled : Seq(Frame)], NEW ppn, NEW ppns \in Seq(Frame)
  PROVE  /\ f.current \in 0 .. FRAMES /\ f.recycled \in Seq(Frame)
         /\ alloc(f) = IF f.recycled # <<>>
                       THEN [current |-> f.current, recycled |-> SubSeq(f.recycled, 1, Len(f.recycled) - 1)]
                       ELSE [current |-> f.current + 1, recycled |-> f.recycled]
         /\ dealloc(f, ppn) =
              [current |-> f.current, recycled |-> Append(f.recycled, ppn)]
         /\ dealloc_all(f, ppns) =
              [current |-> f.current, recycled |-> f.recycled \o ppns]
<1>1. f.current \in 0 .. FRAMES /\ f.recycled \in Seq(Frame)
  OBVIOUS
<1>2. alloc(f) = IF f.recycled # <<>>
                 THEN [current |-> f.current, recycled |-> SubSeq(f.recycled, 1, Len(f.recycled) - 1)]
                 ELSE [current |-> f.current + 1, recycled |-> f.recycled]
  <2> DEFINE front == SubSeq(f.recycled, 1, Len(f.recycled) - 1)
  <2>1. alloc(f) = IF f.recycled # <<>> THEN [f EXCEPT !.recycled = front]
                   ELSE [f EXCEPT !.current = f.current + 1]
    BY DEF alloc
  <2> HIDE DEF front
  <2>2. alloc(f) = IF f.recycled # <<>> THEN [current |-> f.current, recycled |-> front]
                   ELSE [current |-> f.current + 1, recycled |-> f.recycled]
    BY <2>1
  <2> QED BY <2>2 DEF front
<1>3. dealloc(f, ppn) = [current |-> f.current, recycled |-> Append(f.recycled, ppn)]
  BY DEF dealloc
<1>4. dealloc_all(f, ppns) = [current |-> f.current, recycled |-> f.recycled \o ppns]
  <2> DEFINE after == f.recycled \o ppns
  <2>1. dealloc_all(f, ppns) = [f EXCEPT !.recycled = after]
    BY DEF dealloc_all
  <2> HIDE DEF after
  <2>2. dealloc_all(f, ppns) = [current |-> f.current, recycled |-> after]
    BY <2>1
  <2> QED BY <2>2 DEF after
<1> QED BY <1>1, <1>2, <1>3, <1>4

(* alloc hands out a frame that is not in use, and accounts for it.        *)
LEMMA AllocAccounts ==
  ASSUME NEW f, NEW used, Accounts(f, used), can_alloc(f)
  PROVE  /\ next_frame(f) \in Frame
         /\ next_frame(f) \notin used
         /\ Accounts(alloc(f), used \cup {next_frame(f)})
         /\ usable_frames(alloc(f)) = usable_frames(f) - 1
<1>1. /\ f.current \in 0 .. FRAMES /\ f.recycled \in Seq(Frame)
      /\ IsInjective(f.recycled) /\ used \cap Range(f.recycled) = {}
      /\ used \cup Range(f.recycled) = 0 .. f.current - 1
      /\ FRAMES \in Nat /\ Frame = 0 .. FRAMES - 1
      /\ Len(f.recycled) \in Nat
  BY FrameFacts, AllocatorFields, SeqFacts, SMTT(30) DEF Accounts, Allocator
<1>2. CASE f.recycled # <<>>
  <2> DEFINE front == SubSeq(f.recycled, 1, Len(f.recycled) - 1)
             last == f.recycled[Len(f.recycled)]
  <2>1. /\ front \in Seq(Frame)
        /\ last \in Frame
        /\ last \in Range(f.recycled)
        /\ Range(front) = Range(f.recycled) \ {last}
        /\ IsInjective(front)
        /\ Len(front) = Len(f.recycled) - 1
    BY <1>1, <1>2, PopRange, Zenon
  <2>2. /\ next_frame(f) = last
        /\ alloc(f) = [current |-> f.current, recycled |-> front]
    BY <1>1, <1>2, AllocatorFields, Zenon DEF next_frame, Accounts, Allocator
  <2> HIDE DEF front, last
  <2>4. Accounts(alloc(f), used \cup {next_frame(f)})
    BY <1>1, <2>1, <2>2, SMTT(30) DEF Accounts, Allocator
  <2>5. usable_frames(alloc(f)) = usable_frames(f) - 1
    <3>1. alloc(f).current = f.current /\ Len(alloc(f).recycled) = Len(f.recycled) - 1
      BY <2>1, <2>2
    <3>2. f.current \in Nat /\ Len(f.recycled) \in Nat /\ FRAMES \in Nat
      BY <1>1, SMTT(30)
    <3>3. /\ usable_frames(alloc(f)) = FRAMES - f.current + (Len(f.recycled) - 1)
          /\ usable_frames(f) = FRAMES - f.current + Len(f.recycled)
      BY <3>1 DEF usable_frames
    <3>4. \A a, b, c \in Nat : a - b + (c - 1) = a - b + c - 1
      OBVIOUS
    <3> QED BY <3>2, <3>3, <3>4
  <2> QED BY <1>1, <2>1, <2>2, <2>4, <2>5
<1>3. CASE f.recycled = <<>>
  <2>1. f.current # FRAMES /\ f.current \in Frame
    BY <1>1, <1>3, SMTT(30) DEF can_alloc
  <2>2. /\ next_frame(f) = f.current
        /\ alloc(f) = [current |-> f.current + 1, recycled |-> f.recycled]
    BY <1>1, <1>3, AllocatorFields DEF next_frame, Accounts, Allocator
  <2>3. Accounts(alloc(f), used \cup {next_frame(f)})
    <3>1. Range(f.recycled) = {}
      BY <1>3, EmptySeqFacts DEF Range
    <3>2. used = 0 .. f.current - 1
      BY <1>1, <3>1
    <3>3. used \cup {f.current} = 0 .. (f.current + 1) - 1
      BY <1>1, <3>2, SMTT(30)
    <3>4. f.current + 1 \in 0 .. FRAMES
      BY <1>1, <2>1, SMTT(30)
    <3> QED BY <1>1, <2>2, <3>1, <3>3, <3>4, SMTT(30) DEF Accounts, Allocator
  <2>4. usable_frames(alloc(f)) = usable_frames(f) - 1
    <3>1. alloc(f).current = f.current + 1 /\ alloc(f).recycled = f.recycled
      BY <2>2
    <3> QED BY <1>1, <3>1, SMTT(30) DEF usable_frames
  <2> QED BY <1>1, <2>1, <2>2, <2>3, <2>4, SMTT(30)
<1> QED BY <1>2, <1>3

(* Frames that are left can be handed out.                                 *)
LEMMA UsableMeansAlloc ==
  ASSUME NEW f, NEW used, Accounts(f, used), usable_frames(f) >= 1
  PROVE  can_alloc(f)
<1>1. f.current \in 0 .. FRAMES /\ f.recycled \in Seq(Frame) /\ FRAMES \in Nat
  BY FrameFacts, AllocatorFields DEF Accounts, Allocator
<1>2. f.recycled = <<>> => Len(f.recycled) = 0
  BY EmptySeqFacts
<1> QED BY <1>1, <1>2 DEF usable_frames, can_alloc

(* dealloc of frames that were in use.                                     *)
LEMMA DeallocAccounts ==
  ASSUME NEW f, NEW used, Accounts(f, used),
         NEW ppns \in Seq(Frame), IsInjective(ppns), Range(ppns) \subseteq used
  PROVE  Accounts(dealloc_all(f, ppns), used \ Range(ppns))
<1>1. /\ f.current \in 0 .. FRAMES /\ f.recycled \in Seq(Frame)
      /\ IsInjective(f.recycled) /\ used \cap Range(f.recycled) = {}
      /\ used \cup Range(f.recycled) = 0 .. f.current - 1
  BY AllocatorFields DEF Accounts, Allocator
<1>2. dealloc_all(f, ppns) = [current |-> f.current, recycled |-> f.recycled \o ppns]
  BY AllocatorFields, Zenon DEF Accounts, Allocator
<1>3. /\ f.recycled \o ppns \in Seq(Frame)
      /\ Range(f.recycled \o ppns) = Range(f.recycled) \cup Range(ppns)
      /\ IsInjective(f.recycled \o ppns)
  BY <1>1, ConcatRange, SMTT(30)
<1> QED BY <1>1, <1>2, <1>3, SMTT(30) DEF Accounts, Allocator

LEMMA DeallocOne ==
  ASSUME NEW f, NEW used, Accounts(f, used), NEW ppn \in used, ppn \in Frame
  PROVE  Accounts(dealloc(f, ppn), used \ {ppn})
<1>1. /\ f.current \in 0 .. FRAMES /\ f.recycled \in Seq(Frame)
      /\ IsInjective(f.recycled) /\ used \cap Range(f.recycled) = {}
      /\ used \cup Range(f.recycled) = 0 .. f.current - 1
  BY AllocatorFields DEF Accounts, Allocator
<1>2. dealloc(f, ppn) = [current |-> f.current, recycled |-> Append(f.recycled, ppn)]
  BY AllocatorFields DEF Accounts, Allocator
<1>3. /\ Append(f.recycled, ppn) \in Seq(Frame)
      /\ Range(Append(f.recycled, ppn)) = Range(f.recycled) \cup {ppn}
      /\ IsInjective(Append(f.recycled, ppn))
  BY <1>1, AppendRange, SMTT(30)
<1> QED BY <1>1, <1>2, <1>3, SMTT(30) DEF Accounts, Allocator

-----------------------------------------------------------------------------
(* Walks.                                                                  *)

WalkState == [fa : Allocator, mem : [Frame -> Node], frames : Seq(Frame), at : Frame]

(* The fields of a walk, changed one after the other.                      *)
LEMMA WalkFields ==
  ASSUME NEW w \in [fa : Allocator, mem : [Frame -> Node], frames : Seq(Frame), at : Frame],
         NEW f2, NEW m2, NEW s2, NEW a2
  PROVE  /\ [w EXCEPT !.mem = m2, !.fa = f2] =
              [fa |-> f2, mem |-> m2, frames |-> w.frames, at |-> w.at]
         /\ [w EXCEPT !.mem = m2, !.frames = s2, !.at = a2] =
              [fa |-> w.fa, mem |-> m2, frames |-> s2, at |-> a2]
<1>1. PICK v : v = [w EXCEPT !.mem = m2]
  BY Zenon
<1>2. /\ v = [fa |-> w.fa, mem |-> m2, frames |-> w.frames, at |-> w.at]
      /\ [w EXCEPT !.mem = m2, !.fa = f2] = [v EXCEPT !.fa = f2]
      /\ [w EXCEPT !.mem = m2, !.frames = s2, !.at = a2] =
           [v EXCEPT !.frames = s2, !.at = a2]
  BY <1>1
<1>3. [v EXCEPT !.fa = f2] = [fa |-> f2, mem |-> m2, frames |-> w.frames, at |-> w.at]
  BY <1>2, SMTT(30)
<1>4. PICK u : u = [v EXCEPT !.frames = s2]
  BY Zenon
<1>5. /\ u = [fa |-> w.fa, mem |-> m2, frames |-> s2, at |-> w.at]
      /\ [v EXCEPT !.frames = s2, !.at = a2] = [u EXCEPT !.at = a2]
  BY <1>2, <1>4
<1>6. [u EXCEPT !.at = a2] = [fa |-> w.fa, mem |-> m2, frames |-> s2, at |-> a2]
  BY <1>5, SMTT(30)
<1> QED BY <1>2, <1>3, <1>5, <1>6

LEMMA FrameAllocFields ==
  ASSUME NEW w \in WalkState
  PROVE  frame_alloc(w) = [fa |-> alloc(w.fa),
                           mem |-> [w.mem EXCEPT ![next_frame(w.fa)] = cleared],
                           frames |-> w.frames, at |-> w.at]
<1> DEFINE m2 == [w.mem EXCEPT ![next_frame(w.fa)] = cleared]
           f2 == alloc(w.fa)
<1>1. frame_alloc(w) = [w EXCEPT !.mem = m2, !.fa = f2]
  BY DEF frame_alloc, cleared, Digit
<1> HIDE DEF m2, f2
<1>2. frame_alloc(w) = [fa |-> f2, mem |-> m2, frames |-> w.frames, at |-> w.at]
  BY <1>1, WalkFields, Zenon DEF WalkState
<1> QED BY <1>2 DEF m2, f2

LEMMA DescendFields ==
  ASSUME NEW w \in WalkState, NEW i \in Digit
  PROVE  LET ppn == next_frame(w.fa)
             fresh == [w.mem EXCEPT ![ppn] = cleared]
         IN /\ is_valid(w.mem[w.at][i]) =>
                 descend_create(w, i) =
                   [fa |-> w.fa, mem |-> w.mem, frames |-> w.frames,
                    at |-> w.mem[w.at][i].ppn]
            /\ ~ is_valid(w.mem[w.at][i]) /\ ppn \in Frame /\ alloc(w.fa) \in Allocator =>
                 descend_create(w, i) =
                   [fa |-> alloc(w.fa),
                    mem |-> [fresh EXCEPT ![w.at][i] = [ppn |-> ppn, flags |-> {"V"}]],
                    frames |-> Append(w.frames, ppn), at |-> ppn]
<1> DEFINE ppn == next_frame(w.fa)
           fresh == [w.mem EXCEPT ![ppn] = cleared]
           m2 == [fresh EXCEPT ![w.at][i] = [ppn |-> ppn, flags |-> {"V"}]]
           s2 == Append(w.frames, ppn)
           v == frame_alloc(w)
<1>1. CASE is_valid(w.mem[w.at][i])
  BY <1>1 DEF descend_create, WalkState
<1>2. CASE ~ is_valid(w.mem[w.at][i]) /\ ppn \in Frame /\ alloc(w.fa) \in Allocator
  <2>1. v = [fa |-> alloc(w.fa), mem |-> fresh, frames |-> w.frames, at |-> w.at]
    BY FrameAllocFields
  <2>2. fresh \in [Frame -> Node] /\ w.frames \in Seq(Frame) /\ w.at \in Frame
    BY <1>2, EntryTypes DEF WalkState
  <2>3. v \in [fa : Allocator, mem : [Frame -> Node], frames : Seq(Frame), at : Frame]
    BY <1>2, <2>1, <2>2, SMTT(30)
  <2>4. descend_create(w, i) = [v EXCEPT !.mem = m2, !.frames = s2, !.at = ppn]
    <3>1. v.mem = fresh /\ v.frames = w.frames
      BY <2>1
    <3> QED BY <1>2, <3>1 DEF descend_create
  <2> HIDE DEF m2, s2, fresh, v
  <2>5. descend_create(w, i) = [fa |-> v.fa, mem |-> m2, frames |-> s2, at |-> ppn]
    BY <2>3, <2>4, WalkFields, Zenon
  <2>6. v.fa = alloc(w.fa)
    BY <2>1
  <2> QED BY <1>2, <2>5, <2>6 DEF m2, s2, fresh
<1> QED BY <1>1, <1>2

(* A walk in the table with root r, beside the other frames U in use.      *)
Walk(w, U, r) ==
  /\ w \in WalkState /\ IsInjective(w.frames)
  /\ U \cap Range(w.frames) = {}
  /\ Accounts(w.fa, U \cup Range(w.frames))
  /\ Tree(w.mem, r, Range(w.frames))

LEMMA WalkFacts ==
  ASSUME NEW w, NEW U, NEW r, Walk(w, U, r)
  PROVE  /\ w.fa \in Allocator /\ w.mem \in [Frame -> Node]
         /\ w.frames \in Seq(Frame) /\ w.at \in Frame
         /\ Range(w.frames) \subseteq Frame /\ r \in Range(w.frames) /\ r \in Frame
  BY DEF Walk, WalkState, Tree

(* A node that is missing is created in a frame that was not in use.       *)
LEMMA CreateNode ==
  ASSUME NEW w, NEW U, NEW r, Walk(w, U, r), NEW i \in Digit,
         w.at \in Range(w.frames), ~ is_valid(w.mem[w.at][i]), can_alloc(w.fa),
         NEW w2, w2 = descend_create(w, i), NEW p, p = next_frame(w.fa)
  PROVE  /\ p \in Frame /\ p \notin U /\ p \notin Range(w.frames)
         /\ w2 \in WalkState /\ w2.at = p
         /\ IsInjective(w2.frames) /\ Range(w2.frames) = Range(w.frames) \cup {p}
         /\ Accounts(w2.fa, U \cup Range(w2.frames))
         /\ usable_frames(w2.fa) = usable_frames(w.fa) - 1
         /\ NewNode(w.mem, w2.mem, Range(w.frames), w.at, i, p)
         /\ \A n \in Frame \ {p, w.at} : w2.mem[n] = w.mem[n]
<1> DEFINE e == [ppn |-> p, flags |-> {"V"}]
           fresh == [w.mem EXCEPT ![p] = cleared]
           m2 == [fresh EXCEPT ![w.at][i] = e]
<1>1. /\ w \in WalkState /\ IsInjective(w.frames) /\ w.mem \in [Frame -> Node]
      /\ w.frames \in Seq(Frame) /\ w.at \in Frame /\ U \cap Range(w.frames) = {}
      /\ Accounts(w.fa, U \cup Range(w.frames))
  BY WalkFacts, Zenon DEF Walk
<1>2. /\ p \in Frame /\ p \notin U /\ p \notin Range(w.frames)
      /\ Accounts(alloc(w.fa), (U \cup Range(w.frames)) \cup {p})
      /\ usable_frames(alloc(w.fa)) = usable_frames(w.fa) - 1
  <2> DEFINE used == U \cup Range(w.frames)
  <2>1. Accounts(w.fa, used)
    BY <1>1
  <2> HIDE DEF used
  <2>2. /\ p \in Frame /\ p \notin used /\ Accounts(alloc(w.fa), used \cup {p})
        /\ usable_frames(alloc(w.fa)) = usable_frames(w.fa) - 1
    BY <2>1, AllocAccounts
  <2> QED BY <2>2 DEF used
<1>3. alloc(w.fa) \in Allocator
  BY <1>2 DEF Accounts
<1>4. w2 = [fa |-> alloc(w.fa), mem |-> m2, frames |-> Append(w.frames, p), at |-> p]
  BY <1>1, <1>2, <1>3, DescendFields, Zenon
<1>5. /\ fresh \in [Frame -> Node] /\ e \in PageTableEntry /\ fresh[p] = cleared
      /\ \A n \in Frame \ {p} : fresh[n] = w.mem[n]
  BY <1>1, <1>2, EntryTypes
<1>6. w.at # p
  BY <1>2
<1>7. /\ m2 \in [Frame -> Node] /\ m2[p] = cleared
      /\ \A n \in Frame \ {p, w.at} : m2[n] = w.mem[n]
      /\ \A x \in Digit \ {i} : m2[w.at][x] = w.mem[w.at][x]
      /\ m2[w.at][i] = e
  <2> HIDE DEF fresh, e
  <2>1. fresh[w.at] \in Node /\ [fresh[w.at] EXCEPT ![i] = e] \in Node
    BY <1>1, <1>5 DEF Node
  <2>2. m2 = [fresh EXCEPT ![w.at] = [fresh[w.at] EXCEPT ![i] = e]]
    OBVIOUS
  <2>3. /\ m2 \in [Frame -> Node] /\ m2[p] = cleared
        /\ \A n \in Frame \ {p, w.at} : m2[n] = w.mem[n]
        /\ m2[w.at] = [fresh[w.at] EXCEPT ![i] = e]
    BY <1>1, <1>2, <1>5, <1>6, <2>1, <2>2
  <2> HIDE DEF m2
  <2> QED BY <1>1, <1>5, <1>6, <2>1, <2>3, SMTT(30) DEF Node
<1>8. /\ Append(w.frames, p) \in Seq(Frame)
      /\ Range(Append(w.frames, p)) = Range(w.frames) \cup {p}
      /\ IsInjective(Append(w.frames, p))
  BY <1>1, <1>2, AppendRange, SMTT(30)
<1> HIDE DEF m2, e, fresh
<1>9. w2 \in WalkState /\ w2.at = p /\ w2.fa = alloc(w.fa) /\ w2.mem = m2
      /\ w2.frames = Append(w.frames, p)
  BY <1>2, <1>3, <1>4, <1>7, <1>8, SMTT(30) DEF WalkState
<1>10. (U \cup Range(w.frames)) \cup {p} = U \cup Range(w2.frames)
  BY <1>8, <1>9
<1>11. NewNode(w.mem, w2.mem, Range(w.frames), w.at, i, p)
  BY <1>2, <1>7, <1>9, WalkFacts DEF NewNode, e
<1> QED BY <1>2, <1>7, <1>8, <1>9, <1>10, <1>11, Zenon

(* The first round of find_pte_create.                                     *)
LEMMA DescendFromRoot ==
  ASSUME NEW w, NEW U, NEW r, Walk(w, U, r), NEW i \in Digit, w.at = r,
         has_mid(w.mem, r, i) \/ can_alloc(w.fa),
         NEW w2, w2 = descend_create(w, i)
  PROVE  /\ Walk(w2, U, r) /\ has_mid(w2.mem, r, i) /\ w2.at = first(w2.mem, r, i).ppn
         /\ U \subseteq Frame => \A n \in U : w2.mem[n] = w.mem[n]
         /\ \A x, y, z \in Digit :
              /\ has_leaf(w2.mem, r, x, y) <=> has_leaf(w.mem, r, x, y)
              /\ has_leaf(w.mem, r, x, y) =>
                   third(w2.mem, r, x, y, z) = third(w.mem, r, x, y, z)
         /\ has_mid(w.mem, r, i) =>
              w2.fa = w.fa /\ w2.mem = w.mem /\ w2.frames = w.frames
         /\ ~ has_mid(w.mem, r, i) => usable_frames(w2.fa) = usable_frames(w.fa) - 1
<1>1. /\ w \in WalkState /\ r \in Range(w.frames) /\ r \in Frame
      /\ Tree(w.mem, r, Range(w.frames)) /\ U \cap Range(w.frames) = {}
      /\ Range(w.frames) \subseteq Frame
      /\ is_valid(w.mem[w.at][i]) <=> has_mid(w.mem, r, i)
  BY WalkFacts, Zenon DEF Walk, has_mid, first
<1>2. CASE has_mid(w.mem, r, i)
  <2>1. w2 = [fa |-> w.fa, mem |-> w.mem, frames |-> w.frames, at |-> first(w.mem, r, i).ppn]
    BY <1>1, <1>2, DescendFields, Zenon DEF first
  <2>2. first(w.mem, r, i).ppn \in Frame
    BY <1>1, <1>2 DEF Tree
  <2>3. /\ w2 \in WalkState /\ w2.fa = w.fa /\ w2.mem = w.mem /\ w2.frames = w.frames
        /\ w2.at = first(w.mem, r, i).ppn
    BY <2>1, <2>2, WalkFacts DEF WalkState
  <2>4. Walk(w2, U, r)
    BY <2>3 DEF Walk
  <2> QED BY <1>2, <2>3, <2>4
<1>3. CASE ~ has_mid(w.mem, r, i)
  <2> DEFINE N == Range(w.frames)
  <2>1. PICK p : p = next_frame(w.fa)
    OBVIOUS
  <2>2. w.at \in N /\ ~ is_valid(w.mem[w.at][i]) /\ can_alloc(w.fa)
    BY <1>1, <1>3
  <2>3. /\ p \in Frame /\ p \notin U /\ p \notin N
        /\ w2 \in WalkState /\ w2.at = p
        /\ IsInjective(w2.frames) /\ Range(w2.frames) = N \cup {p}
        /\ Accounts(w2.fa, U \cup Range(w2.frames))
        /\ usable_frames(w2.fa) = usable_frames(w.fa) - 1
        /\ NewNode(w.mem, w2.mem, N, w.at, i, p)
        /\ \A n \in Frame \ {p, w.at} : w2.mem[n] = w.mem[n]
    BY <2>1, <2>2, CreateNode, SMTT(30)
  <2> HIDE DEF N
  <2>4. Tree(w.mem, r, N) /\ N \subseteq Frame /\ r \in N /\ U \cap N = {}
    BY <1>1 DEF N
  <2>5. /\ Tree(w2.mem, r, N \cup {p})
        /\ has_mid(w2.mem, r, i) /\ first(w2.mem, r, i).ppn = p
        /\ \A x, y, z \in Digit :
             /\ has_leaf(w2.mem, r, x, y) <=> has_leaf(w.mem, r, x, y)
             /\ has_leaf(w.mem, r, x, y) =>
                  third(w2.mem, r, x, y, z) = third(w.mem, r, x, y, z)
    <3>1. NewNode(w.mem, w2.mem, N, r, i, p) /\ Tree(w.mem, r, N)
      BY <2>3, <2>4
    <3> QED BY ONLY <1>3, <3>1, i \in Digit, AddMid
  <2>6. U \subseteq Frame => \A n \in U : w2.mem[n] = w.mem[n]
    <3>1. w.at \notin U /\ p \notin U
      BY <2>2, <2>3, <2>4
    <3> QED BY <2>3, <3>1
  <2>7. Walk(w2, U, r)
    BY <2>3, <2>4, <2>5 DEF Walk
  <2> QED BY <1>3, <2>3, <2>5, <2>6, <2>7
<1> QED BY <1>2, <1>3

(* The second round.                                                       *)
LEMMA DescendFromMid ==
  ASSUME NEW w, NEW U, NEW r, Walk(w, U, r), NEW i \in Digit, NEW j \in Digit,
         has_mid(w.mem, r, i), w.at = first(w.mem, r, i).ppn,
         has_leaf(w.mem, r, i, j) \/ can_alloc(w.fa),
         NEW w2, w2 = descend_create(w, j)
  PROVE  /\ Walk(w2, U, r) /\ has_leaf(w2.mem, r, i, j)
         /\ w2.at = second(w2.mem, r, i, j).ppn
         /\ U \subseteq Frame => \A n \in U : w2.mem[n] = w.mem[n]
         /\ SamePages(w.mem, w2.mem, r)
         /\ has_leaf(w.mem, r, i, j) =>
              w2.fa = w.fa /\ w2.mem = w.mem /\ w2.frames = w.frames
<1>1. /\ w \in WalkState /\ r \in Range(w.frames) /\ r \in Frame
      /\ Tree(w.mem, r, Range(w.frames)) /\ U \cap Range(w.frames) = {}
      /\ Range(w.frames) \subseteq Frame
      /\ is_valid(w.mem[w.at][j]) <=> has_leaf(w.mem, r, i, j)
  BY WalkFacts, SecondEntry, Zenon DEF Walk, has_leaf
<1>2. CASE has_leaf(w.mem, r, i, j)
  <2>1. w2 = [fa |-> w.fa, mem |-> w.mem, frames |-> w.frames,
              at |-> second(w.mem, r, i, j).ppn]
    BY <1>1, <1>2, DescendFields, SecondEntry, Zenon
  <2>2. second(w.mem, r, i, j).ppn \in Frame
    BY <1>1, <1>2 DEF Tree
  <2>3. /\ w2 \in WalkState /\ w2.fa = w.fa /\ w2.mem = w.mem /\ w2.frames = w.frames
        /\ w2.at = second(w.mem, r, i, j).ppn
    BY <2>1, <2>2, WalkFacts DEF WalkState
  <2>4. Walk(w2, U, r)
    BY <2>3 DEF Walk
  <2>5. SamePages(w.mem, w2.mem, r)
    BY <2>3 DEF SamePages
  <2> QED BY <1>2, <2>3, <2>4, <2>5
<1>3. CASE ~ has_leaf(w.mem, r, i, j)
  <2> DEFINE N == Range(w.frames)
  <2>1. PICK p, a : p = next_frame(w.fa) /\ a = w.at
    BY Zenon
  <2>2. w.at \in N /\ ~ is_valid(w.mem[w.at][j]) /\ can_alloc(w.fa)
    BY <1>1, <1>3 DEF Tree
  <2>3. /\ p \in Frame /\ p \notin U /\ p \notin N
        /\ w2 \in WalkState /\ w2.at = p
        /\ IsInjective(w2.frames) /\ Range(w2.frames) = N \cup {p}
        /\ Accounts(w2.fa, U \cup Range(w2.frames))
        /\ NewNode(w.mem, w2.mem, N, a, j, p)
        /\ \A n \in Frame \ {p, a} : w2.mem[n] = w.mem[n]
    BY <2>1, <2>2, CreateNode, SMTT(30)
  <2> HIDE DEF N
  <2>4. /\ Tree(w.mem, r, N) /\ N \subseteq Frame /\ r \in N /\ U \cap N = {}
        /\ a \in N /\ a = first(w.mem, r, i).ppn
    BY <1>1, <2>1, <2>2 DEF N
  <2>5. /\ Tree(w2.mem, r, N \cup {p})
        /\ has_leaf(w2.mem, r, i, j) /\ second(w2.mem, r, i, j).ppn = p
        /\ \A z \in Digit : third(w2.mem, r, i, j, z) = empty
        /\ \A x, y, z \in Digit : x # i \/ y # j =>
             /\ has_leaf(w2.mem, r, x, y) <=> has_leaf(w.mem, r, x, y)
             /\ has_leaf(w.mem, r, x, y) =>
                  third(w2.mem, r, x, y, z) = third(w.mem, r, x, y, z)
    <3>1. /\ NewNode(w.mem, w2.mem, N, first(w.mem, r, i).ppn, j, p)
          /\ Tree(w.mem, r, N) /\ has_mid(w.mem, r, i)
      BY <2>3, <2>4
    <3> QED BY ONLY <1>3, <3>1, i \in Digit, j \in Digit, AddLeaf, Zenon
  <2>6. SamePages(w.mem, w2.mem, r)
    BY <1>3, <2>5, DigitFacts, SMTT(30) DEF has_page, SamePages
  <2>7. U \subseteq Frame => \A n \in U : w2.mem[n] = w.mem[n]
    <3>1. a \notin U /\ p \notin U
      BY <2>3, <2>4
    <3> QED BY <2>3, <3>1
  <2>8. Walk(w2, U, r)
    BY <2>3, <2>4, <2>5 DEF Walk
  <2> QED BY <1>3, <2>3, <2>5, <2>6, <2>7, <2>8
<1> QED BY <1>2, <1>3

(* find_pte_create reaches the leaf node, and changes no mapping.          *)
LEMMA FindPteCreate ==
  ASSUME NEW w, NEW U, NEW r, Walk(w, U, r), w.at = r,
         NEW vpn, NEW i \in Digit, NEW j \in Digit, NEW k \in Digit,
         indexes(vpn) = <<i, j, k>>,
         has_leaf(w.mem, r, i, j) \/ usable_frames(w.fa) >= 2,
         NEW w2, w2 = find_pte_create(w, vpn)
  PROVE  /\ Walk(w2, U, r) /\ has_leaf(w2.mem, r, i, j)
         /\ w2.at = second(w2.mem, r, i, j).ppn
         /\ U \subseteq Frame => \A n \in U : w2.mem[n] = w.mem[n]
         /\ SamePages(w.mem, w2.mem, r)
         /\ has_leaf(w.mem, r, i, j) =>
              w2.fa = w.fa /\ w2.mem = w.mem /\ w2.frames = w.frames
<1>1. PICK w1 : w1 = descend_create(w, i)
  OBVIOUS
<1>2. w2 = descend_create(w1, j)
  BY <1>1 DEF find_pte_create
<1>3. Accounts(w.fa, U \cup Range(w.frames)) /\ usable_frames(w.fa) \in Int
  <2>1. w.fa.current \in 0 .. FRAMES /\ w.fa.recycled \in Seq(Frame) /\ FRAMES \in Nat
    BY WalkFacts, AllocatorFields, FrameFacts DEF Allocator
  <2>2. Len(w.fa.recycled) \in Nat
    BY <2>1, SeqFacts
  <2> QED BY <2>1, <2>2 DEF usable_frames, Walk
<1>4. has_mid(w.mem, r, i) \/ can_alloc(w.fa)
  <2>1. usable_frames(w.fa) >= 2 => usable_frames(w.fa) >= 1
    BY <1>3
  <2> QED BY <1>3, <2>1, UsableMeansAlloc DEF has_leaf
<1>5. /\ Walk(w1, U, r) /\ has_mid(w1.mem, r, i) /\ w1.at = first(w1.mem, r, i).ppn
      /\ U \subseteq Frame => \A n \in U : w1.mem[n] = w.mem[n]
      /\ \A x, y, z \in Digit :
           /\ has_leaf(w1.mem, r, x, y) <=> has_leaf(w.mem, r, x, y)
           /\ has_leaf(w.mem, r, x, y) =>
                third(w1.mem, r, x, y, z) = third(w.mem, r, x, y, z)
      /\ has_mid(w.mem, r, i) =>
           w1.fa = w.fa /\ w1.mem = w.mem /\ w1.frames = w.frames
      /\ ~ has_mid(w.mem, r, i) => usable_frames(w1.fa) = usable_frames(w.fa) - 1
  BY <1>1, <1>4, DescendFromRoot, SMTT(30)
<1>6. has_leaf(w1.mem, r, i, j) \/ can_alloc(w1.fa)
  <2>1. CASE has_leaf(w.mem, r, i, j)
    BY <1>5, <2>1
  <2>2. CASE usable_frames(w.fa) >= 2
    <3>1. usable_frames(w1.fa) >= 1
      BY <1>3, <1>5, <2>2, SMTT(30)
    <3>2. Accounts(w1.fa, U \cup Range(w1.frames))
      BY <1>5, Zenon DEF Walk
    <3> QED BY <3>1, <3>2, UsableMeansAlloc
  <2> QED BY <2>1, <2>2
<1>7. /\ Walk(w2, U, r) /\ has_leaf(w2.mem, r, i, j)
      /\ w2.at = second(w2.mem, r, i, j).ppn
      /\ U \subseteq Frame => \A n \in U : w2.mem[n] = w1.mem[n]
      /\ SamePages(w1.mem, w2.mem, r)
      /\ has_leaf(w1.mem, r, i, j) =>
           w2.fa = w1.fa /\ w2.mem = w1.mem /\ w2.frames = w1.frames
  BY <1>2, <1>5, <1>6, DescendFromMid, SMTT(30)
<1>8. SamePages(w.mem, w1.mem, r)
  BY <1>5, SMTT(30) DEF has_page, SamePages
<1>9. has_leaf(w.mem, r, i, j) => has_mid(w.mem, r, i)
  BY DEF has_leaf
<1>10. SamePages(w.mem, w2.mem, r)
  BY <1>7, <1>8, SMTT(30) DEF SamePages
<1> QED BY <1>5, <1>7, <1>9, <1>10

-----------------------------------------------------------------------------
(* One table beside the others.                                            *)

(* pt and df are a table, in memory m, whose frames the allocator f        *)
(* accounts for together with the frames U of the other tables.            *)
IsTable(f, m, pt, df, U) ==
  /\ pt \in [root_ppn : Frame \cup {None}, frames : Seq(Frame)]
  /\ DOMAIN df \subseteq Vpn /\ df \in [DOMAIN df -> Frame]
  /\ IsInjective(pt.frames) /\ IsInjective(df)
  /\ Range(pt.frames) \cap Range(df) = {}
  /\ U \cap (Range(pt.frames) \cup Range(df)) = {}
  /\ Accounts(f, U \cup (Range(pt.frames) \cup Range(df)))
  /\ IF pt.root_ppn # None
     THEN Tree(m, pt.root_ppn, Range(pt.frames)) /\ Leaves(m, pt.root_ppn, df)
     ELSE pt.frames = <<>> /\ df = no_frames

(* An operation makes pt and df of a table, and leaves the frames of the   *)
(* others alone.                                                           *)
Becomes(f, m, m2, pt, df, U) ==
  /\ IsTable(f, m2, pt, df, U)
  /\ m2 \in [Frame -> Node] /\ \A n \in U : m2[n] = m[n]

(* The frames of the other tables.                                         *)
rest(t) == UNION {owned(u) : u \in Table \ {t}}

LEMMA RestFacts ==
  ASSUME NEW t \in Table
  PROVE  in_use = rest(t) \cup owned(t)
  BY DEF in_use, rest

LEMMA TableOf ==
  ASSUME IInv, NEW t \in Table
  PROVE  /\ IsTable(fa, mem, page_table[t], data_frames[t], rest(t))
         /\ in_use \subseteq Frame /\ rest(t) \subseteq Frame
         /\ fa \in Allocator
         /\ mem \in [Frame -> Node]
<1>1. in_use = rest(t) \cup (Range(page_table[t].frames) \cup Range(data_frames[t]))
  BY RestFacts DEF owned, nodes, data
<1>2. fa \in Allocator /\ in_use \subseteq Frame
  <2>1. fa.current \in 0 .. FRAMES /\ in_use \subseteq 0 .. fa.current - 1 /\ fa \in Allocator
    BY AllocatorFields DEF IInv, FramesOwnedOnce, Accounts, Allocator
  <2> QED BY <2>1, FrameFacts
<1>3. rest(t) \cap owned(t) = {}
  BY DEF IInv, FramesOwnedOnce, rest
<1>4. IsTable(fa, mem, page_table[t], data_frames[t], rest(t))
  <2>1. /\ page_table[t] \in [root_ppn : Frame \cup {None}, frames : Seq(Frame)]
        /\ DOMAIN data_frames[t] \subseteq Vpn
        /\ data_frames[t] \in [DOMAIN data_frames[t] -> Frame]
    BY DEF IInv, Typed
  <2>2. /\ IsInjective(page_table[t].frames) /\ IsInjective(data_frames[t])
        /\ Range(page_table[t].frames) \cap Range(data_frames[t]) = {}
    BY DEF IInv, FramesOwnedOnce, nodes, data
  <2>3. rest(t) \cap (Range(page_table[t].frames) \cup Range(data_frames[t])) = {}
    BY <1>3 DEF owned, nodes, data
  <2>4. Accounts(fa, rest(t) \cup (Range(page_table[t].frames) \cup Range(data_frames[t])))
    BY <1>1 DEF IInv, FramesOwnedOnce
  <2>5. IF page_table[t].root_ppn # None
        THEN /\ Tree(mem, page_table[t].root_ppn, Range(page_table[t].frames))
             /\ Leaves(mem, page_table[t].root_ppn, data_frames[t])
        ELSE page_table[t].frames = <<>> /\ data_frames[t] = no_frames
    BY DEF IInv, TablesAreTrees, exists, nodes
  <2> QED BY <2>1, <2>2, <2>3, <2>4, <2>5 DEF IsTable
<1> QED BY <1>1, <1>2, <1>4 DEF IInv, Typed

(* A step that changes one table, and leaves the frames of the others      *)
(* alone.                                                                  *)
LEMMA TableStep ==
  ASSUME IInv, NEW t \in Table, NEW pt, NEW df,
         page_table' = [page_table EXCEPT ![t] = pt],
         data_frames' = [data_frames EXCEPT ![t] = df],
         Becomes(fa', mem, mem', pt, df, rest(t))
  PROVE  IInv'
<1>0. /\ mem' \in [Frame -> Node] /\ \A n \in rest(t) : mem'[n] = mem[n]
      /\ IsTable(fa', mem', pt, df, rest(t))
  BY DEF Becomes
<1> USE <1>0
<1>1. /\ DOMAIN page_table = Table /\ DOMAIN data_frames = Table
      /\ page_table'[t] = pt /\ data_frames'[t] = df
      /\ \A u \in Table \ {t} :
           page_table'[u] = page_table[u] /\ data_frames'[u] = data_frames[u]
  BY DEF IInv, Typed
<1>2. /\ nodes(t)' = Range(pt.frames) /\ data(t)' = Range(df)
      /\ owned(t)' = Range(pt.frames) \cup Range(df)
  BY <1>1 DEF nodes, data, owned
<1>3. \A u \in Table \ {t} :
        owned(u)' = owned(u) /\ nodes(u)' = nodes(u) /\ data(u)' = data(u)
  BY <1>1 DEF nodes, data, owned
<1>4. in_use' = rest(t) \cup (Range(pt.frames) \cup Range(df))
  BY <1>2, <1>3 DEF in_use, rest
<1>5. Typed'
  <2>1. /\ pt \in [root_ppn : Frame \cup {None}, frames : Seq(Frame)]
        /\ DOMAIN df \subseteq Vpn /\ df \in [DOMAIN df -> Frame]
    BY DEF IsTable
  <2>2. page_table' \in [Table -> [root_ppn : Frame \cup {None}, frames : Seq(Frame)]]
    BY <2>1 DEF IInv, Typed
  <2>3. data_frames' = [u \in Table |-> data_frames'[u]]
    BY DEF IInv, Typed
  <2>4. ASSUME NEW u \in Table
        PROVE  /\ DOMAIN data_frames'[u] \subseteq Vpn
               /\ data_frames'[u] \in [DOMAIN data_frames'[u] -> Frame]
    <3>1. CASE u = t
      BY <1>1, <2>1, <3>1
    <3>2. CASE u # t
      BY <1>1, <3>2 DEF IInv, Typed
    <3> QED BY <3>1, <3>2
  <2> QED BY <2>2, <2>3, <2>4 DEF Typed
<1>6. FramesOwnedOnce'
  <2>1. Accounts(fa', in_use')
    BY <1>4 DEF IsTable
  <2>2. ASSUME NEW u \in Table
        PROVE  /\ IsInjective(page_table'[u].frames) /\ IsInjective(data_frames'[u])
               /\ nodes(u)' \cap data(u)' = {}
    <3>1. CASE u = t
      BY <1>1, <1>2, <3>1 DEF IsTable
    <3>2. CASE u # t
      BY <1>1, <1>3, <3>2 DEF IInv, FramesOwnedOnce
    <3> QED BY <3>1, <3>2
  <2>3. \A u \in Table \ {t} : owned(u)' \cap owned(t)' = {}
    <3>1. rest(t) \cap owned(t)' = {}
      BY <1>2 DEF IsTable
    <3> QED BY <1>3, <3>1 DEF rest
  <2>4. \A u, v \in Table \ {t} : u # v => owned(u)' \cap owned(v)' = {}
    BY <1>3 DEF IInv, FramesOwnedOnce
  <2>5. \A u, v \in Table : u # v => owned(u)' \cap owned(v)' = {}
    BY <2>3, <2>4
  <2> QED BY <2>1, <2>2, <2>5 DEF FramesOwnedOnce
<1>7. TablesAreTrees'
  <2> SUFFICES ASSUME NEW u \in Table
               PROVE  IF page_table'[u].root_ppn # None
                      THEN /\ Tree(mem', page_table'[u].root_ppn, nodes(u)')
                           /\ Leaves(mem', page_table'[u].root_ppn, data_frames'[u])
                      ELSE page_table'[u].frames = <<>> /\ data_frames'[u] = no_frames
    BY DEF TablesAreTrees, exists
  <2>1. CASE u = t
    BY <1>1, <1>2, <2>1 DEF IsTable
  <2>2. CASE u # t
    <3>1. page_table'[u] = page_table[u] /\ data_frames'[u] = data_frames[u]
          /\ nodes(u)' = nodes(u)
      BY <1>1, <1>3, <2>2
    <3>2. CASE page_table[u].root_ppn = None
      BY <3>1, <3>2 DEF IInv, TablesAreTrees, exists
    <3>3. CASE page_table[u].root_ppn # None
      <4>1. /\ Tree(mem, page_table[u].root_ppn, nodes(u))
            /\ Leaves(mem, page_table[u].root_ppn, data_frames[u])
        BY <3>3 DEF IInv, TablesAreTrees, exists
      <4>2. \A n \in nodes(u) : mem'[n] = mem[n]
        BY <2>2, SMTT(30) DEF rest, owned
      <4>3. \A vpn \in DOMAIN data_frames[u] : indexes(vpn) \in Digit \X Digit \X Digit
        BY VpnIndexes DEF IInv, Typed
      <4>4. /\ Tree(mem', page_table[u].root_ppn, nodes(u))
            /\ Leaves(mem', page_table[u].root_ppn, data_frames[u])
        BY <4>1, <4>2, <4>3, TreeLocal, SMTT(30)
      <4> QED BY <3>1, <3>3, <4>4
    <3> QED BY <3>2, <3>3
  <2> QED BY <2>1, <2>2
<1> QED BY <1>5, <1>6, <1>7 DEF IInv

LEMMA AddPage ==
  ASSUME NEW df, Pages(df), NEW vpn \in Vpn, vpn \notin DOMAIN df,
         NEW p \in Frame, p \notin Range(df)
  PROVE  LET df2 == insert(df, vpn, p)
         IN /\ Pages(df2) /\ DOMAIN df2 = DOMAIN df \cup {vpn}
            /\ df2[vpn] = p /\ \A v \in DOMAIN df : df2[v] = df[v]
            /\ Range(df2) = Range(df) \cup {p}
<1> DEFINE df2 == insert(df, vpn, p)
<1>1. /\ DOMAIN df2 = DOMAIN df \cup {vpn}
      /\ df2[vpn] = p /\ \A v \in DOMAIN df : df2[v] = df[v]
      /\ df2 = [v \in DOMAIN df2 |-> df2[v]]
  BY DEF insert
<1> HIDE DEF df2
<1>2. Range(df2) = Range(df) \cup {p}
  <2>1. \A x : x \in Range(df2) <=> \E v \in DOMAIN df2 : x = df2[v]
    BY DEF Range
  <2>2. \A x : x \in Range(df) <=> \E v \in DOMAIN df : x = df[v]
    BY DEF Range
  <2> QED BY ONLY <1>1, <2>1, <2>2
<1>4. IsInjective(df2)
  <2>1. \A v \in DOMAIN df : df[v] # p
    BY DEF Range
  <2>2. \A u, v \in DOMAIN df : df[u] = df[v] => u = v
    BY DEF Pages, IsInjective
  <2> QED BY ONLY <1>1, <2>1, <2>2, vpn \notin DOMAIN df DEF IsInjective
<1>5. df2 \in [DOMAIN df2 -> Frame] /\ DOMAIN df2 \subseteq Vpn
  BY <1>1 DEF Pages
<1>6. Pages(df2)
  BY <1>4, <1>5 DEF Pages
<1> QED BY <1>1, <1>2, <1>6 DEF df2

PageRemoved(df, vpn, df2) ==
  /\ Pages(df2) /\ DOMAIN df2 = DOMAIN df \ {vpn}
  /\ \A v \in DOMAIN df2 : df2[v] = df[v]
  /\ Range(df2) = Range(df) \ {df[vpn]} /\ df[vpn] \in Range(df)

LEMMA RemovePage ==
  ASSUME NEW df, Pages(df), NEW vpn \in DOMAIN df,
         NEW df2, df2 = Restrict(df, DOMAIN df \ {vpn})
  PROVE  PageRemoved(df, vpn, df2)
<1>1. /\ DOMAIN df2 = DOMAIN df \ {vpn}
      /\ \A v \in DOMAIN df2 : df2[v] = df[v]
      /\ df2 = [v \in DOMAIN df2 |-> df2[v]]
  BY DEF Restrict
<1>2. \A u, v \in DOMAIN df : df[u] = df[v] => u = v
  BY DEF Pages, IsInjective
<1>3. Range(df2) = Range(df) \ {df[vpn]} /\ df[vpn] \in Range(df)
  BY ONLY <1>1, <1>2, vpn \in DOMAIN df DEF Range
<1>5. IsInjective(df2)
  BY ONLY <1>1, <1>2 DEF IsInjective
<1>6. df2 \in [DOMAIN df2 -> Frame] /\ DOMAIN df2 \subseteq Vpn
  BY <1>1 DEF Pages
<1>7. Pages(df2)
  BY <1>5, <1>6 DEF Pages
<1> QED BY <1>1, <1>3, <1>7 DEF PageRemoved

=============================================================================
