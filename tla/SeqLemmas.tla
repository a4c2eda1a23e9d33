----------------------------- MODULE SeqLemmas -----------------------------
(***************************************************************************)
(* Lemmas about sequences used as queues, stacks and vectors: what the     *)
(* operations of VecDeque and Vec do to the set of elements and to the     *)
(* absence of duplicates.                                                  *)
(***************************************************************************)
EXTENDS Vec, WellFoundedInduction, TLAPS

USE ZenonT(10), SMTT(30)

(* A set of natural numbers that is not empty has a least element.         *)
LEMMA LeastElement ==
  ASSUME NEW I \in SUBSET Nat, I # {}
  PROVE  \E m \in I : \A j \in I : m <= j
<1>1. PICK m \in I : \A j \in I : ~ (<<j, m>> \in OpToRel(<, Nat))
  BY NatLessThanWellFounded, WFMin, Zenon
<1>2. \A j \in I : j \in Nat /\ m \in Nat
  OBVIOUS
<1>3. \A j \in I : ~ (j < m)
  BY <1>1, <1>2, Zenon DEF OpToRel
<1>4. \A j \in I : m <= j
  BY <1>2, <1>3
<1> QED BY <1>4

(* Induction up to n, over a set that holds what is to be shown.           *)
LEMMA UpTo ==
  ASSUME NEW n \in Nat, NEW P, 0 \in P,
         \A k \in 1 .. n : k - 1 \in P => k \in P
  PROVE  0 .. n \subseteq P
<1> DEFINE I == (0 .. n) \ P
<1> SUFFICES ASSUME I # {} PROVE FALSE
  OBVIOUS
<1>1. I \in SUBSET Nat
  BY SMTT(30)
<1>2. PICK m \in I : \A j \in I : m <= j
  BY <1>1, LeastElement, Zenon
<1>3. m \in 1 .. n /\ m - 1 \in 0 .. n /\ ~ (m <= m - 1)
  BY <1>1, <1>2
<1> QED BY <1>2, <1>3

(* The values f[0] .. f[n] that n steps from s0 on go through.             *)
Iterates(f, S, n, s0, next) ==
  f \in [0 .. n -> S] /\ f[0] = s0 /\ \A k \in 1 .. n : f[k] = next[k][f[k - 1]]

(* A function that is defined step by step exists.                         *)
LEMMA StepByStep ==
  ASSUME NEW S, NEW n \in Nat, NEW s0 \in S, NEW next \in [1 .. n -> [S -> S]]
  PROVE  \E f : Iterates(f, S, n, s0, next)
<1> DEFINE Steps(f, m) == \A k \in 1 .. m : f[k] = next[k][f[k - 1]]
           P == {m \in 0 .. n : \E f \in [0 .. n -> S] : f[0] = s0 /\ Steps(f, m)}
<1>1. 0 \in P
  <2> DEFINE f == [k \in 0 .. n |-> s0]
  <2>1. f \in [0 .. n -> S] /\ f[0] = s0 /\ Steps(f, 0)
    OBVIOUS
  <2> HIDE DEF f
  <2> QED BY <2>1, SMTT(30)
<1>2. ASSUME NEW m \in 1 .. n, m - 1 \in P PROVE m \in P
  <2>1. PICK f \in [0 .. n -> S] : f[0] = s0 /\ Steps(f, m - 1)
    BY <1>2
  <2> DEFINE g == [f EXCEPT ![m] = next[m][f[m - 1]]]
  <2>2. m - 1 \in 0 .. n /\ m \in 0 .. n /\ m # 0 /\ m - 1 # m
    OBVIOUS
  <2>3. f[m - 1] \in S /\ next[m][f[m - 1]] \in S
    BY <2>2
  <2> HIDE DEF P
  <2>4. g \in [0 .. n -> S] /\ g[0] = s0 /\ g[m] = next[m][f[m - 1]]
    BY <2>1, <2>2, <2>3, SMTT(30)
  <2>5. ASSUME NEW k \in 1 .. m PROVE g[k] = next[k][g[k - 1]]
    <3>1. k \in 0 .. n /\ k - 1 \in 0 .. n /\ k - 1 # m
      OBVIOUS
    <3>2. g[k - 1] = f[k - 1]
      BY <3>1
    <3>3. CASE k = m
      BY <3>2, <3>3, <2>4
    <3>4. CASE k # m
      <4>1. k \in 1 .. m - 1
        BY <3>4, SMTT(30)
      <4>2. g[k] = f[k]
        BY <3>1, <3>4
      <4> QED BY <4>1, <4>2, <3>2, <2>1
    <3> QED BY <3>3, <3>4
  <2> HIDE DEF g
  <2> USE DEF P
  <2> QED BY <2>2, <2>4, <2>5
<1>3. n \in P
  <2> HIDE DEF P
  <2>1. 0 .. n \subseteq P
    BY <1>1, <1>2, UpTo, Zenon
  <2> QED BY <2>1, SMTT(30)
<1> QED BY <1>3 DEF Iterates

LEMMA SeqFacts ==
  ASSUME NEW S, NEW s \in Seq(S)
  PROVE  /\ Len(s) \in Nat /\ DOMAIN s = 1 .. Len(s)
         /\ \A i \in 1 .. Len(s) : s[i] \in S
         /\ s = <<>> <=> Len(s) = 0
<1>1. Len(s) \in Nat /\ DOMAIN s = 1 .. Len(s)
  OBVIOUS
<1>2. \A i \in 1 .. Len(s) : s[i] \in S
  OBVIOUS
<1>3. s = <<>> <=> Len(s) = 0
  OBVIOUS
<1> QED BY <1>1, <1>2, <1>3

LEMMA EmptySeqFacts ==
  /\ \A S : <<>> \in Seq(S)
  /\ Len(<<>>) = 0 /\ DOMAIN <<>> = {} /\ Range(<<>>) = {} /\ IsInjective(<<>>)
  BY DEF Range, IsInjective

LEMMA SubSeqFacts ==
  ASSUME NEW S, NEW s \in Seq(S), NEW m \in Nat, NEW n \in Nat,
         1 <= m, m <= n + 1, n <= Len(s)
  PROVE  /\ SubSeq(s, m, n) \in Seq(S)
         /\ Len(SubSeq(s, m, n)) = n + 1 - m
         /\ \A i \in 1 .. n + 1 - m : SubSeq(s, m, n)[i] = s[m + i - 1]
  OBVIOUS

(* Pushing a new element adds it to the elements, and a vector without     *)
(* duplicates stays so when the element was not in it.                     *)
LEMMA AppendRange ==
  ASSUME NEW S, NEW s \in Seq(S), NEW x \in S
  PROVE  /\ Append(s, x) \in Seq(S)
         /\ Range(Append(s, x)) = Range(s) \cup {x}
         /\ IsInjective(s) /\ x \notin Range(s) => IsInjective(Append(s, x))
<1>1. /\ Append(s, x) \in Seq(S)
      /\ Len(Append(s, x)) = Len(s) + 1
      /\ \A i \in 1 .. Len(s) : Append(s, x)[i] = s[i]
      /\ Append(s, x)[Len(s) + 1] = x
  OBVIOUS
<1>2. Len(s) \in Nat /\ DOMAIN s = 1 .. Len(s)
      /\ DOMAIN Append(s, x) = 1 .. Len(s) + 1
  BY <1>1, SeqFacts
<1>3. Range(Append(s, x)) = Range(s) \cup {x}
  BY <1>1, <1>2, SMTT(30) DEF Range
<1>4. ASSUME IsInjective(s), x \notin Range(s)
      PROVE  IsInjective(Append(s, x))
  BY <1>1, <1>2, <1>4, SMTT(30) DEF IsInjective, Range
<1> QED BY <1>1, <1>3, <1>4

(* Popping the front of a queue without duplicates removes just that       *)
(* element.                                                                *)
LEMMA TailRange ==
  ASSUME NEW S, NEW s \in Seq(S), s # <<>>, IsInjective(s)
  PROVE  /\ Tail(s) \in Seq(S)
         /\ Head(s) \in S
         /\ Head(s) \in Range(s)
         /\ Range(Tail(s)) = Range(s) \ {Head(s)}
         /\ IsInjective(Tail(s))
<1>1. /\ Tail(s) \in Seq(S) /\ Head(s) \in S
      /\ Len(Tail(s)) = Len(s) - 1
      /\ \A i \in 1 .. Len(Tail(s)) : Tail(s)[i] = s[i + 1]
  OBVIOUS
<1>2. /\ Len(s) \in Nat \ {0} /\ DOMAIN s = 1 .. Len(s)
      /\ DOMAIN Tail(s) = 1 .. Len(s) - 1
  BY <1>1, SeqFacts, SMTT(30)
<1>3. Head(s) = s[1]
  OBVIOUS
<1>4. Head(s) \in Range(s)
  BY <1>2, <1>3 DEF Range
<1>5. ASSUME NEW x \in Range(s) \ {Head(s)}
      PROVE  x \in Range(Tail(s))
  <2>1. PICK i \in 1 .. Len(s) : x = s[i]
    BY <1>2 DEF Range
  <2>2. i - 1 \in DOMAIN Tail(s) /\ Tail(s)[i - 1] = x
    BY <1>1, <1>2, <1>3, <2>1, SMTT(30)
  <2> QED BY <2>2, Zenon DEF Range
<1>6. ASSUME NEW x \in Range(Tail(s))
      PROVE  x \in Range(s) \ {Head(s)}
  <2>1. PICK i \in 1 .. Len(s) - 1 : x = s[i + 1]
    BY <1>1, <1>2 DEF Range
  <2>2. i + 1 \in DOMAIN s /\ 1 \in DOMAIN s /\ i + 1 # 1
    BY <1>2
  <2> QED BY <1>3, <2>1, <2>2 DEF Range, IsInjective
<1>7. IsInjective(Tail(s))
  <2> SUFFICES ASSUME NEW a \in 1 .. Len(s) - 1, NEW b \in 1 .. Len(s) - 1,
                      Tail(s)[a] = Tail(s)[b]
               PROVE  a = b
    BY <1>2 DEF IsInjective
  <2>1. s[a + 1] = s[b + 1] /\ a + 1 \in DOMAIN s /\ b + 1 \in DOMAIN s
    BY <1>1, <1>2
  <2>2. a + 1 = b + 1
    BY <2>1 DEF IsInjective
  <2> QED BY <2>2
<1> QED BY <1>1, <1>4, <1>5, <1>6, <1>7

(* Popping the top of a stack without duplicates removes just that         *)
(* element.                                                                *)
LEMMA PopRange ==
  ASSUME NEW S, NEW s \in Seq(S), s # <<>>, IsInjective(s)
  PROVE  LET front == SubSeq(s, 1, Len(s) - 1)
             last == s[Len(s)]
         IN /\ front \in Seq(S) /\ last \in S /\ last \in Range(s)
            /\ Range(front) = Range(s) \ {last}
            /\ IsInjective(front)
            /\ Len(front) = Len(s) - 1
<1> DEFINE front == SubSeq(s, 1, Len(s) - 1)
           last == s[Len(s)]
<1>1. Len(s) \in Nat \ {0} /\ DOMAIN s = 1 .. Len(s)
      /\ \A i \in 1 .. Len(s) : s[i] \in S
  BY SeqFacts, SMTT(30)
<1>2. /\ front \in Seq(S)
      /\ Len(front) = Len(s) - 1
      /\ \A i \in 1 .. Len(s) - 1 : front[i] = s[i]
  BY <1>1, SubSeqFacts, SMTT(30)
<1> HIDE DEF front
<1>3. DOMAIN front = 1 .. Len(s) - 1
  BY <1>2, SeqFacts
<1>4. last \in S /\ last \in Range(s)
  BY <1>1 DEF Range
<1>5. Range(front) = Range(s) \ {last}
  BY <1>1, <1>2, <1>3, <1>4, SMTT(30) DEF Range, IsInjective
<1>6. IsInjective(front)
  BY <1>1, <1>2, <1>3, SMTT(30) DEF IsInjective
<1> QED BY <1>2, <1>4, <1>5, <1>6 DEF front

(* Appending a vector to another one joins the elements; there are no      *)
(* duplicates when neither has any and they share no element.              *)
LEMMA ConcatRange ==
  ASSUME NEW S, NEW s \in Seq(S), NEW t \in Seq(S)
  PROVE  /\ s \o t \in Seq(S)
         /\ Range(s \o t) = Range(s) \cup Range(t)
         /\ IsInjective(s) /\ IsInjective(t) /\ Range(s) \cap Range(t) = {}
              => IsInjective(s \o t)
<1>1. /\ s \o t \in Seq(S)
      /\ Len(s \o t) = Len(s) + Len(t)
      /\ \A i \in 1 .. Len(s) + Len(t) :
           (s \o t)[i] = IF i <= Len(s) THEN s[i] ELSE t[i - Len(s)]
  OBVIOUS
<1>2. /\ Len(s) \in Nat /\ Len(t) \in Nat
      /\ DOMAIN s = 1 .. Len(s) /\ DOMAIN t = 1 .. Len(t)
      /\ DOMAIN (s \o t) = 1 .. Len(s) + Len(t)
  BY <1>1, SeqFacts
<1>3. Range(s \o t) \subseteq Range(s) \cup Range(t)
  BY <1>1, <1>2, SMTT(30) DEF Range
<1>4. ASSUME NEW i \in 1 .. Len(s)
      PROVE  s[i] \in Range(s \o t)
  BY <1>1, <1>2 DEF Range
<1>5. ASSUME NEW i \in 1 .. Len(t)
      PROVE  t[i] \in Range(s \o t)
  <2>1. /\ i + Len(s) \in DOMAIN (s \o t)
        /\ (s \o t)[i + Len(s)] = t[i]
    BY <1>1, <1>2
  <2> QED BY <2>1 DEF Range
<1>6. Range(s \o t) = Range(s) \cup Range(t)
  BY <1>2, <1>3, <1>4, <1>5 DEF Range
<1>7. ASSUME IsInjective(s), IsInjective(t), Range(s) \cap Range(t) = {}
      PROVE  IsInjective(s \o t)
  <2> SUFFICES ASSUME NEW a \in 1 .. Len(s) + Len(t),
                      NEW b \in 1 .. Len(s) + Len(t),
                      (s \o t)[a] = (s \o t)[b]
               PROVE  a = b
    BY <1>2 DEF IsInjective
  <2>1. \A i \in 1 .. Len(s), j \in 1 .. Len(t) : s[i] # t[j]
    BY <1>2, <1>7, Zenon DEF Range
  <2>2. CASE a <= Len(s) /\ b <= Len(s)
    BY <1>1, <1>2, <1>7, <2>2, SMTT(30) DEF IsInjective
  <2>3. CASE a > Len(s) /\ b > Len(s)
    <3>1. t[a - Len(s)] = t[b - Len(s)] /\ a - Len(s) \in DOMAIN t
          /\ b - Len(s) \in DOMAIN t
      BY <1>1, <1>2, <2>3
    <3>2. a - Len(s) = b - Len(s)
      BY <1>7, <3>1 DEF IsInjective
    <3> QED BY <1>2, <3>2
  <2>4. CASE a <= Len(s) /\ b > Len(s)
    BY <1>1, <1>2, <2>1, <2>4, SMTT(30)
  <2>5. CASE a > Len(s) /\ b <= Len(s)
    BY <1>1, <1>2, <2>1, <2>5, SMTT(30)
  <2> QED BY <1>2, <2>2, <2>3, <2>4, <2>5
<1> QED BY <1>1, <1>6, <1>7

(* Vec::remove on a vector without duplicates removes just that element.   *)
LEMMA RemoveRange ==
  ASSUME NEW S, NEW s \in Seq(S), NEW i \in 1 .. Len(s), IsInjective(s)
  PROVE  /\ remove(s, i) \in Seq(S)
         /\ Range(remove(s, i)) = Range(s) \ {s[i]}
         /\ IsInjective(remove(s, i))
<1> DEFINE l == SubSeq(s, 1, i - 1)
           r == SubSeq(s, i + 1, Len(s))
<1>1. Len(s) \in Nat /\ DOMAIN s = 1 .. Len(s)
      /\ \A j \in 1 .. Len(s) : s[j] \in S
  BY SeqFacts
<1>2. /\ l \in Seq(S) /\ Len(l) = i - 1
      /\ \A j \in 1 .. i - 1 : l[j] = s[j]
  <2>1. i - 1 \in Nat /\ i - 1 <= Len(s) /\ (i - 1) + 1 - 1 = i - 1
    BY <1>1
  <2>2. /\ l \in Seq(S) /\ Len(l) = (i - 1) + 1 - 1
        /\ \A j \in 1 .. (i - 1) + 1 - 1 : l[j] = s[1 + j - 1]
    BY <1>1, <2>1, SubSeqFacts, SMTT(30)
  <2> HIDE DEF l
  <2> QED BY <2>1, <2>2, SMTT(30)
<1>3. /\ r \in Seq(S) /\ Len(r) = Len(s) - i
      /\ \A j \in 1 .. Len(s) - i : r[j] = s[i + j]
  <2>1. /\ i + 1 \in Nat /\ 1 <= i + 1 /\ i + 1 <= Len(s) + 1
        /\ Len(s) + 1 - (i + 1) = Len(s) - i
    <3>1. \A a, b \in Nat : 1 <= a /\ a <= b =>
            a + 1 \in Nat /\ 1 <= a + 1 /\ a + 1 <= b + 1 /\ b + 1 - (a + 1) = b - a
      OBVIOUS
    <3>2. i \in Nat /\ Len(s) \in Nat /\ 1 <= i /\ i <= Len(s)
      BY <1>1
    <3> QED BY <3>1, <3>2
  <2>2. /\ r \in Seq(S) /\ Len(r) = Len(s) + 1 - (i + 1)
        /\ \A j \in 1 .. Len(s) + 1 - (i + 1) : r[j] = s[(i + 1) + j - 1]
    BY <1>1, <2>1, SubSeqFacts, SMTT(30)
  <2> HIDE DEF r
  <2>3. \A j \in 1 .. Len(s) - i : (i + 1) + j - 1 = i + j
    BY <1>1
  <2> QED BY <2>1, <2>2, <2>3
<1>4. DOMAIN l = 1 .. i - 1 /\ DOMAIN r = 1 .. Len(s) - i
  BY <1>2, <1>3, SeqFacts
<1> HIDE DEF l, r
<1>5. IsInjective(l)
  BY <1>1, <1>2, <1>4, SMTT(30) DEF IsInjective
<1>6. IsInjective(r)
  <2> SUFFICES ASSUME NEW a \in 1 .. Len(s) - i, NEW b \in 1 .. Len(s) - i,
                      r[a] = r[b]
               PROVE  a = b
    BY <1>4 DEF IsInjective
  <2>1. s[i + a] = s[i + b] /\ i + a \in DOMAIN s /\ i + b \in DOMAIN s
    BY <1>1, <1>3
  <2>2. i + a = i + b
    BY <2>1 DEF IsInjective
  <2> QED BY <1>1, <2>2
<1>7. Range(l) = {s[j] : j \in 1 .. i - 1}
  BY <1>2, <1>4 DEF Range
<1>8. Range(r) = {s[j] : j \in (i + 1) .. Len(s)}
  <2>1. ASSUME NEW j \in (i + 1) .. Len(s)
        PROVE  s[j] \in Range(r)
    <3>1. j - i \in 1 .. Len(s) - i /\ r[j - i] = s[j]
      BY <1>1, <1>3
    <3> QED BY <1>4, <3>1 DEF Range
  <2>2. ASSUME NEW j \in 1 .. Len(s) - i
        PROVE  \E k \in (i + 1) .. Len(s) : r[j] = s[k]
    <3>1. i + j \in (i + 1) .. Len(s) /\ r[j] = s[i + j]
      BY <1>1, <1>3
    <3> QED BY <3>1
  <2> QED BY <1>4, <2>1, <2>2, SMTT(20) DEF Range
<1>9. Range(l) \cap Range(r) = {}
  BY <1>1, <1>7, <1>8, SMTT(30) DEF IsInjective
<1>10. Range(l) \cup Range(r) = Range(s) \ {s[i]}
  <2>1. \A j \in 1 .. Len(s) : j # i => s[j] # s[i]
    BY <1>1 DEF IsInjective
  <2>2. \A j \in 1 .. Len(s) :
          j # i => j \in 1 .. i - 1 \/ j \in (i + 1) .. Len(s)
    BY <1>1
  <2>3. Range(s) \ {s[i]} \subseteq Range(l) \cup Range(r)
    BY <1>1, <1>7, <1>8, <2>2, Zenon DEF Range
  <2>4. \A j \in 1 .. i - 1 : j \in 1 .. Len(s) /\ j # i
    BY <1>1
  <2>5. \A j \in (i + 1) .. Len(s) : j \in 1 .. Len(s) /\ j # i
    BY <1>1
  <2>6. Range(l) \cup Range(r) \subseteq Range(s) \ {s[i]}
    BY <1>1, <1>7, <1>8, <2>1, <2>4, <2>5, Zenon DEF Range
  <2> QED BY <2>3, <2>6
<1>11. /\ l \o r \in Seq(S) /\ Range(l \o r) = Range(s) \ {s[i]} /\ IsInjective(l \o r)
  BY <1>2, <1>3, <1>5, <1>6, <1>9, <1>10, ConcatRange, SMTT(30)
<1>12. remove(s, i) = l \o r
  BY DEF remove, l, r
<1> QED BY <1>11, <1>12
=============================================================================
