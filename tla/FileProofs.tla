----------------------------- MODULE FileProofs ------------------------------
(***************************************************************************)
(* Proofs about the file layer: module BlockCache, for every set of blocks *)
(* and clients, every contents of blocks and every size of the cache, and  *)
(* module OpenFiles, for every set of processes and names and every value  *)
(* of the bounds.                                                          *)
(***************************************************************************)
EXTENDS BlockCache, OpenFiles, SeqLemmas, FiniteSetTheorems

USE ZenonT(10), SMTT(30)

-----------------------------------------------------------------------------
(* The block cache.                                                        *)

(* One client at a time is inside a buffer.                                *)
LocksExclusive ==
  /\ \A c \in Client : locked[c] => ref[c] # NoBlock
  /\ \A c, d \in Client : locked[c] /\ locked[d] /\ ref[c] = ref[d] => c = d

(* A buffer without the flag modified is what the device holds.            *)
CleanMatchesDisk ==
  \A b \in Block : cached(b) /\ ~cache[b].modified => cache[b].data = disk[b]

(* The inductive invariant.                                                *)
CacheIInv ==
  /\ TypeOK
  /\ OneBuffer
  /\ LocksExclusive
  /\ CleanMatchesDisk
  /\ OnlyRunsOutInUse

-----------------------------------------------------------------------------
(* Lemmas.                                                                 *)

LEMMA CachedRange == \A b : cached(b) <=> b \in Range(queue)
  BY DEF cached, Range

LEMMA CachedRangePrime == \A b : cached(b)' <=> b \in Range(queue')
  BY DEF cached, Range

LEMMA QueueInjective == OneBuffer => IsInjective(queue)
  BY DEF OneBuffer, IsInjective

(* Loading a block that is not cached, after the queue became q, a part of *)
(* the old one with room for it and with all buffers in use.               *)
LEMMA LoadQueue ==
  ASSUME CacheIInv, NEW c \in Client, NEW b \in Block, NEW q \in Seq(Block),
         NEW device \in [Block -> Value],
         load(c, b, q, device), ~cached(b), IsInjective(q),
         Range(q) \subseteq Range(queue), Len(q) < BLOCK_CACHE_SIZE,
         \A d \in Client : ref[d] # NoBlock => ref[d] \in Range(q),
         \A x \in Range(q) : device[x] = disk[x],
         disk' = device, phase' = "up", UNCHANGED locked, ref[c] = NoBlock
  PROVE  /\ CacheIInv'
         /\ Range(queue') = Range(q) \cup {b}
<1> USE DEF CacheIInv
<1>1. /\ queue' \in Seq(Block) /\ IsInjective(queue')
      /\ Range(queue') = Range(q) \cup {b}
      /\ Len(queue') = Len(q) + 1
  <2>1. b \notin Range(q)
    BY CachedRange
  <2> QED BY <2>1, AppendRange, SMTT(30) DEF load
<1>2. Len(queue') <= BLOCK_CACHE_SIZE
  <2>1. Len(q) \in Nat
    BY SeqFacts
  <2> QED BY <1>1, <2>1, CacheAssumption, SMTT(30)
<1>3. /\ ref' = [ref EXCEPT ![c] = b]
      /\ cache' = [cache EXCEPT ![b] = [data |-> device[b], modified |-> FALSE]]
  BY DEF load
<1>4. TypeOK'
  <2>1. [data |-> device[b], modified |-> FALSE] \in [data : Value, modified : BOOLEAN]
    OBVIOUS
  <2> QED BY <1>1, <1>2, <1>3, <2>1 DEF TypeOK
<1>5. OneBuffer'
  <2>1. ASSUME NEW d \in Client, ref'[d] # NoBlock PROVE ref'[d] \in Range(queue')
    BY <1>1, <1>3, <2>1 DEF TypeOK
  <2> QED BY <1>1, <2>1, SMTT(30) DEF OneBuffer, IsInjective, cached, Range
<1>6. LocksExclusive'
  BY <1>3 DEF LocksExclusive, TypeOK
<1>7. CleanMatchesDisk'
  <2> SUFFICES ASSUME NEW x \in Block, x \in Range(queue'), ~cache'[x].modified
               PROVE  cache'[x].data = disk'[x]
    BY CachedRangePrime DEF CleanMatchesDisk
  <2>1. CASE x = b
    BY <1>3, <2>1 DEF TypeOK
  <2>2. CASE x # b
    <3>1. x \in Range(q) /\ cache'[x] = cache[x]
      BY <1>1, <1>3, <2>2 DEF TypeOK
    <3> QED BY <3>1, CachedRange DEF CleanMatchesDisk
  <2> QED BY <2>1, <2>2
<1> QED BY <1>1, <1>4, <1>5, <1>6, <1>7 DEF OnlyRunsOutInUse

(* The queue always has a first buffer nobody uses, or none.               *)
LEMMA FirstUnused ==
  ASSUME CacheIInv, \A i \in DOMAIN queue : ~victim(i)
  PROVE  \A i \in DOMAIN queue : ~unused(i)
<1> SUFFICES ASSUME NEW i \in DOMAIN queue, unused(i) PROVE FALSE
  OBVIOUS
<1> DEFINE I == {j \in DOMAIN queue : unused(j)}
<1>1. DOMAIN queue = 1 .. Len(queue) /\ Len(queue) \in Nat
  BY SeqFacts DEF CacheIInv, TypeOK
<1>2. least(I) \in I /\ \A j \in I : least(I) <= j
  <2>1. I \in SUBSET Nat /\ I # {}
    BY <1>1, SMTT(30)
  <2> HIDE DEF I
  <2> QED BY <2>1, LeastElement, Zenon DEF least
<1> DEFINE m == least(I)
<1>3. m \in 1 .. Len(queue) /\ unused(m)
  BY <1>1, <1>2
<1>4. \A j \in 1 .. m - 1 : j \in 1 .. Len(queue) /\ ~ (m <= j)
  <2> HIDE DEF m
  <2> QED BY <1>1, <1>3
<1>5. victim(m)
  BY <1>1, <1>2, <1>3, <1>4 DEF victim
<1> QED BY <1>1, <1>3, <1>5

(* A queue without duplicates has as many elements as slots.               *)
LEMMA QueueCardinality ==
  ASSUME NEW q \in Seq(Block), IsInjective(q)
  PROVE  IsFiniteSet(Range(q)) /\ Cardinality(Range(q)) = Len(q)
<1>1. q \in [1 .. Len(q) -> Block] /\ Len(q) \in Nat
  BY SeqFacts, SMTT(30)
<1>2. q \in Bijection(1 .. Len(q), Range(q))
  BY <1>1 DEF Bijection, Injection, Surjection, IsInjective, Range
<1>3. ExistsBijection(1 .. Len(q), Range(q))
  BY <1>2 DEF ExistsBijection
<1> QED BY <1>1, <1>3, FS_CountingElements, FS_NatBijection

(* When the manager panics, every buffer is in use.                        *)
LEMMA RunOutInUse ==
  ASSUME CacheIInv, Len(queue) = BLOCK_CACHE_SIZE, \A i \in DOMAIN queue : ~victim(i)
  PROVE  Cardinality({ref[c] : c \in Client} \ {NoBlock}) >= BLOCK_CACHE_SIZE
<1> DEFINE Refs == {ref[c] : c \in Client}
           Used == Refs \ {NoBlock}
<1> USE DEF CacheIInv
<1>1. IsFiniteSet(Used)
  <2>1. ref \in Surjection(Client, Refs)
    BY DEF Surjection, TypeOK
  <2>2. IsFiniteSet(Refs)
    <3> HIDE DEF Refs
    <3> QED BY <2>1, FS_Surjection, CacheAssumption
  <2> HIDE DEF Refs
  <2> QED BY <2>2, FS_Subset
<1>2. Range(queue) \subseteq Used
  <2>1. \A i \in DOMAIN queue : queue[i] \in Block /\ queue[i] \in Refs
    BY FirstUnused, SeqFacts DEF unused, TypeOK
  <2> QED BY <2>1, CacheAssumption DEF Range
<1>3. IsFiniteSet(Range(queue)) /\ Cardinality(Range(queue)) = BLOCK_CACHE_SIZE
  BY QueueCardinality, QueueInjective DEF TypeOK
<1>4. Cardinality(Range(queue)) <= Cardinality(Used)
  <2> HIDE DEF Used
  <2> QED BY <1>1, <1>2, FS_Subset
<1>5. Cardinality(Used) \in Nat
  BY <1>1, FS_CardinalityType
<1> HIDE DEF Used
<1>6. Cardinality(Used) >= BLOCK_CACHE_SIZE
  BY <1>3, <1>4, <1>5, CacheAssumption
<1> QED BY <1>6 DEF Used

-----------------------------------------------------------------------------
(* The inductive invariant.                                                *)

LEMMA CacheInitIInv == CacheInit => CacheIInv
<1> SUFFICES ASSUME CacheInit PROVE CacheIInv
  OBVIOUS
<1> USE DEF CacheInit
<1>1. \A b \in Block : [data |-> disk[b], modified |-> FALSE]
                         \in [data : Value, modified : BOOLEAN]
  OBVIOUS
<1>2. queue \in Seq(Block) /\ Len(queue) = 0 /\ DOMAIN queue = {}
  BY EmptySeqFacts
<1>3. TypeOK
  BY <1>1, <1>2, CacheAssumption, SMTT(30) DEF TypeOK
<1> QED BY <1>2, <1>3 DEF CacheIInv, OneBuffer, LocksExclusive, CleanMatchesDisk,
                          OnlyRunsOutInUse, cached

(* A hit adds a user to a buffer.                                          *)
LEMMA HitIInv ==
  ASSUME CacheIInv, NEW c \in Client, NEW b \in Block, phase = "up", ref[c] = NoBlock,
         hit(c, b), UNCHANGED locked
  PROVE  CacheIInv'
<1> USE DEF CacheIInv, hit
<1>1. TypeOK'
  BY DEF TypeOK
<1>2. OneBuffer'
  BY DEF OneBuffer, cached, TypeOK
<1>3. LocksExclusive'
  BY DEF LocksExclusive, TypeOK
<1> QED BY <1>1, <1>2, <1>3 DEF CleanMatchesDisk, OnlyRunsOutInUse, cached

LEMMA FreeSlotIInv ==
  ASSUME CacheIInv, NEW c \in Client, NEW b \in Block, phase = "up", ref[c] = NoBlock,
         load_into_free_slot(c, b), UNCHANGED locked
  PROVE  CacheIInv' /\ Range(queue') = Range(queue) \cup {b}
<1> USE DEF CacheIInv
<1>1. queue \in Seq(Block) /\ IsInjective(queue) /\ disk \in [Block -> Value]
  BY QueueInjective DEF TypeOK
<1>2. Len(queue) < BLOCK_CACHE_SIZE
  BY <1>1, SeqFacts, CacheAssumption, SMTT(30) DEF TypeOK, load_into_free_slot
<1>3. \A d \in Client : ref[d] # NoBlock => ref[d] \in Range(queue)
  BY CachedRange DEF OneBuffer
<1> QED BY <1>1, <1>2, <1>3, LoadQueue DEF load_into_free_slot

(* Replacement: the victim's buffer is used by nobody, and it reaches the  *)
(* device before its slot is given away.                                   *)
LEMMA ReplaceIInv ==
  ASSUME CacheIInv, NEW c \in Client, NEW b \in Block, phase = "up", ref[c] = NoBlock,
         replace(c, b), UNCHANGED locked
  PROVE  /\ CacheIInv'
         /\ \E v \in Block :
              /\ v \in Range(queue)
              /\ Range(queue') = (Range(queue) \ {v}) \cup {b}
              /\ disk' = [disk EXCEPT ![v] = cache[v].data]
              /\ \A d \in Client : ref[d] # v
<1> USE DEF CacheIInv
<1>1. PICK i \in DOMAIN queue : /\ victim(i) /\ disk' = sync(queue[i])
                                /\ load(c, b, remove(queue, i), disk')
  BY DEF replace
<1> DEFINE v == queue[i]
           q == remove(queue, i)
<1>2. /\ queue \in Seq(Block) /\ IsInjective(queue) /\ i \in 1 .. Len(queue)
      /\ Len(queue) \in Nat
  BY QueueInjective, SeqFacts DEF TypeOK
<1>3. v \in Block /\ v \in Range(queue)
  BY <1>2, SeqFacts DEF Range
<1>4. /\ q \in Seq(Block) /\ IsInjective(q) /\ Range(q) = Range(queue) \ {v}
  BY <1>2, RemoveRange
<1>5. Len(q) < BLOCK_CACHE_SIZE
  <2>1. Cardinality(Range(queue)) = Len(queue) /\ IsFiniteSet(Range(queue))
    BY <1>2, QueueCardinality
  <2>2. Cardinality(Range(q)) = Len(q)
    BY <1>4, QueueCardinality, Zenon
  <2>3. Cardinality(Range(queue) \ {v}) = Cardinality(Range(queue)) - 1
    BY <1>3, <2>1, FS_RemoveElement, Zenon
  <2> HIDE DEF q, v
  <2>4. Len(q) = Len(queue) - 1
    BY <1>4, <2>1, <2>2, <2>3
  <2> QED BY <1>2, <2>4, CacheAssumption, SMTT(30) DEF TypeOK
<1>6. \A d \in Client : ref[d] # v
  BY <1>1 DEF victim, unused
<1>7. disk' = [disk EXCEPT ![v] = cache[v].data]
  <2>1. CASE cache[v].modified
    BY <1>1, <2>1 DEF sync
  <2>2. CASE ~cache[v].modified
    <3>1. disk' = disk
      BY <1>1, <2>2 DEF sync
    <3>2. cache[v].data = disk[v]
      BY <1>3, <2>2, CachedRange DEF CleanMatchesDisk
    <3> QED BY <1>3, <3>1, <3>2 DEF TypeOK
  <2> QED BY <2>1, <2>2
<1> HIDE DEF v, q
<1>8. disk' \in [Block -> Value] /\ \A x \in Range(q) : disk'[x] = disk[x]
  <2>1. cache[v].data \in Value
    BY <1>3 DEF TypeOK
  <2>2. Range(q) \subseteq Block
    BY <1>4, SeqFacts, SMTT(30) DEF Range
  <2> QED BY <1>3, <1>4, <1>7, <2>1, <2>2 DEF TypeOK
<1>9. \A d \in Client : ref[d] # NoBlock => ref[d] \in Range(q)
  BY <1>4, <1>6, CachedRange DEF OneBuffer
<1>10. load(c, b, q, disk') /\ ~cached(b) /\ phase' = "up"
  BY <1>1 DEF replace, q
<1>11. CacheIInv' /\ Range(queue') = Range(q) \cup {b}
  BY <1>4, <1>5, <1>8, <1>9, <1>10, LoadQueue, SMTT(30)
<1> QED BY <1>3, <1>4, <1>6, <1>7, <1>11, Zenon

LEMMA RunOutIInv ==
  ASSUME CacheIInv, NEW b \in Block, run_out(b), UNCHANGED locked PROVE CacheIInv'
<1> USE DEF CacheIInv, run_out
<1>1. OnlyRunsOutInUse'
  BY RunOutInUse DEF OnlyRunsOutInUse
<1> QED BY <1>1 DEF TypeOK, OneBuffer, LocksExclusive, CleanMatchesDisk, cached

LEMMA LockIInv ==
  ASSUME CacheIInv, NEW c \in Client, phase = "up", lock(c) PROVE CacheIInv'
<1> USE DEF CacheIInv, lock
<1>1. LocksExclusive'
  BY DEF LocksExclusive, TypeOK
<1> QED BY <1>1 DEF TypeOK, OneBuffer, CleanMatchesDisk, OnlyRunsOutInUse, cached

LEMMA ModifyIInv ==
  ASSUME CacheIInv, NEW c \in Client, NEW v \in Value, phase = "up", modify(c, v)
  PROVE  CacheIInv' /\ ref[c] \in Block /\ cached(ref[c])
<1> USE DEF CacheIInv, modify
<1>1. ref[c] \in Block /\ cached(ref[c])
  BY DEF LocksExclusive, TypeOK, OneBuffer
<1>2. [data |-> v, modified |-> TRUE] \in [data : Value, modified : BOOLEAN]
  OBVIOUS
<1>3. TypeOK'
  BY <1>2, Zenon DEF TypeOK
<1>4. CleanMatchesDisk'
  BY <1>1 DEF CleanMatchesDisk, TypeOK, cached
<1> QED BY <1>1, <1>3, <1>4 DEF OneBuffer, LocksExclusive, OnlyRunsOutInUse, cached

LEMMA ReleaseIInv ==
  ASSUME CacheIInv, NEW c \in Client, phase = "up", release(c) PROVE CacheIInv'
<1> USE DEF CacheIInv, release
<1>1. TypeOK'
  BY DEF TypeOK
<1>2. OneBuffer'
  BY DEF OneBuffer, TypeOK, cached
<1>3. LocksExclusive'
  BY DEF LocksExclusive, TypeOK
<1> QED BY <1>1, <1>2, <1>3 DEF CleanMatchesDisk, OnlyRunsOutInUse, cached

LEMMA CacheNextIInv == CacheIInv /\ [CacheNext]_cache_vars => CacheIInv'
<1> SUFFICES ASSUME CacheIInv, [CacheNext]_cache_vars PROVE CacheIInv'
  OBVIOUS
<1>1. ASSUME end \/ UNCHANGED cache_vars PROVE CacheIInv'
  <2>1. UNCHANGED <<disk, queue, cache, ref, locked>> /\ phase' \in {phase, "ended"}
    BY <1>1 DEF end, cache_vars
  <2>2. TypeOK' /\ OnlyRunsOutInUse'
    BY <2>1 DEF CacheIInv, TypeOK, OnlyRunsOutInUse
  <2> QED BY <2>1, <2>2
          DEF CacheIInv, OneBuffer, LocksExclusive, CleanMatchesDisk, cached
<1>2. ASSUME NEW c \in Client, NEW b \in Block, phase = "up", get_block_cache(c, b)
      PROVE  CacheIInv'
  BY <1>2, HitIInv, FreeSlotIInv, ReplaceIInv, RunOutIInv DEF get_block_cache
<1> QED BY <1>1, <1>2, LockIInv, ModifyIInv, ReleaseIInv DEF CacheNext

(* The inductive invariant holds throughout.                               *)
THEOREM CacheInvariant == CacheSpec => []CacheIInv
  BY CacheInitIInv, CacheNextIInv, PTL DEF CacheSpec

-----------------------------------------------------------------------------
(* The cache implements BlockStore.                                        *)

(* The refinement mapping: what a reader of b gets, and the block that     *)
(* client c is inside.                                                     *)
Mem(b) == IF phase # "ended" /\ cached(b) THEN cache[b].data ELSE disk[b]
Inside(c) == IF locked[c] THEN ref[c] ELSE NoBlock

(* A clean buffer holds what the device holds, so a reader gets the same   *)
(* from it.                                                                *)
LEMMA InitRefines == CacheInit => Store!Init
<1> SUFFICES ASSUME CacheInit PROVE Store!Init
  OBVIOUS
<1>1. \A b \in Block : Mem(b) = disk[b]
  BY DEF CacheInit, Mem
<1>2. [b \in Block |-> Mem(b)] = disk
  BY <1>1 DEF CacheInit
<1>3. [c \in Client |-> Inside(c)] = [c \in Client |-> NoBlock]
  BY DEF CacheInit, Inside
<1> QED BY <1>2, <1>3 DEF CacheInit, Store!Init, Mem, Inside

(* Getting a buffer is invisible, except that replacing one may bring the  *)
(* contents of its block to the device.                                    *)
LEMMA GetRefines ==
  ASSUME CacheIInv, phase = "up", NEW c \in Client, NEW b \in Block,
         get_block_cache(c, b)
  PROVE  \/ UNCHANGED Store!vars
         \/ \E v \in Block : Store!Flush(v)
<1> USE DEF CacheIInv
<1>1. ref[c] = NoBlock /\ UNCHANGED locked
  BY DEF get_block_cache
<1>2. ASSUME ref' = ref \/ ref' = [ref EXCEPT ![c] = b]
      PROVE  \A d \in Client : Inside(d)' = Inside(d)
  BY <1>1, <1>2 DEF Inside, LocksExclusive, TypeOK
<1>3. \A x \in Block : cached(x) <=> x \in Range(queue)
  BY CachedRange
<1>4. \A x \in Block : cached(x)' <=> x \in Range(queue')
  BY CachedRangePrime
<1>5. CASE hit(c, b) \/ run_out(b)
  <2>1. /\ ref' = ref \/ ref' = [ref EXCEPT ![c] = b]
        /\ disk' = disk /\ cache' = cache /\ queue' = queue /\ phase' # "ended"
    BY <1>5 DEF hit, run_out
  <2>2. \A x \in Block : Mem(x)' = Mem(x)
    BY <2>1 DEF Mem, cached
  <2> QED BY <1>2, <2>1, <2>2 DEF Store!vars, Mem, Inside
<1>6. CASE load_into_free_slot(c, b)
  <2>1. /\ ref' = [ref EXCEPT ![c] = b] /\ ~cached(b)
        /\ disk' = disk /\ phase' = phase
        /\ cache' = [cache EXCEPT ![b] = [data |-> disk[b], modified |-> FALSE]]
        /\ Range(queue') = Range(queue) \cup {b}
    BY <1>1, <1>6, FreeSlotIInv, Zenon DEF load_into_free_slot, load
  <2>2. \A x \in Block : Mem(x)' = Mem(x)
    BY <1>3, <1>4, <2>1 DEF Mem, TypeOK
  <2> QED BY <1>2, <2>1, <2>2 DEF Store!vars, Mem, Inside
<1>7. CASE replace(c, b)
  <2>1. PICK v \in Block :
          /\ v \in Range(queue)
          /\ Range(queue') = (Range(queue) \ {v}) \cup {b}
          /\ disk' = [disk EXCEPT ![v] = cache[v].data]
    BY <1>1, <1>7, ReplaceIInv
  <2>2. /\ ref' = [ref EXCEPT ![c] = b] /\ ~cached(b) /\ phase' = phase
        /\ cache' = [cache EXCEPT ![b] = [data |-> disk'[b], modified |-> FALSE]]
    BY <1>7 DEF replace, load
  <2>3. v # b /\ Mem(v) = cache[v].data
    BY <1>3, <2>1, <2>2 DEF Mem
  <2>4. ASSUME NEW x \in Block PROVE Mem(x)' = Mem(x)
    <3>1. CASE x = b
      BY <1>3, <1>4, <2>1, <2>2, <2>3, <3>1 DEF Mem, TypeOK
    <3>2. CASE x = v
      BY <1>3, <1>4, <2>1, <2>2, <2>3, <3>2 DEF Mem, TypeOK
    <3>3. CASE x # b /\ x # v
      BY <1>3, <1>4, <2>1, <2>2, <3>3 DEF Mem, TypeOK
    <3> QED BY <3>1, <3>2, <3>3
  <2>5. Store!Flush(v)
    BY <1>2, <2>1, <2>2, <2>3, <2>4, Zenon DEF Store!Flush, Mem, Inside
  <2> QED BY <2>5
<1> QED BY <1>5, <1>6, <1>7 DEF get_block_cache

LEMMA LockRefines ==
  ASSUME CacheIInv, phase = "up", NEW c \in Client, lock(c)
  PROVE  \E b \in Block : Store!Enter(c, b)
<1> USE DEF CacheIInv, lock
<1>1. ref[c] \in Block
  BY DEF TypeOK
<1>2. /\ Inside(c) = NoBlock
      /\ \A d \in Client : Inside(d) # ref[c]
  BY <1>1, CacheAssumption DEF Inside
<1>3. [d \in Client |-> Inside(d)']
        = [[d \in Client |-> Inside(d)] EXCEPT ![c] = ref[c]]
  BY Zenon DEF Inside, TypeOK
<1>4. \A b \in Block : Mem(b)' = Mem(b)
  BY DEF Mem, cached
<1> QED BY <1>1, <1>2, <1>3, <1>4, Zenon DEF Store!Enter, Inside, Mem

LEMMA ModifyRefines ==
  ASSUME CacheIInv, phase = "up", NEW c \in Client, NEW v \in Value, modify(c, v)
  PROVE  Store!Write(c, v)
<1> USE DEF CacheIInv, modify
<1>1. ref[c] \in Block /\ cached(ref[c])
  BY ModifyIInv, Zenon
<1>2. Inside(c) = ref[c] /\ ref[c] # NoBlock
  BY <1>1, CacheAssumption DEF Inside
<1>3. [b \in Block |-> Mem(b)'] = [[b \in Block |-> Mem(b)] EXCEPT ![ref[c]] = v]
  BY <1>1, Zenon DEF Mem, cached, TypeOK
<1>4. \A d \in Client : Inside(d)' = Inside(d)
  BY DEF Inside
<1> QED BY <1>2, <1>3, <1>4, Zenon DEF Store!Write, Inside, Mem

LEMMA ReleaseRefines ==
  ASSUME CacheIInv, phase = "up", NEW c \in Client, release(c)
  PROVE  Store!Leave(c)
<1> USE DEF CacheIInv, release
<1>1. [d \in Client |-> Inside(d)']
        = [[d \in Client |-> Inside(d)] EXCEPT ![c] = NoBlock]
  BY Zenon DEF Inside, TypeOK
<1>2. \A b \in Block : Mem(b)' = Mem(b)
  BY DEF Mem, cached
<1> QED BY <1>1, <1>2 DEF Store!Leave, Inside, Mem

(* When the program ends, what is left is what the device holds.           *)
LEMMA EndRefines == ASSUME CacheIInv, phase = "up", end PROVE Store!End
<1> USE DEF CacheIInv, end
<1>1. [b \in Block |-> Mem(b)'] = disk
  BY DEF Mem, TypeOK
<1>2. \A c \in Client : Inside(c)' = Inside(c)
  BY DEF Inside
<1> QED BY <1>1, <1>2 DEF Store!End, Inside, Mem

LEMMA NextRefines == CacheIInv /\ [CacheNext]_cache_vars => [Store!Next]_(Store!vars)
<1> SUFFICES ASSUME CacheIInv, [CacheNext]_cache_vars PROVE [Store!Next]_(Store!vars)
  OBVIOUS
<1>1. CASE UNCHANGED cache_vars
  <2>1. \A b \in Block : Mem(b)' = Mem(b)
    BY <1>1 DEF Mem, cached, cache_vars
  <2>2. \A c \in Client : Inside(c)' = Inside(c)
    BY <1>1 DEF Inside, cache_vars
  <2> QED BY <1>1, <2>1, <2>2 DEF Store!vars, Mem, Inside, cache_vars
<1>2. CASE CacheNext
  <2>1. phase = "up" /\ phase # "ended"
    BY <1>2 DEF CacheNext
  <2>2. \/ UNCHANGED Store!vars \/ Store!End
        \/ \E b \in Block : Store!Flush(b) \/ \E c \in Client : Store!Enter(c, b)
        \/ \E c \in Client : Store!Leave(c) \/ \E v \in Value : Store!Write(c, v)
    BY <1>2, <2>1, GetRefines, LockRefines, ModifyRefines, ReleaseRefines,
       EndRefines DEF CacheNext
  <2> QED BY <2>1, <2>2 DEF Store!Next
<1> QED BY <1>1, <1>2

-----------------------------------------------------------------------------
(* The theorems, for every value of the constants.                         *)

(* The queue never grows past its limit, and all variables keep their      *)
(* types.                                                                  *)
THEOREM TypeCorrect == CacheSpec => []TypeOK
<1>1. CacheIInv => TypeOK
  BY DEF CacheIInv
<1> QED BY <1>1, CacheInvariant, PTL

(* All users of a block share its one buffer, which is not replaced while  *)
(* it is in use.                                                           *)
THEOREM BuffersCorrect == CacheSpec => []OneBuffer
<1>1. CacheIInv => OneBuffer
  BY DEF CacheIInv
<1> QED BY <1>1, CacheInvariant, PTL

(* get_block_cache panics only when all buffers are in use.                *)
THEOREM PanicsOnlyInUse == CacheSpec => []OnlyRunsOutInUse
<1>1. CacheIInv => OnlyRunsOutInUse
  BY DEF CacheIInv
<1> QED BY <1>1, CacheInvariant, PTL

(* Replacement is invisible: the cache is a store of blocks in which every *)
(* reader finds what was written last.                                     *)
THEOREM Refinement == CacheSpec => StoreSpec
  BY InitRefines, NextRefines, CacheInvariant, PTL DEF CacheSpec, StoreSpec, Store!Spec

-----------------------------------------------------------------------------
(* Open files.                                                             *)

Fields == {"inode", "offset", "readable", "writable"}

(* The maps and the tables keep their types, and OSInodes their fields.    *)
TablesTyped ==
  /\ directory \subseteq Name
  /\ hard \in [Name -> Handle \cup {None}]
  /\ recycled \in [Name -> Handle \cup {None}]
  /\ DOMAIN os_inode = Handle
  /\ \A h \in Handle : DOMAIN os_inode[h] = Fields
  /\ fd_table \in [Proc -> Seq(Entry)]
  /\ life \in [Proc -> {"none", "live", "zombie"}]

(* What a map or a descriptor refers to is an OSInode with an inode.       *)
ReferencesValid ==
  \A h \in Handle : Referenced(h, hard, recycled, fd_table) => os_inode[h].inode \in Name

(* A TCB that does not exist holds no descriptor.                          *)
NoTcbNoTable == \A p \in Proc : life[p] = "none" => fd_table[p] = <<>>

(* The inductive invariant.                                                *)
IInv ==
  /\ TablesTyped
  /\ ReferencesValid
  /\ NoTcbNoTable
  /\ NamesCovered

-----------------------------------------------------------------------------
(* Lemmas.                                                                 *)

LEMMA HandleFacts ==
  /\ Handle \subseteq Nat \ {0}
  /\ None \notin Handle /\ Stdin \notin Handle /\ Stdout \notin Handle
  /\ PipeRead \notin Handle /\ PipeWrite \notin Handle
  /\ Handle \subseteq Entry
  /\ {None, Stdin, Stdout, PipeRead, PipeWrite} \subseteq Entry
  BY OpenFilesAssumption DEF Handle, None, Stdin, Stdout, PipeRead, PipeWrite, Entry

LEMMA NewFields ==
  ASSUME NEW n, NEW r, NEW w
  PROVE  /\ DOMAIN new_os_inode(n, r, w) = Fields
         /\ new_os_inode(n, r, w).inode = n
         /\ DOMAIN Dropped = Fields
         /\ Dropped.inode \notin Name
  BY OpenFilesAssumption DEF new_os_inode, Dropped, Fields, None

(* alloc_fd takes a free slot of the table or the one behind its end, so   *)
(* that every descriptor in use keeps its file.                            *)
LEMMA WithFile ==
  ASSUME NEW table \in Seq(Entry), NEW e \in Entry
  PROVE  /\ with_file(table, e) \in Seq(Entry)
         /\ Range(with_file(table, e)) \subseteq Range(table) \cup {e}
         /\ alloc_fd(table) \in DOMAIN with_file(table, e)
         /\ with_file(table, e)[alloc_fd(table)] = e
         /\ \A i \in DOMAIN table : table[i] # None =>
              /\ i \in DOMAIN with_file(table, e)
              /\ with_file(table, e)[i] = table[i]
<1> DEFINE I == {i \in 1 .. Len(table) : table[i] = None}
           a == alloc_fd(table)
           new == with_file(table, e)
<1>1. Len(table) \in Nat /\ DOMAIN table = 1 .. Len(table)
      /\ table \in [1 .. Len(table) -> Entry]
  BY SeqFacts, SMTT(30)
<1>2. CASE None \in Range(table)
  <2>1. a = IF I # {} THEN least(I) ELSE 0
    BY <1>2 DEF alloc_fd, position
  <2>2. I # {} /\ I \in SUBSET Nat
    BY <1>1, <1>2, SMTT(30) DEF Range
  <2>3. a \in I
    BY <2>1, <2>2, LeastElement, Zenon DEF least
  <2>4. a \in 1 .. Len(table) /\ table[a] = None /\ ~ (a > Len(table))
    BY <1>1, <2>3
  <2>5. new = [table EXCEPT ![a] = e]
    BY <2>4 DEF with_file
  <2> HIDE DEF a, new
  <2>6. new \in [1 .. Len(table) -> Entry] /\ DOMAIN new = 1 .. Len(table)
    BY <1>1, <2>5, Zenon
  <2>7. new \in Seq(Entry)
    BY <1>1, <2>6
  <2>8. Range(new) \subseteq Range(table) \cup {e}
    BY <1>1, <2>4, <2>5, <2>6 DEF Range
  <2>9. a \in DOMAIN new /\ new[a] = e
    BY <1>1, <2>4, <2>5, <2>6
  <2>10. \A i \in DOMAIN table : table[i] # None => i \in DOMAIN new /\ new[i] = table[i]
    BY <1>1, <2>4, <2>5, <2>6
  <2> QED BY <2>7, <2>8, <2>9, <2>10 DEF new, a
<1>3. CASE None \notin Range(table)
  <2>1. a = Len(table) + 1 /\ a > Len(table)
    BY <1>1, <1>3 DEF alloc_fd
  <2>2. new = Append(table, e)
    BY <2>1 DEF with_file
  <2>3. /\ new \in Seq(Entry) /\ Len(new) = Len(table) + 1
        /\ \A i \in 1 .. Len(table) : new[i] = table[i]
        /\ new[Len(table) + 1] = e
    BY <2>2
  <2>4. DOMAIN new = 1 .. Len(table) + 1
    BY <2>3, SeqFacts
  <2>5. Range(new) = Range(table) \cup {e}
    BY <2>2, AppendRange, SMTT(30)
  <2> HIDE DEF a, new
  <2>6. a \in DOMAIN new /\ new[a] = e
    BY <1>1, <2>1, <2>3, <2>4
  <2>7. \A i \in DOMAIN table : i \in DOMAIN new /\ new[i] = table[i]
    BY <1>1, <2>3, <2>4
  <2> QED BY <2>3, <2>5, <2>6, <2>7 DEF new, a
<1> QED BY <1>2, <1>3

(* What refer leaves behind: every OSInode that something refers to, as it *)
(* was given.                                                              *)
LEMMA ReferFacts ==
  ASSUME NEW inodes, NEW named, NEW unlinked, NEW tables,
         refer(inodes, named, unlinked, tables),
         \A h \in Handle : DOMAIN inodes[h] = Fields,
         \A h \in Handle : Referenced(h, named, unlinked, tables)
                             => inodes[h].inode \in Name
  PROVE  /\ DOMAIN os_inode' = Handle
         /\ \A h \in Handle : DOMAIN os_inode'[h] = Fields
         /\ ReferencesValid'
         /\ \A h \in Handle : Referenced(h, named, unlinked, tables)
                                => os_inode'[h] = inodes[h]
<1>1. /\ hard' = named /\ recycled' = unlinked /\ fd_table' = tables
      /\ os_inode' = [h \in Handle |-> IF Referenced(h, named, unlinked, tables)
                                       THEN inodes[h] ELSE Dropped]
  BY DEF refer, dropping
<1>2. DOMAIN Dropped = Fields
  BY NewFields
<1>3. \A h : Referenced(h, hard, recycled, fd_table)'
               <=> Referenced(h, named, unlinked, tables)
  BY <1>1 DEF Referenced
<1>4. ReferencesValid'
  BY <1>1, <1>3 DEF ReferencesValid, Referenced
<1> QED BY <1>1, <1>2, <1>4

(* The invariant after a step that sets the maps and the tables.           *)
LEMMA ReferIInv ==
  ASSUME NEW inodes, refer(inodes, hard', recycled', fd_table'),
         hard' \in [Name -> Handle \cup {None}],
         recycled' \in [Name -> Handle \cup {None}],
         fd_table' \in [Proc -> Seq(Entry)],
         \A h \in Handle : DOMAIN inodes[h] = Fields,
         \A h \in Handle : Referenced(h, hard', recycled', fd_table')
                             => inodes[h].inode \in Name,
         directory' \subseteq Name,
         \A n \in directory' : hard'[n] # None \/ recycled'[n] # None,
         life' \in [Proc -> {"none", "live", "zombie"}],
         \A p \in Proc : life'[p] = "none" => fd_table'[p] = <<>>
  PROVE  IInv'
<1>1. TablesTyped' /\ ReferencesValid'
  BY ReferFacts DEF TablesTyped
<1>2. NoTcbNoTable' /\ NamesCovered'
  BY DEF NoTcbNoTable, NamesCovered
<1> QED BY <1>1, <1>2 DEF IInv

-----------------------------------------------------------------------------
(* The inductive invariant.                                                *)

(* list_apps gives every name of the directory an OSInode.                 *)
LEMMA InitIInv == Init => IInv
<1> SUFFICES ASSUME Init PROVE IInv
  OBVIOUS
<1> DEFINE apps == CHOOSE s \in [1 .. Cardinality(Apps) -> Apps] : IsInjective(s)
           at(n) == position(apps, LAMBDA m : m = n)
           N == Cardinality(Apps)
<1>1. N \in Nat /\ N <= MaxHandles /\ MaxHandles \in Nat
  BY OpenFilesAssumption, FS_CardinalityType
<1>2. /\ apps \in [1 .. N -> Apps]
      /\ \A n \in Apps : \E i \in 1 .. N : apps[i] = n
  <2>1. PICK f \in Bijection(1 .. N, Apps) : TRUE
    BY OpenFilesAssumption, FS_CardinalityType DEF ExistsBijection
  <2>2. f \in [1 .. N -> Apps] /\ IsInjective(f)
    BY <2>1 DEF Bijection, Injection, IsInjective
  <2>3. apps \in [1 .. N -> Apps] /\ IsInjective(apps)
    BY <2>2
  <2> HIDE DEF apps
  <2>4. apps \in Injection(1 .. N, Apps)
    BY <2>3 DEF Injection, IsInjective
  <2>5. Cardinality(1 .. N) = N
    BY <1>1, FS_Interval, SMTT(30)
  <2>6. apps \in Surjection(1 .. N, Apps)
    BY <2>4, <2>5, FS_Injection, OpenFilesAssumption
  <2> QED BY <2>3, <2>6 DEF Surjection
<1>3. Len(apps) = N /\ apps \in Seq(Apps)
  <2> HIDE DEF apps
  <2>1. apps \in Seq(Apps)
    BY <1>1, <1>2
  <2> QED BY <1>1, <1>2, <2>1, SeqFacts
<1>4. ASSUME NEW n \in Apps PROVE at(n) \in 1 .. N
  <2> DEFINE I == {i \in 1 .. Len(apps) : apps[i] = n}
  <2>1. at(n) = IF I # {} THEN least(I) ELSE 0
    BY DEF position
  <2> HIDE DEF apps
  <2>2. I # {} /\ I \in SUBSET Nat
    BY <1>1, <1>2, <1>3, SMTT(30)
  <2>3. least(I) \in I
    BY <2>2, LeastElement, Zenon DEF least
  <2> QED BY <1>3, <2>1, <2>2, <2>3
<1>5. /\ directory = Apps
      /\ hard = [n \in Name |-> IF n \in Apps THEN at(n) ELSE None]
      /\ recycled = [n \in Name |-> None]
      /\ os_inode = [h \in Handle |-> IF h <= N THEN new_os_inode(apps[h], TRUE, FALSE)
                                                 ELSE Dropped]
      /\ fd_table = [p \in Proc |-> IF p = First THEN <<Stdin, Stdout, Stdout>>
                                                 ELSE <<>>]
      /\ life = [p \in Proc |-> IF p = First THEN "live" ELSE "none"]
  <2>1. os_inode = [h \in Handle |-> IF h <= Len(apps)
                                     THEN new_os_inode(apps[h], TRUE, FALSE)
                                     ELSE Dropped]
    BY Zenon DEF Init
  <2>2. hard = [n \in Name |-> IF n \in Apps THEN at(n) ELSE None]
    BY Zenon DEF Init
  <2>3. /\ directory = Apps
        /\ recycled = [n \in Name |-> None]
        /\ fd_table = [p \in Proc |-> IF p = First THEN <<Stdin, Stdout, Stdout>>
                                                   ELSE <<>>]
        /\ life = [p \in Proc |-> IF p = First THEN "live" ELSE "none"]
    BY Zenon DEF Init
  <2> HIDE DEF apps, at, N
  <2> QED BY <1>3, <2>1, <2>2, <2>3, Zenon
<1> HIDE DEF apps, at, N
<1>6. \A n \in Apps : at(n) \in Handle /\ at(n) <= N
  BY <1>1, <1>4 DEF Handle
<1>7. <<Stdin, Stdout, Stdout>> \in Seq(Entry) /\ <<>> \in Seq(Entry)
  BY HandleFacts, EmptySeqFacts
<1>8. \A h \in Handle : DOMAIN os_inode[h] = Fields
  BY <1>5, NewFields, Zenon
<1>9. TablesTyped
  BY <1>5, <1>6, <1>7, <1>8, OpenFilesAssumption, Zenon DEF TablesTyped
<1>10. ReferencesValid
  <2> SUFFICES ASSUME NEW h \in Handle, Referenced(h, hard, recycled, fd_table)
               PROVE  os_inode[h].inode \in Name
    BY DEF ReferencesValid
  <2>1. \A p \in Proc : h \notin Range(fd_table[p])
    <3>1. Range(<<>>) = {} /\ Range(<<Stdin, Stdout, Stdout>>) = {Stdin, Stdout}
      BY DEF Range
    <3> QED BY <1>5, <3>1, HandleFacts
  <2>2. PICK n \in Name : hard[n] = h
    BY <1>5, <2>1, HandleFacts DEF Referenced
  <2>3. n \in Apps /\ h = at(n) /\ h \in 1 .. N
    BY <1>4, <1>5, <2>2, HandleFacts
  <2>4. os_inode[h] = new_os_inode(apps[h], TRUE, FALSE) /\ apps[h] \in Apps
    BY <1>1, <1>2, <1>5, <2>3, SMTT(30)
  <2> QED BY <2>4, OpenFilesAssumption, SMTT(30) DEF new_os_inode
<1>11. NoTcbNoTable /\ NamesCovered
  BY <1>5, <1>6, HandleFacts, OpenFilesAssumption DEF NoTcbNoTable, NamesCovered
<1> QED BY <1>9, <1>10, <1>11 DEF IInv

(* A step that only moves references between descriptor tables.            *)
LEMMA TablesIInv ==
  ASSUME IInv, NEW tables \in [Proc -> Seq(Entry)],
         refer(os_inode, hard, recycled, tables), UNCHANGED directory,
         \A p \in Proc : \A h \in Handle :
            h \in Range(tables[p]) => \E q \in Proc : h \in Range(fd_table[q]),
         life' \in [Proc -> {"none", "live", "zombie"}],
         \A p \in Proc : life'[p] = "none" => tables[p] = <<>>
  PROVE  IInv'
<1>1. hard' = hard /\ recycled' = recycled /\ fd_table' = tables
  BY DEF refer
<1>2. \A h \in Handle : Referenced(h, hard', recycled', fd_table')
                           => os_inode[h].inode \in Name
  BY <1>1 DEF IInv, Referenced, ReferencesValid
<1>3. /\ hard' \in [Name -> Handle \cup {None}]
      /\ recycled' \in [Name -> Handle \cup {None}]
      /\ fd_table' \in [Proc -> Seq(Entry)]
      /\ \A h \in Handle : DOMAIN os_inode[h] = Fields
      /\ directory' \subseteq Name
      /\ \A n \in directory' : hard'[n] # None \/ recycled'[n] # None
      /\ \A p \in Proc : life'[p] = "none" => fd_table'[p] = <<>>
  BY <1>1 DEF IInv, TablesTyped, NamesCovered
<1>4. refer(os_inode, hard', recycled', fd_table')
  BY <1>1
<1> QED BY <1>2, <1>3, <1>4, ReferIInv, Zenon

LEMMA CloseIInv ==
  ASSUME IInv, NEW p \in Proc, life[p] = "live", NEW i \in DOMAIN fd_table[p],
         sys_close(p, i)
  PROVE  IInv'
<1> USE DEF IInv, TablesTyped
<1> DEFINE new == [fd_table[p] EXCEPT ![i] = None]
           tables == [fd_table EXCEPT ![p] = new]
<1>1. fd_table[p] \in [1 .. Len(fd_table[p]) -> Entry] /\ Len(fd_table[p]) \in Nat
  BY SeqFacts, SMTT(30)
<1>2. new \in [1 .. Len(fd_table[p]) -> Entry]
  BY <1>1, HandleFacts
<1>3. new \in Seq(Entry) /\ Range(new) \subseteq Range(fd_table[p]) \cup {None}
  BY <1>1, <1>2, SMTT(30) DEF Range
<1>4. refer(os_inode, hard, recycled, tables) /\ UNCHANGED <<directory, life>>
  BY DEF sys_close, fs_vars
<1> HIDE DEF new
<1>5. /\ tables \in [Proc -> Seq(Entry)]
      /\ \A q \in Proc : q # p => tables[q] = fd_table[q]
      /\ tables[p] = new
  BY <1>3
<1> HIDE DEF tables
<1>6. \A q \in Proc : \A h \in Handle :
        h \in Range(tables[q]) => h \in Range(fd_table[q])
  BY <1>3, <1>5, HandleFacts, Zenon
<1>7. \A q \in Proc : life'[q] = "none" => tables[q] = <<>>
  BY <1>4, <1>5 DEF NoTcbNoTable
<1> QED BY <1>4, <1>5, <1>6, <1>7, TablesIInv, Zenon

LEMMA DupIInv ==
  ASSUME IInv, NEW p \in Proc, life[p] = "live", NEW i \in DOMAIN fd_table[p],
         sys_dup(p, i)
  PROVE  IInv'
<1> USE DEF IInv, TablesTyped
<1> DEFINE e == fd_table[p][i]
           new == with_file(fd_table[p], e)
           tables == [fd_table EXCEPT ![p] = new]
<1>1. e \in Entry /\ e \in Range(fd_table[p])
  BY SeqFacts DEF Range
<1>2. new \in Seq(Entry) /\ Range(new) \subseteq Range(fd_table[p])
  BY <1>1, WithFile, SMTT(30)
<1>3. refer(os_inode, hard, recycled, tables) /\ UNCHANGED <<directory, life>>
  BY DEF sys_dup, fs_vars
<1> HIDE DEF new
<1>4. /\ tables \in [Proc -> Seq(Entry)]
      /\ \A q \in Proc : q # p => tables[q] = fd_table[q]
      /\ tables[p] = new
  BY <1>2
<1> HIDE DEF tables
<1>5. \A q \in Proc : \A h \in Handle :
        h \in Range(tables[q]) => h \in Range(fd_table[q])
  BY <1>2, <1>4, Zenon
<1>6. \A q \in Proc : life'[q] = "none" => tables[q] = <<>>
  BY <1>3, <1>4 DEF NoTcbNoTable
<1> QED BY <1>3, <1>4, <1>5, <1>6, TablesIInv, Zenon

LEMMA PipeIInv ==
  ASSUME IInv, NEW p \in Proc, life[p] = "live", sys_pipe(p)
  PROVE  IInv'
<1> USE DEF IInv, TablesTyped
<1> DEFINE one == with_file(fd_table[p], PipeRead)
           new == with_file(one, PipeWrite)
           tables == [fd_table EXCEPT ![p] = new]
<1>1. one \in Seq(Entry) /\ Range(one) \subseteq Range(fd_table[p]) \cup {PipeRead}
  BY HandleFacts, WithFile, Zenon
<1>2. new \in Seq(Entry) /\ Range(new) \subseteq Range(one) \cup {PipeWrite}
  <2> HIDE DEF one
  <2> QED BY <1>1, HandleFacts, WithFile, Zenon
<1>3. refer(os_inode, hard, recycled, tables) /\ UNCHANGED <<directory, life>>
  BY DEF sys_pipe, fs_vars
<1> HIDE DEF new, one
<1>4. /\ tables \in [Proc -> Seq(Entry)]
      /\ \A q \in Proc : q # p => tables[q] = fd_table[q]
      /\ tables[p] = new
  BY <1>2
<1> HIDE DEF tables
<1>5. \A q \in Proc : \A h \in Handle :
        h \in Range(tables[q]) => h \in Range(fd_table[q])
  BY <1>1, <1>2, <1>4, HandleFacts, Zenon
<1>6. \A q \in Proc : life'[q] = "none" => tables[q] = <<>>
  BY <1>3, <1>4 DEF NoTcbNoTable
<1> QED BY <1>3, <1>4, <1>5, <1>6, TablesIInv, SMTT(20)

LEMMA ForkIInv ==
  ASSUME IInv, NEW p \in Proc, NEW c \in Proc, fork(p, c)
  PROVE  IInv'
<1> USE DEF IInv, TablesTyped
<1> DEFINE tables == [fd_table EXCEPT ![c] = fd_table[p]]
<1>1. /\ refer(os_inode, hard, recycled, tables) /\ UNCHANGED directory
      /\ life' = [life EXCEPT ![c] = "live"]
  BY DEF fork, fs_vars
<1>2. /\ tables \in [Proc -> Seq(Entry)]
      /\ \A q \in Proc : tables[q] = IF q = c THEN fd_table[p] ELSE fd_table[q]
  OBVIOUS
<1> HIDE DEF tables
<1>3. \A q \in Proc : life'[q] = "none" => tables[q] = <<>>
  BY <1>1, <1>2 DEF NoTcbNoTable
<1>4. life' \in [Proc -> {"none", "live", "zombie"}]
  BY <1>1
<1>5. \A q \in Proc : \A h \in Handle :
        h \in Range(tables[q]) => \E r \in Proc : h \in Range(fd_table[r])
  BY <1>2, Zenon
<1> QED BY <1>1, <1>2, <1>3, <1>4, <1>5, TablesIInv, Zenon

LEMMA ReapIInv ==
  ASSUME IInv, NEW c \in Proc, reap(c)
  PROVE  IInv'
<1> USE DEF IInv, TablesTyped
<1> DEFINE tables == [fd_table EXCEPT ![c] = <<>>]
<1>1. /\ refer(os_inode, hard, recycled, tables) /\ UNCHANGED directory
      /\ life' = [life EXCEPT ![c] = "none"]
  BY DEF reap, fs_vars
<1>2. /\ tables \in [Proc -> Seq(Entry)]
      /\ \A q \in Proc : tables[q] = IF q = c THEN <<>> ELSE fd_table[q]
  BY EmptySeqFacts
<1> HIDE DEF tables
<1>3. \A q \in Proc : life'[q] = "none" => tables[q] = <<>>
  BY <1>1, <1>2 DEF NoTcbNoTable
<1>4. life' \in [Proc -> {"none", "live", "zombie"}]
  BY <1>1
<1>5. \A q \in Proc : \A h \in Handle :
        h \in Range(tables[q]) => \E r \in Proc : h \in Range(fd_table[r])
  <2>1. Range(<<>>) = {}
    BY DEF Range
  <2> QED BY <1>2, <2>1
<1> QED BY <1>1, <1>2, <1>3, <1>4, <1>5, TablesIInv, Zenon

(* A new OSInode takes the place of one that nothing refers to.            *)
LEMMA NextHandleFree ==
  ASSUME IInv, FreeHandles # {}
  PROVE  /\ NextHandle \in Handle
         /\ ~Referenced(NextHandle, hard, recycled, fd_table)
<1>1. FreeHandles \in SUBSET Nat
  BY HandleFacts, Zenon DEF FreeHandles
<1>2. NextHandle \in FreeHandles
  BY <1>1, LeastElement, Zenon DEF least, NextHandle
<1>3. NextHandle \in Handle /\ os_inode[NextHandle] = Dropped
  BY <1>2 DEF FreeHandles
<1> QED BY <1>3, NewFields DEF IInv, ReferencesValid

(* Opening a file through a new OSInode, with or without a new name.       *)
LEMMA OpenNew ==
  ASSUME IInv, NEW p \in Proc, life[p] = "live", UNCHANGED life,
         NEW n \in Name, NEW x \in Name, NEW r, NEW w, FreeHandles # {},
         refer([os_inode EXCEPT ![NextHandle] = new_os_inode(x, r, w)],
               hard', recycled, opened_in(p, NextHandle)),
         \/ hard' = hard /\ directory' = directory
         \/ hard' = [hard EXCEPT ![n] = NextHandle] /\ directory' = directory \cup {n}
  PROVE  /\ IInv'
         /\ fd_table'[p] = with_file(fd_table[p], NextHandle)
         /\ os_inode'[NextHandle] = new_os_inode(x, r, w)
         /\ \A h \in Handle : Referenced(h, hard, recycled, fd_table)
                                /\ Referenced(h, hard', recycled', fd_table')
                                => os_inode'[h] = os_inode[h]
<1> DEFINE h == NextHandle
           inodes == [os_inode EXCEPT ![h] = new_os_inode(x, r, w)]
           new == with_file(fd_table[p], h)
<1>1. h \in Handle /\ h # None /\ ~Referenced(h, hard, recycled, fd_table)
  BY NextHandleFree, HandleFacts
<1>2. /\ recycled' = recycled /\ fd_table' = [fd_table EXCEPT ![p] = new]
      /\ refer(inodes, hard', recycled', fd_table')
  BY DEF refer, opened_in
<1> HIDE DEF h
<1>3. /\ new \in Seq(Entry) /\ Range(new) \subseteq Range(fd_table[p]) \cup {h}
      /\ alloc_fd(fd_table[p]) \in DOMAIN new /\ new[alloc_fd(fd_table[p])] = h
  BY <1>1, HandleFacts, WithFile DEF IInv, TablesTyped
<1> HIDE DEF new
<1>4. /\ fd_table' \in [Proc -> Seq(Entry)] /\ fd_table'[p] = new
      /\ \A q \in Proc : q # p => fd_table'[q] = fd_table[q]
  BY <1>2, <1>3 DEF IInv, TablesTyped
<1>5. /\ hard' \in [Name -> Handle \cup {None}]
      /\ recycled' \in [Name -> Handle \cup {None}]
      /\ directory' \subseteq Name
      /\ \A m \in directory' : hard'[m] # None \/ recycled'[m] # None
      /\ \A m \in Name : hard'[m] \in {hard[m], h}
  BY <1>1, <1>2 DEF IInv, TablesTyped, NamesCovered, h
<1>6. new_os_inode(x, r, w).inode = x /\ DOMAIN new_os_inode(x, r, w) = Fields
  BY NewFields
<1>7. /\ \A g \in Handle : DOMAIN inodes[g] = Fields
      /\ inodes[h] = new_os_inode(x, r, w)
      /\ \A g \in Handle : g # h => inodes[g] = os_inode[g]
  BY <1>1, <1>6 DEF IInv, TablesTyped
<1> HIDE DEF inodes
<1>8. ASSUME NEW g \in Handle, Referenced(g, hard', recycled', fd_table')
      PROVE  inodes[g].inode \in Name
  <2>1. CASE g = h
    BY <1>6, <1>7, <2>1
  <2>2. CASE g # h
    <3>1. Referenced(g, hard, recycled, fd_table)
      BY <1>2, <1>3, <1>4, <1>5, <1>8, <2>2 DEF Referenced
    <3> QED BY <1>7, <2>2, <3>1 DEF IInv, ReferencesValid
  <2> QED BY <2>1, <2>2
<1>9. /\ life' \in [Proc -> {"none", "live", "zombie"}]
      /\ \A q \in Proc : life'[q] = "none" => fd_table'[q] = <<>>
  BY <1>4 DEF IInv, TablesTyped, NoTcbNoTable
<1>10. IInv'
  BY <1>2, <1>4, <1>5, <1>7, <1>8, <1>9, ReferIInv, Zenon
<1>11. \A g \in Handle : Referenced(g, hard', recycled', fd_table')
                            => os_inode'[g] = inodes[g]
  BY <1>2, Zenon DEF refer, dropping
<1>12. Referenced(h, hard', recycled', fd_table')
  BY <1>3, <1>4 DEF Referenced, Range
<1>13. os_inode'[h] = new_os_inode(x, r, w)
  BY <1>1, <1>7, <1>11, <1>12
<1>14. ASSUME NEW g \in Handle, Referenced(g, hard, recycled, fd_table),
              Referenced(g, hard', recycled', fd_table')
       PROVE  os_inode'[g] = os_inode[g]
  BY <1>1, <1>7, <1>11, <1>14
<1> QED BY <1>4, <1>10, <1>13, <1>14 DEF h, new

LEMMA NamedFacts ==
  ASSUME IInv, NEW n \in Named
  PROVE  /\ n \in Name /\ hard[n] \in Handle
         /\ Referenced(hard[n], hard, recycled, fd_table)
         /\ inode_of(n) \in Name
<1>1. n \in Name /\ hard[n] \in Handle
  BY DEF IInv, TablesTyped, Named
<1>2. Referenced(hard[n], hard, recycled, fd_table)
  BY <1>1 DEF Referenced
<1> QED BY <1>1, <1>2 DEF IInv, ReferencesValid, inode_of

(* openat through HARD_LINK_MAP: the new OSInode leads where the name does. *)
LEMMA OpenNamedFacts ==
  ASSUME IInv, NEW p \in Proc, life[p] = "live", UNCHANGED life, NEW n \in Name,
         NEW flags, open_named(p, n, flags)
  PROVE  /\ IInv' /\ FreeHandles # {}
         /\ fd_table'[p] = with_file(fd_table[p], NextHandle)
         /\ os_inode'[NextHandle]
              = new_os_inode(inode_of(n)', readable(flags), writable(flags))
<1>1. /\ n \in Named /\ FreeHandles # {} /\ UNCHANGED directory
      /\ refer([os_inode EXCEPT ![NextHandle]
                   = new_os_inode(inode_of(n), readable(flags), writable(flags))],
               hard, recycled, opened_in(p, NextHandle))
  BY DEF open_named
<1>2. hard' = hard
  BY <1>1 DEF refer
<1>3. /\ hard[n] \in Handle /\ inode_of(n) \in Name
      /\ Referenced(hard[n], hard, recycled, fd_table)
  BY <1>1, NamedFacts
<1>4. /\ IInv'
      /\ fd_table'[p] = with_file(fd_table[p], NextHandle)
      /\ os_inode'[NextHandle]
           = new_os_inode(inode_of(n), readable(flags), writable(flags))
      /\ \A h \in Handle : Referenced(h, hard, recycled, fd_table)
                             /\ Referenced(h, hard', recycled', fd_table')
                             => os_inode'[h] = os_inode[h]
  BY <1>1, <1>2, <1>3, OpenNew
<1>5. Referenced(hard[n], hard', recycled', fd_table')
  BY <1>2 DEF Referenced
<1>6. inode_of(n)' = inode_of(n)
  BY <1>2, <1>3, <1>4, <1>5 DEF inode_of
<1> QED BY <1>1, <1>4, <1>6

LEMMA CreateFileFacts ==
  ASSUME IInv, NEW p \in Proc, life[p] = "live", UNCHANGED life, NEW n \in Name,
         NEW flags, create_file(p, n, flags)
  PROVE  /\ IInv' /\ FreeHandles # {}
         /\ fd_table'[p] = with_file(fd_table[p], NextHandle)
         /\ os_inode'[NextHandle]
              = new_os_inode(inode_of(n)', readable(flags), writable(flags))
<1>1. /\ FreeHandles # {} /\ directory' = directory \cup {n}
      /\ refer([os_inode EXCEPT ![NextHandle]
                   = new_os_inode(n, readable(flags), writable(flags))],
               [hard EXCEPT ![n] = NextHandle], recycled, opened_in(p, NextHandle))
  BY DEF create_file
<1>2. hard' = [hard EXCEPT ![n] = NextHandle]
  BY <1>1 DEF refer
<1>3. /\ IInv'
      /\ fd_table'[p] = with_file(fd_table[p], NextHandle)
      /\ os_inode'[NextHandle]
           = new_os_inode(n, readable(flags), writable(flags))
  BY <1>1, <1>2, OpenNew, Zenon
<1>4. inode_of(n)' = n
  <2>1. hard'[n] = NextHandle
    BY <1>2 DEF IInv, TablesTyped
  <2> QED BY <1>3, <2>1, NewFields, SMTT(30) DEF inode_of
<1> QED BY <1>1, <1>3, <1>4

(* The OSInode that unlink put aside moves back to HARD_LINK_MAP.          *)
LEMMA CreateAgainIInv ==
  ASSUME IInv, NEW p \in Proc, life[p] = "live", UNCHANGED life, NEW n \in Name,
         NEW flags, create_again(p, n, flags)
  PROVE  /\ IInv' /\ recycled[n] \in Handle
         /\ fd_table' = [fd_table EXCEPT ![p] = with_file(fd_table[p], recycled[n])]
<1> DEFINE h == recycled[n]
           new == with_file(fd_table[p], h)
<1>1. h \in Handle
  BY DEF create_again, IInv, TablesTyped
<1>2. /\ hard' = [hard EXCEPT ![n] = h] /\ recycled' = [recycled EXCEPT ![n] = None]
      /\ fd_table' = [fd_table EXCEPT ![p] = new] /\ directory' = directory
      /\ refer(os_inode, hard', recycled', fd_table')
  BY DEF create_again, refer, opened_in, fs_vars
<1>3. new \in Seq(Entry) /\ Range(new) \subseteq Range(fd_table[p]) \cup {h}
  BY <1>1, HandleFacts, WithFile, Zenon DEF IInv, TablesTyped
<1> HIDE DEF new
<1>4. /\ fd_table' \in [Proc -> Seq(Entry)] /\ fd_table'[p] = new
      /\ \A q \in Proc : q # p => fd_table'[q] = fd_table[q]
  BY <1>2, <1>3 DEF IInv, TablesTyped
<1>5. /\ hard' \in [Name -> Handle \cup {None}]
      /\ recycled' \in [Name -> Handle \cup {None}]
      /\ \A m \in Name : hard'[m] \in {hard[m], h} /\ recycled'[m] \in {recycled[m], None}
      /\ directory' \subseteq Name
      /\ \A m \in directory' : hard'[m] # None \/ recycled'[m] # None
      /\ \A g \in Handle : DOMAIN os_inode[g] = Fields
  BY <1>1, <1>2, HandleFacts DEF IInv, TablesTyped, NamesCovered
<1>6. ASSUME NEW g \in Handle, Referenced(g, hard', recycled', fd_table')
      PROVE  os_inode[g].inode \in Name
  <2>1. Referenced(g, hard, recycled, fd_table)
    BY <1>3, <1>4, <1>5, <1>6, HandleFacts, Zenon DEF Referenced
  <2> QED BY <2>1 DEF IInv, ReferencesValid
<1>7. /\ life' \in [Proc -> {"none", "live", "zombie"}]
      /\ \A q \in Proc : life'[q] = "none" => fd_table'[q] = <<>>
  BY <1>4 DEF IInv, TablesTyped, NoTcbNoTable
<1>8. IInv'
  BY <1>2, <1>4, <1>5, <1>6, <1>7, ReferIInv, Zenon
<1> QED BY <1>1, <1>2, <1>8 DEF new

(* link copies a reference; unlink moves one to RECYCLED_MAP.              *)
LEMMA LinksIInv ==
  ASSUME IInv, NEW n \in Name, NEW m \in Name, sys_unlinkat(n) \/ sys_linkat(n, m)
  PROVE  IInv'
<1>1. hard[n] \in Handle /\ hard[n] # None
  BY NamedFacts, HandleFacts DEF sys_unlinkat, sys_linkat
<1>2. /\ \/ /\ hard' = [hard EXCEPT ![n] = None]
            /\ recycled' = [recycled EXCEPT ![n] = hard[n]]
         \/ hard' = [hard EXCEPT ![m] = hard[n]] /\ recycled' = recycled
      /\ fd_table' = fd_table /\ UNCHANGED <<directory, life>>
      /\ refer(os_inode, hard', recycled', fd_table')
  BY Zenon DEF sys_unlinkat, sys_linkat, refer
<1>3. /\ hard' \in [Name -> Handle \cup {None}]
      /\ recycled' \in [Name -> Handle \cup {None}]
      /\ \A x \in Name : /\ hard'[x] \in {hard[x], hard[n], None}
                          /\ recycled'[x] \in {recycled[x], hard[n]}
      /\ \A x \in directory' : hard'[x] # None \/ recycled'[x] # None
  BY <1>1, <1>2, Zenon DEF IInv, TablesTyped, NamesCovered
<1>4. ASSUME NEW g \in Handle, Referenced(g, hard', recycled', fd_table')
      PROVE  os_inode[g].inode \in Name
  <2>1. Referenced(g, hard, recycled, fd_table)
    BY <1>2, <1>3, <1>4, HandleFacts DEF Referenced
  <2> QED BY <2>1 DEF IInv, ReferencesValid
<1>5. /\ fd_table' \in [Proc -> Seq(Entry)]
      /\ \A g \in Handle : DOMAIN os_inode[g] = Fields
      /\ directory' \subseteq Name
      /\ life' \in [Proc -> {"none", "live", "zombie"}]
      /\ \A q \in Proc : life'[q] = "none" => fd_table'[q] = <<>>
  BY <1>2 DEF IInv, TablesTyped, NoTcbNoTable
<1> QED BY <1>2, <1>3, <1>4, <1>5, ReferIInv

LEMMA ExitIInv ==
  ASSUME IInv, NEW p \in Proc, exit(p) PROVE IInv'
<1>1. /\ UNCHANGED <<directory, hard, recycled, os_inode, fd_table>>
      /\ life' = [life EXCEPT ![p] = "zombie"]
  BY DEF exit, fs_vars, map_vars
<1>2. TablesTyped' /\ NoTcbNoTable'
  <2>1. TablesTyped /\ NoTcbNoTable
    BY DEF IInv
  <2>2. TablesTyped'
    BY <1>1, <2>1 DEF TablesTyped
  <2> QED BY <1>1, <2>1, <2>2 DEF TablesTyped, NoTcbNoTable
<1> QED BY <1>1, <1>2 DEF IInv, ReferencesValid, Referenced, NamesCovered

(* Reading and writing move the offset of an OSInode, and nothing else.    *)
LEMMA TransferIInv ==
  ASSUME IInv, NEW p \in Proc, NEW i \in DOMAIN fd_table[p], NEW slices,
         sys_read(p, i, slices) \/ sys_write(p, i, slices)
  PROVE  IInv'
<1> DEFINE h == fd_table[p][i]
<1>1. PICK o : os_inode' = [os_inode EXCEPT ![h].offset = o]
  BY Zenon DEF sys_read, sys_write
<1>2. UNCHANGED <<directory, hard, recycled, fd_table, life>>
  BY Zenon DEF sys_read, sys_write, fs_vars, map_vars
<1>3. h \in Handle
  BY Zenon DEF sys_read, sys_write, OpenFile
<1> HIDE DEF h
<1>4. /\ DOMAIN os_inode' = Handle
      /\ \A g \in Handle : /\ DOMAIN os_inode'[g] = Fields
                            /\ os_inode'[g].inode = os_inode[g].inode
  BY <1>1, <1>3 DEF IInv, TablesTyped, Fields
<1>5. TablesTyped'
  BY <1>2, <1>4 DEF IInv, TablesTyped
<1> QED BY <1>2, <1>4, <1>5 DEF IInv, ReferencesValid, Referenced, NamesCovered,
                                NoTcbNoTable

LEMMA NextIInv == IInv /\ [Next]_vars => IInv'
<1> SUFFICES ASSUME IInv, [Next]_vars PROVE IInv'
  OBVIOUS
<1>1. CASE UNCHANGED vars
  <2>1. UNCHANGED <<directory, hard, recycled, os_inode, fd_table, life>>
    BY <1>1 DEF vars, fs_vars, map_vars
  <2> QED BY <2>1 DEF IInv, TablesTyped, ReferencesValid, Referenced, NamesCovered,
                      NoTcbNoTable
<1>2. ASSUME NEW p \in Proc, life[p] = "live", NEW n \in Name, NEW flags,
             sys_openat(p, n, flags)
      PROVE  IInv'
  <2>1. /\ UNCHANGED life
        /\ \/ open_named(p, n, flags)
           \/ create_file(p, n, flags)
           \/ create_again(p, n, flags)
    BY <1>2, Zenon DEF sys_openat
  <2> QED BY <1>2, <2>1, OpenNamedFacts, CreateFileFacts, CreateAgainIInv, Zenon
<1>3. ASSUME NEW p \in Proc, life[p] = "live", call(p) PROVE IInv'
  BY <1>2, <1>3, CloseIInv, DupIInv, PipeIInv, ForkIInv, ExitIInv, TransferIInv,
     LinksIInv DEF call
<1>4. CASE openat_unknown_flag
  <2>1. UNCHANGED <<directory, hard, recycled, os_inode, fd_table, life>>
    BY <1>4 DEF openat_unknown_flag, fs_vars, map_vars
  <2> QED BY <2>1 DEF IInv, TablesTyped, ReferencesValid, Referenced, NamesCovered,
                      NoTcbNoTable
<1> QED BY <1>1, <1>3, <1>4, ReapIInv DEF Next

(* The inductive invariant holds throughout.                               *)
THEOREM Invariant == Spec => []IInv
  BY InitIInv, NextIInv, PTL DEF Spec

-----------------------------------------------------------------------------
(* The theorems, for every value of the constants.                         *)

(* The unwrap on RECYCLED_MAP in open_file never fails.                    *)
THEOREM NamesCorrect == Spec => []NamesCovered
<1>1. IInv => NamesCovered
  BY DEF IInv
<1> QED BY <1>1, Invariant, PTL

(* A descriptor in use survives a step that adds e to the table of q.      *)
LEMMA AddKeeps ==
  ASSUME IInv, NEW p \in Proc, NEW i \in Open(p), NEW q \in Proc, NEW e \in Entry,
         fd_table' = [fd_table EXCEPT ![q] = with_file(fd_table[q], e)]
  PROVE  Kept(p, i)
<1>1. i \in DOMAIN fd_table[p] /\ fd_table[p][i] # None
  BY DEF Open
<1>2. CASE p = q
  <2>1. fd_table'[p] = with_file(fd_table[p], e) /\ fd_table[p] \in Seq(Entry)
    BY <1>2 DEF IInv, TablesTyped
  <2>2. \A j \in DOMAIN fd_table[p] : fd_table[p][j] # None =>
          /\ j \in DOMAIN with_file(fd_table[p], e)
          /\ with_file(fd_table[p], e)[j] = fd_table[p][j]
    BY <2>1, WithFile, Zenon
  <2> QED BY <1>1, <2>1, <2>2 DEF Kept
<1>3. CASE p # q
  BY <1>1, <1>3 DEF IInv, TablesTyped, Kept
<1> QED BY <1>2, <1>3

LEMMA PipeKeeps ==
  ASSUME IInv, NEW p \in Proc, NEW i \in Open(p), NEW q \in Proc, sys_pipe(q)
  PROVE  Kept(p, i)
<1> DEFINE one == with_file(fd_table[q], PipeRead)
           new == with_file(one, PipeWrite)
<1>1. i \in DOMAIN fd_table[p] /\ fd_table[p][i] # None
  BY DEF Open
<1>2. fd_table' = [fd_table EXCEPT ![q] = new]
  BY DEF sys_pipe, refer
<1>3. /\ one \in Seq(Entry)
      /\ \A j \in DOMAIN fd_table[q] : fd_table[q][j] # None =>
           j \in DOMAIN one /\ one[j] = fd_table[q][j]
  BY HandleFacts, WithFile, Zenon DEF IInv, TablesTyped
<1> HIDE DEF one
<1>4. \A j \in DOMAIN one : one[j] # None => j \in DOMAIN new /\ new[j] = one[j]
  <2>1. PipeWrite \in Entry
    BY HandleFacts
  <2> QED BY <1>3, <2>1, WithFile, Zenon
<1> HIDE DEF new
<1>5. CASE p = q
  BY <1>1, <1>2, <1>3, <1>4, <1>5 DEF IInv, TablesTyped, Kept
<1>6. CASE p # q
  BY <1>1, <1>2, <1>6 DEF IInv, TablesTyped, Kept
<1> QED BY <1>5, <1>6

(* Only its own close, or the end of its process, ends a descriptor.       *)
LEMMA NextStable ==
  ASSUME IInv, [Next]_vars, NEW p \in Proc, NEW i \in Open(p)
  PROVE  Kept(p, i) \/ (life[p] = "live" /\ sys_close(p, i)) \/ reap(p)
<1> DEFINE Goal == Kept(p, i) \/ (life[p] = "live" /\ sys_close(p, i)) \/ reap(p)
<1>1. i \in DOMAIN fd_table[p] /\ fd_table \in [Proc -> Seq(Entry)]
  BY DEF Open, IInv, TablesTyped
<1>2. ASSUME fd_table' = fd_table PROVE Goal
  BY <1>1, <1>2 DEF Kept
<1>3. ASSUME NEW q \in Proc, life[q] = "live", NEW j \in DOMAIN fd_table[q],
             sys_close(q, j)
      PROVE  Goal
  <2>1. fd_table' = [fd_table EXCEPT ![q] = [fd_table[q] EXCEPT ![j] = None]]
    BY <1>3 DEF sys_close, refer
  <2>2. CASE q = p /\ j = i
    BY <1>3, <2>2
  <2>3. CASE q = p /\ j # i
    BY <1>1, <2>1, <2>3 DEF Kept
  <2>4. CASE q # p
    BY <1>1, <2>1, <2>4 DEF Kept
  <2> QED BY <2>2, <2>3, <2>4
<1>4. ASSUME NEW q \in Proc, NEW j \in DOMAIN fd_table[q], sys_dup(q, j) PROVE Goal
  <2>1. fd_table' = [fd_table EXCEPT ![q] = with_file(fd_table[q], fd_table[q][j])]
    BY <1>4 DEF sys_dup, refer
  <2>2. fd_table[q][j] \in Entry
    BY <1>1, <1>4, SeqFacts
  <2> QED BY <2>1, <2>2, AddKeeps, Zenon
<1>5. ASSUME NEW q \in Proc, NEW c \in Proc, fork(q, c) PROVE Goal
  <2>1. fd_table' = [fd_table EXCEPT ![c] = fd_table[q]] /\ life[c] = "none"
    BY <1>5 DEF fork, refer
  <2>2. c # p
    <3>1. fd_table[c] = <<>>
      BY <2>1 DEF IInv, NoTcbNoTable
    <3> QED BY <1>1, <3>1
  <2> QED BY <1>1, <2>1, <2>2 DEF Kept
<1>6. ASSUME NEW c \in Proc, reap(c) PROVE Goal
  <2>1. fd_table' = [fd_table EXCEPT ![c] = <<>>]
    BY <1>6 DEF reap, refer
  <2>2. CASE c = p
    BY <1>6, <2>2
  <2>3. CASE c # p
    BY <1>1, <2>1, <2>3 DEF Kept
  <2> QED BY <2>2, <2>3
<1>7. ASSUME NEW q \in Proc, life[q] = "live", UNCHANGED life, NEW n \in Name,
             NEW flags, sys_openat(q, n, flags)
      PROVE  Goal
  <2>1. CASE open_named(q, n, flags) \/ create_file(q, n, flags)
    <3>1. FreeHandles # {}
          /\ fd_table' = [fd_table EXCEPT ![q] = with_file(fd_table[q], NextHandle)]
      BY <2>1 DEF open_named, create_file, refer, opened_in
    <3>2. NextHandle \in Entry
      BY <3>1, NextHandleFree, HandleFacts, Zenon
    <3> QED BY <3>1, <3>2, AddKeeps, Zenon
  <2>2. CASE create_again(q, n, flags)
    <3>1. /\ recycled[n] \in Entry
          /\ fd_table' = [fd_table EXCEPT ![q] = with_file(fd_table[q], recycled[n])]
      BY <1>7, <2>2, CreateAgainIInv, HandleFacts, Zenon
    <3> QED BY <3>1, AddKeeps, Zenon
  <2> QED BY <1>7, <2>1, <2>2 DEF sys_openat
<1> HIDE DEF Goal
<1>8. ASSUME NEW q \in Proc, life[q] = "live", call(q) PROVE Goal
  <2>1. CASE \E n \in Name, flags \in Openings : sys_openat(q, n, flags)
    BY <1>7, <1>8, <2>1 DEF sys_openat
  <2>2. CASE sys_pipe(q)
    BY <2>2, PipeKeeps DEF Goal
  <2>3. CASE \E j \in DOMAIN fd_table[q] : sys_close(q, j) \/ sys_dup(q, j)
    BY <1>3, <1>4, <1>8, <2>3
  <2>4. CASE \E c \in Proc : fork(q, c)
    BY <1>5, <2>4
  <2>5. CASE \/ exit(q)
             \/ \E n \in Name : sys_unlinkat(n) \/ \E m \in Name : sys_linkat(n, m)
             \/ \E j \in DOMAIN fd_table[q], slices \in Slices :
                  sys_read(q, j, slices) \/ sys_write(q, j, slices)
    <3>1. fd_table' = fd_table
      BY <2>5, Zenon DEF exit, sys_unlinkat, sys_linkat, refer, sys_read, sys_write
    <3> QED BY <1>2, <3>1
  <2> QED BY <1>8, <2>1, <2>2, <2>3, <2>4, <2>5, Zenon DEF call
<1>9. CASE UNCHANGED vars
  BY <1>2, <1>9 DEF vars, Goal
<1>10. CASE openat_unknown_flag
  BY <1>2, <1>10 DEF openat_unknown_flag, Goal
<1> QED BY <1>6, <1>8, <1>9, <1>10 DEF Next, Goal

(* alloc_fd never takes a descriptor in use.                               *)
THEOREM DescriptorsCorrect == Spec => DescriptorsStable
<1>1. IInv /\ [Next]_vars =>
        [\A p \in Proc : \A i \in Open(p) :
           Kept(p, i) \/ (life[p] = "live" /\ sys_close(p, i)) \/ reap(p)]_vars
  BY NextStable
<1> QED BY <1>1, Invariant, PTL DEF Spec, DescriptorsStable

-----------------------------------------------------------------------------
(* The offset of an open file.                                             *)

LEMMA WriteSlice ==
  ASSUME NEW st \in [offset : Nat, size : Nat], NEW len \in Nat
  PROVE  /\ write_slice(st, len) \in [offset : Nat, size : Nat]
         /\ write_slice(st, len).offset >= st.offset
  BY DEF write_slice, larger

LEMMA ReadSlice ==
  ASSUME NEW bytes \in Nat, NEW st \in [offset : Nat, done : BOOLEAN], NEW len \in Nat
  PROVE  /\ read_slice(bytes, st, len) \in [offset : Nat, done : BOOLEAN]
         /\ read_slice(bytes, st, len).offset >= st.offset
<1> DEFINE n == read_at(bytes, st.offset, len)
<1>1. n \in Nat
  BY SMTT(30) DEF read_at, smaller
<1>2. read_slice(bytes, st, len) = IF st.done \/ n = 0 THEN [offset |-> st.offset, done |-> TRUE]
                                   ELSE [offset |-> st.offset + n, done |-> FALSE]
  BY DEF read_slice
<1> HIDE DEF n
<1>3. CASE st.done \/ n = 0
  BY <1>2, <1>3
<1>4. CASE ~ (st.done \/ n = 0)
  BY <1>1, <1>2, <1>4
<1> QED BY <1>3, <1>4

(* A read leaves the offset where it was or moves it forward.              *)
LEMMA ReadAdvances ==
  ASSUME NEW bytes \in Nat, NEW offset \in Nat, NEW slices \in Seq(Nat)
  PROVE  /\ after_read(bytes, offset, slices) \in Nat
         /\ after_read(bytes, offset, slices) >= offset
<1> DEFINE n == Len(slices)
           S == {st \in [offset : Nat, done : BOOLEAN] : st.offset >= offset}
           s0 == [offset |-> offset, done |-> FALSE]
           step(st, k) == read_slice(bytes, st, slices[k])
           next == [k \in 1 .. n |-> [st \in S |-> step(st, k)]]
           at[k \in 0 .. Len(slices)] ==
             IF k = 0 THEN [offset |-> offset, done |-> FALSE]
             ELSE read_slice(bytes, at[k - 1], slices[k])
<1>1. n \in Nat /\ \A k \in 1 .. n : slices[k] \in Nat
  BY SeqFacts
<1>2. s0 \in S
  OBVIOUS
<1>3. ASSUME NEW st \in S, NEW k \in 1 .. n PROVE step(st, k) \in S
  <2>1. /\ step(st, k) \in [offset : Nat, done : BOOLEAN]
        /\ step(st, k).offset >= st.offset
    BY <1>1, ReadSlice, Zenon
  <2> HIDE DEF step
  <2> QED BY <2>1, SMTT(30)
<1>4. after_read(bytes, offset, slices) = at[n].offset
  BY DEF after_read, for_each
<1>5. ASSUME NEW f, f = [k \in 0 .. n |-> IF k = 0 THEN s0 ELSE step(f[k - 1], k)]
      PROVE  at = [k \in 0 .. n |-> IF k = 0 THEN s0 ELSE step(at[k - 1], k)]
  BY <1>5, Zenon
<1> HIDE DEF S, n, s0, step, at
<1>6. next \in [1 .. n -> [S -> S]]
  BY <1>3
<1>7. PICK f : Iterates(f, S, n, s0, next)
  <2> HIDE DEF next
  <2> QED BY <1>1, <1>2, <1>6, StepByStep
<1>8. f = [k \in 0 .. n |-> IF k = 0 THEN s0 ELSE step(f[k - 1], k)]
  <2>1. \A k \in 1 .. n : k - 1 \in 0 .. n
    BY <1>1
  <2>2. \A k \in 1 .. n : f[k] = step(f[k - 1], k)
    BY <1>7, <2>1, Zenon DEF Iterates
  <2> QED BY <1>1, <1>7, <2>2, SMTT(30) DEF Iterates
<1>9. at = [k \in 0 .. n |-> IF k = 0 THEN s0 ELSE step(at[k - 1], k)]
  BY <1>8, <1>5, Zenon
<1>10. at[n] \in S
  <2> DEFINE P == {k \in 0 .. n : at[k] \in S}
  <2>1. 0 \in P
    BY <1>1, <1>2, <1>9
  <2>2. ASSUME NEW k \in 1 .. n, k - 1 \in P PROVE k \in P
    BY <1>1, <1>3, <1>9, <2>2, SMTT(30)
  <2> HIDE DEF P
  <2>3. 0 .. n \subseteq P
    BY <1>1, <2>1, <2>2, UpTo, Zenon
  <2> QED BY <1>1, <2>3 DEF P
<1> QED BY <1>4, <1>10 DEF S
(* A write moves it to the end of what was written.                         *)
LEMMA WriteAdvances ==
  ASSUME NEW bytes \in Nat, NEW offset \in Nat, NEW slices \in Seq(Nat)
  PROVE  /\ after_write(bytes, offset, slices) \in [offset : Nat, size : Nat]
         /\ after_write(bytes, offset, slices).offset >= offset
<1> DEFINE n == Len(slices)
           S == {st \in [offset : Nat, size : Nat] : st.offset >= offset}
           s0 == [offset |-> offset, size |-> bytes]
           step(st, k) == write_slice(st, slices[k])
           next == [k \in 1 .. n |-> [st \in S |-> step(st, k)]]
           at[k \in 0 .. Len(slices)] ==
             IF k = 0 THEN [offset |-> offset, size |-> bytes]
             ELSE write_slice(at[k - 1], slices[k])
<1>1. n \in Nat /\ \A k \in 1 .. n : slices[k] \in Nat
  BY SeqFacts
<1>2. s0 \in S
  OBVIOUS
<1>3. ASSUME NEW st \in S, NEW k \in 1 .. n PROVE step(st, k) \in S
  <2>1. /\ step(st, k) \in [offset : Nat, size : Nat]
        /\ step(st, k).offset >= st.offset
    BY <1>1, WriteSlice, Zenon
  <2> HIDE DEF step
  <2> QED BY <2>1
<1>4. after_write(bytes, offset, slices) = at[n]
  BY DEF after_write, for_each
<1>5. ASSUME NEW f, f = [k \in 0 .. n |-> IF k = 0 THEN s0 ELSE step(f[k - 1], k)]
      PROVE  at = [k \in 0 .. n |-> IF k = 0 THEN s0 ELSE step(at[k - 1], k)]
  BY <1>5, Zenon
<1> HIDE DEF S, n, s0, step, at
<1>6. next \in [1 .. n -> [S -> S]]
  BY <1>3
<1>7. PICK f : Iterates(f, S, n, s0, next)
  <2> HIDE DEF next
  <2> QED BY <1>1, <1>2, <1>6, StepByStep
<1>8. f = [k \in 0 .. n |-> IF k = 0 THEN s0 ELSE step(f[k - 1], k)]
  <2>1. \A k \in 1 .. n : k - 1 \in 0 .. n
    BY <1>1
  <2>2. \A k \in 1 .. n : f[k] = step(f[k - 1], k)
    BY <1>7, <2>1, Zenon DEF Iterates
  <2> QED BY <1>1, <1>7, <2>2, SMTT(30) DEF Iterates
<1>9. at = [k \in 0 .. n |-> IF k = 0 THEN s0 ELSE step(at[k - 1], k)]
  BY <1>8, <1>5, Zenon
<1>10. at[n] \in S
  <2> DEFINE P == {k \in 0 .. n : at[k] \in S}
  <2>1. 0 \in P
    BY <1>1, <1>2, <1>9
  <2>2. ASSUME NEW k \in 1 .. n, k - 1 \in P PROVE k \in P
    BY <1>1, <1>3, <1>9, <2>2, SMTT(30)
  <2> HIDE DEF P
  <2>3. 0 .. n \subseteq P
    BY <1>1, <2>1, <2>2, UpTo, Zenon
  <2> QED BY <1>1, <2>3 DEF P
<1> QED BY <1>4, <1>10 DEF S

(* Sizes and offsets are numbers.                                          *)
Sized ==
  /\ size \in [Name -> Nat]
  /\ \A h \in Handle : os_inode[h].offset \in Nat

InUse(h) == Referenced(h, hard, recycled, fd_table)

(* What a step does to the OSInodes that stay in use.                      *)
Advances ==
  \A h \in Handle : InUse(h) /\ InUse(h)' =>
    /\ os_inode'[h].offset >= os_inode[h].offset
    /\ os_inode'[h].inode = os_inode[h].inode

(* A step that sets the maps and the tables, and no OSInode in use.        *)
LEMMA ReferAdvances ==
  ASSUME Sized, NEW inodes, refer(inodes, hard', recycled', fd_table'),
         \A h \in Handle : inodes[h].offset \in Nat,
         \A h \in Handle : InUse(h) => inodes[h] = os_inode[h],
         size' \in [Name -> Nat]
  PROVE  Sized' /\ Advances
<1>1. \A h \in Handle : os_inode'[h] = IF InUse(h)' THEN inodes[h] ELSE Dropped
  BY DEF refer, dropping, InUse
<1>2. Dropped.offset = 0
  BY DEF Dropped
<1>3. Sized'
  BY <1>1, <1>2 DEF Sized
<1>4. Advances
  BY <1>1 DEF Sized, Advances
<1> QED BY <1>3, <1>4

(* Opening a file makes an OSInode that was not in use.                    *)
LEMMA OpenAdvances ==
  ASSUME IInv, Sized, NEW p \in Proc, NEW n \in Name, NEW flags,
         sys_openat(p, n, flags)
  PROVE  Sized' /\ Advances
<1>1. CASE create_again(p, n, flags)
  <2>1. refer(os_inode, hard', recycled', fd_table') /\ size' = size
    BY <1>1, SMTT(20) DEF create_again, refer, fs_vars
  <2> QED BY <2>1, ReferAdvances DEF Sized
<1>2. CASE open_named(p, n, flags) \/ create_file(p, n, flags)
  <2> DEFINE new(x) == new_os_inode(x, readable(flags), writable(flags))
             inodes(x) == [os_inode EXCEPT ![NextHandle] = new(x)]
  <2>1. PICK x : /\ FreeHandles # {}
                 /\ refer(inodes(x), hard', recycled', fd_table')
    BY <1>2, Zenon DEF open_named, create_file, refer
  <2>2. size' \in [Name -> Nat]
    BY <1>2, SMTT(30) DEF Sized, open_named, create_file
  <2>3. NextHandle \in Handle /\ ~InUse(NextHandle)
    BY <2>1, NextHandleFree DEF InUse
  <2>4. new(x).offset = 0
    BY DEF new_os_inode
  <2> HIDE DEF new
  <2>5. \A h \in Handle : inodes(x)[h] = IF h = NextHandle THEN new(x) ELSE os_inode[h]
    BY <2>3 DEF IInv, TablesTyped
  <2> HIDE DEF inodes
  <2>6. \A h \in Handle : inodes(x)[h].offset \in Nat
    BY <2>4, <2>5 DEF Sized
  <2>7. \A h \in Handle : InUse(h) => inodes(x)[h] = os_inode[h]
    BY <2>3, <2>5
  <2> QED BY <2>1, <2>2, <2>6, <2>7, ReferAdvances
<1> QED BY <1>1, <1>2 DEF sys_openat

LEMMA TransferAdvances ==
  ASSUME IInv, Sized, NEW p \in Proc, NEW i \in DOMAIN fd_table[p],
         NEW slices \in Slices, sys_read(p, i, slices) \/ sys_write(p, i, slices)
  PROVE  Sized' /\ Advances
<1> DEFINE h == fd_table[p][i]
           n == os_inode[h].inode
           offset == os_inode[h].offset
<1>1. h \in Handle /\ slices \in Seq(Nat)
  BY OpenFilesAssumption, Zenon DEF sys_read, sys_write, OpenFile
<1>2. InUse(h)
  BY DEF InUse, Referenced, Range
<1>3. n \in Name /\ size[n] \in Nat /\ offset \in Nat
  BY <1>1, <1>2 DEF IInv, ReferencesValid, InUse, Sized
<1>4. PICK o \in Nat : o >= offset /\ os_inode' = [os_inode EXCEPT ![h].offset = o]
  <2>1. CASE sys_read(p, i, slices)
    <3>1. os_inode' = [os_inode EXCEPT ![h].offset = after_read(size[n], offset, slices)]
      BY <2>1 DEF sys_read
    <3> HIDE DEF h, n, offset
    <3> QED BY <1>1, <1>3, <3>1, ReadAdvances, Zenon
  <2>2. CASE sys_write(p, i, slices)
    <3>1. os_inode' = [os_inode EXCEPT ![h].offset
                          = after_write(size[n], offset, slices).offset]
      BY <2>2, Zenon DEF sys_write
    <3> HIDE DEF h, n, offset
    <3>2. /\ after_write(size[n], offset, slices) \in [offset : Nat, size : Nat]
          /\ after_write(size[n], offset, slices).offset >= offset
      BY <1>1, <1>3, WriteAdvances, Zenon
    <3> QED BY <3>1, <3>2, Zenon
  <2> QED BY <2>1, <2>2, Zenon
<1>5. size' \in [Name -> Nat]
  <2>1. CASE sys_read(p, i, slices)
    BY <2>1 DEF sys_read, fs_vars, Sized
  <2>2. CASE sys_write(p, i, slices)
    <3>1. size' = [size EXCEPT ![n] = after_write(size[n], offset, slices).size]
      BY <2>2, Zenon DEF sys_write
    <3> HIDE DEF h, n, offset
    <3>2. after_write(size[n], offset, slices) \in [offset : Nat, size : Nat]
      BY <1>1, <1>3, WriteAdvances, Zenon
    <3> QED BY <3>1, <3>2, Zenon DEF Sized
  <2> QED BY <2>1, <2>2
<1> HIDE DEF h, n
<1>6. /\ os_inode'[h].offset = o /\ os_inode'[h].inode = os_inode[h].inode
      /\ \A g \in Handle : g # h => os_inode'[g] = os_inode[g]
  BY <1>1, <1>4 DEF IInv, TablesTyped, Fields
<1>7. Sized'
  BY <1>1, <1>4, <1>5, <1>6 DEF Sized
<1>8. Advances
  BY <1>1, <1>4, <1>6, SMTT(30) DEF Sized, Advances
<1> QED BY <1>7, <1>8

LEMMA SameAdvances ==
  ASSUME Sized, UNCHANGED <<size, os_inode>>
  PROVE  Sized' /\ Advances
<1>1. Sized'
  BY DEF Sized
<1>2. Advances
  BY DEF Sized, Advances
<1> QED BY <1>1, <1>2

LEMMA NextAdvances ==
  ASSUME IInv, Sized, [Next]_vars
  PROVE  Sized' /\ Advances
<1> DEFINE Goal == Sized' /\ Advances
<1>1. ASSUME refer(os_inode, hard', recycled', fd_table'), size' = size PROVE Goal
  BY <1>1, ReferAdvances DEF Sized
<1> HIDE DEF Goal
<1>2. ASSUME NEW p \in Proc, call(p) PROVE Goal
  <2>1. CASE \E n \in Name, flags \in Openings : sys_openat(p, n, flags)
    BY <2>1, OpenAdvances DEF Goal
  <2>2. CASE \E i \in DOMAIN fd_table[p], slices \in Slices :
               sys_read(p, i, slices) \/ sys_write(p, i, slices)
    BY <2>2, TransferAdvances DEF Goal
  <2>3. CASE exit(p)
    BY <2>3, SameAdvances DEF exit, fs_vars, Goal
  <2>4. CASE \/ sys_pipe(p)
             \/ \E i \in DOMAIN fd_table[p] : sys_close(p, i) \/ sys_dup(p, i)
             \/ \E c \in Proc : fork(p, c)
             \/ \E n \in Name : sys_unlinkat(n) \/ \E m \in Name : sys_linkat(n, m)
    <3>1. refer(os_inode, hard', recycled', fd_table') /\ size' = size
      BY <2>4, Zenon DEF sys_pipe, sys_close, sys_dup, fork, sys_unlinkat, sys_linkat,
                         refer, fs_vars
    <3> QED BY <1>1, <3>1
  <2> QED BY <1>2, <2>1, <2>2, <2>3, <2>4 DEF call
<1>3. ASSUME NEW c \in Proc, reap(c) PROVE Goal
  BY <1>1, <1>3 DEF reap, refer, fs_vars
<1>4. CASE UNCHANGED vars
  BY <1>4, SameAdvances DEF vars, fs_vars, Goal
<1>5. CASE openat_unknown_flag
  BY <1>5, SameAdvances DEF openat_unknown_flag, fs_vars, Goal
<1> QED BY <1>2, <1>3, <1>4, <1>5 DEF Next, Goal

LEMMA HeldInUse ==
  ASSUME NEW h, Holders(h) # {} PROVE InUse(h)
  BY DEF Holders, InUse, Referenced, Range

LEMMA HeldInUseAfter ==
  ASSUME NEW h, Holders(h)' # {} PROVE InUse(h)'
  BY DEF Holders, InUse, Referenced, Range

(* The sizes of files and the offsets of open files are numbers.           *)
LEMMA SizedInvariant == Spec => []Sized
<1>1. Init => Sized
  <2> SUFFICES ASSUME Init PROVE Sized
    OBVIOUS
  <2>1. size \in [Name -> Nat]
    BY DEF Init
  <2>2. Dropped.offset = 0 /\ \A n, r, w : new_os_inode(n, r, w).offset = 0
    BY DEF Dropped, new_os_inode
  <2>3. \A h \in Handle : \/ os_inode[h] = Dropped
                          \/ \E n : os_inode[h] = new_os_inode(n, TRUE, FALSE)
    BY Zenon DEF Init
  <2>4. \A h \in Handle : os_inode[h].offset = 0
    BY <2>2, <2>3, Zenon
  <2> QED BY <2>1, <2>4 DEF Sized
<1>2. IInv /\ Sized /\ [Next]_vars => Sized'
  BY NextAdvances
<1> QED BY <1>1, <1>2, Invariant, PTL DEF Spec

(* The offset of an open file only moves forward while it is in use.       *)
THEOREM OffsetsCorrect == Spec => OffsetsAdvance
<1>1. IInv /\ Sized /\ [Next]_vars =>
        [\A h \in Handle : Holders(h) # {} /\ Holders(h)' # {} =>
           /\ os_inode'[h].offset >= os_inode[h].offset
           /\ os_inode'[h].inode = os_inode[h].inode]_vars
  BY NextAdvances, HeldInUse, HeldInUseAfter DEF Advances
<1> QED BY <1>1, SizedInvariant, Invariant, PTL DEF Spec, OffsetsAdvance

-----------------------------------------------------------------------------
(* The file of a name.                                                     *)

(* The OSInode that a name has in one of the maps stays in use.            *)
os_inode_of(n) == IF hard[n] # None THEN hard[n] ELSE recycled[n]

LEMMA FileOfOsInode ==
  ASSUME IInv, NEW n \in directory
  PROVE  /\ os_inode_of(n) \in Handle /\ InUse(os_inode_of(n))
         /\ file_of(n) = os_inode[os_inode_of(n)].inode
<1>1. /\ n \in Name /\ (hard[n] # None \/ recycled[n] # None)
      /\ hard[n] \in Handle \cup {None} /\ recycled[n] \in Handle \cup {None}
  BY DEF IInv, TablesTyped, NamesCovered
<1> QED BY <1>1 DEF os_inode_of, file_of, InUse, Referenced

LEMMA FileOfOsInodeAfter ==
  ASSUME IInv', NEW n \in directory', NEW h, h = os_inode_of(n)'
  PROVE  InUse(h)' /\ file_of(n)' = os_inode'[h].inode
<1>1. /\ n \in Name /\ (hard'[n] # None \/ recycled'[n] # None)
      /\ hard'[n] \in Handle \cup {None} /\ recycled'[n] \in Handle \cup {None}
  BY DEF IInv, TablesTyped, NamesCovered
<1> QED BY <1>1 DEF os_inode_of, file_of, InUse, Referenced

(* Steps leave the OSInode of a name in one of the maps, but for link.     *)
LEMMA NextKeepsOsInode ==
  ASSUME IInv, [Next]_vars, NEW n \in directory
  PROVE  /\ n \in directory'
         /\ \/ os_inode_of(n)' = os_inode_of(n)
            \/ \E old \in Name : sys_linkat(old, n)
<1> DEFINE Goal == /\ n \in directory'
                   /\ \/ os_inode_of(n)' = os_inode_of(n)
                      \/ \E old \in Name : sys_linkat(old, n)
<1>1. /\ n \in Name /\ (hard[n] # None \/ recycled[n] # None)
      /\ hard \in [Name -> Handle \cup {None}] /\ recycled \in [Name -> Handle \cup {None}]
  BY DEF IInv, TablesTyped, NamesCovered
<1>2. ASSUME UNCHANGED <<directory, hard, recycled>> PROVE Goal
  BY <1>2 DEF os_inode_of
<1>3. ASSUME NEW p \in Proc, NEW m \in Name, NEW flags, sys_openat(p, m, flags)
      PROVE  Goal
  <2>1. CASE open_named(p, m, flags)
    BY <1>2, <2>1 DEF open_named, refer
  <2>2. CASE create_file(p, m, flags)
    <3>1. /\ m \notin directory /\ directory' = directory \cup {m}
          /\ hard' = [hard EXCEPT ![m] = NextHandle] /\ recycled' = recycled
      BY <2>2, Zenon DEF create_file, refer
    <3> QED BY <1>1, <3>1 DEF os_inode_of
  <2>3. CASE create_again(p, m, flags)
    <3>1. /\ hard[m] = None /\ directory' = directory /\ recycled[m] # None
          /\ hard' = [hard EXCEPT ![m] = recycled[m]]
          /\ recycled' = [recycled EXCEPT ![m] = None]
      BY <2>3, Zenon DEF create_again, refer, fs_vars, Named
    <3> QED BY <1>1, <3>1 DEF os_inode_of
  <2> QED BY <1>3, <2>1, <2>2, <2>3 DEF sys_openat
<1>4. ASSUME NEW m \in Name, sys_unlinkat(m) PROVE Goal
  <2>1. /\ hard[m] # None /\ directory' = directory
        /\ hard' = [hard EXCEPT ![m] = None]
        /\ recycled' = [recycled EXCEPT ![m] = hard[m]]
    BY <1>4, Zenon DEF sys_unlinkat, refer, Named
  <2> QED BY <1>1, <2>1 DEF os_inode_of
<1>5. ASSUME NEW m \in Name, NEW new \in Name, sys_linkat(m, new) PROVE Goal
  <2>1. /\ directory' = directory /\ recycled' = recycled
        /\ hard' = [hard EXCEPT ![new] = hard[m]]
    BY <1>5, Zenon DEF sys_linkat, refer
  <2>2. CASE new = n
    BY <1>5, <2>1, <2>2
  <2>3. CASE new # n
    BY <1>1, <2>1, <2>3 DEF os_inode_of
  <2> QED BY <2>2, <2>3
<1> HIDE DEF Goal
<1>6. ASSUME NEW p \in Proc, call(p) PROVE Goal
  <2>1. CASE \/ sys_pipe(p) \/ exit(p)
             \/ \E i \in DOMAIN fd_table[p] :
                  \/ sys_close(p, i) \/ sys_dup(p, i)
                  \/ \E slices \in Slices : sys_read(p, i, slices) \/ sys_write(p, i, slices)
             \/ \E c \in Proc : fork(p, c)
    <3>1. UNCHANGED <<directory, hard, recycled>>
      BY <2>1, Zenon DEF sys_pipe, exit, sys_close, sys_dup, sys_read, sys_write, fork,
                         refer, fs_vars, map_vars
    <3> QED BY <1>2, <3>1
  <2> QED BY <1>3, <1>4, <1>5, <1>6, <2>1, Zenon DEF call
<1>7. ASSUME NEW c \in Proc, reap(c) PROVE Goal
  BY <1>2, <1>7 DEF reap, refer, fs_vars
<1>8. CASE openat_unknown_flag
  BY <1>2, <1>8 DEF openat_unknown_flag, fs_vars, map_vars, Goal
<1>9. CASE UNCHANGED vars
  BY <1>2, <1>9 DEF vars, fs_vars, map_vars, Goal
<1> QED BY <1>6, <1>7, <1>8, <1>9 DEF Next, Goal

(* Unlinking a name and creating it again gives the file back that it had. *)
THEOREM FilesKept == Spec => NamesKeepTheirFile
<1>1. ASSUME IInv, IInv', Sized, [Next]_vars, NEW n \in directory
      PROVE  \/ n \in directory' /\ file_of(n)' = file_of(n)
             \/ \E old \in Name : sys_linkat(old, n)
  <2>1. SUFFICES ASSUME n \in directory', os_inode_of(n)' = os_inode_of(n)
                 PROVE  file_of(n)' = file_of(n)
    BY <1>1, NextKeepsOsInode
  <2>2. PICK h \in Handle : /\ h = os_inode_of(n) /\ InUse(h)
                            /\ file_of(n) = os_inode[h].inode
    BY <1>1, FileOfOsInode
  <2>3. InUse(h)' /\ file_of(n)' = os_inode'[h].inode
    BY <1>1, <2>1, <2>2, FileOfOsInodeAfter
  <2>4. Advances
    BY <1>1, NextAdvances
  <2> QED BY <2>2, <2>3, <2>4 DEF Advances
<1>2. IInv /\ IInv' /\ Sized /\ [Next]_vars =>
        [\A n \in directory : \/ n \in directory' /\ file_of(n)' = file_of(n)
                              \/ \E old \in Name : sys_linkat(old, n)]_vars
  BY <1>1
<1> QED BY <1>2, SizedInvariant, Invariant, PTL DEF Spec, NamesKeepTheirFile
=============================================================================
