----------------------------- MODULE PipeProofs -----------------------------
(***************************************************************************)
(* Proofs for RingBuffer and Pipe: the ring is a FIFO queue of at most     *)
(* RING_BUFFER_SIZE bytes, Pipe::read and Pipe::write use it as one, for   *)
(* any number of processes and any size.                                   *)
(***************************************************************************)
EXTENDS Pipe, SequenceTheorems, TLAPS

USE ZenonT(10), SMTT(30)

(* (x + k) % RING_BUFFER_SIZE without the modulus.                         *)
LEMMA WrapAround ==
  \A x \in Index, k \in 0 .. RING_BUFFER_SIZE :
    (x + k) % RING_BUFFER_SIZE =
      IF x + k >= RING_BUFFER_SIZE THEN x + k - RING_BUFFER_SIZE ELSE x + k
  BY RingAssumption DEF Index

LEMMA WrapInside ==
  \A x \in Index, k \in 0 .. RING_BUFFER_SIZE :
    (x + k) % RING_BUFFER_SIZE \in Index
<1> TAKE x \in Index, k \in 0 .. RING_BUFFER_SIZE
<1>1. x \in Nat /\ k \in Nat /\ x < RING_BUFFER_SIZE /\ k <= RING_BUFFER_SIZE
  BY RingAssumption DEF Index
<1> QED BY <1>1, WrapAround, RingAssumption, SMTT(30) DEF Index

LEMMA WrapNext ==
  \A x \in Index : (x + 1) % RING_BUFFER_SIZE =
                     IF x + 1 = RING_BUFFER_SIZE THEN 0 ELSE x + 1
  BY RingAssumption DEF Index

LEMMA WrapDistinct ==
  \A x \in Index, j, k \in 0 .. RING_BUFFER_SIZE - 1 :
    j < k => (x + j) % RING_BUFFER_SIZE # (x + k) % RING_BUFFER_SIZE
<1> TAKE x \in Index, j, k \in 0 .. RING_BUFFER_SIZE - 1
<1> HAVE j < k
<1>1. x \in 0 .. RING_BUFFER_SIZE - 1 /\ RING_BUFFER_SIZE \in Nat
  BY RingAssumption DEF Index
<1>2. (x + j) % RING_BUFFER_SIZE =
        IF x + j >= RING_BUFFER_SIZE THEN x + j - RING_BUFFER_SIZE ELSE x + j
  BY <1>1, WrapAround
<1>3. (x + k) % RING_BUFFER_SIZE =
        IF x + k >= RING_BUFFER_SIZE THEN x + k - RING_BUFFER_SIZE ELSE x + k
  BY <1>1, WrapAround
<1> QED BY <1>1, <1>2, <1>3

(* The distance from head to tail, and how it changes when tail or head    *)
(* advances.                                                               *)
Distance(h, t) == IF t > h THEN t - h ELSE t + RING_BUFFER_SIZE - h
Advance(x) == IF x + 1 = RING_BUFFER_SIZE THEN 0 ELSE x + 1

LEMMA DistanceTail ==
  \A h, t \in Index :
    Distance(h, Advance(t)) = IF h = t THEN 1 ELSE Distance(h, t) + 1
  BY RingAssumption DEF Index, Distance, Advance

LEMMA DistanceHead ==
  \A h, t \in Index :
    IF Advance(h) = t THEN Distance(h, t) = 1
    ELSE Distance(Advance(h), t) = Distance(h, t) - 1
  BY RingAssumption DEF Index, Distance, Advance

LEMMA DistanceWraps ==
  \A h, t \in Index :
    h # t => (h + Distance(h, t)) % RING_BUFFER_SIZE = t
<1> TAKE h, t \in Index
<1> HAVE h # t
<1>1. /\ Distance(h, t) \in 0 .. RING_BUFFER_SIZE
      /\ t = IF h + Distance(h, t) >= RING_BUFFER_SIZE
             THEN h + Distance(h, t) - RING_BUFFER_SIZE
             ELSE h + Distance(h, t)
  BY RingAssumption DEF Index, Distance
<1> QED BY <1>1, WrapAround

(* The ring never counts more bytes than it has room for, and its bytes    *)
(* form a sequence.                                                        *)
LEMMA RingCounts ==
  ASSUME NEW r \in Ring, StatusOK(r)
  PROVE  /\ available_read(r) \in 0 .. RING_BUFFER_SIZE
         /\ available_write(r) = RING_BUFFER_SIZE - available_read(r)
         /\ available_read(r) = 0 <=> r.status = "EMPTY"
         /\ contents(r) \in Seq(Byte)
         /\ Len(contents(r)) = available_read(r)
<1>1. /\ r.head \in Index /\ r.tail \in Index
      /\ r.status \in {"FULL", "EMPTY", "NORMAL"}
  BY DEF Ring
<1>2. /\ available_read(r) \in 0 .. RING_BUFFER_SIZE
      /\ available_read(r) = 0 <=> r.status = "EMPTY"
      /\ available_write(r) = RING_BUFFER_SIZE - available_read(r)
  BY <1>1, RingAssumption DEF Index, available_read, available_write, StatusOK
<1>3. ASSUME NEW i \in 1 .. available_read(r)
      PROVE  r.arr[(r.head + i - 1) % RING_BUFFER_SIZE] \in Byte
  <2>1. i - 1 \in 0 .. RING_BUFFER_SIZE /\ r.head + i - 1 = r.head + (i - 1)
    BY <1>1, <1>2, RingAssumption DEF Index
  <2>2. (r.head + (i - 1)) % RING_BUFFER_SIZE \in Index
    BY <1>1, <2>1, WrapInside
  <2> QED BY <2>1, <2>2 DEF Ring
<1>4. contents(r) \in [1 .. available_read(r) -> Byte]
  BY <1>3 DEF contents
<1>5. contents(r) \in Seq(Byte) /\ Len(contents(r)) = available_read(r)
  BY <1>2, <1>4, SeqDef, SMTT(30) DEF contents
<1> QED BY <1>2, <1>5

(* write_byte appends to the contents of a ring that is not full.          *)
LEMMA WriteByte ==
  ASSUME NEW r \in Ring, StatusOK(r), NEW b \in Byte, available_write(r) > 0
  PROVE  /\ write_byte(r, b) \in Ring /\ StatusOK(write_byte(r, b))
         /\ available_read(write_byte(r, b)) = available_read(r) + 1
         /\ contents(write_byte(r, b)) = Append(contents(r), b)
<1> DEFINE w == write_byte(r, b)
           n == available_read(r)
<1>1. /\ r.head \in Index /\ r.tail \in Index /\ r.arr \in [Index -> Byte]
      /\ r.status \in {"EMPTY", "NORMAL"}
  BY SMTT(30) DEF Ring, available_write
<1>2. /\ w.head = r.head /\ w.arr = [r.arr EXCEPT ![r.tail] = b]
      /\ w.tail = IF r.tail + 1 = RING_BUFFER_SIZE THEN 0 ELSE r.tail + 1
      /\ w.status = IF w.tail = r.head THEN "FULL" ELSE "NORMAL"
  <2>1. (r.tail + 1) % RING_BUFFER_SIZE =
          IF r.tail + 1 = RING_BUFFER_SIZE THEN 0 ELSE r.tail + 1
    BY <1>1, WrapNext
  <2> QED BY <2>1 DEF write_byte, Ring
<1>3. w \in Ring
  <2> DEFINE t == (r.tail + 1) % RING_BUFFER_SIZE
             st == IF t = r.head THEN "FULL" ELSE "NORMAL"
  <2>1. t \in Index
    BY <1>1, WrapNext, RingAssumption, SMTT(30) DEF Index
  <2>2. st \in {"FULL", "EMPTY", "NORMAL"}
    OBVIOUS
  <2>3. w = [r EXCEPT !.arr[r.tail] = b, !.tail = t, !.status = st]
    BY DEF write_byte
  <2> HIDE DEF t, st
  <2>4. [r EXCEPT !.arr[r.tail] = b, !.tail = t, !.status = st] \in Ring
    BY <2>1, <2>2, Zenon DEF Ring
  <2> QED BY <2>3, <2>4
<1> HIDE DEF w
<1>4. StatusOK(w)
  BY <1>2 DEF StatusOK
<1>5. available_read(w) = n + 1
  <2>1. n = IF r.head = r.tail THEN 0 ELSE Distance(r.head, r.tail)
    BY <1>1 DEF available_read, StatusOK, Distance
  <2>2. available_read(w) = Distance(r.head, Advance(r.tail))
    BY <1>2 DEF available_read, Distance, Advance
  <2> QED BY <1>1, <2>1, <2>2, DistanceTail, SMTT(30)
<1>6. /\ n \in 0 .. RING_BUFFER_SIZE - 1
      /\ contents(r) \in Seq(Byte) /\ Len(contents(r)) = n
      /\ contents(w) \in Seq(Byte) /\ Len(contents(w)) = n + 1
  BY <1>3, <1>4, <1>5, RingCounts, RingAssumption
<1>7. (r.head + n) % RING_BUFFER_SIZE = r.tail
  <2>1. CASE r.head = r.tail
    <3>1. n = 0 /\ 0 \in 0 .. RING_BUFFER_SIZE
      BY <1>1, <2>1, RingAssumption, SMTT(30) DEF available_read, StatusOK
    <3>2. (r.head + 0) % RING_BUFFER_SIZE =
            IF r.head + 0 >= RING_BUFFER_SIZE
            THEN r.head + 0 - RING_BUFFER_SIZE ELSE r.head + 0
      BY <1>1, <3>1, WrapAround
    <3> QED BY <1>1, <2>1, <3>1, <3>2, RingAssumption, SMTT(30) DEF Index
  <2>2. CASE r.head # r.tail
    <3>1. n = Distance(r.head, r.tail)
      BY <1>1, <2>2 DEF available_read, StatusOK, Distance
    <3> QED BY <1>1, <2>2, <3>1, DistanceWraps
  <2> QED BY <2>1, <2>2
<1> HIDE DEF n
<1>8. ASSUME NEW i \in 1 .. n
      PROVE  (r.head + i - 1) % RING_BUFFER_SIZE \in Index \ {r.tail}
  <2>1. i - 1 \in 0 .. RING_BUFFER_SIZE /\ r.head + i - 1 = r.head + (i - 1)
        /\ i - 1 < n /\ n \in 0 .. RING_BUFFER_SIZE - 1
    BY <1>1, <1>6, RingAssumption, SMTT(30) DEF Index
  <2>2. i - 1 \in 0 .. RING_BUFFER_SIZE - 1
    BY <2>1, RingAssumption
  <2>3. (r.head + (i - 1)) % RING_BUFFER_SIZE # (r.head + n) % RING_BUFFER_SIZE
    BY <1>1, <2>1, <2>2, WrapDistinct
  <2> QED BY <1>1, <1>7, <2>1, <2>3, WrapInside
<1>9. ASSUME NEW i \in 1 .. n + 1
      PROVE  contents(w)[i] = Append(contents(r), b)[i]
  <2>1. contents(w)[i] = w.arr[(r.head + i - 1) % RING_BUFFER_SIZE]
    BY <1>2, <1>5 DEF contents
  <2>2. CASE i = n + 1
    <3>1. r.head + i - 1 = r.head + n
      BY <1>1, <1>6, <2>2, RingAssumption, SMTT(30) DEF Index
    <3> QED BY <1>1, <1>2, <1>6, <1>7, <2>1, <2>2, <3>1, SMTT(30)
  <2>3. CASE i # n + 1
    <3>1. i \in 1 .. n
      BY <1>6, <2>3
    <3>2. w.arr[(r.head + i - 1) % RING_BUFFER_SIZE]
            = r.arr[(r.head + i - 1) % RING_BUFFER_SIZE]
      BY <1>1, <1>2, <1>8, <3>1
    <3>3. contents(r)[i] = r.arr[(r.head + i - 1) % RING_BUFFER_SIZE]
      BY <3>1 DEF contents, n
    <3>4. Append(contents(r), b)[i] = contents(r)[i]
      BY <1>6, <3>1
    <3> QED BY <2>1, <3>2, <3>3, <3>4
  <2> QED BY <2>2, <2>3, Zenon
<1>10. contents(w) = Append(contents(r), b)
  <2>1. Append(contents(r), b) \in Seq(Byte) /\ Len(Append(contents(r), b)) = n + 1
    BY <1>6
  <2> QED BY <1>6, <1>9, <2>1, SeqEqual
<1> QED BY <1>3, <1>4, <1>5, <1>10 DEF w, n

(* read_byte takes the first byte off the contents of a ring that is not   *)
(* empty.                                                                  *)
LEMMA ReadByte ==
  ASSUME NEW r \in Ring, StatusOK(r), available_read(r) > 0
  PROVE  /\ read_byte(r) \in Ring /\ StatusOK(read_byte(r))
         /\ available_read(read_byte(r)) = available_read(r) - 1
         /\ contents(r) # <<>> /\ next_byte(r) = Head(contents(r))
         /\ contents(read_byte(r)) = Tail(contents(r))
<1> DEFINE w == read_byte(r)
           n == available_read(r)
<1>1. /\ r.head \in Index /\ r.tail \in Index /\ r.arr \in [Index -> Byte]
      /\ r.status \in {"FULL", "NORMAL"}
  BY SMTT(30) DEF Ring, available_read
<1>2. /\ w.tail = r.tail /\ w.arr = r.arr
      /\ w.head = (r.head + 1) % RING_BUFFER_SIZE
      /\ w.head = IF r.head + 1 = RING_BUFFER_SIZE THEN 0 ELSE r.head + 1
      /\ w.status = IF w.head = r.tail THEN "EMPTY" ELSE "NORMAL"
  <2>1. (r.head + 1) % RING_BUFFER_SIZE =
          IF r.head + 1 = RING_BUFFER_SIZE THEN 0 ELSE r.head + 1
    BY <1>1, WrapNext
  <2> QED BY <2>1 DEF read_byte, Ring
<1>3. w \in Ring
  <2> DEFINE h == (r.head + 1) % RING_BUFFER_SIZE
             st == IF h = r.tail THEN "EMPTY" ELSE "NORMAL"
  <2>1. h \in Index
    BY <1>1, WrapNext, RingAssumption, SMTT(30) DEF Index
  <2>2. st \in {"FULL", "EMPTY", "NORMAL"}
    OBVIOUS
  <2>3. w = [r EXCEPT !.head = h, !.status = st]
    BY DEF read_byte
  <2> HIDE DEF h, st
  <2>4. [r EXCEPT !.head = h, !.status = st] \in Ring
    BY <2>1, <2>2, Zenon DEF Ring
  <2> QED BY <2>3, <2>4
<1> HIDE DEF w
<1>4. StatusOK(w)
  BY <1>2 DEF StatusOK
<1>5. available_read(w) = n - 1
  <2>1. n = Distance(r.head, r.tail)
    BY <1>1 DEF available_read, Distance
  <2>2. available_read(w) = IF Advance(r.head) = r.tail THEN 0
                            ELSE Distance(Advance(r.head), r.tail)
    BY <1>2 DEF available_read, Distance, Advance
  <2> QED BY <1>1, <2>1, <2>2, DistanceHead, SMTT(30)
<1>6. /\ n \in 1 .. RING_BUFFER_SIZE
      /\ contents(r) \in Seq(Byte) /\ Len(contents(r)) = n
      /\ contents(w) \in Seq(Byte) /\ Len(contents(w)) = n - 1
  BY <1>3, <1>4, <1>5, RingCounts, RingAssumption
<1> HIDE DEF n
<1>7. contents(r) # <<>> /\ next_byte(r) = Head(contents(r))
  <2>1. contents(r)[1] = r.arr[(r.head + 1 - 1) % RING_BUFFER_SIZE]
    BY <1>6 DEF contents, n
  <2>2. (r.head + 1 - 1) % RING_BUFFER_SIZE = r.head
    <3>1. r.head + 1 - 1 = r.head + 0 /\ 0 \in 0 .. RING_BUFFER_SIZE
      BY <1>1, RingAssumption DEF Index
    <3> QED BY <1>1, <3>1, WrapAround, RingAssumption, SMTT(20) DEF Index
  <2> QED BY ONLY <1>6, <2>1, <2>2 DEF next_byte
<1>8. ASSUME NEW i \in 1 .. n - 1
      PROVE  contents(w)[i] = Tail(contents(r))[i]
  <2>1. contents(w)[i] = r.arr[(w.head + i - 1) % RING_BUFFER_SIZE]
    BY <1>2, <1>5 DEF contents
  <2>2. Tail(contents(r))[i] = contents(r)[i + 1]
    BY <1>6
  <2>3. contents(r)[i + 1] = r.arr[(r.head + (i + 1) - 1) % RING_BUFFER_SIZE]
    BY <1>6 DEF contents, n
  <2>4. (w.head + i - 1) % RING_BUFFER_SIZE
          = (r.head + (i + 1) - 1) % RING_BUFFER_SIZE
    <3>1. /\ w.head + i - 1 = w.head + (i - 1) /\ w.head \in Index
          /\ i - 1 \in 0 .. RING_BUFFER_SIZE /\ i \in 0 .. RING_BUFFER_SIZE
          /\ r.head + (i + 1) - 1 = r.head + i /\ i < RING_BUFFER_SIZE
      BY <1>1, <1>2, <1>6, RingAssumption, SMTT(30) DEF Index
    <3>2. (w.head + (i - 1)) % RING_BUFFER_SIZE =
            IF w.head + (i - 1) >= RING_BUFFER_SIZE
            THEN w.head + (i - 1) - RING_BUFFER_SIZE ELSE w.head + (i - 1)
      BY <3>1, WrapAround
    <3>3. (r.head + i) % RING_BUFFER_SIZE =
            IF r.head + i >= RING_BUFFER_SIZE
            THEN r.head + i - RING_BUFFER_SIZE ELSE r.head + i
      BY <1>1, <3>1, WrapAround
    <3>4. (w.head + (i - 1)) % RING_BUFFER_SIZE = (r.head + i) % RING_BUFFER_SIZE
      <4> DEFINE x == r.head
      <4>1. w.head = IF x + 1 = RING_BUFFER_SIZE THEN 0 ELSE x + 1
        BY <1>2
      <4>2. x \in 0 .. RING_BUFFER_SIZE - 1 /\ RING_BUFFER_SIZE \in Nat
        BY <1>1, RingAssumption DEF Index
      <4>3. i \in 1 .. RING_BUFFER_SIZE - 1
        BY <1>6, <3>1, <4>2
      <4> QED BY <3>2, <3>3, <4>1, <4>2, <4>3
    <3> QED BY <3>1, <3>4
  <2> QED BY <2>1, <2>2, <2>3, <2>4, Zenon
<1>9. contents(w) = Tail(contents(r))
  <2>1. Tail(contents(r)) \in Seq(Byte) /\ Len(Tail(contents(r))) = n - 1
    BY <1>6, <1>7
  <2> QED BY <1>6, <1>8, <2>1, SeqEqual
<1> QED BY <1>3, <1>4, <1>5, <1>7, <1>9 DEF w, n

-----------------------------------------------------------------------------
(* The invariant of Pipe.                                                  *)

LEMMA BuffersAreSeqs ==
  ASSUME NEW bytes \in Buffers PROVE bytes \in Seq(Byte)
<1>1. PICK n \in 0 .. MaxLen : bytes \in [1 .. n -> Byte]
  BY DEF Buffers
<1> QED BY <1>1, SeqDef, PipeAssumption, SMTT(30)

LEMMA InitIInv == Init => IInv
<1> SUFFICES ASSUME Init PROVE IInv
  OBVIOUS
<1> USE DEF Init
<1>1. new_ring \in Ring /\ StatusOK(new_ring)
  BY RingAssumption DEF new_ring, Ring, StatusOK, Index
<1>2. TypeOK
  BY <1>1, RingAssumption, PipeAssumption, EmptySeq DEF TypeOK
<1>3. RoundCovered
  BY <1>1 DEF RoundCovered
<1>4. EndsHeld
  BY PipeAssumption DEF EndsHeld
<1>5. CallsOK
  BY PipeAssumption, EmptySeq DEF CallsOK
<1> QED BY <1>2, <1>3, <1>4, <1>5 DEF IInv

(* A call starts, or a suspended one is resumed.                           *)
LEMMA EnterIInv ==
  ASSUME IInv, NEW p \in Proc,
         \/ \E len \in 0 .. MaxLen : sys_read(p, len)
         \/ \E bytes \in Buffers : sys_write(p, bytes)
         \/ resume(p)
  PROVE  IInv'
<1> USE DEF IInv
<1>1. loop = 0
  BY PipeAssumption, SMTT(30) DEF RoundCovered, sys_read, sys_write, resume, InUser, TypeOK
<1>2. CASE \E len \in 0 .. MaxLen : sys_read(p, len)
  <2> PICK len \in 0 .. MaxLen : sys_read(p, len)
    BY <1>2
  <2> USE DEF sys_read, InUser, proc_vars
  <2>1. TypeOK'
    BY DEF TypeOK
  <2>2. RoundCovered' /\ EndsHeld'
    BY <1>1 DEF RoundCovered, EndsHeld, TypeOK
  <2>3. CallsOK'
    BY EmptySeq, PipeAssumption, SMTT(30) DEF CallsOK, TypeOK
  <2> QED BY <2>1, <2>2, <2>3
<1>3. CASE \E bytes \in Buffers : sys_write(p, bytes)
  <2> PICK bytes \in Buffers : sys_write(p, bytes)
    BY <1>3
  <2> USE DEF sys_write, InUser, proc_vars
  <2>1. TypeOK'
    BY BuffersAreSeqs DEF TypeOK
  <2>2. RoundCovered' /\ EndsHeld'
    BY <1>1 DEF RoundCovered, EndsHeld, TypeOK
  <2>3. CallsOK'
    BY DEF CallsOK, TypeOK
  <2> QED BY <2>1, <2>2, <2>3
<1>4. CASE resume(p)
  <2> USE <1>4 DEF resume, call_vars, proc_vars
  <2>1. TypeOK'
    BY DEF TypeOK
  <2>2. RoundCovered' /\ EndsHeld'
    BY <1>1 DEF RoundCovered, EndsHeld, TypeOK
  <2>3. CallsOK'
    BY DEF CallsOK, TypeOK
  <2> QED BY <2>1, <2>2, <2>3
<1> QED BY <1>2, <1>3, <1>4

(* A call returns.                                                         *)
LEMMA ReturnIInv ==
  ASSUME IInv, NEW p \in Proc, cpu = p, return(p)
  PROVE  IInv'
<1> USE DEF IInv, return, proc_vars
<1>1. TypeOK'
  BY EmptySeq, RingAssumption, PipeAssumption, SMTT(30) DEF TypeOK
<1>2. RoundCovered'
  BY DEF RoundCovered
<1>3. EndsHeld'
  BY PipeAssumption DEF EndsHeld, TypeOK
<1>4. CallsOK'
  BY EmptySeq, PipeAssumption, SMTT(30) DEF CallsOK, TypeOK
<1> QED BY <1>1, <1>2, <1>3, <1>4

(* The head of the loop.                                                   *)
LEMMA HeadIInv ==
  ASSUME IInv, NEW p \in Proc, read_head(p) \/ write_head(p)
  PROVE  IInv'
<1> USE DEF IInv
<1>1. cpu = p /\ loop = 0
  BY DEF read_head, write_head
<1>2. CASE return(p)
  BY <1>1, <1>2, ReturnIInv
<1>3. CASE suspend_current_and_run_next
  <2> USE <1>3, <1>1 DEF suspend_current_and_run_next, call_vars, proc_vars
  <2>1. TypeOK'
    BY DEF TypeOK
  <2>2. RoundCovered' /\ EndsHeld'
    BY PipeAssumption, SMTT(30) DEF RoundCovered, EndsHeld, TypeOK
  <2>3. CallsOK'
    BY DEF CallsOK, TypeOK
  <2> QED BY <2>1, <2>2, <2>3
<1>4. ASSUME NEW n, start_round(n),
             \/ op[p] = "read" /\ n = available_read(ring)
             \/ op[p] = "write" /\ n = available_write(ring)
      PROVE  IInv'
  <2> USE <1>1, <1>4 DEF start_round, call_vars, proc_vars
  <2>1. n \in 0 .. RING_BUFFER_SIZE
    BY RingCounts, RingAssumption, SMTT(30) DEF TypeOK, RoundCovered
  <2>2. TypeOK'
    BY <2>1 DEF TypeOK
  <2>3. RoundCovered'
    BY PipeAssumption DEF RoundCovered
  <2>4. EndsHeld' /\ CallsOK'
    BY DEF EndsHeld, CallsOK
  <2> QED BY <2>2, <2>3, <2>4
<1> QED BY <1>2, <1>3, <1>4 DEF read_head, write_head

(* One iteration of the for loop of a read.                                *)
LEMMA ReadCopyIInv ==
  ASSUME IInv, NEW p \in Proc, read_copy(p)
  PROVE  IInv'
<1> USE DEF IInv
<1>1. cpu = p /\ op[p] = "read" /\ loop > 0 /\ loop = available_read(ring)
  BY DEF read_copy, RoundCovered
<1>2. CASE room[p] = 0
  BY <1>1, <1>2, ReturnIInv DEF read_copy
<1>3. CASE room[p] # 0
  <2> USE <1>1, <1>3 DEF read_copy, proc_vars
  <2>1. ring \in Ring /\ StatusOK(ring)
    BY DEF TypeOK, RoundCovered
  <2>2. /\ ring' \in Ring /\ StatusOK(ring)'
        /\ available_read(ring)' = loop - 1
    <3>1. ring' = read_byte(ring)
      OBVIOUS
    <3>2. /\ read_byte(ring) \in Ring /\ StatusOK(read_byte(ring))
          /\ available_read(read_byte(ring)) = loop - 1
      BY <2>1, ReadByte
    <3> QED BY <3>1, <3>2
  <2>3. next_byte(ring) \in Byte
    BY <2>1 DEF next_byte, Ring
  <2>4. TypeOK'
    <3>1. loop' \in 0 .. RING_BUFFER_SIZE
      BY RingAssumption, SMTT(30) DEF TypeOK
    <3>2. room' \in [Proc -> 0 .. MaxLen]
      <4>1. room \in [Proc -> 0 .. MaxLen] /\ room[p] # 0
        BY DEF TypeOK
      <4>2. room[p] - 1 \in 0 .. MaxLen
        BY <4>1, PipeAssumption, SMTT(30)
      <4>3. room' = [room EXCEPT ![p] = room[p] - 1]
        OBVIOUS
      <4> QED BY <4>1, <4>2, <4>3
    <3>3. got' \in [Proc -> Seq(Byte)]
      <4>1. got[p] \in Seq(Byte) /\ got \in [Proc -> Seq(Byte)]
        BY DEF TypeOK
      <4>2. Append(got[p], next_byte(ring)) \in Seq(Byte)
        BY <2>3, <4>1, SMTT(30)
      <4> QED BY <4>1, <4>2, Zenon
    <3> QED BY <2>2, <3>1, <3>2, <3>3 DEF TypeOK
  <2>5. RoundCovered'
    BY <2>2, PipeAssumption DEF RoundCovered
  <2>6. EndsHeld'
    BY DEF EndsHeld
  <2>7. CallsOK'
    <3>1. got[p] \in Seq(Byte) /\ room[p] \in 0 .. MaxLen
      BY DEF TypeOK
    <3>2. Len(Append(got[p], next_byte(ring))) = Len(got[p]) + 1
          /\ Len(got[p]) \in Nat
      BY <2>3, <3>1, SMTT(30)
    <3>3. ASSUME NEW q \in Proc PROVE Len(got'[q]) + room'[q] <= MaxLen
      <4>1. CASE q = p
        <5>1. got'[p] = Append(got[p], next_byte(ring)) /\ room'[p] = room[p] - 1
          BY DEF TypeOK
        <5> QED BY <3>1, <3>2, <4>1, <5>1, PipeAssumption, SMTT(30) DEF CallsOK
      <4>2. CASE q # p
        <5>1. got'[q] = got[q] /\ room'[q] = room[q]
          BY <4>2 DEF TypeOK
        <5> QED BY <5>1 DEF CallsOK
      <4> QED BY <4>1, <4>2
    <3>4. ASSUME NEW q \in Proc
          PROVE  /\ op'[q] # "write" => todo'[q] = <<>>
                 /\ op'[q] # "read" => got'[q] = <<>>
      BY SMTT(20) DEF CallsOK, TypeOK
    <3> QED BY <3>3, <3>4 DEF CallsOK
  <2> QED BY <2>4, <2>5, <2>6, <2>7
<1> QED BY <1>2, <1>3

(* One iteration of the for loop of a write.                               *)
LEMMA WriteCopyIInv ==
  ASSUME IInv, NEW p \in Proc, write_copy(p)
  PROVE  IInv'
<1> USE DEF IInv
<1>1. cpu = p /\ op[p] = "write" /\ loop > 0 /\ loop = available_write(ring)
  BY DEF write_copy, RoundCovered
<1>2. CASE todo[p] = <<>>
  BY <1>1, <1>2, ReturnIInv DEF write_copy
<1>3. CASE todo[p] # <<>>
  <2> USE <1>1, <1>3 DEF write_copy, proc_vars
  <2>1. ring \in Ring /\ StatusOK(ring) /\ todo[p] \in Seq(Byte)
    BY DEF TypeOK, RoundCovered
  <2>2. Head(todo[p]) \in Byte /\ Tail(todo[p]) \in Seq(Byte)
    BY <2>1
  <2>3. /\ ring' \in Ring /\ StatusOK(ring)'
        /\ available_read(ring)' = available_read(ring) + 1
    <3>1. ring' = write_byte(ring, Head(todo[p]))
      OBVIOUS
    <3> DEFINE w == write_byte(ring, Head(todo[p]))
    <3>2. /\ w \in Ring /\ StatusOK(w)
          /\ available_read(w) = available_read(ring) + 1
      BY <2>1, <2>2, WriteByte
    <3> QED BY <3>1, <3>2
  <2>4. available_write(ring)' = loop - 1
    BY <2>1, <2>3, RingCounts, RingAssumption, SMTT(30)
  <2>5. TypeOK'
    <3>1. loop' \in 0 .. RING_BUFFER_SIZE
      BY RingAssumption, SMTT(30) DEF TypeOK
    <3> QED BY <2>2, <2>3, <3>1, Zenon DEF TypeOK
  <2>6. RoundCovered'
    BY <2>3, <2>4, PipeAssumption DEF RoundCovered
  <2>7. EndsHeld'
    BY DEF EndsHeld
  <2>8. CallsOK'
    BY DEF CallsOK, TypeOK
  <2> QED BY <2>5, <2>6, <2>7, <2>8
<1> QED BY <1>2, <1>3

(* fork, close, exit and waitpid only touch the ends and the process tree. *)
LEMMA LifeIInv ==
  ASSUME IInv, NEW p \in Proc,
         \/ \E c \in Proc : fork(p, c)
         \/ \E in_fork \in BOOLEAN : exit(p, in_fork)
         \/ close_read(p) \/ close_write(p) \/ waitpid(p)
  PROVE  IInv'
<1> USE DEF IInv
<1>1. UNCHANGED <<ring, cpu, loop, op, room, got, todo>>
  BY DEF fork, close_read, close_write, exit, waitpid, call_vars
<1>2. RoundCovered' /\ CallsOK'
  BY <1>1 DEF RoundCovered, CallsOK
<1>3. CASE \E c \in Proc : fork(p, c)
  <2> PICK c \in Proc : fork(p, c)
    BY <1>3
  <2>1. TypeOK' /\ EndsHeld'
    BY <1>1 DEF fork, InUser, TypeOK, EndsHeld
  <2> QED BY <1>2, <2>1
<1>4. CASE close_read(p) \/ close_write(p)
  <2>1. TypeOK' /\ EndsHeld'
    BY <1>1, <1>4 DEF close_read, close_write, InUser, TypeOK, EndsHeld
  <2> QED BY <1>2, <2>1
<1>5. CASE \E in_fork \in BOOLEAN : exit(p, in_fork)
  <2>1. TypeOK' /\ EndsHeld'
    BY <1>1, <1>5 DEF exit, InUser, TypeOK, EndsHeld
  <2> QED BY <1>2, <2>1
<1>6. CASE waitpid(p)
  <2>1. TypeOK' /\ EndsHeld'
    BY <1>1, <1>6 DEF waitpid, TypeOK, EndsHeld
  <2> QED BY <1>2, <2>1
<1> QED BY <1>3, <1>4, <1>5, <1>6

LEMMA NextIInv == IInv /\ [Next]_vars => IInv'
<1> SUFFICES ASSUME IInv, [Next]_vars PROVE IInv'
  OBVIOUS
<1>1. CASE Next
  BY <1>1, EnterIInv, HeadIInv, ReadCopyIInv, WriteCopyIInv, LifeIInv
     DEF Next, kernel_step
<1>2. CASE UNCHANGED vars
  BY <1>2 DEF vars, call_vars, proc_vars, IInv, TypeOK, RoundCovered, EndsHeld,
              CallsOK
<1> QED BY <1>1, <1>2

(* The inductive invariant of Pipe.                                        *)
THEOREM Invariant == Spec => []IInv
  BY InitIInv, NextIInv, PTL DEF Spec

(* The state of the ring, of the calls and of the ends stays well typed;   *)
(* in particular a read never copies more bytes than its buffer holds.     *)
THEOREM TypeCorrect == Spec => []TypeOK
<1>1. IInv => TypeOK
  BY DEF IInv
<1> QED BY <1>1, Invariant, PTL

(* Pipe::read and Pipe::write never touch a byte or a slot that is not     *)
(* there, whatever other processes did while they were suspended.          *)
THEOREM RoundsCorrect == Spec => []RoundCovered
<1>1. IInv => RoundCovered
  BY DEF IInv
<1> QED BY <1>1, Invariant, PTL

(* A process inside Pipe::read or Pipe::write holds the end it uses.       *)
THEOREM EndsCorrect == Spec => []EndsHeld
<1>1. IInv => EndsHeld
  BY DEF IInv
<1> QED BY <1>1, Invariant, PTL

-----------------------------------------------------------------------------
(* The pipe is a bounded FIFO queue.                                       *)

LEMMA InitRefines == Init => Fifo!Init
<1> SUFFICES ASSUME Init PROVE Fifo!Init
  OBVIOUS
<1>1. available_read(new_ring) = 0
  BY DEF available_read, new_ring
<1>2. contents(new_ring) = <<>>
  BY <1>1 DEF contents
<1> QED BY <1>2 DEF Init, Fifo!Init

(* Every step of Pipe is a step of PipeFifo or leaves its variables alone. *)
LEMMA NextRefines == IInv /\ [Next]_vars => [Fifo!Next]_(Fifo!vars)
<1> SUFFICES ASSUME IInv, [Next]_vars,
                    ~ UNCHANGED <<contents(ring), todo, got>>
             PROVE  Fifo!Next
  BY DEF Fifo!vars
<1> USE DEF IInv
<1>1. ASSUME UNCHANGED <<ring, todo, got>> PROVE FALSE
  BY <1>1
<1>2. CASE UNCHANGED vars
  BY <1>1, <1>2 DEF vars, call_vars
<1>3. ASSUME NEW p \in Proc, cpu = p, op[p] = "read", return(p)
      PROVE  Fifo!EndRead(p)
  <2>1. todo' = todo
    BY <1>3 DEF return, CallsOK, TypeOK
  <2> QED BY <1>3, <2>1 DEF return, Fifo!EndRead
<1>4. ASSUME NEW p \in Proc, cpu = p, op[p] = "write", todo[p] = <<>>, return(p)
      PROVE  FALSE
  <2>1. todo' = todo /\ got' = got
    BY <1>4 DEF return, CallsOK, TypeOK
  <2> QED BY <1>1, <1>4, <2>1 DEF return
<1>5. ASSUME NEW p \in Proc, NEW bytes \in Buffers, sys_write(p, bytes)
      PROVE  Fifo!StartWrite(p)
  <2>1. todo[p] = <<>>
    BY <1>5 DEF sys_write, InUser, CallsOK
  <2> QED BY <1>5, <2>1, Zenon DEF sys_write, Fifo!StartWrite, Buffers, Fifo!Buffers
<1>6. ASSUME NEW p \in Proc, read_head(p) PROVE Fifo!EndRead(p)
  BY <1>1, <1>3, <1>6
     DEF read_head, suspend_current_and_run_next, start_round, call_vars
<1>7. ASSUME NEW p \in Proc, write_head(p) PROVE FALSE
  BY <1>1, <1>7
     DEF write_head, suspend_current_and_run_next, start_round, call_vars
<1>8. ASSUME NEW p \in Proc, read_copy(p)
      PROVE  Fifo!Receive(p) \/ Fifo!EndRead(p)
  <2>1. CASE room[p] = 0
    BY <1>3, <1>8, <2>1 DEF read_copy
  <2>2. CASE room[p] # 0
    <3>1. loop = available_read(ring) /\ loop > 0
      BY <1>8 DEF read_copy, RoundCovered
    <3>2. /\ contents(ring) # <<>> /\ next_byte(ring) = Head(contents(ring))
          /\ contents(read_byte(ring)) = Tail(contents(ring))
      BY <3>1, ReadByte, SMTT(20) DEF TypeOK, RoundCovered
    <3>3. /\ ring' = read_byte(ring)
          /\ got' = [got EXCEPT ![p] = Append(got[p], next_byte(ring))]
          /\ todo' = todo
      BY <1>8, <2>2 DEF read_copy
    <3>4. Len(got[p]) < MaxLen
      <4>1. Len(got[p]) \in Nat /\ room[p] \in Nat /\ MaxLen \in Nat
        BY PipeAssumption, SMTT(30) DEF TypeOK
      <4> QED BY <2>2, <4>1 DEF CallsOK
    <3>5. contents(ring)' = Tail(contents(ring))
      BY <3>2, <3>3
    <3> QED BY <3>2, <3>3, <3>4, <3>5 DEF Fifo!Receive
  <2> QED BY <2>1, <2>2
<1>9. ASSUME NEW p \in Proc, write_copy(p) PROVE Fifo!Send(p)
  <2>1. CASE todo[p] = <<>>
    BY <1>4, <1>9, <2>1 DEF write_copy
  <2>2. CASE todo[p] # <<>>
    <3>1. loop = available_write(ring) /\ loop > 0
      BY <1>9 DEF write_copy, RoundCovered
    <3>2. ring \in Ring /\ StatusOK(ring) /\ Head(todo[p]) \in Byte
      BY <2>2, SMTT(30) DEF TypeOK, RoundCovered
    <3>3. contents(write_byte(ring, Head(todo[p])))
            = Append(contents(ring), Head(todo[p]))
      BY <3>1, <3>2, WriteByte
    <3>4. Len(contents(ring)) < RING_BUFFER_SIZE
      BY <3>1, <3>2, RingCounts, RingAssumption
    <3>5. /\ ring' = write_byte(ring, Head(todo[p]))
          /\ todo' = [todo EXCEPT ![p] = Tail(todo[p])]
          /\ got' = got
      BY <1>9, <2>2 DEF write_copy
    <3>6. contents(ring)' = Append(contents(ring), Head(todo[p]))
      BY <3>3, <3>5
    <3> QED BY <2>2, <3>4, <3>5, <3>6 DEF Fifo!Send
  <2> QED BY <2>1, <2>2
<1>10. ASSUME NEW p \in Proc,
              \/ \E len \in 0 .. MaxLen : sys_read(p, len)
              \/ resume(p) \/ (\E c \in Proc : fork(p, c))
              \/ \E in_fork \in BOOLEAN : exit(p, in_fork)
              \/ close_read(p) \/ close_write(p) \/ waitpid(p)
       PROVE  FALSE
  BY <1>1, <1>10 DEF sys_read, resume, fork, close_read, close_write, exit,
                     waitpid, call_vars
<1> QED BY <1>2, <1>5, <1>6, <1>7, <1>8, <1>9, <1>10
        DEF Next, kernel_step, Fifo!Next

(* A pipe implements the bounded queue of PipeFifo: bytes come out once,   *)
(* in the order they went in, and a write returns only after all its bytes *)
(* went in.                                                                *)
THEOREM Refinement == Spec => FifoSpec
<1> QED BY InitRefines, NextRefines, Invariant, PTL DEF Spec, FifoSpec, Fifo!Spec

-----------------------------------------------------------------------------
(* End of file.                                                            *)

LEMMA NextShortRead ==
  ASSUME IInv, [Next]_vars, NEW p \in Proc, op[p] = "read", op'[p] = "user",
         room[p] > 0
  PROVE  available_read(ring) = 0 /\ writers = {}
<1> USE DEF IInv
<1>1. PICK q \in Proc : (read_head(q) \/ read_copy(q) \/ write_copy(q)) /\ return(q)
  BY DEF Next, kernel_step, vars, call_vars, proc_vars, sys_read, sys_write,
         read_head, read_copy, write_head, write_copy, resume, fork, close_read,
         close_write, exit, waitpid, suspend_current_and_run_next, start_round,
         TypeOK
<1>2. q = p
  BY <1>1 DEF return, TypeOK
<1>3. read_head(p)
  BY <1>1, <1>2, SMTT(30) DEF read_copy, write_copy, return, TypeOK
<1>5. loop' = 0 /\ op' # op
  BY <1>1 DEF return
<1>6. ~suspend_current_and_run_next /\ ~start_round(available_read(ring))
  BY <1>5 DEF suspend_current_and_run_next, start_round, call_vars
<1> QED BY ONLY <1>3, <1>6, Zenon DEF read_head, all_write_ends_closed

(* A short read means end of file.                                         *)
THEOREM ShortReadsCorrect == Spec => ShortReadIsEof
<1>1. IInv /\ [Next]_vars =>
        [\A p \in Proc : op[p] = "read" /\ op'[p] = "user" /\ room[p] > 0 =>
           available_read(ring) = 0 /\ writers = {}]_vars
  BY NextShortRead
<1> QED BY <1>1, Invariant, PTL DEF Spec, ShortReadIsEof

LEMMA NextEof ==
  IInv /\ [Next]_vars /\ (writers = {} /\ available_read(ring) = 0)
    => (writers = {} /\ available_read(ring) = 0)'
<1> SUFFICES ASSUME IInv, [Next]_vars, writers = {}, available_read(ring) = 0
             PROVE  writers' = {} /\ ring' = ring
  OBVIOUS
<1> USE DEF IInv
<1>2. \A p \in Proc : op[p] # "write"
  BY DEF EndsHeld
<1>3. \A p \in Proc : ~ read_copy(p) /\ ~ write_copy(p) /\ ~ write_head(p)
  BY <1>2, SMTT(30) DEF read_copy, write_copy, write_head, RoundCovered
<1>4. ASSUME NEW p \in Proc, kernel_step(p) PROVE writers' = {} /\ ring' = ring
  BY <1>3, <1>4 DEF kernel_step, read_head, return, start_round,
                    suspend_current_and_run_next, proc_vars
<1> QED BY <1>4 DEF Next, vars, proc_vars, sys_read, sys_write, resume, fork,
                    close_read, close_write, exit, waitpid

(* End of file is final.                                                   *)
THEOREM EofCorrect == Spec => EofIsFinal
<1> DEFINE Eof == writers = {} /\ available_read(ring) = 0
<1>1. IInv /\ [Next]_vars /\ Eof => Eof'
  BY NextEof
<1>2. Spec => [](Eof => []Eof)
  <2> HIDE DEF Eof
  <2> QED BY <1>1, Invariant, PTL DEF Spec
<1> QED BY <1>2 DEF EofIsFinal
=============================================================================
