----------------------------- MODULE UserBuffer -----------------------------
(***************************************************************************)
(* Buffers of user programs as the rest of the kernel sees them: UserBuffer*)
(* and its iterator (os/src/mm/page_table.rs), over the slices that        *)
(* translated_byte_buffer of module PageTable returns.                     *)
(***************************************************************************)
EXTENDS PageTable, SequencesExt

(* UserBuffer::len                                                         *)
buffer_len(slices) == FoldLeft(LAMBDA n, s : n + s.to - s.from, 0, slices)

(* What the iterator yields: a place in memory, None at the end, or an     *)
(* index out of bounds, which panics.                                      *)
End == <<None, 0>>
OutOfBounds == <<None, 1>>

(* Mutated form: an empty slice is passed over.                            *)
next_skipping_empty(slices, it) ==
  LET rest == {b \in it.buffer .. Len(slices) : slices[b].to > slices[b].from}
      b == CHOOSE b \in rest : \A c \in rest : b <= c
      item == <<slices[b].ppn, slices[b].from + it.idx>>
  IN IF rest = {} THEN [it EXCEPT !.item = End]
     ELSE IF it.idx + 1 = slices[b].to - slices[b].from
          THEN [buffer |-> b + 1, idx |-> 0, item |-> item]
     ELSE [buffer |-> b, idx |-> it.idx + 1, item |-> item]

(* UserBufferIterator::next; item is what it returns.                      *)
next(slices, it) ==
  LET s == slices[it.buffer]
      item == <<s.ppn, s.from + it.idx>>
  IN IF it.buffer > Len(slices) THEN [it EXCEPT !.item = End]
     ELSE IF it.idx >= s.to - s.from THEN [it EXCEPT !.item = OutOfBounds]
     ELSE IF it.idx + 1 = s.to - s.from
          THEN [buffer |-> it.buffer + 1, idx |-> 0, item |-> item]
     ELSE [it EXCEPT !.idx = @ + 1, !.item = item]

(* What the first n calls of next yield, from into_iter on.                *)
iterated(slices, n) ==
  LET it[k \in 0 .. n] ==
        IF k = 0 THEN [buffer |-> 1, idx |-> 0, item |-> End] ELSE next(slices, it[k - 1])
  IN [k \in 1 .. n |-> it[k].item]

-----------------------------------------------------------------------------
(* Properties.                                                             *)

(* Pipes and mail boxes see a buffer that was checked byte after byte, in  *)
(* order and to its end, or the kernel panics: an empty slice, which       *)
(* translated_byte_buffer makes of a page that the buffer fills to its     *)
(* end, is not passed over in silence.  A buffer that ends on the page on  *)
(* which it begins is seen in full.                                        *)
BytesInOrder ==
  \A t \in Table, ptr \in Pointers, len \in Lengths :
    LET slices == translated_byte_buffer(t, ptr, len)
        items == iterated(slices, len + 1)
    IN /\ exists(t)
       /\ virtual_addr_range_writable(t, ptr, len)
            \/ virtual_addr_range_printable(t, ptr, len)
       /\ ~panics(slices)
       => \A n \in 1 .. len + 1 :
            \/ items[n] = OutOfBounds /\ floor(ptr) # floor(ptr + len)
            \/ n <= len /\ items[n] \in places(t, ptr + n - 1)
            \/ n = len + 1 /\ items[n] = End

(* page_table.rs says of translated_byte_buffer that it turns "a buffer in *)
(* the address space of an application" into a form that the kernel can    *)
(* access.  So for a buffer whose pages are all mapped it returns slices   *)
(* of all its bytes.                                                       *)
BufferCovered ==
  \A t \in Table, ptr \in Pointers, len \in Lengths :
    LET slices == translated_byte_buffer(t, ptr, len)
    IN exists(t) /\ (\A va \in ptr .. ptr + len : virtual_addr_writable(t, va))
       => ~panics(slices) /\ buffer_len(slices) = len
=============================================================================
