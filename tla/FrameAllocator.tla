--------------------------- MODULE FrameAllocator ---------------------------
(***************************************************************************)
(* StackFrameAllocator (os/src/mm/frame_allocator.rs): the physical page   *)
(* frames 0 .. FRAMES - 1, counted from the first one after the kernel.    *)
(* An allocator is a record of its fields current and recycled; end is     *)
(* the constant FRAMES.                                                    *)
(***************************************************************************)
EXTENDS Integers, Sequences

CONSTANT FRAMES

ASSUME FramesAssumption == FRAMES \in Nat

Frame == 0 .. FRAMES - 1

(* StackFrameAllocator::init                                               *)
new_allocator == [current |-> 0, recycled |-> <<>>]

(* Mutated form: one frame too many.                                       *)
can_alloc_past_end(fa) == fa.recycled # <<>> \/ fa.current <= FRAMES

(* alloc returns a frame, the next_frame, when there is one.               *)
can_alloc(fa) == fa.recycled # <<>> \/ fa.current # FRAMES

next_frame(fa) ==
  IF fa.recycled # <<>> THEN fa.recycled[Len(fa.recycled)] ELSE fa.current

alloc(fa) ==
  IF fa.recycled # <<>> THEN [fa EXCEPT !.recycled = SubSeq(@, 1, Len(@) - 1)]
  ELSE [fa EXCEPT !.current = @ + 1]

(* FrameTracker::drop; dealloc panics when the frame is not allocated.     *)
dealloc(fa, ppn) == [fa EXCEPT !.recycled = Append(@, ppn)]

(* dealloc of one frame after the other.                                   *)
dealloc_all(fa, ppns) == [fa EXCEPT !.recycled = @ \o ppns]

usable_frames(fa) == FRAMES - fa.current + Len(fa.recycled)
=============================================================================
