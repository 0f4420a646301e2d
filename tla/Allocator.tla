----------------------------- MODULE Allocator -----------------------------
(***************************************************************************)
(* The allocator of staging buffers (common/allocator.cc), as operators on *)
(* an end c of a channel whose context has it: c.alloc[w] is the allocator *)
(* w, with the chunks that are available, the callbacks of the allocations *)
(* that are pending, and whether it has been closed.                       *)
(***************************************************************************)
EXTENDS Naturals, Sequences, FiniteSetsExt

CONSTANT NoMessage

LOCAL INSTANCE ChannelOps

RECURSIVE ProcessAllocations(_, _)

NewAllocator(numChunks) == [available |-> 0 .. numChunks - 1, pending |-> <<>>, closed |-> FALSE]

(* The pending allocations get, in order, the first available chunk, or an *)
(* error when the allocator is closed.                                     *)
ProcessAllocations(c, w) ==
  LET a == c.alloc[w]
      popped == [c EXCEPT !.alloc[w].pending = Tail(@)]
      chunk == Min(a.available)
  IN CASE a.pending = <<>> -> c
       [] a.pending # <<>> /\ a.closed ->
            ProcessAllocations(Defer(popped, Task(Head(a.pending), FALSE, NoMessage)), w)
       [] a.pending # <<>> /\ ~a.closed /\ a.available = {} -> c
       [] OTHER ->
            ProcessAllocations(
              Defer([popped EXCEPT !.alloc[w].available = @ \ {chunk}],
                    Task(Head(a.pending), TRUE, chunk)), w)

Alloc(c, w, callback) ==
  ProcessAllocations([c EXCEPT !.alloc[w].pending = Append(@, callback)], w)

ReleaseChunk(c, w, chunk) ==
  ProcessAllocations([c EXCEPT !.alloc[w].available = @ \cup {chunk}], w)

CloseAllocator(c, w) ==
  IF c.alloc[w].closed THEN c ELSE ProcessAllocations([c EXCEPT !.alloc[w].closed = TRUE], w)
=============================================================================
