--------------------------- MODULE RingBufferOps ---------------------------
(***************************************************************************)
(* RingbufferReadOperation and RingbufferWriteOperation                    *)
(* (common/ringbuffer_read_write_ops.h): how the shm and ibv connections   *)
(* move a message, its length first, through a ring buffer.  The ring      *)
(* buffer is the sequence of the bytes in it (see BoundedStream); the      *)
(* length is one of them.  Byte i of message n is <<n, i>>, and its length *)
(* is <<n, 0, length>>.                                                    *)
(*                                                                         *)
(* The message of a call is [len, nop]: its length, and whether it is a    *)
(* libnop object, which is serialised in the ring buffer itself and so     *)
(* only when it fits as a whole.                                           *)
(***************************************************************************)
EXTENDS Naturals, Sequences

Header(n, len) == <<n, 0, len>>
Payload(n, len) == [i \in 1 .. len |-> <<n, i>>]

ReadOperation(n, call) ==
  [n |-> n, mode |-> "READ_LENGTH", len |-> 0, nop |-> call.nop, bytes |-> <<>>]

WriteOperation(n, call) ==
  [n |-> n, mode |-> "WRITE_LENGTH", len |-> call.len, nop |-> call.nop, bytes |-> 0]

(* How much of what is left of a message can be moved when there is room   *)
(* for, or data of, so many bytes.                                         *)
Movable(left, room, nop) ==
  IF left <= room THEN left ELSE IF nop THEN 0 ELSE room

ReadCompleted(op) == op.mode = "READ_PAYLOAD" /\ Len(op.bytes) = op.len
WriteCompleted(op) == op.mode = "WRITE_PAYLOAD" /\ op.bytes = op.len

(* handleRead: the operation and the ring buffer after one transaction.    *)
HandleRead(op, ring) ==
  LET readLength == op.mode = "READ_LENGTH" /\ ring # <<>>
      op1 == IF readLength THEN [op EXCEPT !.mode = "READ_PAYLOAD", !.len = Head(ring)[3]] ELSE op
      ring1 == IF readLength THEN Tail(ring) ELSE ring
      k == IF op1.mode = "READ_LENGTH" THEN 0
           ELSE Movable(op1.len - Len(op1.bytes), Len(ring1), op1.nop)
  IN [op |-> [op1 EXCEPT !.bytes = @ \o SubSeq(ring1, 1, k)],
      ring |-> SubSeq(ring1, k + 1, Len(ring1)),
      moved |-> readLength \/ k > 0]

(* Faulty variant: every transaction copies from the start of the buffer.  *)
HandleWriteFromStart(op, ring, size) ==
  LET writeLength == op.mode = "WRITE_LENGTH" /\ Len(ring) < size
      op1 == IF writeLength THEN [op EXCEPT !.mode = "WRITE_PAYLOAD"] ELSE op
      ring1 == IF writeLength THEN Append(ring, Header(op.n, op.len)) ELSE ring
      k == IF op1.mode = "WRITE_LENGTH" THEN 0
           ELSE Movable(op1.len - op1.bytes, size - Len(ring1), op1.nop)
  IN [op |-> [op1 EXCEPT !.bytes = @ + k],
      ring |-> ring1 \o SubSeq(Payload(op1.n, op1.len), 1, k),
      moved |-> writeLength \/ k > 0]

(* handleWrite, for a ring buffer of the given size.                       *)
HandleWrite(op, ring, size) ==
  LET writeLength == op.mode = "WRITE_LENGTH" /\ Len(ring) < size
      op1 == IF writeLength THEN [op EXCEPT !.mode = "WRITE_PAYLOAD"] ELSE op
      ring1 == IF writeLength THEN Append(ring, Header(op.n, op.len)) ELSE ring
      k == IF op1.mode = "WRITE_LENGTH" THEN 0
           ELSE Movable(op1.len - op1.bytes, size - Len(ring1), op1.nop)
  IN [op |-> [op1 EXCEPT !.bytes = @ + k],
      ring |-> ring1 \o SubSeq(Payload(op1.n, op1.len), op1.bytes + 1, op1.bytes + k),
      moved |-> writeLength \/ k > 0]
=============================================================================
