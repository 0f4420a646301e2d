--------------------------- MODULE CudaIpcChannel ---------------------------
(***************************************************************************)
(* The cuda_ipc channel (channel/cuda_ipc).  A buffer is cut in chunks;    *)
(* the sender copies each to a slot of the staging area ("outbox") of its  *)
(* context and writes a descriptor with the slot; the receiver copies from *)
(* the slot and writes a reply, after which the sender releases it.  The   *)
(* copies are only enqueued, on the streams of the buffers; the event of   *)
(* the slot, shared by the two processes, puts them in order.              *)
(*                                                                         *)
(* An end has the further fields                                           *)
(*   alloc.outbox  the allocator of the slots                              *)
(*   event         for each slot, the chunk whose transfer was the last to *)
(*                 be recorded on its event, 0 if none                     *)
(*   staging       what the slots hold: the GPU writes and reads them      *)
(*   toStage       the copies to staging enqueued and not yet run          *)
(*   staged        the chunks whose copy to staging has run                *)
(*   toCopy        the copies from the slots of the other end, enqueued    *)
(*   copied        the chunks whose copy from staging has run              *)
(*   outboxSent, outboxReceived                                            *)
(*                 whether the handle of the outbox went with a descriptor *)
(*                 and whether the other end's has come                    *)
(* Streams run at their own pace and buffers may have different ones, so   *)
(* the GPU takes the copies of toStage and toCopy in any order.            *)
(***************************************************************************)
EXTENDS ChannelOps, TLC

CONSTANTS Ends, Lengths, CanFail, Closers, NumSlots

VARIABLE chan

Connections == {"descriptor", "reply"}

SendState == <<"UNINITIALIZED", "ALLOCATING_STAGING_BUFFER", "READING_REPLY", "FINISHED">>
RecvState == <<"UNINITIALIZED", "READING_DESCRIPTOR", "FINISHED">>

A == INSTANCE Allocator

AllocateStagingBuffer(c, n) ==
  A!Alloc(c, "outbox", Callback("send", n, "doneAllocatingStagingBuffer"))

(* Faulty variant: the copy does not wait for the event of the slot.       *)
CopyFromSourceToStagingAtOnce(c, n) ==
  LET slot == c.ops.send[n].message
  IN [c EXCEPT !.toStage = @ \cup {[n |-> n, slot |-> slot, after |-> 0]},
               !.event[slot] = n]

(* Wait for the event of the slot, copy, record the event.                 *)
CopyFromSourceToStaging(c, n) ==
  LET slot == c.ops.send[n].message
  IN [c EXCEPT !.toStage = @ \cup {[n |-> n, slot |-> slot, after |-> c.event[slot]]},
               !.event[slot] = n]

(* The handle of the outbox goes with the first descriptor only.           *)
WriteDescriptor(c, n) ==
  [Write(c, "descriptor", [slot |-> c.ops.send[n].message, outbox |-> ~c.outboxSent])
     EXCEPT !.outboxSent = TRUE]

ReadReply(c, n) == Read(c, "reply", Callback("send", n, "doneReadingReply"))

(* Faulty variant: the slot is not given back.                             *)
ReleaseStagingBufferNever(c, n) == c

(* stagingBuffer = nullptr: a slot, if there is one, is given back.        *)
ReleaseStagingBuffer(c, n) ==
  LET slot == c.ops.send[n].message
  IN IF slot = NoMessage THEN c
     ELSE A!ReleaseChunk([c EXCEPT !.ops.send[n].message = NoMessage], "outbox", slot)

AdvanceChunkSendOperation(c, n, prevOpState) ==
  LET To(x, from, to, cond, Actions(_, _)) ==
        AttemptTransition(x, "send", n, from, to, cond, Actions)
      After(s) == Reached(SendState, prevOpState, s)
      Done(x, what) == what \in x.ops.send[n].done
      CallAndRelease(x, i) == ReleaseStagingBuffer(CallSendCallback(x, i), i)
      Stage(x, i) ==
        CallSendCallback(ReadReply(WriteDescriptor(CopyFromSourceToStaging(x, i), i), i), i)
      T1(x) == To(x, "UNINITIALIZED", "FINISHED", x.error /\ After("FINISHED"), CallSendCallback)
      T2(x) == To(x, "UNINITIALIZED", "ALLOCATING_STAGING_BUFFER",
                  ~x.error /\ After("ALLOCATING_STAGING_BUFFER"), AllocateStagingBuffer)
      T3(x) == To(x, "ALLOCATING_STAGING_BUFFER", "FINISHED",
                  x.error /\ Done(x, "doneAllocatingStagingBuffer") /\ After("FINISHED"),
                  CallAndRelease)
      T4(x) == To(x, "ALLOCATING_STAGING_BUFFER", "READING_REPLY",
                  ~x.error /\ Done(x, "doneAllocatingStagingBuffer") /\ After("READING_REPLY"),
                  Stage)
      T5(x) == To(x, "READING_REPLY", "FINISHED", Done(x, "doneReadingReply") /\ After("FINISHED"),
                  ReleaseStagingBuffer)
  IN T5(T4(T3(T2(T1(c)))))

ReadDescriptor(c, n) ==
  Read(c, "descriptor", Callback("recv", n, "doneReadingDescriptor"))

(* Open the outbox, which must have been received; wait for the event of   *)
(* the slot, which the copy to staging was the last to record; copy;       *)
(* record the event.                                                       *)
CopyFromStagingToTarget(c, n) ==
  [c EXCEPT !.toCopy = @ \cup {[n |-> n, slot |-> c.ops.recv[n].message,
                                opened |-> c.outboxReceived]}]

WriteReply(c, n) == Write(c, "reply", n)

AdvanceChunkRecvOperation(c, n, prevOpState) ==
  LET To(x, from, to, cond, Actions(_, _)) ==
        AttemptTransition(x, "recv", n, from, to, cond, Actions)
      After(s) == Reached(RecvState, prevOpState, s)
      Done(x, what) == what \in x.ops.recv[n].done
      Copy(x, i) == CallRecvCallback(WriteReply(CopyFromStagingToTarget(x, i), i), i)
      T1(x) == To(x, "UNINITIALIZED", "FINISHED", x.error /\ After("FINISHED"), CallRecvCallback)
      T2(x) == To(x, "UNINITIALIZED", "READING_DESCRIPTOR",
                  ~x.error /\ After("READING_DESCRIPTOR"), ReadDescriptor)
      T3(x) == To(x, "READING_DESCRIPTOR", "FINISHED",
                  x.error /\ Done(x, "doneReadingDescriptor") /\ After("FINISHED"),
                  CallRecvCallback)
      T4(x) == To(x, "READING_DESCRIPTOR", "FINISHED",
                  ~x.error /\ Done(x, "doneReadingDescriptor") /\ After("FINISHED"), Copy)
  IN T4(T3(T2(T1(c))))

Advance(c, d, n, prevOpState) ==
  IF d = "send" THEN AdvanceChunkSendOperation(c, n, prevOpState)
  ELSE AdvanceChunkRecvOperation(c, n, prevOpState)

INSTANCE OpsStateMachine

RECURSIVE EmplaceChunks(_, _, _)

(* The chunks left of the latest call, each advanced before the next is    *)
(* there; the last one has the callback.                                   *)
EmplaceChunks(c, d, left) ==
  IF left = 0 THEN c
  ELSE EmplaceChunks(
         AdvanceOperation([c EXCEPT !.ops[d] = Append(@, ChunkOperation(c, d, 1, left = 1))],
                          d, Len(c.ops[d]) + 1),
         d, left - 1)

(* The length of a buffer is its number of chunks, ceilOfRatio(length,     *)
(* kSlotSize).                                                             *)
SendImplFromLoop(c, length) ==
  IF length = 0 THEN Answer(c, "send", Len(c.calls.send)) ELSE EmplaceChunks(c, "send", length)

RecvImplFromLoop(c, length) ==
  IF length = 0 THEN Answer(c, "recv", Len(c.calls.recv)) ELSE EmplaceChunks(c, "recv", length)

HandleErrorImpl(c) == AdvanceAllOperations(AdvanceAllOperations(c, "send"), "recv")

(* Faulty variant: in error the slot is forgotten.                         *)
OnAllocatedForgetful(c, n, slot) ==
  LET done == MarkDone(c, "send", n, "doneAllocatingStagingBuffer")
  IN AdvanceOperation(IF c.error THEN done ELSE [done EXCEPT !.ops.send[n].message = slot],
                      "send", n)

(* The lambda of allocateStagingBuffer: in error the slot goes back when   *)
(* the arguments of the callback are destroyed.                            *)
OnAllocated(c, n, slot) ==
  LET done == MarkDone(c, "send", n, "doneAllocatingStagingBuffer")
  IN IF ~c.error THEN AdvanceOperation([done EXCEPT !.ops.send[n].message = slot], "send", n)
     ELSE LET after == AdvanceOperation(done, "send", n)
          IN IF slot = NoMessage THEN after ELSE A!ReleaseChunk(after, "outbox", slot)

OnDescriptor(c, n, descriptor) ==
  LET done == MarkDone(c, "recv", n, "doneReadingDescriptor")
  IN AdvanceOperation(
       IF c.error THEN done
       ELSE [done EXCEPT !.ops.recv[n].message = descriptor.slot,
                         !.outboxReceived = @ \/ descriptor.outbox],
       "recv", n)

Lambda(c, callback, message) ==
  CASE callback.fn = "doneAllocatingStagingBuffer" -> OnAllocated(c, callback.n, message)
    [] callback.fn = "doneReadingDescriptor" -> OnDescriptor(c, callback.n, message)
    [] callback.fn = "doneReadingReply" ->
         AdvanceOperation(MarkDone(c, "send", callback.n, callback.fn), "send", callback.n)

NewChannel ==
  NewEnd(Connections) @@
  [alloc |-> [outbox |-> A!NewAllocator(NumSlots)],
   event |-> [s \in 0 .. NumSlots - 1 |-> 0], staging |-> [s \in 0 .. NumSlots - 1 |-> 0],
   toStage |-> {}, staged |-> {}, toCopy |-> {}, copied |-> {},
   outboxSent |-> FALSE, outboxReceived |-> FALSE]

InitImplFromLoop(c, e) == c

(* The GPU does not hold up the control flow.                              *)
Working(c, peer) == FALSE

Outstanding(c) == {c.alloc.outbox.pending[i] : i \in 1 .. Len(c.alloc.outbox.pending)}

INSTANCE Channel

-----------------------------------------------------------------------------

(* The GPU runs a copy to staging, after the last transfer of the slot     *)
(* that was recorded on the event when the copy was enqueued.              *)
RunCopyToStaging(e, job) ==
  /\ job.after # 0 => job.after \in chan[Peer(e)].copied
  /\ chan' = [chan EXCEPT ![e].toStage = @ \ {job}, ![e].staged = @ \cup {job.n},
                          ![e].staging[job.slot] = job.n]

(* ... and a copy from staging, after the copy to staging of that chunk.   *)
RunCopyToTarget(e, job) ==
  /\ job.n \in chan[Peer(e)].staged
  /\ chan' = [chan EXCEPT ![e].toCopy = @ \ {job}, ![e].copied = @ \cup {job.n},
                          ![e].ops.recv[job.n].data = chan[Peer(e)].staging[job.slot]]

(* The context is closed: its channels, then its allocators.               *)
CloseContext(e) ==
  /\ e \in Closers /\ ~chan[e].alloc.outbox.closed
  /\ chan' = [chan EXCEPT ![e] =
       A!CloseAllocator(SetError(@, FALSE, HandleErrorImpl(Failed(@))), "outbox")]

Next ==
  \E e \in Ends :
    \/ Send(e, SendImplFromLoop(Called(chan[e], "send"), NextLength(e, "send")))
    \/ Recv(e, RecvImplFromLoop(Called(chan[e], "recv"), NextLength(e, "recv")))
    \/ Close(e, HandleErrorImpl(Failed(chan[e]))) \/ RunTask(e, HandleErrorImpl, Lambda)
    \/ CloseContext(e)
    \/ \E job \in chan[e].toStage : RunCopyToStaging(e, job)
    \/ \E job \in chan[e].toCopy : RunCopyToTarget(e, job)
    \/ \E k \in Connections : ReadCompletes(e, k) \/ WriteFails(e, k)

Spec == Init /\ [][Next]_chan

-----------------------------------------------------------------------------

(* SlotsKept: a chunk of data reaches the target from a slot that still    *)
(* holds it, from an outbox that was opened: the slot is not given to a    *)
(* later chunk while the receiver has yet to copy from it.                 *)
SlotsKept ==
  \A e \in Ends : /\ \A n \in chan[e].copied : chan[e].ops.recv[n].data = n
                  /\ \A job \in chan[e].toCopy : job.opened

(* SlotsAccounted: each slot is available, held by one operation, or in    *)
(* one callback on its way: none is lost and none is given out twice.      *)
SlotsAccounted ==
  \A e \in Ends : \A s \in 0 .. NumSlots - 1 :
    LET c == chan[e]
        held == {n \in 1 .. Len(c.ops.send) : c.ops.send[n].message = s}
        granted == {i \in 1 .. Len(c.tasks) :
                      /\ c.tasks[i].callback.fn = "doneAllocatingStagingBuffer"
                      /\ c.tasks[i].message = s}
    IN Cardinality(held) + Cardinality(granted) = IF s \in c.alloc.outbox.available THEN 0 ELSE 1
=============================================================================
