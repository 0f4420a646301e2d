-------------------------- MODULE CudaBasicChannel --------------------------
(***************************************************************************)
(* The cuda_basic channel (channel/cuda_basic).  A buffer is cut in        *)
(* chunks.  The sender copies a chunk of a GPU buffer to a staging buffer, *)
(* tells the receiver on the connection, and sends it through a CPU        *)
(* channel; the receiver receives it in a staging buffer of its own and    *)
(* copies that to its GPU buffer.  Chunks of CPU buffers need no staging.  *)
(*                                                                         *)
(* An end has the further fields                                           *)
(*   alloc         the allocators of staging buffers, "send" and "recv"    *)
(*   staging       what the staging buffers hold                           *)
(*   copies        the copies given to the GPU, each with a callback on    *)
(*                 its stream                                              *)
(*   cpuSends, cpuRecvs                                                    *)
(*                 the operations whose CPU channel callback is awaited    *)
(*   cpuOut        the chunks sent through the CPU channel and not yet     *)
(*                 received at the other end                               *)
(*   cpuFailed     the CPU channel has reported an error                   *)
(* An operation keeps its staging buffer in message.                       *)
(*                                                                         *)
(* The CPU channel is one of the others, seen as what they promise: chunks *)
(* arrive in order, every callback is called.  When it fails it calls back *)
(* in order only if CpuInOrder (the xth and cma channels do not).          *)
(***************************************************************************)
EXTENDS ChannelOps, TLC

CONSTANTS Ends, Lengths, CanFail, Closers, NumSlots, CpuInOrder

VARIABLE chan

Connections == {"connection"}

SendState ==
  <<"UNINITIALIZED", "ALLOCATING_CPU_BUFFER", "COPYING_FROM_GPU_TO_CPU", "INVOKED_CALLBACK",
    "SENDING_CPU_BUFFER", "FINISHED">>
RecvState ==
  <<"UNINITIALIZED", "READING_READY_TO_SEND", "ALLOCATING_CPU_BUFFER", "RECEIVING_CPU_BUFFER",
    "COPYING_FROM_CPU_TO_GPU", "COPYING_FROM_CPU_TO_GPU_AND_INVOKED_CALLBACK", "FINISHED">>

A == INSTANCE Allocator

AllocateSendCpuBuffer(c, n) ==
  A!Alloc(c, "send", Callback("send", n, "doneAllocatingCpuStagingBuffer"))

WriteReadyToSend(c, n) == Write(c, "connection", n)

(* cudaMemcpyAsync and, on the same stream, a callback through the         *)
(* CudaLoop.                                                               *)
CudaCopy(c, callback) == [c EXCEPT !.copies = @ \cup {callback}]

CopyFromGpuToCpu(c, n) == CudaCopy(c, Callback("send", n, "doneCopyingFromGpuToCpu"))

(* The CPU channel gets a chunk to send: once it has failed nothing leaves *)
(* any more.                                                               *)
GiveToCpuChannel(c, n) ==
  LET out == [n |-> n, from |-> c.ops.send[n].message, data |-> NoMessage]
  IN [c EXCEPT !.cpuSends = Append(@, n),
               !.cpuOut = IF c.cpuFailed THEN @ ELSE Append(@, out)]

(* Faulty variant: the buffer is given back before it was sent.            *)
SendCpuBufferAndReturn(c, n) ==
  IF c.ops.send[n].message = NoMessage THEN GiveToCpuChannel(c, n)
  ELSE A!ReleaseChunk(GiveToCpuChannel(c, n), "send", c.ops.send[n].message)

SendCpuBuffer(c, n) == GiveToCpuChannel(c, n)

(* Faulty variant: the buffer is not given back.                           *)
ReturnBufferNever(c, d, n) == c

(* tmpBuffer = nullptr                                                     *)
ReturnBuffer(c, d, n) ==
  LET slot == c.ops[d][n].message
  IN IF slot = NoMessage THEN c
     ELSE A!ReleaseChunk([c EXCEPT !.ops[d][n].message = NoMessage], d, slot)

ReturnSendCpuBuffer(c, n) == ReturnBuffer(c, "send", n)

AdvanceChunkSendOperation(c, n, prevOpState) ==
  LET To(x, from, to, cond, Actions(_, _)) ==
        AttemptTransition(x, "send", n, from, to, cond, Actions)
      After(s) == Reached(SendState, prevOpState, s)
      Done(x, what) == what \in x.ops.send[n].done
      isCpuBuffer == c.ops.send[n].isCpuBuffer
      CallAndReturn(x, i) == ReturnSendCpuBuffer(CallSendCallback(x, i), i)
      NotifyAndSend(x, i) == SendCpuBuffer(WriteReadyToSend(x, i), i)
      NotifyAndCopy(x, i) == CopyFromGpuToCpu(WriteReadyToSend(x, i), i)
      T1(x) == To(x, "UNINITIALIZED", "FINISHED", x.error /\ After("INVOKED_CALLBACK"),
                  CallSendCallback)
      T2(x) == To(x, "UNINITIALIZED", "SENDING_CPU_BUFFER",
                  ~x.error /\ isCpuBuffer /\ After("SENDING_CPU_BUFFER"), NotifyAndSend)
      T3(x) == To(x, "UNINITIALIZED", "ALLOCATING_CPU_BUFFER",
                  ~x.error /\ ~isCpuBuffer /\ After("ALLOCATING_CPU_BUFFER"),
                  AllocateSendCpuBuffer)
      T4(x) == To(x, "ALLOCATING_CPU_BUFFER", "FINISHED",
                  x.error /\ Done(x, "doneAllocatingCpuStagingBuffer") /\ After("INVOKED_CALLBACK"),
                  CallAndReturn)
      T5(x) == To(x, "ALLOCATING_CPU_BUFFER", "COPYING_FROM_GPU_TO_CPU",
                  /\ ~x.error /\ Done(x, "doneAllocatingCpuStagingBuffer")
                  /\ After("COPYING_FROM_GPU_TO_CPU"), NotifyAndCopy)
      T6(x) == To(x, "COPYING_FROM_GPU_TO_CPU", "FINISHED",
                  x.error /\ Done(x, "doneCopyingFromGpuToCpu") /\ After("INVOKED_CALLBACK"),
                  CallAndReturn)
      T7(x) == To(x, "COPYING_FROM_GPU_TO_CPU", "INVOKED_CALLBACK",
                  ~x.error /\ Done(x, "doneCopyingFromGpuToCpu") /\ After("INVOKED_CALLBACK"),
                  CallSendCallback)
      T8(x) == To(x, "INVOKED_CALLBACK", "FINISHED", x.error, ReturnSendCpuBuffer)
      T9(x) == To(x, "INVOKED_CALLBACK", "SENDING_CPU_BUFFER",
                  ~x.error /\ After("SENDING_CPU_BUFFER"), SendCpuBuffer)
      T10(x) == To(x, "SENDING_CPU_BUFFER", "FINISHED",
                   Done(x, "doneSendingCpuBuffer") /\ isCpuBuffer, CallSendCallback)
      T11(x) == To(x, "SENDING_CPU_BUFFER", "FINISHED",
                   Done(x, "doneSendingCpuBuffer") /\ ~isCpuBuffer, ReturnSendCpuBuffer)
  IN T11(T10(T9(T8(T7(T6(T5(T4(T3(T2(T1(c)))))))))))

ReadReadyToSend(c, n) ==
  Read(c, "connection", Callback("recv", n, "doneReadingReadyToSend"))

AllocateRecvCpuBuffer(c, n) ==
  A!Alloc(c, "recv", Callback("recv", n, "doneAllocatingCpuStagingBuffer"))

ReceiveCpuBuffer(c, n) == [c EXCEPT !.cpuRecvs = Append(@, n)]

CopyFromCpuToGpu(c, n) == CudaCopy(c, Callback("recv", n, "doneCopyingFromCpuToGpu"))

ReturnRecvCpuBuffer(c, n) == ReturnBuffer(c, "recv", n)

AdvanceChunkRecvOperation(c, n, prevOpState) ==
  LET To(x, from, to, cond, Actions(_, _)) ==
        AttemptTransition(x, "recv", n, from, to, cond, Actions)
      After(s) == Reached(RecvState, prevOpState, s)
      Done(x, what) == what \in x.ops.recv[n].done
      isCpuBuffer == c.ops.recv[n].isCpuBuffer
      afterCallback == After("COPYING_FROM_CPU_TO_GPU_AND_INVOKED_CALLBACK")
      CallAndReturn(x, i) == ReturnRecvCpuBuffer(CallRecvCallback(x, i), i)
      T1(x) == To(x, "UNINITIALIZED", "FINISHED", x.error /\ afterCallback, CallRecvCallback)
      T2(x) == To(x, "UNINITIALIZED", "READING_READY_TO_SEND",
                  ~x.error /\ After("READING_READY_TO_SEND"), ReadReadyToSend)
      T3(x) == To(x, "READING_READY_TO_SEND", "FINISHED",
                  x.error /\ Done(x, "doneReadingReadyToSend") /\ afterCallback,
                  CallRecvCallback)
      T4(x) == To(x, "READING_READY_TO_SEND", "RECEIVING_CPU_BUFFER",
                  /\ ~x.error /\ Done(x, "doneReadingReadyToSend") /\ isCpuBuffer
                  /\ After("RECEIVING_CPU_BUFFER"), ReceiveCpuBuffer)
      T5(x) == To(x, "READING_READY_TO_SEND", "ALLOCATING_CPU_BUFFER",
                  /\ ~x.error /\ Done(x, "doneReadingReadyToSend") /\ ~isCpuBuffer
                  /\ After("ALLOCATING_CPU_BUFFER"), AllocateRecvCpuBuffer)
      T6(x) == To(x, "ALLOCATING_CPU_BUFFER", "FINISHED",
                  x.error /\ Done(x, "doneAllocatingCpuStagingBuffer") /\ afterCallback,
                  CallAndReturn)
      T7(x) == To(x, "ALLOCATING_CPU_BUFFER", "RECEIVING_CPU_BUFFER",
                  /\ ~x.error /\ Done(x, "doneAllocatingCpuStagingBuffer")
                  /\ After("RECEIVING_CPU_BUFFER"), ReceiveCpuBuffer)
      T8(x) == To(x, "RECEIVING_CPU_BUFFER", "FINISHED",
                  x.error /\ Done(x, "doneReceivingCpuBuffer") /\ ~isCpuBuffer /\ afterCallback,
                  CallAndReturn)
      T9(x) == To(x, "RECEIVING_CPU_BUFFER", "FINISHED",
                  Done(x, "doneReceivingCpuBuffer") /\ isCpuBuffer, CallRecvCallback)
      T10(x) == To(x, "RECEIVING_CPU_BUFFER", "COPYING_FROM_CPU_TO_GPU",
                   ~x.error /\ Done(x, "doneReceivingCpuBuffer") /\ ~isCpuBuffer,
                   CopyFromCpuToGpu)
      T11(x) == To(x, "COPYING_FROM_CPU_TO_GPU", "COPYING_FROM_CPU_TO_GPU_AND_INVOKED_CALLBACK",
                   afterCallback, CallRecvCallback)
      T12(x) == To(x, "COPYING_FROM_CPU_TO_GPU_AND_INVOKED_CALLBACK", "FINISHED",
                   Done(x, "doneCopyingFromCpuToGpu"), ReturnRecvCpuBuffer)
  IN T12(T11(T10(T9(T8(T7(T6(T5(T4(T3(T2(T1(c))))))))))))

Advance(c, d, n, prevOpState) ==
  IF d = "send" THEN AdvanceChunkSendOperation(c, n, prevOpState)
  ELSE AdvanceChunkRecvOperation(c, n, prevOpState)

INSTANCE OpsStateMachine

RECURSIVE EmplaceChunks(_, _, _, _)

(* The chunks left of the latest call, each advanced before the next is    *)
(* there; the last one has the callback.                                   *)
EmplaceChunks(c, d, left, cpu) ==
  IF left = 0 THEN c
  ELSE LET op == ChunkOperation(c, d, 1, left = 1) @@ [isCpuBuffer |-> cpu]
       IN EmplaceChunks(
            AdvanceOperation([c EXCEPT !.ops[d] = Append(@, op)], d, Len(c.ops[d]) + 1),
            d, left - 1, cpu)

(* buffer: its number of chunks, ceilOfRatio(length, kSlotSize), and       *)
(* whether it is on the CPU.                                               *)
SendImplFromLoop(c, buffer) ==
  IF buffer.chunks = 0 THEN Answer(c, "send", Len(c.calls.send))
  ELSE EmplaceChunks(c, "send", buffer.chunks, buffer.cpu)

RecvImplFromLoop(c, buffer) ==
  IF buffer.chunks = 0 THEN Answer(c, "recv", Len(c.calls.recv))
  ELSE EmplaceChunks(c, "recv", buffer.chunks, buffer.cpu)

HandleErrorImpl(c) == AdvanceAllOperations(AdvanceAllOperations(c, "send"), "recv")

(* The lambdas of the two allocations: in error the buffer goes back when  *)
(* the arguments of the callback are destroyed.                            *)
OnAllocated(c, d, n, slot) ==
  LET done == MarkDone(c, d, n, "doneAllocatingCpuStagingBuffer")
  IN IF ~c.error THEN AdvanceOperation([done EXCEPT !.ops[d][n].message = slot], d, n)
     ELSE LET after == AdvanceOperation(done, d, n)
          IN IF slot = NoMessage THEN after ELSE A!ReleaseChunk(after, d, slot)

Lambda(c, callback, message) ==
  IF callback.fn = "doneAllocatingCpuStagingBuffer"
  THEN OnAllocated(c, callback.d, callback.n, message)
  ELSE AdvanceOperation(MarkDone(c, callback.d, callback.n, callback.fn), callback.d, callback.n)

NewChannel ==
  NewEnd(Connections) @@
  [alloc |-> [d \in Directions |-> A!NewAllocator(NumSlots)],
   staging |-> [d \in Directions |-> [s \in 0 .. NumSlots - 1 |-> 0]],
   copies |-> {}, cpuSends |-> <<>>, cpuRecvs |-> <<>>, cpuOut |-> <<>>, cpuFailed |-> FALSE]

InitImplFromLoop(c, e) == c

Outstanding(c) ==
  c.copies
  \cup {Callback("send", c.cpuSends[i], "doneSendingCpuBuffer") : i \in 1 .. Len(c.cpuSends)}
  \cup {Callback("recv", c.cpuRecvs[i], "doneReceivingCpuBuffer") : i \in 1 .. Len(c.cpuRecvs)}
  \cup UNION {{c.alloc[d].pending[i] : i \in 1 .. Len(c.alloc[d].pending)} : d \in Directions}

(* The GPU has something to copy, or the CPU channel to send or receive.   *)
Working(c, peer) ==
  \/ c.copies # {} \/ c.cpuSends # <<>>
  \/ /\ c.cpuRecvs # <<>>
     /\ peer.cpuOut # <<>> \/ \E x \in {c, peer} : x.error \/ x.cpuFailed

INSTANCE Channel

-----------------------------------------------------------------------------

(* The GPU runs a copy, or the stream is in error and nothing is copied;   *)
(* the CudaLoop calls back, with success or with a CudaError.              *)
RunCopy(e, callback, ok) ==
  LET c == [chan[e] EXCEPT !.copies = @ \ {callback}]
      n == callback.n
      slot == c.ops[callback.d][n].message
      copied == CASE ~ok -> c
                  [] ok /\ callback.d = "send" -> [c EXCEPT !.staging.send[slot] = n]
                  [] ok /\ callback.d = "recv" ->
                       [c EXCEPT !.ops.recv[n].data = c.staging.recv[slot]]
  IN chan' = [chan EXCEPT ![e] = Defer(copied, Task(callback, ok, NoMessage))]

(* What the CPU channel finds in the buffer of a chunk at e.               *)
Content(c, out) ==
  IF out.data # NoMessage THEN out.data
  ELSE IF out.from = NoMessage THEN out.n ELSE c.staging.send[out.from]

MayFailCpu == CanFail \/ \E f \in Ends : chan[f].error \/ chan[f].cpuFailed

(* The CPU channel calls back for a send: in order, the bytes having been  *)
(* taken, or with an error, and then neither its chunk nor a later one     *)
(* leaves any more.                                                        *)
CpuSendCompletes(e, i) ==
  /\ i \in 1 .. Len(chan[e].cpuSends)
  /\ LET n == chan[e].cpuSends[i]
         c == [chan[e] EXCEPT !.cpuSends = SelectSeq(@, LAMBDA m : m # n)]
         Kept(out) == IF out.n = n THEN [out EXCEPT !.data = Content(c, out)] ELSE out
         callback == Callback("send", n, "doneSendingCpuBuffer")
     IN \/ /\ i = 1 /\ ~c.cpuFailed
           /\ chan' = [chan EXCEPT ![e] =
                Defer([c EXCEPT !.cpuOut = [j \in 1 .. Len(@) |-> Kept(@[j])]],
                      Task(callback, TRUE, NoMessage))]
        \/ /\ MayFailCpu /\ (CpuInOrder => i = 1)
           /\ chan' = [chan EXCEPT ![e] =
                Defer([c EXCEPT !.cpuOut = SelectSeq(@, LAMBDA out : out.n < n),
                                !.cpuFailed = TRUE],
                      Task(callback, FALSE, NoMessage))]

(* ... for a recv: with the next chunk sent, even if the other end has     *)
(* failed since, or with an error.                                         *)
CpuRecvCompletes(e, i) ==
  /\ i \in 1 .. Len(chan[e].cpuRecvs)
  /\ LET n == chan[e].cpuRecvs[i]
         c == [chan[e] EXCEPT !.cpuRecvs = SelectSeq(@, LAMBDA m : m # n)]
         slot == c.ops.recv[n].message
         peer == chan[Peer(e)]
         Received(data) == IF slot = NoMessage THEN [c EXCEPT !.ops.recv[n].data = data]
                           ELSE [c EXCEPT !.staging.recv[slot] = data]
         callback == Callback("recv", n, "doneReceivingCpuBuffer")
     IN \/ /\ i = 1 /\ ~c.cpuFailed /\ peer.cpuOut # <<>>
           /\ chan' = [chan EXCEPT
                ![e] = Defer(Received(Content(peer, Head(peer.cpuOut))),
                             Task(callback, TRUE, NoMessage)),
                ![Peer(e)].cpuOut = Tail(@)]
        \/ /\ MayFailCpu /\ (CpuInOrder => i = 1)
           /\ chan' = [chan EXCEPT ![e] =
                Defer([c EXCEPT !.cpuFailed = TRUE], Task(callback, FALSE, NoMessage))]

(* The context is closed: its channels, the CPU context, the CudaLoop and  *)
(* the allocators.                                                         *)
CloseContext(e) ==
  /\ e \in Closers /\ ~chan[e].alloc.send.closed
  /\ chan' = [chan EXCEPT ![e] =
       LET closed == SetError(@, FALSE, HandleErrorImpl(Failed(@)))
       IN A!CloseAllocator(A!CloseAllocator(closed, "send"), "recv")]

Next ==
  \E e \in Ends :
    \/ Send(e, SendImplFromLoop(Called(chan[e], "send"), NextLength(e, "send")))
    \/ Recv(e, RecvImplFromLoop(Called(chan[e], "recv"), NextLength(e, "recv")))
    \/ Close(e, HandleErrorImpl(Failed(chan[e]))) \/ RunTask(e, HandleErrorImpl, Lambda)
    \/ CloseContext(e)
    \/ \E callback \in chan[e].copies, ok \in BOOLEAN : RunCopy(e, callback, ok)
    \/ \E i \in 1 .. 3 : CpuSendCompletes(e, i) \/ CpuRecvCompletes(e, i)
    \/ \E k \in Connections : ReadCompletes(e, k) \/ WriteFails(e, k)

Spec == Init /\ [][Next]_chan

-----------------------------------------------------------------------------

(* ChunksDoneBeforeCallback: when the callback of a send or recv of a CPU  *)
(* buffer has been called, the CPU channel is done with all its chunks.    *)
(* cuda_basic/channel_impl.cc:93-94 argues that operations are processed   *)
(* in order, so that the callback of the last chunk does for all.          *)
ChunksDoneBeforeCallback ==
  \A e \in Ends : \A p \in Outstanding(chan[e]) :
    LET op == chan[e].ops[p.d][p.n]
    IN op.isCpuBuffer => chan[e].calls[p.d][op.call].called = 0

(* StagedIntact: a copy to or from the GPU in a staging buffer finds that  *)
(* buffer still held by its operation, and what reaches the GPU buffer of  *)
(* the receiver is the chunk of the matching send.                         *)
StagedIntact ==
  \A e \in Ends :
    /\ \A p \in chan[e].copies : chan[e].ops[p.d][p.n].message # NoMessage
    /\ \A n \in 1 .. Len(chan[e].ops.recv) : chan[e].ops.recv[n].data \in {NoMessage, n}
=============================================================================
