--------------------------- MODULE CudaXthChannel ---------------------------
(***************************************************************************)
(* The cuda_xth channel (channel/cuda_xth): the sender writes a descriptor *)
(* with the address of its buffer, its stream and an event recorded on it; *)
(* the receiver enqueues on its own stream a wait for that event and the   *)
(* copy, makes the sender's stream wait for the copy, calls back without   *)
(* waiting for the GPU, and writes a completion.                           *)
(*                                                                         *)
(* The GPU runs each stream in order, at its own pace.  c.jobs is what the *)
(* stream of the receiver has still to copy, c.copied what it has copied,  *)
(* c.synced the copies the sender's stream waits for.  The sender's stream *)
(* has run the kernels that fill the first c.produced buffers; c.reused    *)
(* are the buffers that work enqueued after the callback has overwritten.  *)
(***************************************************************************)
EXTENDS ChannelOps, TLC

CONSTANTS Ends, Lengths, CanFail, Closers

VARIABLE chan

Connections == {"descriptor", "completion"}

SendState == <<"UNINITIALIZED", "READING_COMPLETION", "FINISHED">>
RecvState == <<"UNINITIALIZED", "READING_DESCRIPTOR", "FINISHED">>

(* Descriptor n stands for the address, event and stream of send n.        *)
WriteDescriptor(c, n) == Write(c, "descriptor", n)

ReadCompletion(c, n) ==
  Read(c, "completion", Callback("send", n, "doneReadingCompletion"))

AdvanceSendOperation(c, n, prevOpState) ==
  LET To(x, from, to, cond, Actions(_, _)) ==
        AttemptTransition(x, "send", n, from, to, cond, Actions)
      Request(x, i) == ReadCompletion(WriteDescriptor(x, i), i)
      T1(x) == To(x, "UNINITIALIZED", "FINISHED", x.error \/ x.ops.send[n].length = 0,
                  CallSendCallback)
      T2(x) == To(x, "UNINITIALIZED", "READING_COMPLETION",
                  ~x.error /\ Reached(SendState, prevOpState, "READING_COMPLETION"), Request)
      T3(x) == To(x, "READING_COMPLETION", "FINISHED",
                  "doneReadingCompletion" \in x.ops.send[n].done, CallSendCallback)
  IN T3(T2(T1(c)))

ReadDescriptor(c, n) ==
  Read(c, "descriptor", Callback("recv", n, "doneReadingDescriptor"))

(* Faulty variant: the sender's stream does not wait for the copy.         *)
WaitOnStartEventAndCopy(c, n) ==
  [c EXCEPT !.jobs = Append(@, [n |-> n, from |-> c.ops.recv[n].message])]

(* RecvOperation::process                                                  *)
WaitOnStartEventAndCopyAndSyncWithSourceStream(c, n) ==
  LET from == c.ops.recv[n].message
  IN [c EXCEPT !.jobs = Append(@, [n |-> n, from |-> from]),
               !.synced = @ \cup {n}]

WriteCompletion(c, n) == Write(c, "completion", n)

AdvanceRecvOperation(c, n, prevOpState) ==
  LET To(x, from, to, cond, Actions(_, _)) ==
        AttemptTransition(x, "recv", n, from, to, cond, Actions)
      CopyAndFinish(x, i) ==
        WriteCompletion(
          CallRecvCallback(WaitOnStartEventAndCopyAndSyncWithSourceStream(x, i), i), i)
      Done(x, what) == what \in x.ops.recv[n].done
      T1(x) == To(x, "UNINITIALIZED", "FINISHED", x.error \/ x.ops.recv[n].length = 0,
                  CallRecvCallback)
      T2(x) == To(x, "UNINITIALIZED", "READING_DESCRIPTOR",
                  ~x.error /\ Reached(RecvState, prevOpState, "READING_DESCRIPTOR"),
                  ReadDescriptor)
      T3(x) == To(x, "READING_DESCRIPTOR", "FINISHED",
                  x.error /\ Done(x, "doneReadingDescriptor"), CallRecvCallback)
      T4(x) == To(x, "READING_DESCRIPTOR", "FINISHED",
                  ~x.error /\ Done(x, "doneReadingDescriptor") /\ prevOpState = "FINISHED",
                  CopyAndFinish)
  IN T4(T3(T2(T1(c))))

Advance(c, d, n, prevOpState) ==
  IF d = "send" THEN AdvanceSendOperation(c, n, prevOpState)
  ELSE AdvanceRecvOperation(c, n, prevOpState)

INSTANCE OpsStateMachine

(* The SendOperation records its start event after the user's kernels.     *)
SendImplFromLoop(c, length) ==
  AdvanceOperation(EmplaceBack(c, "send", length), "send", Len(c.ops.send) + 1)

RecvImplFromLoop(c, length) ==
  AdvanceOperation(EmplaceBack(c, "recv", length), "recv", Len(c.ops.recv) + 1)

HandleErrorImpl(c) == AdvanceAllOperations(AdvanceAllOperations(c, "send"), "recv")

(* The lambdas of readCompletion and readDescriptor.                       *)
Lambda(c, callback, message) ==
  LET done == MarkDone(c, callback.d, callback.n, callback.fn)
  IN AdvanceOperation(
       IF callback.d = "recv" /\ ~c.error
       THEN [done EXCEPT !.ops.recv[callback.n].message = message] ELSE done,
       callback.d, callback.n)

NewChannel ==
  NewEnd(Connections) @@
  [jobs |-> <<>>, copied |-> {}, synced |-> {}, produced |-> 0, reused |-> {}]

InitImplFromLoop(c, e) == c

Working(c, peer) == c.jobs # <<>>

Outstanding(c) == {}

INSTANCE Channel

-----------------------------------------------------------------------------

(* The GPU.                                                                *)

(* The kernels that fill the next buffer of e have run.                    *)
Produce(e) ==
  /\ chan[e].produced < Len(chan[e].ops.send)
  /\ chan' = [chan EXCEPT ![e].produced = @ + 1]

(* The stream of e makes its next copy, once the start event has fired.    *)
CopyOnStream(e) ==
  /\ chan[e].jobs # <<>>
  /\ LET job == Head(chan[e].jobs)
     IN /\ chan[Peer(e)].produced >= job.from
        /\ chan' = [chan EXCEPT
             ![e].jobs = Tail(@),
             ![e].copied = @ \cup {job.n},
             ![e].ops.recv[job.n].data =
               IF job.from \in chan[Peer(e)].reused THEN NoMessage ELSE job.from]

(* The user got buffer n of e back and enqueued, on the same stream, work  *)
(* that overwrites it; the stream runs it after all it had to wait for.    *)
Reuse(e, n) ==
  /\ n \in 1 .. Len(chan[e].ops.send) \ chan[e].reused
  /\ chan[e].calls.send[chan[e].ops.send[n].call].called > 0 /\ chan[e].produced >= n
  /\ chan[Peer(e)].synced \subseteq chan[Peer(e)].copied
  /\ chan' = [chan EXCEPT ![e].reused = @ \cup {n}]

Next ==
  \E e \in Ends :
    \/ Send(e, SendImplFromLoop(Called(chan[e], "send"), NextLength(e, "send")))
    \/ Recv(e, RecvImplFromLoop(Called(chan[e], "recv"), NextLength(e, "recv")))
    \/ Close(e, HandleErrorImpl(Failed(chan[e]))) \/ RunTask(e, HandleErrorImpl, Lambda)
    \/ Produce(e) \/ CopyOnStream(e)
    \/ \E n \in 1 .. Len(chan[e].ops.send) : Reuse(e, n)
    \/ \E k \in Connections : ReadCompletes(e, k) \/ WriteFails(e, k)

Spec == Init /\ [][Next]_chan

-----------------------------------------------------------------------------

(* CopiedInStreamOrder: what the receiver's stream has copied are the      *)
(* bytes of the matching send, after the kernels that produced them and    *)
(* before the work the sender's user enqueued after the callback, unless   *)
(* the sending end is in error; process() orders the two streams.          *)
CopiedInStreamOrder ==
  \A e \in Ends : ~chan[Peer(e)].error =>
    \A n \in chan[e].copied : chan[e].ops.recv[n].data = n

(* SentMeansQueued: a send reports success only when the copy of its       *)
(* buffer, and the wait of its stream for the copy, have been enqueued.    *)
SentMeansQueued ==
  \A e \in Ends : \A n \in 1 .. Len(chan[e].ops.send) :
    LET op == chan[e].ops.send[n]
    IN chan[e].calls.send[op.call].ok /\ op.length > 0 => n \in chan[Peer(e)].synced
=============================================================================
