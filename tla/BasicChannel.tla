---------------------------- MODULE BasicChannel ----------------------------
(***************************************************************************)
(* The basic channel (channel/basic/channel_impl.cc): a buffer is written  *)
(* to, and read from, the one connection of the channel.                   *)
(***************************************************************************)
EXTENDS ChannelOps, TLC

CONSTANTS Ends, Lengths, CanFail, Closers

VARIABLE chan

Connections == {"connection"}

SendState == <<"UNINITIALIZED", "WRITING", "FINISHED">>
RecvState == <<"UNINITIALIZED", "READING", "FINISHED">>

WritePayload(c, n) == WriteThen(c, "connection", n, Callback("send", n, "doneWriting"))

ReadPayload(c, n) == Read(c, "connection", Callback("recv", n, "doneReading"))

(* Faulty variant: an empty buffer is written all the same.                *)
AdvanceSendOperationEvenEmpty(c, n, prevOpState) ==
  LET To(x, from, to, cond, Actions(_, _)) ==
        AttemptTransition(x, "send", n, from, to, cond, Actions)
      T1(x) == To(x, "UNINITIALIZED", "FINISHED", x.error, CallSendCallback)
      T2(x) == To(x, "UNINITIALIZED", "WRITING",
                  ~x.error /\ Reached(SendState, prevOpState, "WRITING"), WritePayload)
      T3(x) == To(x, "WRITING", "FINISHED", "doneWriting" \in x.ops.send[n].done, CallSendCallback)
  IN T3(T2(T1(c)))

AdvanceSendOperation(c, n, prevOpState) ==
  LET To(x, from, to, cond, Actions(_, _)) ==
        AttemptTransition(x, "send", n, from, to, cond, Actions)
      T1(x) == To(x, "UNINITIALIZED", "FINISHED", x.error \/ x.ops.send[n].length = 0,
                  CallSendCallback)
      (* Needs to go after previous op, for the order of writes.           *)
      T2(x) == To(x, "UNINITIALIZED", "WRITING",
                  ~x.error /\ Reached(SendState, prevOpState, "WRITING"), WritePayload)
      T3(x) == To(x, "WRITING", "FINISHED", "doneWriting" \in x.ops.send[n].done, CallSendCallback)
  IN T3(T2(T1(c)))

AdvanceRecvOperation(c, n, prevOpState) ==
  LET To(x, from, to, cond, Actions(_, _)) ==
        AttemptTransition(x, "recv", n, from, to, cond, Actions)
      T1(x) == To(x, "UNINITIALIZED", "FINISHED", x.error \/ x.ops.recv[n].length = 0,
                  CallRecvCallback)
      (* Needs to go after previous op, for the order of reads.            *)
      T2(x) == To(x, "UNINITIALIZED", "READING",
                  ~x.error /\ Reached(RecvState, prevOpState, "READING"), ReadPayload)
      T3(x) == To(x, "READING", "FINISHED", "doneReading" \in x.ops.recv[n].done, CallRecvCallback)
  IN T3(T2(T1(c)))

Advance(c, d, n, prevOpState) ==
  IF d = "send" THEN AdvanceSendOperation(c, n, prevOpState)
  ELSE AdvanceRecvOperation(c, n, prevOpState)

INSTANCE OpsStateMachine

SendImplFromLoop(c, length) ==
  AdvanceOperation(EmplaceBack(c, "send", length), "send", Len(c.ops.send) + 1)

RecvImplFromLoop(c, length) ==
  AdvanceOperation(EmplaceBack(c, "recv", length), "recv", Len(c.ops.recv) + 1)

(* connection_->close() is in Channel's MayFail: from now on the           *)
(* connection may fail.                                                    *)
HandleErrorImpl(c) == AdvanceAllOperations(AdvanceAllOperations(c, "send"), "recv")

Lambda(c, callback, message) ==
  LET done == MarkDone(c, callback.d, callback.n, callback.fn)
  IN AdvanceOperation(
       IF callback.fn = "doneReading" THEN [done EXCEPT !.ops.recv[callback.n].data = message]
       ELSE done,
       callback.d, callback.n)

NewChannel == NewEnd(Connections)

InitImplFromLoop(c, e) == c

Working(c, peer) == FALSE

Outstanding(c) == {}

INSTANCE Channel

Next ==
  \E e \in Ends :
    \/ Send(e, SendImplFromLoop(Called(chan[e], "send"), NextLength(e, "send")))
    \/ Recv(e, RecvImplFromLoop(Called(chan[e], "recv"), NextLength(e, "recv")))
    \/ Close(e, HandleErrorImpl(Failed(chan[e]))) \/ RunTask(e, HandleErrorImpl, Lambda)
    \/ \E k \in Connections : ReadCompletes(e, k) \/ WriteCompletes(e, k)

Spec == Init /\ [][Next]_chan
=============================================================================
