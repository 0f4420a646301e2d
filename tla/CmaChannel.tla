----------------------------- MODULE CmaChannel -----------------------------
(***************************************************************************)
(* The cma channel (channel/cma): the sender writes a descriptor with its  *)
(* process and the address of its buffer, the thread of the receiver's     *)
(* context copies from there with process_vm_readv, which may fail, and    *)
(* the receiver writes a completion.  c.jobs is the queue requests_ of the *)
(* context of the end; Stop is its nullopt.                                *)
(***************************************************************************)
EXTENDS ChannelOps, TLC

CONSTANTS Ends, Lengths, CanFail, Closers

VARIABLE chan

Connections == {"descriptor", "completion"}

SendState == <<"UNINITIALIZED", "READING_COMPLETION", "FINISHED">>
RecvState == <<"UNINITIALIZED", "READING_DESCRIPTOR", "COPYING", "FINISHED">>

Stop == [callback |-> OnlySetError, from |-> NoMessage]

(* Descriptor n is the process and the address of the buffer of send n.    *)
WriteDescriptor(c, n) == Write(c, "descriptor", n)

ReadCompletion(c, n) ==
  Read(c, "completion", Callback("send", n, "doneReadingCompletion"))

AdvanceSendOperation(c, n, prevOpState) ==
  LET To(x, from, to, cond, Actions(_, _)) ==
        AttemptTransition(x, "send", n, from, to, cond, Actions)
      Request(x, i) == ReadCompletion(WriteDescriptor(x, i), i)
      T1(x) == To(x, "UNINITIALIZED", "FINISHED", x.error \/ x.ops.send[n].length = 0,
                  CallSendCallback)
      T2(x) == To(x, "UNINITIALIZED", "READING_COMPLETION",
                  ~x.error /\ Reached(SendState, prevOpState, "READING_COMPLETION"), Request)
      T3(x) == To(x, "READING_COMPLETION", "FINISHED",
                  "doneReadingCompletion" \in x.ops.send[n].done, CallSendCallback)
  IN T3(T2(T1(c)))

ReadDescriptor(c, n) ==
  Read(c, "descriptor", Callback("recv", n, "doneReadingDescriptor"))

(* Faulty variant: the completion is written before the copy.              *)
CopyCompleted(c, n) ==
  [Write(c, "completion", n) EXCEPT
     !.jobs = Append(@, [callback |-> Callback("recv", n, "doneCopying"),
                         from |-> c.ops.recv[n].message])]

(* requestCopy: push a request for the thread of the context.              *)
Copy(c, n) ==
  [c EXCEPT !.jobs = Append(@, [callback |-> Callback("recv", n, "doneCopying"),
                                from |-> c.ops.recv[n].message])]

WriteCompletion(c, n) == Write(c, "completion", n)

AdvanceRecvOperation(c, n, prevOpState) ==
  LET To(x, from, to, cond, Actions(_, _)) ==
        AttemptTransition(x, "recv", n, from, to, cond, Actions)
      Finish(x, i) == WriteCompletion(CallRecvCallback(x, i), i)
      Done(x, what) == what \in x.ops.recv[n].done
      T1(x) == To(x, "UNINITIALIZED", "FINISHED", x.error \/ x.ops.recv[n].length = 0,
                  CallRecvCallback)
      T2(x) == To(x, "UNINITIALIZED", "READING_DESCRIPTOR",
                  ~x.error /\ Reached(RecvState, prevOpState, "READING_DESCRIPTOR"),
                  ReadDescriptor)
      T3(x) == To(x, "READING_DESCRIPTOR", "FINISHED",
                  x.error /\ Done(x, "doneReadingDescriptor"), CallRecvCallback)
      T4(x) == To(x, "READING_DESCRIPTOR", "COPYING",
                  ~x.error /\ Done(x, "doneReadingDescriptor"), Copy)
      T5(x) == To(x, "COPYING", "FINISHED", x.error /\ Done(x, "doneCopying"), CallRecvCallback)
      T6(x) == To(x, "COPYING", "FINISHED",
                  ~x.error /\ Done(x, "doneCopying") /\ prevOpState = "FINISHED", Finish)
  IN T6(T5(T4(T3(T2(T1(c))))))

Advance(c, d, n, prevOpState) ==
  IF d = "send" THEN AdvanceSendOperation(c, n, prevOpState)
  ELSE AdvanceRecvOperation(c, n, prevOpState)

INSTANCE OpsStateMachine

SendImplFromLoop(c, length) ==
  AdvanceOperation(EmplaceBack(c, "send", length), "send", Len(c.ops.send) + 1)

RecvImplFromLoop(c, length) ==
  AdvanceOperation(EmplaceBack(c, "recv", length), "recv", Len(c.ops.recv) + 1)

HandleErrorImpl(c) == AdvanceAllOperations(AdvanceAllOperations(c, "send"), "recv")

(* The lambdas of readCompletion, readDescriptor and copy.                 *)
Lambda(c, callback, message) ==
  LET n == callback.n
      done == MarkDone(c, callback.d, n, callback.fn)
  IN AdvanceOperation(
       CASE callback.fn = "doneReadingDescriptor" ->
              IF c.error THEN done ELSE [done EXCEPT !.ops.recv[n].message = message]
         [] callback.fn = "doneCopying" -> [done EXCEPT !.ops.recv[n].data = message]
         [] OTHER -> done,
       callback.d, n)

NewChannel == NewEnd(Connections) @@ [jobs |-> <<>>, stopped |-> FALSE]

InitImplFromLoop(c, e) == c

(* The thread of the context has not returned and has requests.            *)
Working(c, peer) == c.jobs # <<>> /\ ~c.stopped

Outstanding(c) == {c.jobs[i].callback : i \in 1 .. Len(c.jobs)}

INSTANCE Channel

(* The callback of the send that operation n is for has been called.       *)
GaveBack(c, n) == c.calls.send[c.ops.send[n].call].called > 0

(* What the thread finds at the address of send n of the other end: its    *)
(* bytes, until the callback has given the memory back.                    *)
Memory(e, n) == IF ~GaveBack(chan[Peer(e)], n) THEN n ELSE NoMessage

(* The thread takes a request, copies, and calls back with what            *)
(* performCopy returned, or returns.                                       *)
HandleCopyRequests(e, ok) ==
  /\ chan[e].jobs # <<>> /\ ~chan[e].stopped
  /\ LET request == Head(chan[e].jobs)
         c == [chan[e] EXCEPT !.jobs = Tail(@)]
     IN chan' = [chan EXCEPT ![e] =
          IF request = Stop THEN [c EXCEPT !.stopped = TRUE]
          ELSE Defer(c, Task(request.callback, ok,
                             IF ok THEN Memory(e, request.from) ELSE NoMessage))]

(* The context is closed: it closes its channels and stops its thread.     *)
CloseContext(e) ==
  /\ e \in Closers /\ ~chan[e].stopped /\ \A i \in 1 .. Len(chan[e].jobs) : chan[e].jobs[i] # Stop
  /\ chan' = [chan EXCEPT ![e] =
       LET closed == SetError(@, FALSE, HandleErrorImpl(Failed(@)))
       IN [closed EXCEPT !.jobs = Append(@, Stop)]]

Next ==
  \E e \in Ends :
    \/ Send(e, SendImplFromLoop(Called(chan[e], "send"), NextLength(e, "send")))
    \/ Recv(e, RecvImplFromLoop(Called(chan[e], "recv"), NextLength(e, "recv")))
    \/ Close(e, HandleErrorImpl(Failed(chan[e]))) \/ RunTask(e, HandleErrorImpl, Lambda)
    \/ (\E ok \in BOOLEAN : HandleCopyRequests(e, ok)) \/ CloseContext(e)
    \/ \E k \in Connections : ReadCompletes(e, k) \/ WriteFails(e, k)

Spec == Init /\ [][Next]_chan

-----------------------------------------------------------------------------

(* SentMeansCopied: a send reports success only when the receiver's thread *)
(* has copied its buffer, so that the user may reuse the memory.           *)
SentMeansCopied ==
  \A e \in Ends : \A n \in 1 .. Len(chan[e].ops.send) :
    LET op == chan[e].ops.send[n]
    IN chan[e].calls.send[op.call].ok /\ op.length > 0 => chan[Peer(e)].ops.recv[n].data = n
=============================================================================
