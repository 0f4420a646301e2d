------------------------------ MODULE Channel ------------------------------
(***************************************************************************)
(* The two ends of a channel: what ChannelImplBoilerplate                  *)
(* (channel/channel_impl_boilerplate.h) and CallbackWrapper                *)
(* (common/callback.h) do around the code of a particular channel, which   *)
(* comes in the arguments of the actions, and the connections below it.    *)
(* RunTask takes two operators, each from the record of the end to that    *)
(* after the call,                                                         *)
(*   HandleErrorImpl (c)              handleErrorImpl                      *)
(*   Lambda (c, callback, message)    the lambda of a callback             *)
(* and the other actions the record after the call.                        *)
(*                                                                         *)
(* An action is one task of the loop of the context of an end, or a step   *)
(* of a thread below it that ends in a task being deferred.  A connection  *)
(* appears as what it promises: messages arrive in order, callbacks are    *)
(* called in order and all of them are called; it may fail at any time if  *)
(* CanFail, or if one of its ends has been closed, and then every later    *)
(* operation on it fails.                                                  *)
(***************************************************************************)
EXTENDS Naturals, Sequences

CONSTANTS
  NoMessage,            \* see ChannelOps
  Ends,                 \* the two ends
  Connections,          \* the connections between them
  Lengths,              \* Lengths[e][d][n]: the buffer of the n-th send or recv at e
  CanFail,              \* connections may fail by themselves
  Closers,              \* the ends that may be closed, or their contexts
  Outstanding(_),           \* the callbacks of an end that are with something else
  Working(_, _),            \* something else is to be done for an end, given the other
  NewChannel,               \* an end as it is constructed
  InitImplFromLoop(_, _)    \* the given end after initImplFromLoop

VARIABLE chan           \* chan[e]: the end e

LOCAL INSTANCE ChannelOps

Peer(e) == CHOOSE f \in Ends : f # e

(* initFromLoop: a channel whose context has been closed in the meantime   *)
(* is in error from the start, without handleError.                        *)
Init ==
  \E closed \in SUBSET Closers :
    chan = [e \in Ends |-> IF e \in closed THEN [NewChannel EXCEPT !.error = TRUE]
                           ELSE InitImplFromLoop(NewChannel, e)]

Failed(c) == [c EXCEPT !.error = TRUE]

(* handled is the end after handleErrorImpl, called with error_ set.       *)
SetError(c, ok, handled) == IF c.error \/ ok THEN c ELSE handled

(* The user's next call in direction d, of those Lengths provides for.     *)
NextLength(e, d) == Lengths[e][d][Len(chan[e].calls[d]) + 1]
CallsLeft(e, d) == Len(chan[e].calls[d]) < Len(Lengths[e][d])

Called(c, d) == [c EXCEPT !.calls[d] = Append(@, [called |-> 0, ok |-> FALSE])]

(* In error the callback is called at once.                                *)
Refused(c, d) == Answer(Called(c, d), d, Len(c.calls[d]) + 1)

(* sent and received are the end after sendImplFromLoop, recvImplFromLoop. *)
Send(e, sent) ==
  /\ CallsLeft(e, "send")
  /\ chan' = [chan EXCEPT ![e] = IF @.error THEN Refused(@, "send") ELSE sent]

Recv(e, received) ==
  /\ CallsLeft(e, "recv")
  /\ chan' = [chan EXCEPT ![e] = IF @.error THEN Refused(@, "recv") ELSE received]

(* closeFromLoop, for the user or for the context being closed             *)
Close(e, handled) ==
  /\ e \in Closers /\ ~chan[e].error
  /\ chan' = [chan EXCEPT ![e] = SetError(@, FALSE, handled)]

(* Faulty variant: in error the lambda is dropped.                         *)
HasLambdaUnlessError(c, callback) == callback # OnlySetError /\ ~c.error

(* A lambda is called, in error too.                                       *)
HasLambda(c, callback) == callback # OnlySetError

(* entryPointFromLoop, once the error has been set                         *)
CallLambda(c, task, Lambda(_, _, _)) ==
  IF HasLambda(c, task.callback) THEN Lambda(c, task.callback, task.message) ELSE c

(* The next task of the loop: entryPointFromLoop of a callback.            *)
RunTask(e, HandleErrorImpl(_), Lambda(_, _, _)) ==
  /\ chan[e].tasks # <<>>
  /\ LET task == Head(chan[e].tasks)
         c == [chan[e] EXCEPT !.tasks = Tail(@)]
     IN chan' = [chan EXCEPT ![e] =
                   CallLambda(SetError(c, task.ok, HandleErrorImpl(Failed(c))), task, Lambda)]

(* Connection k of end e may report an error now.                          *)
MayFail(e, k) == CanFail \/ k \in chan[e].failed \/ \E f \in Ends : chan[f].error

(* The oldest pending read on k gets the oldest message, or an error.      *)
ReadCompletes(e, k) ==
  /\ chan[e].reads[k] # <<>>
  /\ LET callback == Head(chan[e].reads[k])
         c == [chan[e] EXCEPT !.reads[k] = Tail(@)]
     IN \/ /\ k \notin chan[e].failed
           /\ chan[Peer(e)].out[k] # <<>>
           /\ chan' = [chan EXCEPT
                ![e] = Defer(c, Task(callback, TRUE, Head(chan[Peer(e)].out[k]))),
                ![Peer(e)].out[k] = Tail(@)]
        \/ /\ MayFail(e, k)
           /\ chan' = [chan EXCEPT
                ![e] = Defer([c EXCEPT !.failed = @ \cup {k}], Task(callback, FALSE, NoMessage))]

(* The oldest pending write on k has completed.                            *)
WriteCompletes(e, k) ==
  /\ chan[e].writes[k] # <<>>
  /\ LET callback == Head(chan[e].writes[k])
         c == [chan[e] EXCEPT !.writes[k] = Tail(@)]
     IN \/ /\ k \notin chan[e].failed
           /\ chan' = [chan EXCEPT ![e] = Defer(c, Task(callback, TRUE, NoMessage))]
        \/ /\ MayFail(e, k)
           /\ chan' = [chan EXCEPT
                ![e] = Defer([c EXCEPT !.failed = @ \cup {k}], Task(callback, FALSE, NoMessage))]

(* A write whose callback only reports errors reports one.                 *)
WriteFails(e, k) ==
  /\ chan[e].out[k] # <<>> /\ chan[e].writes[k] = <<>>
  /\ k \notin chan[e].failed /\ MayFail(e, k)
  /\ chan' = [chan EXCEPT
       ![e] = Defer([@ EXCEPT !.failed = @ \cup {k}], Task(OnlySetError, FALSE, NoMessage))]

(* Nothing is left at e that could run, or (Idle) that could run before     *)
(* the other end or the user does something.                               *)
Quiet(e) ==
  /\ chan[e].tasks = <<>> /\ ~Working(chan[e], chan[Peer(e)])
  /\ \A k \in Connections : chan[e].reads[k] = <<>> /\ chan[e].writes[k] = <<>>

Idle(e) ==
  /\ chan[e].tasks = <<>> /\ ~Working(chan[e], chan[Peer(e)])
  /\ \A k \in Connections :
       /\ chan[e].writes[k] = <<>>
       /\ chan[e].reads[k] = <<>> \/ chan[Peer(e)].out[k] = <<>>

(* The callbacks that somebody still has to call.                          *)
Pending(e) ==
  LET c == chan[e]
      In(s) == {s[i] : i \in 1 .. Len(s)}
  IN UNION {In(c.reads[k]) \cup In(c.writes[k]) : k \in Connections}
     \cup {t.callback : t \in In(c.tasks)} \cup Outstanding(c)

-----------------------------------------------------------------------------

(* CallbacksOnce: the callback of a send or a recv is called at most once. *)
CallbacksOnce ==
  \A e \in Ends, d \in Directions : \A i \in 1 .. Len(chan[e].calls[d]) :
    chan[e].calls[d][i].called <= 1

(* NoDanglingIterator: a pending callback that captured an opIter finds    *)
(* its operation in the deque, and not FINISHED: the pointer in an Iter    *)
(* is not into memory that pop_front has freed.                            *)
NoDanglingIterator ==
  \A e \in Ends : \A p \in Pending(e) :
    p.d \in Directions => chan[e].ops[p.d][p.n].state # "FINISHED"

(* AllCalledBack: once an end is in error and nothing is left that could   *)
(* run there, handleErrorImpl and the callbacks it provoked have finished  *)
(* every operation, and every callback of the user has been called.        *)
AllCalledBack ==
  \A e \in Ends : chan[e].error /\ Quiet(e) =>
    \A d \in Directions : \A i \in 1 .. Len(chan[e].calls[d]) : chan[e].calls[d][i].called = 1

(* NoneStuck: when no end is in error and nothing can run any more, a send *)
(* and a recv that match have both called back: no transition waits for    *)
(* one that waits for it, and no slot or buffer it waits for is lost.      *)
NoneStuck ==
  (\A e \in Ends : ~chan[e].error /\ Idle(e)) =>
    \A e \in Ends : \A i \in 1 .. Len(chan[e].calls.send) :
      i <= Len(chan[Peer(e)].calls.recv) =>
        chan[e].calls.send[i].called = 1 /\ chan[Peer(e)].calls.recv[i].called = 1

(* ReceivedIntact: a recv that reports success has the bytes of the send   *)
(* it matches, as they were before the sender's user got the memory back,  *)
(* unless the sending end is in error.                                     *)
ReceivedIntact ==
  \A e \in Ends : ~chan[Peer(e)].error =>
    \A n \in 1 .. Len(chan[e].ops.recv) :
      LET op == chan[e].ops.recv[n]
      IN chan[e].calls.recv[op.call].ok /\ op.length > 0 => op.data = n
=============================================================================
