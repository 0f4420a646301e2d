-------------------------------- MODULE Pipe --------------------------------
(***************************************************************************)
(* The read and write operations of the two ends of a pipe                 *)
(* (core/pipe_impl.cc), over the OpsStateMachine that orders them          *)
(* (common/state_machine.h).                                               *)
(*                                                                         *)
(* A pipe's code runs as tasks of its context's loop: a call of the user,  *)
(* or the callback of a connection or channel.  A task sets some fields    *)
(* and advances operations; each attemptTransition that succeeds is one    *)
(* step, as is each move to the next operation.  The task that a pipe is   *)
(* in the middle of is todo[p]: nothing else starts on p until it is done, *)
(* while the other end and the connections carry on.                       *)
(*                                                                         *)
(* Connections and channels appear as what they promise: the i-th read of  *)
(* a stream gets the i-th write of the other end, every callback is        *)
(* called, and those of one connection in order.                           *)
(***************************************************************************)
EXTENDS PipeState

streamVars == <<ins, outs, insDone, outsDone>>
userVars == <<readDescriptorCalled, readCalled, writeCalled>>

(* The place of ops_.front(): finished operations are popped only there.   *)
Front(ops, finished) ==
  CHOOSE k \in 1 .. Len(ops) + 1 : /\ \A j \in 1 .. k - 1 : ops[j].state = finished
                                   /\ k > Len(ops) \/ ops[k].state # finished

AdvanceAll(what, ops, finished) ==
  [what |-> what, at |-> Front(ops, finished), all |-> TRUE, advanced |-> FALSE]

(* Faulty variant: the write operations are forgotten.                     *)
AdvanceAllReads(p) == << AdvanceAll("reads", readOps[p], READ_FINISHED) >>

AdvanceAllOperations(p) ==
  << AdvanceAll("reads", readOps[p], READ_FINISHED),
     AdvanceAll("writes", writeOps[p], WRITE_FINISHED) >>

(* setError, called with an error if "ok" is FALSE, and the body that runs *)
(* after it; handleError closes the streams, which error[p] stands for.    *)
SetErrorThen(p, ok, body) ==
  IF ok \/ error[p]
  THEN /\ todo' = [todo EXCEPT ![p] = body]
       /\ UNCHANGED error
  ELSE /\ todo' = [todo EXCEPT ![p] = AdvanceAllOperations(p) \o body]
       /\ error' = [error EXCEPT ![p] = TRUE]

(* n equal items: the callbacks of operation k, of one kind.               *)
Items(kind, k, n) == [i \in 1 .. n |-> [kind |-> kind, op |-> k]]

-----------------------------------------------------------------------------
(* The calls of the user.  They follow one of Sessions.                    *)

Follows(s) ==
  \A p \in Pipes :
    /\ Len(readOps[p]) <= s.reads[p]
    /\ Len(writeOps[p]) <= Len(s.writes[p])
    /\ \A k \in 1 .. Len(writeOps[p]) : writeOps[p][k].message = s.writes[p][k]

WriteFromLoop(p, message) ==
  /\ Idle(p)
  /\ \E s \in Sessions : /\ Len(writeOps[p]) < Len(s.writes[p])
                         /\ s.writes[p][Len(writeOps[p]) + 1] = message
                         /\ Follows(s)
  /\ writeOps' = [writeOps EXCEPT ![p] = Append(@, NewWriteOperation(message))]
  /\ todo' = [todo EXCEPT ![p] = << AdvanceOperation("writes", Len(writeOps[p]) + 1) >>]
  /\ UNCHANGED <<established, error, readOps, nextMessageGettingAllocation,
                 streamVars, userVars>>

ReadDescriptorFromLoop(p) ==
  /\ Idle(p)
  /\ \E s \in Sessions : Len(readOps[p]) < s.reads[p] /\ Follows(s)
  /\ readOps' = [readOps EXCEPT ![p] = Append(@, NewReadOperation)]
  /\ todo' = [todo EXCEPT ![p] = << AdvanceOperation("reads", Len(readOps[p]) + 1) >>]
  /\ UNCHANGED <<established, error, writeOps, nextMessageGettingAllocation,
                 streamVars, userVars>>

(* A user calls read once for each descriptor it got; the call throws when *)
(* no operation expects it.                                                *)
ReadFromLoop(p) ==
  LET k == nextMessageGettingAllocation[p] IN
  /\ Idle(p)
  /\ Requested(p) < Announced(p)
  /\ k # 0
  /\ nextMessageGettingAllocation' = [nextMessageGettingAllocation EXCEPT ![p] = 0]
  /\ readOps' = [readOps EXCEPT ![p][k].doneGettingAllocation = TRUE]
  /\ todo' = [todo EXCEPT ![p] = << AdvanceOperation("reads", k) >>]
  /\ UNCHANGED <<established, error, writeOps, streamVars, userVars>>

CloseFromLoop(p) ==
  /\ Idle(p)
  /\ ~error[p]
  /\ SetErrorThen(p, FALSE, << >>)
  /\ UNCHANGED <<established, readOps, writeOps, nextMessageGettingAllocation,
                 streamVars, userVars>>

(* The last step of the handshake, on either end.                          *)
Establish(p) ==
  /\ Idle(p)
  /\ ~established[p]
  /\ ~error[p]
  /\ established' = [established EXCEPT ![p] = TRUE]
  /\ todo' = [todo EXCEPT ![p] = AdvanceAllOperations(p)]
  /\ UNCHANGED <<error, readOps, writeOps, nextMessageGettingAllocation,
                 streamVars, userVars>>

-----------------------------------------------------------------------------
(* The callbacks of connections and channels: the loop picks one up, first *)
(* sets the error it may carry and then runs its body.                     *)

Running(p, what) == ~Idle(p) /\ Head(todo[p]).what = what

(* A stream may break down at any time, and then reports errors; once      *)
(* error_ is set, a callback does the same with or without one.            *)
ReadCallback(p, s, i, ok) ==
  LET item == ins[p][s][i] IN
  /\ Idle(p)
  /\ Due(ins[p][s], insDone[p][s], s, i)
  /\ ok => ~error[p] /\ i <= Len(outs[Peer(p)][s])
  /\ insDone' = [insDone EXCEPT ![p][s] = @ \cup {i}]
  /\ SetErrorThen(p, ok, << [what |-> "in", kind |-> item.kind, at |-> item.op,
                             got |-> IF ok /\ item.kind = "descriptor"
                                     THEN DescriptorAt(p, i) ELSE NoShape] >>)
  /\ UNCHANGED <<established, readOps, writeOps, nextMessageGettingAllocation,
                 ins, outs, outsDone, userVars>>

(* Those of the writes of descriptors and descriptor replies have no body. *)
WriteCallback(p, s, i, ok) ==
  LET item == outs[p][s][i] IN
  /\ Idle(p)
  /\ Due(outs[p][s], outsDone[p][s], s, i)
  /\ ok => ~error[p]
  /\ outsDone' = [outsDone EXCEPT ![p][s] = @ \cup {i}]
  /\ SetErrorThen(p, ok, IF item.kind \in {"payload", "tensor"}
                         THEN << [what |-> "out", kind |-> item.kind, at |-> item.op] >>
                         ELSE << >>)
  /\ UNCHANGED <<established, readOps, writeOps, nextMessageGettingAllocation,
                 ins, outs, insDone, userVars>>

Body(p, what, kind) == Running(p, what) /\ Head(todo[p]).kind = kind

DoneReadingDescriptor(p) ==
  LET k == Head(todo[p]).at IN
  /\ Body(p, "in", "descriptor")
  /\ readOps' = [readOps EXCEPT ![p][k].doneReadingDescriptor = TRUE,
                                ![p][k].descriptor = IF error[p] THEN @ ELSE Head(todo[p]).got]
  /\ todo' = [todo EXCEPT ![p] = << AdvanceOperation("reads", k) >>]
  /\ UNCHANGED <<established, error, writeOps, nextMessageGettingAllocation,
                 streamVars, userVars>>

DoneReadingPayload(p) ==
  LET k == Head(todo[p]).at IN
  /\ Body(p, "in", "payload")
  /\ readOps' = [readOps EXCEPT ![p][k].payloads = @ - 1]
  /\ todo' = [todo EXCEPT ![p] = << AdvanceOperation("reads", k) >>]
  /\ UNCHANGED <<established, error, writeOps, nextMessageGettingAllocation,
                 streamVars, userVars>>

DoneReceivingTensor(p) ==
  LET k == Head(todo[p]).at IN
  /\ Body(p, "in", "tensor")
  /\ readOps' = [readOps EXCEPT ![p][k].tensors = @ - 1]
  /\ todo' = [todo EXCEPT ![p] = << AdvanceOperation("reads", k) >>]
  /\ UNCHANGED <<established, error, writeOps, nextMessageGettingAllocation,
                 streamVars, userVars>>

DoneReadingDescriptorReply(p) ==
  LET k == Head(todo[p]).at IN
  /\ Body(p, "in", "reply")
  /\ writeOps' = [writeOps EXCEPT ![p][k].doneReadingDescriptorReply = TRUE]
  /\ todo' = [todo EXCEPT ![p] = << AdvanceOperation("writes", k) >>]
  /\ UNCHANGED <<established, error, readOps, nextMessageGettingAllocation,
                 streamVars, userVars>>

DoneWritingPayload(p) ==
  LET k == Head(todo[p]).at IN
  /\ Body(p, "out", "payload")
  /\ writeOps' = [writeOps EXCEPT ![p][k].payloads = @ - 1]
  /\ todo' = [todo EXCEPT ![p] = << AdvanceOperation("writes", k) >>]
  /\ UNCHANGED <<established, error, readOps, nextMessageGettingAllocation,
                 streamVars, userVars>>

DoneSendingTensor(p) ==
  LET k == Head(todo[p]).at IN
  /\ Body(p, "out", "tensor")
  /\ writeOps' = [writeOps EXCEPT ![p][k].tensors = @ - 1]
  /\ todo' = [todo EXCEPT ![p] = << AdvanceOperation("writes", k) >>]
  /\ UNCHANGED <<established, error, readOps, nextMessageGettingAllocation,
                 streamVars, userVars>>

-----------------------------------------------------------------------------
(* The transitions themselves, of the operation the task is at.            *)

At(p, what, k) == Running(p, what) /\ Head(todo[p]).at = k

(* advanceOneOperation will report that the operation advanced.            *)
Advanced(p) == todo' = [todo EXCEPT ![p][1].advanced = TRUE]

FlushRead(p, k) ==
  /\ At(p, "reads", k)
  /\ CanFlushRead(p, k)
  /\ readOps' = [readOps EXCEPT ![p][k].state = ASKING_FOR_ALLOCATION]
  /\ readDescriptorCalled' = [readDescriptorCalled EXCEPT ![p] = Append(@, [op |-> k, ok |-> FALSE])]
  /\ Advanced(p)
  /\ UNCHANGED <<established, error, writeOps, nextMessageGettingAllocation,
                 streamVars, readCalled, writeCalled>>

ReadDescriptorOfMessage(p, k) ==
  /\ At(p, "reads", k)
  /\ CanReadDescriptor(p, k)
  /\ readOps' = [readOps EXCEPT ![p][k].state = READING_DESCRIPTOR]
  /\ ins' = [ins EXCEPT ![p]["descriptor"] = @ \o Items("descriptor", k, 1)]
  /\ Advanced(p)
  /\ UNCHANGED <<established, error, writeOps, nextMessageGettingAllocation,
                 outs, insDone, outsDone, userVars>>

AskForAllocation(p, k) ==
  /\ At(p, "reads", k)
  /\ CanAskForAllocation(p, k)
  /\ readOps' = [readOps EXCEPT ![p][k].state = ASKING_FOR_ALLOCATION]
  /\ readDescriptorCalled' = [readDescriptorCalled EXCEPT ![p] = Append(@, [op |-> k, ok |-> ~error[p]])]
  /\ Advanced(p)
  /\ UNCHANGED <<established, error, writeOps, nextMessageGettingAllocation,
                 streamVars, readCalled, writeCalled>>

ExpectReadCall(p, k) ==
  /\ At(p, "reads", k)
  /\ CanExpectRead(p, k)
  /\ readOps' = [readOps EXCEPT ![p][k].state = ASKING_FOR_ALLOCATION_FIRST_IN_LINE]
  /\ nextMessageGettingAllocation' = [nextMessageGettingAllocation EXCEPT ![p] = k]
  /\ Advanced(p)
  /\ UNCHANGED <<established, error, writeOps, streamVars, userVars>>

AbortRead(p, k) ==
  /\ At(p, "reads", k)
  /\ CanAbortRead(p, k)
  /\ readOps' = [readOps EXCEPT ![p][k].state = READ_FINISHED]
  /\ readCalled' = [readCalled EXCEPT ![p] = Append(@, [op |-> k, ok |-> FALSE])]
  /\ Advanced(p)
  /\ UNCHANGED <<established, error, writeOps, nextMessageGettingAllocation,
                 streamVars, readDescriptorCalled, writeCalled>>

(* readPayloadsOfMessage, writeDescriptorReplyOfMessage if target devices  *)
(* were missing, receiveTensorsOfMessage.                                  *)
ReadPayloads(p, k) ==
  LET descriptor == readOps[p][k].descriptor IN
  /\ At(p, "reads", k)
  /\ CanReadPayloads(p, k)
  /\ readOps' = [readOps EXCEPT ![p][k].state = READING_PAYLOADS_AND_RECEIVING_TENSORS,
                                ![p][k].payloads = @ + descriptor.payloads,
                                ![p][k].tensors = @ + descriptor.tensors]
  /\ ins' = [ins EXCEPT
       ![p]["descriptor"] = @ \o Items("payload", k, descriptor.payloads),
       ![p]["channel"] = @ \o Items("tensor", k, descriptor.tensors)]
  /\ outs' = [outs EXCEPT
       ![p]["reply"] = @ \o Items("reply", k, IF descriptor.missing THEN 1 ELSE 0)]
  /\ Advanced(p)
  /\ UNCHANGED <<established, error, writeOps, nextMessageGettingAllocation,
                 insDone, outsDone, userVars>>

FinishRead(p, k) ==
  /\ At(p, "reads", k)
  /\ CanFinishRead(p, k)
  /\ readOps' = [readOps EXCEPT ![p][k].state = READ_FINISHED]
  /\ readCalled' = [readCalled EXCEPT ![p] = Append(@, [op |-> k, ok |-> ~error[p]])]
  /\ Advanced(p)
  /\ UNCHANGED <<established, error, writeOps, nextMessageGettingAllocation,
                 streamVars, readDescriptorCalled, writeCalled>>

FlushWrite(p, k) ==
  /\ At(p, "writes", k)
  /\ CanFlushWrite(p, k)
  /\ writeOps' = [writeOps EXCEPT ![p][k].state = WRITE_FINISHED]
  /\ writeCalled' = [writeCalled EXCEPT ![p] = Append(@, [op |-> k, ok |-> FALSE])]
  /\ Advanced(p)
  /\ UNCHANGED <<established, error, readOps, nextMessageGettingAllocation,
                 streamVars, readDescriptorCalled, readCalled>>

(* What writeDescriptorOfMessage and writePayloadsOfMessage write.         *)
DescriptorAndPayloads(k, message) ==
  Items("descriptor", k, 1) \o Items("payload", k, message.payloads)

SendMessage(p, k) ==
  LET message == writeOps[p][k].message IN
  /\ At(p, "writes", k)
  /\ CanSendMessage(p, k)
  /\ writeOps' = [writeOps EXCEPT ![p][k].state = WRITING_PAYLOADS_AND_SENDING_TENSORS,
                                  ![p][k].payloads = @ + message.payloads,
                                  ![p][k].tensors = @ + message.tensors]
  /\ outs' = [outs EXCEPT ![p]["descriptor"] = @ \o DescriptorAndPayloads(k, message),
                          ![p]["channel"] = @ \o Items("tensor", k, message.tensors)]
  /\ Advanced(p)
  /\ UNCHANGED <<established, error, readOps, nextMessageGettingAllocation,
                 ins, insDone, outsDone, userVars>>

AskTargetDevices(p, k) ==
  LET message == writeOps[p][k].message IN
  /\ At(p, "writes", k)
  /\ CanAskTargetDevices(p, k)
  /\ writeOps' = [writeOps EXCEPT
       ![p][k].state = WRITING_PAYLOADS_AND_READING_TARGET_DEVICES,
       ![p][k].payloads = @ + message.payloads]
  /\ outs' = [outs EXCEPT ![p]["descriptor"] = @ \o DescriptorAndPayloads(k, message)]
  /\ ins' = [ins EXCEPT ![p]["reply"] = @ \o Items("reply", k, 1)]
  /\ Advanced(p)
  /\ UNCHANGED <<established, error, readOps, nextMessageGettingAllocation,
                 insDone, outsDone, userVars>>

AbortWrite(p, k) ==
  /\ At(p, "writes", k)
  /\ CanAbortWrite(p, k)
  /\ writeOps' = [writeOps EXCEPT ![p][k].state = WRITE_FINISHED]
  /\ writeCalled' = [writeCalled EXCEPT ![p] = Append(@, [op |-> k, ok |-> FALSE])]
  /\ Advanced(p)
  /\ UNCHANGED <<established, error, readOps, nextMessageGettingAllocation,
                 streamVars, readDescriptorCalled, readCalled>>

SendTensors(p, k) ==
  LET message == writeOps[p][k].message IN
  /\ At(p, "writes", k)
  /\ CanSendTensors(p, k)
  /\ writeOps' = [writeOps EXCEPT ![p][k].state = WRITING_PAYLOADS_AND_SENDING_TENSORS,
                                  ![p][k].tensors = @ + message.tensors]
  /\ outs' = [outs EXCEPT ![p]["channel"] = @ \o Items("tensor", k, message.tensors)]
  /\ Advanced(p)
  /\ UNCHANGED <<established, error, readOps, nextMessageGettingAllocation,
                 ins, insDone, outsDone, userVars>>

FinishWrite(p, k) ==
  /\ At(p, "writes", k)
  /\ CanFinishWrite(p, k)
  /\ writeOps' = [writeOps EXCEPT ![p][k].state = WRITE_FINISHED]
  /\ writeCalled' = [writeCalled EXCEPT ![p] = Append(@, [op |-> k, ok |-> ~error[p]])]
  /\ Advanced(p)
  /\ UNCHANGED <<established, error, readOps, nextMessageGettingAllocation,
                 streamVars, readDescriptorCalled, readCalled>>

(* The operation the task is at can advance no more.                       *)
MoveOn(p, ops, finished) ==
  LET piece == Head(todo[p])
      next == [piece EXCEPT !.at = @ + 1, !.advanced = FALSE] IN
  /\ todo' = [todo EXCEPT ![p] = IF GoesOn(piece, ops, finished)
                                 THEN <<next>> \o Tail(@) ELSE Tail(@)]
  /\ UNCHANGED <<established, error, readOps, writeOps, nextMessageGettingAllocation,
                 streamVars, userVars>>

NextReadOperation(p) ==
  /\ Running(p, "reads")
  /\ LET k == Head(todo[p]).at IN k <= Len(readOps[p]) => ~CanAdvanceRead(p, k)
  /\ MoveOn(p, readOps[p], READ_FINISHED)

NextWriteOperation(p) ==
  /\ Running(p, "writes")
  /\ LET k == Head(todo[p]).at IN k <= Len(writeOps[p]) => ~CanAdvanceWrite(p, k)
  /\ MoveOn(p, writeOps[p], WRITE_FINISHED)

-----------------------------------------------------------------------------
UserCall(p) ==
  \/ \E message \in Shapes : WriteFromLoop(p, message)
  \/ ReadDescriptorFromLoop(p)
  \/ ReadFromLoop(p)
  \/ CloseFromLoop(p)

Callback(p) ==
  \E s \in Streams, ok \in BOOLEAN :
    \/ \E i \in 1 .. Len(ins[p][s]) : ReadCallback(p, s, i, ok)
    \/ \E i \in 1 .. Len(outs[p][s]) : WriteCallback(p, s, i, ok)

RunTask(p) ==
  \/ DoneReadingDescriptor(p) \/ DoneReadingPayload(p) \/ DoneReceivingTensor(p)
  \/ DoneReadingDescriptorReply(p) \/ DoneWritingPayload(p) \/ DoneSendingTensor(p)
  \/ \E k \in 1 .. Len(readOps[p]) :
       \/ FlushRead(p, k) \/ ReadDescriptorOfMessage(p, k) \/ AskForAllocation(p, k)
       \/ ExpectReadCall(p, k) \/ AbortRead(p, k) \/ ReadPayloads(p, k) \/ FinishRead(p, k)
  \/ \E k \in 1 .. Len(writeOps[p]) :
       \/ FlushWrite(p, k) \/ SendMessage(p, k) \/ AskTargetDevices(p, k)
       \/ AbortWrite(p, k) \/ SendTensors(p, k) \/ FinishWrite(p, k)
  \/ NextReadOperation(p)
  \/ NextWriteOperation(p)

Next ==
  \E p \in Pipes : UserCall(p) \/ Establish(p) \/ Callback(p) \/ RunTask(p)

Spec == Init /\ [][Next]_vars

(* A task, once begun, runs to its end.  A stream calls back once either   *)
(* end has closed it, and while both keep it open: a connection when it    *)
(* has written or can read, a channel when the other end takes part.       *)
Closed(p) == error[p] \/ error[Peer(p)]

DueCallback(p) ==
  \E s \in Streams, ok \in BOOLEAN :
    \/ \E i \in 1 .. Len(ins[p][s]) :
         /\ Closed(p) \/ i <= Len(outs[Peer(p)][s])
         /\ ReadCallback(p, s, i, ok)
    \/ \E i \in 1 .. Len(outs[p][s]) :
         /\ Closed(p) \/ s \in Connections \/ i <= Len(ins[Peer(p)][s])
         /\ WriteCallback(p, s, i, ok)

FairSpec ==
  Spec /\ \A p \in Pipes : WF_vars(~Idle(p) /\ RunTask(p)) /\ WF_vars(Idle(p) /\ DueCallback(p))

(* Users who keep reading, on a pipe whose handshake succeeds.             *)
KeepsReading(p) == Idle(p) /\ (Establish(p) \/ ReadDescriptorFromLoop(p) \/ ReadFromLoop(p))

(* A pipe that has met an error uses no connection or channel any more.    *)
NothingPostedAfterError ==
  [][\A p \in Pipes : error[p] => ins'[p] = ins[p] /\ outs'[p] = outs[p]]_vars

(* Messages as the users of the two ends see them: what one end was given  *)
(* to write; at the other end, what its user was told of and what it read. *)
Direction ==
  INSTANCE MessageStream WITH
    Ends <- Pipes,
    Messages <- Shapes,
    written <- [p \in Pipes |-> [k \in 1 .. Len(writeOps[p]) |-> writeOps[p][k].message]],
    announced <- [p \in Pipes |-> [k \in 1 .. Successes(readDescriptorCalled[Peer(p)]) |->
                                    readOps[Peer(p)][k].descriptor]],
    delivered <- [p \in Pipes |-> [k \in 1 .. Successes(readCalled[Peer(p)]) |->
                                    readOps[Peer(p)][k].descriptor]]

(* Both directions of a pipe carry messages reliably and in order up to    *)
(* the first error: none lost, repeated, reordered or mixed with another.  *)
StreamSpec == Direction!Spec

(* Every callback of a closed or failed pipe is called, those of           *)
(* operations begun after the error included: however the pipes fail, a    *)
(* state comes, and comes again, in which none is owed.                    *)
AnsweredAfterError ==
  []<>(\A p \in Pipes :
         error[p] => /\ Len(readDescriptorCalled[p]) = Len(readOps[p])
                     /\ Len(readCalled[p]) = Requested(p)
                     /\ Len(writeCalled[p]) = Len(writeOps[p]))

(* While the user of the other end keeps reading, every write is answered, *)
(* and every message written is read at the other end unless one of the    *)
(* two fails: no wait is circular, not even that for a descriptor reply    *)
(* behind earlier messages.                                                *)
WritesAreAnswered ==
  (\A p \in Pipes : WF_vars(KeepsReading(p))) =>
    []<>(\A p \in Pipes :
           /\ Len(writeCalled[p]) = Len(writeOps[p])
           /\ Closed(p) \/ Successes(readCalled[Peer(p)]) = Len(writeOps[p]))
=============================================================================
