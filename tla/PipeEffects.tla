---------------------------- MODULE PipeEffects -----------------------------
(***************************************************************************)
(* What the steps of a pipe change, entry by entry, and what is always     *)
(* true of its operations.  The invariants of pipes are proved from these  *)
(* descriptions of the steps; PipeSteps proves that every step of Pipe     *)
(* fits one of them.                                                       *)
(***************************************************************************)
EXTENDS PipeState

-----------------------------------------------------------------------------
(* An entry of one pipe that is changed, and one that is added at the end. *)

UpdatedAt(g, f, p, k, x, S) ==
  /\ g \in [Pipes -> Seq(S)]
  /\ \A q \in Pipes \ {p} : g[q] = f[q]
  /\ Len(g[p]) = Len(f[p])
  /\ g[p][k] = x
  /\ \A j \in 1 .. Len(f[p]) : j # k => g[p][j] = f[p][j]

AppendedTo(g, f, p, x, S) ==
  /\ g \in [Pipes -> Seq(S)]
  /\ \A q \in Pipes \ {p} : g[q] = f[q]
  /\ Len(g[p]) = Len(f[p]) + 1
  /\ g[p][Len(f[p]) + 1] = x
  /\ \A j \in 1 .. Len(f[p]) : g[p][j] = f[p][j]

(* More reads or writes on a stream, and on the streams of one pipe only.  *)

More(new, old, kind, k, n) ==
  /\ new \in Seq(Item)
  /\ Len(new) = Len(old) + n
  /\ \A i \in 1 .. Len(old) : new[i] = old[i]
  /\ \A i \in Len(old) + 1 .. Len(new) : new[i] = [kind |-> kind, op |-> k]

MoreMessage(new, old, k, n) ==
  /\ new \in Seq(Item)
  /\ Len(new) = Len(old) + 1 + n
  /\ \A i \in 1 .. Len(old) : new[i] = old[i]
  /\ new[Len(old) + 1] = [kind |-> "descriptor", op |-> k]
  /\ \A i \in Len(old) + 2 .. Len(new) : new[i] = [kind |-> "payload", op |-> k]

OnlyAt(g, f, p) ==
  /\ g \in [Pipes -> [Streams -> Seq(Item)]]
  /\ \A q \in Pipes \ {p} : g[q] = f[q]

-----------------------------------------------------------------------------
(* The transitions of reads and writes: what a task does to the operation  *)
(* it is about to advance.                                                 *)

ReadTransition(p, k, op) ==
  /\ 1 \in 1 .. Len(todo[p])
  /\ todo[p][1] \in AdvancePiece
  /\ todo[p][1].what = "reads" /\ todo[p][1].at = k
  /\ UpdatedAt(todo', todo, p, 1, [todo[p][1] EXCEPT !.advanced = TRUE], Piece)
  /\ readOps[p][k] \in ReadOperation /\ op \in ReadOperation
  /\ UpdatedAt(readOps', readOps, p, k, op, ReadOperation)
  /\ UNCHANGED <<established, error, writeOps, insDone, outsDone, writeCalled>>

WriteTransition(p, k, op) ==
  /\ 1 \in 1 .. Len(todo[p])
  /\ todo[p][1] \in AdvancePiece
  /\ todo[p][1].what = "writes" /\ todo[p][1].at = k
  /\ UpdatedAt(todo', todo, p, 1, [todo[p][1] EXCEPT !.advanced = TRUE], Piece)
  /\ writeOps[p][k] \in WriteOperation /\ op \in WriteOperation
  /\ UpdatedAt(writeOps', writeOps, p, k, op, WriteOperation)
  /\ UNCHANGED <<established, error, readOps, nextMessageGettingAllocation, insDone, outsDone,
                 readDescriptorCalled, readCalled>>

FlushReadEffect(p, k) ==
  /\ TypeOK'
  /\ CanFlushRead(p, k)
  /\ ReadTransition(p, k, [readOps[p][k] EXCEPT !.state = ASKING_FOR_ALLOCATION])
  /\ AppendedTo(readDescriptorCalled', readDescriptorCalled, p, [op |-> k, ok |-> FALSE], Call)
  /\ UNCHANGED <<nextMessageGettingAllocation, ins, outs, readCalled>>

ReadDescriptorOfMessageEffect(p, k) ==
  /\ TypeOK'
  /\ CanReadDescriptor(p, k)
  /\ ReadTransition(p, k, [readOps[p][k] EXCEPT !.state = READING_DESCRIPTOR])
  /\ OnlyAt(ins', ins, p)
  /\ More(ins'[p]["descriptor"], ins[p]["descriptor"], "descriptor", k, 1)
  /\ \A s \in {"channel", "reply"} : ins'[p][s] = ins[p][s]
  /\ UNCHANGED <<nextMessageGettingAllocation, outs, readDescriptorCalled, readCalled>>

AskForAllocationEffect(p, k) ==
  /\ TypeOK'
  /\ CanAskForAllocation(p, k)
  /\ ReadTransition(p, k, [readOps[p][k] EXCEPT !.state = ASKING_FOR_ALLOCATION])
  /\ AppendedTo(readDescriptorCalled', readDescriptorCalled, p, [op |-> k, ok |-> ~error[p]], Call)
  /\ UNCHANGED <<nextMessageGettingAllocation, ins, outs, readCalled>>

ExpectReadCallEffect(p, k) ==
  /\ TypeOK'
  /\ CanExpectRead(p, k)
  /\ ReadTransition(p, k, [readOps[p][k] EXCEPT !.state = ASKING_FOR_ALLOCATION_FIRST_IN_LINE])
  /\ nextMessageGettingAllocation' = [nextMessageGettingAllocation EXCEPT ![p] = k]
  /\ UNCHANGED <<ins, outs, readDescriptorCalled, readCalled>>

AbortReadEffect(p, k) ==
  /\ TypeOK'
  /\ CanAbortRead(p, k)
  /\ ReadTransition(p, k, [readOps[p][k] EXCEPT !.state = READ_FINISHED])
  /\ AppendedTo(readCalled', readCalled, p, [op |-> k, ok |-> FALSE], Call)
  /\ UNCHANGED <<nextMessageGettingAllocation, ins, outs, readDescriptorCalled>>

ReadPayloadsEffect(p, k) ==
  LET d == readOps[p][k].descriptor IN
  /\ TypeOK'
  /\ CanReadPayloads(p, k)
  /\ ReadTransition(p, k,
       [readOps[p][k] EXCEPT !.state = READING_PAYLOADS_AND_RECEIVING_TENSORS,
                             !.payloads = @ + d.payloads, !.tensors = @ + d.tensors])
  /\ d \in Shape
  /\ OnlyAt(ins', ins, p) /\ OnlyAt(outs', outs, p)
  /\ More(ins'[p]["descriptor"], ins[p]["descriptor"], "payload", k, d.payloads)
  /\ More(ins'[p]["channel"], ins[p]["channel"], "tensor", k, d.tensors)
  /\ ins'[p]["reply"] = ins[p]["reply"]
  /\ More(outs'[p]["reply"], outs[p]["reply"], "reply", k, IF d.missing THEN 1 ELSE 0)
  /\ \A s \in {"descriptor", "channel"} : outs'[p][s] = outs[p][s]
  /\ UNCHANGED <<nextMessageGettingAllocation, readDescriptorCalled, readCalled>>

FinishReadEffect(p, k) ==
  /\ TypeOK'
  /\ CanFinishRead(p, k)
  /\ ReadTransition(p, k, [readOps[p][k] EXCEPT !.state = READ_FINISHED])
  /\ AppendedTo(readCalled', readCalled, p, [op |-> k, ok |-> ~error[p]], Call)
  /\ UNCHANGED <<nextMessageGettingAllocation, ins, outs, readDescriptorCalled>>

FlushWriteEffect(p, k) ==
  /\ TypeOK'
  /\ CanFlushWrite(p, k)
  /\ WriteTransition(p, k, [writeOps[p][k] EXCEPT !.state = WRITE_FINISHED])
  /\ AppendedTo(writeCalled', writeCalled, p, [op |-> k, ok |-> FALSE], Call)
  /\ UNCHANGED <<ins, outs>>

SendMessageEffect(p, k) ==
  LET m == writeOps[p][k].message IN
  /\ TypeOK'
  /\ CanSendMessage(p, k)
  /\ WriteTransition(p, k, [writeOps[p][k] EXCEPT !.state = WRITING_PAYLOADS_AND_SENDING_TENSORS, !.payloads = @ + m.payloads, !.tensors = @ + m.tensors])
  /\ m \in Shape
  /\ OnlyAt(outs', outs, p)
  /\ MoreMessage(outs'[p]["descriptor"], outs[p]["descriptor"], k, m.payloads)
  /\ More(outs'[p]["channel"], outs[p]["channel"], "tensor", k, m.tensors)
  /\ outs'[p]["reply"] = outs[p]["reply"]
  /\ UNCHANGED <<ins, writeCalled>>

AskTargetDevicesEffect(p, k) ==
  LET m == writeOps[p][k].message IN
  /\ TypeOK'
  /\ CanAskTargetDevices(p, k)
  /\ WriteTransition(p, k, [writeOps[p][k] EXCEPT !.state = WRITING_PAYLOADS_AND_READING_TARGET_DEVICES, !.payloads = @ + m.payloads])
  /\ m \in Shape
  /\ OnlyAt(outs', outs, p)
  /\ MoreMessage(outs'[p]["descriptor"], outs[p]["descriptor"], k, m.payloads)
  /\ outs'[p]["channel"] = outs[p]["channel"]
  /\ outs'[p]["reply"] = outs[p]["reply"]
  /\ OnlyAt(ins', ins, p)
  /\ More(ins'[p]["reply"], ins[p]["reply"], "reply", k, 1)
  /\ \A s \in {"descriptor", "channel"} : ins'[p][s] = ins[p][s]
  /\ UNCHANGED writeCalled

AbortWriteEffect(p, k) ==
  /\ TypeOK'
  /\ CanAbortWrite(p, k)
  /\ WriteTransition(p, k, [writeOps[p][k] EXCEPT !.state = WRITE_FINISHED])
  /\ AppendedTo(writeCalled', writeCalled, p, [op |-> k, ok |-> FALSE], Call)
  /\ UNCHANGED <<ins, outs>>

SendTensorsEffect(p, k) ==
  LET m == writeOps[p][k].message IN
  /\ TypeOK'
  /\ CanSendTensors(p, k)
  /\ WriteTransition(p, k, [writeOps[p][k] EXCEPT !.state = WRITING_PAYLOADS_AND_SENDING_TENSORS, !.tensors = @ + m.tensors])
  /\ m \in Shape
  /\ OnlyAt(outs', outs, p)
  /\ More(outs'[p]["channel"], outs[p]["channel"], "tensor", k, m.tensors)
  /\ outs'[p]["descriptor"] = outs[p]["descriptor"]
  /\ outs'[p]["reply"] = outs[p]["reply"]
  /\ UNCHANGED <<ins, writeCalled>>

FinishWriteEffect(p, k) ==
  /\ TypeOK'
  /\ CanFinishWrite(p, k)
  /\ WriteTransition(p, k, [writeOps[p][k] EXCEPT !.state = WRITE_FINISHED])
  /\ AppendedTo(writeCalled', writeCalled, p, [op |-> k, ok |-> ~error[p]], Call)
  /\ UNCHANGED <<ins, outs>>

-----------------------------------------------------------------------------
(* The bodies of callbacks, and the tasks they start.                      *)

Starts(p, task) ==
  /\ todo' \in [Pipes -> Seq(Piece)]
  /\ \A q \in Pipes \ {p} : todo'[q] = todo[q]
  /\ todo'[p] = task

ReadBody(p, k, kind, op) ==
  /\ 1 \in 1 .. Len(todo[p])
  /\ todo[p][1] \in InPiece /\ todo[p][1].kind = kind /\ todo[p][1].at = k
  /\ Starts(p, << AdvanceOperation("reads", k) >>)
  /\ readOps[p][k] \in ReadOperation /\ op \in ReadOperation
  /\ UpdatedAt(readOps', readOps, p, k, op, ReadOperation)
  /\ UNCHANGED <<established, error, writeOps, nextMessageGettingAllocation, ins, outs,
                 insDone, outsDone, readDescriptorCalled, readCalled, writeCalled>>

WriteBody(p, k, what, kind, op) ==
  /\ 1 \in 1 .. Len(todo[p])
  /\ todo[p][1].what = what /\ todo[p][1].kind = kind /\ todo[p][1].at = k
  /\ Starts(p, << AdvanceOperation("writes", k) >>)
  /\ writeOps[p][k] \in WriteOperation /\ op \in WriteOperation
  /\ UpdatedAt(writeOps', writeOps, p, k, op, WriteOperation)
  /\ UNCHANGED <<established, error, readOps, nextMessageGettingAllocation, ins, outs,
                 insDone, outsDone, readDescriptorCalled, readCalled, writeCalled>>

DoneReadingDescriptorEffect(p, k) ==
  /\ TypeOK'
  /\ ReadBody(p, k, "descriptor",
       [readOps[p][k] EXCEPT !.doneReadingDescriptor = TRUE,
                             !.descriptor = IF error[p] THEN @ ELSE todo[p][1].got])

DoneReadingPayloadEffect(p, k) ==
  TypeOK' /\ ReadBody(p, k, "payload", [readOps[p][k] EXCEPT !.payloads = @ - 1])

DoneReceivingTensorEffect(p, k) ==
  TypeOK' /\ ReadBody(p, k, "tensor", [readOps[p][k] EXCEPT !.tensors = @ - 1])

DoneReadingDescriptorReplyEffect(p, k) ==
  TypeOK' /\ WriteBody(p, k, "in", "reply", [writeOps[p][k] EXCEPT !.doneReadingDescriptorReply = TRUE])

DoneWritingPayloadEffect(p, k) ==
  TypeOK' /\ WriteBody(p, k, "out", "payload", [writeOps[p][k] EXCEPT !.payloads = @ - 1])

DoneSendingTensorEffect(p, k) ==
  TypeOK' /\ WriteBody(p, k, "out", "tensor", [writeOps[p][k] EXCEPT !.tensors = @ - 1])

-----------------------------------------------------------------------------
(* The calls of the user.                                                  *)

WriteFromLoopEffect(p, message) ==
  /\ TypeOK'
  /\ Idle(p)
  /\ NewWriteOperation(message) \in WriteOperation
  /\ AppendedTo(writeOps', writeOps, p, NewWriteOperation(message), WriteOperation)
  /\ Starts(p, << AdvanceOperation("writes", Len(writeOps[p]) + 1) >>)
  /\ UNCHANGED <<established, error, readOps, nextMessageGettingAllocation, ins, outs,
                 insDone, outsDone, readDescriptorCalled, readCalled, writeCalled>>

ReadDescriptorFromLoopEffect(p) ==
  /\ TypeOK'
  /\ Idle(p)
  /\ NewReadOperation \in ReadOperation
  /\ AppendedTo(readOps', readOps, p, NewReadOperation, ReadOperation)
  /\ Starts(p, << AdvanceOperation("reads", Len(readOps[p]) + 1) >>)
  /\ UNCHANGED <<established, error, writeOps, nextMessageGettingAllocation, ins, outs,
                 insDone, outsDone, readDescriptorCalled, readCalled, writeCalled>>

ReadFromLoopEffect(p, k) ==
  /\ TypeOK'
  /\ Idle(p)
  /\ nextMessageGettingAllocation[p] = k
  /\ readOps[p][k] \in ReadOperation
  /\ UpdatedAt(readOps', readOps, p, k,
               [readOps[p][k] EXCEPT !.doneGettingAllocation = TRUE], ReadOperation)
  /\ nextMessageGettingAllocation' = [nextMessageGettingAllocation EXCEPT ![p] = 0]
  /\ Starts(p, << AdvanceOperation("reads", k) >>)
  /\ UNCHANGED <<established, error, writeOps, ins, outs, insDone, outsDone,
                 readDescriptorCalled, readCalled, writeCalled>>

(* The task that advances all operations, from the first that is not over  *)
(* on, and then runs a body; it is what an error starts.                   *)
AdvancesAll(p, body) ==
  /\ todo' \in [Pipes -> Seq(Piece)]
  /\ \A q \in Pipes \ {p} : todo'[q] = todo[q]
  /\ Len(todo'[p]) = 2 + Len(body)
  /\ todo'[p][1] = [what |-> "reads", at |-> Len(readCalled[p]) + 1, all |-> TRUE, advanced |-> FALSE]
  /\ todo'[p][2] = [what |-> "writes", at |-> Len(writeCalled[p]) + 1, all |-> TRUE, advanced |-> FALSE]
  /\ \A i \in 1 .. Len(body) : todo'[p][2 + i] = body[i]

SetsError(p, ok, body) ==
  \/ (ok \/ error[p]) /\ Starts(p, body) /\ UNCHANGED error
  \/ ~ok /\ ~error[p] /\ AdvancesAll(p, body) /\ error' = [error EXCEPT ![p] = TRUE]

CloseFromLoopEffect(p) ==
  /\ TypeOK'
  /\ Idle(p)
  /\ SetsError(p, FALSE, << >>)
  /\ UNCHANGED <<established, readOps, writeOps, nextMessageGettingAllocation, ins, outs,
                 insDone, outsDone, readDescriptorCalled, readCalled, writeCalled>>

EstablishEffect(p) ==
  /\ TypeOK'
  /\ Idle(p)
  /\ established' = [established EXCEPT ![p] = TRUE]
  /\ AdvancesAll(p, << >>)
  /\ UNCHANGED <<error, readOps, writeOps, nextMessageGettingAllocation, ins, outs,
                 insDone, outsDone, readDescriptorCalled, readCalled, writeCalled>>

-----------------------------------------------------------------------------
(* Callbacks, and the moves of a task to another operation.                *)

(* That the i-th read or write of a stream is done, and nothing else.      *)
MarksDone(after, before, p, s, i) ==
  /\ after \in [Pipes -> [Streams -> SUBSET Nat]]
  /\ \A q \in Pipes \ {p} : after[q] = before[q]
  /\ \A r \in Streams \ {s} : after[p][r] = before[p][r]
  /\ after[p][s] = before[p][s] \cup {i}

InBody(p, s, i, ok) ==
  [what |-> "in", kind |-> ins[p][s][i].kind, at |-> ins[p][s][i].op,
   got |-> IF ok /\ ins[p][s][i].kind = "descriptor" THEN DescriptorAt(p, i) ELSE NoShape]

OutBody(p, s, i) == [what |-> "out", kind |-> outs[p][s][i].kind, at |-> outs[p][s][i].op]

ReadCallbackEffect(p, s, i, ok) ==
  /\ TypeOK'
  /\ Idle(p)
  /\ Due(ins[p][s], insDone[p][s], s, i)
  /\ ok => ~error[p] /\ i <= Len(outs[Peer(p)][s])
  /\ InBody(p, s, i, ok) \in InPiece
  /\ SetsError(p, ok, << InBody(p, s, i, ok) >>)
  /\ MarksDone(insDone', insDone, p, s, i)
  /\ UNCHANGED <<established, readOps, writeOps, nextMessageGettingAllocation, ins, outs,
                 outsDone, readDescriptorCalled, readCalled, writeCalled>>

WriteCallbackEffect(p, s, i, ok) ==
  /\ TypeOK'
  /\ Idle(p)
  /\ Due(outs[p][s], outsDone[p][s], s, i)
  /\ OutBody(p, s, i) \in OutPiece
  /\ SetsError(p, ok, IF outs[p][s][i].kind \in {"payload", "tensor"}
                            THEN << OutBody(p, s, i) >> ELSE << >>)
  /\ MarksDone(outsDone', outsDone, p, s, i)
  /\ UNCHANGED <<established, readOps, writeOps, nextMessageGettingAllocation, ins, outs,
                 insDone, readDescriptorCalled, readCalled, writeCalled>>

(* The task drops its first piece, or moves it on to the next operation.   *)
Drops(p) ==
  /\ todo' \in [Pipes -> Seq(Piece)]
  /\ \A q \in Pipes \ {p} : todo'[q] = todo[q]
  /\ Len(todo'[p]) = Len(todo[p]) - 1
  /\ \A n \in 1 .. Len(todo'[p]) : todo'[p][n] = todo[p][n + 1]

MovesOn(p, what, ops, finished) ==
  /\ 1 \in 1 .. Len(todo[p]) /\ todo[p][1] \in AdvancePiece /\ todo[p][1].what = what
  /\ \/ /\ GoesOn(todo[p][1], ops, finished)
        /\ UpdatedAt(todo', todo, p, 1,
                     [todo[p][1] EXCEPT !.at = @ + 1, !.advanced = FALSE], Piece)
     \/ ~GoesOn(todo[p][1], ops, finished) /\ Drops(p)
  /\ UNCHANGED <<established, error, readOps, writeOps, nextMessageGettingAllocation, ins, outs,
                 insDone, outsDone, readDescriptorCalled, readCalled, writeCalled>>

NextReadOperationEffect(p) ==
  /\ TypeOK'
  /\ MovesOn(p, "reads", readOps[p], READ_FINISHED)
  /\ todo[p][1].at <= Len(readOps[p]) => ~CanAdvanceRead(p, todo[p][1].at)

NextWriteOperationEffect(p) ==
  /\ TypeOK'
  /\ MovesOn(p, "writes", writeOps[p], WRITE_FINISHED)
  /\ todo[p][1].at <= Len(writeOps[p]) => ~CanAdvanceWrite(p, todo[p][1].at)

-----------------------------------------------------------------------------
UserCallEffect(p) ==
  \/ \E message \in Shapes : WriteFromLoopEffect(p, message)
  \/ ReadDescriptorFromLoopEffect(p)
  \/ \E k \in 1 .. Len(readOps[p]) : ReadFromLoopEffect(p, k)
  \/ CloseFromLoopEffect(p)

CallbackEffect(p) ==
  \E s \in Streams, ok \in BOOLEAN :
    \/ \E i \in 1 .. Len(ins[p][s]) : ReadCallbackEffect(p, s, i, ok)
    \/ \E i \in 1 .. Len(outs[p][s]) : WriteCallbackEffect(p, s, i, ok)

RunTaskEffect(p) ==
  \/ \E k \in 1 .. Len(readOps[p]) :
       \/ DoneReadingDescriptorEffect(p, k) \/ DoneReadingPayloadEffect(p, k)
       \/ DoneReceivingTensorEffect(p, k)
  \/ \E k \in 1 .. Len(writeOps[p]) :
       \/ DoneReadingDescriptorReplyEffect(p, k) \/ DoneWritingPayloadEffect(p, k)
       \/ DoneSendingTensorEffect(p, k)
  \/ \E k \in 1 .. Len(readOps[p]) :
       \/ FlushReadEffect(p, k) \/ ReadDescriptorOfMessageEffect(p, k)
       \/ AskForAllocationEffect(p, k) \/ ExpectReadCallEffect(p, k) \/ AbortReadEffect(p, k)
       \/ ReadPayloadsEffect(p, k) \/ FinishReadEffect(p, k)
  \/ \E k \in 1 .. Len(writeOps[p]) :
       \/ FlushWriteEffect(p, k) \/ SendMessageEffect(p, k) \/ AskTargetDevicesEffect(p, k)
       \/ AbortWriteEffect(p, k) \/ SendTensorsEffect(p, k) \/ FinishWriteEffect(p, k)
  \/ NextReadOperationEffect(p)
  \/ NextWriteOperationEffect(p)

NextEffect ==
  \E p \in Pipes : UserCallEffect(p) \/ EstablishEffect(p) \/ CallbackEffect(p) \/ RunTaskEffect(p)

-----------------------------------------------------------------------------
(* What always holds of the operations of a pipe, of the task it is in the *)
(* middle of and of the callbacks it called (PipeOrderProofs): where the   *)
(* other invariants start from.                                            *)

(* The body of a callback is the last piece of a task, and what a task has *)
(* to advance are operations, or the place after the last.                 *)
PieceOK(piece, last, reads, writes) ==
  /\ piece.what \in {"in", "out"} => last
  /\ piece.what = "reads" => piece.at \in 1 .. reads + 1
  /\ piece.what = "writes" => piece.at \in 1 .. writes + 1
  /\ piece.what = "in" => piece.at \in 1 .. IF piece.kind = "reply" THEN writes ELSE reads
  /\ piece.what = "out" => piece.kind \in {"payload", "tensor"} /\ piece.at \in 1 .. writes

TodoOK(p) ==
  \A n \in 1 .. Len(todo[p]) :
    PieceOK(todo[p][n], n = Len(todo[p]), Len(readOps[p]), Len(writeOps[p]))

(* On each stream, reads and writes are of the kinds it carries and belong *)
(* to operations that exist.                                               *)
Belongs(posted, kinds, ops) ==
  \A i \in 1 .. Len(posted) : posted[i].kind \in kinds /\ posted[i].op \in 1 .. Len(ops)

ItemsOK(p) ==
  /\ Belongs(ins[p]["descriptor"], {"descriptor", "payload"}, readOps[p])
  /\ Belongs(ins[p]["channel"], {"tensor"}, readOps[p])
  /\ Belongs(ins[p]["reply"], {"reply"}, writeOps[p])
  /\ Belongs(outs[p]["descriptor"], {"descriptor", "payload"}, writeOps[p])
  /\ Belongs(outs[p]["channel"], {"tensor"}, writeOps[p])
  /\ Belongs(outs[p]["reply"], {"reply"}, readOps[p])

(* How far the operations before one that got somewhere have got.          *)
ReadsOrdered(ops) ==
  \A j, k \in 1 .. Len(ops) : j < k =>
    /\ ops[k].state # UNINITIALIZED => ops[j].state >= ASKING_FOR_ALLOCATION
    /\ ops[k].doneReadingDescriptor \/ ops[k].state = READING_DESCRIPTOR =>
         ops[j].state >= READING_PAYLOADS_AND_RECEIVING_TENSORS
    /\ ops[k].state = READ_FINISHED => ops[j].state = READ_FINISHED

WritesOrdered(ops) == \A j, k \in 1 .. Len(ops) : j < k => ops[k].state <= ops[j].state

(* What the flags of a read operation say of its state, and which one      *)
(* expects a call of read.                                                 *)
ReadFlags(ops, next, err) ==
  /\ \A k \in 1 .. Len(ops) :
       /\ ops[k].doneReadingDescriptor => ops[k].state >= READING_DESCRIPTOR
       /\ \/ ops[k].state >= ASKING_FOR_ALLOCATION_FIRST_IN_LINE
          \/ ops[k].state = ASKING_FOR_ALLOCATION /\ ~err
          => ops[k].doneReadingDescriptor
       /\ ops[k].doneGettingAllocation => ops[k].state >= ASKING_FOR_ALLOCATION_FIRST_IN_LINE
       /\ ops[k].state >= READING_PAYLOADS_AND_RECEIVING_TENSORS => ops[k].doneGettingAllocation
       /\ next = k <=> /\ ops[k].state = ASKING_FOR_ALLOCATION_FIRST_IN_LINE
                       /\ ~ops[k].doneGettingAllocation
  /\ next \in 0 .. Len(ops)

(* The calls so far are those of the first operations, and one that failed *)
(* was made after the pipe met an error.                                   *)
CallsOf(called, n, err) ==
  /\ Len(called) <= n
  /\ \A i \in 1 .. Len(called) : called[i].op = i /\ (~called[i].ok => err)
  /\ \A i, j \in 1 .. Len(called) : i <= j /\ called[j].ok => called[i].ok

ReadsCalled(ops, err, announced, answered) ==
  /\ CallsOf(announced, Len(ops), err)
  /\ CallsOf(answered, Len(ops), err)
  /\ \A k \in 1 .. Len(ops) :
       /\ k <= Len(announced) <=> ops[k].state >= ASKING_FOR_ALLOCATION
       /\ k <= Len(answered) <=> ops[k].state = READ_FINISHED

WritesCalled(ops, err, answered) ==
  /\ CallsOf(answered, Len(ops), err)
  /\ \A k \in 1 .. Len(ops) : k <= Len(answered) <=> ops[k].state = WRITE_FINISHED

(* The calls of read are for messages whose descriptor was announced.      *)
CallsMatch(ops, announced, answered) ==
  /\ \A k \in 1 .. Len(announced) : announced[k].ok => ops[k].doneReadingDescriptor
  /\ \A k \in 1 .. Len(answered) :
       answered[k].ok => k <= Len(announced) /\ announced[k].ok

ReadsOK(ops, next, err, announced, answered) ==
  /\ ReadsOrdered(ops)
  /\ ReadFlags(ops, next, err)
  /\ ReadsCalled(ops, err, announced, answered)
  /\ CallsMatch(ops, announced, answered)

WritesOK(ops, err, answered) == WritesOrdered(ops) /\ WritesCalled(ops, err, answered)

ReadInv(p) ==
  ReadsOK(readOps[p], nextMessageGettingAllocation[p], error[p], readDescriptorCalled[p],
          readCalled[p])

WriteInv(p) == WritesOK(writeOps[p], error[p], writeCalled[p])

(* The descriptor of an operation is being read, or was.                   *)
Started(op) == op.state = READING_DESCRIPTOR \/ op.doneReadingDescriptor

DescriptorsStarted(p) ==
  /\ \A i \in 1 .. Len(ins[p]["descriptor"]) : Started(readOps[p][ins[p]["descriptor"][i].op])
  /\ \A n \in 1 .. Len(todo[p]) :
       todo[p][n].what = "in" /\ todo[p][n].kind = "descriptor" =>
         Started(readOps[p][todo[p][n].at])

OrderInv ==
  /\ TypeOK
  /\ \A p \in Pipes : /\ TodoOK(p)
                      /\ ItemsOK(p)
                      /\ DescriptorsStarted(p)
                      /\ ReadInv(p)
                      /\ WriteInv(p)

TypedReads(ops) ==
  /\ Len(ops) \in Nat
  /\ \A k \in 1 .. Len(ops) : /\ ops[k].state \in UNINITIALIZED .. READ_FINISHED
                              /\ ops[k].doneReadingDescriptor \in BOOLEAN
                              /\ ops[k].doneGettingAllocation \in BOOLEAN

TypedWrites(ops) ==
  /\ Len(ops) \in Nat
  /\ \A k \in 1 .. Len(ops) : ops[k].state \in UNINITIALIZED .. WRITE_FINISHED

TypedCalls(called) ==
  /\ Len(called) \in Nat
  /\ \A i \in 1 .. Len(called) : called[i].ok \in BOOLEAN

-----------------------------------------------------------------------------
(* How sets of numbers are counted: PipeProofs takes this from what is     *)
(* known of finite sets, so that the library is needed there only.         *)

NumberCounts ==
  /\ Cardinality({}) = 0
  /\ \A n \in Nat : \A S \in SUBSET (1 .. n) :
       Cardinality(S) \in Nat /\ (Cardinality(S) = 0 => S = {})

(* Taking a number away, and adding those that come next.                  *)
LessCounts ==
  \A n \in Nat : \A S \in SUBSET (1 .. n) : \A i \in 1 .. n :
    Cardinality(S \ {i}) = IF i \in S THEN Cardinality(S) - 1 ELSE Cardinality(S)

MoreCounts ==
  \A n, m \in Nat : \A S \in SUBSET (1 .. n) :
    Cardinality(S \cup (n + 1 .. n + m)) = Cardinality(S) + m

(* A set that has every number before one it has is an interval.           *)
PrefixCounts ==
  \A n \in Nat : \A S \in SUBSET (1 .. n) :
    (\A i, j \in 1 .. n : i <= j /\ j \in S => i \in S) =>
      Cardinality(S) \in 0 .. n /\ S = 1 .. Cardinality(S)

Counting == NumberCounts /\ LessCounts /\ MoreCounts /\ PrefixCounts

=============================================================================
