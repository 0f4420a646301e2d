----------------------------- MODULE PipeState ------------------------------
(***************************************************************************)
(* The state of the two ends of a pipe (core/pipe_impl.h), when an         *)
(* operation may make a transition (advanceReadOperation and               *)
(* advanceWriteOperation of core/pipe_impl.cc), and what is to hold of     *)
(* every state that the steps of Pipe reach.                               *)
(***************************************************************************)
EXTENDS Integers, Sequences, FiniteSets

CONSTANTS
  Pipes,        \* the two ends
  Sessions      \* what the users may ask for: the messages that are written at
                \* each end, and how often readDescriptor is called there

Shape == [payloads : Nat, tensors : Nat, missing : BOOLEAN]

ASSUME PipesAssumption ==
  /\ \A p \in Pipes : \E q \in Pipes : q # p /\ Pipes = {p, q}
  /\ \A s \in Sessions : s.writes \in [Pipes -> Seq(Shape)] /\ s.reads \in [Pipes -> Nat]

(* The numbers of the writes at p, and the messages.                       *)
Writes(p) == UNION {DOMAIN s.writes[p] : s \in Sessions}
Shapes == UNION {{s.writes[p][k] : k \in DOMAIN s.writes[p]} : p \in Pipes, s \in Sessions}

(* A message lacks target devices for tensors it has.                      *)
ASSUME ShapesAssumption == \A shape \in Shapes : shape.missing => shape.tensors > 0

Peer(p) == CHOOSE q \in Pipes : q # p

(* descriptorConnection_, descriptorReplyConnection_ and the channel that  *)
(* both ends use for the tensors.                                          *)
Streams == {"descriptor", "reply", "channel"}
Connections == {"descriptor", "reply"}

(* ReadOperation::State and WriteOperation::State                          *)
UNINITIALIZED == 0
READING_DESCRIPTOR == 1
ASKING_FOR_ALLOCATION == 2
ASKING_FOR_ALLOCATION_FIRST_IN_LINE == 3
READING_PAYLOADS_AND_RECEIVING_TENSORS == 4
READ_FINISHED == 5
WRITING_PAYLOADS_AND_READING_TARGET_DEVICES == 1
WRITING_PAYLOADS_AND_SENDING_TENSORS == 2
WRITE_FINISHED == 3

VARIABLES
  established,  \* state_ = ESTABLISHED
  error,        \* error_ is set
  readOps,      \* every ReadOperation so far, those popped included
  writeOps,     \* every WriteOperation so far
  nextMessageGettingAllocation,  \* a read operation, or 0
  todo,         \* what is left of the task the pipe is in the middle of
  ins,          \* ins[p][s]: the reads or recvs p posted on stream s
  outs,         \* outs[p][s]: the writes or sends p posted
  insDone,      \* the indices of those whose callback has fired
  outsDone,
  readDescriptorCalled,  \* the calls of the user's callbacks: of which
  readCalled,            \* operation, and whether with success
  writeCalled

vars == <<established, error, readOps, writeOps, nextMessageGettingAllocation, todo,
          ins, outs, insDone, outsDone, readDescriptorCalled, readCalled, writeCalled>>

NoShape == [payloads |-> 0, tensors |-> 0, missing |-> FALSE]

NewReadOperation ==
  [state |-> UNINITIALIZED, doneReadingDescriptor |-> FALSE, doneGettingAllocation |-> FALSE,
   payloads |-> 0, tensors |-> 0, descriptor |-> NoShape]

NewWriteOperation(message) ==
  [state |-> UNINITIALIZED, doneReadingDescriptorReply |-> FALSE,
   payloads |-> 0, tensors |-> 0, message |-> message]

Init ==
  /\ established = [p \in Pipes |-> FALSE]
  /\ error = [p \in Pipes |-> FALSE]
  /\ readOps = [p \in Pipes |-> << >>]
  /\ writeOps = [p \in Pipes |-> << >>]
  /\ nextMessageGettingAllocation = [p \in Pipes |-> 0]
  /\ todo = [p \in Pipes |-> << >>]
  /\ ins = [p \in Pipes |-> [s \in Streams |-> << >>]]
  /\ outs = [p \in Pipes |-> [s \in Streams |-> << >>]]
  /\ insDone = [p \in Pipes |-> [s \in Streams |-> {}]]
  /\ outsDone = [p \in Pipes |-> [s \in Streams |-> {}]]
  /\ readDescriptorCalled = [p \in Pipes |-> << >>]
  /\ readCalled = [p \in Pipes |-> << >>]
  /\ writeCalled = [p \in Pipes |-> << >>]

(* The pieces a task is made of.                                           *)
Idle(p) == todo[p] = << >>

AdvanceOperation(what, k) == [what |-> what, at |-> k, all |-> FALSE, advanced |-> FALSE]

(* The i-th of the posted operations is the next one of a connection, or   *)
(* any one of a channel, whose callback has not fired.                     *)
Due(posted, done, s, i) ==
  /\ i \in 1 .. Len(posted) \ done
  /\ s \in Connections => 1 .. i - 1 \subseteq done

(* What the descriptor that p reads at position i says.                    *)
DescriptorAt(p, i) == writeOps[Peer(p)][outs[Peer(p)]["descriptor"][i].op].message

(* How many messages the user was told of, and how many they asked to read.*)
Successes(called) == Cardinality({i \in 1 .. Len(called) : called[i].ok})
Announced(p) == Successes(readDescriptorCalled[p])
Requested(p) == Cardinality({k \in 1 .. Len(readOps[p]) : readOps[p][k].doneGettingAllocation})

-----------------------------------------------------------------------------
(* The transitions of advanceReadOperation: when each of them may happen.  *)

PrevRead(p, k) == IF k = 1 THEN READ_FINISHED ELSE readOps[p][k - 1].state

(* Faulty variant: also waits for the previous read to be over.            *)
CanFlushReadLate(p, k) ==
  /\ readOps[p][k].state = UNINITIALIZED
  /\ error[p]
  /\ PrevRead(p, k) >= READ_FINISHED

CanFlushRead(p, k) ==
  /\ readOps[p][k].state = UNINITIALIZED
  /\ error[p]
  /\ PrevRead(p, k) >= ASKING_FOR_ALLOCATION

(* Faulty variant: does not wait for the payloads of the previous message. *)
CanReadDescriptorEarly(p, k) ==
  /\ readOps[p][k].state = UNINITIALIZED
  /\ ~error[p]
  /\ established[p]
  /\ PrevRead(p, k) >= ASKING_FOR_ALLOCATION

CanReadDescriptor(p, k) ==
  /\ readOps[p][k].state = UNINITIALIZED
  /\ ~error[p]
  /\ established[p]
  /\ PrevRead(p, k) >= READING_PAYLOADS_AND_RECEIVING_TENSORS

CanAskForAllocation(p, k) ==
  /\ readOps[p][k].state = READING_DESCRIPTOR
  /\ readOps[p][k].doneReadingDescriptor
  /\ PrevRead(p, k) >= ASKING_FOR_ALLOCATION

(* Faulty variant: waits for the previous read to be over, not for its     *)
(* allocation.                                                             *)
CanExpectReadLate(p, k) ==
  /\ readOps[p][k].state = ASKING_FOR_ALLOCATION
  /\ readOps[p][k].doneReadingDescriptor
  /\ PrevRead(p, k) >= READ_FINISHED

CanExpectRead(p, k) ==
  /\ readOps[p][k].state = ASKING_FOR_ALLOCATION
  /\ readOps[p][k].doneReadingDescriptor
  /\ PrevRead(p, k) >= READING_PAYLOADS_AND_RECEIVING_TENSORS

CanAbortRead(p, k) ==
  /\ readOps[p][k].state = ASKING_FOR_ALLOCATION_FIRST_IN_LINE
  /\ error[p]
  /\ readOps[p][k].doneGettingAllocation
  /\ PrevRead(p, k) >= READ_FINISHED

CanReadPayloads(p, k) ==
  /\ readOps[p][k].state = ASKING_FOR_ALLOCATION_FIRST_IN_LINE
  /\ ~error[p]
  /\ readOps[p][k].doneGettingAllocation

(* Faulty variant: an error does not wait for the tensors being received.  *)
CanFinishReadOnError(p, k) ==
  /\ readOps[p][k].state = READING_PAYLOADS_AND_RECEIVING_TENSORS
  /\ readOps[p][k].payloads = 0
  /\ readOps[p][k].tensors = 0 \/ error[p]
  /\ PrevRead(p, k) >= READ_FINISHED

CanFinishRead(p, k) ==
  /\ readOps[p][k].state = READING_PAYLOADS_AND_RECEIVING_TENSORS
  /\ readOps[p][k].payloads = 0
  /\ readOps[p][k].tensors = 0
  /\ PrevRead(p, k) >= READ_FINISHED

CanAdvanceRead(p, k) ==
  \/ CanFlushRead(p, k) \/ CanReadDescriptor(p, k) \/ CanAskForAllocation(p, k)
  \/ CanExpectRead(p, k) \/ CanAbortRead(p, k) \/ CanReadPayloads(p, k)
  \/ CanFinishRead(p, k)

(* Those of advanceWriteOperation.                                         *)

PrevWrite(p, k) == IF k = 1 THEN WRITE_FINISHED ELSE writeOps[p][k - 1].state

CanFlushWrite(p, k) ==
  /\ writeOps[p][k].state = UNINITIALIZED
  /\ error[p]
  /\ PrevWrite(p, k) >= WRITE_FINISHED

(* Faulty variant: overtakes a message that waits for its descriptor reply.*)
CanSendMessageEarly(p, k) ==
  /\ writeOps[p][k].state = UNINITIALIZED
  /\ ~error[p]
  /\ established[p]
  /\ ~writeOps[p][k].message.missing
  /\ PrevWrite(p, k) >= WRITING_PAYLOADS_AND_READING_TARGET_DEVICES

CanSendMessage(p, k) ==
  /\ writeOps[p][k].state = UNINITIALIZED
  /\ ~error[p]
  /\ established[p]
  /\ ~writeOps[p][k].message.missing
  /\ PrevWrite(p, k) >= WRITING_PAYLOADS_AND_SENDING_TENSORS

CanAskTargetDevices(p, k) ==
  /\ writeOps[p][k].state = UNINITIALIZED
  /\ ~error[p]
  /\ established[p]
  /\ writeOps[p][k].message.missing
  /\ PrevWrite(p, k) >= WRITING_PAYLOADS_AND_READING_TARGET_DEVICES

CanAbortWrite(p, k) ==
  /\ writeOps[p][k].state = WRITING_PAYLOADS_AND_READING_TARGET_DEVICES
  /\ error[p]
  /\ writeOps[p][k].payloads = 0
  /\ writeOps[p][k].doneReadingDescriptorReply
  /\ PrevWrite(p, k) >= WRITE_FINISHED

(* Faulty variant: sends tensors on channels that an error has closed.     *)
CanSendTensorsOnError(p, k) ==
  /\ writeOps[p][k].state = WRITING_PAYLOADS_AND_READING_TARGET_DEVICES
  /\ writeOps[p][k].doneReadingDescriptorReply
  /\ PrevWrite(p, k) >= WRITING_PAYLOADS_AND_SENDING_TENSORS

CanSendTensors(p, k) ==
  /\ writeOps[p][k].state = WRITING_PAYLOADS_AND_READING_TARGET_DEVICES
  /\ ~error[p]
  /\ writeOps[p][k].doneReadingDescriptorReply
  /\ PrevWrite(p, k) >= WRITING_PAYLOADS_AND_SENDING_TENSORS

(* Faulty variant: does not wait for the previous write to be over.        *)
CanFinishWriteEarly(p, k) ==
  /\ writeOps[p][k].state = WRITING_PAYLOADS_AND_SENDING_TENSORS
  /\ writeOps[p][k].payloads = 0
  /\ writeOps[p][k].tensors = 0

CanFinishWrite(p, k) ==
  /\ writeOps[p][k].state = WRITING_PAYLOADS_AND_SENDING_TENSORS
  /\ writeOps[p][k].payloads = 0
  /\ writeOps[p][k].tensors = 0
  /\ PrevWrite(p, k) >= WRITE_FINISHED

CanAdvanceWrite(p, k) ==
  \/ CanFlushWrite(p, k) \/ CanSendMessage(p, k) \/ CanAskTargetDevices(p, k)
  \/ CanAbortWrite(p, k) \/ CanSendTensors(p, k) \/ CanFinishWrite(p, k)

(* Faulty variant: only the operation that was woken up is advanced.       *)
GoesOnToNoOther(piece, ops, finished) == piece.all /\ piece.at < Len(ops)

(* Whether the loop of advanceAllOperations or of advanceOperation goes on *)
(* to the operation after the one it is at.                                *)
GoesOn(piece, ops, finished) ==
  /\ piece.at < Len(ops)
  /\ piece.all \/ (piece.advanced /\ ops[piece.at + 1].state # finished)

-----------------------------------------------------------------------------
Kinds == {"descriptor", "payload", "tensor", "reply"}
Item == [kind : Kinds, op : Nat]

(* What is left of a task: operations to advance, or the body of a callback*)
(* of a read or of a write.                                                *)
AdvancePiece == [what : {"reads", "writes"}, at : Nat, all : BOOLEAN, advanced : BOOLEAN]
InPiece == [what : {"in"}, kind : Kinds, at : Nat, got : Shape]
OutPiece == [what : {"out"}, kind : Kinds, at : Nat]
Piece == AdvancePiece \cup InPiece \cup OutPiece

Call == [op : Nat, ok : BOOLEAN]

ReadOperation ==
  [state : UNINITIALIZED .. READ_FINISHED, doneReadingDescriptor : BOOLEAN,
   doneGettingAllocation : BOOLEAN, payloads : Int, tensors : Int, descriptor : Shape]

WriteOperation ==
  [state : UNINITIALIZED .. WRITE_FINISHED, doneReadingDescriptorReply : BOOLEAN,
   payloads : Int, tensors : Int, message : Shapes]

TypeOK ==
  /\ established \in [Pipes -> BOOLEAN]
  /\ error \in [Pipes -> BOOLEAN]
  /\ readOps \in [Pipes -> Seq(ReadOperation)]
  /\ writeOps \in [Pipes -> Seq(WriteOperation)]
  /\ nextMessageGettingAllocation \in [Pipes -> Nat]
  /\ todo \in [Pipes -> Seq(Piece)]
  /\ ins \in [Pipes -> [Streams -> Seq(Item)]]
  /\ outs \in [Pipes -> [Streams -> Seq(Item)]]
  /\ insDone \in [Pipes -> [Streams -> SUBSET Nat]]
  /\ outsDone \in [Pipes -> [Streams -> SUBSET Nat]]
  /\ readDescriptorCalled \in [Pipes -> Seq(Call)]
  /\ readCalled \in [Pipes -> Seq(Call)]
  /\ writeCalled \in [Pipes -> Seq(Call)]

-----------------------------------------------------------------------------
(* What the i-th read of a connection, or recv of a channel, expects is    *)
(* what the other end's i-th write or send carries: the same payload or    *)
(* tensor of the same message.  The two ends never tell each other; they   *)
(* agree only by the order in which each lets its operations advance.      *)
StreamsAgree ==
  \A p \in Pipes, s \in Streams :
    \A i \in 1 .. Len(ins[p][s]) :
      i <= Len(outs[Peer(p)][s]) => ins[p][s][i] = outs[Peer(p)][s][i]

(* A callback that holds the opIter of operation k is still to come: among *)
(* those of the posted reads or writes, or as the one about to run.        *)
ToCome(p, posted, done, what, kind, k) ==
  \/ \E i \in 1 .. Len(posted) \ done : posted[i] = [kind |-> kind, op |-> k]
  \/ \E n \in 1 .. Len(todo[p]) : /\ todo[p][n].what = what
                                  /\ todo[p][n].kind = kind
                                  /\ todo[p][n].at = k

(* An operation is popped, and its memory freed, only when no callback     *)
(* that holds its opIter is to come, whatever order callbacks, errors and  *)
(* close come in.                                                          *)
NoDanglingOperation ==
  \A p \in Pipes :
    /\ \A k \in 1 .. Len(readOps[p]) :
         readOps[p][k].state = READ_FINISHED =>
           /\ nextMessageGettingAllocation[p] # k
           /\ \A kind \in {"descriptor", "payload"} :
                ~ToCome(p, ins[p]["descriptor"], insDone[p]["descriptor"], "in", kind, k)
           /\ ~ToCome(p, ins[p]["channel"], insDone[p]["channel"], "in", "tensor", k)
    /\ \A k \in 1 .. Len(writeOps[p]) :
         writeOps[p][k].state = WRITE_FINISHED =>
           /\ ~ToCome(p, ins[p]["reply"], insDone[p]["reply"], "in", "reply", k)
           /\ ~ToCome(p, outs[p]["descriptor"], outsDone[p]["descriptor"], "out", "payload", k)
           /\ ~ToCome(p, outs[p]["channel"], outsDone[p]["channel"], "out", "tensor", k)

(* When the user, having been told of a message, calls read, the pipe      *)
(* expects the call for that very message, even if an error came between:  *)
(* read never throws on a user who follows the protocol.                   *)
ReadCallFindsItsMessage ==
  \A p \in Pipes : Idle(p) /\ Requested(p) < Announced(p) =>
    nextMessageGettingAllocation[p] = Requested(p) + 1

(* No wake-up is lost: when a pipe is between tasks, none of its           *)
(* operations could make a transition.  advanceOperation stops at the      *)
(* first operation that does not advance and relies on this.               *)
NothingLeftToAdvance ==
  \A p \in Pipes : Idle(p) =>
    /\ \A k \in 1 .. Len(readOps[p]) : ~CanAdvanceRead(p, k)
    /\ \A k \in 1 .. Len(writeOps[p]) : ~CanAdvanceWrite(p, k)

InOrder(called) ==
  \A i \in 1 .. Len(called) :
    /\ called[i].op = i
    /\ ~called[i].ok => \A j \in i .. Len(called) : ~called[j].ok

(* Each kind of callback is called once for each operation, in the order   *)
(* of the user's calls, and never with success after a failure (the DCHECK *)
(* of each callback on its sequence number).                               *)
CallbacksInOrder ==
  \A p \in Pipes :
    InOrder(readDescriptorCalled[p]) /\ InOrder(readCalled[p]) /\ InOrder(writeCalled[p])
=============================================================================
