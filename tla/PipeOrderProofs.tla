-------------------------- MODULE PipeOrderProofs ---------------------------
(***************************************************************************)
(* Every other task of a pipe's loop keeps what is known of the order of   *)
(* operations (OrderInv): the calls of the user, the callbacks of the      *)
(* connections and channels, and what remains of a task.                   *)
(***************************************************************************)
EXTENDS PipeTransitionProofs

USE DEF UNINITIALIZED, READING_DESCRIPTOR, ASKING_FOR_ALLOCATION,
        ASKING_FOR_ALLOCATION_FIRST_IN_LINE, READING_PAYLOADS_AND_RECEIVING_TENSORS,
        READ_FINISHED, WRITING_PAYLOADS_AND_READING_TARGET_DEVICES,
        WRITING_PAYLOADS_AND_SENDING_TENSORS, WRITE_FINISHED

-----------------------------------------------------------------------------
(* The operations of one pipe, before and after a call or a callback.      *)

\* The callback of a descriptor's read, and those of payloads and tensors, which
\* change no flag.
LEMMA DescriptorRead ==
  ASSUME NEW ops, TypedReads(ops), NEW after, TypedReads(after), NEW k \in 1 .. Len(ops),
         NEW next, NEW err \in BOOLEAN, NEW announced, TypedCalls(announced),
         NEW answered, TypedCalls(answered), ReadsOK(ops, next, err, announced, answered),
         Changed(after, ops, k), after[k].state = ops[k].state,
         after[k].doneGettingAllocation = ops[k].doneGettingAllocation,
         \/ after[k].doneReadingDescriptor = ops[k].doneReadingDescriptor
         \/ after[k].doneReadingDescriptor /\ Started(ops[k])
  PROVE  ReadsOK(after, next, err, announced, answered)
<1>1. ReadsOrdered(after)
  BY SMTT(30) DEF ReadsOK, TypedReads, Changed, ReadsOrdered, Started
<1>2. ReadFlags(after, next, err)
  BY SMTT(30) DEF ReadsOK, TypedReads, Changed, ReadFlags, Started
<1>3. ReadsCalled(after, err, announced, answered)
  BY SMTT(30) DEF ReadsOK, ReadsCalled, TypedReads, Changed
<1>4. CallsMatch(after, announced, answered)
  BY SMTT(30) DEF ReadsOK, CallsMatch, ReadsCalled, CallsOf, TypedReads, TypedCalls, Changed
<1> QED
  BY <1>1, <1>2, <1>3, <1>4, SMTT(30) DEF ReadsOK

\* The call of read that an operation expects.
LEMMA AllocatedRead ==
  ASSUME NEW ops, TypedReads(ops), NEW after, TypedReads(after), NEW k \in 1 .. Len(ops),
         NEW next, NEW err \in BOOLEAN, NEW announced, TypedCalls(announced),
         NEW answered, TypedCalls(answered), ReadsOK(ops, next, err, announced, answered),
         Changed(after, ops, k), after[k].state = ops[k].state,
         after[k].doneReadingDescriptor = ops[k].doneReadingDescriptor,
         after[k].doneGettingAllocation = TRUE, next = k
  PROVE  ReadsOK(after, 0, err, announced, answered)
<1>1. ReadsOrdered(after)
  BY SMTT(30) DEF ReadsOK, TypedReads, Changed, ReadsOrdered
<1>2. ReadFlags(after, 0, err)
  BY DEF ReadsOK, TypedReads, Changed, ReadFlags
<1>3. ReadsCalled(after, err, announced, answered)
  BY SMTT(30) DEF ReadsOK, ReadsCalled, TypedReads, Changed
<1>4. CallsMatch(after, announced, answered)
  BY SMTT(30) DEF ReadsOK, CallsMatch, ReadsCalled, CallsOf, TypedReads, TypedCalls, Changed
<1> QED
  BY <1>1, <1>2, <1>3, <1>4, Zenon DEF ReadsOK

(* One more operation.                                                     *)
Extends(after, ops, op) ==
  /\ Len(after) = Len(ops) + 1
  /\ after[Len(ops) + 1] = op
  /\ \A j \in 1 .. Len(ops) : after[j] = ops[j]

\* A call of readDescriptor adds a read.
LEMMA AddedRead ==
  ASSUME NEW ops, TypedReads(ops), NEW after, TypedReads(after),
         NEW next, NEW err \in BOOLEAN, NEW announced, TypedCalls(announced),
         NEW answered, TypedCalls(answered), ReadsOK(ops, next, err, announced, answered),
         Extends(after, ops, NewReadOperation)
  PROVE  ReadsOK(after, next, err, announced, answered)
<1>1. /\ Len(ops) \in Nat /\ Len(after) = Len(ops) + 1
      /\ after[Len(ops) + 1].state = UNINITIALIZED
      /\ after[Len(ops) + 1].doneReadingDescriptor = FALSE
      /\ after[Len(ops) + 1].doneGettingAllocation = FALSE
  BY DEF TypedReads, Extends, NewReadOperation
<1>6. \A j \in 1 .. Len(after) : j = Len(ops) + 1 \/ (j \in 1 .. Len(ops) /\ after[j] = ops[j])
  <2>1. ASSUME NEW j \in 1 .. Len(after), j # Len(ops) + 1
        PROVE  j \in 1 .. Len(ops)
    BY <1>1, <2>1
  <2> QED
    BY <2>1, Zenon DEF Extends
<1>2. ReadsOrdered(after)
  BY <1>1, <1>6 DEF ReadsOK, TypedReads, ReadsOrdered
<1>3. ReadFlags(after, next, err)
  BY <1>1, <1>6, SMTT(30) DEF ReadsOK, TypedReads, ReadFlags
<1>4. ReadsCalled(after, err, announced, answered)
  BY <1>1, <1>6, SMTT(30) DEF ReadsOK, ReadsCalled, CallsOf, TypedReads, TypedCalls
<1>5. CallsMatch(after, announced, answered)
  BY <1>1, <1>6 DEF ReadsOK, CallsMatch, ReadsCalled, CallsOf, TypedReads, TypedCalls
<1> QED
  BY <1>2, <1>3, <1>4, <1>5, Zenon DEF ReadsOK

\* The callbacks of payloads, tensors and descriptor replies.
LEMMA SameWrite ==
  ASSUME NEW ops, TypedWrites(ops), NEW after, TypedWrites(after), NEW k \in 1 .. Len(ops),
         NEW err \in BOOLEAN, NEW answered, TypedCalls(answered), WritesOK(ops, err, answered),
         Changed(after, ops, k), after[k].state = ops[k].state
  PROVE  WritesOK(after, err, answered)
<1>1. WritesOrdered(after)
  BY ZenonT(30) DEF WritesOK, WritesOrdered, TypedWrites, Changed
<1>2. WritesCalled(after, err, answered)
  BY ZenonT(30) DEF WritesOK, WritesCalled, TypedWrites, Changed
<1> QED
  BY <1>1, <1>2, Zenon DEF WritesOK

\* A call of write adds a write.
LEMMA AddedWrite ==
  ASSUME NEW ops, TypedWrites(ops), NEW after, TypedWrites(after),
         NEW err \in BOOLEAN, NEW answered, TypedCalls(answered), WritesOK(ops, err, answered),
         NEW message, Extends(after, ops, NewWriteOperation(message))
  PROVE  WritesOK(after, err, answered)
<1>1. /\ Len(ops) \in Nat /\ Len(after) = Len(ops) + 1
      /\ after[Len(ops) + 1].state = UNINITIALIZED
  BY DEF TypedWrites, Extends, NewWriteOperation
<1>6. \A j \in 1 .. Len(after) : j = Len(ops) + 1 \/ (j \in 1 .. Len(ops) /\ after[j] = ops[j])
  <2>1. ASSUME NEW j \in 1 .. Len(after), j # Len(ops) + 1
        PROVE  j \in 1 .. Len(ops)
    BY <1>1, <2>1
  <2> QED
    BY <2>1, ZenonT(30) DEF Extends
<1>2. WritesOrdered(after)
  BY <1>1, <1>6 DEF WritesOK, TypedWrites, WritesOrdered
<1>3. WritesCalled(after, err, answered)
  BY <1>1, <1>6 DEF WritesOK, WritesCalled, CallsOf, TypedWrites, TypedCalls
<1> QED
  BY <1>2, <1>3, Zenon DEF WritesOK

\* What is posted stays so.
LEMMA ItemsKept ==
  ASSUME TypeOK, TypeOK', NEW p \in Pipes, ItemsOK(p), ins'[p] = ins[p], outs'[p] = outs[p],
         Len(readOps'[p]) >= Len(readOps[p]), Len(writeOps'[p]) >= Len(writeOps[p])
  PROVE  ItemsOK(p)'
<1>1. /\ Len(readOps[p]) \in Nat /\ Len(writeOps[p]) \in Nat
      /\ Len(readOps'[p]) \in Nat /\ Len(writeOps'[p]) \in Nat
  BY OrderLengths, Zenon
<1>2. KeepsOperations(p)
  BY <1>1, SMTT(30) DEF KeepsOperations
<1>3. \A s : ins'[p][s] = ins[p][s] /\ outs'[p][s] = outs[p][s]
  BY Zenon
<1> QED
  BY <1>2, <1>3, UntouchedStreams, Zenon DEF ItemsOK

\* A piece of advanceOperation or of advanceAllOperations may be anywhere in a task.
LEMMA AdvancePieceOK ==
  ASSUME NEW piece, NEW last, NEW reads, NEW writes,
         \/ piece.what = "reads" /\ piece.at \in 1 .. reads + 1
         \/ piece.what = "writes" /\ piece.at \in 1 .. writes + 1
  PROVE  PieceOK(piece, last, reads, writes)
  BY DEF PieceOK

\* The pieces of a task that a move to another operation leaves.
LEMMA TodoAfterMove ==
  ASSUME TypeOK, TypeOK', NEW p \in Pipes, TodoOK(p), NEW what \in {"reads", "writes"},
         NEW finished,
         MovesOn(p, what, IF what = "reads" THEN readOps[p] ELSE writeOps[p], finished)
  PROVE  TodoOK(p)' /\ NoNewBody(p)
<1> DEFINE ops == IF what = "reads" THEN readOps[p] ELSE writeOps[p]
<1>1. /\ 1 \in 1 .. Len(todo[p]) /\ todo[p][1].what = what /\ todo[p][1].at \in Nat
      /\ readOps' = readOps /\ writeOps' = writeOps
      /\ Len(readOps[p]) \in Nat /\ Len(writeOps[p]) \in Nat /\ Len(todo[p]) \in Nat
  BY SMTT(30) DEF MovesOn, AdvancePiece, TypeOK
<1>2. CASE /\ GoesOn(todo[p][1], ops, finished)
           /\ UpdatedAt(todo', todo, p, 1,
                        [todo[p][1] EXCEPT !.at = @ + 1, !.advanced = FALSE], Piece)
  <2>1. /\ Len(todo'[p]) = Len(todo[p])
        /\ todo'[p][1].what = what /\ todo'[p][1].at = todo[p][1].at + 1
        /\ \A j \in 1 .. Len(todo[p]) : j # 1 => todo'[p][j] = todo[p][j]
    <3>1. todo[p][1] \in AdvancePiece
      BY ZenonT(30) DEF MovesOn
    <3> QED
      BY <1>1, <1>2, <3>1, Zenon DEF UpdatedAt, AdvancePiece
  <2>2. todo[p][1].at < Len(ops)
    BY <1>2, ZenonT(30) DEF GoesOn
  <2>3. ASSUME NEW n \in 1 .. Len(todo[p])
        PROVE  PieceOK(todo'[p][n], n = Len(todo[p]), Len(readOps[p]), Len(writeOps[p]))
    <3>1. PieceOK(todo[p][n], n = Len(todo[p]), Len(readOps[p]), Len(writeOps[p]))
      BY ZenonT(30) DEF TodoOK
    <3>2. CASE n = 1
      <4>1. \/ what = "reads" /\ todo[p][1].at + 1 \in 1 .. Len(readOps[p]) + 1
            \/ what = "writes" /\ todo[p][1].at + 1 \in 1 .. Len(writeOps[p]) + 1
        BY <1>1, <2>2
      <4> QED
        BY <2>1, <3>2, <4>1, AdvancePieceOK, Zenon
    <3>3. CASE n # 1
      BY <2>1, <3>1, <3>3, SMTT(30)
    <3> QED
      BY <3>2, <3>3, ZenonT(30)
  <2>5. TodoOK(p)'
    BY <1>1, <2>1, <2>3, SMTT(30) DEF TodoOK
  <2>4. NoNewBody(p)
    BY <2>1, SMTT(30) DEF NoNewBody
  <2> QED
    BY <2>4, <2>5, Zenon
<1>3. CASE Drops(p)
  <2>1. /\ Len(todo'[p]) = Len(todo[p]) - 1
        /\ \A n \in 1 .. Len(todo'[p]) : todo'[p][n] = todo[p][n + 1] /\ n + 1 \in 1 .. Len(todo[p])
    BY <1>3 DEF Drops
  <2>2. TodoOK(p)'
    <3>1. ASSUME NEW n \in 1 .. Len(todo'[p])
          PROVE  PieceOK(todo'[p][n], n = Len(todo'[p]), Len(readOps[p]), Len(writeOps[p]))
      <4>1. PieceOK(todo[p][n + 1], n + 1 = Len(todo[p]), Len(readOps[p]), Len(writeOps[p]))
        BY <2>1, ZenonT(30) DEF TodoOK
      <4>2. todo'[p][n] = todo[p][n + 1] /\ (n + 1 = Len(todo[p]) => n = Len(todo'[p]))
        BY <1>1, <2>1
      <4> QED
        BY <4>1, <4>2, Zenon DEF PieceOK
    <3> QED
      BY <1>1, <3>1, SMTT(30) DEF TodoOK
  <2>3. NoNewBody(p)
    BY <2>1, ZenonT(30) DEF NoNewBody
  <2> QED
    BY <2>2, <2>3, ZenonT(30)
<1> QED
  BY <1>2, <1>3, ZenonT(30) DEF MovesOn

\* A task that advances one operation.
LEMMA TodoAfterStart ==
  ASSUME NEW p \in Pipes, NEW what \in {"reads", "writes"}, NEW k,
         Starts(p, << AdvanceOperation(what, k) >>),
         Len(readOps'[p]) \in Nat, Len(writeOps'[p]) \in Nat,
         what = "reads" => k \in 1 .. Len(readOps'[p]),
         what = "writes" => k \in 1 .. Len(writeOps'[p])
  PROVE  TodoOK(p)' /\ NoNewBody(p)
<1>1. /\ Len(todo'[p]) = 1 /\ todo'[p][1].what = what /\ todo'[p][1].at = k
  BY DEF Starts, AdvanceOperation
<1>2. TodoOK(p)'
  BY <1>1 DEF TodoOK, PieceOK
<1> QED
  BY <1>1, <1>2 DEF NoNewBody

\* A step that leaves the streams alone, and every descriptor begun.
LEMMA QuietStep ==
  ASSUME OrderInv, TypeOK', NEW p \in Pipes, Elsewhere(p), ins' = ins, outs' = outs,
         Len(readOps'[p]) >= Len(readOps[p]), Len(writeOps'[p]) >= Len(writeOps[p]),
         \A k \in 1 .. Len(readOps[p]) : Started(readOps[p][k]) => Started(readOps'[p][k]),
         TodoOK(p)', NoNewBody(p), ReadInv(p)', WriteInv(p)'
  PROVE  OrderInv'
<1>1. TypeOK /\ TodoOK(p) /\ ItemsOK(p) /\ DescriptorsStarted(p)
  BY ZenonT(30) DEF OrderInv
<1>2. ins'[p] = ins[p] /\ outs'[p] = outs[p] /\ ins'[p]["descriptor"] = ins[p]["descriptor"]
  BY ZenonT(30)
<1>3. ItemsOK(p)'
  BY <1>1, <1>2, ItemsKept, ZenonT(30)
<1>4. DescriptorsStarted(p)'
  BY <1>1, <1>2, DescriptorsKept, SMTT(30)
<1> QED
  BY <1>3, <1>4, OtherPipe, SMTT(30)

-----------------------------------------------------------------------------
(* The calls of the user.                                                  *)

\* A call of write.
LEMMA WriteFromLoopOrder ==
  ASSUME OrderInv, NEW p \in Pipes, NEW message \in Shapes, WriteFromLoopEffect(p, message)
  PROVE  OrderInv'
<1>1. TypeOK /\ ReadInv(p) /\ WriteInv(p)
  BY ZenonT(30) DEF OrderInv
<1>2. /\ TypeOK'
      /\ AppendedTo(writeOps', writeOps, p, NewWriteOperation(message), WriteOperation)
      /\ Starts(p, << AdvanceOperation("writes", Len(writeOps[p]) + 1) >>)
      /\ UNCHANGED <<established, error, readOps, nextMessageGettingAllocation, ins, outs,
                     insDone, outsDone, readDescriptorCalled, readCalled, writeCalled>>
  BY ZenonT(30) DEF WriteFromLoopEffect
<1>3. /\ TypedWrites(writeOps[p]) /\ TypedWrites(writeOps'[p]) /\ TypedCalls(writeCalled[p])
      /\ error[p] \in BOOLEAN /\ TypedReads(readOps[p])
  BY <1>1, <1>2, OrderTypes, ZenonT(30)
<1>4. /\ Extends(writeOps'[p], writeOps[p], NewWriteOperation(message))
      /\ Len(writeOps'[p]) = Len(writeOps[p]) + 1
  BY <1>2, ZenonT(30) DEF AppendedTo, Extends
<1>5. /\ Len(writeOps[p]) \in Nat /\ Len(readOps[p]) \in Nat
  BY <1>3, ZenonT(30) DEF TypedReads, TypedWrites
<1>6. WriteInv(p)'
  <2>1. WritesOK(writeOps'[p], error[p], writeCalled[p])
    BY <1>1, <1>3, <1>4, AddedWrite, ZenonT(30) DEF WriteInv
  <2> QED
    BY <1>2, <2>1, ZenonT(30) DEF WriteInv
<1>7. ReadInv(p)'
  <2>1. KeepsReads(p)
    BY <1>2, ZenonT(30) DEF KeepsReads
  <2> QED
    BY <1>1, <1>2, <2>1, ReadsKept, ZenonT(30)
<1>8. TodoOK(p)' /\ NoNewBody(p)
  <2>1. /\ Len(readOps'[p]) \in Nat /\ Len(writeOps'[p]) \in Nat
        /\ Len(writeOps[p]) + 1 \in 1 .. Len(writeOps'[p])
    BY <1>4, <1>5
  <2> QED
    BY <1>1, <1>2, <1>4, <2>1, TodoAfterStart, Zenon
<1>9. Elsewhere(p)
  BY <1>2, ZenonT(30) DEF Elsewhere, Starts, AppendedTo
<1>10. Len(readOps'[p]) >= Len(readOps[p]) /\ Len(writeOps'[p]) >= Len(writeOps[p])
  BY <1>2, <1>4, <1>5, SMTT(30)
<1>11. \A j \in 1 .. Len(readOps[p]) : Started(readOps[p][j]) => Started(readOps'[p][j])
  BY <1>2, Zenon
<1> QED
  BY <1>2, <1>6, <1>7, <1>8, <1>9, <1>10, <1>11, QuietStep, Zenon

\* A call of readDescriptor.
LEMMA ReadDescriptorFromLoopOrder ==
  ASSUME OrderInv, NEW p \in Pipes, ReadDescriptorFromLoopEffect(p)
  PROVE  OrderInv'
<1>1. TypeOK /\ ReadInv(p) /\ WriteInv(p)
  BY ZenonT(30) DEF OrderInv
<1>2. /\ TypeOK'
      /\ AppendedTo(readOps', readOps, p, NewReadOperation, ReadOperation)
      /\ Starts(p, << AdvanceOperation("reads", Len(readOps[p]) + 1) >>)
      /\ UNCHANGED <<established, error, writeOps, nextMessageGettingAllocation, ins, outs,
                     insDone, outsDone, readDescriptorCalled, readCalled, writeCalled>>
  BY ZenonT(30) DEF ReadDescriptorFromLoopEffect
<1>3. /\ TypedReads(readOps[p]) /\ TypedReads(readOps'[p]) /\ TypedCalls(readDescriptorCalled[p])
      /\ TypedCalls(readCalled[p]) /\ error[p] \in BOOLEAN /\ TypedWrites(writeOps[p])
  BY <1>1, <1>2, OrderTypes, ZenonT(30)
<1>4. /\ Extends(readOps'[p], readOps[p], NewReadOperation)
      /\ Len(readOps'[p]) = Len(readOps[p]) + 1
      /\ \A k \in 1 .. Len(readOps[p]) : readOps'[p][k] = readOps[p][k]
  BY <1>2, ZenonT(30) DEF AppendedTo, Extends
<1>5. /\ Len(writeOps[p]) \in Nat /\ Len(readOps[p]) \in Nat
  BY <1>3, SMTT(30) DEF TypedReads, TypedWrites
<1>6. ReadInv(p)'
  <2>1. ReadsOK(readOps'[p], nextMessageGettingAllocation[p], error[p],
                readDescriptorCalled[p], readCalled[p])
    BY <1>1, <1>3, <1>4, AddedRead, ZenonT(30) DEF ReadInv
  <2> QED
    BY <1>2, <2>1, SMTT(30) DEF ReadInv
<1>7. WriteInv(p)'
  <2>1. KeepsWrites(p)
    BY <1>2, ZenonT(30) DEF KeepsWrites
  <2> QED
    BY <1>1, <1>2, <2>1, WritesKept, ZenonT(30)
<1>8. TodoOK(p)' /\ NoNewBody(p)
  <2>1. /\ Len(readOps'[p]) \in Nat /\ Len(writeOps'[p]) \in Nat
        /\ Len(readOps[p]) + 1 \in 1 .. Len(readOps'[p])
    BY <1>4, <1>5, SMTT(30)
  <2> QED
    BY <1>1, <1>2, <1>4, <2>1, TodoAfterStart, ZenonT(30)
<1>9. Elsewhere(p)
  BY <1>2, ZenonT(30) DEF Elsewhere, Starts, AppendedTo
<1>10. Len(readOps'[p]) >= Len(readOps[p]) /\ Len(writeOps'[p]) >= Len(writeOps[p])
  BY <1>2, <1>4, <1>5, SMTT(30)
<1>11. \A k \in 1 .. Len(readOps[p]) : Started(readOps[p][k]) => Started(readOps'[p][k])
  BY <1>4, SMTT(30)
<1> QED
  BY <1>2, <1>6, <1>7, <1>8, <1>9, <1>10, <1>11, QuietStep, Zenon

\* A call of read.
LEMMA ReadFromLoopOrder ==
  ASSUME OrderInv, NEW p \in Pipes, NEW k \in 1 .. Len(readOps[p]), ReadFromLoopEffect(p, k)
  PROVE  OrderInv'
<1> DEFINE op == [readOps[p][k] EXCEPT !.doneGettingAllocation = TRUE]
<1>1. TypeOK /\ ReadInv(p) /\ WriteInv(p)
  BY ZenonT(30) DEF OrderInv
<1>3. /\ TypeOK' /\ nextMessageGettingAllocation[p] = k
      /\ readOps[p][k] \in ReadOperation
      /\ UpdatedAt(readOps', readOps, p, k, op, ReadOperation)
      /\ nextMessageGettingAllocation' = [nextMessageGettingAllocation EXCEPT ![p] = 0]
      /\ Starts(p, << AdvanceOperation("reads", k) >>)
      /\ UNCHANGED <<established, error, writeOps, ins, outs, insDone, outsDone,
                     readDescriptorCalled, readCalled, writeCalled>>
  BY ZenonT(30) DEF ReadFromLoopEffect
<1>4. /\ op.state = readOps[p][k].state /\ op.doneGettingAllocation = TRUE
      /\ op.doneReadingDescriptor = readOps[p][k].doneReadingDescriptor
  BY DEF ReadOperation
<1> HIDE DEF op
<1>5. Changed(readOps'[p], readOps[p], k) /\ readOps'[p][k] = op /\ Len(readOps'[p]) = Len(readOps[p])
  BY <1>3, SMTT(30) DEF UpdatedAt, Changed
<1>6. nextMessageGettingAllocation'[p] = 0
  BY <1>3, ZenonT(30) DEF TypeOK
<1>7. /\ TypedReads(readOps[p]) /\ TypedReads(readOps'[p]) /\ TypedCalls(readDescriptorCalled[p])
      /\ TypedCalls(readCalled[p]) /\ error[p] \in BOOLEAN /\ TypedWrites(writeOps[p])
  BY <1>1, <1>3, OrderTypes, ZenonT(30)
<1>8. /\ Len(writeOps[p]) \in Nat /\ Len(readOps[p]) \in Nat
  BY <1>7, SMTT(30) DEF TypedReads, TypedWrites
<1>9. ReadInv(p)'
  <2>1. ReadsOK(readOps'[p], 0, error[p], readDescriptorCalled[p], readCalled[p])
    <3>1. ReadsOK(readOps[p], k, error[p], readDescriptorCalled[p], readCalled[p])
      BY <1>1, <1>3, SMTT(30) DEF ReadInv
    <3> QED
      BY <1>1, <1>3, <1>4, <1>5, <1>7, <3>1, AllocatedRead, ZenonT(30)
  <2> QED
    BY <1>3, <1>6, <2>1, SMTT(30) DEF ReadInv
<1>10. WriteInv(p)'
  <2>1. KeepsWrites(p)
    BY <1>3, ZenonT(30) DEF KeepsWrites
  <2> QED
    BY <1>1, <1>3, <2>1, WritesKept, ZenonT(30)
<1>11. TodoOK(p)' /\ NoNewBody(p)
  <2>1. /\ Len(readOps'[p]) \in Nat /\ Len(writeOps'[p]) \in Nat /\ k \in 1 .. Len(readOps'[p])
    BY <1>5, <1>8
  <2> QED
    BY <1>1, <1>3, <2>1, TodoAfterStart, ZenonT(30)
<1>12. Elsewhere(p)
  <2>1. \A q \in Pipes \ {p} : nextMessageGettingAllocation'[q] = nextMessageGettingAllocation[q]
    BY <1>3, ZenonT(30) DEF TypeOK
  <2> QED
    BY <1>3, <2>1, SMTT(30) DEF Elsewhere, Starts, UpdatedAt
<1>13. \A j \in 1 .. Len(readOps[p]) : Started(readOps[p][j]) => Started(readOps'[p][j])
  BY <1>4, <1>5, ZenonT(30) DEF Changed, Started
<1>14. Len(readOps'[p]) >= Len(readOps[p]) /\ Len(writeOps'[p]) >= Len(writeOps[p])
  BY <1>3, <1>5, <1>8, SMTT(30)
<1> QED
  BY <1>3, <1>9, <1>10, <1>11, <1>12, <1>13, <1>14, QuietStep, Zenon

-----------------------------------------------------------------------------
(* The bodies of the callbacks.                                            *)

\* The callback of a read of a descriptor, a payload or a tensor.
LEMMA ReadBodyOrder ==
  ASSUME OrderInv, TypeOK', NEW p \in Pipes, NEW k \in 1 .. Len(readOps[p]), NEW kind, NEW op,
         ReadBody(p, k, kind, op), op.state = readOps[p][k].state,
         op.doneGettingAllocation = readOps[p][k].doneGettingAllocation,
         \/ op.doneReadingDescriptor = readOps[p][k].doneReadingDescriptor
         \/ op.doneReadingDescriptor /\ Started(readOps[p][k])
  PROVE  OrderInv'
<1>1. TypeOK /\ ReadInv(p) /\ WriteInv(p)
  BY ZenonT(30) DEF OrderInv
<1>2. /\ Starts(p, << AdvanceOperation("reads", k) >>)
      /\ UpdatedAt(readOps', readOps, p, k, op, ReadOperation)
      /\ UNCHANGED <<established, error, writeOps, nextMessageGettingAllocation, ins, outs,
                     insDone, outsDone, readDescriptorCalled, readCalled, writeCalled>>
  BY ZenonT(30) DEF ReadBody
<1>3. Changed(readOps'[p], readOps[p], k) /\ readOps'[p][k] = op /\ Len(readOps'[p]) = Len(readOps[p])
  BY <1>2, SMTT(30) DEF UpdatedAt, Changed
<1>4. /\ TypedReads(readOps[p]) /\ TypedReads(readOps'[p]) /\ TypedCalls(readDescriptorCalled[p])
      /\ TypedCalls(readCalled[p]) /\ error[p] \in BOOLEAN /\ TypedWrites(writeOps[p])
  BY <1>1, OrderTypes, ZenonT(30)
<1>5. /\ Len(writeOps[p]) \in Nat /\ Len(readOps[p]) \in Nat
  BY DEF TypedReads, TypedWrites
<1>6. ReadInv(p)'
  <2>1. ReadsOK(readOps'[p], nextMessageGettingAllocation[p], error[p],
                readDescriptorCalled[p], readCalled[p])
    <3>1. ReadsOK(readOps[p], nextMessageGettingAllocation[p], error[p],
                  readDescriptorCalled[p], readCalled[p])
      BY <1>1, ZenonT(30) DEF ReadInv
    <3> QED
      BY <1>3, <1>4, <3>1, DescriptorRead, SMTT(30)
  <2> QED
    BY <1>2, <2>1, SMTT(30) DEF ReadInv
<1>7. WriteInv(p)'
  <2>1. KeepsWrites(p)
    BY <1>2, ZenonT(30) DEF KeepsWrites
  <2> QED
    BY <1>1, <2>1, WritesKept, SMTT(30)
<1>8. TodoOK(p)' /\ NoNewBody(p)
  <2>1. /\ Len(readOps'[p]) \in Nat /\ Len(writeOps'[p]) \in Nat /\ k \in 1 .. Len(readOps'[p])
    BY <1>3, <1>5, SMTT(30)
  <2> QED
    BY <1>2, <1>4, <2>1, TodoAfterStart, ZenonT(30)
<1>9. Elsewhere(p)
  BY <1>2, SMTT(30) DEF Elsewhere, Starts, UpdatedAt
<1>10. \A j \in 1 .. Len(readOps[p]) : Started(readOps[p][j]) => Started(readOps'[p][j])
  BY <1>3, SMTT(30) DEF Changed, Started, TypedReads
<1>11. Len(readOps'[p]) >= Len(readOps[p]) /\ Len(writeOps'[p]) >= Len(writeOps[p])
  BY <1>2, <1>3, <1>5, SMTT(30)
<1> QED
  BY <1>2, <1>6, <1>7, <1>8, <1>9, <1>10, <1>11, QuietStep, Zenon

\* The callback of a write of a payload or a tensor, or of the read of a reply.
LEMMA WriteBodyOrder ==
  ASSUME OrderInv, TypeOK', NEW p \in Pipes, NEW k \in 1 .. Len(writeOps[p]), NEW what, NEW kind,
         NEW op, WriteBody(p, k, what, kind, op), op.state = writeOps[p][k].state
  PROVE  OrderInv'
<1>1. TypeOK /\ ReadInv(p) /\ WriteInv(p)
  BY ZenonT(30) DEF OrderInv
<1>2. /\ Starts(p, << AdvanceOperation("writes", k) >>)
      /\ UpdatedAt(writeOps', writeOps, p, k, op, WriteOperation)
      /\ UNCHANGED <<established, error, readOps, nextMessageGettingAllocation, ins, outs,
                     insDone, outsDone, readDescriptorCalled, readCalled, writeCalled>>
  BY ZenonT(30) DEF WriteBody
<1>3. Changed(writeOps'[p], writeOps[p], k) /\ writeOps'[p][k] = op /\ Len(writeOps'[p]) = Len(writeOps[p])
  BY <1>2, SMTT(30) DEF UpdatedAt, Changed
<1>4. /\ TypedWrites(writeOps[p]) /\ TypedWrites(writeOps'[p]) /\ TypedCalls(writeCalled[p])
      /\ error[p] \in BOOLEAN /\ TypedReads(readOps[p])
  BY <1>1, OrderTypes, ZenonT(30)
<1>5. /\ Len(writeOps[p]) \in Nat /\ Len(readOps[p]) \in Nat
  BY <1>4, ZenonT(30) DEF TypedReads, TypedWrites
<1>6. WriteInv(p)'
  <2>1. WritesOK(writeOps'[p], error[p], writeCalled[p])
    <3>1. WritesOK(writeOps[p], error[p], writeCalled[p])
      BY <1>1, ZenonT(30) DEF WriteInv
    <3> QED
      BY <1>3, <1>4, <3>1, SameWrite, SMTT(30)
  <2> QED
    BY <1>2, <2>1, SMTT(30) DEF WriteInv
<1>7. ReadInv(p)'
  <2>1. KeepsReads(p)
    BY <1>2, ZenonT(30) DEF KeepsReads
  <2> QED
    BY <1>1, <2>1, ReadsKept, SMTT(30)
<1>8. TodoOK(p)' /\ NoNewBody(p)
  <2>1. /\ Len(readOps'[p]) \in Nat /\ Len(writeOps'[p]) \in Nat /\ k \in 1 .. Len(writeOps'[p])
    BY <1>3, <1>5, SMTT(30)
  <2> QED
    BY <1>2, <1>3, <2>1, TodoAfterStart, ZenonT(30)
<1>9. Elsewhere(p)
  BY <1>2, SMTT(30) DEF Elsewhere, Starts, UpdatedAt
<1>10. Len(readOps'[p]) >= Len(readOps[p]) /\ Len(writeOps'[p]) >= Len(writeOps[p])
  BY <1>2, <1>3, <1>5
<1>11. \A j \in 1 .. Len(readOps[p]) : Started(readOps[p][j]) => Started(readOps'[p][j])
  BY <1>2, Zenon
<1> QED
  BY <1>2, <1>6, <1>7, <1>8, <1>9, <1>10, <1>11, QuietStep, Zenon

\* The descriptor of a message was read.
LEMMA DoneReadingDescriptorOrder ==
  ASSUME OrderInv, NEW p \in Pipes, NEW k \in 1 .. Len(readOps[p]),
         DoneReadingDescriptorEffect(p, k)
  PROVE  OrderInv'
<1> DEFINE op == [readOps[p][k] EXCEPT !.doneReadingDescriptor = TRUE,
                                      !.descriptor = IF error[p] THEN @ ELSE todo[p][1].got]
<1>1. TypeOK /\ TodoOK(p) /\ DescriptorsStarted(p)
  BY ZenonT(30) DEF OrderInv
<1>2. /\ 1 \in 1 .. Len(todo[p]) /\ todo[p][1].what = "in" /\ todo[p][1].kind = "descriptor"
  BY ZenonT(30) DEF DoneReadingDescriptorEffect, ReadBody, InPiece
<1>3. todo[p][1].at = k
  BY ZenonT(30) DEF DoneReadingDescriptorEffect, ReadBody
<1>4. TypeOK' /\ ReadBody(p, k, "descriptor", op)
  BY <1>3, ZenonT(30) DEF DoneReadingDescriptorEffect
<1>5. /\ op.state = readOps[p][k].state
      /\ op.doneGettingAllocation = readOps[p][k].doneGettingAllocation
      /\ op.doneReadingDescriptor
  <2>1. readOps[p] \in Seq(ReadOperation)
    BY <1>1, Zenon DEF TypeOK
  <2>2. readOps[p][k] \in ReadOperation
    BY <2>1
  <2> QED
    BY <2>2, ZenonT(30) DEF ReadOperation
<1>6. Started(readOps[p][k])
  BY <1>1, <1>2, <1>3, ZenonT(30) DEF DescriptorsStarted
<1> QED
  BY <1>1, <1>3, <1>4, <1>5, <1>6, ReadBodyOrder, ZenonT(30)

\* A payload was read.
LEMMA DoneReadingPayloadOrder ==
  ASSUME OrderInv, NEW p \in Pipes, NEW k \in 1 .. Len(readOps[p]),
         DoneReadingPayloadEffect(p, k)
  PROVE  OrderInv'
<1> DEFINE op == [readOps[p][k] EXCEPT !.payloads = @ - 1]
<1>1. TypeOK /\ TodoOK(p) /\ DescriptorsStarted(p)
  BY Zenon DEF OrderInv
<1>2. /\ 1 \in 1 .. Len(todo[p]) /\ todo[p][1].what = "in" /\ todo[p][1].kind = "payload"
  BY ZenonT(30) DEF DoneReadingPayloadEffect, ReadBody, InPiece
<1>3. todo[p][1].at = k
  BY ZenonT(30) DEF DoneReadingPayloadEffect, ReadBody
<1>4. TypeOK' /\ ReadBody(p, k, "payload", op)
  BY <1>3, ZenonT(30) DEF DoneReadingPayloadEffect
<1>5. /\ op.state = readOps[p][k].state
      /\ op.doneGettingAllocation = readOps[p][k].doneGettingAllocation
      /\ op.doneReadingDescriptor = readOps[p][k].doneReadingDescriptor
  BY <1>4, ZenonT(30) DEF ReadBody, ReadOperation
<1> QED
  BY <1>1, <1>3, <1>4, <1>5, ReadBodyOrder, ZenonT(30)

\* A tensor was received.
LEMMA DoneReceivingTensorOrder ==
  ASSUME OrderInv, NEW p \in Pipes, NEW k \in 1 .. Len(readOps[p]),
         DoneReceivingTensorEffect(p, k)
  PROVE  OrderInv'
<1> DEFINE op == [readOps[p][k] EXCEPT !.tensors = @ - 1]
<1>1. TypeOK /\ TodoOK(p) /\ DescriptorsStarted(p)
  BY Zenon DEF OrderInv
<1>2. /\ 1 \in 1 .. Len(todo[p]) /\ todo[p][1].what = "in" /\ todo[p][1].kind = "tensor"
  BY ZenonT(30) DEF DoneReceivingTensorEffect, ReadBody, InPiece
<1>3. todo[p][1].at = k
  BY ZenonT(30) DEF DoneReceivingTensorEffect, ReadBody
<1>4. TypeOK' /\ ReadBody(p, k, "tensor", op)
  BY <1>3, ZenonT(30) DEF DoneReceivingTensorEffect
<1>5. /\ op.state = readOps[p][k].state
      /\ op.doneGettingAllocation = readOps[p][k].doneGettingAllocation
      /\ op.doneReadingDescriptor = readOps[p][k].doneReadingDescriptor
  BY <1>4, ZenonT(30) DEF ReadBody, ReadOperation
<1> QED
  BY <1>1, <1>3, <1>4, <1>5, ReadBodyOrder, ZenonT(30)

\* A descriptor reply was read.
LEMMA DoneReadingDescriptorReplyOrder ==
  ASSUME OrderInv, NEW p \in Pipes, NEW k \in 1 .. Len(writeOps[p]),
         DoneReadingDescriptorReplyEffect(p, k)
  PROVE  OrderInv'
<1> DEFINE op == [writeOps[p][k] EXCEPT !.doneReadingDescriptorReply = TRUE]
<1>1. TypeOK /\ TodoOK(p)
  BY ZenonT(30) DEF OrderInv
<1>2. /\ 1 \in 1 .. Len(todo[p]) /\ todo[p][1].what = "in" /\ todo[p][1].kind = "reply"
  BY ZenonT(30) DEF DoneReadingDescriptorReplyEffect, WriteBody, InPiece
<1>3. todo[p][1].at = k
  BY ZenonT(30) DEF DoneReadingDescriptorReplyEffect, WriteBody
<1>4. TypeOK' /\ WriteBody(p, k, "in", "reply", op)
  BY <1>3, ZenonT(30) DEF DoneReadingDescriptorReplyEffect
<1>5. op.state = writeOps[p][k].state
  BY <1>4, ZenonT(30) DEF WriteBody, WriteOperation
<1> QED
  BY <1>1, <1>3, <1>4, <1>5, WriteBodyOrder, ZenonT(30)

\* A payload was written.
LEMMA DoneWritingPayloadOrder ==
  ASSUME OrderInv, NEW p \in Pipes, NEW k \in 1 .. Len(writeOps[p]),
         DoneWritingPayloadEffect(p, k)
  PROVE  OrderInv'
<1> DEFINE op == [writeOps[p][k] EXCEPT !.payloads = @ - 1]
<1>1. TypeOK /\ TodoOK(p)
  BY Zenon DEF OrderInv
<1>2. /\ 1 \in 1 .. Len(todo[p]) /\ todo[p][1].what = "out" /\ todo[p][1].kind = "payload"
  BY ZenonT(30) DEF DoneWritingPayloadEffect, WriteBody, InPiece
<1>3. todo[p][1].at = k
  BY ZenonT(30) DEF DoneWritingPayloadEffect, WriteBody
<1>4. TypeOK' /\ WriteBody(p, k, "out", "payload", op)
  BY <1>3, ZenonT(30) DEF DoneWritingPayloadEffect
<1>5. op.state = writeOps[p][k].state
  BY <1>4, ZenonT(30) DEF WriteBody, WriteOperation
<1> QED
  BY <1>1, <1>3, <1>4, <1>5, WriteBodyOrder, ZenonT(30)

\* A tensor was sent.
LEMMA DoneSendingTensorOrder ==
  ASSUME OrderInv, NEW p \in Pipes, NEW k \in 1 .. Len(writeOps[p]),
         DoneSendingTensorEffect(p, k)
  PROVE  OrderInv'
<1> DEFINE op == [writeOps[p][k] EXCEPT !.tensors = @ - 1]
<1>1. TypeOK /\ TodoOK(p)
  BY Zenon DEF OrderInv
<1>2. /\ 1 \in 1 .. Len(todo[p]) /\ todo[p][1].what = "out" /\ todo[p][1].kind = "tensor"
  BY ZenonT(30) DEF DoneSendingTensorEffect, WriteBody, InPiece
<1>3. todo[p][1].at = k
  BY ZenonT(30) DEF DoneSendingTensorEffect, WriteBody
<1>4. TypeOK' /\ WriteBody(p, k, "out", "tensor", op)
  BY <1>3, ZenonT(30) DEF DoneSendingTensorEffect
<1>5. op.state = writeOps[p][k].state
  BY <1>4, ZenonT(30) DEF WriteBody, WriteOperation
<1> QED
  BY <1>1, <1>3, <1>4, <1>5, WriteBodyOrder, ZenonT(30)

-----------------------------------------------------------------------------
(* Tasks that begin with all operations.                                   *)

(* The bodies that a task is begun with.                                   *)
BodyOK(p, body) ==
  /\ Len(body) = 0 \/ Len(body) = 1
  /\ Len(body) = 1 =>
       /\ PieceOK(body[1], TRUE, Len(readOps[p]), Len(writeOps[p]))
       /\ body[1].what = "in" /\ body[1].kind = "descriptor" => Started(readOps[p][body[1].at])

\* A task that advances all operations before such a body.
LEMMA TodoAfterAll ==
  ASSUME OrderInv, NEW p \in Pipes, NEW body, BodyOK(p, body), DescriptorsStarted(p),
         Len(readCalled[p]) + 1 \in 1 .. Len(readOps[p]) + 1,
         Len(writeCalled[p]) + 1 \in 1 .. Len(writeOps[p]) + 1,
         AdvancesAll(p, body), readOps' = readOps, writeOps' = writeOps, ins' = ins
  PROVE  TodoOK(p)' /\ DescriptorsStarted(p)'
<1>1. /\ Len(body) = 0 \/ Len(body) = 1
      /\ Len(todo'[p]) = 2 + Len(body)
      /\ todo'[p][1].what = "reads" /\ todo'[p][1].at = Len(readCalled[p]) + 1
      /\ todo'[p][2].what = "writes" /\ todo'[p][2].at = Len(writeCalled[p]) + 1
      /\ Len(body) = 1 => todo'[p][3] = body[1]
  <2>1. /\ Len(todo'[p]) = 2 + Len(body)
        /\ todo'[p][1].what = "reads" /\ todo'[p][1].at = Len(readCalled[p]) + 1
        /\ todo'[p][2].what = "writes" /\ todo'[p][2].at = Len(writeCalled[p]) + 1
        /\ \A i \in 1 .. Len(body) : todo'[p][2 + i] = body[i]
    BY DEF AdvancesAll
  <2>2. Len(body) = 1 => 1 \in 1 .. Len(body) /\ 2 + 1 = 3
    BY SMTT(30)
  <2>3. Len(body) = 1 => todo'[p][2 + 1] = body[1]
    BY <2>1, <2>2, SMTT(30)
  <2> QED
    BY <2>1, <2>2, <2>3, SMTT(30) DEF BodyOK
<1>2. \A n \in 1 .. Len(todo'[p]) : n = 1 \/ n = 2 \/ (n = 3 /\ Len(body) = 1)
  <2>1. CASE Len(body) = 0
    <3>1. Len(todo'[p]) = 2
      BY <1>1, <2>1
    <3> QED
      BY <3>1
  <2>2. CASE Len(body) = 1
    <3>1. Len(todo'[p]) = 3
      BY <1>1, <2>2
    <3> QED
      BY <2>2, <3>1
  <2> QED
    BY <1>1, <2>1, <2>2, SMTT(30)
<1>3. Len(body) = 1 => /\ PieceOK(body[1], TRUE, Len(readOps[p]), Len(writeOps[p]))
                       /\ body[1].what = "in" /\ body[1].kind = "descriptor" =>
                            Started(readOps[p][body[1].at])
  BY <1>1, Zenon DEF BodyOK
<1>4. TodoOK(p)'
  <2>1. ASSUME NEW n \in 1 .. Len(todo'[p])
        PROVE  PieceOK(todo'[p][n], n = Len(todo'[p]), Len(readOps[p]), Len(writeOps[p]))
    <3>1. CASE n = 1
      <4>1. todo'[p][1].what = "reads" /\ todo'[p][1].at \in 1 .. Len(readOps[p]) + 1
        BY <1>1
      <4> QED
        BY <3>1, <4>1, AdvancePieceOK, Zenon
    <3>2. CASE n = 2
      <4>1. todo'[p][2].what = "writes" /\ todo'[p][2].at \in 1 .. Len(writeOps[p]) + 1
        BY <1>1
      <4> QED
        BY <3>2, <4>1, AdvancePieceOK, Zenon
    <3>3. CASE n = 3 /\ Len(body) = 1
      <4>1. Len(todo'[p]) = 3 /\ todo'[p][3] = body[1]
        BY <1>1, <3>3
      <4> QED
        BY <1>3, <3>3, <4>1, Zenon DEF PieceOK
    <3> QED
      BY <1>2, <3>1, <3>2, <3>3, SMTT(30)
  <2> QED
    BY <2>1, SMTT(30) DEF TodoOK
<1>5. ASSUME NEW n \in 1 .. Len(todo'[p]), todo'[p][n].what = "in", todo'[p][n].kind = "descriptor"
      PROVE  Started(readOps[p][todo'[p][n].at])
  BY <1>1, <1>2, <1>3, <1>5, ZenonT(30)
<1>6. \A i \in 1 .. Len(ins[p]["descriptor"]) : Started(readOps[p][ins[p]["descriptor"][i].op])
  BY ZenonT(30) DEF DescriptorsStarted
<1> QED
  BY <1>1, <1>4, <1>5, <1>6, ZenonT(30) DEF DescriptorsStarted, Started

\* A task that is such a body.
LEMMA TodoAfterBody ==
  ASSUME OrderInv, NEW p \in Pipes, NEW body, BodyOK(p, body), DescriptorsStarted(p),
         Starts(p, body), readOps' = readOps, writeOps' = writeOps, ins' = ins
  PROVE  TodoOK(p)' /\ DescriptorsStarted(p)'
<1>1. todo'[p] = body /\ (Len(body) = 0 \/ Len(body) = 1)
  BY ZenonT(30) DEF Starts, BodyOK
<1>2. \A n \in 1 .. Len(body) :
        /\ PieceOK(body[n], n = Len(body), Len(readOps[p]), Len(writeOps[p]))
        /\ body[n].what = "in" /\ body[n].kind = "descriptor" => Started(readOps[p][body[n].at])
  <2>1. ASSUME NEW n \in 1 .. Len(body) PROVE n = 1 /\ Len(body) = 1
    <3>1. CASE Len(body) = 0
      BY <3>1
    <3>2. CASE Len(body) = 1
      BY <3>2, SMTT(30)
    <3> QED
      BY <1>1, <3>1, <3>2, SMTT(30)
  <2> QED
    BY <2>1, ZenonT(30) DEF BodyOK, PieceOK
<1>3. TodoOK(p)'
  BY <1>1, <1>2, SMTT(30) DEF TodoOK
<1>4. \A i \in 1 .. Len(ins[p]["descriptor"]) : Started(readOps[p][ins[p]["descriptor"][i].op])
  BY ZenonT(30) DEF DescriptorsStarted
<1> QED
  BY <1>1, <1>2, <1>3, <1>4, Zenon DEF DescriptorsStarted, Started

\* Callbacks are called of operations that exist.
LEMMA CalledOperations ==
  ASSUME TypeOK, NEW p \in Pipes, ReadInv(p), WriteInv(p)
  PROVE  /\ Len(readCalled[p]) + 1 \in 1 .. Len(readOps[p]) + 1
         /\ Len(writeCalled[p]) + 1 \in 1 .. Len(writeOps[p]) + 1
<1>1. /\ Len(readCalled[p]) \in Nat /\ Len(writeCalled[p]) \in Nat
      /\ Len(readOps[p]) \in Nat /\ Len(writeOps[p]) \in Nat
  BY OrderLengths, ZenonT(30)
<1>2. Len(readCalled[p]) <= Len(readOps[p]) /\ Len(writeCalled[p]) <= Len(writeOps[p])
  BY ZenonT(30) DEF ReadInv, WriteInv, ReadsOK, WritesOK, ReadsCalled, WritesCalled, CallsOf
<1> QED
  BY <1>1, <1>2, SMTT(30)

\* A callback sets the error it carries, and has its body run.
LEMMA SetsErrorOrder ==
  ASSUME OrderInv, TypeOK', NEW p \in Pipes, NEW ok \in BOOLEAN, NEW body, BodyOK(p, body),
         SetsError(p, ok, body),
         UNCHANGED <<established, readOps, writeOps, nextMessageGettingAllocation, ins, outs,
                     readDescriptorCalled, readCalled, writeCalled>>,
         \A q \in Pipes \ {p} : insDone'[q] = insDone[q] /\ outsDone'[q] = outsDone[q]
  PROVE  OrderInv'
<1>1. TypeOK /\ ItemsOK(p) /\ DescriptorsStarted(p) /\ ReadInv(p) /\ WriteInv(p)
  BY ZenonT(30) DEF OrderInv
<1>2. /\ Len(readCalled[p]) + 1 \in 1 .. Len(readOps[p]) + 1
      /\ Len(writeCalled[p]) + 1 \in 1 .. Len(writeOps[p]) + 1
  BY <1>1, CalledOperations, SMTT(30)
<1>3. /\ TodoOK(p)' /\ DescriptorsStarted(p)'
      /\ error[p] => error'[p]
      /\ \A q \in Pipes \ {p} : error'[q] = error[q] /\ todo'[q] = todo[q]
  <2>1. CASE Starts(p, body) /\ UNCHANGED error
    <3>1. TodoOK(p)' /\ DescriptorsStarted(p)'
      BY <1>1, <2>1, TodoAfterBody, SMTT(30)
    <3> QED
      BY <2>1, <3>1, SMTT(30) DEF Starts
  <2>2. CASE /\ ~error[p] /\ error' = [error EXCEPT ![p] = TRUE]
             /\ AdvancesAll(p, body)
    <3>1. TodoOK(p)' /\ DescriptorsStarted(p)'
      BY <1>1, <1>2, <2>2, TodoAfterAll, ZenonT(30)
    <3>2. error \in [Pipes -> BOOLEAN]
      BY <1>1, ZenonT(30) DEF TypeOK
    <3> QED
      BY <2>2, <3>1, <3>2, SMTT(30) DEF AdvancesAll
  <2> QED
    BY <2>1, <2>2, ZenonT(30) DEF SetsError
<1>4. KeepsReads(p) /\ KeepsWrites(p) /\ KeepsLengths(p)
  BY <1>3, SMTT(30) DEF KeepsReads, KeepsWrites, KeepsLengths
<1>5. ReadInv(p)' /\ WriteInv(p)' /\ ItemsOK(p)'
  BY <1>1, <1>4, ReadsKept, WritesKept, ItemsStay, SMTT(30)
<1>6. Elsewhere(p)
  BY <1>3, ZenonT(30) DEF Elsewhere
<1> QED
  BY <1>3, <1>5, <1>6, OtherPipe, SMTT(30)

\* A call of close.
LEMMA CloseFromLoopOrder ==
  ASSUME OrderInv, NEW p \in Pipes, CloseFromLoopEffect(p)
  PROVE  OrderInv'
<1>1. TypeOK
  BY ZenonT(30) DEF OrderInv
<1>2. /\ TypeOK'
      /\ SetsError(p, FALSE, << >>)
      /\ UNCHANGED <<established, readOps, writeOps, nextMessageGettingAllocation, ins, outs,
                     insDone, outsDone, readDescriptorCalled, readCalled, writeCalled>>
  BY <1>1, Zenon DEF CloseFromLoopEffect
<1>3. BodyOK(p, << >>)
  BY DEF BodyOK
<1> QED
  BY <1>2, <1>3, SetsErrorOrder, Zenon

\* The end of the handshake.
LEMMA EstablishOrder ==
  ASSUME OrderInv, NEW p \in Pipes, EstablishEffect(p)
  PROVE  OrderInv'
<1>1. /\ TypeOK
      /\ Len(readCalled[p]) + 1 \in 1 .. Len(readOps[p]) + 1
      /\ Len(writeCalled[p]) + 1 \in 1 .. Len(writeOps[p]) + 1
      /\ ItemsOK(p) /\ DescriptorsStarted(p) /\ ReadInv(p) /\ WriteInv(p)
  BY CalledOperations, ZenonT(30) DEF OrderInv
<1>2. /\ TypeOK'
      /\ established' = [established EXCEPT ![p] = TRUE]
      /\ AdvancesAll(p, << >>)
      /\ UNCHANGED <<error, readOps, writeOps, nextMessageGettingAllocation, ins, outs,
                     insDone, outsDone, readDescriptorCalled, readCalled, writeCalled>>
  BY ZenonT(30) DEF EstablishEffect
<1>3. BodyOK(p, << >>)
  BY DEF BodyOK
<1>4. TodoOK(p)' /\ DescriptorsStarted(p)'
  BY <1>1, <1>2, <1>3, TodoAfterAll, SMTT(30)
<1>5. KeepsReads(p) /\ KeepsWrites(p) /\ KeepsLengths(p)
  BY <1>2, ZenonT(30) DEF KeepsReads, KeepsWrites, KeepsLengths
<1>6. ReadInv(p)' /\ WriteInv(p)' /\ ItemsOK(p)'
  BY <1>1, <1>2, <1>5, ReadsKept, WritesKept, ItemsStay, SMTT(30)
<1>7. Elsewhere(p)
  <2>1. established \in [Pipes -> BOOLEAN]
    BY <1>1, ZenonT(30) DEF TypeOK
  <2> QED
    BY <1>2, <2>1, ZenonT(30) DEF Elsewhere, AdvancesAll
<1> QED
  BY <1>2, <1>4, <1>6, <1>7, OtherPipe, SMTT(30)

\* The kinds and the operations of what was posted on a stream.
LEMMA ItemRead ==
  ASSUME NEW p \in Pipes, ItemsOK(p), NEW s \in Streams, NEW i \in 1 .. Len(ins[p][s])
  PROVE  /\ ins[p][s][i].kind = "reply" => ins[p][s][i].op \in 1 .. Len(writeOps[p])
         /\ ins[p][s][i].kind # "reply" => ins[p][s][i].op \in 1 .. Len(readOps[p])
         /\ ins[p][s][i].kind = "descriptor" => s = "descriptor"
<1>1. /\ Belongs(ins[p]["descriptor"], {"descriptor", "payload"}, readOps[p])
      /\ Belongs(ins[p]["channel"], {"tensor"}, readOps[p])
      /\ Belongs(ins[p]["reply"], {"reply"}, writeOps[p])
  BY Zenon DEF ItemsOK
<1>2. s = "reply" => ins[p][s][i].kind \in {"reply"} /\ ins[p][s][i].op \in 1 .. Len(writeOps[p])
  BY <1>1, Zenon DEF Belongs
<1>3. s = "channel" => ins[p][s][i].kind \in {"tensor"} /\ ins[p][s][i].op \in 1 .. Len(readOps[p])
  BY <1>1, Zenon DEF Belongs
<1>4. s = "descriptor" => /\ ins[p][s][i].kind \in {"descriptor", "payload"}
                          /\ ins[p][s][i].op \in 1 .. Len(readOps[p])
  BY <1>1, Zenon DEF Belongs
<1>5. s \in {"descriptor", "reply", "channel"}
  BY Zenon DEF Streams
<1> HIDE DEF Streams
<1>6. CASE s = "reply"
  <2>1. ins[p][s][i].kind = "reply" /\ "reply" # "descriptor"
    BY <1>2, <1>6, Zenon
  <2> QED
    BY <1>2, <1>6, <2>1, Zenon
<1>7. CASE s = "channel"
  <2>1. ins[p][s][i].kind = "tensor" /\ "tensor" # "descriptor" /\ "tensor" # "reply"
    BY <1>3, <1>7, Zenon
  <2> QED
    BY <1>3, <1>7, <2>1, Zenon
<1>8. CASE s = "descriptor"
  <2>1. ins[p][s][i].kind # "reply"
    BY <1>4, <1>8, Zenon
  <2> QED
    BY <1>4, <1>8, <2>1, Zenon
<1> QED
  BY <1>5, <1>6, <1>7, <1>8, Zenon

\* The body of the callback of what was read is one that a task may hold.
LEMMA InPieceOK ==
  ASSUME NEW piece, NEW item, NEW reads, NEW writes, piece.what = "in",
         piece.kind = item.kind, piece.at = item.op,
         item.kind = "reply" => item.op \in 1 .. writes, item.kind # "reply" => item.op \in 1 .. reads
  PROVE  PieceOK(piece, TRUE, reads, writes)
  BY DEF PieceOK

\* Likewise for the callback of what was written.
LEMMA OutPieceOK ==
  ASSUME NEW piece, NEW item, NEW reads, NEW writes, piece.what = "out",
         piece.kind = item.kind, piece.at = item.op,
         item.kind \in {"payload", "tensor"}, item.op \in 1 .. writes
  PROVE  PieceOK(piece, TRUE, reads, writes)
  BY DEF PieceOK

\* What was written for an operation, and belongs to a write.
LEMMA ItemWritten ==
  ASSUME NEW p \in Pipes, ItemsOK(p), NEW s \in Streams, NEW i \in 1 .. Len(outs[p][s]),
         outs[p][s][i].kind \in {"payload", "tensor"}
  PROVE  outs[p][s][i].op \in 1 .. Len(writeOps[p])
<1>1. /\ Belongs(outs[p]["descriptor"], {"descriptor", "payload"}, writeOps[p])
      /\ Belongs(outs[p]["channel"], {"tensor"}, writeOps[p])
      /\ Belongs(outs[p]["reply"], {"reply"}, readOps[p])
  BY Zenon DEF ItemsOK
<1>2. s = "descriptor" => outs[p][s][i].op \in 1 .. Len(writeOps[p])
  BY <1>1, Zenon DEF Belongs
<1>3. s = "channel" => outs[p][s][i].op \in 1 .. Len(writeOps[p])
  BY <1>1, Zenon DEF Belongs
<1>4. s # "reply"
  <2>1. s = "reply" => outs[p][s][i].kind \in {"reply"}
    BY <1>1, Zenon DEF Belongs
  <2> QED
    BY <2>1
<1> QED
  BY <1>2, <1>3, <1>4, Zenon DEF Streams

\* A callback of a read or a recv is picked up.
LEMMA ReadCallbackOrder ==
  ASSUME OrderInv, NEW p \in Pipes, NEW s \in Streams, NEW ok \in BOOLEAN,
         NEW i \in 1 .. Len(ins[p][s]), ReadCallbackEffect(p, s, i, ok)
  PROVE  OrderInv'
<1> DEFINE body == << InBody(p, s, i, ok) >>
<1>1. TypeOK /\ ItemsOK(p) /\ DescriptorsStarted(p)
  BY ZenonT(30) DEF OrderInv
<1>3. /\ TypeOK'
      /\ InBody(p, s, i, ok) \in InPiece
      /\ SetsError(p, ok, body)
      /\ MarksDone(insDone', insDone, p, s, i)
      /\ UNCHANGED <<established, readOps, writeOps, nextMessageGettingAllocation, ins, outs,
                     outsDone, readDescriptorCalled, readCalled, writeCalled>>
  BY ZenonT(30) DEF ReadCallbackEffect
<1>4. BodyOK(p, body)
  <2> DEFINE piece == InBody(p, s, i, ok)
  <2>1. /\ piece.what = "in" /\ piece.kind = ins[p][s][i].kind /\ piece.at = ins[p][s][i].op
    BY ZenonT(30) DEF InBody
  <2> HIDE DEF piece
  <2>2. /\ ins[p][s][i].kind = "reply" => ins[p][s][i].op \in 1 .. Len(writeOps[p])
        /\ ins[p][s][i].kind # "reply" => ins[p][s][i].op \in 1 .. Len(readOps[p])
        /\ ins[p][s][i].kind = "descriptor" => s = "descriptor"
    BY <1>1, ItemRead, Zenon
  <2>4. piece.kind = "descriptor" => Started(readOps[p][piece.at])
    <3>1. \A j \in 1 .. Len(ins[p]["descriptor"]) : Started(readOps[p][ins[p]["descriptor"][j].op])
      BY <1>1, Zenon DEF DescriptorsStarted
    <3>2. s = "descriptor" => Started(readOps[p][ins[p][s][i].op])
      BY <3>1, Zenon
    <3> QED
      BY <2>1, <2>2, <3>2, Zenon
  <2>5. Len(body) = 1 /\ body[1] = piece
    BY DEF piece
  <2> HIDE DEF body
  <2>6. PieceOK(piece, TRUE, Len(readOps[p]), Len(writeOps[p]))
    BY <2>1, <2>2, InPieceOK, Zenon
  <2> QED
    BY <1>1, <2>4, <2>5, <2>6, ZenonT(30) DEF BodyOK
<1> HIDE DEF body
<1>5. \A q \in Pipes \ {p} : insDone'[q] = insDone[q] /\ outsDone'[q] = outsDone[q]
  BY <1>3, SMTT(30) DEF MarksDone
<1> QED
  BY <1>3, <1>4, <1>5, SetsErrorOrder, ZenonT(30)

\* A callback of a write or a send is picked up.
LEMMA WriteCallbackOrder ==
  ASSUME OrderInv, NEW p \in Pipes, NEW s \in Streams, NEW ok \in BOOLEAN,
         NEW i \in 1 .. Len(outs[p][s]), WriteCallbackEffect(p, s, i, ok)
  PROVE  OrderInv'
<1> DEFINE body == IF outs[p][s][i].kind \in {"payload", "tensor"}
                   THEN << OutBody(p, s, i) >> ELSE << >>
<1>1. TypeOK /\ ItemsOK(p) /\ DescriptorsStarted(p)
  BY Zenon DEF OrderInv
<1>3. /\ TypeOK'
      /\ SetsError(p, ok, body)
      /\ MarksDone(outsDone', outsDone, p, s, i)
      /\ UNCHANGED <<established, readOps, writeOps, nextMessageGettingAllocation, ins, outs,
                     insDone, readDescriptorCalled, readCalled, writeCalled>>
  BY ZenonT(30) DEF WriteCallbackEffect
<1>4. BodyOK(p, body)
  <2>1. CASE ~(outs[p][s][i].kind \in {"payload", "tensor"})
    BY <2>1 DEF BodyOK
  <2>2. CASE outs[p][s][i].kind \in {"payload", "tensor"}
    <3> DEFINE piece == OutBody(p, s, i)
    <3>1. /\ piece.what = "out" /\ piece.kind = outs[p][s][i].kind /\ piece.at = outs[p][s][i].op
      BY ZenonT(30) DEF OutBody
    <3>2. outs[p][s][i].op \in 1 .. Len(writeOps[p])
      BY <1>1, <2>2, ItemWritten, Zenon
    <3>3. Len(body) = 1 /\ body[1] = piece
      BY <2>2, SMTT(30)
    <3> HIDE DEF piece, body
    <3>4. PieceOK(piece, TRUE, Len(readOps[p]), Len(writeOps[p]))
      BY <2>2, <3>1, <3>2, OutPieceOK, Zenon
    <3> QED
      BY <1>1, <3>1, <3>3, <3>4, ZenonT(30) DEF BodyOK
  <2> HIDE DEF body
  <2> QED
    BY <2>1, <2>2, Zenon
<1> HIDE DEF body
<1>5. \A q \in Pipes \ {p} : insDone'[q] = insDone[q] /\ outsDone'[q] = outsDone[q]
  BY <1>3, SMTT(30) DEF MarksDone
<1> QED
  BY <1>3, <1>4, <1>5, SetsErrorOrder, SMTT(30)

\* The task goes on to another operation, or to its next piece.
LEMMA MoveOrder ==
  ASSUME OrderInv, TypeOK', NEW p \in Pipes, NEW what \in {"reads", "writes"}, NEW finished,
         MovesOn(p, what, IF what = "reads" THEN readOps[p] ELSE writeOps[p], finished)
  PROVE  OrderInv'
<1>1. TypeOK /\ TodoOK(p) /\ ReadInv(p) /\ WriteInv(p)
  BY ZenonT(30) DEF OrderInv
<1>2. UNCHANGED <<established, error, readOps, writeOps, nextMessageGettingAllocation, ins, outs,
                  insDone, outsDone, readDescriptorCalled, readCalled, writeCalled>>
  BY ZenonT(30) DEF MovesOn
<1>3. TodoOK(p)' /\ NoNewBody(p)
  BY <1>1, TodoAfterMove, SMTT(30)
<1>4. ReadInv(p)' /\ WriteInv(p)'
  <2>1. KeepsReads(p) /\ KeepsWrites(p)
    BY <1>2, ZenonT(30) DEF KeepsReads, KeepsWrites
  <2> QED
    BY <1>1, <2>1, ReadsKept, WritesKept, SMTT(30)
<1>5. \A q \in Pipes \ {p} : todo'[q] = todo[q]
  BY ZenonT(30) DEF MovesOn, UpdatedAt, Drops
<1>6. Elsewhere(p)
  BY <1>2, <1>5, SMTT(30) DEF Elsewhere
<1>7. /\ Len(readOps'[p]) >= Len(readOps[p]) /\ Len(writeOps'[p]) >= Len(writeOps[p])
      /\ \A k \in 1 .. Len(readOps[p]) : Started(readOps[p][k]) => Started(readOps'[p][k])
  <2>1. Len(readOps[p]) \in Nat /\ Len(writeOps[p]) \in Nat
    BY <1>1, OrderLengths, Zenon
  <2> QED
    BY <1>2, <2>1
<1> QED
  BY <1>2, <1>3, <1>4, <1>6, <1>7, QuietStep, Zenon

\* advanceOperation and advanceAllOperations go on to another read, or end.
LEMMA NextReadOperationOrder ==
  ASSUME OrderInv, NEW p \in Pipes, NextReadOperationEffect(p)
  PROVE  OrderInv'
<1>2. TypeOK' /\ MovesOn(p, "reads", readOps[p], READ_FINISHED)
  BY ZenonT(30) DEF NextReadOperationEffect
<1>3. MovesOn(p, "reads", IF "reads" = "reads" THEN readOps[p] ELSE writeOps[p], READ_FINISHED)
  BY <1>2, ZenonT(30)
<1> QED
  BY <1>2, <1>3, MoveOrder, SMTT(30)

\* Likewise for writes.
LEMMA NextWriteOperationOrder ==
  ASSUME OrderInv, NEW p \in Pipes, NextWriteOperationEffect(p)
  PROVE  OrderInv'
<1>2. TypeOK' /\ MovesOn(p, "writes", writeOps[p], WRITE_FINISHED)
  BY ZenonT(30) DEF NextWriteOperationEffect
<1>3. MovesOn(p, "writes", IF "writes" = "reads" THEN readOps[p] ELSE writeOps[p], WRITE_FINISHED)
  BY <1>2, ZenonT(30)
<1> QED
  BY <1>2, <1>3, MoveOrder, SMTT(30)

-----------------------------------------------------------------------------
(* The initial state, and what follows from the order.                     *)

\* The initial state.
LEMMA InitOrder ==
  ASSUME Init
  PROVE  OrderInv
<1>1. TypeOK
  <2>1. \A S : << >> \in Seq(S)
    OBVIOUS
  <2>2. /\ established \in [Pipes -> BOOLEAN] /\ error \in [Pipes -> BOOLEAN]
        /\ nextMessageGettingAllocation \in [Pipes -> Nat]
    BY ZenonT(30) DEF Init
  <2>3. /\ readOps \in [Pipes -> Seq(ReadOperation)] /\ writeOps \in [Pipes -> Seq(WriteOperation)]
        /\ todo \in [Pipes -> Seq(Piece)]
    BY <2>1, Zenon DEF Init
  <2>4. /\ readDescriptorCalled \in [Pipes -> Seq(Call)] /\ readCalled \in [Pipes -> Seq(Call)]
        /\ writeCalled \in [Pipes -> Seq(Call)]
    BY <2>1, Zenon DEF Init
  <2>5. /\ ins \in [Pipes -> [Streams -> Seq(Item)]] /\ outs \in [Pipes -> [Streams -> Seq(Item)]]
    BY <2>1, Zenon DEF Init
  <2>6. /\ insDone \in [Pipes -> [Streams -> SUBSET Nat]]
        /\ outsDone \in [Pipes -> [Streams -> SUBSET Nat]]
    BY Zenon DEF Init
  <2> QED
    BY <2>2, <2>3, <2>4, <2>5, <2>6, Zenon DEF TypeOK
<1>2. ASSUME NEW p \in Pipes
      PROVE  TodoOK(p) /\ ItemsOK(p) /\ DescriptorsStarted(p) /\ ReadInv(p) /\ WriteInv(p)
  <2>1. /\ Len(readOps[p]) = 0 /\ Len(writeOps[p]) = 0 /\ Len(todo[p]) = 0
        /\ Len(readDescriptorCalled[p]) = 0 /\ Len(readCalled[p]) = 0 /\ Len(writeCalled[p]) = 0
        /\ nextMessageGettingAllocation[p] = 0
    BY ZenonT(30) DEF Init
  <2>2. \A s \in Streams : Len(ins[p][s]) = 0 /\ Len(outs[p][s]) = 0
    BY ZenonT(30) DEF Init
  <2>3. TodoOK(p)
    BY <2>1, SMTT(30) DEF TodoOK
  <2>4. ItemsOK(p) /\ DescriptorsStarted(p)
    <3>1. \A i : i \notin 1 .. 0
      OBVIOUS
    <3>2. /\ Len(ins[p]["descriptor"]) = 0 /\ Len(ins[p]["channel"]) = 0
          /\ Len(ins[p]["reply"]) = 0 /\ Len(outs[p]["descriptor"]) = 0
          /\ Len(outs[p]["channel"]) = 0 /\ Len(outs[p]["reply"]) = 0
      BY <2>2, Zenon DEF Streams
    <3>3. ASSUME NEW items, Len(items) = 0, NEW kinds, NEW ops
          PROVE  Belongs(items, kinds, ops)
      BY <3>1, <3>3, Zenon DEF Belongs
    <3>4. ItemsOK(p)
      BY <3>2, <3>3, Zenon DEF ItemsOK
    <3> QED
      BY <2>1, <3>1, <3>2, <3>4, Zenon DEF DescriptorsStarted
  <2>5. ReadInv(p)
    BY <2>1 DEF ReadInv, ReadsOK, ReadsOrdered, ReadFlags, ReadsCalled, CallsOf, CallsMatch
  <2>6. WriteInv(p)
    BY <2>1 DEF WriteInv, WritesOK, WritesOrdered, WritesCalled, CallsOf
  <2> QED
    BY <2>3, <2>4, <2>5, <2>6, SMTT(30)
<1> QED
  BY <1>1, <1>2, ZenonT(30) DEF OrderInv

\* A step that changes nothing.
LEMMA StutterOrder ==
  ASSUME OrderInv, UNCHANGED vars
  PROVE  OrderInv'
<1>1. /\ established' = established /\ error' = error /\ readOps' = readOps /\ writeOps' = writeOps
      /\ nextMessageGettingAllocation' = nextMessageGettingAllocation /\ todo' = todo
      /\ ins' = ins /\ outs' = outs /\ insDone' = insDone /\ outsDone' = outsDone
      /\ readDescriptorCalled' = readDescriptorCalled /\ readCalled' = readCalled
      /\ writeCalled' = writeCalled
  BY ZenonT(30) DEF vars
<1>2. TypeOK'
  BY <1>1, ZenonT(30) DEF OrderInv, TypeOK
<1>3. ASSUME NEW p \in Pipes
      PROVE  TodoOK(p)' /\ ItemsOK(p)' /\ DescriptorsStarted(p)' /\ ReadInv(p)' /\ WriteInv(p)'
  <2>1. TodoOK(p) /\ ItemsOK(p) /\ DescriptorsStarted(p) /\ ReadInv(p) /\ WriteInv(p)
    BY ZenonT(30) DEF OrderInv
  <2>2. TodoOK(p)' /\ ItemsOK(p)'
    BY <1>1, <2>1, ZenonT(30) DEF TodoOK, ItemsOK, Belongs
  <2>3. DescriptorsStarted(p)'
    BY <1>1, <2>1, ZenonT(30) DEF DescriptorsStarted, Started
  <2>4. ReadInv(p)' /\ WriteInv(p)'
    BY <1>1, <2>1, ZenonT(30) DEF ReadInv, WriteInv
  <2> QED
    BY <2>2, <2>3, <2>4, ZenonT(30)
<1> QED
  BY <1>2, <1>3, Zenon DEF OrderInv

\* What is known of the calls says that they are in order.
LEMMA OrderedCalls ==
  ASSUME OrderInv
  PROVE  CallbacksInOrder
<1>1. ASSUME NEW called, TypedCalls(called), NEW n, NEW err, CallsOf(called, n, err)
      PROVE  InOrder(called)
  <2>1. ASSUME NEW i \in 1 .. Len(called), ~called[i].ok, NEW j \in i .. Len(called)
        PROVE  ~called[j].ok
    <3>1. j \in 1 .. Len(called) /\ i <= j
      BY <1>1, SMTT(30) DEF TypedCalls
    <3> QED
      BY <1>1, <2>1, <3>1, SMTT(30) DEF CallsOf
  <2> QED
    BY <1>1, <2>1, SMTT(30) DEF InOrder, CallsOf
<1>2. ASSUME NEW p \in Pipes
      PROVE  InOrder(readDescriptorCalled[p]) /\ InOrder(readCalled[p]) /\ InOrder(writeCalled[p])
  <2>1. /\ TypedCalls(readDescriptorCalled[p]) /\ TypedCalls(readCalled[p])
        /\ TypedCalls(writeCalled[p])
    BY OrderTypes, SMTT(30) DEF OrderInv
  <2>2. /\ CallsOf(readDescriptorCalled[p], Len(readOps[p]), error[p])
        /\ CallsOf(readCalled[p], Len(readOps[p]), error[p])
        /\ CallsOf(writeCalled[p], Len(writeOps[p]), error[p])
    BY ZenonT(30) DEF OrderInv, ReadInv, WriteInv, ReadsOK, WritesOK, ReadsCalled, WritesCalled
  <2> QED
    BY <1>1, <2>1, <2>2, SMTT(30)
<1> QED
  BY <1>2, ZenonT(30) DEF CallbacksInOrder

\* A step of a pipe that has met an error posts nothing.
LEMMA NothingPosted ==
  ASSUME OrderInv, NextEffect
  PROVE  \A p \in Pipes : error[p] => ins'[p] = ins[p] /\ outs'[p] = outs[p]
<1>1. PICK q \in Pipes : UserCallEffect(q) \/ EstablishEffect(q) \/ CallbackEffect(q) \/ RunTaskEffect(q)
  BY Zenon DEF NextEffect
<1>2. TypeOK
  BY ZenonT(30) DEF OrderInv
<1>3. CASE UNCHANGED <<ins, outs>>
  BY <1>3, SMTT(30)
<1>4. CASE \E k \in 1 .. Len(readOps[q]) : ReadDescriptorOfMessageEffect(q, k) \/ ReadPayloadsEffect(q, k)
  <2>1. PICK k \in 1 .. Len(readOps[q]) : ReadDescriptorOfMessageEffect(q, k) \/ ReadPayloadsEffect(q, k)
    BY <1>4, SMTT(30)
  <2>2. CASE ReadDescriptorOfMessageEffect(q, k)
    <3>1. CanReadDescriptor(q, k) /\ OnlyAt(ins', ins, q) /\ outs' = outs
      BY <2>2, ZenonT(30) DEF ReadDescriptorOfMessageEffect
    <3> QED
      BY <3>1, ZenonT(30) DEF CanReadDescriptor, OnlyAt
  <2>3. CASE ReadPayloadsEffect(q, k)
    <3>1. CanReadPayloads(q, k) /\ OnlyAt(ins', ins, q) /\ OnlyAt(outs', outs, q)
      BY <2>3, ZenonT(30) DEF ReadPayloadsEffect
    <3> QED
      BY <3>1, ZenonT(30) DEF CanReadPayloads, OnlyAt
  <2> QED
    BY <2>1, <2>2, <2>3, SMTT(30)
<1>5. CASE \E k \in 1 .. Len(writeOps[q]) :
             SendMessageEffect(q, k) \/ AskTargetDevicesEffect(q, k) \/ SendTensorsEffect(q, k)
  <2>1. PICK k \in 1 .. Len(writeOps[q]) :
               SendMessageEffect(q, k) \/ AskTargetDevicesEffect(q, k) \/ SendTensorsEffect(q, k)
    BY <1>5, SMTT(30)
  <2>2. CASE SendMessageEffect(q, k)
    <3>1. CanSendMessage(q, k) /\ ins' = ins /\ OnlyAt(outs', outs, q)
      BY <2>2, ZenonT(30) DEF SendMessageEffect
    <3> QED
      BY <3>1, ZenonT(30) DEF CanSendMessage, OnlyAt
  <2>3. CASE AskTargetDevicesEffect(q, k)
    <3>1. CanAskTargetDevices(q, k) /\ OnlyAt(ins', ins, q) /\ OnlyAt(outs', outs, q)
      BY <2>3, ZenonT(30) DEF AskTargetDevicesEffect
    <3> QED
      BY <3>1, ZenonT(30) DEF CanAskTargetDevices, OnlyAt
  <2>4. CASE SendTensorsEffect(q, k)
    <3>1. CanSendTensors(q, k) /\ ins' = ins /\ OnlyAt(outs', outs, q)
      BY <2>4, Zenon DEF SendTensorsEffect
    <3> QED
      BY <3>1, ZenonT(30) DEF CanSendTensors, OnlyAt
  <2> QED
    BY <2>1, <2>2, <2>3, <2>4, SMTT(30)
<1>6. UserCallEffect(q) \/ EstablishEffect(q) => UNCHANGED <<ins, outs>>
  BY <1>2, Zenon DEF UserCallEffect, EstablishEffect, WriteFromLoopEffect, ReadDescriptorFromLoopEffect,
     ReadFromLoopEffect, CloseFromLoopEffect
<1>7. CallbackEffect(q) => UNCHANGED <<ins, outs>>
  BY <1>2, ZenonT(30) DEF CallbackEffect, ReadCallbackEffect, WriteCallbackEffect
<1>8. RunTaskEffect(q) =>
        \/ UNCHANGED <<ins, outs>>
        \/ \E k \in 1 .. Len(readOps[q]) : ReadDescriptorOfMessageEffect(q, k) \/ ReadPayloadsEffect(q, k)
        \/ \E k \in 1 .. Len(writeOps[q]) :
             SendMessageEffect(q, k) \/ AskTargetDevicesEffect(q, k) \/ SendTensorsEffect(q, k)
  <2>1. ASSUME NEW k,
               \/ DoneReadingDescriptorEffect(q, k) \/ DoneReadingPayloadEffect(q, k)
               \/ DoneReceivingTensorEffect(q, k)
        PROVE  UNCHANGED <<ins, outs>>
    BY <2>1, ZenonT(30) DEF DoneReadingDescriptorEffect, DoneReadingPayloadEffect, DoneReceivingTensorEffect,
       ReadBody
  <2>2. ASSUME NEW k,
               \/ DoneReadingDescriptorReplyEffect(q, k) \/ DoneWritingPayloadEffect(q, k)
               \/ DoneSendingTensorEffect(q, k)
        PROVE  UNCHANGED <<ins, outs>>
    BY <2>2, ZenonT(30) DEF DoneReadingDescriptorReplyEffect, DoneWritingPayloadEffect,
       DoneSendingTensorEffect, WriteBody
  <2>3. ASSUME NEW k,
               \/ FlushReadEffect(q, k) \/ AskForAllocationEffect(q, k) \/ ExpectReadCallEffect(q, k)
               \/ AbortReadEffect(q, k) \/ FinishReadEffect(q, k)
        PROVE  UNCHANGED <<ins, outs>>
    BY <2>3, ZenonT(30) DEF FlushReadEffect, AskForAllocationEffect, ExpectReadCallEffect, AbortReadEffect,
       FinishReadEffect
  <2>4. ASSUME NEW k, FlushWriteEffect(q, k) \/ AbortWriteEffect(q, k) \/ FinishWriteEffect(q, k)
        PROVE  UNCHANGED <<ins, outs>>
    BY <2>4, ZenonT(30) DEF FlushWriteEffect, AbortWriteEffect, FinishWriteEffect
  <2>5. NextReadOperationEffect(q) \/ NextWriteOperationEffect(q) => UNCHANGED <<ins, outs>>
    BY ZenonT(30) DEF NextReadOperationEffect, NextWriteOperationEffect, MovesOn
  <2> QED
    BY <2>1, <2>2, <2>3, <2>4, <2>5, ZenonT(30) DEF RunTaskEffect
<1> QED
  BY <1>1, <1>3, <1>4, <1>5, <1>6, <1>7, <1>8, ZenonT(30)

\* A step of a task.
LEMMA RunTaskOrder ==
  ASSUME OrderInv, NEW p \in Pipes, RunTaskEffect(p)
  PROVE  OrderInv'
<1>1. CASE \E k \in 1 .. Len(readOps[p]) :
             \/ FlushReadEffect(p, k) \/ ReadDescriptorOfMessageEffect(p, k) \/ AskForAllocationEffect(p, k)
             \/ ExpectReadCallEffect(p, k) \/ AbortReadEffect(p, k) \/ ReadPayloadsEffect(p, k) \/ FinishReadEffect(p, k)
  BY <1>1, FlushReadOrder, ReadDescriptorOfMessageOrder, AskForAllocationOrder,
     ExpectReadCallOrder, AbortReadOrder, ReadPayloadsOrder, FinishReadOrder, ZenonT(30)
<1>2. CASE \E k \in 1 .. Len(writeOps[p]) :
             \/ FlushWriteEffect(p, k) \/ SendMessageEffect(p, k) \/ AskTargetDevicesEffect(p, k)
             \/ AbortWriteEffect(p, k) \/ SendTensorsEffect(p, k) \/ FinishWriteEffect(p, k)
  BY <1>2, FlushWriteOrder, SendMessageOrder, AskTargetDevicesOrder, AbortWriteOrder,
     SendTensorsOrder, FinishWriteOrder, ZenonT(30)
<1>3. CASE \E k \in 1 .. Len(readOps[p]) :
             \/ DoneReadingDescriptorEffect(p, k) \/ DoneReadingPayloadEffect(p, k)
             \/ DoneReceivingTensorEffect(p, k)
  BY <1>3, DoneReadingDescriptorOrder, DoneReadingPayloadOrder, DoneReceivingTensorOrder, ZenonT(30)
<1>5. CASE \E k \in 1 .. Len(writeOps[p]) :
             \/ DoneReadingDescriptorReplyEffect(p, k) \/ DoneWritingPayloadEffect(p, k)
             \/ DoneSendingTensorEffect(p, k)
  BY <1>5, DoneReadingDescriptorReplyOrder, DoneWritingPayloadOrder, DoneSendingTensorOrder, ZenonT(30)
<1>4. CASE NextReadOperationEffect(p) \/ NextWriteOperationEffect(p)
  BY <1>4, NextReadOperationOrder, NextWriteOperationOrder, Zenon
<1> QED
  BY <1>1, <1>2, <1>3, <1>4, <1>5, ZenonT(30) DEF RunTaskEffect

\* A step of a pipe.
LEMMA NextOrder ==
  ASSUME OrderInv, NextEffect
  PROVE  OrderInv'
<1>1. PICK p \in Pipes : UserCallEffect(p) \/ EstablishEffect(p) \/ CallbackEffect(p) \/ RunTaskEffect(p)
  BY Zenon DEF NextEffect
<1>2. CASE UserCallEffect(p)
  BY <1>2, WriteFromLoopOrder, ReadDescriptorFromLoopOrder, ReadFromLoopOrder, CloseFromLoopOrder,
     ZenonT(30) DEF UserCallEffect
<1>3. CASE EstablishEffect(p)
  BY <1>3, EstablishOrder, Zenon
<1>4. CASE CallbackEffect(p)
  BY <1>4, ReadCallbackOrder, WriteCallbackOrder, ZenonT(30) DEF CallbackEffect
<1>5. CASE RunTaskEffect(p)
  BY <1>5, RunTaskOrder, Zenon
<1> QED
  BY <1>1, <1>2, <1>3, <1>4, <1>5, ZenonT(30)
=============================================================================
