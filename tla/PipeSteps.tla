------------------------------ MODULE PipeSteps -----------------------------
(***************************************************************************)
(* Every step of a pipe (Pipe) is one of those that PipeEffects describes. *)
(***************************************************************************)
EXTENDS Pipe, PipeEffects, TLAPS

-----------------------------------------------------------------------------
(* Updates of an entry of one pipe, and entries added at its end.          *)

\* What an update of the k-th entry of pipe p leaves alone.
LEMMA Updating ==
  ASSUME NEW S, NEW f \in [Pipes -> Seq(S)], NEW p \in Pipes, NEW k \in 1 .. Len(f[p]),
         NEW x \in S
  PROVE  UpdatedAt([f EXCEPT ![p] = [f[p] EXCEPT ![k] = x]], f, p, k, x, S)
  BY DEF UpdatedAt

\* What an entry added at the end of pipe p's leaves alone.
LEMMA Appending ==
  ASSUME NEW S, NEW f \in [Pipes -> Seq(S)], NEW p \in Pipes, NEW x \in S
  PROVE  AppendedTo([f EXCEPT ![p] = Append(f[p], x)], f, p, x, S)
  BY DEF AppendedTo

USE DEF UNINITIALIZED, READING_DESCRIPTOR, ASKING_FOR_ALLOCATION,
        ASKING_FOR_ALLOCATION_FIRST_IN_LINE, READING_PAYLOADS_AND_RECEIVING_TENSORS,
        READ_FINISHED, WRITING_PAYLOADS_AND_READING_TARGET_DEVICES,
        WRITING_PAYLOADS_AND_SENDING_TENSORS, WRITE_FINISHED

\* A field of a read operation that a step sets keeps it a read operation.
LEMMA ReadUpdate ==
  ASSUME TypeOK, NEW p \in Pipes, NEW k \in 1 .. Len(readOps[p]), NEW x \in ReadOperation,
         readOps' = [readOps EXCEPT ![p] = [readOps[p] EXCEPT ![k] = x]]
  PROVE  UpdatedAt(readOps', readOps, p, k, x, ReadOperation)
<1>1. readOps \in [Pipes -> Seq(ReadOperation)]
  BY ZenonT(30) DEF TypeOK
<1>2. UpdatedAt([readOps EXCEPT ![p] = [readOps[p] EXCEPT ![k] = x]], readOps, p, k, x, ReadOperation)
  BY <1>1, Updating, Zenon
<1> QED
  BY <1>2, ZenonT(30)

\* The transitions that only set the state of a read operation.
LEMMA ReadStateUpdate ==
  ASSUME TypeOK, NEW p \in Pipes, NEW k \in 1 .. Len(readOps[p]), NEW state \in 0 .. 5,
         readOps' = [readOps EXCEPT ![p][k].state = state]
  PROVE  /\ readOps[p][k] \in ReadOperation
         /\ UpdatedAt(readOps', readOps, p, k, [readOps[p][k] EXCEPT !.state = state],
                      ReadOperation)
<1> DEFINE x == [readOps[p][k] EXCEPT !.state = state]
<1>1. readOps[p][k] \in ReadOperation
  BY DEF TypeOK
<1>2. x \in ReadOperation
  BY <1>1, Zenon DEF ReadOperation
<1>3. readOps' = [readOps EXCEPT ![p] = [readOps[p] EXCEPT ![k] = x]]
  BY Zenon
<1> HIDE DEF x
<1>4. UpdatedAt(readOps', readOps, p, k, x, ReadOperation)
  BY <1>2, <1>3, ReadUpdate, Zenon
<1> QED
  BY <1>1, <1>4, ZenonT(30) DEF x

\* Likewise for write operations.
LEMMA WriteUpdate ==
  ASSUME TypeOK, NEW p \in Pipes, NEW k \in 1 .. Len(writeOps[p]), NEW x \in WriteOperation,
         writeOps' = [writeOps EXCEPT ![p] = [writeOps[p] EXCEPT ![k] = x]]
  PROVE  UpdatedAt(writeOps', writeOps, p, k, x, WriteOperation)
<1>1. writeOps \in [Pipes -> Seq(WriteOperation)]
  BY Zenon DEF TypeOK
<1>2. UpdatedAt([writeOps EXCEPT ![p] = [writeOps[p] EXCEPT ![k] = x]], writeOps, p, k, x, WriteOperation)
  BY <1>1, Updating, Zenon
<1> QED
  BY <1>2, Zenon

\* The transitions that only set the state of a write operation.
LEMMA WriteStateUpdate ==
  ASSUME TypeOK, NEW p \in Pipes, NEW k \in 1 .. Len(writeOps[p]), NEW state \in 0 .. 3,
         writeOps' = [writeOps EXCEPT ![p][k].state = state]
  PROVE  /\ writeOps[p][k] \in WriteOperation
         /\ UpdatedAt(writeOps', writeOps, p, k, [writeOps[p][k] EXCEPT !.state = state],
                      WriteOperation)
<1> DEFINE x == [writeOps[p][k] EXCEPT !.state = state]
<1>1. writeOps[p][k] \in WriteOperation
  BY DEF TypeOK
<1>2. x \in WriteOperation
  BY <1>1, Zenon DEF WriteOperation
<1>3. writeOps' = [writeOps EXCEPT ![p] = [writeOps[p] EXCEPT ![k] = x]]
  BY Zenon
<1> HIDE DEF x
<1>4. UpdatedAt(writeOps', writeOps, p, k, x, WriteOperation)
  BY <1>2, <1>3, WriteUpdate, Zenon
<1> QED
  BY <1>1, <1>4, Zenon DEF x

\* A task that advances an operation is at a piece that says so, and notes
\* that the operation advanced.
LEMMA AdvancedUpdate ==
  ASSUME TypeOK, NEW p \in Pipes, NEW what \in {"reads", "writes"}, NEW k, At(p, what, k),
         Advanced(p)
  PROVE  /\ 1 \in 1 .. Len(todo[p])
         /\ todo[p][1] \in AdvancePiece
         /\ todo[p][1].what = what /\ todo[p][1].at = k
         /\ UpdatedAt(todo', todo, p, 1, [todo[p][1] EXCEPT !.advanced = TRUE], Piece)
<1> DEFINE x == [todo[p][1] EXCEPT !.advanced = TRUE]
<1>1. todo \in [Pipes -> Seq(Piece)]
  BY Zenon DEF TypeOK
<1>2. 1 \in 1 .. Len(todo[p]) /\ todo[p][1].what = what /\ todo[p][1].at = k
  BY DEF At, Running, Idle
<1>3. todo[p][1] \in AdvancePiece
  BY <1>1, <1>2 DEF Piece, AdvancePiece, InPiece, OutPiece
<1>4. x \in Piece
  BY <1>1, <1>2, <1>3, ZenonT(30) DEF Piece, AdvancePiece
<1>5. todo' = [todo EXCEPT ![p] = [todo[p] EXCEPT ![1] = x]]
  BY Zenon DEF Advanced
<1> HIDE DEF x
<1>6. UpdatedAt([todo EXCEPT ![p] = [todo[p] EXCEPT ![1] = x]], todo, p, 1, x, Piece)
  BY <1>1, <1>2, <1>4, Updating, Zenon
<1> QED
  BY <1>2, <1>3, <1>5, <1>6, Zenon DEF x

-----------------------------------------------------------------------------
(* The transitions of reads and writes.                                    *)

\* The transitions of a read that set its state and nothing else of it.
LEMMA ReadStateTransition ==
  ASSUME TypeOK, NEW p \in Pipes, NEW k \in 1 .. Len(readOps[p]), NEW state \in 0 .. 5,
         At(p, "reads", k), Advanced(p),
         readOps' = [readOps EXCEPT ![p][k].state = state],
         UNCHANGED <<established, error, writeOps, insDone, outsDone, writeCalled>>
  PROVE  ReadTransition(p, k, [readOps[p][k] EXCEPT !.state = state])
<1>1. /\ readOps[p][k] \in ReadOperation
      /\ UpdatedAt(readOps', readOps, p, k, [readOps[p][k] EXCEPT !.state = state],
                   ReadOperation)
  BY ReadStateUpdate, ZenonT(30)
<1>2. [readOps[p][k] EXCEPT !.state = state] \in ReadOperation
  BY <1>1, SMTT(30) DEF ReadOperation
<1> QED
  BY <1>1, <1>2, AdvancedUpdate, Zenon DEF ReadTransition

\* The transitions of a write that set its state and nothing else of it.
LEMMA WriteStateTransition ==
  ASSUME TypeOK, NEW p \in Pipes, NEW k \in 1 .. Len(writeOps[p]), NEW state \in 0 .. 3,
         At(p, "writes", k), Advanced(p),
         writeOps' = [writeOps EXCEPT ![p][k].state = state],
         UNCHANGED <<established, error, readOps, nextMessageGettingAllocation, insDone,
                     outsDone, readDescriptorCalled, readCalled>>
  PROVE  WriteTransition(p, k, [writeOps[p][k] EXCEPT !.state = state])
<1>1. /\ writeOps[p][k] \in WriteOperation
      /\ UpdatedAt(writeOps', writeOps, p, k, [writeOps[p][k] EXCEPT !.state = state],
                   WriteOperation)
  BY WriteStateUpdate, Zenon
<1>2. [writeOps[p][k] EXCEPT !.state = state] \in WriteOperation
  BY <1>1, Zenon DEF WriteOperation
<1> QED
  BY <1>1, <1>2, AdvancedUpdate, Zenon DEF WriteTransition

\* A call of one of the user's callbacks.
LEMMA Calling ==
  ASSUME NEW called \in [Pipes -> Seq(Call)], NEW p \in Pipes, NEW k \in Nat, NEW ok \in BOOLEAN,
         NEW after, after = [called EXCEPT ![p] = Append(called[p], [op |-> k, ok |-> ok])]
  PROVE  AppendedTo(after, called, p, [op |-> k, ok |-> ok], Call)
<1>1. [op |-> k, ok |-> ok] \in Call
  BY Zenon DEF Call
<1> QED
  BY <1>1, Appending, Zenon

-----------------------------------------------------------------------------
(* Reads and writes added to a stream.                                     *)

\* Items are that many equal reads or writes.
LEMMA ItemsType ==
  ASSUME NEW kind \in Kinds, NEW k \in Nat, NEW n \in Nat
  PROVE  /\ Items(kind, k, n) \in Seq(Item)
         /\ Len(Items(kind, k, n)) = n
         /\ \A i \in 1 .. n : Items(kind, k, n)[i] = [kind |-> kind, op |-> k]
<1>1. [kind |-> kind, op |-> k] \in Item
  BY Zenon DEF Item
<1> DEFINE x == [kind |-> kind, op |-> k]
<1>2. x \in Item
  BY <1>1, ZenonT(30)
<1> HIDE DEF x
<1>3. [i \in 1 .. n |-> x] \in Seq(Item) /\ Len([i \in 1 .. n |-> x]) = n
  BY <1>2
<1>4. Items(kind, k, n) = [i \in 1 .. n |-> x]
  BY Zenon DEF Items, x
<1> QED
  BY <1>3, <1>4, ZenonT(30) DEF x

\* What adding n equal items does to a stream.
LEMMA AddingItems ==
  ASSUME NEW old \in Seq(Item), NEW kind \in Kinds, NEW k \in Nat, NEW n \in Nat
  PROVE  More(old \o Items(kind, k, n), old, kind, k, n)
<1>1. /\ Items(kind, k, n) \in Seq(Item)
      /\ Len(Items(kind, k, n)) = n
      /\ \A i \in 1 .. n : Items(kind, k, n)[i] = [kind |-> kind, op |-> k]
  BY ItemsType, SMTT(30)
<1> DEFINE t == Items(kind, k, n)
<1> HIDE DEF t
<1>2. t \in Seq(Item) /\ Len(t) = n /\ \A i \in 1 .. n : t[i] = [kind |-> kind, op |-> k]
  BY <1>1, Zenon DEF t
<1>3. /\ old \o t \in Seq(Item)
      /\ Len(old \o t) = Len(old) + n
      /\ \A i \in 1 .. Len(old) + n : (old \o t)[i] = IF i <= Len(old) THEN old[i] ELSE t[i - Len(old)]
  BY <1>2
<1>4. ASSUME NEW i \in Len(old) + 1 .. Len(old) + n
      PROVE  (old \o t)[i] = [kind |-> kind, op |-> k]
  <2>1. i - Len(old) \in 1 .. n
    OBVIOUS
  <2> QED
    BY <1>2, <1>3, <2>1
<1>5. More(old \o t, old, kind, k, n)
  BY <1>3, <1>4 DEF More
<1> QED
  BY <1>5, ZenonT(30) DEF t

\* Three runs of items joined in either order.
LEMMA ItemsAssociative ==
  ASSUME NEW a \in Seq(Item), NEW b \in Seq(Item), NEW c \in Seq(Item)
  PROVE  a \o (b \o c) = (a \o b) \o c
  OBVIOUS

\* What writing a descriptor and its payloads does to a stream.
LEMMA AddingMessage ==
  ASSUME NEW old \in Seq(Item), NEW k \in Nat, NEW message, message.payloads \in Nat
  PROVE  MoreMessage(old \o DescriptorAndPayloads(k, message), old, k, message.payloads)
<1> DEFINE n == message.payloads
           d == Items("descriptor", k, 1)
           t == Items("payload", k, n)
<1>1. "descriptor" \in Kinds /\ "payload" \in Kinds /\ n \in Nat /\ 1 \in Nat
  BY ZenonT(30) DEF Kinds
<1>2. d \in Seq(Item) /\ t \in Seq(Item)
  BY <1>1, ItemsType, Zenon
<1>3. More(old \o d, old, "descriptor", k, 1)
  BY <1>1, AddingItems, Zenon
<1>4. old \o d \in Seq(Item)
  BY <1>3, ZenonT(30) DEF More
<1>5. More((old \o d) \o t, old \o d, "payload", k, n)
  BY <1>1, <1>4, AddingItems, Zenon
<1>6. old \o (d \o t) = (old \o d) \o t
  BY <1>2, ItemsAssociative, Zenon
<1>7. old \o DescriptorAndPayloads(k, message) = old \o (d \o t)
  BY Zenon DEF DescriptorAndPayloads
<1> DEFINE u == old \o d
           v == u \o t
<1>8. More(u, old, "descriptor", k, 1) /\ More(v, u, "payload", k, n)
  BY <1>3, <1>5, ZenonT(30)
<1> HIDE DEF u, v, n, d, t
<1>9. MoreMessage(v, old, k, n)
  <2>1. /\ Len(u) = Len(old) + 1 /\ u \in Seq(Item)
        /\ \A i \in 1 .. Len(old) : u[i] = old[i]
        /\ u[Len(old) + 1] = [kind |-> "descriptor", op |-> k]
    BY <1>8 DEF More
  <2>2. /\ v \in Seq(Item) /\ Len(v) = Len(u) + n
        /\ \A i \in 1 .. Len(u) : v[i] = u[i]
        /\ \A i \in Len(u) + 1 .. Len(v) : v[i] = [kind |-> "payload", op |-> k]
    BY <1>8, Zenon DEF More
  <2> QED
    BY <2>1, <2>2 DEF MoreMessage
<1> QED
  BY <1>6, <1>7, <1>9, Zenon DEF u, v, n

-----------------------------------------------------------------------------
(* The transitions of reads and writes, one by one.                        *)

\* FlushRead calls the callback of readDescriptor with an error.
LEMMA FlushReadStep ==
  ASSUME TypeOK, NEW p \in Pipes, NEW k \in 1 .. Len(readOps[p]), FlushRead(p, k)
  PROVE  FlushReadEffect(p, k)
<1>1. /\ CanFlushRead(p, k)
      /\ UNCHANGED <<nextMessageGettingAllocation, ins, outs, readCalled>>
  BY Zenon DEF FlushRead, streamVars, userVars
<1>2. ReadTransition(p, k, [readOps[p][k] EXCEPT !.state = ASKING_FOR_ALLOCATION])
  <2>1. ASKING_FOR_ALLOCATION \in 0 .. 5
    OBVIOUS
  <2> QED
    BY <2>1, ReadStateTransition, Zenon DEF FlushRead, streamVars, userVars
<1>3. AppendedTo(readDescriptorCalled', readDescriptorCalled, p, [op |-> k, ok |-> FALSE], Call)
  <2>1. readDescriptorCalled \in [Pipes -> Seq(Call)] /\ k \in Nat /\ (FALSE) \in BOOLEAN
    BY DEF TypeOK
  <2>2. readDescriptorCalled' = [readDescriptorCalled EXCEPT ![p] = Append(readDescriptorCalled[p], [op |-> k, ok |-> FALSE])]
    BY Zenon DEF FlushRead
  <2> QED
    BY <2>1, <2>2, Calling, Zenon
<1>4. TypeOK'
  BY <1>1, <1>2, <1>3, SMTT(30) DEF TypeOK, ReadTransition, UpdatedAt, AppendedTo
<1> QED
  BY <1>1, <1>2, <1>3, <1>4, Zenon DEF FlushReadEffect

\* AskForAllocation calls the callback of readDescriptor.
LEMMA AskForAllocationStep ==
  ASSUME TypeOK, NEW p \in Pipes, NEW k \in 1 .. Len(readOps[p]), AskForAllocation(p, k)
  PROVE  AskForAllocationEffect(p, k)
<1>1. /\ CanAskForAllocation(p, k)
      /\ UNCHANGED <<nextMessageGettingAllocation, ins, outs, readCalled>>
  BY Zenon DEF AskForAllocation, streamVars, userVars
<1>2. ReadTransition(p, k, [readOps[p][k] EXCEPT !.state = ASKING_FOR_ALLOCATION])
  <2>1. ASKING_FOR_ALLOCATION \in 0 .. 5
    OBVIOUS
  <2> QED
    BY <2>1, ReadStateTransition, Zenon DEF AskForAllocation, streamVars, userVars
<1>3. AppendedTo(readDescriptorCalled', readDescriptorCalled, p, [op |-> k, ok |-> ~error[p]], Call)
  <2>1. readDescriptorCalled \in [Pipes -> Seq(Call)] /\ k \in Nat /\ (~error[p]) \in BOOLEAN
    BY DEF TypeOK
  <2>2. readDescriptorCalled' = [readDescriptorCalled EXCEPT ![p] = Append(readDescriptorCalled[p], [op |-> k, ok |-> ~error[p]])]
    BY Zenon DEF AskForAllocation
  <2> QED
    BY <2>1, <2>2, Calling, Zenon
<1>4. TypeOK'
  BY <1>1, <1>2, <1>3, Zenon DEF TypeOK, ReadTransition, UpdatedAt, AppendedTo
<1> QED
  BY <1>1, <1>2, <1>3, <1>4, Zenon DEF AskForAllocationEffect

\* ExpectReadCall makes the operation the one that a call of read is for.
LEMMA ExpectReadCallStep ==
  ASSUME TypeOK, NEW p \in Pipes, NEW k \in 1 .. Len(readOps[p]), ExpectReadCall(p, k)
  PROVE  ExpectReadCallEffect(p, k)
<1>1. /\ CanExpectRead(p, k)
      /\ nextMessageGettingAllocation' = [nextMessageGettingAllocation EXCEPT ![p] = k]
      /\ UNCHANGED <<ins, outs, readDescriptorCalled, readCalled>>
  BY Zenon DEF ExpectReadCall, streamVars, userVars
<1>2. ReadTransition(p, k, [readOps[p][k] EXCEPT !.state = ASKING_FOR_ALLOCATION_FIRST_IN_LINE])
  <2>1. ASKING_FOR_ALLOCATION_FIRST_IN_LINE \in 0 .. 5
    OBVIOUS
  <2> QED
    BY <2>1, ReadStateTransition, Zenon DEF ExpectReadCall, streamVars, userVars
<1>3. k \in Nat
  BY DEF TypeOK
<1>4. TypeOK'
  BY <1>1, <1>2, <1>3, Zenon DEF TypeOK, ReadTransition, UpdatedAt
<1> QED
  BY <1>1, <1>2, <1>4, Zenon DEF ExpectReadCallEffect

\* AbortRead calls the callback of read with an error.
LEMMA AbortReadStep ==
  ASSUME TypeOK, NEW p \in Pipes, NEW k \in 1 .. Len(readOps[p]), AbortRead(p, k)
  PROVE  AbortReadEffect(p, k)
<1>1. /\ CanAbortRead(p, k)
      /\ UNCHANGED <<nextMessageGettingAllocation, ins, outs, readDescriptorCalled>>
  BY Zenon DEF AbortRead, streamVars, userVars
<1>2. ReadTransition(p, k, [readOps[p][k] EXCEPT !.state = READ_FINISHED])
  <2>1. READ_FINISHED \in 0 .. 5
    OBVIOUS
  <2> QED
    BY <2>1, ReadStateTransition, Zenon DEF AbortRead, streamVars, userVars
<1>3. AppendedTo(readCalled', readCalled, p, [op |-> k, ok |-> FALSE], Call)
  <2>1. readCalled \in [Pipes -> Seq(Call)] /\ k \in Nat /\ (FALSE) \in BOOLEAN
    BY DEF TypeOK
  <2>2. readCalled' = [readCalled EXCEPT ![p] = Append(readCalled[p], [op |-> k, ok |-> FALSE])]
    BY Zenon DEF AbortRead
  <2> QED
    BY <2>1, <2>2, Calling, Zenon
<1>4. TypeOK'
  BY <1>1, <1>2, <1>3, SMTT(30) DEF TypeOK, ReadTransition, UpdatedAt, AppendedTo
<1> QED
  BY <1>1, <1>2, <1>3, <1>4, Zenon DEF AbortReadEffect

\* FinishRead calls the callback of read.
LEMMA FinishReadStep ==
  ASSUME TypeOK, NEW p \in Pipes, NEW k \in 1 .. Len(readOps[p]), FinishRead(p, k)
  PROVE  FinishReadEffect(p, k)
<1>1. /\ CanFinishRead(p, k)
      /\ UNCHANGED <<nextMessageGettingAllocation, ins, outs, readDescriptorCalled>>
  BY Zenon DEF FinishRead, streamVars, userVars
<1>2. ReadTransition(p, k, [readOps[p][k] EXCEPT !.state = READ_FINISHED])
  <2>1. READ_FINISHED \in 0 .. 5
    OBVIOUS
  <2> QED
    BY <2>1, ReadStateTransition, Zenon DEF FinishRead, streamVars, userVars
<1>3. AppendedTo(readCalled', readCalled, p, [op |-> k, ok |-> ~error[p]], Call)
  <2>1. readCalled \in [Pipes -> Seq(Call)] /\ k \in Nat /\ (~error[p]) \in BOOLEAN
    BY DEF TypeOK
  <2>2. readCalled' = [readCalled EXCEPT ![p] = Append(readCalled[p], [op |-> k, ok |-> ~error[p]])]
    BY Zenon DEF FinishRead
  <2> QED
    BY <2>1, <2>2, Calling, Zenon
<1>4. TypeOK'
  BY <1>1, <1>2, <1>3, SMTT(30) DEF TypeOK, ReadTransition, UpdatedAt, AppendedTo
<1> QED
  BY <1>1, <1>2, <1>3, <1>4, Zenon DEF FinishReadEffect

\* FlushWrite calls the callback of write with an error.
LEMMA FlushWriteStep ==
  ASSUME TypeOK, NEW p \in Pipes, NEW k \in 1 .. Len(writeOps[p]), FlushWrite(p, k)
  PROVE  FlushWriteEffect(p, k)
<1>1. /\ CanFlushWrite(p, k)
      /\ UNCHANGED <<ins, outs>>
  BY Zenon DEF FlushWrite, streamVars, userVars
<1>2. WriteTransition(p, k, [writeOps[p][k] EXCEPT !.state = WRITE_FINISHED])
  <2>1. WRITE_FINISHED \in 0 .. 3
    OBVIOUS
  <2> QED
    BY <2>1, WriteStateTransition, Zenon DEF FlushWrite, streamVars, userVars
<1>3. AppendedTo(writeCalled', writeCalled, p, [op |-> k, ok |-> FALSE], Call)
  <2>1. writeCalled \in [Pipes -> Seq(Call)] /\ k \in Nat /\ (FALSE) \in BOOLEAN
    BY DEF TypeOK
  <2>2. writeCalled' = [writeCalled EXCEPT ![p] = Append(writeCalled[p], [op |-> k, ok |-> FALSE])]
    BY Zenon DEF FlushWrite
  <2> QED
    BY <2>1, <2>2, Calling, Zenon
<1>4. TypeOK'
  BY <1>1, <1>2, <1>3, SMTT(30) DEF TypeOK, WriteTransition, UpdatedAt, AppendedTo
<1> QED
  BY <1>1, <1>2, <1>3, <1>4, Zenon DEF FlushWriteEffect

\* AbortWrite calls the callback of write with an error.
LEMMA AbortWriteStep ==
  ASSUME TypeOK, NEW p \in Pipes, NEW k \in 1 .. Len(writeOps[p]), AbortWrite(p, k)
  PROVE  AbortWriteEffect(p, k)
<1>1. /\ CanAbortWrite(p, k)
      /\ UNCHANGED <<ins, outs>>
  BY Zenon DEF AbortWrite, streamVars, userVars
<1>2. WriteTransition(p, k, [writeOps[p][k] EXCEPT !.state = WRITE_FINISHED])
  <2>1. WRITE_FINISHED \in 0 .. 3
    OBVIOUS
  <2> QED
    BY <2>1, WriteStateTransition, Zenon DEF AbortWrite, streamVars, userVars
<1>3. AppendedTo(writeCalled', writeCalled, p, [op |-> k, ok |-> FALSE], Call)
  <2>1. writeCalled \in [Pipes -> Seq(Call)] /\ k \in Nat /\ (FALSE) \in BOOLEAN
    BY DEF TypeOK
  <2>2. writeCalled' = [writeCalled EXCEPT ![p] = Append(writeCalled[p], [op |-> k, ok |-> FALSE])]
    BY Zenon DEF AbortWrite
  <2> QED
    BY <2>1, <2>2, Calling, Zenon
<1>4. TypeOK'
  BY <1>1, <1>2, <1>3, ZenonT(30) DEF TypeOK, WriteTransition, UpdatedAt, AppendedTo
<1> QED
  BY <1>1, <1>2, <1>3, <1>4, Zenon DEF AbortWriteEffect

\* FinishWrite calls the callback of write.
LEMMA FinishWriteStep ==
  ASSUME TypeOK, NEW p \in Pipes, NEW k \in 1 .. Len(writeOps[p]), FinishWrite(p, k)
  PROVE  FinishWriteEffect(p, k)
<1>1. /\ CanFinishWrite(p, k)
      /\ UNCHANGED <<ins, outs>>
  BY Zenon DEF FinishWrite, streamVars, userVars
<1>2. WriteTransition(p, k, [writeOps[p][k] EXCEPT !.state = WRITE_FINISHED])
  <2>1. WRITE_FINISHED \in 0 .. 3
    OBVIOUS
  <2> QED
    BY <2>1, WriteStateTransition, Zenon DEF FinishWrite, streamVars, userVars
<1>3. AppendedTo(writeCalled', writeCalled, p, [op |-> k, ok |-> ~error[p]], Call)
  <2>1. writeCalled \in [Pipes -> Seq(Call)] /\ k \in Nat /\ (~error[p]) \in BOOLEAN
    BY DEF TypeOK
  <2>2. writeCalled' = [writeCalled EXCEPT ![p] = Append(writeCalled[p], [op |-> k, ok |-> ~error[p]])]
    BY Zenon DEF FinishWrite
  <2> QED
    BY <2>1, <2>2, Calling, Zenon
<1>4. TypeOK'
  BY <1>1, <1>2, <1>3, SMTT(30) DEF TypeOK, WriteTransition, UpdatedAt, AppendedTo
<1> QED
  BY <1>1, <1>2, <1>3, <1>4, Zenon DEF FinishWriteEffect

\* ReadDescriptorOfMessage posts the read of a descriptor.
LEMMA ReadDescriptorOfMessageStep ==
  ASSUME TypeOK, NEW p \in Pipes, NEW k \in 1 .. Len(readOps[p]), ReadDescriptorOfMessage(p, k)
  PROVE  ReadDescriptorOfMessageEffect(p, k)
<1>1. /\ CanReadDescriptor(p, k)
      /\ UNCHANGED <<nextMessageGettingAllocation, outs, readDescriptorCalled, readCalled>>
  BY Zenon DEF ReadDescriptorOfMessage, userVars
<1>2. ReadTransition(p, k, [readOps[p][k] EXCEPT !.state = READING_DESCRIPTOR])
  <2>1. READING_DESCRIPTOR \in 0 .. 5
    OBVIOUS
  <2> QED
    BY <2>1, ReadStateTransition, Zenon DEF ReadDescriptorOfMessage, userVars
<1> DEFINE old == ins[p]["descriptor"]
           new == old \o Items("descriptor", k, 1)
<1>3. /\ ins \in [Pipes -> [Streams -> Seq(Item)]] /\ old \in Seq(Item)
      /\ k \in Nat /\ 1 \in Nat /\ "descriptor" \in Kinds /\ "descriptor" \in Streams
  BY SMTT(30) DEF TypeOK, Kinds, Streams
<1>4. More(new, old, "descriptor", k, 1)
  BY <1>3, AddingItems, Zenon
<1>5. ins' = [ins EXCEPT ![p] = [ins[p] EXCEPT !["descriptor"] = new]]
  BY Zenon DEF ReadDescriptorOfMessage
<1>6. new \in Seq(Item)
  BY <1>4, Zenon DEF More
<1> HIDE DEF new
<1>7. /\ OnlyAt(ins', ins, p)
      /\ ins'[p]["descriptor"] = new
      /\ \A s \in {"channel", "reply"} : ins'[p][s] = ins[p][s]
  BY <1>3, <1>5, <1>6, Zenon DEF OnlyAt, Streams
<1>8. TypeOK'
  BY <1>1, <1>2, <1>7, Zenon DEF TypeOK, ReadTransition, UpdatedAt, OnlyAt
<1> QED
  BY <1>1, <1>2, <1>4, <1>7, <1>8, Zenon DEF ReadDescriptorOfMessageEffect

\* A read operation that counts more payloads and tensors.
LEMMA ReadOperationCounts ==
  ASSUME NEW op \in ReadOperation, NEW state \in 0 .. 5, NEW a \in Nat, NEW b \in Nat
  PROVE  [op EXCEPT !.state = state, !.payloads = @ + a, !.tensors = @ + b] \in ReadOperation
<1> DEFINE op0 == [op EXCEPT !.state = state]
<1>1. op0 \in ReadOperation
  BY ZenonT(30) DEF ReadOperation
<1>2. [op EXCEPT !.state = state, !.payloads = @ + a, !.tensors = @ + b] = [op0 EXCEPT !.payloads = @ + a, !.tensors = @ + b]
  BY Zenon
<1> HIDE DEF op0
<1> DEFINE op1 == [op0 EXCEPT !.payloads = @ + a]
<1>3. op0.payloads + a \in Int
  BY <1>1 DEF ReadOperation
<1>4. op1 \in ReadOperation
  BY <1>1, <1>3, Zenon DEF ReadOperation
<1>5. [op0 EXCEPT !.payloads = @ + a, !.tensors = @ + b] = [op1 EXCEPT !.tensors = @ + b]
  BY Zenon
<1> HIDE DEF op1
<1>6. op1.tensors + b \in Int
  BY <1>4 DEF ReadOperation
<1>7. [op1 EXCEPT !.tensors = @ + b] \in ReadOperation
  BY <1>4, <1>6, Zenon DEF ReadOperation
<1> QED
  BY <1>2, <1>5, <1>7, ZenonT(30)

\* A write operation that counts more payloads and tensors.
LEMMA WriteOperationCounts ==
  ASSUME NEW op \in WriteOperation, NEW state \in 0 .. 3, NEW a \in Nat, NEW b \in Nat
  PROVE  [op EXCEPT !.state = state, !.payloads = @ + a, !.tensors = @ + b] \in WriteOperation
<1> DEFINE op0 == [op EXCEPT !.state = state]
<1>1. op0 \in WriteOperation
  BY ZenonT(30) DEF WriteOperation
<1>2. [op EXCEPT !.state = state, !.payloads = @ + a, !.tensors = @ + b] = [op0 EXCEPT !.payloads = @ + a, !.tensors = @ + b]
  BY Zenon
<1> HIDE DEF op0
<1> DEFINE op1 == [op0 EXCEPT !.payloads = @ + a]
<1>3. op0.payloads + a \in Int
  BY <1>1 DEF WriteOperation
<1>4. op1 \in WriteOperation
  BY <1>1, <1>3, Zenon DEF WriteOperation
<1>5. [op0 EXCEPT !.payloads = @ + a, !.tensors = @ + b] = [op1 EXCEPT !.tensors = @ + b]
  BY Zenon
<1> HIDE DEF op1
<1>6. op1.tensors + b \in Int
  BY <1>4 DEF WriteOperation
<1>7. [op1 EXCEPT !.tensors = @ + b] \in WriteOperation
  BY <1>4, <1>6, Zenon DEF WriteOperation
<1> QED
  BY <1>2, <1>5, <1>7, Zenon

\* A write operation that counts more payloads.
LEMMA WriteOperationCountsPayloads ==
  ASSUME NEW op \in WriteOperation, NEW state \in 0 .. 3, NEW a \in Nat
  PROVE  [op EXCEPT !.state = state, !.payloads = @ + a] \in WriteOperation
<1> DEFINE op0 == [op EXCEPT !.state = state]
<1>1. op0 \in WriteOperation
  BY ZenonT(30) DEF WriteOperation
<1>2. [op EXCEPT !.state = state, !.payloads = @ + a] = [op0 EXCEPT !.payloads = @ + a]
  BY Zenon
<1> HIDE DEF op0
<1>3. op0.payloads + a \in Int
  BY <1>1 DEF WriteOperation
<1>4. [op0 EXCEPT !.payloads = @ + a] \in WriteOperation
  BY <1>1, <1>3, Zenon DEF WriteOperation
<1> QED
  BY <1>2, <1>4, Zenon

\* A write operation that counts more tensors.
LEMMA WriteOperationCountsTensors ==
  ASSUME NEW op \in WriteOperation, NEW state \in 0 .. 3, NEW a \in Nat
  PROVE  [op EXCEPT !.state = state, !.tensors = @ + a] \in WriteOperation
<1> DEFINE op0 == [op EXCEPT !.state = state]
<1>1. op0 \in WriteOperation
  BY Zenon DEF WriteOperation
<1>2. [op EXCEPT !.state = state, !.tensors = @ + a] = [op0 EXCEPT !.tensors = @ + a]
  BY Zenon
<1> HIDE DEF op0
<1>3. op0.tensors + a \in Int
  BY <1>1 DEF WriteOperation
<1>4. [op0 EXCEPT !.tensors = @ + a] \in WriteOperation
  BY <1>1, <1>3, Zenon DEF WriteOperation
<1> QED
  BY <1>2, <1>4, Zenon

\* ReadPayloads posts the reads of the payloads, the recvs of the tensors and
\* the write of the descriptor reply, if the other end waits for one.
LEMMA ReadPayloadsStep ==
  ASSUME TypeOK, NEW p \in Pipes, NEW k \in 1 .. Len(readOps[p]), ReadPayloads(p, k)
  PROVE  ReadPayloadsEffect(p, k)
<1> DEFINE d == readOps[p][k].descriptor
           op == [readOps[p][k] EXCEPT !.state = READING_PAYLOADS_AND_RECEIVING_TENSORS,
                                       !.payloads = @ + d.payloads, !.tensors = @ + d.tensors]
           replies == IF d.missing THEN 1 ELSE 0
<1>1. /\ CanReadPayloads(p, k)
      /\ UNCHANGED <<nextMessageGettingAllocation, readDescriptorCalled, readCalled>>
  BY Zenon DEF ReadPayloads, userVars
<1>2. readOps[p][k] \in ReadOperation /\ readOps \in [Pipes -> Seq(ReadOperation)]
  BY DEF TypeOK
<1>3. d \in Shape /\ d.payloads \in Nat /\ d.tensors \in Nat /\ replies \in Nat
  BY <1>2, SMTT(30) DEF ReadOperation, Shape
<1>4. op \in ReadOperation
  <2>1. READING_PAYLOADS_AND_RECEIVING_TENSORS \in 0 .. 5
    OBVIOUS
  <2> QED
    BY <1>2, <1>3, <2>1, ReadOperationCounts, Zenon
<1>5. readOps' = [readOps EXCEPT ![p] = [readOps[p] EXCEPT ![k] = op]]
  <2>1. readOps' = [readOps EXCEPT ![p][k].state = READING_PAYLOADS_AND_RECEIVING_TENSORS,
                                   ![p][k].payloads = @ + d.payloads,
                                   ![p][k].tensors = @ + d.tensors]
    BY Zenon DEF ReadPayloads
  <2> QED
    BY <1>2, <1>3, <2>1, ZenonT(30) DEF ReadOperation
<1> HIDE DEF op
<1>6. UpdatedAt(readOps', readOps, p, k, op, ReadOperation)
  BY <1>4, <1>5, ReadUpdate, Zenon
<1>7. ReadTransition(p, k, op)
  <2>1. /\ At(p, "reads", k) /\ Advanced(p)
        /\ UNCHANGED <<established, error, writeOps, insDone, outsDone, writeCalled>>
    BY Zenon DEF ReadPayloads, userVars
  <2> QED
    BY <1>2, <1>4, <1>6, <2>1, AdvancedUpdate, Zenon DEF ReadTransition
<1> DEFINE i1 == ins[p]["descriptor"] \o Items("payload", k, d.payloads)
           i2 == ins[p]["channel"] \o Items("tensor", k, d.tensors)
           o1 == outs[p]["reply"] \o Items("reply", k, replies)
<1>8. /\ ins \in [Pipes -> [Streams -> Seq(Item)]] /\ outs \in [Pipes -> [Streams -> Seq(Item)]]
      /\ ins[p]["descriptor"] \in Seq(Item) /\ ins[p]["channel"] \in Seq(Item)
      /\ outs[p]["reply"] \in Seq(Item) /\ k \in Nat
      /\ "payload" \in Kinds /\ "tensor" \in Kinds /\ "reply" \in Kinds
      /\ "descriptor" \in Streams /\ "channel" \in Streams /\ "reply" \in Streams
  <2>1. /\ "payload" \in Kinds /\ "tensor" \in Kinds /\ "reply" \in Kinds
        /\ "descriptor" \in Streams /\ "channel" \in Streams /\ "reply" \in Streams
    BY ZenonT(30) DEF Kinds, Streams
  <2>2. ins \in [Pipes -> [Streams -> Seq(Item)]] /\ outs \in [Pipes -> [Streams -> Seq(Item)]]
    BY ZenonT(30) DEF TypeOK
  <2>3. k \in Nat
    BY DEF TypeOK
  <2> QED
    BY <2>1, <2>2, <2>3, ZenonT(30)
<1>9. /\ More(i1, ins[p]["descriptor"], "payload", k, d.payloads)
      /\ More(i2, ins[p]["channel"], "tensor", k, d.tensors)
      /\ More(o1, outs[p]["reply"], "reply", k, replies)
  <2> HIDE DEF d, replies
  <2> QED
    BY <1>3, <1>8, AddingItems, Zenon
<1>10. /\ ins' = [ins EXCEPT ![p]["descriptor"] = i1, ![p]["channel"] = i2]
       /\ outs' = [outs EXCEPT ![p]["reply"] = o1]
  BY <1>2, <1>8, ZenonT(30) DEF ReadPayloads
<1>11. i1 \in Seq(Item) /\ i2 \in Seq(Item) /\ o1 \in Seq(Item)
  BY <1>2, <1>3, <1>8, <1>9, ZenonT(30) DEF More
<1> HIDE DEF i1, i2, o1
<1>12. /\ OnlyAt(ins', ins, p) /\ ins'[p]["descriptor"] = i1 /\ ins'[p]["channel"] = i2
       /\ ins'[p]["reply"] = ins[p]["reply"]
  BY <1>2, <1>8, <1>10, <1>11, ZenonT(30) DEF OnlyAt, Streams
<1>13. /\ OnlyAt(outs', outs, p) /\ outs'[p]["reply"] = o1
       /\ \A s \in {"descriptor", "channel"} : outs'[p][s] = outs[p][s]
  BY <1>8, <1>10, <1>11, SMTT(30) DEF OnlyAt, Streams
<1>14. TypeOK'
  BY <1>1, <1>2, <1>3, <1>7, <1>8, <1>12, <1>13, ZenonT(30) DEF TypeOK, ReadTransition, UpdatedAt, OnlyAt
<1> QED
  BY <1>1, <1>3, <1>7, <1>9, <1>12, <1>13, <1>14, ZenonT(30) DEF op, ReadPayloadsEffect

\* The messages of the sessions are shapes of messages.
LEMMA ShapesAreShapes == Shapes \subseteq Shape
<1> SUFFICES ASSUME NEW m \in Shapes  PROVE m \in Shape
  BY ZenonT(30)
<1>1. PICK p \in Pipes, s \in Sessions : m \in {s.writes[p][k] : k \in DOMAIN s.writes[p]}
  BY DEF Shapes
<1>2. PICK k \in DOMAIN s.writes[p] : m = s.writes[p][k]
  BY <1>1, ZenonT(30)
<1>3. s.writes[p] \in Seq(Shape)
  BY PipesAssumption
<1> QED
  BY <1>2, <1>3

\* SendMessage posts the writes of the descriptor and the payloads, and the
\* sends of the tensors.
LEMMA SendMessageStep ==
  ASSUME TypeOK, NEW p \in Pipes, NEW k \in 1 .. Len(writeOps[p]), SendMessage(p, k)
  PROVE  SendMessageEffect(p, k)
<1> DEFINE m == writeOps[p][k].message
           op == [writeOps[p][k] EXCEPT !.state = WRITING_PAYLOADS_AND_SENDING_TENSORS, !.payloads = @ + m.payloads, !.tensors = @ + m.tensors]
<1>1. CanSendMessage(p, k) /\ UNCHANGED <<ins, writeCalled>>
  BY ZenonT(30) DEF SendMessage, userVars
<1>2. writeOps[p][k] \in WriteOperation /\ writeOps \in [Pipes -> Seq(WriteOperation)]
  BY DEF TypeOK
<1>3. m \in Shape /\ m.payloads \in Nat /\ m.tensors \in Nat
  BY <1>2, ShapesAreShapes, SMTT(30) DEF WriteOperation, Shape
<1>4. op \in WriteOperation
  <2>1. WRITING_PAYLOADS_AND_SENDING_TENSORS \in 0 .. 3
    OBVIOUS
  <2> QED
    BY <1>2, <1>3, <2>1, WriteOperationCounts, Zenon
<1>5. writeOps' = [writeOps EXCEPT ![p] = [writeOps[p] EXCEPT ![k] = op]]
  <2>1. writeOps' = [writeOps EXCEPT ![p][k].state = WRITING_PAYLOADS_AND_SENDING_TENSORS,
                                     ![p][k].payloads = @ + m.payloads,
                                     ![p][k].tensors = @ + m.tensors]
    BY Zenon DEF SendMessage
  <2> QED
    BY <1>2, <1>3, <2>1, ZenonT(30) DEF WriteOperation
<1> HIDE DEF op
<1>6. UpdatedAt(writeOps', writeOps, p, k, op, WriteOperation)
  BY <1>4, <1>5, WriteUpdate, Zenon
<1>7. WriteTransition(p, k, op)
  <2>1. /\ At(p, "writes", k) /\ Advanced(p)
        /\ UNCHANGED <<established, error, readOps, nextMessageGettingAllocation, insDone,
                       outsDone, readDescriptorCalled, readCalled>>
    BY Zenon DEF SendMessage, userVars
  <2> QED
    BY <1>2, <1>4, <1>6, <2>1, AdvancedUpdate, Zenon DEF WriteTransition
<1> DEFINE o1 == outs[p]["descriptor"] \o DescriptorAndPayloads(k, m)
           o2 == outs[p]["channel"] \o Items("tensor", k, m.tensors)
<1>8. /\ ins \in [Pipes -> [Streams -> Seq(Item)]] /\ outs \in [Pipes -> [Streams -> Seq(Item)]]
      /\ outs[p]["descriptor"] \in Seq(Item) /\ outs[p]["channel"] \in Seq(Item)
      /\ ins[p]["reply"] \in Seq(Item) /\ k \in Nat /\ 1 \in Nat
      /\ "tensor" \in Kinds /\ "reply" \in Kinds
      /\ "descriptor" \in Streams /\ "channel" \in Streams /\ "reply" \in Streams
  <2>1. /\ "tensor" \in Kinds /\ "reply" \in Kinds
        /\ "descriptor" \in Streams /\ "channel" \in Streams /\ "reply" \in Streams
    BY ZenonT(30) DEF Kinds, Streams
  <2>2. ins \in [Pipes -> [Streams -> Seq(Item)]] /\ outs \in [Pipes -> [Streams -> Seq(Item)]]
    BY ZenonT(30) DEF TypeOK
  <2>3. k \in Nat
    BY DEF TypeOK
  <2> QED
    BY <2>1, <2>2, <2>3, ZenonT(30)
<1>9. /\ MoreMessage(o1, outs[p]["descriptor"], k, m.payloads)
      /\ More(o2, outs[p]["channel"], "tensor", k, m.tensors)
  <2> HIDE DEF m
  <2> QED
    BY <1>3, <1>8, AddingItems, AddingMessage, ZenonT(30)
<1>10. /\ outs' = [outs EXCEPT ![p]["descriptor"] = o1, ![p]["channel"] = o2]
  BY <1>2, ZenonT(30) DEF SendMessage
<1> HIDE DEF o1, o2
<1>11. o1 \in Seq(Item) /\ o2 \in Seq(Item)
  BY <1>9, Zenon DEF More, MoreMessage
<1>12. /\ OnlyAt(outs', outs, p)
       /\ outs'[p]["descriptor"] = o1
       /\ outs'[p]["channel"] = o2
       /\ outs'[p]["reply"] = outs[p]["reply"]
  BY <1>8, <1>10, <1>11, SMTT(30) DEF OnlyAt, Streams
<1>14. TypeOK'
  BY <1>1, <1>2, <1>3, <1>7, <1>8, <1>12, ZenonT(30) DEF TypeOK, WriteTransition, UpdatedAt, OnlyAt
<1> QED
  BY <1>1, <1>3, <1>7, <1>9, <1>12, <1>14, ZenonT(30) DEF op, SendMessageEffect

\* AskTargetDevices posts the writes of the descriptor and the payloads, and
\* the read of the descriptor reply.
LEMMA AskTargetDevicesStep ==
  ASSUME TypeOK, NEW p \in Pipes, NEW k \in 1 .. Len(writeOps[p]), AskTargetDevices(p, k)
  PROVE  AskTargetDevicesEffect(p, k)
<1> DEFINE m == writeOps[p][k].message
           op == [writeOps[p][k] EXCEPT !.state = WRITING_PAYLOADS_AND_READING_TARGET_DEVICES, !.payloads = @ + m.payloads]
<1>1. CanAskTargetDevices(p, k) /\ UNCHANGED writeCalled
  BY Zenon DEF AskTargetDevices, userVars
<1>2. writeOps[p][k] \in WriteOperation /\ writeOps \in [Pipes -> Seq(WriteOperation)]
  BY DEF TypeOK
<1>3. m \in Shape /\ m.payloads \in Nat /\ m.tensors \in Nat
  BY <1>2, ShapesAreShapes, ZenonT(30) DEF WriteOperation, Shape
<1>4. op \in WriteOperation
  <2>1. WRITING_PAYLOADS_AND_READING_TARGET_DEVICES \in 0 .. 3
    OBVIOUS
  <2> QED
    BY <1>2, <1>3, <2>1, WriteOperationCountsPayloads, Zenon
<1>5. writeOps' = [writeOps EXCEPT ![p] = [writeOps[p] EXCEPT ![k] = op]]
  <2>1. writeOps' = [writeOps EXCEPT ![p][k].state = WRITING_PAYLOADS_AND_READING_TARGET_DEVICES,
                                     ![p][k].payloads = @ + m.payloads]
    BY Zenon DEF AskTargetDevices
  <2> QED
    BY <1>2, <1>3, <2>1, ZenonT(30) DEF WriteOperation
<1> HIDE DEF op
<1>6. UpdatedAt(writeOps', writeOps, p, k, op, WriteOperation)
  BY <1>4, <1>5, WriteUpdate, Zenon
<1>7. WriteTransition(p, k, op)
  <2>1. /\ At(p, "writes", k) /\ Advanced(p)
        /\ UNCHANGED <<established, error, readOps, nextMessageGettingAllocation, insDone,
                       outsDone, readDescriptorCalled, readCalled>>
    BY Zenon DEF AskTargetDevices, userVars
  <2> QED
    BY <1>2, <1>4, <1>6, <2>1, AdvancedUpdate, Zenon DEF WriteTransition
<1> DEFINE o1 == outs[p]["descriptor"] \o DescriptorAndPayloads(k, m)
           i1 == ins[p]["reply"] \o Items("reply", k, 1)
<1>8. /\ ins \in [Pipes -> [Streams -> Seq(Item)]] /\ outs \in [Pipes -> [Streams -> Seq(Item)]]
      /\ outs[p]["descriptor"] \in Seq(Item) /\ outs[p]["channel"] \in Seq(Item)
      /\ ins[p]["reply"] \in Seq(Item) /\ k \in Nat /\ 1 \in Nat
      /\ "tensor" \in Kinds /\ "reply" \in Kinds
      /\ "descriptor" \in Streams /\ "channel" \in Streams /\ "reply" \in Streams
  <2>1. /\ "tensor" \in Kinds /\ "reply" \in Kinds
        /\ "descriptor" \in Streams /\ "channel" \in Streams /\ "reply" \in Streams
    BY Zenon DEF Kinds, Streams
  <2>2. ins \in [Pipes -> [Streams -> Seq(Item)]] /\ outs \in [Pipes -> [Streams -> Seq(Item)]]
    BY Zenon DEF TypeOK
  <2>3. k \in Nat
    BY DEF TypeOK
  <2> QED
    BY <2>1, <2>2, <2>3, Zenon
<1>9. /\ MoreMessage(o1, outs[p]["descriptor"], k, m.payloads)
      /\ More(i1, ins[p]["reply"], "reply", k, 1)
  <2> HIDE DEF m
  <2> QED
    BY <1>3, <1>8, AddingItems, AddingMessage, ZenonT(30)
<1>10. /\ outs' = [outs EXCEPT ![p]["descriptor"] = o1]
       /\ ins' = [ins EXCEPT ![p]["reply"] = i1]
  BY ZenonT(30) DEF AskTargetDevices
<1>11. o1 \in Seq(Item) /\ i1 \in Seq(Item)
  BY <1>9, ZenonT(30) DEF More, MoreMessage
<1> HIDE DEF o1, i1
<1>12. /\ OnlyAt(outs', outs, p)
       /\ outs'[p]["descriptor"] = o1
       /\ outs'[p]["channel"] = outs[p]["channel"]
       /\ outs'[p]["reply"] = outs[p]["reply"]
  BY <1>8, <1>10, <1>11, ZenonT(30) DEF OnlyAt, Streams
<1>13. /\ OnlyAt(ins', ins, p) /\ ins'[p]["reply"] = i1
       /\ \A s \in {"descriptor", "channel"} : ins'[p][s] = ins[p][s]
  BY <1>8, <1>10, <1>11, ZenonT(30) DEF OnlyAt, Streams
<1>14. TypeOK'
  BY <1>1, <1>2, <1>3, <1>7, <1>8, <1>12, <1>13, ZenonT(30) DEF TypeOK, WriteTransition, UpdatedAt, OnlyAt
<1> QED
  BY <1>1, <1>3, <1>7, <1>9, <1>12, <1>13, <1>14, ZenonT(30) DEF op, AskTargetDevicesEffect

\* SendTensors posts the sends of the tensors.
LEMMA SendTensorsStep ==
  ASSUME TypeOK, NEW p \in Pipes, NEW k \in 1 .. Len(writeOps[p]), SendTensors(p, k)
  PROVE  SendTensorsEffect(p, k)
<1> DEFINE m == writeOps[p][k].message
           op == [writeOps[p][k] EXCEPT !.state = WRITING_PAYLOADS_AND_SENDING_TENSORS, !.tensors = @ + m.tensors]
<1>1. CanSendTensors(p, k) /\ UNCHANGED <<ins, writeCalled>>
  BY Zenon DEF SendTensors, userVars
<1>2. writeOps[p][k] \in WriteOperation /\ writeOps \in [Pipes -> Seq(WriteOperation)]
  BY DEF TypeOK
<1>3. m \in Shape /\ m.payloads \in Nat /\ m.tensors \in Nat
  BY <1>2, ShapesAreShapes, Zenon DEF WriteOperation, Shape
<1>4. op \in WriteOperation
  <2>1. WRITING_PAYLOADS_AND_SENDING_TENSORS \in 0 .. 3
    OBVIOUS
  <2> QED
    BY <1>2, <1>3, <2>1, WriteOperationCountsTensors, Zenon
<1>5. writeOps' = [writeOps EXCEPT ![p] = [writeOps[p] EXCEPT ![k] = op]]
  <2>1. writeOps' = [writeOps EXCEPT ![p][k].state = WRITING_PAYLOADS_AND_SENDING_TENSORS,
                                     ![p][k].tensors = @ + m.tensors]
    BY Zenon DEF SendTensors
  <2> QED
    BY <1>2, <1>3, <2>1, ZenonT(30) DEF WriteOperation
<1> HIDE DEF op
<1>6. UpdatedAt(writeOps', writeOps, p, k, op, WriteOperation)
  BY <1>4, <1>5, WriteUpdate, Zenon
<1>7. WriteTransition(p, k, op)
  <2>1. /\ At(p, "writes", k) /\ Advanced(p)
        /\ UNCHANGED <<established, error, readOps, nextMessageGettingAllocation, insDone,
                       outsDone, readDescriptorCalled, readCalled>>
    BY Zenon DEF SendTensors, userVars
  <2> QED
    BY <1>2, <1>4, <1>6, <2>1, AdvancedUpdate, Zenon DEF WriteTransition
<1> DEFINE o2 == outs[p]["channel"] \o Items("tensor", k, m.tensors)
<1>8. /\ ins \in [Pipes -> [Streams -> Seq(Item)]] /\ outs \in [Pipes -> [Streams -> Seq(Item)]]
      /\ outs[p]["descriptor"] \in Seq(Item) /\ outs[p]["channel"] \in Seq(Item)
      /\ ins[p]["reply"] \in Seq(Item) /\ k \in Nat /\ 1 \in Nat
      /\ "tensor" \in Kinds /\ "reply" \in Kinds
      /\ "descriptor" \in Streams /\ "channel" \in Streams /\ "reply" \in Streams
  <2>1. /\ "tensor" \in Kinds /\ "reply" \in Kinds
        /\ "descriptor" \in Streams /\ "channel" \in Streams /\ "reply" \in Streams
    BY Zenon DEF Kinds, Streams
  <2>2. ins \in [Pipes -> [Streams -> Seq(Item)]] /\ outs \in [Pipes -> [Streams -> Seq(Item)]]
    BY Zenon DEF TypeOK
  <2>3. k \in Nat
    BY DEF TypeOK
  <2> QED
    BY <2>1, <2>2, <2>3, Zenon
<1>9. /\ More(o2, outs[p]["channel"], "tensor", k, m.tensors)
  <2> HIDE DEF m
  <2> QED
    BY <1>3, <1>8, AddingItems, AddingMessage, ZenonT(30)
<1>10. /\ outs' = [outs EXCEPT ![p]["channel"] = o2]
  BY ZenonT(30) DEF SendTensors
<1>11. o2 \in Seq(Item)
  BY <1>9, ZenonT(30) DEF More, MoreMessage
<1> HIDE DEF o2
<1>12. /\ OnlyAt(outs', outs, p)
       /\ outs'[p]["descriptor"] = outs[p]["descriptor"]
       /\ outs'[p]["channel"] = o2
       /\ outs'[p]["reply"] = outs[p]["reply"]
  BY <1>8, <1>10, <1>11, SMTT(30) DEF OnlyAt, Streams
<1>14. TypeOK'
  BY <1>1, <1>2, <1>3, <1>7, <1>8, <1>12, ZenonT(30) DEF TypeOK, WriteTransition, UpdatedAt, OnlyAt
<1> QED
  BY <1>1, <1>3, <1>7, <1>9, <1>12, <1>14, Zenon DEF op, SendTensorsEffect

-----------------------------------------------------------------------------
(* The bodies of callbacks.                                                *)

\* A task that is about to advance one operation.
LEMMA StartingTask ==
  ASSUME TypeOK, NEW p \in Pipes, NEW what \in {"reads", "writes"}, NEW k \in Nat,
         todo' = [todo EXCEPT ![p] = << AdvanceOperation(what, k) >>]
  PROVE  Starts(p, << AdvanceOperation(what, k) >>)
<1>1. AdvanceOperation(what, k) \in Piece
  BY ZenonT(30) DEF AdvanceOperation, Piece, AdvancePiece
<1>2. todo \in [Pipes -> Seq(Piece)]
  BY ZenonT(30) DEF TypeOK
<1> DEFINE x == AdvanceOperation(what, k)
<1> HIDE DEF x
<1>3. x \in Piece /\ todo' = [todo EXCEPT ![p] = << x >>]
  BY <1>1, ZenonT(30) DEF x
<1>4. Starts(p, << x >>)
  BY <1>2, <1>3 DEF Starts
<1> QED
  BY <1>4, ZenonT(30) DEF x

\* The piece that the body of a callback of a read is.
LEMMA InBodyPiece ==
  ASSUME TypeOK, NEW p \in Pipes, NEW kind, Body(p, "in", kind)
  PROVE  /\ 1 \in 1 .. Len(todo[p]) /\ Head(todo[p]) = todo[p][1]
         /\ todo[p][1] \in InPiece /\ todo[p][1].what = "in" /\ todo[p][1].kind = kind
<1>1. todo[p] \in Seq(Piece) /\ todo[p] # << >> /\ Head(todo[p]).what = "in" /\ Head(todo[p]).kind = kind
  BY Zenon DEF TypeOK, Body, Running, Idle
<1>2. 1 \in 1 .. Len(todo[p]) /\ Head(todo[p]) = todo[p][1]
  BY <1>1
<1> QED
  BY <1>1, <1>2 DEF Piece, AdvancePiece, InPiece, OutPiece

\* The piece that the body of a callback of a write is.
LEMMA OutBodyPiece ==
  ASSUME TypeOK, NEW p \in Pipes, NEW kind, Body(p, "out", kind)
  PROVE  /\ 1 \in 1 .. Len(todo[p]) /\ Head(todo[p]) = todo[p][1]
         /\ todo[p][1] \in OutPiece /\ todo[p][1].what = "out" /\ todo[p][1].kind = kind
<1>1. todo[p] \in Seq(Piece) /\ todo[p] # << >> /\ Head(todo[p]).what = "out" /\ Head(todo[p]).kind = kind
  BY Zenon DEF TypeOK, Body, Running, Idle
<1>2. 1 \in 1 .. Len(todo[p]) /\ Head(todo[p]) = todo[p][1]
  BY <1>1
<1> QED
  BY <1>1, <1>2, SMTT(30) DEF Piece, AdvancePiece, InPiece, OutPiece

\* DoneReadingDescriptor notes the descriptor, unless the pipe met an error.
LEMMA DoneReadingDescriptorStep ==
  ASSUME TypeOK, NEW p \in Pipes, DoneReadingDescriptor(p),
         NEW k \in 1 .. Len(readOps[p]), todo[p][1].at = k
  PROVE  DoneReadingDescriptorEffect(p, k)
<1> DEFINE shape == IF error[p] THEN readOps[p][k].descriptor ELSE todo[p][1].got
           op == [readOps[p][k] EXCEPT !.doneReadingDescriptor = TRUE, !.descriptor = shape]
<1>1. /\ 1 \in 1 .. Len(todo[p]) /\ Head(todo[p]) = todo[p][1]
      /\ todo[p][1] \in InPiece /\ todo[p][1].what = "in" /\ todo[p][1].kind = "descriptor"
  BY InBodyPiece, Zenon DEF DoneReadingDescriptor
<1>2. readOps[p][k] \in ReadOperation /\ readOps \in [Pipes -> Seq(ReadOperation)] /\ k \in Nat
  BY DEF TypeOK
<1>3. shape \in Shape
  BY <1>1, <1>2, SMTT(30) DEF InPiece, ReadOperation
<1>4. op = [readOps[p][k] EXCEPT !.doneReadingDescriptor = TRUE,
                                 !.descriptor = IF error[p] THEN @ ELSE todo[p][1].got]
  BY Zenon DEF ReadOperation
<1> DEFINE op0 == [readOps[p][k] EXCEPT !.doneReadingDescriptor = TRUE]
<1>5. op0 \in ReadOperation
  BY <1>1, <1>2, ZenonT(30) DEF ReadOperation
<1>6. op \in ReadOperation
  <2>1. op = [op0 EXCEPT !.descriptor = shape]
    BY Zenon
  <2> HIDE DEF op0, shape
  <2> QED
    BY <1>1, <1>2, <1>3, <1>5, <2>1, ZenonT(30) DEF ReadOperation
<1>7. UpdatedAt(readOps', readOps, p, k, op, ReadOperation)
  <2>1. readOps' = [readOps EXCEPT ![p][k].doneReadingDescriptor = TRUE,
                                   ![p][k].descriptor = shape]
    BY <1>1, Zenon DEF DoneReadingDescriptor
  <2> DEFINE g == [readOps EXCEPT ![p] = [readOps[p] EXCEPT ![k] = op0]]
  <2>2. readOps' = [g EXCEPT ![p] = [g[p] EXCEPT ![k] = [g[p][k] EXCEPT !.descriptor = shape]]]
    BY <2>1, Zenon
  <2>3. op = [op0 EXCEPT !.descriptor = shape]
    BY Zenon
  <2> HIDE DEF shape, op0, op
  <2>4. UpdatedAt(g, readOps, p, k, op0, ReadOperation)
    BY <1>2, <1>5, Updating, Zenon
  <2> HIDE DEF g
  <2>5. g \in [Pipes -> Seq(ReadOperation)] /\ k \in 1 .. Len(g[p]) /\ g[p][k] = op0
    BY <2>4, ZenonT(30) DEF UpdatedAt
  <2>6. readOps' = [g EXCEPT ![p] = [g[p] EXCEPT ![k] = op]]
    BY <2>2, <2>3, <2>5, Zenon
  <2>7. UpdatedAt([g EXCEPT ![p] = [g[p] EXCEPT ![k] = op]], g, p, k, op, ReadOperation)
    BY <1>6, <2>5, Updating, ZenonT(30)
  <2>8. UpdatedAt(readOps', g, p, k, op, ReadOperation)
    BY <2>6, <2>7, Zenon
  <2> QED
    BY <2>4, <2>8, ZenonT(30) DEF UpdatedAt
<1> HIDE DEF op
<1>8. Starts(p, << AdvanceOperation("reads", k) >>)
  BY <1>1, <1>2, StartingTask, Zenon DEF DoneReadingDescriptor
<1>9. ReadBody(p, k, "descriptor", op)
  BY <1>1, <1>2, <1>6, <1>7, <1>8, ZenonT(30) DEF ReadBody, DoneReadingDescriptor, streamVars, userVars
<1>10. TypeOK'
  BY <1>1, <1>9, ZenonT(30) DEF TypeOK, ReadBody, UpdatedAt, Starts
<1> QED
  BY <1>4, <1>9, <1>10, Zenon DEF DoneReadingDescriptorEffect

\* DoneReadingPayload counts one payload less.
LEMMA DoneReadingPayloadStep ==
  ASSUME TypeOK, NEW p \in Pipes, DoneReadingPayload(p),
         NEW k \in 1 .. Len(readOps[p]), todo[p][1].at = k
  PROVE  DoneReadingPayloadEffect(p, k)
<1> DEFINE op == [readOps[p][k] EXCEPT !.payloads = @ - 1]
<1>1. /\ 1 \in 1 .. Len(todo[p]) /\ Head(todo[p]) = todo[p][1]
      /\ todo[p][1] \in InPiece /\ todo[p][1].what = "in" /\ todo[p][1].kind = "payload"
  BY InBodyPiece, Zenon DEF DoneReadingPayload
<1>2. readOps[p][k] \in ReadOperation /\ k \in Nat
  BY DEF TypeOK
<1>3. readOps[p][k].payloads - 1 \in Int
  BY <1>2 DEF ReadOperation
<1>4. op \in ReadOperation
  BY <1>2, <1>3, SMTT(30) DEF ReadOperation
<1>5. readOps' = [readOps EXCEPT ![p] = [readOps[p] EXCEPT ![k] = op]]
  BY <1>1, Zenon DEF DoneReadingPayload
<1> HIDE DEF op
<1>6. UpdatedAt(readOps', readOps, p, k, op, ReadOperation)
  BY <1>4, <1>5, ReadUpdate, Zenon
<1>7. Starts(p, << AdvanceOperation("reads", k) >>)
  BY <1>1, <1>2, StartingTask, Zenon DEF DoneReadingPayload
<1>8. ReadBody(p, k, "payload", op)
  BY <1>1, <1>2, <1>4, <1>6, <1>7, ZenonT(30) DEF ReadBody, DoneReadingPayload, streamVars, userVars
<1>9. TypeOK'
  BY <1>1, <1>8, SMTT(30) DEF TypeOK, ReadBody, UpdatedAt, Starts
<1> QED
  BY <1>8, <1>9, Zenon DEF op, DoneReadingPayloadEffect

\* DoneReceivingTensor counts one tensor less.
LEMMA DoneReceivingTensorStep ==
  ASSUME TypeOK, NEW p \in Pipes, DoneReceivingTensor(p),
         NEW k \in 1 .. Len(readOps[p]), todo[p][1].at = k
  PROVE  DoneReceivingTensorEffect(p, k)
<1> DEFINE op == [readOps[p][k] EXCEPT !.tensors = @ - 1]
<1>1. /\ 1 \in 1 .. Len(todo[p]) /\ Head(todo[p]) = todo[p][1]
      /\ todo[p][1] \in InPiece /\ todo[p][1].what = "in" /\ todo[p][1].kind = "tensor"
  BY InBodyPiece, Zenon DEF DoneReceivingTensor
<1>2. readOps[p][k] \in ReadOperation /\ k \in Nat
  BY DEF TypeOK
<1>3. readOps[p][k].tensors - 1 \in Int
  BY <1>2 DEF ReadOperation
<1>4. op \in ReadOperation
  BY <1>2, <1>3, SMTT(30) DEF ReadOperation
<1>5. readOps' = [readOps EXCEPT ![p] = [readOps[p] EXCEPT ![k] = op]]
  BY <1>1, Zenon DEF DoneReceivingTensor
<1> HIDE DEF op
<1>6. UpdatedAt(readOps', readOps, p, k, op, ReadOperation)
  BY <1>4, <1>5, ReadUpdate, Zenon
<1>7. Starts(p, << AdvanceOperation("reads", k) >>)
  BY <1>1, <1>2, StartingTask, Zenon DEF DoneReceivingTensor
<1>8. ReadBody(p, k, "tensor", op)
  BY <1>1, <1>2, <1>4, <1>6, <1>7, ZenonT(30) DEF ReadBody, DoneReceivingTensor, streamVars, userVars
<1>9. TypeOK'
  BY <1>1, <1>8, SMTT(30) DEF TypeOK, ReadBody, UpdatedAt, Starts
<1> QED
  BY <1>8, <1>9, Zenon DEF op, DoneReceivingTensorEffect

\* DoneReadingDescriptorReply notes that the descriptor reply came.
LEMMA DoneReadingDescriptorReplyStep ==
  ASSUME TypeOK, NEW p \in Pipes, DoneReadingDescriptorReply(p),
         NEW k \in 1 .. Len(writeOps[p]), todo[p][1].at = k
  PROVE  DoneReadingDescriptorReplyEffect(p, k)
<1> DEFINE op == [writeOps[p][k] EXCEPT !.doneReadingDescriptorReply = TRUE]
<1>1. /\ 1 \in 1 .. Len(todo[p]) /\ Head(todo[p]) = todo[p][1]
      /\ todo[p][1] \in InPiece /\ todo[p][1].what = "in" /\ todo[p][1].kind = "reply"
  BY InBodyPiece, ZenonT(30) DEF DoneReadingDescriptorReply
<1>2. writeOps[p][k] \in WriteOperation /\ k \in Nat
  BY DEF TypeOK
<1>4. op \in WriteOperation
  BY <1>1, <1>2, Zenon DEF WriteOperation
<1>5. writeOps' = [writeOps EXCEPT ![p] = [writeOps[p] EXCEPT ![k] = op]]
  BY <1>1, Zenon DEF DoneReadingDescriptorReply
<1> HIDE DEF op
<1>6. UpdatedAt(writeOps', writeOps, p, k, op, WriteOperation)
  BY <1>4, <1>5, WriteUpdate, Zenon
<1>7. Starts(p, << AdvanceOperation("writes", k) >>)
  BY <1>1, <1>2, StartingTask, Zenon DEF DoneReadingDescriptorReply
<1>8. WriteBody(p, k, "in", "reply", op)
  BY <1>1, <1>2, <1>4, <1>6, <1>7, ZenonT(30) DEF WriteBody, DoneReadingDescriptorReply, streamVars,
     userVars
<1>9. TypeOK'
  BY <1>8, SMTT(30) DEF TypeOK, WriteBody, UpdatedAt, Starts
<1> QED
  BY <1>8, <1>9, Zenon DEF op, DoneReadingDescriptorReplyEffect

\* DoneWritingPayload counts one payload less.
LEMMA DoneWritingPayloadStep ==
  ASSUME TypeOK, NEW p \in Pipes, DoneWritingPayload(p),
         NEW k \in 1 .. Len(writeOps[p]), todo[p][1].at = k
  PROVE  DoneWritingPayloadEffect(p, k)
<1> DEFINE op == [writeOps[p][k] EXCEPT !.payloads = @ - 1]
<1>1. /\ 1 \in 1 .. Len(todo[p]) /\ Head(todo[p]) = todo[p][1]
      /\ todo[p][1] \in OutPiece /\ todo[p][1].what = "out" /\ todo[p][1].kind = "payload"
  BY OutBodyPiece, Zenon DEF DoneWritingPayload
<1>2. writeOps[p][k] \in WriteOperation /\ k \in Nat
  BY DEF TypeOK
<1>3. writeOps[p][k].payloads - 1 \in Int
  BY <1>2 DEF WriteOperation
<1>4. op \in WriteOperation
  BY <1>2, <1>3, SMTT(30) DEF WriteOperation
<1>5. writeOps' = [writeOps EXCEPT ![p] = [writeOps[p] EXCEPT ![k] = op]]
  BY <1>1, Zenon DEF DoneWritingPayload
<1> HIDE DEF op
<1>6. UpdatedAt(writeOps', writeOps, p, k, op, WriteOperation)
  BY <1>4, <1>5, WriteUpdate, Zenon
<1>7. Starts(p, << AdvanceOperation("writes", k) >>)
  BY <1>1, <1>2, StartingTask, Zenon DEF DoneWritingPayload
<1>8. WriteBody(p, k, "out", "payload", op)
  BY <1>1, <1>2, <1>4, <1>6, <1>7, ZenonT(30) DEF WriteBody, DoneWritingPayload, streamVars, userVars
<1>9. TypeOK'
  BY <1>8, SMTT(30) DEF TypeOK, WriteBody, UpdatedAt, Starts
<1> QED
  BY <1>8, <1>9, Zenon DEF op, DoneWritingPayloadEffect

\* DoneSendingTensor counts one tensor less.
LEMMA DoneSendingTensorStep ==
  ASSUME TypeOK, NEW p \in Pipes, DoneSendingTensor(p),
         NEW k \in 1 .. Len(writeOps[p]), todo[p][1].at = k
  PROVE  DoneSendingTensorEffect(p, k)
<1> DEFINE op == [writeOps[p][k] EXCEPT !.tensors = @ - 1]
<1>1. /\ 1 \in 1 .. Len(todo[p]) /\ Head(todo[p]) = todo[p][1]
      /\ todo[p][1] \in OutPiece /\ todo[p][1].what = "out" /\ todo[p][1].kind = "tensor"
  BY OutBodyPiece, Zenon DEF DoneSendingTensor
<1>2. writeOps[p][k] \in WriteOperation /\ k \in Nat
  BY DEF TypeOK
<1>3. writeOps[p][k].tensors - 1 \in Int
  BY <1>2 DEF WriteOperation
<1>4. op \in WriteOperation
  BY <1>2, <1>3, SMTT(30) DEF WriteOperation
<1>5. writeOps' = [writeOps EXCEPT ![p] = [writeOps[p] EXCEPT ![k] = op]]
  BY <1>1, Zenon DEF DoneSendingTensor
<1> HIDE DEF op
<1>6. UpdatedAt(writeOps', writeOps, p, k, op, WriteOperation)
  BY <1>4, <1>5, WriteUpdate, Zenon
<1>7. Starts(p, << AdvanceOperation("writes", k) >>)
  BY <1>1, <1>2, StartingTask, Zenon DEF DoneSendingTensor
<1>8. WriteBody(p, k, "out", "tensor", op)
  BY <1>1, <1>2, <1>4, <1>6, <1>7, ZenonT(30) DEF WriteBody, DoneSendingTensor, streamVars, userVars
<1>9. TypeOK'
  BY <1>8, SMTT(30) DEF TypeOK, WriteBody, UpdatedAt, Starts
<1> QED
  BY <1>8, <1>9, Zenon DEF op, DoneSendingTensorEffect

-----------------------------------------------------------------------------
(* What is known of the operations, and where those not over begin.        *)

Fronts(p) ==
  /\ Front(readOps[p], READ_FINISHED) = Len(readCalled[p]) + 1 /\ Len(readCalled[p]) + 1 \in Nat
  /\ Front(writeOps[p], WRITE_FINISHED) = Len(writeCalled[p]) + 1 /\ Len(writeCalled[p]) + 1 \in Nat

\* The types of the operations and the calls of a pipe.
LEMMA PipeTypes ==
  ASSUME NEW p \in Pipes
  PROVE  /\ TypeOK => /\ TypedReads(readOps[p]) /\ TypedWrites(writeOps[p])
                      /\ TypedCalls(readDescriptorCalled[p]) /\ TypedCalls(readCalled[p])
                      /\ TypedCalls(writeCalled[p]) /\ error[p] \in BOOLEAN
         /\ TypeOK' => /\ TypedReads(readOps'[p]) /\ TypedWrites(writeOps'[p])
                       /\ TypedCalls(readDescriptorCalled'[p]) /\ TypedCalls(readCalled'[p])
                       /\ TypedCalls(writeCalled'[p]) /\ error'[p] \in BOOLEAN
<1>1. ASSUME NEW ops \in Seq(ReadOperation) PROVE TypedReads(ops)
  <2>1. \A k \in 1 .. Len(ops) : ops[k] \in ReadOperation
    OBVIOUS
  <2> QED
    BY <2>1 DEF TypedReads, ReadOperation
<1>2. ASSUME NEW ops \in Seq(WriteOperation) PROVE TypedWrites(ops)
  <2>1. \A k \in 1 .. Len(ops) : ops[k] \in WriteOperation
    OBVIOUS
  <2> QED
    BY <2>1 DEF TypedWrites, WriteOperation
<1>3. ASSUME NEW called \in Seq(Call) PROVE TypedCalls(called)
  <2>1. \A k \in 1 .. Len(called) : called[k] \in Call
    OBVIOUS
  <2> QED
    BY <2>1 DEF TypedCalls, Call
<1>4. TypeOK => /\ readOps[p] \in Seq(ReadOperation) /\ writeOps[p] \in Seq(WriteOperation)
                /\ readDescriptorCalled[p] \in Seq(Call) /\ readCalled[p] \in Seq(Call)
                /\ writeCalled[p] \in Seq(Call) /\ error[p] \in BOOLEAN
  BY Zenon DEF TypeOK
<1>5. TypeOK' => /\ readOps'[p] \in Seq(ReadOperation) /\ writeOps'[p] \in Seq(WriteOperation)
                 /\ readDescriptorCalled'[p] \in Seq(Call) /\ readCalled'[p] \in Seq(Call)
                 /\ writeCalled'[p] \in Seq(Call) /\ error'[p] \in BOOLEAN
  BY Zenon DEF TypeOK
<1> QED
  BY <1>1, <1>2, <1>3, <1>4, <1>5, Zenon

\* The first operation that is not over, given how many are.
LEMMA FrontOf ==
  ASSUME NEW ops, Len(ops) \in Nat, NEW n \in 0 .. Len(ops), NEW finished,
         \A k \in 1 .. Len(ops) : k <= n <=> ops[k].state = finished
  PROVE  Front(ops, finished) = n + 1
<1> DEFINE P(k) == /\ \A j \in 1 .. k - 1 : ops[j].state = finished
                   /\ k > Len(ops) \/ ops[k].state # finished
<1>1. n + 1 \in 1 .. Len(ops) + 1
  OBVIOUS
<1>2. P(n + 1)
  <2>1. ASSUME NEW j \in 1 .. (n + 1) - 1 PROVE ops[j].state = finished
    BY <2>1
  <2>2. n + 1 > Len(ops) \/ ops[n + 1].state # finished
    OBVIOUS
  <2> QED
    BY <2>1, <2>2, ZenonT(30)
<1>3. ASSUME NEW k \in 1 .. Len(ops) + 1, P(k) PROVE k = n + 1
  <2>1. CASE k < n + 1
    <3>1. k \in 1 .. Len(ops) /\ k <= n
      BY <2>1
    <3> QED
      BY <1>3, <3>1
  <2>2. CASE k > n + 1
    <3>1. n + 1 \in 1 .. k - 1 /\ n + 1 \in 1 .. Len(ops) /\ ~(n + 1 <= n)
      BY <2>2
    <3> QED
      BY <1>3, <3>1, ZenonT(30)
  <2> QED
    BY <2>1, <2>2
<1>4. Front(ops, finished) = CHOOSE k \in 1 .. Len(ops) + 1 : P(k)
  BY Zenon DEF Front
<1> HIDE DEF P
<1> QED
  BY <1>1, <1>2, <1>3, <1>4, ZenonT(30)

\* Where the operations of a pipe that are not over begin.
LEMMA FrontsAt ==
  ASSUME OrderInv, NEW p \in Pipes
  PROVE  /\ Fronts(p)
         /\ Len(readCalled[p]) + 1 \in 1 .. Len(readOps[p]) + 1
         /\ Len(writeCalled[p]) + 1 \in 1 .. Len(writeOps[p]) + 1
<1>1. /\ TypedReads(readOps[p]) /\ TypedWrites(writeOps[p]) /\ TypedCalls(readCalled[p])
      /\ TypedCalls(writeCalled[p]) /\ ReadInv(p) /\ WriteInv(p)
  BY PipeTypes, ZenonT(30) DEF OrderInv
<1>2. /\ Len(readOps[p]) \in Nat /\ Len(readCalled[p]) \in Nat
      /\ Len(writeOps[p]) \in Nat /\ Len(writeCalled[p]) \in Nat
  BY SMTT(30) DEF TypedReads, TypedWrites, TypedCalls
<1>3. /\ Len(readCalled[p]) <= Len(readOps[p])
      /\ \A k \in 1 .. Len(readOps[p]) : k <= Len(readCalled[p]) <=> readOps[p][k].state = READ_FINISHED
  BY <1>1, ZenonT(30) DEF ReadInv, ReadsOK, ReadsCalled, CallsOf
<1>4. /\ Len(writeCalled[p]) <= Len(writeOps[p])
      /\ \A k \in 1 .. Len(writeOps[p]) : k <= Len(writeCalled[p]) <=> writeOps[p][k].state = WRITE_FINISHED
  BY <1>1, ZenonT(30) DEF WriteInv, WritesOK, WritesCalled, CallsOf
<1>5. Len(readCalled[p]) \in 0 .. Len(readOps[p]) /\ Len(writeCalled[p]) \in 0 .. Len(writeOps[p])
  BY <1>3, <1>4
<1>6. Front(readOps[p], READ_FINISHED) = Len(readCalled[p]) + 1
  BY <1>1, <1>2, <1>3, <1>4, <1>5, FrontOf, ZenonT(30)
<1>7. Front(writeOps[p], WRITE_FINISHED) = Len(writeCalled[p]) + 1
  BY <1>1, <1>2, <1>3, <1>4, <1>5, FrontOf, ZenonT(30)
<1>8. /\ Len(readCalled[p]) + 1 \in 1 .. Len(readOps[p]) + 1
      /\ Len(writeCalled[p]) + 1 \in 1 .. Len(writeOps[p]) + 1
  BY <1>3, <1>4
<1>9. Len(readCalled[p]) + 1 \in Nat /\ Len(writeCalled[p]) + 1 \in Nat
  OBVIOUS
<1> QED
  BY <1>6, <1>7, <1>8, <1>9, SMTT(30) DEF Fronts

\* A pipe has another end.
LEMMA PeerPipe ==
  ASSUME NEW p \in Pipes
  PROVE  Peer(p) \in Pipes /\ Peer(p) # p /\ Pipes = {p, Peer(p)}
<1>1. \E q \in Pipes : q # p
  BY PipesAssumption, Zenon
<1>2. Peer(p) \in Pipes /\ Peer(p) # p
  BY <1>1, Zenon DEF Peer
<1>3. PICK q \in Pipes : q # p /\ Pipes = {p, q}
  BY PipesAssumption, ZenonT(30)
<1> QED
  BY <1>2, <1>3, ZenonT(30)

\* A descriptor that was read is one that the other end wrote, with the message
\* of one of its operations.
LEMMA DescriptorWritten ==
  ASSUME OrderInv, NEW p \in Pipes, NEW s \in Streams, NEW i \in 1 .. Len(ins[p][s]),
         ins[p][s][i].kind = "descriptor", i <= Len(outs[Peer(p)][s])
  PROVE  /\ s = "descriptor"
         /\ i \in 1 .. Len(outs[Peer(p)]["descriptor"])
         /\ outs[Peer(p)]["descriptor"][i].op \in 1 .. Len(writeOps[Peer(p)])
         /\ DescriptorAt(p, i) \in Shape
<1> DEFINE q == Peer(p)
<1>1. TypeOK /\ q \in Pipes /\ ItemsOK(p) /\ ItemsOK(q)
  BY PeerPipe, ZenonT(30) DEF OrderInv
<1> HIDE DEF q
<1>2. s = "descriptor"
  <2>0. /\ Belongs(ins[p]["channel"], {"tensor"}, readOps[p])
        /\ Belongs(ins[p]["reply"], {"reply"}, writeOps[p])
    BY <1>1, Zenon DEF ItemsOK
  <2>1. s = "reply" => ins[p][s][i].kind \in {"reply"}
    BY <2>0, Zenon DEF Belongs
  <2>2. s = "channel" => ins[p][s][i].kind \in {"tensor"}
    BY <2>0, Zenon DEF Belongs
  <2> QED
    BY <2>1, <2>2, SMTT(30) DEF Streams
<1>3. i \in 1 .. Len(outs[q]["descriptor"])
  <2>1. outs[q]["descriptor"] \in Seq(Item) /\ ins[p]["descriptor"] \in Seq(Item)
    <3>1. outs[q] \in [Streams -> Seq(Item)] /\ ins[p] \in [Streams -> Seq(Item)]
      BY <1>1, <1>2, ZenonT(30) DEF TypeOK
    <3> QED
      BY <3>1, ZenonT(30) DEF Streams
  <2>2. i <= Len(outs[q]["descriptor"])
    BY <1>2, ZenonT(30) DEF q
  <2> QED
    BY <2>1, <2>2
<1>4. outs[q]["descriptor"][i].op \in 1 .. Len(writeOps[q])
  BY <1>1, <1>2, <1>3, ZenonT(30) DEF ItemsOK, Belongs
<1>5. \A k \in 1 .. Len(writeOps[q]) : writeOps[q][k].message \in Shape
  <2>1. writeOps[q] \in Seq(WriteOperation)
    BY <1>1, ZenonT(30) DEF TypeOK
  <2>2. \A k \in 1 .. Len(writeOps[q]) : writeOps[q][k] \in WriteOperation
    BY <2>1
  <2> QED
    BY <2>2, ShapesAreShapes, ZenonT(30) DEF WriteOperation
<1>6. DescriptorAt(p, i) \in Shape
  BY <1>4, <1>5, Zenon DEF DescriptorAt, q
<1> QED
  BY <1>2, <1>3, <1>4, <1>6, Zenon DEF q

-----------------------------------------------------------------------------
(* The calls of the user, callbacks, and the moves to another operation.   *)

\* WriteFromLoop adds a write operation and starts to advance it.
LEMMA WriteFromLoopStep ==
  ASSUME TypeOK, NEW p \in Pipes, NEW message \in Shapes, WriteFromLoop(p, message)
  PROVE  WriteFromLoopEffect(p, message)
<1>1. writeOps \in [Pipes -> Seq(WriteOperation)] /\ Len(writeOps[p]) + 1 \in Nat
  BY DEF TypeOK
<1>2. NewWriteOperation(message) \in WriteOperation
  BY DEF NewWriteOperation, WriteOperation
<1>3. AppendedTo(writeOps', writeOps, p, NewWriteOperation(message), WriteOperation)
  BY <1>1, <1>2, Appending, Zenon DEF WriteFromLoop
<1>4. Starts(p, << AdvanceOperation("writes", Len(writeOps[p]) + 1) >>)
  BY <1>1, StartingTask, Zenon DEF WriteFromLoop
<1>5. /\ Idle(p)
      /\ UNCHANGED <<established, error, readOps, nextMessageGettingAllocation, ins, outs,
                     insDone, outsDone, readDescriptorCalled, readCalled, writeCalled>>
  BY Zenon DEF WriteFromLoop, streamVars, userVars
<1>6. TypeOK'
  BY <1>3, <1>4, <1>5, SMTT(30) DEF TypeOK, AppendedTo, Starts
<1> QED
  BY <1>2, <1>3, <1>4, <1>5, <1>6, ZenonT(30) DEF WriteFromLoopEffect

\* ReadDescriptorFromLoop adds a read operation and starts to advance it.
LEMMA ReadDescriptorFromLoopStep ==
  ASSUME TypeOK, NEW p \in Pipes, ReadDescriptorFromLoop(p)
  PROVE  ReadDescriptorFromLoopEffect(p)
<1>1. readOps \in [Pipes -> Seq(ReadOperation)] /\ Len(readOps[p]) + 1 \in Nat
  BY DEF TypeOK
<1>2. NewReadOperation \in ReadOperation
  <2>1. NoShape \in Shape
    BY Zenon DEF NoShape, Shape
  <2> QED
    BY <2>1 DEF NewReadOperation, ReadOperation
<1>3. AppendedTo(readOps', readOps, p, NewReadOperation, ReadOperation)
  BY <1>1, <1>2, Appending, Zenon DEF ReadDescriptorFromLoop
<1>4. Starts(p, << AdvanceOperation("reads", Len(readOps[p]) + 1) >>)
  BY <1>1, StartingTask, Zenon DEF ReadDescriptorFromLoop
<1>5. /\ Idle(p)
      /\ UNCHANGED <<established, error, writeOps, nextMessageGettingAllocation, ins, outs,
                     insDone, outsDone, readDescriptorCalled, readCalled, writeCalled>>
  BY Zenon DEF ReadDescriptorFromLoop, streamVars, userVars
<1>6. TypeOK'
  BY <1>3, <1>4, <1>5, SMTT(30) DEF TypeOK, AppendedTo, Starts
<1> QED
  BY <1>2, <1>3, <1>4, <1>5, <1>6, ZenonT(30) DEF ReadDescriptorFromLoopEffect

\* ReadFromLoop gives its allocation to the operation that expects the call.
LEMMA ReadFromLoopStep ==
  ASSUME TypeOK, NEW p \in Pipes, ReadFromLoop(p),
         NEW k \in 1 .. Len(readOps[p]), nextMessageGettingAllocation[p] = k
  PROVE  ReadFromLoopEffect(p, k)
<1> DEFINE op == [readOps[p][k] EXCEPT !.doneGettingAllocation = TRUE]
<1>1. readOps[p][k] \in ReadOperation /\ k \in Nat
  BY DEF TypeOK
<1>2. op \in ReadOperation
  BY <1>1, Zenon DEF ReadOperation
<1>3. readOps' = [readOps EXCEPT ![p] = [readOps[p] EXCEPT ![k] = op]]
  BY Zenon DEF ReadFromLoop
<1> HIDE DEF op
<1>4. UpdatedAt(readOps', readOps, p, k, op, ReadOperation)
  BY <1>2, <1>3, ReadUpdate, Zenon
<1>5. Starts(p, << AdvanceOperation("reads", k) >>)
  BY <1>1, StartingTask, Zenon DEF ReadFromLoop
<1>6. /\ Idle(p)
      /\ nextMessageGettingAllocation' = [nextMessageGettingAllocation EXCEPT ![p] = 0]
      /\ UNCHANGED <<established, error, writeOps, ins, outs, insDone, outsDone,
                     readDescriptorCalled, readCalled, writeCalled>>
  BY Zenon DEF ReadFromLoop, streamVars, userVars
<1>7. TypeOK'
  BY <1>1, <1>4, <1>5, <1>6, SMTT(30) DEF TypeOK, UpdatedAt, Starts
<1> QED
  BY <1>1, <1>4, <1>5, <1>6, <1>7, ZenonT(30) DEF op, ReadFromLoopEffect

\* The task that advances all operations.
LEMMA AdvancingAll ==
  ASSUME TypeOK, NEW p \in Pipes, Fronts(p), NEW body \in Seq(Piece),
         todo' = [todo EXCEPT ![p] = AdvanceAllOperations(p) \o body]
  PROVE  AdvancesAll(p, body)
<1> DEFINE x == [what |-> "reads", at |-> Len(readCalled[p]) + 1, all |-> TRUE, advanced |-> FALSE]
           y == [what |-> "writes", at |-> Len(writeCalled[p]) + 1, all |-> TRUE, advanced |-> FALSE]
<1>1. x \in Piece /\ y \in Piece
  BY ZenonT(30) DEF Fronts, Piece, AdvancePiece
<1>2. AdvanceAllOperations(p) = << x, y >>
  BY ZenonT(30) DEF Fronts, AdvanceAllOperations, AdvanceAll
<1>3. todo \in [Pipes -> Seq(Piece)]
  BY ZenonT(30) DEF TypeOK
<1> HIDE DEF x, y
<1> DEFINE t == << x, y >> \o body
<1>4. /\ t \in Seq(Piece) /\ Len(t) = 2 + Len(body) /\ t[1] = x /\ t[2] = y
      /\ \A i \in 1 .. Len(body) : t[2 + i] = body[i]
  BY <1>1
<1>5. todo' = [todo EXCEPT ![p] = t]
  BY <1>2, ZenonT(30)
<1> HIDE DEF t
<1> QED
  BY <1>3, <1>4, <1>5, ZenonT(30) DEF AdvancesAll, x, y

\* setError either does nothing or sets the error and advances all operations.
LEMMA SettingError ==
  ASSUME TypeOK, NEW p \in Pipes, NEW ok \in BOOLEAN, Fronts(p),
         NEW body \in Seq(Piece), SetErrorThen(p, ok, body)
  PROVE  SetsError(p, ok, body)
<1>1. CASE ok \/ error[p]
  <2>1. todo' = [todo EXCEPT ![p] = body] /\ UNCHANGED error
    BY <1>1, Zenon DEF SetErrorThen
  <2>2. todo \in [Pipes -> Seq(Piece)]
    BY ZenonT(30) DEF TypeOK
  <2>3. Starts(p, body)
    BY <2>1, <2>2, ZenonT(30) DEF Starts
  <2> QED
    BY <1>1, <2>1, <2>3, Zenon DEF SetsError
<1>2. CASE ~(ok \/ error[p])
  <2>1. /\ todo' = [todo EXCEPT ![p] = AdvanceAllOperations(p) \o body]
        /\ error' = [error EXCEPT ![p] = TRUE]
    BY <1>2, Zenon DEF SetErrorThen
  <2>2. AdvancesAll(p, body)
    BY <2>1, AdvancingAll, Zenon
  <2> QED
    BY <1>2, <2>1, <2>2, ZenonT(30) DEF SetsError
<1> QED
  BY <1>1, <1>2, ZenonT(30)

\* CloseFromLoop sets the error.
LEMMA CloseFromLoopStep ==
  ASSUME OrderInv, NEW p \in Pipes, CloseFromLoop(p)
  PROVE  CloseFromLoopEffect(p)
<1>0. TypeOK /\ Fronts(p)
  BY FrontsAt, ZenonT(30) DEF OrderInv
<1>1. << >> \in Seq(Piece) /\ FALSE \in BOOLEAN
  OBVIOUS
<1>2. SetsError(p, FALSE, << >>)
  BY <1>0, <1>1, SettingError, Zenon DEF CloseFromLoop
<1>3. /\ Idle(p)
      /\ UNCHANGED <<established, readOps, writeOps, nextMessageGettingAllocation, ins, outs,
                     insDone, outsDone, readDescriptorCalled, readCalled, writeCalled>>
  BY Zenon DEF CloseFromLoop, streamVars, userVars
<1>4. TypeOK'
  BY <1>0, <1>2, <1>3, ZenonT(30) DEF TypeOK, SetsError, Starts, AdvancesAll
<1> QED
  BY <1>2, <1>3, <1>4, Zenon DEF CloseFromLoopEffect

\* Establish advances all operations.
LEMMA EstablishStep ==
  ASSUME OrderInv, NEW p \in Pipes, Establish(p)
  PROVE  EstablishEffect(p)
<1>0. TypeOK /\ Fronts(p)
  BY FrontsAt, Zenon DEF OrderInv
<1>1. << >> \in Seq(Piece)
  OBVIOUS
<1>2. AdvancesAll(p, << >>)
  <2>1. AdvanceAllOperations(p) \o << >> = AdvanceAllOperations(p)
    <3>1. AdvanceAllOperations(p) \in Seq(Piece)
      BY <1>0 DEF Fronts, AdvanceAllOperations, AdvanceAll, Piece, AdvancePiece
    <3> QED
      BY <3>1
  <2> QED
    BY <1>0, <1>1, <2>1, AdvancingAll, ZenonT(30) DEF Establish
<1>3. /\ Idle(p)
      /\ established' = [established EXCEPT ![p] = TRUE]
      /\ UNCHANGED <<error, readOps, writeOps, nextMessageGettingAllocation, ins, outs,
                     insDone, outsDone, readDescriptorCalled, readCalled, writeCalled>>
  BY ZenonT(30) DEF Establish, streamVars, userVars
<1>4. TypeOK'
  BY <1>0, <1>2, <1>3, ZenonT(30) DEF TypeOK, AdvancesAll
<1> QED
  BY <1>2, <1>3, <1>4, Zenon DEF EstablishEffect

\* The callback of a read, which may carry an error, and its body.
LEMMA ReadCallbackStep ==
  ASSUME OrderInv, NEW p \in Pipes, NEW s \in Streams, NEW ok \in BOOLEAN,
         NEW i \in 1 .. Len(ins[p][s]), ReadCallback(p, s, i, ok)
  PROVE  ReadCallbackEffect(p, s, i, ok)
<1>0. TypeOK /\ Fronts(p)
  BY FrontsAt, ZenonT(30) DEF OrderInv
<1>9. ok /\ ins[p][s][i].kind = "descriptor" => DescriptorAt(p, i) \in Shape
  <2>1. ok => i <= Len(outs[Peer(p)][s])
    BY ZenonT(30) DEF ReadCallback
  <2> QED
    BY <2>1, DescriptorWritten, ZenonT(30)
<1>1. ins[p][s][i] \in Item /\ insDone \in [Pipes -> [Streams -> SUBSET Nat]] /\ i \in Nat
  BY <1>0, SMTT(30) DEF TypeOK
<1>2. InBody(p, s, i, ok) \in InPiece
  <2>1. NoShape \in Shape
    BY ZenonT(30) DEF NoShape, Shape
  <2> QED
    BY <1>1, <1>9, <2>1, ZenonT(30) DEF InBody, InPiece, Item
<1> DEFINE x == InBody(p, s, i, ok)
<1>3. << x >> \in Seq(Piece)
  <2> HIDE DEF x
  <2> SUFFICES x \in Piece
    OBVIOUS
  <2> QED
    BY <1>2, ZenonT(30) DEF x, Piece
<1>4. SetErrorThen(p, ok, << x >>)
  BY Zenon DEF ReadCallback, InBody
<1> HIDE DEF x
<1>5. SetsError(p, ok, << x >>)
  BY <1>0, <1>3, <1>4, SettingError, Zenon
<1>6. MarksDone(insDone', insDone, p, s, i)
  <2>1. insDone' = [insDone EXCEPT ![p][s] = insDone[p][s] \cup {i}]
    BY Zenon DEF ReadCallback
  <2> QED
    BY <1>1, <2>1, ZenonT(30) DEF MarksDone
<1>7. /\ Idle(p)
      /\ Due(ins[p][s], insDone[p][s], s, i)
      /\ ok => ~error[p] /\ i <= Len(outs[Peer(p)][s])
      /\ UNCHANGED <<established, readOps, writeOps, nextMessageGettingAllocation, ins, outs,
                     outsDone, readDescriptorCalled, readCalled, writeCalled>>
  BY ZenonT(30) DEF ReadCallback, userVars
<1>8. TypeOK'
  BY <1>0, <1>5, <1>6, <1>7, <1>9, ZenonT(30) DEF TypeOK, SetsError, Starts, AdvancesAll, MarksDone
<1> QED
  BY <1>2, <1>5, <1>6, <1>7, <1>8, ZenonT(30) DEF x, ReadCallbackEffect

\* The callback of a write, which may carry an error, and its body, if it has
\* one.
LEMMA WriteCallbackStep ==
  ASSUME OrderInv, NEW p \in Pipes, NEW s \in Streams, NEW ok \in BOOLEAN,
         NEW i \in 1 .. Len(outs[p][s]), WriteCallback(p, s, i, ok)
  PROVE  WriteCallbackEffect(p, s, i, ok)
<1>0. TypeOK /\ Fronts(p)
  BY FrontsAt, Zenon DEF OrderInv
<1>1. outs[p][s][i] \in Item /\ outsDone \in [Pipes -> [Streams -> SUBSET Nat]] /\ i \in Nat
  BY <1>0, SMTT(30) DEF TypeOK
<1>2. OutBody(p, s, i) \in OutPiece
  BY <1>1, ZenonT(30) DEF OutBody, OutPiece, Item
<1> DEFINE x == OutBody(p, s, i)
           body == IF outs[p][s][i].kind \in {"payload", "tensor"} THEN << x >> ELSE << >>
<1>3. body \in Seq(Piece)
  <2> HIDE DEF x
  <2> SUFFICES x \in Piece
    OBVIOUS
  <2> QED
    BY <1>2, SMTT(30) DEF x, Piece
<1>4. SetErrorThen(p, ok, body)
  BY Zenon DEF WriteCallback, OutBody
<1> HIDE DEF x, body
<1>5. SetsError(p, ok, body)
  BY <1>0, <1>3, <1>4, SettingError, ZenonT(30)
<1>6. MarksDone(outsDone', outsDone, p, s, i)
  <2>1. outsDone' = [outsDone EXCEPT ![p][s] = outsDone[p][s] \cup {i}]
    BY Zenon DEF WriteCallback
  <2> QED
    BY <1>1, <2>1, Zenon DEF MarksDone
<1>7. /\ Idle(p)
      /\ Due(outs[p][s], outsDone[p][s], s, i)
      /\ UNCHANGED <<established, readOps, writeOps, nextMessageGettingAllocation, ins, outs,
                     insDone, readDescriptorCalled, readCalled, writeCalled>>
  BY ZenonT(30) DEF WriteCallback, userVars
<1>8. TypeOK'
  BY <1>0, <1>5, <1>6, <1>7, ZenonT(30) DEF TypeOK, SetsError, Starts, AdvancesAll, MarksDone
<1> QED
  BY <1>2, <1>5, <1>6, <1>7, <1>8, Zenon DEF x, body, WriteCallbackEffect

\* Sequences of the same length and the same entries are the same.
LEMMA SameSequence ==
  ASSUME NEW S, NEW s \in Seq(S), NEW t \in Seq(S), Len(s) = Len(t),
         \A i \in 1 .. Len(s) : s[i] = t[i]
  PROVE  s = t
  BY SMTT(30)

\* advanceOperation and advanceAllOperations go on to the next operation or end.
LEMMA MovingOn ==
  ASSUME TypeOK, NEW p \in Pipes, NEW what \in {"reads", "writes"}, NEW ops, NEW finished,
         Running(p, what), MoveOn(p, ops, finished)
  PROVE  /\ TypeOK'
         /\ Head(todo[p]) = todo[p][1]
         /\ MovesOn(p, what, ops, finished)
<1>1. todo \in [Pipes -> Seq(Piece)] /\ todo[p] \in Seq(Piece) /\ todo[p] # << >>
  BY ZenonT(30) DEF TypeOK, Running, Idle
<1>2. 1 \in 1 .. Len(todo[p]) /\ Head(todo[p]) = todo[p][1] /\ todo[p][1].what = what
  BY <1>1 DEF Running
<1>3. todo[p][1] \in AdvancePiece
  BY <1>1, <1>2 DEF Piece, AdvancePiece, InPiece, OutPiece
<1>4. UNCHANGED <<established, error, readOps, writeOps, nextMessageGettingAllocation, ins, outs,
                  insDone, outsDone, readDescriptorCalled, readCalled, writeCalled>>
  BY Zenon DEF MoveOn, streamVars, userVars
<1> DEFINE piece == [todo[p][1] EXCEPT !.at = @ + 1, !.advanced = FALSE]
<1>5. CASE GoesOn(todo[p][1], ops, finished)
  <2>1. todo' = [todo EXCEPT ![p] = << piece >> \o Tail(todo[p])]
    BY <1>2, <1>5, Zenon DEF MoveOn
  <2>2. piece \in Piece
    <3> DEFINE x == [todo[p][1] EXCEPT !.at = @ + 1]
    <3>1. todo[p][1].at + 1 \in Nat
      BY <1>3 DEF AdvancePiece
    <3>2. x \in AdvancePiece
      BY <1>2, <1>3, <3>1, SMTT(30) DEF AdvancePiece
    <3>3. piece = [x EXCEPT !.advanced = FALSE]
      BY Zenon
    <3> HIDE DEF x, piece
    <3> QED
      BY <1>1, <1>2, <1>3, <1>4, <3>2, <3>3, ZenonT(30) DEF AdvancePiece, Piece
  <2> HIDE DEF piece
  <2>3. << piece >> \o Tail(todo[p]) = [todo[p] EXCEPT ![1] = piece]
    <3>1. /\ Tail(todo[p]) \in Seq(Piece)
          /\ Len(Tail(todo[p])) = Len(todo[p]) - 1
          /\ \A n \in 1 .. Len(todo[p]) - 1 : Tail(todo[p])[n] = todo[p][n + 1]
      BY <1>1
    <3> DEFINE t == Tail(todo[p])
    <3> HIDE DEF t
    <3>2. /\ << piece >> \o t \in Seq(Piece)
          /\ Len(<< piece >> \o t) = Len(todo[p])
          /\ \A n \in 1 .. Len(todo[p]) : (<< piece >> \o t)[n] = IF n = 1 THEN piece ELSE t[n - 1]
      BY <2>2, <3>1 DEF t
    <3>3. ASSUME NEW n \in 1 .. Len(todo[p])
          PROVE  (<< piece >> \o t)[n] = [todo[p] EXCEPT ![1] = piece][n]
      <4>1. CASE n = 1
        BY <3>2, <4>1
      <4>2. CASE n # 1
        <5>1. n - 1 \in 1 .. Len(todo[p]) - 1 /\ (n - 1) + 1 = n
          BY <4>2
        <5>2. t[n - 1] = todo[p][n]
          BY <3>1, <5>1, ZenonT(30) DEF t
        <5> QED
          BY <3>2, <4>2, <5>2
      <4> QED
        BY <1>1, <1>2, <1>3, <1>4, <4>1, <4>2, ZenonT(30)
    <3>4. [todo[p] EXCEPT ![1] = piece] \in Seq(Piece) /\ Len([todo[p] EXCEPT ![1] = piece]) = Len(todo[p])
      BY <1>1, <2>2
    <3>5. << piece >> \o t = [todo[p] EXCEPT ![1] = piece]
      <4> DEFINE s == << piece >> \o t
                 u == [todo[p] EXCEPT ![1] = piece]
      <4>1. s \in Seq(Piece) /\ u \in Seq(Piece) /\ Len(s) = Len(u) /\ Len(s) = Len(todo[p])
        BY <3>2, <3>4, Zenon
      <4>2. \A n \in 1 .. Len(todo[p]) : s[n] = u[n]
        BY <1>1, <1>2, <1>3, <1>4, <3>3, ZenonT(30)
      <4> HIDE DEF s, u
      <4>3. s = u
        BY <1>1, <1>2, <1>3, <1>4, <4>1, <4>2, SameSequence, ZenonT(30)
      <4> QED
        BY <4>3, Zenon DEF s, u
    <3> QED
      BY <3>5, ZenonT(30) DEF t
  <2>4. UpdatedAt([todo EXCEPT ![p] = [todo[p] EXCEPT ![1] = piece]], todo, p, 1, piece, Piece)
    BY <1>1, <1>2, <2>2, Updating, Zenon
  <2>5. UpdatedAt(todo', todo, p, 1, piece, Piece)
    BY <1>1, <1>2, <1>3, <1>4, <2>1, <2>3, <2>4, ZenonT(30)
  <2>6. MovesOn(p, what, ops, finished)
    BY <1>2, <1>3, <1>4, <1>5, <2>5, Zenon DEF MovesOn, piece
  <2>7. TypeOK'
    BY <1>4, <2>5, ZenonT(30) DEF TypeOK, UpdatedAt
  <2> QED
    BY <2>6, <2>7
<1>6. CASE ~GoesOn(todo[p][1], ops, finished)
  <2>1. todo' = [todo EXCEPT ![p] = Tail(todo[p])]
    BY <1>2, <1>6, Zenon DEF MoveOn
  <2>2. /\ Tail(todo[p]) \in Seq(Piece)
        /\ Len(Tail(todo[p])) = Len(todo[p]) - 1
        /\ \A n \in 1 .. Len(todo[p]) - 1 : Tail(todo[p])[n] = todo[p][n + 1]
    BY <1>1
  <2> DEFINE t == Tail(todo[p])
  <2>3. todo' = [todo EXCEPT ![p] = t]
    BY <2>1, ZenonT(30)
  <2> HIDE DEF t
  <2>4. Drops(p)
    BY <1>1, <2>2, <2>3, ZenonT(30) DEF Drops, t
  <2>5. MovesOn(p, what, ops, finished)
    BY <1>2, <1>3, <1>4, <1>6, <2>4, ZenonT(30) DEF MovesOn
  <2>6. TypeOK'
    BY <1>4, <2>4, SMTT(30) DEF TypeOK, Drops
  <2> QED
    BY <2>5, <2>6
<1> QED
  BY <1>5, <1>6, ZenonT(30)

\* The task goes on to another read, or ends: the one it is at cannot advance.
LEMMA NextReadOperationStep ==
  ASSUME TypeOK, NEW p \in Pipes, NextReadOperation(p)
  PROVE  NextReadOperationEffect(p)
<1>1. /\ TypeOK' /\ Head(todo[p]) = todo[p][1] /\ MovesOn(p, "reads", readOps[p], READ_FINISHED)
  BY MovingOn, Zenon DEF NextReadOperation
<1>2. Head(todo[p]).at <= Len(readOps[p]) => ~CanAdvanceRead(p, Head(todo[p]).at)
  BY Zenon DEF NextReadOperation
<1> QED
  BY <1>1, <1>2, Zenon DEF NextReadOperationEffect

\* The task goes on to another write, or ends: the one it is at cannot advance.
LEMMA NextWriteOperationStep ==
  ASSUME TypeOK, NEW p \in Pipes, NextWriteOperation(p)
  PROVE  NextWriteOperationEffect(p)
<1>1. /\ TypeOK' /\ Head(todo[p]) = todo[p][1] /\ MovesOn(p, "writes", writeOps[p], WRITE_FINISHED)
  BY MovingOn, Zenon DEF NextWriteOperation
<1>2. Head(todo[p]).at <= Len(writeOps[p]) => ~CanAdvanceWrite(p, Head(todo[p]).at)
  BY Zenon DEF NextWriteOperation
<1> QED
  BY <1>1, <1>2, Zenon DEF NextWriteOperationEffect

\* The body of a callback of a read concerns a read operation, and that of a
\* write, or of a descriptor reply, a write operation.
LEMMA BodyAt ==
  ASSUME OrderInv, NEW p \in Pipes
  PROVE  /\ \/ DoneReadingDescriptor(p) \/ DoneReadingPayload(p) \/ DoneReceivingTensor(p)
            => \E k \in 1 .. Len(readOps[p]) : todo[p][1].at = k
         /\ \/ DoneReadingDescriptorReply(p) \/ DoneWritingPayload(p) \/ DoneSendingTensor(p)
            => \E k \in 1 .. Len(writeOps[p]) : todo[p][1].at = k
<1>1. TypeOK /\ TodoOK(p)
  BY ZenonT(30) DEF OrderInv
<1>2. ASSUME DoneReadingDescriptor(p) \/ DoneReadingPayload(p) \/ DoneReceivingTensor(p)
      PROVE  todo[p][1].at \in 1 .. Len(readOps[p])
  <2>1. /\ 1 \in 1 .. Len(todo[p]) /\ todo[p][1].what = "in"
        /\ todo[p][1].kind \in {"descriptor", "payload", "tensor"}
    BY <1>1, <1>2, InBodyPiece, ZenonT(30) DEF DoneReadingDescriptor, DoneReadingPayload, DoneReceivingTensor
  <2> QED
    BY <1>1, <2>1, SMTT(30) DEF TodoOK, PieceOK
<1>3. ASSUME DoneReadingDescriptorReply(p) \/ DoneWritingPayload(p) \/ DoneSendingTensor(p)
      PROVE  todo[p][1].at \in 1 .. Len(writeOps[p])
  <2>1. /\ 1 \in 1 .. Len(todo[p])
        /\ \/ todo[p][1].what = "in" /\ todo[p][1].kind = "reply"
           \/ todo[p][1].what = "out" /\ todo[p][1].kind \in {"payload", "tensor"}
    BY <1>1, <1>3, InBodyPiece, OutBodyPiece, ZenonT(30)
       DEF DoneReadingDescriptorReply, DoneWritingPayload, DoneSendingTensor
  <2> QED
    BY <1>1, <2>1, SMTT(30) DEF TodoOK, PieceOK
<1> QED
  BY <1>2, <1>3, ZenonT(30)

\* The call of read is for an operation.
LEMMA ReadCallAt ==
  ASSUME OrderInv, NEW p \in Pipes, ReadFromLoop(p)
  PROVE  \E k \in 1 .. Len(readOps[p]) : ReadFromLoopEffect(p, k)
<1> DEFINE k == nextMessageGettingAllocation[p]
<1>1. k \in 1 .. Len(readOps[p])
  <2>1. k # 0
    BY ZenonT(30) DEF ReadFromLoop
  <2>2. k \in 0 .. Len(readOps[p])
    BY ZenonT(30) DEF OrderInv, ReadInv, ReadsOK, ReadFlags
  <2> QED
    BY <2>1, <2>2
<1>2. ReadFromLoopEffect(p, k)
  BY <1>1, ReadFromLoopStep, ZenonT(30) DEF OrderInv
<1> HIDE DEF k
<1> QED
  BY <1>1, <1>2, ZenonT(30)

\* Every step of a pipe is one that PipeEffects describes.
LEMMA NextStep ==
  ASSUME OrderInv, Next
  PROVE  NextEffect
<1>1. PICK p \in Pipes : UserCall(p) \/ Establish(p) \/ Callback(p) \/ RunTask(p)
  BY Zenon DEF Next
<1>2. TypeOK
  BY ZenonT(30) DEF OrderInv
<1>3. CASE UserCall(p)
  <2>1. UserCallEffect(p)
    BY <1>2, <1>3, WriteFromLoopStep, ReadDescriptorFromLoopStep, ReadCallAt, CloseFromLoopStep,
       ZenonT(30)
       DEF UserCall, UserCallEffect
  <2> QED
    BY <2>1, Zenon DEF NextEffect
<1>4. CASE Establish(p)
  BY <1>4, EstablishStep, Zenon DEF NextEffect
<1>5. CASE Callback(p)
  <2>1. CallbackEffect(p)
    BY <1>5, ReadCallbackStep, WriteCallbackStep, Zenon DEF Callback, CallbackEffect
  <2> QED
    BY <2>1, Zenon DEF NextEffect
<1>6. CASE RunTask(p)
  <2> SUFFICES RunTaskEffect(p)
    BY Zenon DEF NextEffect
  <2>1. CASE DoneReadingDescriptor(p) \/ DoneReadingPayload(p) \/ DoneReceivingTensor(p)
    <3>1. PICK k \in 1 .. Len(readOps[p]) : todo[p][1].at = k
      BY <2>1, BodyAt, Zenon
    <3>2. \/ DoneReadingDescriptorEffect(p, k) \/ DoneReadingPayloadEffect(p, k)
          \/ DoneReceivingTensorEffect(p, k)
      BY <1>2, <2>1, <3>1, DoneReadingDescriptorStep, DoneReadingPayloadStep,
         DoneReceivingTensorStep, ZenonT(30)
    <3> QED
      BY <3>2, Zenon DEF RunTaskEffect
  <2>2. CASE DoneReadingDescriptorReply(p) \/ DoneWritingPayload(p) \/ DoneSendingTensor(p)
    <3>1. PICK k \in 1 .. Len(writeOps[p]) : todo[p][1].at = k
      BY <2>2, BodyAt, ZenonT(30)
    <3>2. \/ DoneReadingDescriptorReplyEffect(p, k) \/ DoneWritingPayloadEffect(p, k)
          \/ DoneSendingTensorEffect(p, k)
      BY <1>2, <2>2, <3>1, DoneReadingDescriptorReplyStep, DoneWritingPayloadStep,
         DoneSendingTensorStep, Zenon
    <3> QED
      BY <3>2, Zenon DEF RunTaskEffect
  <2>3. CASE \E k \in 1 .. Len(readOps[p]) :
               \/ FlushRead(p, k) \/ ReadDescriptorOfMessage(p, k) \/ AskForAllocation(p, k)
               \/ ExpectReadCall(p, k) \/ AbortRead(p, k) \/ ReadPayloads(p, k) \/ FinishRead(p, k)
    BY <1>2, <2>3, FlushReadStep, ReadDescriptorOfMessageStep, AskForAllocationStep,
       ExpectReadCallStep, AbortReadStep, ReadPayloadsStep, FinishReadStep, ZenonT(30)
       DEF RunTaskEffect
  <2>4. CASE \E k \in 1 .. Len(writeOps[p]) :
               \/ FlushWrite(p, k) \/ SendMessage(p, k) \/ AskTargetDevices(p, k)
               \/ AbortWrite(p, k) \/ SendTensors(p, k) \/ FinishWrite(p, k)
    BY <1>2, <2>4, FlushWriteStep, SendMessageStep, AskTargetDevicesStep, AbortWriteStep,
       SendTensorsStep, FinishWriteStep, ZenonT(30) DEF RunTaskEffect
  <2>5. CASE NextReadOperation(p) \/ NextWriteOperation(p)
    BY <1>2, <2>5, NextReadOperationStep, NextWriteOperationStep, Zenon DEF RunTaskEffect
  <2> QED
    BY <1>6, <2>1, <2>2, <2>3, <2>4, <2>5, ZenonT(30) DEF RunTask
<1> QED
  BY <1>1, <1>3, <1>4, <1>5, <1>6, ZenonT(30)

=============================================================================
