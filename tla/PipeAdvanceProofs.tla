------------------------- MODULE PipeAdvanceProofs --------------------------
(***************************************************************************)
(* No operation of a pipe is left behind: whatever could make a transition *)
(* is reached by the task the pipe is in the middle of.                    *)
(***************************************************************************)
EXTENDS PipeEffects, TLAPS

(* A piece of a task will come to operation k, if those before it advance. *)
Reaches(piece, what, k) ==
  /\ piece.what = what
  /\ IF piece.all THEN piece.at <= k ELSE piece.at = k \/ (piece.at + 1 = k /\ piece.advanced)

Covered(can, what, task) == \A k \in can : \E n \in 1 .. Len(task) : Reaches(task[n], what, k)

CanReads(p) == {k \in 1 .. Len(readOps[p]) : CanAdvanceRead(p, k)}
CanWrites(p) == {k \in 1 .. Len(writeOps[p]) : CanAdvanceWrite(p, k)}

AdvanceInv ==
  \A p \in Pipes : Covered(CanReads(p), "reads", todo[p]) /\ Covered(CanWrites(p), "writes", todo[p])

USE DEF UNINITIALIZED, READING_DESCRIPTOR, ASKING_FOR_ALLOCATION,
        ASKING_FOR_ALLOCATION_FIRST_IN_LINE, READING_PAYLOADS_AND_RECEIVING_TENSORS,
        READ_FINISHED, WRITING_PAYLOADS_AND_READING_TARGET_DEVICES,
        WRITING_PAYLOADS_AND_SENDING_TENSORS, WRITE_FINISHED

-----------------------------------------------------------------------------
(* What the transitions of an operation depend on.                         *)

\* The types of the reads and of the announcements of a pipe.
LEMMA AdvanceTypes ==
  ASSUME TypeOK, NEW p \in Pipes
  PROVE  TypedReads(readOps[p]) /\ TypedCalls(readDescriptorCalled[p])
<1>1. readOps[p] \in Seq(ReadOperation) /\ readDescriptorCalled[p] \in Seq(Call)
  BY Zenon DEF TypeOK
<1>2. /\ \A k \in 1 .. Len(readOps[p]) : readOps[p][k] \in ReadOperation
      /\ \A i \in 1 .. Len(readDescriptorCalled[p]) : readDescriptorCalled[p][i] \in Call
  BY <1>1
<1>3. TypedReads(readOps[p])
  BY <1>1, <1>2 DEF TypedReads, ReadOperation
<1>4. TypedCalls(readDescriptorCalled[p])
  BY <1>1, <1>2 DEF TypedCalls, Call
<1> QED
  BY <1>3, <1>4, Zenon

\* The lengths of the sequences of a pipe.
LEMMA AdvanceLengths ==
  ASSUME NEW p \in Pipes
  PROVE  /\ TypeOK => /\ Len(readOps[p]) \in Nat /\ Len(writeOps[p]) \in Nat /\ Len(todo[p]) \in Nat
                      /\ Len(readCalled[p]) \in Nat /\ Len(writeCalled[p]) \in Nat
         /\ TypeOK' => Len(readOps'[p]) \in Nat /\ Len(writeOps'[p]) \in Nat
<1>1. TypeOK => /\ readOps \in [Pipes -> Seq(ReadOperation)] /\ writeOps \in [Pipes -> Seq(WriteOperation)]
                /\ todo \in [Pipes -> Seq(Piece)] /\ readCalled \in [Pipes -> Seq(Call)]
                /\ writeCalled \in [Pipes -> Seq(Call)]
  BY Zenon DEF TypeOK
<1>2. TypeOK' => /\ readOps' \in [Pipes -> Seq(ReadOperation)]
                 /\ writeOps' \in [Pipes -> Seq(WriteOperation)]
  BY Zenon DEF TypeOK
<1> QED
  BY <1>1, <1>2

\* A read depends on its own fields and the state of the one before it.
LEMMA ReadDepends ==
  ASSUME NEW p \in Pipes, NEW j, readOps'[p][j] = readOps[p][j],
         j # 1 => readOps'[p][j - 1].state = readOps[p][j - 1].state,
         error'[p] = error[p], established'[p] = established[p]
  PROVE  CanAdvanceRead(p, j)' <=> CanAdvanceRead(p, j)
<1>1. PrevRead(p, j)' = PrevRead(p, j)
  BY Zenon DEF PrevRead
<1>2. /\ CanFlushRead(p, j)' <=> CanFlushRead(p, j)
      /\ CanReadDescriptor(p, j)' <=> CanReadDescriptor(p, j)
      /\ CanAskForAllocation(p, j)' <=> CanAskForAllocation(p, j)
      /\ CanExpectRead(p, j)' <=> CanExpectRead(p, j)
  BY <1>1, Zenon DEF CanFlushRead, CanReadDescriptor, CanAskForAllocation, CanExpectRead
<1>3. /\ CanAbortRead(p, j)' <=> CanAbortRead(p, j)
      /\ CanReadPayloads(p, j)' <=> CanReadPayloads(p, j)
      /\ CanFinishRead(p, j)' <=> CanFinishRead(p, j)
  BY <1>1, Zenon DEF CanAbortRead, CanReadPayloads, CanFinishRead
<1> QED
  BY <1>2, <1>3, Zenon DEF CanAdvanceRead

\* So does a write.
LEMMA WriteDepends ==
  ASSUME NEW p \in Pipes, NEW j, writeOps'[p][j] = writeOps[p][j],
         j # 1 => writeOps'[p][j - 1].state = writeOps[p][j - 1].state,
         error'[p] = error[p], established'[p] = established[p]
  PROVE  CanAdvanceWrite(p, j)' <=> CanAdvanceWrite(p, j)
<1>1. PrevWrite(p, j)' = PrevWrite(p, j)
  BY Zenon DEF PrevWrite
<1>2. /\ CanFlushWrite(p, j)' <=> CanFlushWrite(p, j)
      /\ CanSendMessage(p, j)' <=> CanSendMessage(p, j)
      /\ CanAskTargetDevices(p, j)' <=> CanAskTargetDevices(p, j)
  BY <1>1, Zenon DEF CanFlushWrite, CanSendMessage, CanAskTargetDevices
<1>3. /\ CanAbortWrite(p, j)' <=> CanAbortWrite(p, j)
      /\ CanSendTensors(p, j)' <=> CanSendTensors(p, j)
      /\ CanFinishWrite(p, j)' <=> CanFinishWrite(p, j)
  BY <1>1, Zenon DEF CanAbortWrite, CanSendTensors, CanFinishWrite
<1> QED
  BY <1>2, <1>3, Zenon DEF CanAdvanceWrite

\* An operation that is over does nothing any more.
LEMMA FinishedStays ==
  ASSUME NEW p \in Pipes, NEW j
  PROVE  /\ readOps[p][j].state = READ_FINISHED => ~CanAdvanceRead(p, j)
         /\ writeOps[p][j].state = WRITE_FINISHED => ~CanAdvanceWrite(p, j)
         /\ readOps'[p][j].state = READ_FINISHED => ~CanAdvanceRead(p, j)'
         /\ writeOps'[p][j].state = WRITE_FINISHED => ~CanAdvanceWrite(p, j)'
<1>1. /\ readOps[p][j].state = READ_FINISHED => ~CanAdvanceRead(p, j)
      /\ readOps'[p][j].state = READ_FINISHED => ~CanAdvanceRead(p, j)'
  BY DEF CanAdvanceRead, CanFlushRead, CanReadDescriptor, CanAskForAllocation, CanExpectRead,
     CanAbortRead, CanReadPayloads, CanFinishRead
<1>2. /\ writeOps[p][j].state = WRITE_FINISHED => ~CanAdvanceWrite(p, j)
      /\ writeOps'[p][j].state = WRITE_FINISHED => ~CanAdvanceWrite(p, j)'
  BY DEF CanAdvanceWrite, CanFlushWrite, CanSendMessage, CanAskTargetDevices, CanAbortWrite,
     CanSendTensors, CanFinishWrite
<1> QED
  BY <1>1, <1>2, ZenonT(30)

\* The reads that can advance after one of them changed.
LEMMA ReadsThatCan ==
  ASSUME TypeOK, TypeOK', NEW p \in Pipes, error'[p] = error[p], established'[p] = established[p],
         NEW k \in Nat, NEW S \in SUBSET Nat,
         \A j \in 1 .. Len(readOps'[p]) : j # k =>
           j \in 1 .. Len(readOps[p]) /\ readOps'[p][j] = readOps[p][j],
         \/ k + 1 \in S
         \/ k \in 1 .. Len(readOps[p]) /\ readOps'[p][k].state = readOps[p][k].state
         \/ k > Len(readOps[p])
  PROVE  CanReads(p)' \subseteq CanReads(p) \cup {k} \cup S
<1>1. Len(readOps[p]) \in Nat /\ Len(readOps'[p]) \in Nat
  BY AdvanceLengths, Zenon
<1>2. SUFFICES ASSUME NEW j \in 1 .. Len(readOps'[p]), CanAdvanceRead(p, j)', j # k, ~(j \in S)
               PROVE  j \in 1 .. Len(readOps[p]) /\ CanAdvanceRead(p, j)
  BY <1>2, Zenon DEF CanReads
<1>3. j \in 1 .. Len(readOps[p]) /\ readOps'[p][j] = readOps[p][j]
  BY <1>2, ZenonT(30)
<1>4. ASSUME j # 1 PROVE readOps'[p][j - 1].state = readOps[p][j - 1].state
  <2>1. j - 1 \in 1 .. Len(readOps'[p]) /\ j - 1 \in 1 .. Len(readOps[p])
    BY <1>1, <1>4
  <2>2. CASE j - 1 = k
    <3>1. j = k + 1
      BY <2>2
    <3> QED
      BY <1>1, <1>2, <2>1, <2>2, <3>1
  <2>3. CASE j - 1 # k
    BY <2>1, <2>3, SMTT(30)
  <2> QED
    BY <2>2, <2>3, Zenon
<1> QED
  BY <1>2, <1>4, ReadDepends, ZenonT(30)

\* The writes that can advance after one of them changed.
LEMMA WritesThatCan ==
  ASSUME TypeOK, TypeOK', NEW p \in Pipes, error'[p] = error[p], established'[p] = established[p],
         NEW k \in Nat, NEW S \in SUBSET Nat,
         \A j \in 1 .. Len(writeOps'[p]) : j # k =>
           j \in 1 .. Len(writeOps[p]) /\ writeOps'[p][j] = writeOps[p][j],
         \/ k + 1 \in S
         \/ k \in 1 .. Len(writeOps[p]) /\ writeOps'[p][k].state = writeOps[p][k].state
         \/ k > Len(writeOps[p])
  PROVE  CanWrites(p)' \subseteq CanWrites(p) \cup {k} \cup S
<1>1. Len(writeOps[p]) \in Nat /\ Len(writeOps'[p]) \in Nat
  BY AdvanceLengths, Zenon
<1>2. SUFFICES ASSUME NEW j \in 1 .. Len(writeOps'[p]), CanAdvanceWrite(p, j)', j # k, ~(j \in S)
               PROVE  j \in 1 .. Len(writeOps[p]) /\ CanAdvanceWrite(p, j)
  BY <1>2, Zenon DEF CanWrites
<1>3. j \in 1 .. Len(writeOps[p]) /\ writeOps'[p][j] = writeOps[p][j]
  BY <1>2, Zenon
<1>4. ASSUME j # 1 PROVE writeOps'[p][j - 1].state = writeOps[p][j - 1].state
  <2>1. j - 1 \in 1 .. Len(writeOps'[p]) /\ j - 1 \in 1 .. Len(writeOps[p])
    BY <1>1, <1>4
  <2>2. CASE j - 1 = k
    <3>1. j = k + 1
      BY <2>2
    <3> QED
      BY <1>1, <1>2, <2>1, <2>2, <3>1
  <2>3. CASE j - 1 # k
    BY <2>1, <2>3, ZenonT(30)
  <2> QED
    BY <2>2, <2>3, Zenon
<1> QED
  BY <1>2, <1>4, WriteDepends, Zenon

\* Operations that a step leaves alone.
LEMMA SameCan ==
  ASSUME NEW p \in Pipes, error'[p] = error[p], established'[p] = established[p]
  PROVE  /\ readOps'[p] = readOps[p] => CanReads(p)' = CanReads(p)
         /\ writeOps'[p] = writeOps[p] => CanWrites(p)' = CanWrites(p)
<1>1. ASSUME readOps'[p] = readOps[p], NEW j PROVE CanAdvanceRead(p, j)' <=> CanAdvanceRead(p, j)
  BY <1>1, ReadDepends, Zenon
<1>2. ASSUME writeOps'[p] = writeOps[p], NEW j PROVE CanAdvanceWrite(p, j)' <=> CanAdvanceWrite(p, j)
  BY <1>2, WriteDepends, ZenonT(30)
<1> QED
  BY <1>1, <1>2, Zenon DEF CanReads, CanWrites

-----------------------------------------------------------------------------
(* What the task of a pipe covers.                                         *)

\* Of what is covered, every part is.
LEMMA CoveredPart ==
  ASSUME NEW what, NEW task, NEW A, NEW B, Covered(A, what, task), Covered(B, what, task),
         NEW S, S \subseteq A \cup B
  PROVE  Covered(S, what, task)
  BY Zenon DEF Covered

(* The operation k that the task is at advances.                           *)
NotesAdvance(later, task, what, k) ==
  /\ 1 \in 1 .. Len(task) /\ task[1] \in AdvancePiece /\ task[1].what = what /\ task[1].at = k
  /\ Len(later) = Len(task) /\ later[1] = [task[1] EXCEPT !.advanced = TRUE]
  /\ \A n \in 1 .. Len(task) : n # 1 => later[n] = task[n]

\* When the operation that the task is at advances, the task comes to the next
\* one, too.
LEMMA CoveredTransition ==
  ASSUME NEW task, NEW later, NEW what, NEW k, NotesAdvance(later, task, what, k)
  PROVE  /\ Covered({k, k + 1}, what, later)
         /\ \A S, w : Covered(S, w, task) => Covered(S, w, later)
<1> USE DEF NotesAdvance
<1>1. /\ later[1].what = what /\ later[1].at = k /\ later[1].advanced
      /\ later[1].all = task[1].all /\ later[1].all \in BOOLEAN /\ k \in Nat
  BY Zenon DEF AdvancePiece
<1>2. ASSUME NEW j \in {k, k + 1} PROVE Reaches(later[1], what, j)
  BY <1>1 DEF Reaches
<1>3. ASSUME NEW n \in 1 .. Len(task), NEW w, NEW j, Reaches(task[n], w, j)
      PROVE  Reaches(later[n], w, j)
  <2>1. CASE n = 1
    BY <1>1, <1>3, <2>1, Zenon DEF Reaches
  <2>2. CASE n # 1
    BY <1>3, <2>2, Zenon
  <2> QED
    BY <2>1, <2>2, Zenon
<1>4. Covered({k, k + 1}, what, later)
  BY <1>2, Zenon DEF Covered
<1>5. ASSUME NEW S, NEW w, Covered(S, w, task) PROVE Covered(S, w, later)
  BY <1>3, <1>5, Zenon DEF Covered
<1> QED
  BY <1>4, <1>5, Zenon

\* A task that advances one operation, or all.
LEMMA CoveredStart ==
  ASSUME NEW task, NEW n \in 1 .. Len(task), NEW what, task[n].what = what, NEW k \in Nat,
         task[n].at = k
  PROVE  /\ ~task[n].all => Covered({k}, what, task)
         /\ task[n].all => \A S \in SUBSET Nat : (\A j \in S : k <= j) => Covered(S, what, task)
  BY Zenon DEF Covered, Reaches

\* The move of a task whose first piece was not advanced: on to the next
\* operation, or to the next piece.
TaskMoves(task, later, ops, finished) ==
  \/ /\ GoesOn(task[1], ops, finished)
     /\ Len(later) = Len(task)
     /\ later[1] = [task[1] EXCEPT !.at = @ + 1, !.advanced = FALSE]
     /\ \A n \in 1 .. Len(task) : n # 1 => later[n] = task[n]
  \/ /\ ~GoesOn(task[1], ops, finished)
     /\ Len(later) = Len(task) - 1
     /\ \A n \in 1 .. Len(later) : later[n] = task[n + 1]

\* An operation that cannot advance can be left behind.
LEMMA CoveredMove ==
  ASSUME NEW task \in Seq(Piece), NEW later, NEW what, NEW ops, NEW finished,
         1 \in 1 .. Len(task), task[1] \in AdvancePiece, task[1].what = what,
         Len(ops) \in Nat, NEW can, can \subseteq 1 .. Len(ops), ~(task[1].at \in can),
         \A j \in can : ops[j].state # finished, Covered(can, what, task),
         TaskMoves(task, later, ops, finished)
  PROVE  Covered(can, what, later)
<1> SUFFICES ASSUME NEW j \in can PROVE \E n \in 1 .. Len(later) : Reaches(later[n], what, j)
  BY Zenon DEF Covered
<1>1. j \in Nat /\ j <= Len(ops) /\ task[1].at # j /\ ops[j].state # finished /\ Len(task) \in Nat
  OBVIOUS
<1>2. PICK n \in 1 .. Len(task) : Reaches(task[n], what, j)
  BY Zenon DEF Covered
<1>3. /\ task[1].at \in Nat /\ task[1].all \in BOOLEAN /\ task[1].advanced \in BOOLEAN
  BY Zenon DEF AdvancePiece
<1>4. ASSUME n = 1
      PROVE  GoesOn(task[1], ops, finished) /\ (task[1].all => task[1].at + 1 <= j)
             /\ (~task[1].all => task[1].at + 1 = j)
  <2>1. IF task[1].all THEN task[1].at <= j ELSE task[1].at = j \/ (task[1].at + 1 = j /\ task[1].advanced)
    BY <1>2, <1>4, Zenon DEF Reaches
  <2>2. task[1].at < Len(ops)
    BY <1>3, <2>1
  <2>3. ~task[1].all => task[1].at + 1 = j /\ task[1].advanced
    BY <2>1, Zenon
  <2>4. task[1].all => task[1].at + 1 <= j
    BY <1>3, <2>1
  <2>5. GoesOn(task[1], ops, finished)
    BY <2>2, <2>3, Zenon DEF GoesOn
  <2> QED
    BY <2>3, <2>4, <2>5, Zenon
<1>5. CASE GoesOn(task[1], ops, finished)
  <2>1. /\ Len(later) = Len(task)
        /\ later[1] = [task[1] EXCEPT !.at = @ + 1, !.advanced = FALSE]
        /\ \A m \in 1 .. Len(task) : m # 1 => later[m] = task[m]
    BY <1>5, Zenon DEF TaskMoves
  <2>2. CASE n = 1
    <3>1. later[1].what = what /\ later[1].at = task[1].at + 1 /\ later[1].all = task[1].all
      BY <2>1, ZenonT(30) DEF AdvancePiece
    <3>2. Reaches(later[1], what, j)
      BY <1>4, <2>2, <3>1, ZenonT(30) DEF Reaches
    <3> QED
      BY <2>1, <3>2, ZenonT(30)
  <2>3. CASE n # 1
    BY <1>2, <2>1, <2>3, ZenonT(30)
  <2> QED
    BY <2>2, <2>3, Zenon
<1>6. CASE ~GoesOn(task[1], ops, finished)
  <2>1. n # 1 /\ Len(later) = Len(task) - 1 /\ \A m \in 1 .. Len(later) : later[m] = task[m + 1]
    BY <1>4, <1>6, ZenonT(30) DEF TaskMoves
  <2>2. n - 1 \in 1 .. Len(later) /\ (n - 1) + 1 = n
    BY <2>1
  <2>3. later[n - 1] = task[n]
    BY <2>1, <2>2, Zenon
  <2> QED
    BY <1>2, <2>2, <2>3, ZenonT(30)
<1> QED
  BY <1>5, <1>6, Zenon

\* What another kind of piece covers does not depend on the one that moves.
LEMMA CoveredOther ==
  ASSUME NEW task \in Seq(Piece), NEW later, NEW what, NEW w, w # what,
         1 \in 1 .. Len(task), task[1] \in AdvancePiece, task[1].what = what,
         NEW can, Covered(can, w, task),
         \/ /\ Len(later) = Len(task)
            /\ \A n \in 1 .. Len(task) : n # 1 => later[n] = task[n]
         \/ /\ Len(later) = Len(task) - 1
            /\ \A n \in 1 .. Len(later) : later[n] = task[n + 1]
  PROVE  Covered(can, w, later)
<1> SUFFICES ASSUME NEW j \in can PROVE \E n \in 1 .. Len(later) : Reaches(later[n], w, j)
  BY Zenon DEF Covered
<1>1. PICK n \in 1 .. Len(task) : Reaches(task[n], w, j)
  BY Zenon DEF Covered
<1>2. n # 1 /\ Len(task) \in Nat
  BY <1>1 DEF Reaches
<1>3. CASE Len(later) = Len(task) /\ \A m \in 1 .. Len(task) : m # 1 => later[m] = task[m]
  BY <1>1, <1>2, <1>3, Zenon
<1>4. CASE Len(later) = Len(task) - 1 /\ \A m \in 1 .. Len(later) : later[m] = task[m + 1]
  <2>1. n - 1 \in 1 .. Len(later) /\ (n - 1) + 1 = n
    BY <1>2, <1>4
  <2>2. later[n - 1] = task[n]
    BY <1>4, <2>1, Zenon
  <2> QED
    BY <1>1, <2>1, <2>2, Zenon
<1> QED
  BY <1>3, <1>4, ZenonT(30)

-----------------------------------------------------------------------------
(* The steps.                                                              *)

(* A step of pipe p changes nothing of the other pipe that matters here.   *)
SameElsewhere(p) ==
  \A q \in Pipes \ {p} :
    /\ readOps'[q] = readOps[q] /\ writeOps'[q] = writeOps[q] /\ todo'[q] = todo[q]
    /\ error'[q] = error[q] /\ established'[q] = established[q]

\* A step at one pipe preserves what is covered at the other.
LEMMA OtherAdvance ==
  ASSUME AdvanceInv, NEW p \in Pipes, SameElsewhere(p),
         Covered(CanReads(p)', "reads", todo'[p]), Covered(CanWrites(p)', "writes", todo'[p])
  PROVE  AdvanceInv'
<1>1. ASSUME NEW q \in Pipes \ {p}
      PROVE  Covered(CanReads(q)', "reads", todo'[q]) /\ Covered(CanWrites(q)', "writes", todo'[q])
  <2>1. CanReads(q)' = CanReads(q) /\ CanWrites(q)' = CanWrites(q)
    BY SameCan, Zenon DEF SameElsewhere
  <2>2. todo'[q] = todo[q]
    BY Zenon DEF SameElsewhere
  <2>3. Covered(CanReads(q), "reads", todo[q]) /\ Covered(CanWrites(q), "writes", todo[q])
    BY Zenon DEF AdvanceInv
  <2> QED
    BY <2>1, <2>2, <2>3, ZenonT(30)
<1>2. \A q \in Pipes : /\ Covered(CanReads(q)', "reads", todo'[q])
                       /\ Covered(CanWrites(q)', "writes", todo'[q])
  BY <1>1, Zenon
<1> QED
  BY <1>2, Zenon DEF AdvanceInv, Covered

\* Between tasks, or before a callback's body, no operation can advance.
LEMMA NobodyCan ==
  ASSUME AdvanceInv, NEW p \in Pipes,
         \A n \in 1 .. Len(todo[p]) : ~(todo[p][n].what \in {"reads", "writes"})
  PROVE  CanReads(p) = {} /\ CanWrites(p) = {}
<1>1. Covered(CanReads(p), "reads", todo[p]) /\ Covered(CanWrites(p), "writes", todo[p])
  BY ZenonT(30) DEF AdvanceInv
<1>2. \A k \in CanReads(p) : FALSE
  BY <1>1, Zenon DEF Covered, Reaches
<1>3. \A k \in CanWrites(p) : FALSE
  BY <1>1, Zenon DEF Covered, Reaches
<1> QED
  BY <1>2, <1>3, Zenon

\* The transitions of reads.
LEMMA ReadTransitionAdvance ==
  ASSUME TypeOK, TypeOK', AdvanceInv, NEW p \in Pipes, NEW k \in 1 .. Len(readOps[p]), NEW op,
         ReadTransition(p, k, op)
  PROVE  AdvanceInv'
<1>1. /\ 1 \in 1 .. Len(todo[p]) /\ todo[p][1] \in AdvancePiece
      /\ todo[p][1].what = "reads" /\ todo[p][1].at = k
      /\ Len(todo'[p]) = Len(todo[p]) /\ todo'[p][1] = [todo[p][1] EXCEPT !.advanced = TRUE]
      /\ \A n \in 1 .. Len(todo[p]) : n # 1 => todo'[p][n] = todo[p][n]
      /\ \A q \in Pipes \ {p} : todo'[q] = todo[q] /\ readOps'[q] = readOps[q]
      /\ established' = established /\ error' = error /\ writeOps' = writeOps
      /\ Len(readOps'[p]) = Len(readOps[p])
      /\ \A j \in 1 .. Len(readOps[p]) : j # k => readOps'[p][j] = readOps[p][j]
  BY Zenon DEF ReadTransition, UpdatedAt
<1>2. k \in Nat /\ k + 1 \in Nat
  BY AdvanceLengths
<1>3. /\ Covered({k, k + 1}, "reads", todo'[p])
      /\ \A S, w : Covered(S, w, todo[p]) => Covered(S, w, todo'[p])
  <2>1. NotesAdvance(todo'[p], todo[p], "reads", k)
    BY <1>1, Zenon DEF NotesAdvance
  <2> QED
    BY <2>1, CoveredTransition, ZenonT(30)
<1>4. CanReads(p)' \subseteq CanReads(p) \cup {k} \cup {k + 1}
  <2>1. {k + 1} \in SUBSET Nat /\ k + 1 \in {k + 1}
    BY <1>2, Zenon
  <2>2. \A j \in 1 .. Len(readOps'[p]) : j # k =>
           j \in 1 .. Len(readOps[p]) /\ readOps'[p][j] = readOps[p][j]
    BY <1>1, Zenon
  <2>3. error'[p] = error[p] /\ established'[p] = established[p]
    BY <1>1, Zenon
  <2> QED
    BY <1>2, <2>1, <2>2, <2>3, ReadsThatCan, ZenonT(30)
<1>5. Covered(CanReads(p), "reads", todo'[p]) /\ Covered(CanWrites(p), "writes", todo'[p])
  BY <1>3, Zenon DEF AdvanceInv
<1>6. Covered(CanReads(p)', "reads", todo'[p])
  BY <1>3, <1>4, <1>5, CoveredPart
<1>7. CanWrites(p)' = CanWrites(p)
  BY <1>1, SameCan, ZenonT(30)
<1>8. SameElsewhere(p)
  BY <1>1, Zenon DEF SameElsewhere
<1> QED
  BY <1>5, <1>6, <1>7, <1>8, OtherAdvance, ZenonT(30)

\* The transitions of writes.
LEMMA WriteTransitionAdvance ==
  ASSUME TypeOK, TypeOK', AdvanceInv, NEW p \in Pipes, NEW k \in 1 .. Len(writeOps[p]), NEW op,
         WriteTransition(p, k, op)
  PROVE  AdvanceInv'
<1>1. /\ 1 \in 1 .. Len(todo[p]) /\ todo[p][1] \in AdvancePiece
      /\ todo[p][1].what = "writes" /\ todo[p][1].at = k
      /\ Len(todo'[p]) = Len(todo[p]) /\ todo'[p][1] = [todo[p][1] EXCEPT !.advanced = TRUE]
      /\ \A n \in 1 .. Len(todo[p]) : n # 1 => todo'[p][n] = todo[p][n]
      /\ \A q \in Pipes \ {p} : todo'[q] = todo[q] /\ writeOps'[q] = writeOps[q]
      /\ established' = established /\ error' = error /\ readOps' = readOps
      /\ Len(writeOps'[p]) = Len(writeOps[p])
      /\ \A j \in 1 .. Len(writeOps[p]) : j # k => writeOps'[p][j] = writeOps[p][j]
  BY Zenon DEF WriteTransition, UpdatedAt
<1>2. k \in Nat /\ k + 1 \in Nat
  BY AdvanceLengths
<1>3. /\ Covered({k, k + 1}, "writes", todo'[p])
      /\ \A S, w : Covered(S, w, todo[p]) => Covered(S, w, todo'[p])
  <2>1. NotesAdvance(todo'[p], todo[p], "writes", k)
    BY <1>1, Zenon DEF NotesAdvance
  <2> QED
    BY <2>1, CoveredTransition, ZenonT(30)
<1>4. CanWrites(p)' \subseteq CanWrites(p) \cup {k} \cup {k + 1}
  <2>1. {k + 1} \in SUBSET Nat /\ k + 1 \in {k + 1}
    BY <1>2, Zenon
  <2>2. \A j \in 1 .. Len(writeOps'[p]) : j # k =>
           j \in 1 .. Len(writeOps[p]) /\ writeOps'[p][j] = writeOps[p][j]
    BY <1>1, Zenon
  <2>3. error'[p] = error[p] /\ established'[p] = established[p]
    BY <1>1, ZenonT(30)
  <2> QED
    BY <1>2, <2>1, <2>2, <2>3, WritesThatCan, Zenon
<1>5. Covered(CanReads(p), "reads", todo'[p]) /\ Covered(CanWrites(p), "writes", todo'[p])
  BY <1>3, ZenonT(30) DEF AdvanceInv
<1>6. Covered(CanWrites(p)', "writes", todo'[p])
  BY <1>3, <1>4, <1>5, CoveredPart
<1>7. CanReads(p)' = CanReads(p)
  BY <1>1, SameCan, Zenon
<1>8. SameElsewhere(p)
  BY <1>1, Zenon DEF SameElsewhere
<1> QED
  BY <1>5, <1>6, <1>7, <1>8, OtherAdvance, ZenonT(30)

\* A task that begins with an operation of its own covers it, and no other can
\* advance.
LEMMA StartAdvance ==
  ASSUME TypeOK, AdvanceInv, NEW p \in Pipes, SameElsewhere(p),
         \A n \in 1 .. Len(todo[p]) : ~(todo[p][n].what \in {"reads", "writes"}),
         NEW what \in {"reads", "writes"}, NEW k \in Nat, Starts(p, << AdvanceOperation(what, k) >>),
         what = "reads" => CanReads(p)' \subseteq CanReads(p) \cup {k} /\ CanWrites(p)' = CanWrites(p),
         what = "writes" => CanWrites(p)' \subseteq CanWrites(p) \cup {k} /\ CanReads(p)' = CanReads(p)
  PROVE  AdvanceInv'
<1>1. CanReads(p) = {} /\ CanWrites(p) = {}
  BY NobodyCan, ZenonT(30)
<1>2. /\ 1 \in 1 .. Len(todo'[p]) /\ todo'[p][1].what = what /\ todo'[p][1].at = k
      /\ todo'[p][1].all = FALSE
  BY DEF Starts, AdvanceOperation
<1>3. Covered({k}, what, todo'[p])
  BY <1>2, CoveredStart, Zenon
<1>4. \A w : Covered({}, w, todo'[p])
  BY Zenon DEF Covered
<1>5. CASE what = "reads"
  <2>1. CanReads(p)' \subseteq {k} \cup {} /\ CanWrites(p)' = {}
    BY <1>1, <1>5, Zenon
  <2>2. Covered(CanReads(p)', "reads", todo'[p])
    BY <1>3, <1>5, <2>1, CoveredPart, Zenon
  <2> QED
    BY <1>4, <2>1, <2>2, OtherAdvance, Zenon
<1>6. CASE what = "writes"
  <2>1. CanWrites(p)' \subseteq {k} \cup {} /\ CanReads(p)' = {}
    BY <1>1, <1>6, ZenonT(30)
  <2>2. Covered(CanWrites(p)', "writes", todo'[p])
    BY <1>3, <1>6, <2>1, CoveredPart, ZenonT(30)
  <2> QED
    BY <1>4, <2>1, <2>2, OtherAdvance, ZenonT(30)
<1> QED
  BY <1>5, <1>6, Zenon

\* The bodies of callbacks of reads.
LEMMA ReadBodyAdvance ==
  ASSUME OrderInv, TypeOK', AdvanceInv, NEW p \in Pipes, NEW k \in 1 .. Len(readOps[p]), NEW kind,
         NEW op, ReadBody(p, k, kind, op), op.state = readOps[p][k].state
  PROVE  AdvanceInv'
<1>1. /\ Starts(p, << AdvanceOperation("reads", k) >>)
      /\ 1 \in 1 .. Len(todo[p]) /\ todo[p][1].what = "in"
      /\ established' = established /\ error' = error /\ writeOps' = writeOps
      /\ Len(readOps'[p]) = Len(readOps[p]) /\ readOps'[p][k] = op
      /\ \A j \in 1 .. Len(readOps[p]) : j # k => readOps'[p][j] = readOps[p][j]
  BY ZenonT(30) DEF ReadBody, UpdatedAt, InPiece
<1>2. TypeOK /\ k \in Nat /\ Len(todo[p]) \in Nat
  <2>1. TypeOK
    BY Zenon DEF OrderInv
  <2>2. todo[p] \in Seq(Piece)
    BY <2>1, ZenonT(30) DEF TypeOK
  <2> QED
    BY <2>1, <2>2
<1>3. \A n \in 1 .. Len(todo[p]) : ~(todo[p][n].what \in {"reads", "writes"})
  <2>1. PieceOK(todo[p][1], 1 = Len(todo[p]), Len(readOps[p]), Len(writeOps[p]))
    BY <1>1, Zenon DEF OrderInv, TodoOK
  <2>2. Len(todo[p]) = 1
    BY <1>1, <2>1, Zenon DEF PieceOK
  <2> QED
    BY <1>1, <2>2
<1>4. CanReads(p)' \subseteq CanReads(p) \cup {k} \cup {}
  <2>1. \A j \in 1 .. Len(readOps'[p]) : j # k =>
           j \in 1 .. Len(readOps[p]) /\ readOps'[p][j] = readOps[p][j]
    BY <1>1, Zenon
  <2>2. {} \in SUBSET Nat /\ readOps'[p][k].state = readOps[p][k].state
    BY <1>1, Zenon
  <2> QED
    BY <1>1, <1>2, <2>1, <2>2, ReadsThatCan, Zenon
<1>5. CanWrites(p)' = CanWrites(p)
  BY <1>1, SameCan, ZenonT(30)
<1>6. SameElsewhere(p)
  BY ZenonT(30) DEF SameElsewhere, Starts, ReadBody, UpdatedAt
<1> QED
  BY <1>1, <1>2, <1>3, <1>4, <1>5, <1>6, StartAdvance, SMTT(30)

\* The bodies of the other callbacks.
LEMMA WriteBodyAdvance ==
  ASSUME OrderInv, TypeOK', AdvanceInv, NEW p \in Pipes, NEW k \in 1 .. Len(writeOps[p]),
         NEW what \in {"in", "out"}, NEW kind, NEW op, WriteBody(p, k, what, kind, op),
         op.state = writeOps[p][k].state
  PROVE  AdvanceInv'
<1>1. /\ Starts(p, << AdvanceOperation("writes", k) >>)
      /\ 1 \in 1 .. Len(todo[p]) /\ todo[p][1].what = what
      /\ established' = established /\ error' = error /\ readOps' = readOps
      /\ Len(writeOps'[p]) = Len(writeOps[p]) /\ writeOps'[p][k] = op
      /\ \A j \in 1 .. Len(writeOps[p]) : j # k => writeOps'[p][j] = writeOps[p][j]
  BY Zenon DEF WriteBody, UpdatedAt
<1>2. TypeOK /\ k \in Nat /\ Len(todo[p]) \in Nat
  <2>1. TypeOK
    BY Zenon DEF OrderInv
  <2>2. todo[p] \in Seq(Piece)
    BY <2>1, ZenonT(30) DEF TypeOK
  <2> QED
    BY <2>1, <2>2
<1>3. \A n \in 1 .. Len(todo[p]) : ~(todo[p][n].what \in {"reads", "writes"})
  <2>1. PieceOK(todo[p][1], 1 = Len(todo[p]), Len(readOps[p]), Len(writeOps[p]))
    BY <1>1, Zenon DEF OrderInv, TodoOK
  <2>2. Len(todo[p]) = 1
    BY <1>1, <2>1, Zenon DEF PieceOK
  <2> QED
    BY <1>1, <2>2
<1>4. CanWrites(p)' \subseteq CanWrites(p) \cup {k} \cup {}
  <2>1. \A j \in 1 .. Len(writeOps'[p]) : j # k =>
           j \in 1 .. Len(writeOps[p]) /\ writeOps'[p][j] = writeOps[p][j]
    BY <1>1, ZenonT(30)
  <2>2. {} \in SUBSET Nat /\ writeOps'[p][k].state = writeOps[p][k].state
    BY <1>1, ZenonT(30)
  <2> QED
    BY <1>1, <1>2, <2>1, <2>2, WritesThatCan, Zenon
<1>5. CanReads(p)' = CanReads(p)
  BY <1>1, SameCan, ZenonT(30)
<1>6. SameElsewhere(p)
  BY Zenon DEF SameElsewhere, Starts, WriteBody, UpdatedAt
<1> QED
  BY <1>1, <1>2, <1>3, <1>4, <1>5, <1>6, StartAdvance, SMTT(30)

\* The calls of write, readDescriptor and read.
LEMMA UserCallAdvance ==
  ASSUME OrderInv, OrderInv', AdvanceInv, NEW p \in Pipes,
         \/ \E message \in Shapes : WriteFromLoopEffect(p, message)
         \/ ReadDescriptorFromLoopEffect(p)
         \/ \E k \in 1 .. Len(readOps[p]) : ReadFromLoopEffect(p, k)
  PROVE  AdvanceInv'
<1>1. TypeOK /\ TypeOK' /\ ReadInv(p)
  BY ZenonT(30) DEF OrderInv
<1>2. Len(readOps[p]) \in Nat /\ Len(writeOps[p]) \in Nat
  BY AdvanceLengths
<1>3. \A n \in 1 .. Len(todo[p]) : ~(todo[p][n].what \in {"reads", "writes"})
  <2>1. Idle(p)
    BY <1>1, ZenonT(30) DEF WriteFromLoopEffect, ReadDescriptorFromLoopEffect, ReadFromLoopEffect
  <2> QED
    BY <2>1 DEF Idle
<1>4. CASE \E message \in Shapes : WriteFromLoopEffect(p, message)
  <2>1. PICK message \in Shapes : WriteFromLoopEffect(p, message)
    BY <1>4, ZenonT(30)
  <2>2. /\ AppendedTo(writeOps', writeOps, p, NewWriteOperation(message), WriteOperation)
        /\ Starts(p, << AdvanceOperation("writes", Len(writeOps[p]) + 1) >>)
        /\ established' = established /\ error' = error /\ readOps' = readOps
    BY <2>1, ZenonT(30) DEF WriteFromLoopEffect
  <2>3. CanWrites(p)' \subseteq CanWrites(p) \cup {Len(writeOps[p]) + 1} \cup {}
    <3> DEFINE k == Len(writeOps[p]) + 1
    <3>1. \A j \in 1 .. Len(writeOps'[p]) : j # k => j \in 1 .. Len(writeOps[p])
      BY <2>2 DEF AppendedTo
    <3>2. \A j \in 1 .. Len(writeOps[p]) : writeOps'[p][j] = writeOps[p][j]
      BY <2>2, Zenon DEF AppendedTo
    <3>3. {} \in SUBSET Nat /\ k \in Nat /\ k > Len(writeOps[p])
      BY SMTT(30)
    <3>4. error'[p] = error[p] /\ established'[p] = established[p]
      BY <2>2, Zenon
    <3> HIDE DEF k
    <3>5. \A j \in 1 .. Len(writeOps'[p]) : j # k =>
             j \in 1 .. Len(writeOps[p]) /\ writeOps'[p][j] = writeOps[p][j]
      BY <3>1, <3>2, Zenon
    <3>6. CanWrites(p)' \subseteq CanWrites(p) \cup {k} \cup {}
      BY <1>1, <1>2, <1>3, <3>3, <3>4, <3>5, WritesThatCan, Zenon
    <3> QED
      BY <3>6, ZenonT(30) DEF k
  <2>4. CanReads(p)' = CanReads(p)
    BY <2>2, SameCan, ZenonT(30)
  <2>5. SameElsewhere(p)
    BY <2>2, ZenonT(30) DEF SameElsewhere, Starts, AppendedTo
  <2>6. Len(writeOps[p]) + 1 \in Nat
    OBVIOUS
  <2> QED
    BY <1>1, <1>3, <2>2, <2>3, <2>4, <2>5, <2>6, StartAdvance, ZenonT(30)
<1>5. CASE ReadDescriptorFromLoopEffect(p)
  <2>2. /\ AppendedTo(readOps', readOps, p, NewReadOperation, ReadOperation)
        /\ Starts(p, << AdvanceOperation("reads", Len(readOps[p]) + 1) >>)
        /\ established' = established /\ error' = error /\ writeOps' = writeOps
    BY <1>5, ZenonT(30) DEF ReadDescriptorFromLoopEffect
  <2>3. CanReads(p)' \subseteq CanReads(p) \cup {Len(readOps[p]) + 1} \cup {}
    <3> DEFINE k == Len(readOps[p]) + 1
    <3>1. \A j \in 1 .. Len(readOps'[p]) : j # k => j \in 1 .. Len(readOps[p])
      BY <2>2 DEF AppendedTo
    <3>2. \A j \in 1 .. Len(readOps[p]) : readOps'[p][j] = readOps[p][j]
      BY <2>2, Zenon DEF AppendedTo
    <3>3. {} \in SUBSET Nat /\ k \in Nat /\ k > Len(readOps[p])
      BY SMTT(30)
    <3>4. error'[p] = error[p] /\ established'[p] = established[p]
      BY <2>2, Zenon
    <3> HIDE DEF k
    <3>5. \A j \in 1 .. Len(readOps'[p]) : j # k =>
             j \in 1 .. Len(readOps[p]) /\ readOps'[p][j] = readOps[p][j]
      BY <3>1, <3>2, Zenon
    <3>6. CanReads(p)' \subseteq CanReads(p) \cup {k} \cup {}
      BY <1>1, <1>2, <1>3, <3>3, <3>4, <3>5, ReadsThatCan, Zenon
    <3> QED
      BY <3>6, ZenonT(30) DEF k
  <2>4. CanWrites(p)' = CanWrites(p)
    BY <2>2, SameCan, ZenonT(30)
  <2>5. SameElsewhere(p)
    BY <2>2, ZenonT(30) DEF SameElsewhere, Starts, AppendedTo
  <2>6. Len(readOps[p]) + 1 \in Nat
    BY SMTT(30)
  <2> QED
    BY <1>1, <1>3, <2>2, <2>3, <2>4, <2>5, <2>6, StartAdvance, ZenonT(30)
<1>6. ASSUME NEW k \in 1 .. Len(readOps[p]), ReadFromLoopEffect(p, k) PROVE AdvanceInv'
  <2> DEFINE op == [readOps[p][k] EXCEPT !.doneGettingAllocation = TRUE]
  <2>1. k \in Nat
    OBVIOUS
  <2>2. /\ readOps[p][k] \in ReadOperation
        /\ UpdatedAt(readOps', readOps, p, k, op, ReadOperation)
        /\ Starts(p, << AdvanceOperation("reads", k) >>)
        /\ established' = established /\ error' = error /\ writeOps' = writeOps
    BY <1>6, ZenonT(30) DEF ReadFromLoopEffect
  <2>3. op.state = readOps[p][k].state
    BY <2>2, SMTT(30) DEF ReadOperation
  <2> HIDE DEF op
  <2>4. CanReads(p)' \subseteq CanReads(p) \cup {k} \cup {}
    <3>1. \A j \in 1 .. Len(readOps'[p]) : j # k =>
             j \in 1 .. Len(readOps[p]) /\ readOps'[p][j] = readOps[p][j]
      BY <2>2, ZenonT(30) DEF UpdatedAt
    <3>2. /\ {} \in SUBSET Nat /\ readOps'[p][k].state = readOps[p][k].state
          /\ error'[p] = error[p] /\ established'[p] = established[p]
      BY <2>2, <2>3, ZenonT(30) DEF UpdatedAt
    <3> QED
      BY <1>1, <1>2, <1>3, <2>1, <3>1, <3>2, ReadsThatCan, ZenonT(30)
  <2>5. CanWrites(p)' = CanWrites(p)
    BY <2>2, SameCan, SMTT(30)
  <2>6. SameElsewhere(p)
    BY <2>2, SMTT(30) DEF SameElsewhere, Starts, UpdatedAt
  <2> QED
    BY <1>1, <1>3, <2>1, <2>2, <2>4, <2>5, <2>6, StartAdvance, ZenonT(30)
<1> QED
  BY <1>4, <1>5, <1>6, ZenonT(30)

\* A task that begins with all operations covers whatever can advance.
LEMMA AllAdvance ==
  ASSUME OrderInv, OrderInv', AdvanceInv, NEW p \in Pipes, NEW body,
         AdvancesAll(p, body), Len(body) \in Nat,
         readOps' = readOps, writeOps' = writeOps,
         \A q \in Pipes \ {p} : error'[q] = error[q] /\ established'[q] = established[q]
  PROVE  AdvanceInv'
<1>1. /\ Len(readCalled[p]) \in Nat /\ Len(writeCalled[p]) \in Nat
      /\ Len(readOps[p]) \in Nat /\ Len(writeOps[p]) \in Nat
  BY AdvanceLengths, SMTT(30) DEF OrderInv
<1>2. /\ \A k \in 1 .. Len(readOps[p]) : k <= Len(readCalled[p]) => readOps[p][k].state = READ_FINISHED
      /\ \A k \in 1 .. Len(writeOps[p]) :
           k <= Len(writeCalled[p]) => writeOps[p][k].state = WRITE_FINISHED
  BY ZenonT(30) DEF OrderInv, ReadInv, WriteInv, ReadsOK, WritesOK, ReadsCalled, WritesCalled
<1>3. /\ 1 \in 1 .. Len(todo'[p]) /\ 2 \in 1 .. Len(todo'[p])
      /\ todo'[p][1].what = "reads" /\ todo'[p][1].at = Len(readCalled[p]) + 1 /\ todo'[p][1].all
      /\ todo'[p][2].what = "writes" /\ todo'[p][2].at = Len(writeCalled[p]) + 1 /\ todo'[p][2].all
  BY SMTT(30) DEF AdvancesAll
<1>4. Covered(CanReads(p)', "reads", todo'[p])
  <2>1. ASSUME NEW j \in CanReads(p)' PROVE j \in Nat /\ Len(readCalled[p]) + 1 <= j
    <3>1. j \in 1 .. Len(readOps[p]) /\ CanAdvanceRead(p, j)'
      BY Zenon DEF CanReads
    <3>2. readOps'[p][j].state # READ_FINISHED
      BY <3>1, FinishedStays, Zenon
    <3> QED
      BY <1>2, <3>1, <3>2
  <2>2. CanReads(p)' \in SUBSET Nat /\ Len(readCalled[p]) + 1 \in Nat
    BY <2>1
  <2> QED
    BY <1>1, <1>3, <2>1, <2>2, CoveredStart, ZenonT(30)
<1>5. Covered(CanWrites(p)', "writes", todo'[p])
  <2>1. ASSUME NEW j \in CanWrites(p)' PROVE j \in Nat /\ Len(writeCalled[p]) + 1 <= j
    <3>1. j \in 1 .. Len(writeOps[p]) /\ CanAdvanceWrite(p, j)'
      BY Zenon DEF CanWrites
    <3>2. writeOps'[p][j].state # WRITE_FINISHED
      BY <3>1, FinishedStays, SMTT(30)
    <3> QED
      BY <1>2, <3>1, <3>2
  <2>2. CanWrites(p)' \in SUBSET Nat /\ Len(writeCalled[p]) + 1 \in Nat
    BY <2>1
  <2> QED
    BY <1>1, <1>3, <2>1, <2>2, CoveredStart, Zenon
<1>6. SameElsewhere(p)
  BY ZenonT(30) DEF SameElsewhere, AdvancesAll
<1> QED
  BY <1>4, <1>5, <1>6, OtherAdvance, ZenonT(30)

\* A callback that sets the error has all operations advanced; one that does
\* not changes nothing that they wait for.
LEMMA SetsErrorAdvance ==
  ASSUME OrderInv, OrderInv', AdvanceInv, NEW p \in Pipes, NEW ok \in BOOLEAN, NEW body, Idle(p),
         SetsError(p, ok, body), Len(body) \in Nat,
         readOps' = readOps, writeOps' = writeOps, established' = established
  PROVE  AdvanceInv'
<1>1. CASE Starts(p, body) /\ UNCHANGED error
  <2>1. CanReads(p) = {} /\ CanWrites(p) = {}
    BY NobodyCan DEF Idle
  <2>2. CanReads(p)' = CanReads(p) /\ CanWrites(p)' = CanWrites(p)
    BY <1>1, SameCan, ZenonT(30)
  <2>3. Covered(CanReads(p)', "reads", todo'[p]) /\ Covered(CanWrites(p)', "writes", todo'[p])
    BY <2>1, <2>2, Zenon DEF Covered
  <2>4. SameElsewhere(p)
    BY <1>1, ZenonT(30) DEF SameElsewhere, Starts
  <2> QED
    BY <2>3, <2>4, OtherAdvance, SMTT(30)
<1>2. CASE /\ AdvancesAll(p, body)
           /\ error' = [error EXCEPT ![p] = TRUE]
  <2>1. error \in [Pipes -> BOOLEAN]
    BY ZenonT(30) DEF OrderInv, TypeOK
  <2>2. \A q \in Pipes \ {p} : error'[q] = error[q] /\ established'[q] = established[q]
    BY <1>2, <2>1, ZenonT(30)
  <2> QED
    BY <1>2, <2>2, AllAdvance, ZenonT(30)
<1> QED
  BY <1>1, <1>2, ZenonT(30) DEF SetsError

\* The calls of close, the end of the handshake, and callbacks.
LEMMA CallbackAdvance ==
  ASSUME OrderInv, OrderInv', AdvanceInv, NEW p \in Pipes,
         CloseFromLoopEffect(p) \/ EstablishEffect(p) \/ CallbackEffect(p)
  PROVE  AdvanceInv'
<1>1. TypeOK
  BY Zenon DEF OrderInv
<1>2. CASE CloseFromLoopEffect(p)
  <2>1. /\ Idle(p) /\ SetsError(p, FALSE, << >>)
        /\ readOps' = readOps /\ writeOps' = writeOps /\ established' = established
    BY <1>1, <1>2, ZenonT(30) DEF CloseFromLoopEffect
  <2>2. Len(<< >>) \in Nat /\ FALSE \in BOOLEAN
    BY Zenon
  <2> QED
    BY <1>1, <2>1, <2>2, SetsErrorAdvance, ZenonT(30)
<1>3. CASE EstablishEffect(p)
  <2>1. /\ AdvancesAll(p, << >>)
        /\ established' = [established EXCEPT ![p] = TRUE]
        /\ readOps' = readOps /\ writeOps' = writeOps /\ error' = error
    BY <1>3, ZenonT(30) DEF EstablishEffect
  <2>2. established \in [Pipes -> BOOLEAN]
    BY <1>1, ZenonT(30) DEF TypeOK
  <2>3. /\ Len(<< >>) \in Nat
        /\ \A q \in Pipes \ {p} : error'[q] = error[q] /\ established'[q] = established[q]
    BY <2>1, <2>2, ZenonT(30)
  <2> QED
    BY <1>1, <2>1, <2>3, AllAdvance, ZenonT(30)
<1>4. ASSUME NEW s \in Streams, NEW ok \in BOOLEAN, NEW i \in 1 .. Len(ins[p][s]),
             ReadCallbackEffect(p, s, i, ok)
      PROVE  AdvanceInv'
  <2>2. /\ Idle(p)
        /\ SetsError(p, ok, << InBody(p, s, i, ok) >>)
        /\ readOps' = readOps /\ writeOps' = writeOps /\ established' = established
    BY <1>4, ZenonT(30) DEF ReadCallbackEffect
  <2>3. Len(<< InBody(p, s, i, ok) >>) \in Nat
    BY ZenonT(30)
  <2> QED
    BY <2>2, <2>3, SetsErrorAdvance, SMTT(30)
<1>5. ASSUME NEW s \in Streams, NEW ok \in BOOLEAN, NEW i \in 1 .. Len(outs[p][s]),
             WriteCallbackEffect(p, s, i, ok)
      PROVE  AdvanceInv'
  <2> DEFINE body == IF outs[p][s][i].kind \in {"payload", "tensor"}
                     THEN << OutBody(p, s, i) >> ELSE << >>
  <2>1. /\ Idle(p)
        /\ SetsError(p, ok, body)
        /\ readOps' = readOps /\ writeOps' = writeOps /\ established' = established
    BY <1>5, ZenonT(30) DEF WriteCallbackEffect
  <2>2. Len(body) \in Nat
    BY Zenon
  <2> HIDE DEF body
  <2> QED
    BY <2>1, <2>2, SetsErrorAdvance, SMTT(30)
<1> QED
  BY <1>2, <1>3, <1>4, <1>5, Zenon DEF CallbackEffect

\* The task goes on to another operation, or to its next piece.
LEMMA MoveAdvance ==
  ASSUME OrderInv, AdvanceInv, NEW p \in Pipes, NextReadOperationEffect(p) \/ NextWriteOperationEffect(p)
  PROVE  AdvanceInv'
<1>1. TypeOK /\ todo[p] \in Seq(Piece) /\ Len(readOps[p]) \in Nat /\ Len(writeOps[p]) \in Nat
  <2>1. TypeOK
    BY Zenon DEF OrderInv
  <2> QED
    BY <2>1 DEF TypeOK
<1>2. Covered(CanReads(p), "reads", todo[p]) /\ Covered(CanWrites(p), "writes", todo[p])
  BY Zenon DEF AdvanceInv
<1>3. /\ CanReads(p) \subseteq 1 .. Len(readOps[p]) /\ CanWrites(p) \subseteq 1 .. Len(writeOps[p])
      /\ \A j \in CanReads(p) : readOps[p][j].state # READ_FINISHED
      /\ \A j \in CanWrites(p) : writeOps[p][j].state # WRITE_FINISHED
  BY FinishedStays, Zenon DEF CanReads, CanWrites
<1>4. CASE NextReadOperationEffect(p)
  <2>1. MovesOn(p, "reads", readOps[p], READ_FINISHED)
    BY <1>4, ZenonT(30) DEF NextReadOperationEffect
  <2>2. /\ 1 \in 1 .. Len(todo[p]) /\ todo[p][1] \in AdvancePiece /\ todo[p][1].what = "reads"
        /\ UNCHANGED <<readOps, writeOps, error, established>>
        /\ \A q \in Pipes \ {p} : todo'[q] = todo[q]
    BY <2>1, ZenonT(30) DEF MovesOn, UpdatedAt, Drops
  <2>3. TaskMoves(todo[p], todo'[p], readOps[p], READ_FINISHED)
    BY <2>1, SMTT(30) DEF MovesOn, UpdatedAt, Drops, TaskMoves
  <2>4. ~(todo[p][1].at \in CanReads(p))
    BY <1>4, <2>1, SMTT(30) DEF NextReadOperationEffect, CanReads
  <2>5. Covered(CanReads(p), "reads", todo'[p])
    BY <1>1, <1>2, <1>3, <2>2, <2>3, <2>4, CoveredMove, SMTT(30)
  <2>6. Covered(CanWrites(p), "writes", todo'[p])
    <3>1. \/ /\ Len(todo'[p]) = Len(todo[p])
             /\ \A n \in 1 .. Len(todo[p]) : n # 1 => todo'[p][n] = todo[p][n]
          \/ /\ Len(todo'[p]) = Len(todo[p]) - 1
             /\ \A n \in 1 .. Len(todo'[p]) : todo'[p][n] = todo[p][n + 1]
      BY <2>3, ZenonT(30) DEF TaskMoves
    <3> QED
      BY <1>1, <1>2, <2>2, <3>1, CoveredOther, SMTT(30)
  <2>7. CanReads(p)' = CanReads(p) /\ CanWrites(p)' = CanWrites(p)
    BY <2>2, SameCan, ZenonT(30)
  <2>8. SameElsewhere(p)
    BY <2>2, ZenonT(30) DEF SameElsewhere
  <2> QED
    BY <2>5, <2>6, <2>7, <2>8, OtherAdvance, SMTT(30)
<1>5. CASE NextWriteOperationEffect(p)
  <2>1. MovesOn(p, "writes", writeOps[p], WRITE_FINISHED)
    BY <1>5, ZenonT(30) DEF NextWriteOperationEffect
  <2>2. /\ 1 \in 1 .. Len(todo[p]) /\ todo[p][1] \in AdvancePiece /\ todo[p][1].what = "writes"
        /\ UNCHANGED <<readOps, writeOps, error, established>>
        /\ \A q \in Pipes \ {p} : todo'[q] = todo[q]
    BY <2>1, ZenonT(30) DEF MovesOn, UpdatedAt, Drops
  <2>3. TaskMoves(todo[p], todo'[p], writeOps[p], WRITE_FINISHED)
    BY <2>1, ZenonT(30) DEF MovesOn, UpdatedAt, Drops, TaskMoves
  <2>4. ~(todo[p][1].at \in CanWrites(p))
    BY <1>5, <2>1, SMTT(30) DEF NextWriteOperationEffect, CanWrites
  <2>5. Covered(CanWrites(p), "writes", todo'[p])
    BY <1>1, <1>2, <1>3, <2>2, <2>3, <2>4, CoveredMove, SMTT(30)
  <2>6. Covered(CanReads(p), "reads", todo'[p])
    <3>1. \/ /\ Len(todo'[p]) = Len(todo[p])
             /\ \A n \in 1 .. Len(todo[p]) : n # 1 => todo'[p][n] = todo[p][n]
          \/ /\ Len(todo'[p]) = Len(todo[p]) - 1
             /\ \A n \in 1 .. Len(todo'[p]) : todo'[p][n] = todo[p][n + 1]
      BY <2>3, ZenonT(30) DEF TaskMoves
    <3> QED
      BY <1>1, <1>2, <2>2, <3>1, CoveredOther, ZenonT(30)
  <2>7. CanReads(p)' = CanReads(p) /\ CanWrites(p)' = CanWrites(p)
    BY <2>2, SameCan, ZenonT(30)
  <2>8. SameElsewhere(p)
    BY <2>2, ZenonT(30) DEF SameElsewhere
  <2> QED
    BY <2>5, <2>6, <2>7, <2>8, OtherAdvance, ZenonT(30)
<1> QED
  BY <1>4, <1>5, ZenonT(30)

\* Each transition of a read operation is one of the shape ReadTransition.
LEMMA ReadTransitions ==
  ASSUME TypeOK, NEW p \in Pipes, NEW k \in 1 .. Len(readOps[p]),
         \/ FlushReadEffect(p, k) \/ ReadDescriptorOfMessageEffect(p, k) \/ AskForAllocationEffect(p, k)
         \/ ExpectReadCallEffect(p, k) \/ AbortReadEffect(p, k) \/ ReadPayloadsEffect(p, k) \/ FinishReadEffect(p, k)
  PROVE  TypeOK' /\ \E op : ReadTransition(p, k, op)
<1>1. CASE FlushReadEffect(p, k)
  BY <1>1, Zenon DEF FlushReadEffect
<1>2. CASE ReadDescriptorOfMessageEffect(p, k)
  BY <1>2, Zenon DEF ReadDescriptorOfMessageEffect
<1>3. CASE AskForAllocationEffect(p, k)
  BY <1>3, Zenon DEF AskForAllocationEffect
<1>4. CASE ExpectReadCallEffect(p, k)
  BY <1>4, Zenon DEF ExpectReadCallEffect
<1>5. CASE AbortReadEffect(p, k)
  BY <1>5, Zenon DEF AbortReadEffect
<1>6. CASE ReadPayloadsEffect(p, k)
  BY <1>6, Zenon DEF ReadPayloadsEffect
<1>7. CASE FinishReadEffect(p, k)
  BY <1>7, Zenon DEF FinishReadEffect
<1> QED
  BY <1>1, <1>2, <1>3, <1>4, <1>5, <1>6, <1>7, ZenonT(30)

\* Each transition of a write operation is one of the shape WriteTransition.
LEMMA WriteTransitions ==
  ASSUME TypeOK, NEW p \in Pipes, NEW k \in 1 .. Len(writeOps[p]),
         \/ FlushWriteEffect(p, k) \/ SendMessageEffect(p, k) \/ AskTargetDevicesEffect(p, k)
         \/ AbortWriteEffect(p, k) \/ SendTensorsEffect(p, k) \/ FinishWriteEffect(p, k)
  PROVE  TypeOK' /\ \E op : WriteTransition(p, k, op)
<1>1. CASE FlushWriteEffect(p, k)
  BY <1>1, Zenon DEF FlushWriteEffect
<1>2. CASE SendMessageEffect(p, k)
  BY <1>2, Zenon DEF SendMessageEffect
<1>3. CASE AskTargetDevicesEffect(p, k)
  BY <1>3, Zenon DEF AskTargetDevicesEffect
<1>4. CASE AbortWriteEffect(p, k)
  BY <1>4, Zenon DEF AbortWriteEffect
<1>5. CASE SendTensorsEffect(p, k)
  BY <1>5, Zenon DEF SendTensorsEffect
<1>6. CASE FinishWriteEffect(p, k)
  BY <1>6, Zenon DEF FinishWriteEffect
<1> QED
  BY <1>1, <1>2, <1>3, <1>4, <1>5, <1>6, SMTT(30)

\* The body of a callback of a read operation.
LEMMA DoneReadAdvance ==
  ASSUME OrderInv, AdvanceInv, NEW p \in Pipes, NEW k \in 1 .. Len(readOps[p]),
         DoneReadingDescriptorEffect(p, k) \/ DoneReadingPayloadEffect(p, k) \/ DoneReceivingTensorEffect(p, k)
  PROVE  AdvanceInv'
<1>1. TypeOK
  BY ZenonT(30) DEF OrderInv
<1>4. readOps[p][k] \in ReadOperation
  BY <1>1 DEF TypeOK
<1>5. CASE DoneReadingDescriptorEffect(p, k)
  <2> DEFINE op == [readOps[p][k] EXCEPT !.doneReadingDescriptor = TRUE,
                                         !.descriptor = IF error[p] THEN @ ELSE todo[p][1].got]
  <2>1. TypeOK' /\ ReadBody(p, k, "descriptor", op)
    BY <1>5, Zenon DEF DoneReadingDescriptorEffect
  <2>2. op.state = readOps[p][k].state
    BY DEF ReadOperation
  <2> HIDE DEF op
  <2> QED
    BY <2>1, <2>2, ReadBodyAdvance, Zenon
<1>6. CASE DoneReadingPayloadEffect(p, k)
  <2> DEFINE op == [readOps[p][k] EXCEPT !.payloads = @ - 1]
  <2>1. TypeOK' /\ ReadBody(p, k, "payload", op)
    BY <1>6, ZenonT(30) DEF DoneReadingPayloadEffect
  <2>2. op.state = readOps[p][k].state
    BY DEF ReadOperation
  <2> HIDE DEF op
  <2> QED
    BY <2>1, <2>2, ReadBodyAdvance, ZenonT(30)
<1>7. CASE DoneReceivingTensorEffect(p, k)
  <2> DEFINE op == [readOps[p][k] EXCEPT !.tensors = @ - 1]
  <2>1. TypeOK' /\ ReadBody(p, k, "tensor", op)
    BY <1>7, ZenonT(30) DEF DoneReceivingTensorEffect
  <2>2. op.state = readOps[p][k].state
    BY DEF ReadOperation
  <2> HIDE DEF op
  <2> QED
    BY <2>1, <2>2, ReadBodyAdvance, ZenonT(30)
<1> QED
  BY <1>5, <1>6, <1>7, ZenonT(30)

\* The body of a callback of a write operation.
LEMMA DoneWriteAdvance ==
  ASSUME OrderInv, AdvanceInv, NEW p \in Pipes, NEW k \in 1 .. Len(writeOps[p]),
         DoneReadingDescriptorReplyEffect(p, k) \/ DoneWritingPayloadEffect(p, k) \/ DoneSendingTensorEffect(p, k)
  PROVE  AdvanceInv'
<1>1. TypeOK
  BY Zenon DEF OrderInv
<1>4. writeOps[p][k] \in WriteOperation
  BY <1>1 DEF TypeOK
<1>5. CASE DoneReadingDescriptorReplyEffect(p, k)
  <2> DEFINE op == [writeOps[p][k] EXCEPT !.doneReadingDescriptorReply = TRUE]
  <2>1. TypeOK' /\ WriteBody(p, k, "in", "reply", op)
    BY <1>5, Zenon DEF DoneReadingDescriptorReplyEffect
  <2>2. op.state = writeOps[p][k].state
    BY DEF WriteOperation
  <2> HIDE DEF op
  <2> QED
    BY <2>1, <2>2, WriteBodyAdvance, Zenon
<1>6. CASE DoneWritingPayloadEffect(p, k)
  <2> DEFINE op == [writeOps[p][k] EXCEPT !.payloads = @ - 1]
  <2>1. TypeOK' /\ WriteBody(p, k, "out", "payload", op)
    BY <1>6, ZenonT(30) DEF DoneWritingPayloadEffect
  <2>2. op.state = writeOps[p][k].state
    BY DEF WriteOperation
  <2> HIDE DEF op
  <2> QED
    BY <2>1, <2>2, WriteBodyAdvance, ZenonT(30)
<1>7. CASE DoneSendingTensorEffect(p, k)
  <2> DEFINE op == [writeOps[p][k] EXCEPT !.tensors = @ - 1]
  <2>1. TypeOK' /\ WriteBody(p, k, "out", "tensor", op)
    BY <1>7, ZenonT(30) DEF DoneSendingTensorEffect
  <2>2. op.state = writeOps[p][k].state
    BY DEF WriteOperation
  <2> HIDE DEF op
  <2> QED
    BY <2>1, <2>2, WriteBodyAdvance, ZenonT(30)
<1> QED
  BY <1>5, <1>6, <1>7, Zenon

\* A step of a pipe.
LEMMA NextAdvance ==
  ASSUME OrderInv, OrderInv', AdvanceInv, NextEffect
  PROVE  AdvanceInv'
<1>1. PICK p \in Pipes : UserCallEffect(p) \/ EstablishEffect(p) \/ CallbackEffect(p) \/ RunTaskEffect(p)
  BY Zenon DEF NextEffect
<1>2. TypeOK
  BY ZenonT(30) DEF OrderInv
<1>3. CASE UserCallEffect(p)
  BY <1>3, UserCallAdvance, CallbackAdvance, Zenon DEF UserCallEffect
<1>4. CASE EstablishEffect(p) \/ CallbackEffect(p)
  BY <1>4, CallbackAdvance, Zenon
<1>5. CASE \E k \in 1 .. Len(readOps[p]) :
             \/ FlushReadEffect(p, k) \/ ReadDescriptorOfMessageEffect(p, k) \/ AskForAllocationEffect(p, k)
             \/ ExpectReadCallEffect(p, k) \/ AbortReadEffect(p, k) \/ ReadPayloadsEffect(p, k) \/ FinishReadEffect(p, k)
  BY <1>2, <1>5, ReadTransitions, ReadTransitionAdvance, Zenon
<1>6. CASE \E k \in 1 .. Len(writeOps[p]) :
             \/ FlushWriteEffect(p, k) \/ SendMessageEffect(p, k) \/ AskTargetDevicesEffect(p, k)
             \/ AbortWriteEffect(p, k) \/ SendTensorsEffect(p, k) \/ FinishWriteEffect(p, k)
  BY <1>2, <1>6, WriteTransitions, WriteTransitionAdvance, Zenon
<1>7. CASE \/ \E k \in 1 .. Len(readOps[p]) :
                \/ DoneReadingDescriptorEffect(p, k) \/ DoneReadingPayloadEffect(p, k)
                \/ DoneReceivingTensorEffect(p, k)
           \/ \E k \in 1 .. Len(writeOps[p]) :
                \/ DoneReadingDescriptorReplyEffect(p, k) \/ DoneWritingPayloadEffect(p, k)
                \/ DoneSendingTensorEffect(p, k)
  BY <1>7, DoneReadAdvance, DoneWriteAdvance, Zenon
<1>8. CASE NextReadOperationEffect(p) \/ NextWriteOperationEffect(p)
  BY <1>8, MoveAdvance, Zenon
<1> QED
  BY <1>1, <1>3, <1>4, <1>5, <1>6, <1>7, <1>8, Zenon DEF RunTaskEffect

\* Nothing can advance at first.
LEMMA InitAdvance ==
  ASSUME Init
  PROVE  AdvanceInv
<1>1. ASSUME NEW p \in Pipes
      PROVE  Covered(CanReads(p), "reads", todo[p]) /\ Covered(CanWrites(p), "writes", todo[p])
  <2>1. Len(readOps[p]) = 0 /\ Len(writeOps[p]) = 0
    BY ZenonT(30) DEF Init
  <2>2. CanReads(p) = {} /\ CanWrites(p) = {}
    BY <2>1 DEF CanReads, CanWrites
  <2> QED
    BY <2>2, ZenonT(30) DEF Covered
<1> QED
  BY <1>1, ZenonT(30) DEF AdvanceInv

\* Nor does a step of something else change what can.
LEMMA StutterAdvance ==
  ASSUME AdvanceInv, UNCHANGED vars
  PROVE  AdvanceInv'
<1>1. /\ todo' = todo /\ readOps' = readOps /\ writeOps' = writeOps /\ error' = error
      /\ established' = established
  BY ZenonT(30) DEF vars
<1>2. ASSUME NEW p \in Pipes
      PROVE  Covered(CanReads(p)', "reads", todo'[p]) /\ Covered(CanWrites(p)', "writes", todo'[p])
  <2>1. CanReads(p)' = CanReads(p) /\ CanWrites(p)' = CanWrites(p)
    BY <1>1, SameCan, ZenonT(30)
  <2> QED
    BY <1>1, <2>1, ZenonT(30) DEF AdvanceInv
<1> QED
  BY <1>2, ZenonT(30) DEF AdvanceInv

\* With no task to come to an operation, none can advance.
LEMMA IdleAdvance ==
  ASSUME OrderInv, AdvanceInv
  PROVE  NothingLeftToAdvance
<1>1. ASSUME NEW p \in Pipes, Idle(p)
      PROVE  /\ \A k \in 1 .. Len(readOps[p]) : ~CanAdvanceRead(p, k)
             /\ \A k \in 1 .. Len(writeOps[p]) : ~CanAdvanceWrite(p, k)
  <2>1. \A n \in 1 .. Len(todo[p]) : ~(todo[p][n].what \in {"reads", "writes"})
    BY <1>1, SMTT(30) DEF Idle
  <2>2. CanReads(p) = {} /\ CanWrites(p) = {}
    BY <2>1, NobodyCan, SMTT(30)
  <2> QED
    BY <2>2, ZenonT(30) DEF CanReads, CanWrites
<1> QED
  BY <1>1, Zenon DEF NothingLeftToAdvance

-----------------------------------------------------------------------------
(* The call of read that comes next.                                       *)

(* Operation k has a descriptor, and an operation before it keeps it from  *)
(* expecting the call of read.                                             *)
LeftBehind(ops, k) ==
  k \in 1 .. Len(ops) /\ ops[k].state = ASKING_FOR_ALLOCATION /\ ops[k].doneReadingDescriptor =>
    \E j \in 1 .. k - 1 : ops[j].state < READING_PAYLOADS_AND_RECEIVING_TENSORS

\* The first message that was announced and not asked for is next.
LEMMA NextMessage ==
  ASSUME Counting, NEW ops, TypedReads(ops), NEW next, NEW err, NEW announced, TypedCalls(announced), NEW answered,
         ReadsOK(ops, next, err, announced, answered),
         NEW D \in SUBSET (1 .. Len(ops)), \A k \in 1 .. Len(ops) : k \in D <=> ops[k].doneGettingAllocation,
         NEW A \in SUBSET (1 .. Len(announced)), \A i \in 1 .. Len(announced) : i \in A <=> announced[i].ok,
         NEW r, r = Cardinality(D), NEW a, a = Cardinality(A), r < a,
         LeftBehind(ops, r + 1)
  PROVE  next = r + 1
<1>1. Len(ops) \in Nat /\ Len(announced) \in Nat /\ \A k \in 1 .. Len(ops) : ops[k].state \in 0 .. 5
  BY ZenonT(30) DEF TypedReads, TypedCalls
<1>2. /\ ReadsOrdered(ops) /\ ReadFlags(ops, next, err) /\ CallsOf(announced, Len(ops), err)
      /\ ReadsCalled(ops, err, announced, answered) /\ CallsMatch(ops, announced, answered)
  BY ZenonT(30) DEF ReadsOK, ReadsCalled
<1>3. r \in 0 .. Len(ops) /\ D = 1 .. r
  <2>1. ASSUME NEW j \in 1 .. Len(ops), NEW k \in 1 .. Len(ops), j <= k, ops[k].doneGettingAllocation
        PROVE  ops[j].doneGettingAllocation
    <3>1. CASE j = k
      BY <2>1, <3>1, SMTT(30)
    <3>2. CASE j < k
      <4>1. ops[k].doneReadingDescriptor
        BY <1>2, <2>1, ZenonT(30) DEF ReadFlags
      <4>2. ops[j].state >= READING_PAYLOADS_AND_RECEIVING_TENSORS
        BY <1>2, <3>2, <4>1, SMTT(30) DEF ReadsOrdered
      <4> QED
        BY <1>2, <4>2, SMTT(30) DEF ReadFlags
    <3> QED
      BY <2>1, <3>1, <3>2
  <2>2. \A j, k \in 1 .. Len(ops) : j <= k /\ k \in D => j \in D
    BY <2>1, ZenonT(30)
  <2> QED
    BY <1>1, <2>2, Zenon DEF Counting, PrefixCounts
<1>4. a \in 0 .. Len(announced) /\ A = 1 .. a
  <2>1. \A i, j \in 1 .. Len(announced) : i <= j /\ j \in A => i \in A
    BY <1>2, ZenonT(30) DEF CallsOf
  <2> QED
    BY <1>1, <2>1, ZenonT(30) DEF Counting, PrefixCounts
<1>5. /\ r + 1 \in 1 .. Len(announced) /\ announced[r + 1].ok /\ r + 1 \in 1 .. Len(ops)
      /\ ~ops[r + 1].doneGettingAllocation
  <2>1. r + 1 \in 1 .. a /\ r + 1 \notin 1 .. r
    BY <1>3, <1>4, SMTT(30)
  <2>2. r + 1 \in A /\ r + 1 \notin D
    BY <1>1, <1>2, <1>3, <1>4, <2>1, ZenonT(30)
  <2>3. r + 1 \in 1 .. Len(ops)
    <3>1. r + 1 \in 1 .. Len(announced) /\ Len(announced) <= Len(ops)
      BY <1>2, <2>2, Zenon DEF CallsOf
    <3> QED
      BY <1>1, <3>1
  <2> QED
    BY <2>2, <2>3, ZenonT(30)
<1>6. /\ ops[r + 1].doneReadingDescriptor /\ ops[r + 1].state >= ASKING_FOR_ALLOCATION
      /\ ops[r + 1].state < READING_PAYLOADS_AND_RECEIVING_TENSORS
  <2>1. ops[r + 1].doneReadingDescriptor
    BY <1>2, <1>5, Zenon DEF CallsMatch
  <2>2. ops[r + 1].state >= ASKING_FOR_ALLOCATION
    BY <1>2, <1>5, SMTT(60) DEF ReadsCalled
  <2>3. ~(ops[r + 1].state >= READING_PAYLOADS_AND_RECEIVING_TENSORS)
    BY <1>2, <1>5, Zenon DEF ReadFlags
  <2> QED
    BY <1>1, <1>5, <2>1, <2>2, <2>3
<1>7. \A j \in 1 .. r : ops[j].state >= READING_PAYLOADS_AND_RECEIVING_TENSORS
  <2>1. ASSUME NEW j \in 1 .. r PROVE ops[j].state >= READING_PAYLOADS_AND_RECEIVING_TENSORS
    <3>1. j \in 1 .. Len(ops) /\ j < r + 1
      BY <1>3
    <3> QED
      BY <1>2, <1>5, <1>6, <3>1, Zenon DEF ReadsOrdered
  <2> QED
    BY <2>1, SMTT(30)
<1>8. ops[r + 1].state # ASKING_FOR_ALLOCATION
  <2>1. ASSUME NEW j \in 1 .. (r + 1) - 1
        PROVE  ~(ops[j].state < READING_PAYLOADS_AND_RECEIVING_TENSORS)
    <3>1. j \in 1 .. r /\ j \in 1 .. Len(ops)
      BY <1>3
    <3>2. ops[j].state \in 0 .. 5 /\ ops[j].state >= READING_PAYLOADS_AND_RECEIVING_TENSORS
      BY <1>1, <1>7, <3>1, Zenon
    <3> QED
      BY <3>2
  <2>2. ops[r + 1].state = ASKING_FOR_ALLOCATION =>
          \E j \in 1 .. (r + 1) - 1 : ops[j].state < READING_PAYLOADS_AND_RECEIVING_TENSORS
    BY <1>5, <1>6, Zenon DEF LeftBehind
  <2> QED
    BY <2>1, <2>2, SMTT(30)
<1>9. ops[r + 1].state = ASKING_FOR_ALLOCATION_FIRST_IN_LINE
  <2>1. ops[r + 1].state \in 0 .. 5
    BY <1>1, <1>5, Zenon
  <2> QED
    BY <1>6, <1>8, <2>1
<1> QED
  BY <1>2, <1>5, <1>9, SMTT(30) DEF ReadFlags

\* It is when no operation could have gone on.
LEMMA NextMessageExpected ==
  ASSUME Counting, OrderInv, NothingLeftToAdvance
  PROVE  ReadCallFindsItsMessage
<1> SUFFICES ASSUME NEW p \in Pipes, Idle(p), Requested(p) < Announced(p)
             PROVE  nextMessageGettingAllocation[p] = Requested(p) + 1
  BY Zenon DEF ReadCallFindsItsMessage
<1> DEFINE ops == readOps[p]
           D == {k \in 1 .. Len(ops) : ops[k].doneGettingAllocation}
           A == {i \in 1 .. Len(readDescriptorCalled[p]) : readDescriptorCalled[p][i].ok}
<1>1. TypedReads(ops) /\ TypedCalls(readDescriptorCalled[p])
  BY AdvanceTypes, Zenon DEF OrderInv
<1>2. ReadsOK(ops, nextMessageGettingAllocation[p], error[p], readDescriptorCalled[p], readCalled[p])
  BY Zenon DEF OrderInv, ReadInv
<1>3. Requested(p) = Cardinality(D) /\ Announced(p) = Cardinality(A)
  BY Zenon DEF Requested, Announced, Successes
<1>4. /\ D \in SUBSET (1 .. Len(ops)) /\ \A k \in 1 .. Len(ops) : k \in D <=> ops[k].doneGettingAllocation
      /\ A \in SUBSET (1 .. Len(readDescriptorCalled[p]))
      /\ \A i \in 1 .. Len(readDescriptorCalled[p]) : i \in A <=> readDescriptorCalled[p][i].ok
  BY Zenon
<1> HIDE DEF A, D
<1>5. ASSUME NEW k \in 1 .. Len(ops), ops[k].state = ASKING_FOR_ALLOCATION, ops[k].doneReadingDescriptor
      PROVE  \E j \in 1 .. k - 1 : ops[j].state < READING_PAYLOADS_AND_RECEIVING_TENSORS
  <2>1. ~CanExpectRead(p, k)
    BY <1>5, Zenon DEF NothingLeftToAdvance, CanAdvanceRead
  <2>2. ~(PrevRead(p, k) >= READING_PAYLOADS_AND_RECEIVING_TENSORS)
    BY <1>5, <2>1, Zenon DEF CanExpectRead
  <2>3. k # 1
    BY <2>2 DEF PrevRead
  <2>4. k - 1 \in 1 .. Len(ops) /\ k - 1 \in 1 .. k - 1 /\ PrevRead(p, k) = ops[k - 1].state
    BY <2>3 DEF PrevRead, TypedReads
  <2>5. ops[k - 1].state \in 0 .. 5
    BY <1>1, <2>4, Zenon DEF TypedReads
  <2>6. ops[k - 1].state < READING_PAYLOADS_AND_RECEIVING_TENSORS
    BY <2>2, <2>4, <2>5
  <2> QED
    BY <2>4, <2>6, SMTT(30)
<1>6. LeftBehind(ops, Requested(p) + 1)
  BY <1>5, Zenon DEF LeftBehind
<1> QED
  BY <1>1, <1>2, <1>3, <1>4, <1>6, NextMessage
=============================================================================
