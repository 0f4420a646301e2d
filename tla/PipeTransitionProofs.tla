------------------------ MODULE PipeTransitionProofs ------------------------
(***************************************************************************)
(* Every transition of an operation in the advance loop of one of its two  *)
(* lists keeps what is known of the order of operations (OrderInv).        *)
(***************************************************************************)
EXTENDS PipeEffects, TLAPS

USE DEF UNINITIALIZED, READING_DESCRIPTOR, ASKING_FOR_ALLOCATION,
        ASKING_FOR_ALLOCATION_FIRST_IN_LINE, READING_PAYLOADS_AND_RECEIVING_TENSORS,
        READ_FINISHED, WRITING_PAYLOADS_AND_READING_TARGET_DEVICES,
        WRITING_PAYLOADS_AND_SENDING_TENSORS, WRITE_FINISHED

-----------------------------------------------------------------------------
\* The types of the operations and the calls of a pipe.
LEMMA OrderTypes ==
  ASSUME NEW p \in Pipes
  PROVE  /\ TypeOK => /\ TypedReads(readOps[p]) /\ TypedWrites(writeOps[p])
                      /\ TypedCalls(readDescriptorCalled[p]) /\ TypedCalls(readCalled[p])
                      /\ TypedCalls(writeCalled[p]) /\ error[p] \in BOOLEAN
         /\ TypeOK' => /\ TypedReads(readOps'[p]) /\ TypedWrites(writeOps'[p])
                       /\ TypedCalls(readDescriptorCalled'[p]) /\ TypedCalls(readCalled'[p])
                       /\ TypedCalls(writeCalled'[p]) /\ error'[p] \in BOOLEAN
<1>1. ASSUME NEW ops \in Seq(ReadOperation) PROVE TypedReads(ops)
  <2>1. \A k \in 1 .. Len(ops) : ops[k] \in ReadOperation
    OBVIOUS
  <2> QED
    BY <2>1, SMTT(30) DEF TypedReads, ReadOperation
<1>2. ASSUME NEW ops \in Seq(WriteOperation) PROVE TypedWrites(ops)
  <2>1. \A k \in 1 .. Len(ops) : ops[k] \in WriteOperation
    OBVIOUS
  <2> QED
    BY <2>1 DEF TypedWrites, WriteOperation
<1>3. ASSUME NEW called \in Seq(Call) PROVE TypedCalls(called)
  <2>1. \A k \in 1 .. Len(called) : called[k] \in Call
    OBVIOUS
  <2> QED
    BY <2>1 DEF TypedCalls, Call
<1>4. TypeOK => /\ readOps[p] \in Seq(ReadOperation) /\ writeOps[p] \in Seq(WriteOperation)
                /\ readDescriptorCalled[p] \in Seq(Call) /\ readCalled[p] \in Seq(Call)
                /\ writeCalled[p] \in Seq(Call) /\ error[p] \in BOOLEAN
  BY Zenon DEF TypeOK
<1>5. TypeOK' => /\ readOps'[p] \in Seq(ReadOperation) /\ writeOps'[p] \in Seq(WriteOperation)
                 /\ readDescriptorCalled'[p] \in Seq(Call) /\ readCalled'[p] \in Seq(Call)
                 /\ writeCalled'[p] \in Seq(Call) /\ error'[p] \in BOOLEAN
  BY Zenon DEF TypeOK
<1> QED
  BY <1>1, <1>2, <1>3, <1>4, <1>5, Zenon

\* The lengths of the streams and the lists of a pipe are numbers.
LEMMA OrderLengths ==
  ASSUME NEW p \in Pipes
  PROVE  /\ TypeOK => /\ \A s \in Streams : Len(ins[p][s]) \in Nat /\ Len(outs[p][s]) \in Nat
                      /\ Len(readOps[p]) \in Nat /\ Len(writeOps[p]) \in Nat
                      /\ Len(readCalled[p]) \in Nat /\ Len(writeCalled[p]) \in Nat
         /\ TypeOK' => Len(readOps'[p]) \in Nat /\ Len(writeOps'[p]) \in Nat
<1>1. TypeOK => /\ ins \in [Pipes -> [Streams -> Seq(Item)]] /\ outs \in [Pipes -> [Streams -> Seq(Item)]]
                /\ readOps \in [Pipes -> Seq(ReadOperation)] /\ writeOps \in [Pipes -> Seq(WriteOperation)]
                /\ readCalled \in [Pipes -> Seq(Call)] /\ writeCalled \in [Pipes -> Seq(Call)]
  BY Zenon DEF TypeOK
<1>2. TypeOK' => /\ readOps' \in [Pipes -> Seq(ReadOperation)]
                 /\ writeOps' \in [Pipes -> Seq(WriteOperation)]
  BY Zenon DEF TypeOK
<1>3. TypeOK => \A s \in Streams : Len(ins[p][s]) \in Nat /\ Len(outs[p][s]) \in Nat
  BY <1>1
<1>4. /\ TypeOK => /\ Len(readOps[p]) \in Nat /\ Len(writeOps[p]) \in Nat
                   /\ Len(readCalled[p]) \in Nat /\ Len(writeCalled[p]) \in Nat
      /\ TypeOK' => Len(readOps'[p]) \in Nat /\ Len(writeOps'[p]) \in Nat
  BY <1>1, <1>2
<1> QED
  BY <1>3, <1>4, ZenonT(30)

-----------------------------------------------------------------------------
(* What a step leaves alone.                                               *)

Changed(after, ops, k) ==
  /\ Len(after) = Len(ops)
  /\ \A j \in 1 .. Len(ops) : j # k => after[j] = ops[j]

\* An error takes nothing away from what is known.
LEMMA ErrorSet ==
  ASSUME NEW ops, NEW next, NEW err \in BOOLEAN, NEW later \in BOOLEAN, err => later,
         NEW announced, NEW answered
  PROVE  /\ ReadsOK(ops, next, err, announced, answered) =>
              ReadsOK(ops, next, later, announced, answered)
         /\ WritesOK(ops, err, answered) => WritesOK(ops, later, answered)
<1>1. ReadFlags(ops, next, err) => ReadFlags(ops, next, later)
  BY Zenon DEF ReadFlags
<1>2. \A called, n : CallsOf(called, n, err) => CallsOf(called, n, later)
  BY Zenon DEF CallsOf
<1>3. ReadsCalled(ops, err, announced, answered) => ReadsCalled(ops, later, announced, answered)
  BY <1>2, Zenon DEF ReadsCalled
<1>4. WritesCalled(ops, err, answered) => WritesCalled(ops, later, answered)
  BY <1>2, Zenon DEF WritesCalled
<1> QED
  BY <1>1, <1>3, <1>4, ZenonT(30) DEF ReadsOK, WritesOK

(* A step of pipe p changes nothing of the other pipe.                     *)
Elsewhere(p) ==
  \A q \in Pipes \ {p} :
    /\ error'[q] = error[q] /\ established'[q] = established[q]
    /\ readOps'[q] = readOps[q] /\ writeOps'[q] = writeOps[q]
    /\ nextMessageGettingAllocation'[q] = nextMessageGettingAllocation[q]
    /\ todo'[q] = todo[q]
    /\ ins'[q] = ins[q] /\ outs'[q] = outs[q]
    /\ insDone'[q] = insDone[q] /\ outsDone'[q] = outsDone[q]
    /\ readDescriptorCalled'[q] = readDescriptorCalled[q]
    /\ readCalled'[q] = readCalled[q] /\ writeCalled'[q] = writeCalled[q]

(* Every callback body left to run was left before.                        *)
NoNewBody(p) ==
  \A n \in 1 .. Len(todo'[p]) : todo'[p][n].what \in {"in", "out"} =>
    \E m \in 1 .. Len(todo[p]) : todo[p][m] = todo'[p][n]

KeepsLengths(p) == Len(readOps'[p]) = Len(readOps[p]) /\ Len(writeOps'[p]) = Len(writeOps[p])

KeepsReads(p) ==
  /\ readOps'[p] = readOps[p]
  /\ nextMessageGettingAllocation'[p] = nextMessageGettingAllocation[p]
  /\ readDescriptorCalled'[p] = readDescriptorCalled[p]
  /\ readCalled'[p] = readCalled[p]
  /\ error[p] => error'[p]

KeepsWrites(p) ==
  /\ writeOps'[p] = writeOps[p]
  /\ writeCalled'[p] = writeCalled[p]
  /\ error[p] => error'[p]

\* What is known of the reads of a pipe stays true as long as a step leaves
\* them alone, whether or not it sets the error.
LEMMA ReadsKept ==
  ASSUME TypeOK, TypeOK', NEW p \in Pipes, ReadInv(p), KeepsReads(p)
  PROVE  ReadInv(p)'
<1>1. error[p] \in BOOLEAN /\ error'[p] \in BOOLEAN
  BY OrderTypes, Zenon
<1> QED
  BY <1>1, ErrorSet, ZenonT(30) DEF ReadInv, KeepsReads

\* Likewise for the writes.
LEMMA WritesKept ==
  ASSUME TypeOK, TypeOK', NEW p \in Pipes, WriteInv(p), KeepsWrites(p)
  PROVE  WriteInv(p)'
<1>1. error[p] \in BOOLEAN /\ error'[p] \in BOOLEAN
  BY OrderTypes, Zenon
<1> QED
  BY <1>1, ErrorSet, SMTT(30) DEF WriteInv, KeepsWrites

\* Likewise when no operation is added.
LEMMA ItemsStay ==
  ASSUME NEW p \in Pipes, ItemsOK(p), ins' = ins, outs' = outs, KeepsLengths(p)
  PROVE  ItemsOK(p)'
  BY ZenonT(30) DEF ItemsOK, Belongs, KeepsLengths

\* What was posted belongs to operations that are still there.
LEMMA StillBelongs ==
  ASSUME NEW posted, NEW kinds, NEW ops, NEW after, Belongs(posted, kinds, ops),
         1 .. Len(ops) \subseteq 1 .. Len(after)
  PROVE  Belongs(posted, kinds, after)
  BY Zenon DEF Belongs

(* No operation is taken away.                                             *)
KeepsOperations(p) ==
  /\ 1 .. Len(readOps[p]) \subseteq 1 .. Len(readOps'[p])
  /\ 1 .. Len(writeOps[p]) \subseteq 1 .. Len(writeOps'[p])

\* What is posted to the streams that a step leaves as they were belongs to
\* operations as before.
LEMMA UntouchedStreams ==
  ASSUME NEW p \in Pipes, ItemsOK(p), KeepsOperations(p)
  PROVE  /\ ins'[p]["descriptor"] = ins[p]["descriptor"] =>
              Belongs(ins'[p]["descriptor"], {"descriptor", "payload"}, readOps'[p])
         /\ ins'[p]["channel"] = ins[p]["channel"] => Belongs(ins'[p]["channel"], {"tensor"}, readOps'[p])
         /\ ins'[p]["reply"] = ins[p]["reply"] => Belongs(ins'[p]["reply"], {"reply"}, writeOps'[p])
         /\ outs'[p]["descriptor"] = outs[p]["descriptor"] =>
              Belongs(outs'[p]["descriptor"], {"descriptor", "payload"}, writeOps'[p])
         /\ outs'[p]["channel"] = outs[p]["channel"] => Belongs(outs'[p]["channel"], {"tensor"}, writeOps'[p])
         /\ outs'[p]["reply"] = outs[p]["reply"] => Belongs(outs'[p]["reply"], {"reply"}, readOps'[p])
<1>1. /\ Belongs(ins[p]["descriptor"], {"descriptor", "payload"}, readOps'[p])
      /\ Belongs(ins[p]["channel"], {"tensor"}, readOps'[p])
      /\ Belongs(outs[p]["reply"], {"reply"}, readOps'[p])
  BY StillBelongs, Zenon DEF ItemsOK, KeepsOperations
<1>2. /\ Belongs(outs[p]["descriptor"], {"descriptor", "payload"}, writeOps'[p])
      /\ Belongs(outs[p]["channel"], {"tensor"}, writeOps'[p])
      /\ Belongs(ins[p]["reply"], {"reply"}, writeOps'[p])
  BY StillBelongs, Zenon DEF ItemsOK, KeepsOperations
<1> QED
  BY <1>1, <1>2, Zenon

\* A step at one pipe preserves what is known of the other.
LEMMA OtherPipe ==
  ASSUME OrderInv, TypeOK', NEW p \in Pipes, Elsewhere(p),
         TodoOK(p)', ItemsOK(p)', DescriptorsStarted(p)', ReadInv(p)', WriteInv(p)'
  PROVE  OrderInv'
<1>1. ASSUME NEW q \in Pipes \ {p}
      PROVE  /\ TodoOK(q)' /\ ItemsOK(q)' /\ DescriptorsStarted(q)'
             /\ ReadInv(q)' /\ WriteInv(q)'
  <2>1. TypeOK /\ TodoOK(q) /\ ItemsOK(q) /\ DescriptorsStarted(q) /\ ReadInv(q) /\ WriteInv(q)
    BY Zenon DEF OrderInv
  <2>2. KeepsReads(q) /\ KeepsWrites(q)
    BY Zenon DEF Elsewhere, KeepsReads, KeepsWrites
  <2>3. ReadInv(q)' /\ WriteInv(q)'
    BY <2>1, <2>2, ReadsKept, WritesKept, ZenonT(30)
  <2>4. TodoOK(q)'
    BY <2>1, SMTT(30) DEF TodoOK, Elsewhere
  <2>5. ItemsOK(q)'
    <3>1. /\ ins'[q] = ins[q] /\ outs'[q] = outs[q]
          /\ readOps'[q] = readOps[q] /\ writeOps'[q] = writeOps[q]
      BY Zenon DEF Elsewhere
    <3> QED
      BY <2>1, <3>1, Zenon DEF ItemsOK
  <2>6. DescriptorsStarted(q)'
    <3>1. readOps'[q] = readOps[q] /\ todo'[q] = todo[q] /\ ins'[q] = ins[q]
      BY Zenon DEF Elsewhere
    <3>2. /\ \A i \in 1 .. Len(ins[q]["descriptor"]) : Started(readOps[q][ins[q]["descriptor"][i].op])
          /\ \A n \in 1 .. Len(todo[q]) :
               todo[q][n].what = "in" /\ todo[q][n].kind = "descriptor" =>
                 Started(readOps[q][todo[q][n].at])
      BY <2>1, Zenon DEF DescriptorsStarted
    <3> QED
      BY <3>1, <3>2, Zenon DEF DescriptorsStarted
  <2> QED
    BY <2>3, <2>4, <2>5, <2>6, ZenonT(30)
<1>2. \A q \in Pipes : /\ TodoOK(q)' /\ ItemsOK(q)' /\ DescriptorsStarted(q)'
                       /\ ReadInv(q)' /\ WriteInv(q)'
  BY <1>1, Zenon
<1> QED
  BY <1>2, Zenon DEF OrderInv

\* The body of the callback of a descriptor's read is about a read operation.
LEMMA DescriptorPiece ==
  ASSUME NEW piece, NEW last, NEW reads, NEW writes, PieceOK(piece, last, reads, writes),
         piece.what = "in", piece.kind = "descriptor"
  PROVE  piece.at \in 1 .. reads
  BY DEF PieceOK

\* A descriptor whose read was begun stays so, whatever else a step does, and
\* so do the bodies that are left to run.
LEMMA DescriptorsKept ==
  ASSUME TypeOK, NEW p \in Pipes, DescriptorsStarted(p), TodoOK(p), ItemsOK(p), NoNewBody(p),
         ins'[p]["descriptor"] = ins[p]["descriptor"],
         \A k \in 1 .. Len(readOps[p]) : Started(readOps[p][k]) => Started(readOps'[p][k])
  PROVE  DescriptorsStarted(p)'
<1>1. ASSUME NEW i \in 1 .. Len(ins'[p]["descriptor"])
      PROVE  Started(readOps'[p][ins'[p]["descriptor"][i].op])
  <2>1. ins[p]["descriptor"][i].op \in 1 .. Len(readOps[p])
    BY Zenon DEF ItemsOK, Belongs
  <2>2. Started(readOps[p][ins[p]["descriptor"][i].op])
    BY Zenon DEF DescriptorsStarted
  <2>3. Started(readOps'[p][ins[p]["descriptor"][i].op])
    BY <2>1, <2>2, Zenon
  <2> QED
    BY <2>3, Zenon
<1>2. ASSUME NEW n \in 1 .. Len(todo'[p]), todo'[p][n].what = "in", todo'[p][n].kind = "descriptor"
      PROVE  Started(readOps'[p][todo'[p][n].at])
  <2>1. PICK m \in 1 .. Len(todo[p]) : todo[p][m] = todo'[p][n]
    BY <1>2, SMTT(30) DEF NoNewBody
  <2>2. todo[p][m].at \in 1 .. Len(readOps[p]) /\ Started(readOps[p][todo[p][m].at])
    <3>1. PieceOK(todo[p][m], m = Len(todo[p]), Len(readOps[p]), Len(writeOps[p]))
      BY Zenon DEF TodoOK
    <3>2. todo[p][m].at \in 1 .. Len(readOps[p])
      BY <1>2, <2>1, <3>1, DescriptorPiece, Zenon
    <3>3. Started(readOps[p][todo[p][m].at])
      BY <1>2, <2>1, Zenon DEF DescriptorsStarted
    <3> QED
      BY <3>2, <3>3, Zenon
  <2> QED
    BY <2>1, <2>2, SMTT(30)
<1> QED
  BY <1>1, <1>2, ZenonT(30) DEF DescriptorsStarted

-----------------------------------------------------------------------------
(* The operations and the calls of one pipe, before and after a transition. *)

Before(ops, k, state) == \A j \in 1 .. k - 1 : ops[j].state >= state

(* Operation k goes to another state, its flags as they were.              *)
Goes(after, ops, k, state) ==
  /\ Changed(after, ops, k)
  /\ after[k].state = state
  /\ after[k].doneReadingDescriptor = ops[k].doneReadingDescriptor
  /\ after[k].doneGettingAllocation = ops[k].doneGettingAllocation

(* One more callback is called, that of the next operation.                *)
Calls(after, called, ok) ==
  /\ Len(after) = Len(called) + 1
  /\ after[Len(called) + 1].op = Len(called) + 1
  /\ after[Len(called) + 1].ok <=> ok
  /\ \A i \in 1 .. Len(called) : after[i] = called[i]

\* A descriptor stays begun when its read goes to another state.
LEMMA StaysStarted ==
  ASSUME NEW ops, NEW after, NEW k \in 1 .. Len(ops), NEW state, Goes(after, ops, k, state),
         ops[k].state # READING_DESCRIPTOR \/ ops[k].doneReadingDescriptor
  PROVE  \A j \in 1 .. Len(ops) : Started(ops[j]) => Started(after[j])
  BY Zenon DEF Goes, Changed, Started

\* A read operation that waits for the one before it waits for all before it.
LEMMA ReadsBefore ==
  ASSUME NEW ops, TypedReads(ops), NEW k \in 1 .. Len(ops), ReadsOrdered(ops),
         NEW next, NEW err, ReadFlags(ops, next, err),
         NEW state \in {ASKING_FOR_ALLOCATION, READING_PAYLOADS_AND_RECEIVING_TENSORS, READ_FINISHED},
         (IF k = 1 THEN READ_FINISHED ELSE ops[k - 1].state) >= state
  PROVE  Before(ops, k, state)
<1> SUFFICES ASSUME NEW j \in 1 .. k - 1 PROVE ops[j].state >= state
  BY Zenon DEF Before
<1>1. k - 1 \in 1 .. Len(ops) /\ k # 1 /\ ops[k - 1].state >= state /\ j \in 1 .. Len(ops)
  BY DEF TypedReads
<1>2. CASE j = k - 1
  BY <1>2
<1>3. CASE j # k - 1
  <2>1. j < k - 1
    BY <1>3
  <2> QED
    <3>1. CASE state = READING_PAYLOADS_AND_RECEIVING_TENSORS
      <4>1. ops[k - 1].doneReadingDescriptor
        BY <3>1 DEF TypedReads, ReadFlags
      <4> QED
        BY <2>1, <3>1, <4>1, SMTT(30) DEF ReadsOrdered
    <3>2. CASE state = ASKING_FOR_ALLOCATION
      BY <2>1, <3>2 DEF TypedReads, ReadsOrdered
    <3>3. CASE state = READ_FINISHED
      BY <2>1, <3>3, SMTT(30) DEF TypedReads, ReadsOrdered
    <3> QED
      BY <3>1, <3>2, <3>3, Zenon
<1> QED
  BY <1>2, <1>3, Zenon

\* Likewise for the write operations, whose states are in descending order.
LEMMA WritesBefore ==
  ASSUME NEW ops, TypedWrites(ops), NEW k \in 1 .. Len(ops), WritesOrdered(ops),
         NEW state \in UNINITIALIZED .. WRITE_FINISHED,
         (IF k = 1 THEN WRITE_FINISHED ELSE ops[k - 1].state) >= state
  PROVE  Before(ops, k, state)
<1> SUFFICES ASSUME NEW j \in 1 .. k - 1 PROVE ops[j].state >= state
  BY Zenon DEF Before
<1>1. k - 1 \in 1 .. Len(ops) /\ k # 1 /\ ops[k - 1].state >= state /\ j \in 1 .. Len(ops)
  BY DEF TypedWrites
<1>2. CASE j = k - 1
  BY <1>1, <1>2, ZenonT(30)
<1>3. CASE j # k - 1
  <2>1. j < k - 1
    BY <1>3
  <2> QED
    BY <1>1, <2>1, SMTT(30) DEF TypedWrites, WritesOrdered
<1> QED
  BY <1>2, <1>3, Zenon

\* One more call keeps the calls in order; it fails just when there was an
\* error.
LEMMA OneMoreCall ==
  ASSUME NEW called, TypedCalls(called), NEW after, NEW n \in Nat, NEW err \in BOOLEAN,
         NEW ok \in BOOLEAN, ok <=> ~err, CallsOf(called, n, err), Len(called) + 1 <= n,
         Calls(after, called, ok)
  PROVE  CallsOf(after, n, err)
<1>1. Len(called) \in Nat /\ Len(after) = Len(called) + 1
  BY Zenon DEF TypedCalls, Calls
<1>2. ASSUME NEW i \in 1 .. Len(after)
      PROVE  after[i].op = i /\ (~after[i].ok => err) /\ (after[i].ok => \A j \in 1 .. i : after[j].ok)
  <2>1. CASE i \in 1 .. Len(called)
    <3>1. \A j \in 1 .. i : j \in 1 .. Len(called) /\ j <= i
      BY <2>1
    <3> QED
      BY <2>1, <3>1, Zenon DEF CallsOf, Calls
  <2>2. CASE i = Len(called) + 1
    <3>1. after[i].op = i /\ (after[i].ok <=> ok)
      BY <2>2, Zenon DEF Calls
    <3>2. ~err => \A j \in 1 .. Len(called) : after[j].ok
      BY ZenonT(30) DEF CallsOf, Calls
    <3>3. \A j \in 1 .. i : j = i \/ j \in 1 .. Len(called)
      BY <2>2
    <3> QED
      BY <3>1, <3>2, <3>3, ZenonT(30)
  <2> QED
    BY <1>1, <2>1, <2>2
<1>3. \A i, j \in 1 .. Len(after) : i <= j /\ after[j].ok => after[i].ok
  <2>1. \A i, j \in 1 .. Len(after) : i <= j => i \in 1 .. j
    OBVIOUS
  <2> QED
    BY <1>2, <2>1, ZenonT(30)
<1> QED
  BY <1>1, <1>2, <1>3, Zenon DEF CallsOf

\* The read operation whose descriptor is announced next.
LEMMA NextAnnounced ==
  ASSUME NEW ops, TypedReads(ops), NEW k \in 1 .. Len(ops), NEW err, NEW announced,
         TypedCalls(announced), NEW answered, ReadsCalled(ops, err, announced, answered),
         Before(ops, k, ASKING_FOR_ALLOCATION), ops[k].state < ASKING_FOR_ALLOCATION
  PROVE  Len(announced) = k - 1
<1>1. Len(announced) \in Nat /\ k \in Nat /\ Len(ops) \in Nat
  BY DEF TypedCalls, TypedReads
<1>2. ~(k <= Len(announced))
  BY SMTT(30) DEF ReadsCalled, TypedReads
<1>3. k # 1 => k - 1 <= Len(announced)
  BY <1>1 DEF ReadsCalled, Before
<1> QED
  BY <1>1, <1>2, <1>3

\* The read operation that is over next.
LEMMA NextAnswered ==
  ASSUME NEW ops, TypedReads(ops), NEW k \in 1 .. Len(ops), NEW err, NEW announced,
         NEW answered, TypedCalls(answered), ReadsCalled(ops, err, announced, answered),
         Before(ops, k, READ_FINISHED), ops[k].state < READ_FINISHED
  PROVE  Len(answered) = k - 1
<1>1. Len(answered) \in Nat /\ k \in Nat /\ Len(ops) \in Nat
  BY DEF TypedCalls, TypedReads
<1>2. ~(k <= Len(answered))
  BY DEF ReadsCalled, TypedReads
<1>3. k # 1 => k - 1 <= Len(answered)
  <2>1. k # 1 => k - 1 \in 1 .. Len(ops) /\ ops[k - 1].state = READ_FINISHED
    BY <1>1, SMTT(30) DEF Before, TypedReads
  <2> QED
    BY <2>1, SMTT(30) DEF ReadsCalled
<1> QED
  BY <1>1, <1>2, <1>3

\* The write operation that is over next.
LEMMA NextWritten ==
  ASSUME NEW ops, TypedWrites(ops), NEW k \in 1 .. Len(ops), NEW err,
         NEW answered, TypedCalls(answered), WritesCalled(ops, err, answered),
         Before(ops, k, WRITE_FINISHED), ops[k].state < WRITE_FINISHED
  PROVE  Len(answered) = k - 1
<1>1. Len(answered) \in Nat /\ k \in Nat /\ Len(ops) \in Nat
  BY DEF TypedCalls, TypedWrites
<1>2. ~(k <= Len(answered))
  BY DEF WritesCalled, TypedWrites
<1>3. k # 1 => k - 1 <= Len(answered)
  <2>1. k # 1 => k - 1 \in 1 .. Len(ops) /\ ops[k - 1].state = WRITE_FINISHED
    BY <1>1 DEF Before, TypedWrites
  <2> QED
    BY <2>1, SMTT(30) DEF WritesCalled
<1> QED
  BY <1>1, <1>2, <1>3

\* The descriptor of the next read is announced, with success or because of an
\* error.
LEMMA AnnouncedRead ==
  ASSUME NEW ops, TypedReads(ops), NEW after, TypedReads(after), NEW k \in 1 .. Len(ops),
         NEW next, NEW err \in BOOLEAN, NEW announced, TypedCalls(announced),
         NEW answered, TypedCalls(answered), ReadsOK(ops, next, err, announced, answered),
         NEW announcedAfter, NEW ok \in BOOLEAN, ok <=> ~err, Calls(announcedAfter, announced, ok),
         Goes(after, ops, k, ASKING_FOR_ALLOCATION), Before(ops, k, ASKING_FOR_ALLOCATION),
         \/ ops[k].state = UNINITIALIZED /\ err
         \/ ops[k].state = READING_DESCRIPTOR /\ ops[k].doneReadingDescriptor
  PROVE  ReadsOK(after, next, err, announcedAfter, answered)
<1>1. ReadsOrdered(after)
  BY SMTT(30) DEF ReadsOK, TypedReads, Goes, Changed, ReadsOrdered, ReadFlags, Before
<1>2. ReadFlags(after, next, err)
  BY DEF ReadsOK, TypedReads, Goes, Changed, ReadFlags
<1>3. Len(announced) = k - 1
  BY NextAnnounced DEF ReadsOK
<1>4. ReadsCalled(after, err, announcedAfter, answered)
  <2>1. CallsOf(announcedAfter, Len(ops), err)
    <3>1. Len(ops) \in Nat /\ Len(announced) + 1 <= Len(ops) /\ CallsOf(announced, Len(ops), err)
      BY DEF ReadsOK, ReadsCalled, TypedReads
    <3> QED
      BY <3>1, OneMoreCall, Zenon
  <2>2. Len(announcedAfter) = k
    BY <1>3 DEF Calls
  <2>3. \A j \in 1 .. Len(ops) : ops[j].state >= ASKING_FOR_ALLOCATION <=> j <= k - 1
    BY <1>3, Zenon DEF ReadsOK, ReadsCalled
  <2> QED
    BY <2>1, <2>2, <2>3 DEF ReadsOK, ReadsCalled, TypedReads, Goes, Changed
<1>5. CallsMatch(after, announcedAfter, answered)
  <2>1. /\ Len(announcedAfter) = k /\ (announcedAfter[k].ok <=> ok)
        /\ \A i \in 1 .. k - 1 : announcedAfter[i] = announced[i] /\ i # k /\ i \in 1 .. Len(ops)
    BY <1>3 DEF Calls, TypedReads
  <2>2. \A i \in 1 .. Len(announcedAfter) : announcedAfter[i].ok => after[i].doneReadingDescriptor
    <3>1. \A i \in 1 .. k - 1 : announced[i].ok => after[i].doneReadingDescriptor
      BY <1>3, <2>1, ZenonT(30) DEF ReadsOK, CallsMatch, Goes, Changed
    <3>2. ok => after[k].doneReadingDescriptor
      BY Zenon DEF Goes
    <3>3. \A i \in 1 .. Len(announcedAfter) : i = k \/ i \in 1 .. k - 1
      BY <2>1
    <3> QED
      BY <2>1, <3>1, <3>2, <3>3, SMTT(30)
  <2>3. \A i \in 1 .. Len(answered) :
          answered[i].ok => i <= Len(announcedAfter) /\ announcedAfter[i].ok
    BY <1>3, <2>1 DEF ReadsOK, CallsMatch, TypedCalls
  <2> QED
    BY <2>2, <2>3, ZenonT(30) DEF CallsMatch
<1> QED
  BY <1>1, <1>2, <1>4, <1>5, Zenon DEF ReadsOK

\* The next read that a call of read is for.
LEMMA ExpectedRead ==
  ASSUME NEW ops, TypedReads(ops), NEW after, TypedReads(after), NEW k \in 1 .. Len(ops),
         NEW next, NEW err \in BOOLEAN, NEW announced, TypedCalls(announced),
         NEW answered, TypedCalls(answered), ReadsOK(ops, next, err, announced, answered),
         Goes(after, ops, k, ASKING_FOR_ALLOCATION_FIRST_IN_LINE),
         Before(ops, k, READING_PAYLOADS_AND_RECEIVING_TENSORS),
         ops[k].state = ASKING_FOR_ALLOCATION, ops[k].doneReadingDescriptor
  PROVE  ReadsOK(after, k, err, announced, answered)
<1>1. ReadsOrdered(after)
  BY SMTT(30) DEF ReadsOK, TypedReads, Goes, Changed, ReadsOrdered, ReadFlags, Before
<1>2. ReadFlags(after, k, err)
  <2>1. ASSUME NEW j \in 1 .. Len(ops), j # k
        PROVE  ops[j].state # ASKING_FOR_ALLOCATION_FIRST_IN_LINE
    <3>1. CASE j < k
      BY <3>1 DEF Before, TypedReads
    <3>2. CASE k < j
      BY <3>2, SMTT(30) DEF ReadsOK, ReadsOrdered, ReadFlags, TypedReads
    <3> QED
      BY <2>1, <3>1, <3>2 DEF TypedReads
  <2>2. ~ops[k].doneGettingAllocation
    BY DEF ReadsOK, ReadFlags, TypedReads
  <2>3. ASSUME NEW j \in 1 .. Len(after)
        PROVE  k = j <=> /\ after[j].state = ASKING_FOR_ALLOCATION_FIRST_IN_LINE
                         /\ ~after[j].doneGettingAllocation
    <3>1. CASE j = k
      BY <2>2, <3>1, Zenon DEF Goes
    <3>2. CASE j # k
      BY <2>1, <3>2 DEF Goes, Changed
    <3> QED
      BY <3>1, <3>2, Zenon
  <2> QED
    <3>1. ASSUME NEW j \in 1 .. Len(after)
          PROVE  /\ after[j].doneReadingDescriptor => after[j].state >= READING_DESCRIPTOR
                 /\ \/ after[j].state >= ASKING_FOR_ALLOCATION_FIRST_IN_LINE
                    \/ after[j].state = ASKING_FOR_ALLOCATION /\ ~err
                    => after[j].doneReadingDescriptor
                 /\ after[j].doneGettingAllocation =>
                      after[j].state >= ASKING_FOR_ALLOCATION_FIRST_IN_LINE
                 /\ after[j].state >= READING_PAYLOADS_AND_RECEIVING_TENSORS =>
                      after[j].doneGettingAllocation
      <4>1. CASE j = k
        <5>1. /\ after[k].state = ASKING_FOR_ALLOCATION_FIRST_IN_LINE
              /\ after[k].doneReadingDescriptor /\ ~after[k].doneGettingAllocation
          BY <2>2, ZenonT(30) DEF Goes
        <5> QED
          BY <4>1, <5>1
      <4>2. CASE j # k
        <5>1. j \in 1 .. Len(ops) /\ after[j] = ops[j]
          BY <4>2, ZenonT(30) DEF Goes, Changed
        <5> QED
          BY <5>1, ZenonT(30) DEF ReadsOK, ReadFlags
      <4> QED
        BY <4>1, <4>2, Zenon
    <3>2. k \in 0 .. Len(after)
      BY DEF Goes, Changed, TypedReads
    <3> QED
      BY <2>3, <3>1, <3>2, Zenon DEF ReadFlags
<1>3. ReadsCalled(after, err, announced, answered)
  BY SMTT(30) DEF ReadsOK, ReadsCalled, TypedReads, Goes, Changed
<1>4. CallsMatch(after, announced, answered)
  <2>1. \A i \in 1 .. Len(announced) :
          i \in 1 .. Len(ops) /\ after[i].doneReadingDescriptor = ops[i].doneReadingDescriptor
    <3>1. \A i \in 1 .. Len(announced) : i \in 1 .. Len(ops)
      BY DEF ReadsOK, ReadsCalled, CallsOf, TypedReads, TypedCalls
    <3>2. \A i \in 1 .. Len(ops) : after[i].doneReadingDescriptor = ops[i].doneReadingDescriptor
      BY Zenon DEF Goes, Changed
    <3> QED
      BY <3>1, <3>2, Zenon
  <2> QED
    BY <2>1, SMTT(30) DEF ReadsOK, CallsMatch
<1> QED
  BY <1>1, <1>2, <1>3, <1>4, Zenon DEF ReadsOK

\* The next read is over, with success or because of an error.
LEMMA AnsweredRead ==
  ASSUME NEW ops, TypedReads(ops), NEW after, TypedReads(after), NEW k \in 1 .. Len(ops),
         NEW next, NEW err \in BOOLEAN, NEW announced, TypedCalls(announced),
         NEW answered, TypedCalls(answered), ReadsOK(ops, next, err, announced, answered),
         NEW answeredAfter, NEW ok \in BOOLEAN, ok <=> ~err, Calls(answeredAfter, answered, ok),
         Goes(after, ops, k, READ_FINISHED), Before(ops, k, READ_FINISHED),
         \/ ops[k].state = ASKING_FOR_ALLOCATION_FIRST_IN_LINE /\ ops[k].doneGettingAllocation
         \/ ops[k].state = READING_PAYLOADS_AND_RECEIVING_TENSORS
  PROVE  ReadsOK(after, next, err, announced, answeredAfter)
<1>1. ReadsOrdered(after)
  BY SMTT(30) DEF ReadsOK, TypedReads, Goes, Changed, ReadsOrdered, ReadFlags, Before
<1>2. ReadFlags(after, next, err)
  BY SMTT(30) DEF ReadsOK, TypedReads, Goes, Changed, ReadFlags
<1>3. Len(answered) = k - 1
  BY NextAnswered DEF ReadsOK
<1>4. ReadsCalled(after, err, announced, answeredAfter)
  <2>1. CallsOf(answeredAfter, Len(ops), err)
    <3>1. Len(ops) \in Nat /\ Len(answered) + 1 <= Len(ops) /\ CallsOf(answered, Len(ops), err)
      BY SMTT(30) DEF ReadsOK, ReadsCalled, TypedReads
    <3> QED
      BY <3>1, OneMoreCall, ZenonT(30)
  <2>2. Len(answeredAfter) = k
    BY <1>3 DEF Calls
  <2>3. \A j \in 1 .. Len(ops) : ops[j].state = READ_FINISHED <=> j <= k - 1
    BY <1>3, Zenon DEF ReadsOK, ReadsCalled
  <2> QED
    BY <2>1, <2>2, <2>3, SMTT(30) DEF ReadsOK, ReadsCalled, TypedReads, Goes, Changed
<1>5. CallsMatch(after, announced, answeredAfter)
  <2>1. /\ Len(answeredAfter) = k /\ (answeredAfter[k].ok <=> ok)
        /\ \A i \in 1 .. k - 1 : answeredAfter[i] = answered[i]
    BY <1>3, SMTT(30) DEF Calls, TypedReads
  <2>2. k <= Len(announced) /\ (ok => announced[k].ok)
    BY SMTT(30) DEF ReadsOK, ReadsCalled, CallsOf, TypedCalls, TypedReads
  <2>3. \A i \in 1 .. Len(answeredAfter) :
          answeredAfter[i].ok => i <= Len(announced) /\ announced[i].ok
    BY <1>3, <2>1, <2>2, SMTT(30) DEF ReadsOK, CallsMatch, TypedCalls
  <2>4. \A i \in 1 .. Len(announced) : announced[i].ok => after[i].doneReadingDescriptor
    <3>1. \A i \in 1 .. Len(announced) :
            i \in 1 .. Len(ops) /\ after[i].doneReadingDescriptor = ops[i].doneReadingDescriptor
      BY SMTT(30) DEF ReadsOK, ReadsCalled, CallsOf, TypedReads, TypedCalls, Goes, Changed
    <3> QED
      BY <3>1, SMTT(30) DEF ReadsOK, CallsMatch
  <2> QED
    BY <2>3, <2>4, Zenon DEF CallsMatch
<1> QED
  BY <1>1, <1>2, <1>4, <1>5, SMTT(30) DEF ReadsOK

\* A read begins to read its descriptor, or its payloads and tensors.
LEMMA BegunRead ==
  ASSUME NEW ops, TypedReads(ops), NEW after, TypedReads(after), NEW k \in 1 .. Len(ops),
         NEW next, NEW err \in BOOLEAN, NEW announced, TypedCalls(announced),
         NEW answered, TypedCalls(answered), ReadsOK(ops, next, err, announced, answered),
         NEW state \in UNINITIALIZED .. READ_FINISHED, Goes(after, ops, k, state),
         \/ /\ ops[k].state = UNINITIALIZED /\ state = READING_DESCRIPTOR
            /\ Before(ops, k, READING_PAYLOADS_AND_RECEIVING_TENSORS)
         \/ /\ ops[k].state = ASKING_FOR_ALLOCATION_FIRST_IN_LINE
            /\ state = READING_PAYLOADS_AND_RECEIVING_TENSORS
            /\ ops[k].doneGettingAllocation
  PROVE  ReadsOK(after, next, err, announced, answered)
<1>1. ReadsOrdered(after)
  BY SMTT(30) DEF ReadsOK, TypedReads, Goes, Changed, ReadsOrdered, ReadFlags, Before
<1>2. ReadFlags(after, next, err)
  BY SMTT(30) DEF ReadsOK, TypedReads, Goes, Changed, ReadFlags
<1>3. ReadsCalled(after, err, announced, answered)
  BY SMTT(30) DEF ReadsOK, ReadsCalled, TypedReads, Goes, Changed
<1>4. CallsMatch(after, announced, answered)
  <2>1. \A i \in 1 .. Len(announced) :
          i \in 1 .. Len(ops) /\ after[i].doneReadingDescriptor = ops[i].doneReadingDescriptor
    BY SMTT(30) DEF ReadsOK, ReadsCalled, CallsOf, TypedReads, TypedCalls, Goes, Changed
  <2> QED
    BY <2>1, SMTT(30) DEF ReadsOK, CallsMatch
<1> QED
  BY <1>1, <1>2, <1>3, <1>4, SMTT(30) DEF ReadsOK

\* A write goes on to another state than the last.
LEMMA AdvancedWrite ==
  ASSUME NEW ops, TypedWrites(ops), NEW after, TypedWrites(after), NEW k \in 1 .. Len(ops),
         NEW err \in BOOLEAN, NEW answered, TypedCalls(answered), WritesOK(ops, err, answered),
         Changed(after, ops, k), after[k].state >= ops[k].state,
         ops[k].state # WRITE_FINISHED, after[k].state # WRITE_FINISHED,
         Before(ops, k, after[k].state)
  PROVE  WritesOK(after, err, answered)
<1>1. WritesOrdered(after)
  BY SMTT(30) DEF WritesOK, WritesOrdered, TypedWrites, Changed, Before
<1>2. WritesCalled(after, err, answered)
  BY Zenon DEF WritesOK, WritesCalled, TypedWrites, Changed
<1> QED
  BY <1>1, <1>2, Zenon DEF WritesOK

\* The next write is over, with success or because of an error.
LEMMA AnsweredWrite ==
  ASSUME NEW ops, TypedWrites(ops), NEW after, TypedWrites(after), NEW k \in 1 .. Len(ops),
         NEW err \in BOOLEAN, NEW answered, TypedCalls(answered), WritesOK(ops, err, answered),
         NEW answeredAfter, NEW ok \in BOOLEAN, ok <=> ~err, Calls(answeredAfter, answered, ok),
         Changed(after, ops, k), ops[k].state # WRITE_FINISHED, after[k].state = WRITE_FINISHED,
         Before(ops, k, WRITE_FINISHED)
  PROVE  WritesOK(after, err, answeredAfter)
<1>1. WritesOrdered(after)
  BY DEF WritesOK, WritesOrdered, TypedWrites, Changed, Before
<1>2. Len(answered) = k - 1
  BY NextWritten DEF WritesOK, TypedWrites
<1>3. CallsOf(answeredAfter, Len(ops), err)
  <2>1. Len(ops) \in Nat /\ Len(answered) + 1 <= Len(ops) /\ CallsOf(answered, Len(ops), err)
    BY DEF WritesOK, WritesCalled, TypedWrites
  <2> QED
    BY <2>1, OneMoreCall, Zenon
<1>4. Len(answeredAfter) = k
  BY <1>2 DEF Calls
<1>5. \A j \in 1 .. Len(ops) : ops[j].state = WRITE_FINISHED <=> j <= k - 1
  BY <1>2, Zenon DEF WritesOK, WritesCalled
<1>6. WritesCalled(after, err, answeredAfter)
  BY <1>3, <1>4, <1>5 DEF WritesCalled, TypedWrites, Changed
<1> QED
  BY <1>1, <1>6, Zenon DEF WritesOK

-----------------------------------------------------------------------------
(* The transitions of read operations.                                     *)

\* A piece of advanceOperation or of advanceAllOperations that stays at its operation.
LEMMA SameAdvancePiece ==
  ASSUME NEW piece, NEW after, NEW last, NEW reads, NEW writes,
         PieceOK(piece, last, reads, writes), piece.what \in {"reads", "writes"},
         after.what = piece.what, after.at = piece.at
  PROVE  PieceOK(after, last, reads, writes)
  BY DEF PieceOK

\* The pieces of a task that an operation's transition leaves.
LEMMA TodoAfterTransition ==
  ASSUME TypeOK, NEW p \in Pipes, TodoOK(p), 1 \in 1 .. Len(todo[p]), todo[p][1] \in AdvancePiece,
         UpdatedAt(todo', todo, p, 1, [todo[p][1] EXCEPT !.advanced = TRUE], Piece),
         KeepsLengths(p)
  PROVE  TodoOK(p)' /\ NoNewBody(p)
<1>1. /\ Len(todo'[p]) = Len(todo[p])
      /\ todo'[p][1].what = todo[p][1].what /\ todo'[p][1].at = todo[p][1].at
      /\ todo[p][1].what \in {"reads", "writes"}
      /\ \A j \in 1 .. Len(todo[p]) : j # 1 => todo'[p][j] = todo[p][j]
  BY Zenon DEF UpdatedAt, AdvancePiece
<1>2. TodoOK(p)'
  <2>1. ASSUME NEW n \in 1 .. Len(todo[p])
        PROVE  PieceOK(todo'[p][n], n = Len(todo[p]), Len(readOps[p]), Len(writeOps[p]))
    <3>1. PieceOK(todo[p][n], n = Len(todo[p]), Len(readOps[p]), Len(writeOps[p]))
      BY Zenon DEF TodoOK
    <3>2. CASE n = 1
      BY <1>1, <3>1, <3>2, SameAdvancePiece, Zenon
    <3> QED
      BY <1>1, <3>1, <3>2, Zenon
  <2> QED
    BY <1>1, <2>1, Zenon DEF TodoOK, KeepsLengths
<1>3. NoNewBody(p)
  BY <1>1, Zenon DEF NoNewBody
<1> QED
  BY <1>2, <1>3, Zenon

\* What a transition of a read leaves alone.
LEMMA AfterReadTransition ==
  ASSUME OrderInv, TypeOK', NEW p \in Pipes, NEW k \in 1 .. Len(readOps[p]), NEW op,
         ReadTransition(p, k, op)
  PROVE  /\ TodoOK(p)' /\ NoNewBody(p) /\ WriteInv(p)' /\ KeepsLengths(p)
         /\ Changed(readOps'[p], readOps[p], k) /\ readOps'[p][k] = op
         /\ error'[p] = error[p]
<1>1. TypeOK /\ TodoOK(p) /\ WriteInv(p)
  BY ZenonT(30) DEF OrderInv
<1>2. /\ Changed(readOps'[p], readOps[p], k) /\ readOps'[p][k] = op
      /\ Len(readOps'[p]) = Len(readOps[p])
      /\ writeOps' = writeOps /\ writeCalled' = writeCalled /\ error' = error
  BY ZenonT(30) DEF ReadTransition, UpdatedAt, Changed
<1>3. KeepsLengths(p)
  BY <1>2, ZenonT(30) DEF KeepsLengths
<1>4. TodoOK(p)' /\ NoNewBody(p)
  BY <1>1, <1>3, TodoAfterTransition, Zenon DEF ReadTransition
<1>5. KeepsWrites(p)
  BY <1>2, ZenonT(30) DEF KeepsWrites
<1>6. WriteInv(p)'
  BY <1>1, <1>5, WritesKept, ZenonT(30)
<1> QED
  BY <1>2, <1>3, <1>4, <1>6, ZenonT(30)

\* A transition that only sets the state of a read.
LEMMA AfterReadStateTransition ==
  ASSUME OrderInv, TypeOK', NEW p \in Pipes, NEW k \in 1 .. Len(readOps[p]),
         NEW state \in UNINITIALIZED .. READ_FINISHED,
         ReadTransition(p, k, [readOps[p][k] EXCEPT !.state = state])
  PROVE  /\ TodoOK(p)' /\ NoNewBody(p) /\ WriteInv(p)' /\ KeepsLengths(p)
         /\ Goes(readOps'[p], readOps[p], k, state)
         /\ error'[p] = error[p]
<1> DEFINE op == [readOps[p][k] EXCEPT !.state = state]
<1>1. /\ op.state = state /\ op.doneReadingDescriptor = readOps[p][k].doneReadingDescriptor
      /\ op.doneGettingAllocation = readOps[p][k].doneGettingAllocation
  BY ZenonT(30) DEF ReadTransition, ReadOperation
<1> HIDE DEF op
<1>2. /\ TodoOK(p)' /\ NoNewBody(p) /\ WriteInv(p)' /\ KeepsLengths(p)
      /\ Changed(readOps'[p], readOps[p], k) /\ readOps'[p][k] = op
      /\ error'[p] = error[p]
  BY AfterReadTransition, ZenonT(30) DEF op
<1> QED
  BY <1>1, <1>2, ZenonT(30) DEF Goes

\* What the guard of a transition says of the previous reads.
LEMMA PreviousReads ==
  ASSUME OrderInv, NEW p \in Pipes, NEW k \in 1 .. Len(readOps[p]),
         NEW state \in {ASKING_FOR_ALLOCATION, READING_PAYLOADS_AND_RECEIVING_TENSORS, READ_FINISHED},
         PrevRead(p, k) >= state
  PROVE  Before(readOps[p], k, state)
<1>1. /\ TypedReads(readOps[p]) /\ ReadsOrdered(readOps[p])
      /\ ReadFlags(readOps[p], nextMessageGettingAllocation[p], error[p])
  BY OrderTypes, ZenonT(30) DEF OrderInv, ReadInv, ReadsOK
<1>2. (IF k = 1 THEN READ_FINISHED ELSE readOps[p][k - 1].state) >= state
  BY ZenonT(30) DEF PrevRead
<1> QED
  BY <1>1, <1>2, ReadsBefore, SMTT(30)

\* A call of a callback that is the next one's.
LEMMA NextCall ==
  ASSUME NEW called, NEW after, NEW p \in Pipes, NEW k, NEW ok, Len(called[p]) \in Nat,
         AppendedTo(after, called, p, [op |-> k, ok |-> ok], Call), Len(called[p]) = k - 1, k \in Nat
  PROVE  Calls(after[p], called[p], ok)
  BY DEF AppendedTo, Calls

\* The step that takes a read to another state preserves all that the callbacks do not show, when it
\* posts nothing.
LEMMA ReadMoves ==
  ASSUME OrderInv, TypeOK', NEW p \in Pipes, NEW k \in 1 .. Len(readOps[p]),
         NEW state \in UNINITIALIZED .. READ_FINISHED,
         ReadTransition(p, k, [readOps[p][k] EXCEPT !.state = state]), UNCHANGED <<ins, outs>>,
         readOps[p][k].state # READING_DESCRIPTOR \/ readOps[p][k].doneReadingDescriptor,
         ReadInv(p)', Elsewhere(p)
  PROVE  OrderInv'
<1>1. TypeOK /\ TodoOK(p) /\ ItemsOK(p) /\ DescriptorsStarted(p)
  BY Zenon DEF OrderInv
<1>2. /\ TodoOK(p)' /\ NoNewBody(p) /\ WriteInv(p)' /\ KeepsLengths(p)
      /\ Goes(readOps'[p], readOps[p], k, state)
  BY AfterReadStateTransition, Zenon
<1>3. ItemsOK(p)'
  BY <1>1, <1>2, ItemsStay, ZenonT(30)
<1>4. DescriptorsStarted(p)'
  <2>1. \A j \in 1 .. Len(readOps[p]) : Started(readOps[p][j]) => Started(readOps'[p][j])
    BY <1>2, StaysStarted, ZenonT(30)
  <2>2. ins'[p]["descriptor"] = ins[p]["descriptor"]
    BY ZenonT(30)
  <2> QED
    BY <1>1, <1>2, <2>1, <2>2, DescriptorsKept, Zenon
<1> QED
  BY <1>2, <1>3, <1>4, OtherPipe, Zenon

\* What the step that takes a read to another state has to work with.
LEMMA ReadMoved ==
  ASSUME OrderInv, TypeOK', NEW p \in Pipes, NEW k \in 1 .. Len(readOps[p]),
         NEW state \in UNINITIALIZED .. READ_FINISHED,
         ReadTransition(p, k, [readOps[p][k] EXCEPT !.state = state])
  PROVE  /\ Goes(readOps'[p], readOps[p], k, state) /\ error'[p] = error[p]
         /\ TypedReads(readOps[p]) /\ TypedReads(readOps'[p]) /\ error[p] \in BOOLEAN
         /\ TypedCalls(readDescriptorCalled[p]) /\ TypedCalls(readCalled[p])
         /\ ReadsOK(readOps[p], nextMessageGettingAllocation[p], error[p],
                    readDescriptorCalled[p], readCalled[p])
<1>1. TypeOK /\ ReadInv(p)
  BY Zenon DEF OrderInv
<1>2. Goes(readOps'[p], readOps[p], k, state) /\ error'[p] = error[p]
  BY AfterReadStateTransition, Zenon
<1>3. /\ TypedReads(readOps[p]) /\ TypedReads(readOps'[p]) /\ error[p] \in BOOLEAN
      /\ TypedCalls(readDescriptorCalled[p]) /\ TypedCalls(readCalled[p])
  BY <1>1, OrderTypes, Zenon
<1> QED
  BY <1>1, <1>2, <1>3, Zenon DEF ReadInv

\* The step that announces the next message, or that there is an error, keeps the callbacks of
\* readDescriptor in order.
LEMMA ReadAnnounces ==
  ASSUME OrderInv, TypeOK', NEW p \in Pipes, NEW k \in 1 .. Len(readOps[p]),
         ReadTransition(p, k, [readOps[p][k] EXCEPT !.state = ASKING_FOR_ALLOCATION]),
         PrevRead(p, k) >= ASKING_FOR_ALLOCATION,
         \/ readOps[p][k].state = UNINITIALIZED /\ error[p]
         \/ readOps[p][k].state = READING_DESCRIPTOR /\ readOps[p][k].doneReadingDescriptor,
         NEW ok \in BOOLEAN, ok <=> ~error[p],
         AppendedTo(readDescriptorCalled', readDescriptorCalled, p, [op |-> k, ok |-> ok], Call),
         UNCHANGED <<nextMessageGettingAllocation, ins, outs, readCalled>>
  PROVE  OrderInv'
<1>1. ASKING_FOR_ALLOCATION \in UNINITIALIZED .. READ_FINISHED
  OBVIOUS
<1>2. /\ Goes(readOps'[p], readOps[p], k, ASKING_FOR_ALLOCATION) /\ error'[p] = error[p]
      /\ TypedReads(readOps[p]) /\ TypedReads(readOps'[p]) /\ error[p] \in BOOLEAN
      /\ TypedCalls(readDescriptorCalled[p]) /\ TypedCalls(readCalled[p])
      /\ ReadsOK(readOps[p], nextMessageGettingAllocation[p], error[p],
                 readDescriptorCalled[p], readCalled[p])
  BY <1>1, ReadMoved, Zenon
<1>3. Before(readOps[p], k, ASKING_FOR_ALLOCATION)
  BY PreviousReads, ZenonT(30)
<1>4. ReadInv(p)'
  <2>1. Len(readDescriptorCalled[p]) \in Nat /\ k \in Nat
    BY <1>2 DEF TypedCalls
  <2>2. Len(readDescriptorCalled[p]) = k - 1
    <3>1. readOps[p][k].state < ASKING_FOR_ALLOCATION
      OBVIOUS
    <3>2. ReadsCalled(readOps[p], error[p], readDescriptorCalled[p], readCalled[p])
      BY <1>2, Zenon DEF ReadsOK
    <3> QED
      BY <1>2, <1>3, <3>1, <3>2, NextAnnounced
  <2>3. Calls(readDescriptorCalled'[p], readDescriptorCalled[p], ok)
    BY <2>1, <2>2, NextCall, Zenon
  <2>4. ReadsOK(readOps'[p], nextMessageGettingAllocation[p], error[p],
                readDescriptorCalled'[p], readCalled[p])
    BY <1>2, <1>3, <2>3, AnnouncedRead, Zenon
  <2> QED
    BY <1>2, <2>4, ZenonT(30) DEF ReadInv
<1>5. Elsewhere(p)
  BY ZenonT(30) DEF Elsewhere, ReadTransition, UpdatedAt, AppendedTo
<1>6. /\ readOps[p][k].state # READING_DESCRIPTOR \/ readOps[p][k].doneReadingDescriptor
      /\ UNCHANGED <<ins, outs>>
  OBVIOUS
<1> QED
  BY <1>1, <1>4, <1>5, <1>6, ReadMoves, Zenon

\* FlushRead keeps the callbacks of readDescriptor in order: an error answers
\* them one after the other, too.
LEMMA FlushReadOrder ==
  ASSUME OrderInv, NEW p \in Pipes, NEW k \in 1 .. Len(readOps[p]), FlushReadEffect(p, k)
  PROVE  OrderInv'
<1>1. /\ TypeOK' /\ CanFlushRead(p, k)
      /\ ReadTransition(p, k, [readOps[p][k] EXCEPT !.state = ASKING_FOR_ALLOCATION])
  BY Zenon DEF FlushReadEffect
<1>2. /\ PrevRead(p, k) >= ASKING_FOR_ALLOCATION
      /\ readOps[p][k].state = UNINITIALIZED /\ error[p]
  BY <1>1, ZenonT(30) DEF CanFlushRead
<1>3. FALSE \in BOOLEAN /\ (FALSE <=> ~error[p])
  BY <1>1, ZenonT(30) DEF CanFlushRead
<1>4. /\ AppendedTo(readDescriptorCalled', readDescriptorCalled, p, [op |-> k, ok |-> FALSE], Call)
      /\ UNCHANGED <<nextMessageGettingAllocation, ins, outs, readCalled>>
  BY Zenon DEF FlushReadEffect
<1> QED
  BY <1>1, <1>2, <1>3, <1>4, ReadAnnounces, Zenon

\* AskForAllocation announces the messages in order.
LEMMA AskForAllocationOrder ==
  ASSUME OrderInv, NEW p \in Pipes, NEW k \in 1 .. Len(readOps[p]), AskForAllocationEffect(p, k)
  PROVE  OrderInv'
<1>1. /\ TypeOK' /\ CanAskForAllocation(p, k)
      /\ ReadTransition(p, k, [readOps[p][k] EXCEPT !.state = ASKING_FOR_ALLOCATION])
  BY Zenon DEF AskForAllocationEffect
<1>2. /\ PrevRead(p, k) >= ASKING_FOR_ALLOCATION
      /\ readOps[p][k].state = READING_DESCRIPTOR /\ readOps[p][k].doneReadingDescriptor
  BY <1>1, ZenonT(30) DEF CanAskForAllocation
<1>3. (~error[p]) \in BOOLEAN /\ ((~error[p]) <=> ~error[p])
  BY ZenonT(30)
<1>4. /\ AppendedTo(readDescriptorCalled', readDescriptorCalled, p, [op |-> k, ok |-> ~error[p]], Call)
      /\ UNCHANGED <<nextMessageGettingAllocation, ins, outs, readCalled>>
  BY Zenon DEF AskForAllocationEffect
<1> QED
  BY <1>1, <1>2, <1>3, <1>4, ReadAnnounces, Zenon

\* ExpectReadCall leaves at most one operation that expects a call of read.
LEMMA ExpectReadCallOrder ==
  ASSUME OrderInv, NEW p \in Pipes, NEW k \in 1 .. Len(readOps[p]), ExpectReadCallEffect(p, k)
  PROVE  OrderInv'
<1>1. /\ TypeOK' /\ CanExpectRead(p, k)
      /\ ReadTransition(p, k, [readOps[p][k] EXCEPT !.state = ASKING_FOR_ALLOCATION_FIRST_IN_LINE])
  BY Zenon DEF ExpectReadCallEffect
<1>2. /\ nextMessageGettingAllocation' = [nextMessageGettingAllocation EXCEPT ![p] = k]
      /\ UNCHANGED <<ins, outs, readDescriptorCalled, readCalled>>
  BY Zenon DEF ExpectReadCallEffect
<1>3. ASKING_FOR_ALLOCATION_FIRST_IN_LINE \in UNINITIALIZED .. READ_FINISHED
  OBVIOUS
<1>4. /\ Goes(readOps'[p], readOps[p], k, ASKING_FOR_ALLOCATION_FIRST_IN_LINE) /\ error'[p] = error[p]
      /\ TypedReads(readOps[p]) /\ TypedReads(readOps'[p]) /\ error[p] \in BOOLEAN
      /\ TypedCalls(readDescriptorCalled[p]) /\ TypedCalls(readCalled[p])
      /\ ReadsOK(readOps[p], nextMessageGettingAllocation[p], error[p],
                 readDescriptorCalled[p], readCalled[p])
  BY <1>1, <1>3, ReadMoved, Zenon
<1>5. Before(readOps[p], k, READING_PAYLOADS_AND_RECEIVING_TENSORS)
  BY <1>1, PreviousReads, ZenonT(30) DEF CanExpectRead
<1>6. ReadInv(p)'
  <2>1. nextMessageGettingAllocation'[p] = k
    BY <1>2, ZenonT(30) DEF OrderInv, TypeOK
  <2>2. ReadsOK(readOps'[p], k, error[p], readDescriptorCalled[p], readCalled[p])
    BY <1>1, <1>4, <1>5, ExpectedRead, ZenonT(30) DEF CanExpectRead
  <2> QED
    BY <1>2, <1>4, <2>1, <2>2, ZenonT(30) DEF ReadInv
<1>7. Elsewhere(p)
  BY <1>1, <1>2 DEF Elsewhere, ReadTransition, UpdatedAt
<1>8. /\ readOps[p][k].state # READING_DESCRIPTOR \/ readOps[p][k].doneReadingDescriptor
      /\ UNCHANGED <<ins, outs>>
  BY <1>1, <1>2, Zenon DEF CanExpectRead
<1> QED
  BY <1>1, <1>3, <1>6, <1>7, <1>8, ReadMoves, Zenon

\* The step that calls the callback of a read, whose previous ones were all called, keeps the
\* callbacks of read in order.
LEMMA ReadAnswers ==
  ASSUME OrderInv, TypeOK', NEW p \in Pipes, NEW k \in 1 .. Len(readOps[p]),
         ReadTransition(p, k, [readOps[p][k] EXCEPT !.state = READ_FINISHED]),
         PrevRead(p, k) >= READ_FINISHED,
         \/ readOps[p][k].state = ASKING_FOR_ALLOCATION_FIRST_IN_LINE /\ readOps[p][k].doneGettingAllocation
         \/ readOps[p][k].state = READING_PAYLOADS_AND_RECEIVING_TENSORS,
         NEW ok \in BOOLEAN, ok <=> ~error[p],
         AppendedTo(readCalled', readCalled, p, [op |-> k, ok |-> ok], Call),
         UNCHANGED <<nextMessageGettingAllocation, ins, outs, readDescriptorCalled>>
  PROVE  OrderInv'
<1>1. READ_FINISHED \in UNINITIALIZED .. READ_FINISHED
  OBVIOUS
<1>2. /\ Goes(readOps'[p], readOps[p], k, READ_FINISHED) /\ error'[p] = error[p]
      /\ TypedReads(readOps[p]) /\ TypedReads(readOps'[p]) /\ error[p] \in BOOLEAN
      /\ TypedCalls(readDescriptorCalled[p]) /\ TypedCalls(readCalled[p])
      /\ ReadsOK(readOps[p], nextMessageGettingAllocation[p], error[p],
                 readDescriptorCalled[p], readCalled[p])
  BY <1>1, ReadMoved, Zenon
<1>3. Before(readOps[p], k, READ_FINISHED)
  BY PreviousReads, ZenonT(30)
<1>4. ReadInv(p)'
  <2>1. Len(readCalled[p]) \in Nat /\ k \in Nat
    BY <1>2 DEF TypedCalls
  <2>2. Len(readCalled[p]) = k - 1
    <3>1. readOps[p][k].state < READ_FINISHED
      OBVIOUS
    <3>2. ReadsCalled(readOps[p], error[p], readDescriptorCalled[p], readCalled[p])
      BY <1>2, ZenonT(30) DEF ReadsOK
    <3> QED
      BY <1>2, <1>3, <3>1, <3>2, NextAnswered
  <2>3. Calls(readCalled'[p], readCalled[p], ok)
    BY <2>1, <2>2, NextCall, Zenon
  <2>4. ReadsOK(readOps'[p], nextMessageGettingAllocation[p], error[p],
                readDescriptorCalled[p], readCalled'[p])
    BY <1>2, <1>3, <2>3, AnsweredRead, Zenon
  <2> QED
    BY <1>2, <2>4, ZenonT(30) DEF ReadInv
<1>5. Elsewhere(p)
  BY ZenonT(30) DEF Elsewhere, ReadTransition, UpdatedAt, AppendedTo
<1>6. /\ readOps[p][k].state # READING_DESCRIPTOR \/ readOps[p][k].doneReadingDescriptor
      /\ UNCHANGED <<ins, outs>>
  OBVIOUS
<1> QED
  BY <1>1, <1>4, <1>5, <1>6, ReadMoves, Zenon

\* AbortRead keeps the callbacks of read in order.
LEMMA AbortReadOrder ==
  ASSUME OrderInv, NEW p \in Pipes, NEW k \in 1 .. Len(readOps[p]), AbortReadEffect(p, k)
  PROVE  OrderInv'
<1>1. /\ TypeOK' /\ CanAbortRead(p, k)
      /\ ReadTransition(p, k, [readOps[p][k] EXCEPT !.state = READ_FINISHED])
  BY Zenon DEF AbortReadEffect
<1>2. /\ PrevRead(p, k) >= READ_FINISHED
      /\ readOps[p][k].state = ASKING_FOR_ALLOCATION_FIRST_IN_LINE /\ readOps[p][k].doneGettingAllocation
  BY <1>1, ZenonT(30) DEF CanAbortRead
<1>3. FALSE \in BOOLEAN /\ (FALSE <=> ~error[p])
  BY <1>1, ZenonT(30) DEF CanAbortRead
<1>4. /\ AppendedTo(readCalled', readCalled, p, [op |-> k, ok |-> FALSE], Call)
      /\ UNCHANGED <<nextMessageGettingAllocation, ins, outs, readDescriptorCalled>>
  BY Zenon DEF AbortReadEffect
<1> QED
  BY <1>1, <1>2, <1>3, <1>4, ReadAnswers, Zenon

\* FinishRead keeps the callbacks of read in order.
LEMMA FinishReadOrder ==
  ASSUME OrderInv, NEW p \in Pipes, NEW k \in 1 .. Len(readOps[p]), FinishReadEffect(p, k)
  PROVE  OrderInv'
<1>1. /\ TypeOK' /\ CanFinishRead(p, k)
      /\ ReadTransition(p, k, [readOps[p][k] EXCEPT !.state = READ_FINISHED])
  BY Zenon DEF FinishReadEffect
<1>2. /\ PrevRead(p, k) >= READ_FINISHED
      /\ readOps[p][k].state = READING_PAYLOADS_AND_RECEIVING_TENSORS
  BY <1>1, ZenonT(30) DEF CanFinishRead
<1>3. (~error[p]) \in BOOLEAN /\ ((~error[p]) <=> ~error[p])
  BY Zenon
<1>4. /\ AppendedTo(readCalled', readCalled, p, [op |-> k, ok |-> ~error[p]], Call)
      /\ UNCHANGED <<nextMessageGettingAllocation, ins, outs, readDescriptorCalled>>
  BY Zenon DEF FinishReadEffect
<1> QED
  BY <1>1, <1>2, <1>3, <1>4, ReadAnswers, Zenon

\* More reads or writes of one operation belong to it.
LEMMA MoreItems ==
  ASSUME NEW new, NEW old, NEW kind, NEW k, NEW n \in Nat, More(new, old, kind, k, n),
         NEW kinds, NEW ops, kind \in kinds, k \in 1 .. Len(ops), Belongs(old, kinds, ops),
         NEW after, Len(after) = Len(ops), Len(old) \in Nat
  PROVE  Belongs(new, kinds, after)
<1>1. ASSUME NEW i \in 1 .. Len(new)
      PROVE  new[i].kind \in kinds /\ new[i].op \in 1 .. Len(after)
  <2>1. CASE i \in 1 .. Len(old)
    BY <2>1, ZenonT(30) DEF Belongs, More
  <2>2. CASE ~(i \in 1 .. Len(old))
    <3>1. i \in Len(old) + 1 .. Len(new)
      BY <2>2 DEF More
    <3>2. new[i] = [kind |-> kind, op |-> k]
      BY <3>1, ZenonT(30) DEF More
    <3> QED
      BY <3>2
  <2> QED
    BY <2>1, <2>2, ZenonT(30)
<1> QED
  BY <1>1, ZenonT(30) DEF Belongs

\* Reads posted for an operation whose descriptor was begun.
LEMMA DescriptorsPosted ==
  ASSUME TypeOK, NEW p \in Pipes, DescriptorsStarted(p), TodoOK(p), ItemsOK(p), NoNewBody(p),
         NEW k \in 1 .. Len(readOps[p]), NEW kind, NEW n \in Nat,
         More(ins'[p]["descriptor"], ins[p]["descriptor"], kind, k, n),
         \A j \in 1 .. Len(readOps[p]) : Started(readOps[p][j]) => Started(readOps'[p][j]),
         Started(readOps'[p][k])
  PROVE  DescriptorsStarted(p)'
<1> DEFINE new == ins'[p]["descriptor"]
           old == ins[p]["descriptor"]
<1>1. ASSUME NEW i \in 1 .. Len(new)
      PROVE  Started(readOps'[p][new[i].op])
  <2>1. Len(old) \in Nat
    BY OrderLengths, ZenonT(30) DEF Streams
  <2>2. CASE i \in 1 .. Len(old)
    <3>1. new[i] = old[i]
      BY <2>2, SMTT(30) DEF More
    <3>2. old[i].op \in 1 .. Len(readOps[p])
      BY <2>2, Zenon DEF ItemsOK, Belongs
    <3>3. Started(readOps[p][old[i].op])
      BY <2>2, ZenonT(30) DEF DescriptorsStarted
    <3> QED
      BY <3>1, <3>2, <3>3, Zenon
  <2>3. CASE ~(i \in 1 .. Len(old))
    <3>1. i \in Len(old) + 1 .. Len(new)
      BY <2>1, <2>3 DEF More
    <3>2. new[i] = [kind |-> kind, op |-> k]
      BY <3>1, ZenonT(30) DEF More
    <3> QED
      BY <3>2, SMTT(30)
  <2> QED
    BY <2>2, <2>3, ZenonT(30)
<1>2. ASSUME NEW m \in 1 .. Len(todo'[p]), todo'[p][m].what = "in", todo'[p][m].kind = "descriptor"
      PROVE  Started(readOps'[p][todo'[p][m].at])
  <2>1. PICK l \in 1 .. Len(todo[p]) : todo[p][l] = todo'[p][m]
    BY <1>2, ZenonT(30) DEF NoNewBody
  <2>2. todo[p][l].at \in 1 .. Len(readOps[p])
    <3>1. PieceOK(todo[p][l], l = Len(todo[p]), Len(readOps[p]), Len(writeOps[p]))
      BY Zenon DEF TodoOK
    <3> QED
      BY <1>2, <2>1, <3>1, DescriptorPiece, Zenon
  <2>3. Started(readOps[p][todo[p][l].at])
    BY <1>2, <2>1, Zenon DEF DescriptorsStarted
  <2> QED
    BY <2>1, <2>2, <2>3, ZenonT(30)
<1> QED
  BY <1>1, <1>2, ZenonT(30) DEF DescriptorsStarted

\* The step that begins to read a descriptor, or what one announces, posts reads of an operation
\* whose descriptor was begun.
LEMMA ReadPosts ==
  ASSUME OrderInv, TypeOK', NEW p \in Pipes, NEW k \in 1 .. Len(readOps[p]), NEW op,
         ReadTransition(p, k, op), NEW state \in UNINITIALIZED .. READ_FINISHED, op.state = state,
         op.doneReadingDescriptor = readOps[p][k].doneReadingDescriptor,
         op.doneGettingAllocation = readOps[p][k].doneGettingAllocation,
         \/ /\ readOps[p][k].state = UNINITIALIZED /\ state = READING_DESCRIPTOR
            /\ Before(readOps[p], k, READING_PAYLOADS_AND_RECEIVING_TENSORS)
         \/ /\ readOps[p][k].state = ASKING_FOR_ALLOCATION_FIRST_IN_LINE
            /\ state = READING_PAYLOADS_AND_RECEIVING_TENSORS
            /\ readOps[p][k].doneGettingAllocation,
         NEW kind, NEW n \in Nat, More(ins'[p]["descriptor"], ins[p]["descriptor"], kind, k, n),
         UNCHANGED <<nextMessageGettingAllocation, readDescriptorCalled, readCalled>>,
         ItemsOK(p)', Elsewhere(p)
  PROVE  OrderInv'
<1>1. TypeOK /\ TodoOK(p) /\ ItemsOK(p) /\ DescriptorsStarted(p)
  BY Zenon DEF OrderInv
<1>2. ReadsOK(readOps[p], nextMessageGettingAllocation[p], error[p], readDescriptorCalled[p],
              readCalled[p])
  BY Zenon DEF OrderInv, ReadInv
<1>3. /\ TodoOK(p)' /\ NoNewBody(p) /\ WriteInv(p)' /\ KeepsLengths(p)
      /\ Changed(readOps'[p], readOps[p], k) /\ readOps'[p][k] = op
      /\ error'[p] = error[p]
  BY AfterReadTransition, ZenonT(30)
<1>4. Goes(readOps'[p], readOps[p], k, state)
  BY <1>3, Zenon DEF Goes
<1>5. /\ TypedReads(readOps[p]) /\ TypedReads(readOps'[p]) /\ error[p] \in BOOLEAN
      /\ TypedCalls(readDescriptorCalled[p]) /\ TypedCalls(readCalled[p])
  BY <1>1, OrderTypes, ZenonT(30)
<1>6. ReadInv(p)'
  <2>1. ReadsOK(readOps'[p], nextMessageGettingAllocation[p], error[p], readDescriptorCalled[p],
                readCalled[p])
    BY <1>2, <1>4, <1>5, BegunRead, Zenon
  <2> QED
    BY <1>3, <2>1, Zenon DEF ReadInv
<1>7. DescriptorsStarted(p)'
  <2>1. \A j \in 1 .. Len(readOps[p]) : Started(readOps[p][j]) => Started(readOps'[p][j])
    <3>1. readOps[p][k].state # READING_DESCRIPTOR \/ readOps[p][k].doneReadingDescriptor
      BY SMTT(30)
    <3> QED
      BY <1>4, <3>1, StaysStarted, ZenonT(30)
  <2>2. Started(readOps'[p][k])
    <3>1. CASE state = READING_DESCRIPTOR
      BY <1>4, <3>1, SMTT(30) DEF Goes, Started
    <3>2. CASE readOps[p][k].state = ASKING_FOR_ALLOCATION_FIRST_IN_LINE
      <4>1. readOps[p][k].doneReadingDescriptor
        BY <1>2, <3>2 DEF ReadsOK, ReadFlags
      <4> QED
        BY <1>4, <4>1, SMTT(30) DEF Goes, Started
    <3> QED
      BY <3>1, <3>2, SMTT(30)
  <2> QED
    BY <1>1, <1>3, <2>1, <2>2, DescriptorsPosted, ZenonT(30)
<1> QED
  BY <1>3, <1>6, <1>7, OtherPipe, Zenon

\* A transition of a read leaves the lengths of the lists of operations.
LEMMA ReadTransitionKeeps ==
  ASSUME NEW p \in Pipes, NEW k \in 1 .. Len(readOps[p]), NEW op, ReadTransition(p, k, op)
  PROVE  Len(readOps'[p]) = Len(readOps[p]) /\ KeepsOperations(p)
<1>1. Len(readOps'[p]) = Len(readOps[p]) /\ writeOps' = writeOps
  BY ZenonT(30) DEF ReadTransition, UpdatedAt
<1> QED
  BY <1>1, Zenon DEF KeepsOperations

\* ReadDescriptorOfMessage begins the reads of descriptors in order.
LEMMA ReadDescriptorOfMessageOrder ==
  ASSUME OrderInv, NEW p \in Pipes, NEW k \in 1 .. Len(readOps[p]), ReadDescriptorOfMessageEffect(p, k)
  PROVE  OrderInv'
<1> DEFINE op == [readOps[p][k] EXCEPT !.state = READING_DESCRIPTOR]
<1>1. TypeOK' /\ CanReadDescriptor(p, k) /\ ReadTransition(p, k, op)
  BY Zenon DEF ReadDescriptorOfMessageEffect
<1>2. /\ op.state = READING_DESCRIPTOR
      /\ op.doneReadingDescriptor = readOps[p][k].doneReadingDescriptor
      /\ op.doneGettingAllocation = readOps[p][k].doneGettingAllocation
  BY <1>1, ZenonT(30) DEF ReadTransition, ReadOperation
<1> HIDE DEF op
<1>3. /\ OnlyAt(ins', ins, p)
      /\ More(ins'[p]["descriptor"], ins[p]["descriptor"], "descriptor", k, 1)
  BY Zenon DEF ReadDescriptorOfMessageEffect
<1>4. UNCHANGED <<nextMessageGettingAllocation, outs, readDescriptorCalled, readCalled>>
  BY Zenon DEF ReadDescriptorOfMessageEffect
<1>5. ItemsOK(p)'
  <2>1. ItemsOK(p)
    BY Zenon DEF OrderInv
  <2>2. Len(readOps'[p]) = Len(readOps[p]) /\ KeepsOperations(p)
    BY <1>1, ReadTransitionKeeps, ZenonT(30)
  <2>3. Belongs(ins'[p]["descriptor"], {"descriptor", "payload"}, readOps'[p])
    <3>1. /\ "descriptor" \in {"descriptor", "payload"}
          /\ Belongs(ins[p]["descriptor"], {"descriptor", "payload"}, readOps[p])
      BY <2>1, ZenonT(30) DEF ItemsOK
    <3>2. Len(ins[p]["descriptor"]) \in Nat /\ 1 \in Nat
      OBVIOUS
    <3> QED
      BY <1>3, <2>2, <3>1, <3>2, MoreItems, SMTT(30)
  <2>4. /\ ins'[p]["channel"] = ins[p]["channel"]
        /\ ins'[p]["reply"] = ins[p]["reply"]
        /\ outs'[p]["descriptor"] = outs[p]["descriptor"]
        /\ outs'[p]["channel"] = outs[p]["channel"]
        /\ outs'[p]["reply"] = outs[p]["reply"]
    BY Zenon DEF ReadDescriptorOfMessageEffect
  <2> QED
    BY <2>1, <2>2, <2>3, <2>4, UntouchedStreams, ZenonT(30) DEF ItemsOK
<1>6. Elsewhere(p)
  BY <1>1, <1>3, <1>4, ZenonT(30) DEF Elsewhere, ReadTransition, UpdatedAt, OnlyAt
<1>7. Before(readOps[p], k, READING_PAYLOADS_AND_RECEIVING_TENSORS)
  BY <1>1, PreviousReads, ZenonT(30) DEF CanReadDescriptor
<1>8. READING_DESCRIPTOR \in UNINITIALIZED .. READ_FINISHED /\ readOps[p][k].state = UNINITIALIZED /\ 1 \in Nat
  BY <1>1 DEF CanReadDescriptor
<1> QED
  BY <1>1, <1>2, <1>3, <1>4, <1>5, <1>6, <1>7, <1>8, ReadPosts, ZenonT(30)

\* ReadPayloads posts reads of a message whose descriptor was read.
LEMMA ReadPayloadsOrder ==
  ASSUME OrderInv, NEW p \in Pipes, NEW k \in 1 .. Len(readOps[p]), ReadPayloadsEffect(p, k)
  PROVE  OrderInv'
<1> DEFINE d == readOps[p][k].descriptor
           n == IF d.missing THEN 1 ELSE 0
           op == [readOps[p][k] EXCEPT !.state = READING_PAYLOADS_AND_RECEIVING_TENSORS,
                                       !.payloads = @ + d.payloads, !.tensors = @ + d.tensors]
<1>1. TypeOK' /\ CanReadPayloads(p, k) /\ ReadTransition(p, k, op) /\ d \in Shape
  BY Zenon DEF ReadPayloadsEffect
<1>2. /\ op.state = READING_PAYLOADS_AND_RECEIVING_TENSORS
      /\ op.doneReadingDescriptor = readOps[p][k].doneReadingDescriptor
      /\ op.doneGettingAllocation = readOps[p][k].doneGettingAllocation
  BY <1>1, ZenonT(30) DEF ReadTransition, ReadOperation
<1>3. d.payloads \in Nat /\ d.tensors \in Nat /\ n \in Nat
  BY <1>1, Zenon DEF Shape
<1>4. /\ More(ins'[p]["descriptor"], ins[p]["descriptor"], "payload", k, d.payloads)
      /\ More(ins'[p]["channel"], ins[p]["channel"], "tensor", k, d.tensors)
      /\ More(outs'[p]["reply"], outs[p]["reply"], "reply", k, n)
  BY Zenon DEF ReadPayloadsEffect
<1>5. /\ OnlyAt(ins', ins, p) /\ OnlyAt(outs', outs, p)
      /\ UNCHANGED <<nextMessageGettingAllocation, readDescriptorCalled, readCalled>>
  BY Zenon DEF ReadPayloadsEffect
<1> HIDE DEF op, n, d
<1>6. ItemsOK(p)'
  <2>1. ItemsOK(p)
    BY Zenon DEF OrderInv
  <2>2. Len(readOps'[p]) = Len(readOps[p]) /\ KeepsOperations(p)
    BY <1>1, ReadTransitionKeeps, Zenon
  <2>3. /\ Len(ins[p]["descriptor"]) \in Nat /\ Len(ins[p]["channel"]) \in Nat
        /\ Len(outs[p]["reply"]) \in Nat
    BY SMTT(30)
  <2>4. Belongs(ins'[p]["descriptor"], {"descriptor", "payload"}, readOps'[p])
    <3>1. /\ "payload" \in {"descriptor", "payload"}
          /\ Belongs(ins[p]["descriptor"], {"descriptor", "payload"}, readOps[p])
      BY <2>1, SMTT(30) DEF ItemsOK
    <3> QED
      BY <1>3, <1>4, <2>2, <2>3, <3>1, MoreItems, SMTT(30)
  <2>5. Belongs(ins'[p]["channel"], {"tensor"}, readOps'[p])
    <3>1. "tensor" \in {"tensor"} /\ Belongs(ins[p]["channel"], {"tensor"}, readOps[p])
      BY <2>1, ZenonT(30) DEF ItemsOK
    <3> QED
      BY <1>3, <1>4, <2>2, <2>3, <3>1, MoreItems, SMTT(30)
  <2>6. Belongs(outs'[p]["reply"], {"reply"}, readOps'[p])
    <3>1. "reply" \in {"reply"} /\ Belongs(outs[p]["reply"], {"reply"}, readOps[p])
      BY <2>1, Zenon DEF ItemsOK
    <3> QED
      BY <1>3, <1>4, <2>2, <2>3, <3>1, MoreItems, SMTT(30)
  <2>7. /\ ins'[p]["reply"] = ins[p]["reply"]
        /\ outs'[p]["descriptor"] = outs[p]["descriptor"]
        /\ outs'[p]["channel"] = outs[p]["channel"]
    BY Zenon DEF ReadPayloadsEffect
  <2> QED
    BY <2>1, <2>2, <2>4, <2>5, <2>6, <2>7, UntouchedStreams, ZenonT(30) DEF ItemsOK
<1>7. Elsewhere(p)
  BY <1>1, <1>5, ZenonT(30) DEF Elsewhere, ReadTransition, UpdatedAt, OnlyAt
<1>8. /\ READING_PAYLOADS_AND_RECEIVING_TENSORS \in UNINITIALIZED .. READ_FINISHED
      /\ readOps[p][k].state = ASKING_FOR_ALLOCATION_FIRST_IN_LINE /\ readOps[p][k].doneGettingAllocation
  BY <1>1, SMTT(30) DEF CanReadPayloads
<1> QED
  BY <1>1, <1>2, <1>3, <1>4, <1>5, <1>6, <1>7, <1>8, ReadPosts, ZenonT(30)

-----------------------------------------------------------------------------
(* The transitions of write operations.                                    *)

\* What a transition of a write leaves alone.
LEMMA AfterWriteTransition ==
  ASSUME OrderInv, TypeOK', NEW p \in Pipes, NEW k \in 1 .. Len(writeOps[p]), NEW op,
         WriteTransition(p, k, op), ins'[p]["descriptor"] = ins[p]["descriptor"]
  PROVE  /\ TodoOK(p)' /\ NoNewBody(p) /\ ReadInv(p)' /\ KeepsLengths(p)
         /\ DescriptorsStarted(p)'
         /\ Changed(writeOps'[p], writeOps[p], k) /\ writeOps'[p][k] = op
         /\ error'[p] = error[p]
         /\ TypedWrites(writeOps[p]) /\ TypedWrites(writeOps'[p]) /\ error[p] \in BOOLEAN
         /\ TypedCalls(writeCalled[p])
<1>1. /\ TypeOK /\ TodoOK(p) /\ ItemsOK(p) /\ DescriptorsStarted(p)
      /\ ReadInv(p) /\ WriteInv(p)
  BY ZenonT(30) DEF OrderInv
<1>2. /\ Changed(writeOps'[p], writeOps[p], k) /\ writeOps'[p][k] = op
      /\ Len(writeOps'[p]) = Len(writeOps[p])
      /\ readOps' = readOps /\ error' = error
      /\ UNCHANGED <<nextMessageGettingAllocation, readDescriptorCalled, readCalled>>
  BY ZenonT(30) DEF WriteTransition, UpdatedAt, Changed
<1>3. KeepsLengths(p)
  BY <1>2, ZenonT(30) DEF KeepsLengths
<1>4. TodoOK(p)' /\ NoNewBody(p)
  BY <1>1, <1>3, TodoAfterTransition, ZenonT(30) DEF WriteTransition
<1>5. KeepsReads(p)
  BY <1>2, ZenonT(30) DEF KeepsReads
<1>6. ReadInv(p)'
  BY <1>1, <1>5, ReadsKept, SMTT(30)
<1>7. DescriptorsStarted(p)'
  BY <1>1, <1>2, <1>4, DescriptorsKept, ZenonT(30)
<1>8. /\ TypedWrites(writeOps[p]) /\ TypedWrites(writeOps'[p]) /\ error[p] \in BOOLEAN
      /\ TypedCalls(writeCalled[p])
  BY <1>1, OrderTypes, ZenonT(30)
<1> QED
  BY <1>2, <1>3, <1>4, <1>6, <1>7, <1>8, SMTT(30)

\* What the guard of a transition says of the previous writes.
LEMMA PreviousWrites ==
  ASSUME OrderInv, NEW p \in Pipes, NEW k \in 1 .. Len(writeOps[p]),
         NEW state \in UNINITIALIZED .. WRITE_FINISHED, PrevWrite(p, k) >= state
  PROVE  Before(writeOps[p], k, state)
<1>1. TypedWrites(writeOps[p]) /\ WritesOrdered(writeOps[p])
  BY OrderTypes, ZenonT(30) DEF OrderInv, WriteInv, WritesOK
<1>2. (IF k = 1 THEN WRITE_FINISHED ELSE writeOps[p][k - 1].state) >= state
  BY ZenonT(30) DEF PrevWrite
<1> QED
  BY <1>1, <1>2, WritesBefore, SMTT(30)

\* The step that calls the callback of a write, whose previous ones were all called, keeps the
\* callbacks of write in order.
LEMMA WriteAnswers ==
  ASSUME OrderInv, TypeOK', NEW p \in Pipes, NEW k \in 1 .. Len(writeOps[p]), NEW op,
         WriteTransition(p, k, op), op.state = WRITE_FINISHED,
         writeOps[p][k].state < WRITE_FINISHED, PrevWrite(p, k) >= WRITE_FINISHED,
         NEW ok \in BOOLEAN, ok <=> ~error[p],
         AppendedTo(writeCalled', writeCalled, p, [op |-> k, ok |-> ok], Call),
         UNCHANGED <<ins, outs>>
  PROVE  OrderInv'
<1>1. TypeOK /\ ItemsOK(p) /\ WritesOK(writeOps[p], error[p], writeCalled[p])
  BY Zenon DEF OrderInv, WriteInv
<1>2. /\ TodoOK(p)' /\ NoNewBody(p) /\ ReadInv(p)' /\ KeepsLengths(p) /\ DescriptorsStarted(p)'
      /\ Changed(writeOps'[p], writeOps[p], k) /\ writeOps'[p][k] = op
      /\ error'[p] = error[p]
      /\ TypedWrites(writeOps[p]) /\ TypedWrites(writeOps'[p]) /\ error[p] \in BOOLEAN
      /\ TypedCalls(writeCalled[p])
  <2>1. ins'[p]["descriptor"] = ins[p]["descriptor"]
    BY Zenon
  <2> QED
    BY <2>1, AfterWriteTransition, ZenonT(30)
<1>3. Before(writeOps[p], k, WRITE_FINISHED)
  <2>1. WRITE_FINISHED \in UNINITIALIZED .. WRITE_FINISHED
    OBVIOUS
  <2> QED
    BY <2>1, PreviousWrites, Zenon
<1>4. WriteInv(p)'
  <2>1. Len(writeCalled[p]) \in Nat /\ k \in Nat
    BY <1>2, SMTT(30) DEF TypedCalls
  <2>2. Len(writeCalled[p]) = k - 1
    BY <1>1, <1>2, <1>3, NextWritten, ZenonT(30) DEF WritesOK
  <2>3. Calls(writeCalled'[p], writeCalled[p], ok)
    BY <2>1, <2>2, NextCall, Zenon
  <2>4. writeOps[p][k].state # WRITE_FINISHED /\ writeOps'[p][k].state = WRITE_FINISHED
    BY <1>2
  <2>5. WritesOK(writeOps'[p], error[p], writeCalled'[p])
    BY <1>1, <1>2, <1>3, <2>3, <2>4, AnsweredWrite, ZenonT(30)
  <2> QED
    BY <1>2, <2>5, ZenonT(30) DEF WriteInv
<1>5. ItemsOK(p)'
  BY <1>1, <1>2, ItemsStay, ZenonT(30)
<1>6. Elsewhere(p)
  BY ZenonT(30) DEF Elsewhere, WriteTransition, UpdatedAt, AppendedTo
<1> QED
  BY <1>2, <1>4, <1>5, <1>6, OtherPipe, ZenonT(30)

\* FlushWrite keeps the callbacks of write in order.
LEMMA FlushWriteOrder ==
  ASSUME OrderInv, NEW p \in Pipes, NEW k \in 1 .. Len(writeOps[p]), FlushWriteEffect(p, k)
  PROVE  OrderInv'
<1> DEFINE op == [writeOps[p][k] EXCEPT !.state = WRITE_FINISHED]
<1> USE DEF FlushWriteEffect
<1>1. op.state = WRITE_FINISHED
  BY ZenonT(30) DEF WriteTransition, WriteOperation
<1>2. writeOps[p][k].state < WRITE_FINISHED /\ PrevWrite(p, k) >= WRITE_FINISHED
  BY DEF CanFlushWrite
<1>3. FALSE \in BOOLEAN /\ (FALSE <=> ~error[p])
  BY ZenonT(30) DEF CanFlushWrite
<1>4. TypeOK' /\ WriteTransition(p, k, op) /\ UNCHANGED <<ins, outs>>
      /\ AppendedTo(writeCalled', writeCalled, p, [op |-> k, ok |-> FALSE], Call)
  BY ZenonT(30)
<1> HIDE DEF op, FlushWriteEffect
<1> QED
  BY <1>1, <1>2, <1>3, <1>4, WriteAnswers, Zenon

\* AbortWrite keeps the callbacks of write in order.
LEMMA AbortWriteOrder ==
  ASSUME OrderInv, NEW p \in Pipes, NEW k \in 1 .. Len(writeOps[p]), AbortWriteEffect(p, k)
  PROVE  OrderInv'
<1> DEFINE op == [writeOps[p][k] EXCEPT !.state = WRITE_FINISHED]
<1> USE DEF AbortWriteEffect
<1>1. op.state = WRITE_FINISHED
  BY Zenon DEF WriteTransition, WriteOperation
<1>2. writeOps[p][k].state < WRITE_FINISHED /\ PrevWrite(p, k) >= WRITE_FINISHED
  BY DEF CanAbortWrite
<1>3. FALSE \in BOOLEAN /\ (FALSE <=> ~error[p])
  BY ZenonT(30) DEF CanAbortWrite
<1>4. TypeOK' /\ WriteTransition(p, k, op) /\ UNCHANGED <<ins, outs>>
      /\ AppendedTo(writeCalled', writeCalled, p, [op |-> k, ok |-> FALSE], Call)
  BY Zenon
<1> HIDE DEF op, AbortWriteEffect
<1> QED
  BY <1>1, <1>2, <1>3, <1>4, WriteAnswers, Zenon

\* FinishWrite keeps the callbacks of write in order.
LEMMA FinishWriteOrder ==
  ASSUME OrderInv, NEW p \in Pipes, NEW k \in 1 .. Len(writeOps[p]), FinishWriteEffect(p, k)
  PROVE  OrderInv'
<1> DEFINE op == [writeOps[p][k] EXCEPT !.state = WRITE_FINISHED]
<1> USE DEF FinishWriteEffect
<1>1. op.state = WRITE_FINISHED
  BY ZenonT(30) DEF WriteTransition, WriteOperation
<1>2. writeOps[p][k].state < WRITE_FINISHED /\ PrevWrite(p, k) >= WRITE_FINISHED
  BY DEF CanFinishWrite
<1>3. (~error[p]) \in BOOLEAN /\ ((~error[p]) <=> ~error[p])
  BY ZenonT(30)
<1>4. TypeOK' /\ WriteTransition(p, k, op) /\ UNCHANGED <<ins, outs>>
      /\ AppendedTo(writeCalled', writeCalled, p, [op |-> k, ok |-> ~error[p]], Call)
  BY Zenon
<1> HIDE DEF op, FinishWriteEffect
<1> QED
  BY <1>1, <1>2, <1>3, <1>4, WriteAnswers, ZenonT(30)

\* What is written of one message belongs to it.
LEMMA MoreOfMessage ==
  ASSUME NEW new, NEW old, NEW k, NEW n \in Nat, MoreMessage(new, old, k, n),
         NEW ops, k \in 1 .. Len(ops), Belongs(old, {"descriptor", "payload"}, ops),
         NEW after, Len(after) = Len(ops), Len(old) \in Nat
  PROVE  Belongs(new, {"descriptor", "payload"}, after)
<1>1. ASSUME NEW i \in 1 .. Len(new)
      PROVE  new[i].kind \in {"descriptor", "payload"} /\ new[i].op \in 1 .. Len(after)
  <2>1. CASE i \in 1 .. Len(old)
    BY <2>1, ZenonT(30) DEF Belongs, MoreMessage
  <2>2. CASE i = Len(old) + 1
    <3>1. new[i] = [kind |-> "descriptor", op |-> k]
      BY <2>2, ZenonT(30) DEF MoreMessage
    <3> QED
      BY <3>1
  <2>3. CASE ~(i \in 1 .. Len(old)) /\ i # Len(old) + 1
    <3>1. i \in Len(old) + 2 .. Len(new)
      BY <2>3 DEF MoreMessage
    <3>2. new[i] = [kind |-> "payload", op |-> k]
      BY <3>1, SMTT(30) DEF MoreMessage
    <3> QED
      BY <3>2
  <2> QED
    BY <2>1, <2>2, <2>3, SMTT(30)
<1> QED
  BY <1>1, SMTT(30) DEF Belongs

\* A step that takes a write, of which the previous ones are as far, to another state but the last
\* keeps the callbacks of write in order, when what it reads and writes belongs to the operations.
LEMMA WriteBegins ==
  ASSUME OrderInv, TypeOK', NEW p \in Pipes, NEW k \in 1 .. Len(writeOps[p]), NEW op,
         WriteTransition(p, k, op), op.state \in UNINITIALIZED .. WRITE_FINISHED,
         writeOps[p][k].state # WRITE_FINISHED, op.state # WRITE_FINISHED,
         op.state >= writeOps[p][k].state, PrevWrite(p, k) >= op.state,
         ins'[p]["descriptor"] = ins[p]["descriptor"], UNCHANGED writeCalled,
         ItemsOK(p)', Elsewhere(p)
  PROVE  OrderInv'
<1>1. WritesOK(writeOps[p], error[p], writeCalled[p])
  BY Zenon DEF OrderInv, WriteInv
<1>2. /\ TodoOK(p)' /\ NoNewBody(p) /\ ReadInv(p)' /\ KeepsLengths(p) /\ DescriptorsStarted(p)'
      /\ Changed(writeOps'[p], writeOps[p], k) /\ writeOps'[p][k] = op
      /\ error'[p] = error[p]
      /\ TypedWrites(writeOps[p]) /\ TypedWrites(writeOps'[p]) /\ error[p] \in BOOLEAN
      /\ TypedCalls(writeCalled[p])
  BY AfterWriteTransition, Zenon
<1>3. Before(writeOps[p], k, op.state)
  BY PreviousWrites, ZenonT(30)
<1>4. WriteInv(p)'
  <2>1. WritesOK(writeOps'[p], error[p], writeCalled[p])
    BY <1>1, <1>2, <1>3, AdvancedWrite, ZenonT(30)
  <2> QED
    BY <1>2, <2>1, ZenonT(30) DEF WriteInv
<1> QED
  BY <1>2, <1>4, OtherPipe, Zenon

\* A transition of a write leaves the lengths of the lists of operations.
LEMMA WriteTransitionKeeps ==
  ASSUME NEW p \in Pipes, NEW k \in 1 .. Len(writeOps[p]), NEW op, WriteTransition(p, k, op)
  PROVE  Len(writeOps'[p]) = Len(writeOps[p]) /\ KeepsOperations(p)
<1>1. Len(writeOps'[p]) = Len(writeOps[p]) /\ readOps' = readOps
  BY ZenonT(30) DEF WriteTransition, UpdatedAt
<1> QED
  BY <1>1, ZenonT(30) DEF KeepsOperations

\* SendMessage writes the messages in order.
LEMMA SendMessageOrder ==
  ASSUME OrderInv, NEW p \in Pipes, NEW k \in 1 .. Len(writeOps[p]), SendMessageEffect(p, k)
  PROVE  OrderInv'
<1> DEFINE m == writeOps[p][k].message
           op == [writeOps[p][k] EXCEPT !.state = WRITING_PAYLOADS_AND_SENDING_TENSORS, !.payloads = @ + m.payloads, !.tensors = @ + m.tensors]
<1>1. TypeOK /\ ItemsOK(p)
  BY Zenon DEF OrderInv
<1>2. TypeOK' /\ CanSendMessage(p, k) /\ WriteTransition(p, k, op) /\ m \in Shape
  BY Zenon DEF SendMessageEffect
<1>3. op.state = WRITING_PAYLOADS_AND_SENDING_TENSORS
  BY <1>2, ZenonT(30) DEF WriteTransition, WriteOperation
<1>4. /\ MoreMessage(outs'[p]["descriptor"], outs[p]["descriptor"], k, m.payloads)
      /\ More(outs'[p]["channel"], outs[p]["channel"], "tensor", k, m.tensors)
  BY Zenon DEF SendMessageEffect
<1>5. /\ OnlyAt(outs', outs, p) /\ UNCHANGED <<ins, writeCalled>>
      /\ ins'[p]["descriptor"] = ins[p]["descriptor"]
      /\ ins'[p]["channel"] = ins[p]["channel"]
      /\ ins'[p]["reply"] = ins[p]["reply"]
      /\ outs'[p]["reply"] = outs[p]["reply"]
  BY ZenonT(30) DEF SendMessageEffect
<1> HIDE DEF op
<1>6. /\ writeOps[p][k].state = UNINITIALIZED
      /\ PrevWrite(p, k) >= WRITING_PAYLOADS_AND_SENDING_TENSORS
  BY <1>2, ZenonT(30) DEF CanSendMessage
<1>7. ItemsOK(p)'
  <2>1. m.payloads \in Nat /\ m.tensors \in Nat /\ 1 \in Nat
    BY <1>2, ZenonT(30) DEF Shape
  <2>2. /\ Len(outs[p]["descriptor"]) \in Nat /\ Len(outs[p]["channel"]) \in Nat
        /\ Len(ins[p]["reply"]) \in Nat
    OBVIOUS
  <2> HIDE DEF m
  <2>3. Len(writeOps'[p]) = Len(writeOps[p]) /\ KeepsOperations(p)
    BY <1>2, WriteTransitionKeeps, Zenon
  <2>4. Belongs(outs'[p]["descriptor"], {"descriptor", "payload"}, writeOps'[p])
    <3>1. Belongs(outs[p]["descriptor"], {"descriptor", "payload"}, writeOps[p])
      BY <1>1, ZenonT(30) DEF ItemsOK
    <3> QED
      BY <1>4, <2>1, <2>2, <2>3, <3>1, MoreOfMessage, Zenon
  <2>5. Belongs(outs'[p]["channel"], {"tensor"}, writeOps'[p])
    <3>1. "tensor" \in {"tensor"} /\ Belongs(outs[p]["channel"], {"tensor"}, writeOps[p])
      BY <1>1, Zenon DEF ItemsOK
    <3> QED
      BY <1>4, <2>1, <2>2, <2>3, <3>1, MoreItems
  <2> QED
    BY <1>1, <1>5, <2>3, <2>4, <2>5, UntouchedStreams, ZenonT(30) DEF ItemsOK
<1>8. Elsewhere(p)
  BY <1>2, <1>5, SMTT(30) DEF Elsewhere, WriteTransition, UpdatedAt, OnlyAt
<1>9. /\ op.state \in UNINITIALIZED .. WRITE_FINISHED /\ op.state # WRITE_FINISHED
      /\ writeOps[p][k].state # WRITE_FINISHED /\ op.state >= writeOps[p][k].state
      /\ PrevWrite(p, k) >= op.state
  BY <1>3, <1>6
<1> QED
  BY <1>2, <1>5, <1>7, <1>8, <1>9, WriteBegins, ZenonT(30)

\* AskTargetDevices writes the messages in order.
LEMMA AskTargetDevicesOrder ==
  ASSUME OrderInv, NEW p \in Pipes, NEW k \in 1 .. Len(writeOps[p]), AskTargetDevicesEffect(p, k)
  PROVE  OrderInv'
<1> DEFINE m == writeOps[p][k].message
           op == [writeOps[p][k] EXCEPT !.state = WRITING_PAYLOADS_AND_READING_TARGET_DEVICES, !.payloads = @ + m.payloads]
<1>1. TypeOK /\ ItemsOK(p)
  BY Zenon DEF OrderInv
<1>2. TypeOK' /\ CanAskTargetDevices(p, k) /\ WriteTransition(p, k, op) /\ m \in Shape
  BY Zenon DEF AskTargetDevicesEffect
<1>3. op.state = WRITING_PAYLOADS_AND_READING_TARGET_DEVICES
  BY <1>2, ZenonT(30) DEF WriteTransition, WriteOperation
<1>4. /\ MoreMessage(outs'[p]["descriptor"], outs[p]["descriptor"], k, m.payloads)
      /\ More(ins'[p]["reply"], ins[p]["reply"], "reply", k, 1)
  BY Zenon DEF AskTargetDevicesEffect
<1>5. /\ OnlyAt(outs', outs, p) /\ OnlyAt(ins', ins, p) /\ UNCHANGED writeCalled
      /\ ins'[p]["descriptor"] = ins[p]["descriptor"]
      /\ ins'[p]["channel"] = ins[p]["channel"]
      /\ outs'[p]["channel"] = outs[p]["channel"]
      /\ outs'[p]["reply"] = outs[p]["reply"]
  BY Zenon DEF AskTargetDevicesEffect
<1> HIDE DEF op
<1>6. /\ writeOps[p][k].state = UNINITIALIZED
      /\ PrevWrite(p, k) >= WRITING_PAYLOADS_AND_READING_TARGET_DEVICES
  BY <1>2, ZenonT(30) DEF CanAskTargetDevices
<1>7. ItemsOK(p)'
  <2>1. m.payloads \in Nat /\ m.tensors \in Nat /\ 1 \in Nat
    BY <1>2, Zenon DEF Shape
  <2>2. /\ Len(outs[p]["descriptor"]) \in Nat /\ Len(outs[p]["channel"]) \in Nat
        /\ Len(ins[p]["reply"]) \in Nat
    OBVIOUS
  <2> HIDE DEF m
  <2>3. Len(writeOps'[p]) = Len(writeOps[p]) /\ KeepsOperations(p)
    BY <1>2, WriteTransitionKeeps, Zenon
  <2>4. Belongs(outs'[p]["descriptor"], {"descriptor", "payload"}, writeOps'[p])
    <3>1. Belongs(outs[p]["descriptor"], {"descriptor", "payload"}, writeOps[p])
      BY <1>1, Zenon DEF ItemsOK
    <3> QED
      BY <1>4, <2>1, <2>2, <2>3, <3>1, MoreOfMessage, ZenonT(30)
  <2>5. Belongs(ins'[p]["reply"], {"reply"}, writeOps'[p])
    <3>1. "reply" \in {"reply"} /\ Belongs(ins[p]["reply"], {"reply"}, writeOps[p])
      BY <1>1, Zenon DEF ItemsOK
    <3> QED
      BY <1>4, <2>1, <2>2, <2>3, <3>1, MoreItems
  <2> QED
    BY <1>1, <1>5, <2>3, <2>4, <2>5, UntouchedStreams, ZenonT(30) DEF ItemsOK
<1>8. Elsewhere(p)
  BY <1>2, <1>5, ZenonT(30) DEF Elsewhere, WriteTransition, UpdatedAt, OnlyAt
<1>9. /\ op.state \in UNINITIALIZED .. WRITE_FINISHED /\ op.state # WRITE_FINISHED
      /\ writeOps[p][k].state # WRITE_FINISHED /\ op.state >= writeOps[p][k].state
      /\ PrevWrite(p, k) >= op.state
  BY <1>3, <1>6
<1> QED
  BY <1>2, <1>5, <1>7, <1>8, <1>9, WriteBegins, ZenonT(30)

\* SendTensors sends the tensors of the messages in order.
LEMMA SendTensorsOrder ==
  ASSUME OrderInv, NEW p \in Pipes, NEW k \in 1 .. Len(writeOps[p]), SendTensorsEffect(p, k)
  PROVE  OrderInv'
<1> DEFINE m == writeOps[p][k].message
           op == [writeOps[p][k] EXCEPT !.state = WRITING_PAYLOADS_AND_SENDING_TENSORS, !.tensors = @ + m.tensors]
<1>1. TypeOK /\ ItemsOK(p)
  BY Zenon DEF OrderInv
<1>2. TypeOK' /\ CanSendTensors(p, k) /\ WriteTransition(p, k, op) /\ m \in Shape
  BY Zenon DEF SendTensorsEffect
<1>3. op.state = WRITING_PAYLOADS_AND_SENDING_TENSORS
  BY <1>2, ZenonT(30) DEF WriteTransition, WriteOperation
<1>4. More(outs'[p]["channel"], outs[p]["channel"], "tensor", k, m.tensors)
  BY Zenon DEF SendTensorsEffect
<1>5. /\ OnlyAt(outs', outs, p) /\ UNCHANGED <<ins, writeCalled>>
      /\ ins'[p]["descriptor"] = ins[p]["descriptor"]
      /\ ins'[p]["channel"] = ins[p]["channel"]
      /\ ins'[p]["reply"] = ins[p]["reply"]
      /\ outs'[p]["descriptor"] = outs[p]["descriptor"]
      /\ outs'[p]["reply"] = outs[p]["reply"]
  BY Zenon DEF SendTensorsEffect
<1> HIDE DEF op
<1>6. /\ writeOps[p][k].state = WRITING_PAYLOADS_AND_READING_TARGET_DEVICES
      /\ PrevWrite(p, k) >= WRITING_PAYLOADS_AND_SENDING_TENSORS
  BY <1>2, ZenonT(30) DEF CanSendTensors
<1>7. ItemsOK(p)'
  <2>1. m.payloads \in Nat /\ m.tensors \in Nat /\ 1 \in Nat
    BY <1>2, Zenon DEF Shape
  <2>2. /\ Len(outs[p]["descriptor"]) \in Nat /\ Len(outs[p]["channel"]) \in Nat
        /\ Len(ins[p]["reply"]) \in Nat
    OBVIOUS
  <2> HIDE DEF m
  <2>3. Len(writeOps'[p]) = Len(writeOps[p]) /\ KeepsOperations(p)
    BY <1>2, WriteTransitionKeeps, Zenon
  <2>4. Belongs(outs'[p]["channel"], {"tensor"}, writeOps'[p])
    <3>1. "tensor" \in {"tensor"} /\ Belongs(outs[p]["channel"], {"tensor"}, writeOps[p])
      BY <1>1, Zenon DEF ItemsOK
    <3> QED
      BY <1>4, <2>1, <2>2, <2>3, <3>1, MoreItems, SMTT(30)
  <2> QED
    BY <1>1, <1>5, <2>3, <2>4, UntouchedStreams, ZenonT(30) DEF ItemsOK
<1>8. Elsewhere(p)
  BY <1>2, <1>5, ZenonT(30) DEF Elsewhere, WriteTransition, UpdatedAt, OnlyAt
<1>9. /\ op.state \in UNINITIALIZED .. WRITE_FINISHED /\ op.state # WRITE_FINISHED
      /\ writeOps[p][k].state # WRITE_FINISHED /\ op.state >= writeOps[p][k].state
      /\ PrevWrite(p, k) >= op.state
  BY <1>3, <1>6
<1> QED
  BY <1>2, <1>5, <1>7, <1>8, <1>9, WriteBegins, ZenonT(30)

=============================================================================
