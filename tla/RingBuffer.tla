----------------------------- MODULE RingBuffer -----------------------------
(***************************************************************************)
(* The ring buffer of common/ringbuffer.h and common/ringbuffer_role.h: a  *)
(* data pool and, for each role, a marker and a flag in shared memory, used *)
(* by instances of the roles that may live in several threads or processes. *)
(*                                                                         *)
(* Role 0 is the one that frees memory and the last role the one that       *)
(* fills it: two roles for the consumer and the producer of shm and of its  *)
(* reactor, three for the outbox of ibv (acker, writer, producer). Each      *)
(* access to the header is one step, and so is each byte of a memcpy. A      *)
(* process may die inside a transaction.                                    *)
(***************************************************************************)
EXTENDS Integers

CONSTANTS
  NumRoles,    \* roles are 0 .. NumRoles - 1
  Size,        \* kDataPoolByteSize
  Instances,   \* RingBufferRole objects
  RoleOf,      \* the role of each instance
  Requests,    \* sizes that callers ask for
  MaxMarker,   \* bound on the bytes that go through the buffer
  Nobody       \* no instance

ASSUME RingAssumption ==
  /\ NumRoles \in Nat /\ NumRoles >= 2
  /\ Size \in Nat /\ Size >= 2
  /\ RoleOf \in [Instances -> 0 .. NumRoles - 1]
  /\ Requests \subseteq Nat
  /\ MaxMarker \in Nat
  /\ Nobody \notin Instances

Roles == 0 .. NumRoles - 1

Filler == NumRoles - 1

Slots == 0 .. Size - 1

VARIABLES
  markers,   \* markers_ of the header
  inTx,      \* the roles whose inTx_ flag is set in the header
  pc,        \* where each instance is: "out" of a transaction, "in" one, in a
             \* "copy", about to "end" one, or "dead"
  txSize,    \* txSize_ of each instance
  access,    \* length of the last access of each instance
  copied,    \* how many bytes of it have been copied
  data,      \* the data pool: who wrote each byte, and for which position
  author     \* history: who committed the byte at each position

vars == <<markers, inTx, pc, txSize, access, copied, data, author>>

TypeOK ==
  /\ markers \in [Roles -> Nat]
  /\ inTx \subseteq Roles
  /\ pc \in [Instances -> {"out", "in", "copy", "end", "dead"}]
  /\ txSize \in [Instances -> Nat]
  /\ access \in [Instances -> Nat]
  /\ copied \in [Instances -> Nat]
  /\ data \in [Slots -> [by : Instances \cup {Nobody}, pos : Nat]]
  /\ author \in [0 .. MaxMarker - 1 -> Instances \cup {Nobody}]

Init ==
  /\ markers = [r \in Roles |-> 0]
  /\ inTx = {}
  /\ pc = [i \in Instances |-> "out"]
  /\ txSize = [i \in Instances |-> 0]
  /\ access = [i \in Instances |-> 0]
  /\ copied = [i \in Instances |-> 0]
  /\ data = [s \in Slots |-> [by |-> Nobody, pos |-> 0]]
  /\ author = [q \in 0 .. MaxMarker - 1 |-> Nobody]

-----------------------------------------------------------------------------
(* Where an instance stands. *)

\* The marker an instance reads as its tail.
TailOf(i) == markers[RoleOf[i]]

\* Faulty variant: the size of the pool is added for every role.
LimitForAll(r) == markers[(r + 1) % NumRoles] + Size

\* How far the instances of a role may go: what accessContiguousInTx calls head.
Limit(r) ==
  IF r + 1 = NumRoles THEN markers[0] + Size ELSE markers[r + 1]

Avail(i) == Limit(RoleOf[i]) - TailOf(i) - txSize[i]

\* Position of the next byte to be copied.
CopyPos(i) == TailOf(i) + txSize[i] - access[i] + copied[i]

\* Faulty variant: the second buffer does not start at the front of the pool.
SlotOfNotRebased(start, size, k) ==
  LET end  == (start + size) % Size
      wrap == start >= end /\ end > 0
  IN  IF wrap /\ k >= Size - start THEN k ELSE start + k

\* The slot of the k-th byte, from 0 on, of the one or two buffers that
\* accessContiguousInTx returns.
SlotOf(start, size, k) ==
  LET end  == (start + size) % Size
      wrap == start >= end /\ end > 0
  IN  IF wrap /\ k >= Size - start THEN k - (Size - start) ELSE start + k

CopySlot(i) ==
  SlotOf((TailOf(i) + txSize[i] - access[i]) % Size, access[i], copied[i])

-----------------------------------------------------------------------------
(* Transactions. *)

\* Faulty variant: the flag in the header is not tested.
StartTxUntested(i) ==
  /\ pc[i] = "out"
  /\ inTx' = inTx \cup {RoleOf[i]}
  /\ pc' = [pc EXCEPT ![i] = "in"]
  /\ UNCHANGED <<markers, txSize, access, copied, data, author>>

\* startTx: the flag is tested and set at once. If it was set (EAGAIN) nothing
\* changes.
StartTx(i) ==
  /\ pc[i] = "out"
  /\ RoleOf[i] \notin inTx
  /\ inTx' = inTx \cup {RoleOf[i]}
  /\ pc' = [pc EXCEPT ![i] = "in"]
  /\ UNCHANGED <<markers, txSize, access, copied, data, author>>

\* Faulty variant: what the transaction has already claimed is forgotten.
ClaimTwice(i, size, allowPartial) ==
  LET avail == Limit(RoleOf[i]) - TailOf(i)
      n     == IF avail < size THEN avail ELSE size
  IN  /\ allowPartial \/ avail >= size
      /\ n > 0
      /\ TailOf(i) + txSize[i] + n <= MaxMarker
      /\ txSize' = [txSize EXCEPT ![i] = @ + n]
      /\ access' = [access EXCEPT ![i] = n]

\* What accessContiguousInTx does to txSize_: nothing when it fails (ENODATA)
\* or finds nothing; it takes what there is if the caller allows less than size.
Claim(i, size, allowPartial) ==
  LET n == IF Avail(i) < size THEN Avail(i) ELSE size
  IN  /\ allowPartial \/ Avail(i) >= size
      /\ n > 0
      /\ TailOf(i) + txSize[i] + n <= MaxMarker
      /\ txSize' = [txSize EXCEPT ![i] = @ + n]
      /\ access' = [access EXCEPT ![i] = n]

\* readInTx, writeInTx and the accesses of nop objects: claim, then copy.
AccessInTx(i, size, allowPartial) ==
  /\ pc[i] = "in"
  /\ Claim(i, size, allowPartial)
  /\ copied' = [copied EXCEPT ![i] = 0]
  /\ pc' = [pc EXCEPT ![i] = "copy"]
  /\ UNCHANGED <<markers, inTx, data, author>>

\* incMarkerInTx: claim and do not look at the data. The last role does so only
\* in ibv, for bytes that the network card has put in place.
IncMarkerInTx(i, size) ==
  /\ pc[i] = "in"
  /\ RoleOf[i] # Filler
  /\ Claim(i, size, FALSE)
  /\ copied' = [copied EXCEPT ![i] = access'[i]]
  /\ UNCHANGED <<markers, inTx, pc, data, author>>

\* One byte of a memcpy, into the pool for the last role and out of it for the
\* others.
CopyByte(i) ==
  /\ pc[i] = "copy"
  /\ data' = IF RoleOf[i] = Filler
             THEN [data EXCEPT ![CopySlot(i)] = [by |-> i, pos |-> CopyPos(i)]]
             ELSE data
  /\ copied' = [copied EXCEPT ![i] = @ + 1]
  /\ pc' = [pc EXCEPT ![i] = IF copied[i] + 1 = access[i] THEN "in" ELSE "copy"]
  /\ UNCHANGED <<markers, inTx, txSize, access, author>>

\* Faulty variant: the size of the transaction is not reset.
CommitTxKeepsSize(i) ==
  /\ pc[i] = "in"
  /\ markers' = [markers EXCEPT ![RoleOf[i]] = @ + txSize[i]]
  /\ author' = IF RoleOf[i] = Filler
               THEN [q \in DOMAIN author |->
                       IF q \in TailOf(i) .. TailOf(i) + txSize[i] - 1
                       THEN i ELSE author[q]]
               ELSE author
  /\ pc' = [pc EXCEPT ![i] = "end"]
  /\ UNCHANGED <<inTx, txSize, access, copied, data>>

\* commitTx up to endTransaction.
CommitTx(i) ==
  /\ pc[i] = "in"
  /\ markers' = [markers EXCEPT ![RoleOf[i]] = @ + txSize[i]]
  /\ author' = IF RoleOf[i] = Filler
               THEN [q \in DOMAIN author |->
                       IF q \in TailOf(i) .. TailOf(i) + txSize[i] - 1
                       THEN i ELSE author[q]]
               ELSE author
  /\ txSize' = [txSize EXCEPT ![i] = 0]
  /\ access' = [access EXCEPT ![i] = 0]
  /\ copied' = [copied EXCEPT ![i] = 0]
  /\ pc' = [pc EXCEPT ![i] = "end"]
  /\ UNCHANGED <<inTx, data>>

\* cancelTx up to endTransaction.
CancelTx(i) ==
  /\ pc[i] = "in"
  /\ txSize' = [txSize EXCEPT ![i] = 0]
  /\ access' = [access EXCEPT ![i] = 0]
  /\ copied' = [copied EXCEPT ![i] = 0]
  /\ pc' = [pc EXCEPT ![i] = "end"]
  /\ UNCHANGED <<markers, inTx, data, author>>

\* endTransaction, the end of both.
EndTransaction(i) ==
  /\ pc[i] = "end"
  /\ inTx' = inTx \ {RoleOf[i]}
  /\ pc' = [pc EXCEPT ![i] = "out"]
  /\ UNCHANGED <<markers, txSize, access, copied, data, author>>

\* The process of the instance dies inside a transaction. The header and the
\* data pool are shared memory and stay as they are.
Crash(i) ==
  /\ pc[i] \in {"in", "copy", "end"}
  /\ pc' = [pc EXCEPT ![i] = "dead"]
  /\ UNCHANGED <<markers, inTx, txSize, access, copied, data, author>>

Step(i) ==
  \/ StartTx(i)
  \/ \E size \in Requests, allowPartial \in BOOLEAN : AccessInTx(i, size, allowPartial)
  \/ \E size \in Requests : IncMarkerInTx(i, size)
  \/ CopyByte(i)
  \/ CommitTx(i)
  \/ CancelTx(i)
  \/ EndTransaction(i)
  \/ Crash(i)

Next == \E i \in Instances : Step(i)

Spec == Init /\ [][Next]_vars

-----------------------------------------------------------------------------
(* Properties. *)

\* The slots an instance has claimed in its transaction.
Claimed(i) == {q % Size : q \in TailOf(i) .. TailOf(i) + txSize[i] - 1}

\* Memory that one instance has claimed in a transaction is claimed by no other
\* one, of its own role or of another: ringbuffer.h says of the markers that
\* reading them "is what gives a user of the ringbuffer the right to access the
\* buffer's contents", and nothing else protects the memcpys of readInTx and
\* writeInTx, even when a process died in one.
ClaimsDisjoint ==
  \A i, j \in Instances : i # j => Claimed(i) \cap Claimed(j) = {}

\* The bytes between the first and the last marker are those that were
\* committed, each in its slot, as its author wrote it; whatever other
\* transactions wrote and then cancelled, or left half done, and however
\* accesses were split at the end of the pool.
ContentsIntact ==
  \A q \in markers[0] .. markers[Filler] - 1 :
    data[q % Size] = [by |-> author[q], pos |-> q]

\* What a role other than the last copies out of the pool in readInTx is the
\* committed byte at the position it has got to.
CopiesCommittedBytes ==
  \A i \in Instances :
    pc[i] = "copy" /\ RoleOf[i] # Filler =>
      /\ CopyPos(i) < markers[Filler]
      /\ data[CopySlot(i)] = [by |-> author[CopyPos(i)], pos |-> CopyPos(i)]

(* The inductive invariant behind them. *)

\* The markers are in the order of their roles and at most Size apart.
MarkersOrdered ==
  /\ \A r, s \in Roles : r <= s => markers[r] <= markers[s]
  /\ markers[Filler] <= markers[0] + Size
  /\ markers[Filler] <= MaxMarker

\* A flag is set while an instance of its role is in a transaction, and only one is.
OneTransactionPerRole ==
  /\ \A i \in Instances : pc[i] # "out" => RoleOf[i] \in inTx
  /\ \A i, j \in Instances :
       i # j /\ RoleOf[i] = RoleOf[j] => pc[i] = "out" \/ pc[j] = "out"

\* A transaction stays within the limit of its role, also if that has moved.
Fits(i) ==
  /\ TailOf(i) + txSize[i] <= Limit(RoleOf[i])
  /\ TailOf(i) + txSize[i] <= MaxMarker
  /\ copied[i] <= access[i]
  /\ access[i] <= txSize[i]
  /\ pc[i] \in {"out", "end"} => txSize[i] = 0
  /\ pc[i] = "in" => copied[i] = access[i]
  /\ pc[i] = "copy" => copied[i] < access[i]

TransactionFits == \A i \in Instances : Fits(i)

\* The transaction of an instance of the last role has written the bytes up to
\* where its copy has got.
WrittenSoFar ==
  \A i \in Instances : RoleOf[i] = Filler =>
    \A q \in TailOf(i) .. CopyPos(i) - 1 : data[q % Size] = [by |-> i, pos |-> q]

\* What holds of the header, of the pool and of all transactions in every state
\* that startTx, the accesses, commitTx and cancelTx can reach: the inductive
\* invariant from which the properties above follow.
RingInv ==
  /\ TypeOK
  /\ MarkersOrdered
  /\ OneTransactionPerRole
  /\ TransactionFits
  /\ WrittenSoFar
  /\ ContentsIntact

Stream == INSTANCE BoundedStream WITH
  Stages <- Roles, Last <- Filler, Authors <- Instances, Capacity <- MaxMarker,
  position <- markers

\* Seen from outside, a committed transaction is one step and any other leaves
\* no trace: the ring buffer is a bounded stream of bytes, those of one
\* transaction next to each other.
BoundedStreamSpec == Stream!Spec
=============================================================================
