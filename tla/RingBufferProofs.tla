-------------------------- MODULE RingBufferProofs --------------------------
(* Theorems about RingBuffer, for any number of roles and instances, any size *)
(* of the pool and any sizes of the accesses.                                *)
EXTENDS RingBuffer, TLAPS

-----------------------------------------------------------------------------
(* Slots. *)

\* Division with remainder, in the form the proofs below use.
LEMMA DivisionWithRemainder ==
  ASSUME NEW S \in Nat, S > 0, NEW a \in Nat
  PROVE  /\ a % S \in 0 .. S - 1
         /\ a \div S \in Nat
         /\ a = S * (a \div S) + (a % S)
<1>1. a % S \in 0 .. S - 1
  BY SMTT(30)
<1>2. a \div S \in Nat
  BY SMTT(30)
<1>3. a = S * (a \div S) + (a % S)
  BY SMTT(30)
<1> QED
  BY <1>1, <1>2, <1>3

\* The remainder is the only one.
LEMMA RemainderUnique ==
  ASSUME NEW S \in Nat, S > 0, NEW q \in Nat, NEW c \in 0 .. S - 1
  PROVE  (S * q + c) % S = c
  BY SMTT(30)

\* Positions less than the size of the pool apart are in different slots: the
\* mask of accessContiguousInTx never maps two live bytes to one place.
LEMMA SlotsDiffer ==
  ASSUME NEW S \in Nat, S > 0, NEW a \in Nat, NEW b \in Nat, a < b, b < a + S
  PROVE  a % S # b % S
<1> DEFINE qa == a \div S
           qb == b \div S
<1>1. qa \in Nat /\ a % S \in 0 .. S - 1 /\ a = S * qa + (a % S)
  BY DivisionWithRemainder
<1>2. qb \in Nat /\ b % S \in 0 .. S - 1 /\ b = S * qb + (b % S)
  BY DivisionWithRemainder
<1> HIDE DEF qa, qb
<1>3. ASSUME a % S = b % S  PROVE FALSE
  <2>1. b - a = S * qb - S * qa
    BY <1>1, <1>2, <1>3
  <2>2. CASE qb <= qa
    <3>1. S * qb <= S * qa
      BY <2>2, <1>1, <1>2, SMTT(30)
    <3> QED
      BY <3>1, <2>1, <1>1, <1>2
  <2>3. CASE qb >= qa + 1
    <3>1. S * qb >= S * qa + S
      BY <2>3, <1>1, <1>2, SMTT(30)
    <3> QED
      BY <3>1, <2>1, <1>1, <1>2
  <2> QED
    BY <2>2, <2>3, <1>1, <1>2
<1> QED
  BY <1>3

\* The one or two buffers that accessContiguousInTx returns hold the slots of
\* consecutive positions.
LEMMA SlotOfIsRemainder ==
  ASSUME NEW x \in Nat, NEW size \in Nat, NEW k \in Nat, k < size, size <= Size
  PROVE  SlotOf(x % Size, size, k) = (x + k) % Size
<1> DEFINE s == x % Size
           q == x \div Size
<1>0. Size \in Nat /\ Size > 0
  BY RingAssumption
<1>1. q \in Nat /\ s \in 0 .. Size - 1 /\ x = Size * q + s
  BY <1>0, DivisionWithRemainder
<1> HIDE DEF s, q
<1>2. CASE s + k < Size
  <2>1. (Size * q + (s + k)) % Size = s + k
    BY <1>0, <1>1, <1>2, RemainderUnique
  <2>2. SlotOf(s, size, k) = s + k
    BY <1>0, <1>1, <1>2 DEF SlotOf
  <2>3. x + k = Size * q + (s + k)
    BY <1>0, <1>1
  <2> QED
    BY <2>1, <2>2, <2>3 DEF s
<1>3. CASE s + k >= Size
  <2>1. s + k - Size \in 0 .. Size - 1 /\ s + size - Size \in 1 .. Size - 1
    BY <1>0, <1>1, <1>3
  <2>2. (Size * (q + 1) + (s + k - Size)) % Size = s + k - Size
    <3> DEFINE q1 == q + 1
               c  == s + k - Size
    <3>1. q1 \in Nat /\ c \in 0 .. Size - 1
      BY <2>1, <1>1
    <3> HIDE DEF q1, c
    <3>2. (Size * q1 + c) % Size = c
      BY <3>1, <1>0, RemainderUnique
    <3> QED
      BY <3>2 DEF q1, c
  <2>3. x + k = Size * (q + 1) + (s + k - Size)
    <3>1. Size * (q + 1) = Size * q + Size
      BY <1>0, <1>1, SMTT(30)
    <3> QED
      BY <3>1, <1>0, <1>1
  <2>4. (Size * 1 + (s + size - Size)) % Size = s + size - Size
    BY <2>1, <1>0, <1>1, RemainderUnique
  <2>5. (s + size) % Size = s + size - Size
    BY <2>4, <1>0, <1>1
  <2>6. SlotOf(s, size, k) = s + k - Size
    BY <2>5, <2>1, <1>0, <1>1, <1>3 DEF SlotOf
  <2> QED
    BY <2>2, <2>3, <2>6 DEF s
<1> QED
  BY <1>2, <1>3, <1>0, <1>1

\* Two positions within the pool have the same slot only if they are the same.
LEMMA SlotsDifferWithin ==
  ASSUME NEW m \in Nat, NEW a \in Nat, NEW b \in Nat,
         m <= a, a < m + Size, m <= b, b < m + Size, a # b
  PROVE  a % Size # b % Size
<1>0. Size \in Nat /\ Size > 0
  BY RingAssumption
<1>1. CASE a < b
  <2>1. b < a + Size
    BY <1>0
  <2> QED
    BY <1>0, <1>1, <2>1, SlotsDiffer
<1>2. CASE b < a
  <2>0. a < b + Size
    BY <1>0
  <2>1. b % Size # a % Size
    BY <1>0, <1>2, <2>0, SlotsDiffer
  <2> QED
    BY <2>1
<1> QED
  BY <1>1, <1>2

\* Slots are slots.
LEMMA SlotInPool ==
  ASSUME NEW a \in Nat
  PROVE  a % Size \in Slots
<1>0. Size \in Nat /\ Size > 0
  BY RingAssumption
<1> QED
  BY <1>0, DivisionWithRemainder DEF Slots

-----------------------------------------------------------------------------
(* The invariant. *)

\* Roles of the instances, as the proofs use them.
LEMMA RoleFacts ==
  /\ Filler \in Roles
  /\ 0 \in Roles
  /\ \A i \in Instances : RoleOf[i] \in Roles
  /\ \A r \in Roles : r # Filler => r + 1 \in Roles
  /\ \A r \in Roles : r \in Nat /\ 0 <= r /\ r <= Filler
  /\ \A r \in Roles : r + 1 = NumRoles <=> r = Filler
  BY RingAssumption DEF Roles, Filler

\* Types of what one transaction consists of.
LEMMA TxTypes ==
  ASSUME TypeOK, NEW i \in Instances
  PROVE  /\ RoleOf[i] \in Roles
         /\ TailOf(i) \in Nat /\ txSize[i] \in Nat /\ access[i] \in Nat /\ copied[i] \in Nat
         /\ Limit(RoleOf[i]) \in Nat
<1>1. RoleOf[i] \in Roles
  BY RoleFacts
<1>2. TailOf(i) \in Nat /\ txSize[i] \in Nat /\ access[i] \in Nat /\ copied[i] \in Nat
  BY <1>1 DEF TypeOK, TailOf
<1>3. markers[0] \in Nat /\ (RoleOf[i] # Filler => markers[RoleOf[i] + 1] \in Nat)
  BY <1>1, RoleFacts DEF TypeOK
<1>4. Limit(RoleOf[i]) \in Nat
  BY <1>1, <1>3, RoleFacts, RingAssumption DEF Limit
<1> QED
  BY <1>1, <1>2, <1>4

\* A transaction lies between the first marker and one pool further on.
LEMMA TxWithinPool ==
  ASSUME TypeOK, MarkersOrdered, NEW i \in Instances, Fits(i)
  PROVE  /\ markers[0] \in Nat /\ markers[0] <= TailOf(i)
         /\ Limit(RoleOf[i]) <= markers[0] + Size
         /\ txSize[i] <= Size
<1> DEFINE r == RoleOf[i]
<1>1. /\ r \in Roles /\ TailOf(i) \in Nat /\ txSize[i] \in Nat /\ Limit(r) \in Nat
  BY TxTypes
<1>2. markers[0] \in Nat /\ markers[0] <= TailOf(i)
  BY <1>1, RoleFacts DEF TypeOK, MarkersOrdered, TailOf
<1>3. Limit(r) <= markers[0] + Size
  <2>1. CASE r = Filler
    BY <2>1, <1>1, <1>2, RoleFacts, RingAssumption DEF Limit
  <2>2. CASE r # Filler
    <3>1. Limit(r) = markers[r + 1] /\ r + 1 \in Roles
      BY <2>2, <1>1, RoleFacts DEF Limit
    <3>2. markers[r + 1] <= markers[Filler] /\ markers[Filler] <= markers[0] + Size
      BY <3>1, RoleFacts DEF MarkersOrdered
    <3>3. markers[r + 1] \in Nat /\ markers[Filler] \in Nat
      BY <3>1, RoleFacts DEF TypeOK
    <3> QED
      BY <3>1, <3>2, <3>3, <1>2, RingAssumption
  <2> QED
    BY <2>1, <2>2
<1>4. TailOf(i) + txSize[i] <= Limit(r)
  BY DEF Fits
<1> QED
  BY <1>1, <1>2, <1>3, <1>4, RingAssumption

\* The copy of an instance goes to the slot of its position.
LEMMA CopySlotIsSlot ==
  ASSUME TypeOK, MarkersOrdered, TransactionFits,
         NEW i \in Instances, pc[i] = "copy"
  PROVE  /\ CopyPos(i) \in Nat
         /\ TailOf(i) <= CopyPos(i)
         /\ CopyPos(i) < TailOf(i) + txSize[i]
         /\ txSize[i] <= Size
         /\ CopySlot(i) = CopyPos(i) % Size
<1> DEFINE x == TailOf(i) + txSize[i] - access[i]
<1>1. TailOf(i) \in Nat /\ txSize[i] \in Nat /\ access[i] \in Nat /\ copied[i] \in Nat
  BY TxTypes
<1>2. copied[i] < access[i] /\ access[i] <= txSize[i]
  BY DEF TransactionFits, Fits
<1>3. txSize[i] <= Size
  BY TxWithinPool DEF TransactionFits
<1>4. x \in Nat /\ x + copied[i] = CopyPos(i) /\ TailOf(i) <= x
  BY <1>1, <1>2 DEF CopyPos
<1>5. SlotOf(x % Size, access[i], copied[i]) = (x + copied[i]) % Size
  <2>1. access[i] <= Size
    BY <1>1, <1>2, <1>3, RingAssumption
  <2> HIDE DEF x
  <2> QED
    BY <2>1, <1>1, <1>2, <1>4, SlotOfIsRemainder
<1>6. CopySlot(i) = CopyPos(i) % Size
  BY <1>4, <1>5 DEF CopySlot
<1> QED
  BY <1>1, <1>2, <1>3, <1>4, <1>6 DEF CopyPos

\* What accessContiguousInTx claims: some bytes, within the limit.
LEMMA ClaimFacts ==
  ASSUME TypeOK, NEW i \in Instances, NEW size \in Requests, NEW allowPartial,
         Claim(i, size, allowPartial)
  PROVE  \E n \in Nat :
           /\ n > 0
           /\ TailOf(i) + txSize[i] + n <= Limit(RoleOf[i])
           /\ TailOf(i) + txSize[i] + n <= MaxMarker
           /\ txSize' = [txSize EXCEPT ![i] = @ + n]
           /\ access' = [access EXCEPT ![i] = n]
<1> DEFINE n == IF Avail(i) < size THEN Avail(i) ELSE size
<1>2. TailOf(i) \in Nat /\ txSize[i] \in Nat /\ Limit(RoleOf[i]) \in Nat /\ size \in Nat
  BY TxTypes, RingAssumption
<1>3. /\ n > 0
      /\ TailOf(i) + txSize[i] + n <= MaxMarker
      /\ txSize' = [txSize EXCEPT ![i] = @ + n]
      /\ access' = [access EXCEPT ![i] = n]
  BY DEF Claim
<1>4. n \in Int /\ TailOf(i) + txSize[i] + n <= Limit(RoleOf[i])
  BY <1>2 DEF Avail
<1>5. n \in Nat
  BY <1>3, <1>4
<1> HIDE DEF n
<1> QED
  BY <1>3, <1>4, <1>5

\* Every step keeps the types.
LEMMA TypesPreserved ==
  ASSUME RingInv, NEW i \in Instances, Step(i)
  PROVE  TypeOK'
<1> USE DEF TypeOK
<1>0. TypeOK /\ RoleOf[i] \in Roles
  BY RoleFacts DEF RingInv
<1>1. CASE StartTx(i)
  BY <1>0, <1>1 DEF StartTx
<1>2. ASSUME NEW size \in Requests, NEW allowPartial \in BOOLEAN,
             AccessInTx(i, size, allowPartial)
      PROVE  TypeOK'
  <2>1. Claim(i, size, allowPartial)
    BY <1>2 DEF AccessInTx
  <2>2. PICK n \in Nat : /\ txSize' = [txSize EXCEPT ![i] = @ + n]
                         /\ access' = [access EXCEPT ![i] = n]
    BY <1>0, <2>1, ClaimFacts
  <2>3. txSize' \in [Instances -> Nat] /\ access' \in [Instances -> Nat]
    BY <1>0, <2>2
  <2> QED
    BY <1>0, <1>2, <2>3 DEF AccessInTx
<1>3. ASSUME NEW size \in Requests, IncMarkerInTx(i, size)
      PROVE  TypeOK'
  <2>1. Claim(i, size, FALSE)
    BY <1>3 DEF IncMarkerInTx
  <2>2. PICK n \in Nat : /\ txSize' = [txSize EXCEPT ![i] = @ + n]
                         /\ access' = [access EXCEPT ![i] = n]
    BY <1>0, <2>1, ClaimFacts
  <2>3. txSize' \in [Instances -> Nat] /\ access' \in [Instances -> Nat]
    BY <1>0, <2>2
  <2>4. copied' \in [Instances -> Nat]
    BY <1>0, <1>3, <2>3 DEF IncMarkerInTx
  <2> QED
    BY <1>0, <1>3, <2>3, <2>4 DEF IncMarkerInTx
<1>4. CASE CopyByte(i)
  <2>1. CopyPos(i) \in Nat
    BY <1>4, CopySlotIsSlot DEF CopyByte, RingInv
  <2>2. data' \in [Slots -> [by : Instances \cup {Nobody}, pos : Nat]]
    <3> DEFINE b == [by |-> i, pos |-> CopyPos(i)]
    <3>1. b \in [by : Instances \cup {Nobody}, pos : Nat]
      BY <2>1
    <3>2. data' = data \/ data' = [data EXCEPT ![CopySlot(i)] = b]
      BY <1>4 DEF CopyByte
    <3> HIDE DEF b
    <3> QED
      BY <1>0, <3>1, <3>2
  <2> QED
    BY <1>0, <1>4, <2>2 DEF CopyByte
<1>5. CASE CommitTx(i)
  <2>1. markers' \in [Roles -> Nat]
    BY <1>0, <1>5 DEF CommitTx
  <2>2. author' \in [0 .. MaxMarker - 1 -> Instances \cup {Nobody}]
    BY <1>0, <1>5 DEF CommitTx
  <2> QED
    BY <1>0, <1>5, <2>1, <2>2 DEF CommitTx
<1>6. CASE CancelTx(i)
  BY <1>0, <1>6 DEF CancelTx
<1>7. CASE EndTransaction(i)
  BY <1>0, <1>7 DEF EndTransaction
<1>8. CASE Crash(i)
  BY <1>0, <1>8 DEF Crash
<1> QED
  BY <1>1, <1>2, <1>3, <1>4, <1>5, <1>6, <1>7, <1>8 DEF Step

\* Every step keeps the flags: StartTx takes a free one, and EndTransaction
\* gives back one that nobody else relies on.
LEMMA FlagsPreserved ==
  ASSUME RingInv, NEW i \in Instances, Step(i)
  PROVE  OneTransactionPerRole'
<1> USE DEF OneTransactionPerRole
<1>0. OneTransactionPerRole /\ pc \in [Instances -> {"out", "in", "copy", "end", "dead"}]
  BY DEF RingInv, TypeOK
<1>1. CASE StartTx(i)
  BY <1>0, <1>1 DEF StartTx
<1>2. ASSUME NEW size \in Requests, NEW allowPartial \in BOOLEAN,
             AccessInTx(i, size, allowPartial)
      PROVE  OneTransactionPerRole'
  BY <1>0, <1>2 DEF AccessInTx
<1>3. ASSUME NEW size \in Requests, IncMarkerInTx(i, size)
      PROVE  OneTransactionPerRole'
  BY <1>0, <1>3 DEF IncMarkerInTx
<1>4. CASE CopyByte(i)
  BY <1>0, <1>4 DEF CopyByte
<1>5. CASE CommitTx(i)
  BY <1>0, <1>5 DEF CommitTx
<1>6. CASE CancelTx(i)
  BY <1>0, <1>6 DEF CancelTx
<1>7. CASE EndTransaction(i)
  BY <1>0, <1>7 DEF EndTransaction
<1>8. CASE Crash(i)
  BY <1>0, <1>8 DEF Crash
<1> QED
  BY <1>1, <1>2, <1>3, <1>4, <1>5, <1>6, <1>7, <1>8 DEF Step

\* A commit moves its own marker up to the limit at most, and no limit down.
LEMMA CommitFacts ==
  ASSUME RingInv, NEW i \in Instances, CommitTx(i)
  PROVE  /\ markers' \in [Roles -> Nat]
         /\ markers'[RoleOf[i]] = markers[RoleOf[i]] + txSize[i]
         /\ markers'[RoleOf[i]] <= Limit(RoleOf[i])
         /\ \A r \in Roles : r # RoleOf[i] => markers'[r] = markers[r]
         /\ \A r \in Roles : markers'[r] >= markers[r]
         /\ \A r \in Roles : Limit(r) \in Nat /\ Limit(r)' \in Nat /\ Limit(r)' >= Limit(r)
         /\ Limit(RoleOf[i])' = Limit(RoleOf[i])
<1>0. markers \in [Roles -> Nat] /\ txSize[i] \in Nat /\ RoleOf[i] \in Roles
  BY RoleFacts DEF RingInv, TypeOK
<1>1. markers' = [markers EXCEPT ![RoleOf[i]] = @ + txSize[i]]
  BY DEF CommitTx
<1>2. /\ markers' \in [Roles -> Nat]
      /\ markers'[RoleOf[i]] = markers[RoleOf[i]] + txSize[i]
      /\ \A r \in Roles : r # RoleOf[i] => markers'[r] = markers[r]
      /\ \A r \in Roles : markers'[r] >= markers[r]
  BY <1>0, <1>1
<1>3. markers'[RoleOf[i]] <= Limit(RoleOf[i])
  BY <1>2 DEF RingInv, TransactionFits, Fits, TailOf
<1>4. ASSUME NEW r \in Roles
      PROVE  Limit(r) \in Nat /\ Limit(r)' \in Nat /\ Limit(r)' >= Limit(r)
  <2>1. CASE r = Filler
    <3>1. Limit(r) = markers[0] + Size /\ Limit(r)' = markers'[0] + Size
      BY <2>1, RoleFacts DEF Limit
    <3> QED
      BY <3>1, <1>0, <1>2, RoleFacts, RingAssumption
  <2>2. CASE r # Filler
    <3>1. Limit(r) = markers[r + 1] /\ Limit(r)' = markers'[r + 1] /\ r + 1 \in Roles
      BY <2>2, RoleFacts DEF Limit
    <3> QED
      BY <3>1, <1>0, <1>2
  <2> QED
    BY <2>1, <2>2
<1>5. Limit(RoleOf[i])' = Limit(RoleOf[i])
  <2> DEFINE r == RoleOf[i]
  <2>1. CASE r = Filler
    <3>1. Limit(r) = markers[0] + Size /\ Limit(r)' = markers'[0] + Size
      BY <2>1, <1>0, RoleFacts DEF Limit
    <3>2. 0 # r /\ 0 \in Roles
      BY <2>1, RingAssumption, RoleFacts DEF Filler
    <3> QED
      BY <3>1, <3>2, <1>2
  <2>2. CASE r # Filler
    <3>1. Limit(r) = markers[r + 1] /\ Limit(r)' = markers'[r + 1] /\ r + 1 \in Roles
      BY <2>2, <1>0, RoleFacts DEF Limit
    <3>2. r + 1 # r
      BY <1>0, RoleFacts
    <3> QED
      BY <3>1, <3>2, <1>2
  <2> QED
    BY <2>1, <2>2
<1> QED
  BY <1>2, <1>3, <1>4, <1>5

\* Every step keeps the markers in order. Only CommitTx moves one.
LEMMA MarkersPreserved ==
  ASSUME RingInv, NEW i \in Instances, Step(i)
  PROVE  MarkersOrdered'
<1>1. CASE markers' = markers
  BY <1>1 DEF RingInv, MarkersOrdered
<1>2. CASE CommitTx(i)
  <2> DEFINE r == RoleOf[i]
  <2>0. r \in Roles /\ markers \in [Roles -> Nat] /\ MarkersOrdered /\ txSize[i] \in Nat
    BY RoleFacts DEF RingInv, TypeOK
  <2>1. /\ markers' \in [Roles -> Nat]
        /\ markers'[r] <= Limit(r) /\ Limit(r) \in Nat
        /\ \A s \in Roles : s # r => markers'[s] = markers[s]
        /\ \A s \in Roles : markers'[s] >= markers[s]
    BY <1>2, <2>0, CommitFacts
  <2>2. ASSUME NEW a \in Roles, NEW b \in Roles, a <= b
        PROVE  markers'[a] <= markers'[b]
    <3>1. markers[a] <= markers[b]
      BY <2>0, <2>2 DEF MarkersOrdered
    <3>2. CASE a # r
      BY <3>1, <3>2, <2>0, <2>1
    <3>3. CASE a = r /\ b # r
      <4>1. r # Filler /\ r + 1 <= b
        BY <3>3, <2>2, <2>0, RoleFacts
      <4>2. r + 1 \in Roles /\ Limit(r) = markers[r + 1]
        BY <4>1, <2>0, RoleFacts DEF Limit
      <4>3. markers[r + 1] <= markers[b]
        BY <4>1, <4>2, <2>0 DEF MarkersOrdered
      <4> QED
        BY <4>2, <4>3, <3>3, <2>0, <2>1
    <3>4. CASE a = r /\ b = r
      BY <3>4, <2>0, <2>1
    <3> QED
      BY <3>2, <3>3, <3>4
  <2>3. markers'[Filler] <= markers'[0] + Size /\ markers'[Filler] <= MaxMarker
    <3>1. CASE r # Filler
      <4>1. /\ markers'[Filler] = markers[Filler] /\ markers'[0] >= markers[0]
            /\ markers[Filler] <= markers[0] + Size /\ markers[Filler] <= MaxMarker
        BY <3>1, <2>0, <2>1, RoleFacts DEF MarkersOrdered
      <4> QED
        BY <4>1, <2>0, <2>1, RoleFacts, RingAssumption
    <3>2. CASE r = Filler
      <4>1. Limit(r) = markers[0] + Size /\ 0 # r
        BY <3>2, <2>0, RoleFacts, RingAssumption DEF Limit, Filler
      <4>2. markers'[r] = TailOf(i) + txSize[i] /\ TailOf(i) + txSize[i] <= MaxMarker
        BY <1>2, CommitFacts DEF TailOf, RingInv, TransactionFits, Fits
      <4> QED
        BY <3>2, <4>1, <4>2, <2>0, <2>1, RoleFacts
    <3> QED
      BY <3>1, <3>2
  <2> QED
    BY <2>2, <2>3 DEF MarkersOrdered
<1>3. markers' = markers \/ CommitTx(i)
  BY DEF Step, StartTx, AccessInTx, IncMarkerInTx, CopyByte, CancelTx, EndTransaction, Crash
<1> QED
  BY <1>1, <1>2, <1>3

\* A step that moves no marker leaves the transactions of the others as they are.
LEMMA OthersFit ==
  ASSUME RingInv, NEW i \in Instances, NEW j \in Instances, j # i, markers' = markers,
         txSize'[j] = txSize[j], access'[j] = access[j], copied'[j] = copied[j], pc'[j] = pc[j]
  PROVE  Fits(j)'
<1>1. Fits(j)
  BY DEF RingInv, TransactionFits
<1> QED
  BY <1>1 DEF Fits, TailOf, Limit

\* Every step keeps the transactions within their limits.
LEMMA FitsPreserved ==
  ASSUME RingInv, NEW i \in Instances, Step(i)
  PROVE  TransactionFits'
<1> SUFFICES ASSUME NEW j \in Instances PROVE Fits(j)'
  BY DEF TransactionFits
<1>0. TypeOK /\ Fits(i) /\ Fits(j)
  BY DEF RingInv, TransactionFits
<1>t. /\ pc \in [Instances -> {"out", "in", "copy", "end", "dead"}]
      /\ txSize \in [Instances -> Nat] /\ access \in [Instances -> Nat]
      /\ copied \in [Instances -> Nat]
  BY <1>0 DEF TypeOK
<1>i. /\ TailOf(i) \in Nat /\ txSize[i] \in Nat /\ access[i] \in Nat /\ copied[i] \in Nat
      /\ Limit(RoleOf[i]) \in Nat /\ MaxMarker \in Nat
  BY <1>0, TxTypes, RingAssumption
<1>u. ASSUME markers' = markers
      PROVE  TailOf(i)' = TailOf(i) /\ Limit(RoleOf[i])' = Limit(RoleOf[i])
  BY <1>u DEF TailOf, Limit
<1>1. CASE StartTx(i)
  <2>1. CASE j # i
    BY <2>1, <1>1, <1>t, OthersFit DEF StartTx
  <2>2. CASE j = i
    <3>1. txSize[i] = 0 /\ access[i] = 0 /\ copied[i] = 0
      BY <1>0, <1>1, <1>i DEF Fits, StartTx
    <3> QED
      BY <2>2, <3>1, <1>0, <1>1, <1>t, <1>i, <1>u DEF Fits, StartTx
  <2> QED
    BY <2>1, <2>2
<1>2. ASSUME NEW size \in Requests, NEW allowPartial \in BOOLEAN,
             AccessInTx(i, size, allowPartial)
      PROVE  Fits(j)'
  <2>0. Claim(i, size, allowPartial) /\ markers' = markers
    BY <1>2 DEF AccessInTx
  <2>1. PICK n \in Nat : /\ n > 0
                         /\ TailOf(i) + txSize[i] + n <= Limit(RoleOf[i])
                         /\ TailOf(i) + txSize[i] + n <= MaxMarker
                         /\ txSize' = [txSize EXCEPT ![i] = @ + n]
                         /\ access' = [access EXCEPT ![i] = n]
    BY <1>0, <2>0, ClaimFacts
  <2>2. CASE j # i
    BY <2>1, <2>2, <1>2, <1>t, OthersFit DEF AccessInTx
  <2>3. CASE j = i
    BY <2>0, <2>1, <2>3, <1>2, <1>t, <1>i, <1>u DEF AccessInTx, Fits
  <2> QED
    BY <2>2, <2>3
<1>3. ASSUME NEW size \in Requests, IncMarkerInTx(i, size)
      PROVE  Fits(j)'
  <2>0. Claim(i, size, FALSE) /\ markers' = markers
    BY <1>3 DEF IncMarkerInTx
  <2>1. PICK n \in Nat : /\ n > 0
                         /\ TailOf(i) + txSize[i] + n <= Limit(RoleOf[i])
                         /\ TailOf(i) + txSize[i] + n <= MaxMarker
                         /\ txSize' = [txSize EXCEPT ![i] = @ + n]
                         /\ access' = [access EXCEPT ![i] = n]
    BY <1>0, <2>0, ClaimFacts
  <2>2. CASE j # i
    BY <2>1, <2>2, <1>3, <1>t, OthersFit DEF IncMarkerInTx
  <2>3. CASE j = i
    BY <2>0, <2>1, <2>3, <1>3, <1>t, <1>i, <1>u DEF IncMarkerInTx, Fits
  <2> QED
    BY <2>2, <2>3
<1>4. CASE CopyByte(i)
  <2>1. CASE j # i
    BY <2>1, <1>4, <1>t, OthersFit DEF CopyByte
  <2>2. CASE j = i
    BY <2>2, <1>4, <1>0, <1>t, <1>i, <1>u DEF CopyByte, Fits
  <2> QED
    BY <2>1, <2>2
<1>5. CASE CommitTx(i)
  <2>0. /\ txSize' = [txSize EXCEPT ![i] = 0] /\ access' = [access EXCEPT ![i] = 0]
        /\ copied' = [copied EXCEPT ![i] = 0] /\ pc' = [pc EXCEPT ![i] = "end"]
    BY <1>5 DEF CommitTx
  <2>1. /\ TailOf(i)' = TailOf(i) + txSize[i]
        /\ Limit(RoleOf[i])' = Limit(RoleOf[i])
        /\ TailOf(i)' <= Limit(RoleOf[i])
    BY <1>5, CommitFacts DEF TailOf
  <2>2. TailOf(i)' <= MaxMarker
    BY <2>1, <1>0 DEF Fits
  <2>3. CASE j = i
    BY <2>0, <2>1, <2>2, <2>3, <1>t, <1>i DEF Fits
  <2>4. CASE j # i /\ RoleOf[j] = RoleOf[i]
    <3>1. pc[j] = "out"
      BY <2>4, <1>5 DEF CommitTx, RingInv, OneTransactionPerRole
    <3>2. txSize[j] = 0 /\ access[j] = 0 /\ copied[j] = 0
      BY <3>1, <1>0, <1>t DEF Fits
    <3>3. TailOf(j)' = TailOf(i)' /\ Limit(RoleOf[j])' = Limit(RoleOf[i])'
      BY <2>4 DEF TailOf
    <3> QED
      BY <2>0, <2>1, <2>2, <2>4, <3>1, <3>2, <3>3, <1>t, <1>i DEF Fits
  <2>5. CASE j # i /\ RoleOf[j] # RoleOf[i]
    <3>1. /\ RoleOf[j] \in Roles /\ TailOf(j) \in Nat /\ txSize[j] \in Nat
          /\ Limit(RoleOf[j]) \in Nat
      BY <1>0, TxTypes
    <3>2. TailOf(j)' = TailOf(j)
      BY <2>5, <3>1, <1>5, CommitFacts DEF TailOf
    <3>3. Limit(RoleOf[j])' \in Nat /\ Limit(RoleOf[j])' >= Limit(RoleOf[j])
      BY <3>1, <1>5, CommitFacts
    <3>4. /\ txSize'[j] = txSize[j] /\ access'[j] = access[j]
          /\ copied'[j] = copied[j] /\ pc'[j] = pc[j]
      BY <2>0, <2>5, <1>t
    <3> QED
      BY <3>1, <3>2, <3>3, <3>4, <1>0 DEF Fits
  <2> QED
    BY <2>3, <2>4, <2>5
<1>6. CASE CancelTx(i)
  <2>1. CASE j # i
    BY <2>1, <1>6, <1>t, OthersFit DEF CancelTx
  <2>2. CASE j = i
    BY <2>2, <1>6, <1>0, <1>t, <1>i, <1>u DEF CancelTx, Fits
  <2> QED
    BY <2>1, <2>2
<1>7. CASE EndTransaction(i)
  <2>1. CASE j # i
    BY <2>1, <1>7, <1>t, OthersFit DEF EndTransaction
  <2>2. CASE j = i
    BY <2>2, <1>7, <1>0, <1>t, <1>i, <1>u DEF EndTransaction, Fits
  <2> QED
    BY <2>1, <2>2
<1>8. CASE Crash(i)
  <2>1. CASE j # i
    BY <2>1, <1>8, <1>t, OthersFit DEF Crash
  <2>2. CASE j = i
    BY <2>2, <1>8, <1>0, <1>t, <1>i, <1>u DEF Crash, Fits
  <2> QED
    BY <2>1, <2>2
<1> QED
  BY <1>1, <1>2, <1>3, <1>4, <1>5, <1>6, <1>7, <1>8 DEF Step

\* Every step keeps what the transaction of the last role has written: only
\* its own copy writes, each byte to a slot of its own.
LEMMA WrittenPreserved ==
  ASSUME RingInv, NEW i \in Instances, Step(i), TypeOK', TransactionFits'
  PROVE  WrittenSoFar'
<1> SUFFICES ASSUME NEW j \in Instances, RoleOf[j] = Filler,
                    NEW q \in TailOf(j)' .. CopyPos(j)' - 1
             PROVE  data'[q % Size] = [by |-> j, pos |-> q]
  BY DEF WrittenSoFar
<1>0. TypeOK /\ Fits(i) /\ Fits(j) /\ Fits(j)'
  BY DEF RingInv, TransactionFits
<1>t. /\ pc \in [Instances -> {"out", "in", "copy", "end", "dead"}]
      /\ txSize \in [Instances -> Nat] /\ access \in [Instances -> Nat]
      /\ copied \in [Instances -> Nat]
  BY <1>0 DEF TypeOK
<1>j. /\ TailOf(j) \in Nat /\ txSize[j] \in Nat /\ access[j] \in Nat /\ copied[j] \in Nat
  BY <1>0, TxTypes
<1>w. \A p \in TailOf(j) .. CopyPos(j) - 1 : data[p % Size] = [by |-> j, pos |-> p]
  BY DEF RingInv, WrittenSoFar
<1>s. ASSUME data' = data, TailOf(j)' = TailOf(j), CopyPos(j)' = CopyPos(j)
      PROVE  data'[q % Size] = [by |-> j, pos |-> q]
  BY <1>s, <1>w
<1>e. ASSUME pc'[j] \in {"out", "end"}
      PROVE  FALSE
  <2>1. /\ markers'[Filler] \in Nat /\ txSize'[j] \in Nat
        /\ access'[j] \in Nat /\ copied'[j] \in Nat
    BY RoleFacts DEF TypeOK
  <2>2. txSize'[j] = 0 /\ access'[j] <= txSize'[j] /\ copied'[j] <= access'[j]
    BY <1>0, <1>e DEF Fits
  <2>3. CopyPos(j)' = TailOf(j)' /\ TailOf(j)' \in Nat
    BY <2>1, <2>2 DEF CopyPos, TailOf
  <2> QED
    BY <2>3
<1>o. ASSUME markers' = markers, data' = data, txSize'[j] = txSize[j],
             access'[j] = access[j], copied'[j] = copied[j]
      PROVE  data'[q % Size] = [by |-> j, pos |-> q]
  BY <1>o, <1>s DEF TailOf, CopyPos
<1>1. CASE StartTx(i)
  BY <1>1, <1>o DEF StartTx
<1>2. ASSUME NEW size \in Requests, NEW allowPartial \in BOOLEAN,
             AccessInTx(i, size, allowPartial)
      PROVE  data'[q % Size] = [by |-> j, pos |-> q]
  <2>0. Claim(i, size, allowPartial) /\ markers' = markers /\ data' = data
    BY <1>2 DEF AccessInTx
  <2>1. PICK n \in Nat : /\ txSize' = [txSize EXCEPT ![i] = @ + n]
                         /\ access' = [access EXCEPT ![i] = n]
    BY <1>0, <2>0, ClaimFacts
  <2>2. CASE j # i
    BY <2>0, <2>1, <2>2, <1>2, <1>t, <1>o DEF AccessInTx
  <2>3. CASE j = i
    <3>1. copied[j] = access[j] /\ copied'[j] = 0
      BY <2>3, <1>2, <1>0, <1>t DEF AccessInTx, Fits
    <3>2. TailOf(j)' = TailOf(j)
      BY <2>0 DEF TailOf
    <3>3. txSize'[j] = txSize[j] + n /\ access'[j] = n
      BY <2>1, <2>3, <1>t
    <3>4. CopyPos(j)' = CopyPos(j)
      BY <3>1, <3>2, <3>3, <1>j DEF CopyPos
    <3> QED
      BY <2>0, <3>2, <3>4, <1>s
  <2> QED
    BY <2>2, <2>3
<1>3. ASSUME NEW size \in Requests, IncMarkerInTx(i, size)
      PROVE  data'[q % Size] = [by |-> j, pos |-> q]
  <2>0. Claim(i, size, FALSE) /\ j # i
    BY <1>3 DEF IncMarkerInTx
  <2>1. PICK n \in Nat : /\ txSize' = [txSize EXCEPT ![i] = @ + n]
                         /\ access' = [access EXCEPT ![i] = n]
    BY <1>0, <2>0, ClaimFacts
  <2> QED
    BY <2>0, <2>1, <1>3, <1>t, <1>o DEF IncMarkerInTx
<1>4. CASE CopyByte(i)
  <2>0. markers' = markers /\ txSize' = txSize /\ access' = access
    BY <1>4 DEF CopyByte
  <2>1. CASE j # i /\ RoleOf[i] = Filler
    <3>1. pc[j] = "out"
      BY <2>1, <1>4 DEF CopyByte, RingInv, OneTransactionPerRole
    <3>2. pc'[j] = "out"
      BY <2>1, <3>1, <1>4, <1>t DEF CopyByte
    <3> QED
      BY <3>2, <1>e
  <2>2. CASE j # i /\ RoleOf[i] # Filler
    BY <2>0, <2>2, <1>4, <1>t, <1>o DEF CopyByte
  <2>3. CASE j = i
    <3>1. /\ CopyPos(i) \in Nat /\ TailOf(i) <= CopyPos(i)
          /\ CopyPos(i) < TailOf(i) + txSize[i] /\ txSize[i] <= Size
          /\ CopySlot(i) = CopyPos(i) % Size
      BY <1>4, CopySlotIsSlot DEF RingInv, CopyByte
    <3>2. TailOf(i)' = TailOf(i) /\ CopyPos(i)' = CopyPos(i) + 1
      BY <2>0, <2>3, <1>4, <1>t, <1>j DEF CopyByte, TailOf, CopyPos
    <3>3. data' = [data EXCEPT ![CopyPos(i) % Size] = [by |-> i, pos |-> CopyPos(i)]]
      BY <2>3, <3>1, <1>4 DEF CopyByte
    <3>4. data \in [Slots -> [by : Instances \cup {Nobody}, pos : Nat]]
      BY <1>0 DEF TypeOK
    <3>5. q \in Nat /\ TailOf(i) <= q /\ q <= CopyPos(i)
      BY <2>3, <3>1, <3>2, <1>j
    <3>6. CopyPos(i) % Size \in Slots /\ q % Size \in Slots
      BY <3>1, <3>5, SlotInPool
    <3>7. CASE q = CopyPos(i)
      BY <2>3, <3>3, <3>4, <3>6, <3>7
    <3>8. CASE q # CopyPos(i)
      <4>1. q % Size # CopyPos(i) % Size
        <5>1. q < TailOf(i) + Size /\ CopyPos(i) < TailOf(i) + Size
          BY <2>3, <3>1, <3>5, <1>j, RingAssumption
        <5> QED
          BY <2>3, <5>1, <3>1, <3>5, <3>8, <1>j, SlotsDifferWithin
      <4>2. data'[q % Size] = data[q % Size]
        BY <4>1, <3>3, <3>4, <3>6
      <4>3. q \in TailOf(j) .. CopyPos(j) - 1
        BY <2>3, <3>1, <3>5, <3>8, <1>j
      <4> QED
        BY <4>2, <4>3, <1>w
    <3> QED
      BY <3>7, <3>8
  <2> QED
    BY <2>1, <2>2, <2>3
<1>5. CASE CommitTx(i)
  <2>1. CASE j = i
    BY <2>1, <1>5, <1>t, <1>e DEF CommitTx
  <2>2. CASE j # i /\ RoleOf[i] = Filler
    <3>1. pc[j] = "out"
      BY <2>2, <1>5 DEF CommitTx, RingInv, OneTransactionPerRole
    <3>2. pc'[j] = "out"
      BY <2>2, <3>1, <1>5, <1>t DEF CommitTx
    <3> QED
      BY <3>2, <1>e
  <2>3. CASE RoleOf[i] # Filler
    <3>1. TailOf(j)' = TailOf(j)
      BY <2>3, <1>5, CommitFacts, RoleFacts DEF TailOf
    <3>2. /\ j # i /\ data' = data /\ txSize'[j] = txSize[j]
          /\ access'[j] = access[j] /\ copied'[j] = copied[j]
      BY <2>3, <1>5, <1>t DEF CommitTx
    <3>3. CopyPos(j)' = CopyPos(j)
      BY <3>1, <3>2 DEF CopyPos
    <3> QED
      BY <3>1, <3>2, <3>3, <1>s
  <2> QED
    BY <2>1, <2>2, <2>3
<1>6. CASE CancelTx(i)
  <2>1. CASE j = i
    BY <2>1, <1>6, <1>t, <1>e DEF CancelTx
  <2>2. CASE j # i
    BY <2>2, <1>6, <1>t, <1>o DEF CancelTx
  <2> QED
    BY <2>1, <2>2
<1>7. CASE EndTransaction(i)
  BY <1>7, <1>o DEF EndTransaction
<1>8. CASE Crash(i)
  BY <1>8, <1>o DEF Crash
<1> QED
  BY <1>1, <1>2, <1>3, <1>4, <1>5, <1>6, <1>7, <1>8 DEF Step

\* Every step keeps the committed bytes: a copy writes only beyond them, and a
\* commit adds bytes that were written in full.
LEMMA ContentsPreserved ==
  ASSUME RingInv, NEW i \in Instances, Step(i)
  PROVE  ContentsIntact'
<1> SUFFICES ASSUME NEW q \in markers'[0] .. markers'[Filler] - 1
             PROVE  data'[q % Size] = [by |-> author'[q], pos |-> q]
  BY DEF ContentsIntact
<1>0. TypeOK /\ Fits(i) /\ MarkersOrdered
  BY DEF RingInv, TransactionFits
<1>m. /\ markers[0] \in Nat /\ markers[Filler] \in Nat /\ 0 \in Roles /\ Filler \in Roles
      /\ markers[Filler] <= MaxMarker /\ MaxMarker \in Nat
      /\ markers[0] <= markers[Filler]
  BY <1>0, RoleFacts, RingAssumption DEF TypeOK, MarkersOrdered
<1>w. \A p \in markers[0] .. markers[Filler] - 1 :
        data[p % Size] = [by |-> author[p], pos |-> p]
  BY DEF RingInv, ContentsIntact
<1>o. ASSUME markers' = markers, data' = data, author' = author
      PROVE  data'[q % Size] = [by |-> author'[q], pos |-> q]
  BY <1>o, <1>w
<1>1. CASE CopyByte(i)
  <2>0. markers' = markers /\ author' = author
    BY <1>1 DEF CopyByte
  <2>1. CASE RoleOf[i] # Filler
    BY <2>0, <2>1, <1>1, <1>o DEF CopyByte
  <2>2. CASE RoleOf[i] = Filler
    <3>1. /\ CopyPos(i) \in Nat /\ TailOf(i) <= CopyPos(i)
          /\ CopyPos(i) < TailOf(i) + txSize[i]
          /\ CopySlot(i) = CopyPos(i) % Size
      BY <1>1, CopySlotIsSlot DEF RingInv, CopyByte
    <3>2. /\ TailOf(i) = markers[Filler] /\ txSize[i] \in Nat
          /\ TailOf(i) + txSize[i] <= markers[0] + Size
      <4>1. Limit(RoleOf[i]) = markers[0] + Size
        BY <2>2, RoleFacts DEF Limit
      <4> QED
        BY <2>2, <4>1, <1>0, TxTypes DEF TailOf, Fits
    <3>3. data' = [data EXCEPT ![CopyPos(i) % Size] = [by |-> i, pos |-> CopyPos(i)]]
      BY <2>2, <3>1, <1>1 DEF CopyByte
    <3>4. data \in [Slots -> [by : Instances \cup {Nobody}, pos : Nat]]
      BY <1>0 DEF TypeOK
    <3>5. q \in Nat /\ markers[0] <= q /\ q < markers[Filler]
      BY <2>0, <1>m
    <3>6. q % Size \in Slots
      BY <3>5, SlotInPool
    <3>7. /\ q # CopyPos(i)
          /\ markers[0] <= CopyPos(i) /\ CopyPos(i) < markers[0] + Size
          /\ q < markers[0] + Size
      BY <3>1, <3>2, <3>5, <1>m, RingAssumption
    <3>8. q % Size # CopyPos(i) % Size
      BY <3>1, <3>5, <3>7, <1>m, SlotsDifferWithin
    <3>9. data'[q % Size] = data[q % Size]
      BY <3>3, <3>4, <3>6, <3>8
    <3> QED
      BY <3>5, <3>9, <2>0, <1>w, <1>m
  <2> QED
    BY <2>1, <2>2
<1>2. CASE CommitTx(i)
  <2>0. data' = data /\ author \in [0 .. MaxMarker - 1 -> Instances \cup {Nobody}]
    BY <1>2, <1>0 DEF CommitTx, TypeOK
  <2>1. CASE RoleOf[i] # Filler
    <3>1. /\ markers'[Filler] = markers[Filler] /\ markers'[0] >= markers[0]
          /\ markers' \in [Roles -> Nat]
      BY <2>1, <1>2, <1>m, CommitFacts
    <3>2. q \in markers[0] .. markers[Filler] - 1
      BY <3>1, <1>m
    <3>3. author' = author
      BY <2>1, <1>2 DEF CommitTx
    <3> QED
      BY <3>2, <3>3, <2>0, <1>w
  <2>2. CASE RoleOf[i] = Filler
    <3>1. /\ markers'[0] = markers[0]
          /\ markers'[Filler] = markers[Filler] + txSize[i]
      BY <2>2, <1>2, <1>m, CommitFacts, RingAssumption DEF Filler
    <3>2. /\ TailOf(i) = markers[Filler] /\ txSize[i] \in Nat
          /\ access[i] \in Nat /\ copied[i] \in Nat
          /\ TailOf(i) + txSize[i] <= MaxMarker /\ copied[i] = access[i]
      BY <2>2, <1>0, <1>2, TxTypes DEF TailOf, Fits, CommitTx
    <3>3. q \in 0 .. MaxMarker - 1
      BY <3>1, <3>2, <1>m
    <3>4. author'[q] = IF q \in TailOf(i) .. TailOf(i) + txSize[i] - 1 THEN i ELSE author[q]
      BY <2>0, <2>2, <3>3, <1>2 DEF CommitTx
    <3>5. CASE q < markers[Filler]
      <4>1. q \in markers[0] .. markers[Filler] - 1 /\ author'[q] = author[q]
        BY <3>1, <3>2, <3>3, <3>4, <3>5, <1>m
      <4> QED
        BY <4>1, <2>0, <1>w
    <3>6. CASE q >= markers[Filler]
      <4>1. q \in TailOf(i) .. TailOf(i) + txSize[i] - 1
        BY <3>1, <3>2, <3>3, <3>6, <1>m
      <4>2. CopyPos(i) = TailOf(i) + txSize[i]
        BY <3>2, <1>m DEF CopyPos
      <4>3. data[q % Size] = [by |-> i, pos |-> q]
        <5>1. \A p \in TailOf(i) .. CopyPos(i) - 1 : data[p % Size] = [by |-> i, pos |-> p]
          BY <2>2 DEF RingInv, WrittenSoFar
        <5>2. q \in TailOf(i) .. CopyPos(i) - 1
          BY <4>1, <4>2, <3>2, <1>m
        <5> QED
          BY <5>1, <5>2, Zenon
      <4> QED
        BY <4>1, <4>3, <3>4, <2>0
    <3> QED
      BY <3>5, <3>6, <3>3, <1>m
  <2> QED
    BY <2>1, <2>2
<1>3. CopyByte(i) \/ CommitTx(i) \/ (markers' = markers /\ data' = data /\ author' = author)
  BY DEF Step, StartTx, AccessInTx, IncMarkerInTx, CancelTx, EndTransaction, Crash
<1> QED
  BY <1>1, <1>2, <1>3, <1>o

-----------------------------------------------------------------------------
(* The theorems. *)

\* The header, the pool and the transactions satisfy RingInv in every state of
\* the ring buffer.
THEOREM RingInvariant == Spec => []RingInv
<1>1. Init => RingInv
  <2> SUFFICES ASSUME Init PROVE RingInv
    OBVIOUS
  <2>1. TypeOK
    BY RingAssumption, RoleFacts DEF Init, TypeOK
  <2>2. MarkersOrdered
    BY RingAssumption, RoleFacts DEF Init, MarkersOrdered
  <2>3. OneTransactionPerRole
    BY DEF Init, OneTransactionPerRole
  <2>4. ASSUME NEW i \in Instances PROVE Fits(i)
    <3>1. TailOf(i) = 0 /\ txSize[i] = 0 /\ access[i] = 0 /\ copied[i] = 0 /\ pc[i] = "out"
      BY RoleFacts DEF Init, TailOf
    <3>2. Limit(RoleOf[i]) \in Nat
      BY <2>1, TxTypes
    <3> QED
      BY <3>1, <3>2, RingAssumption DEF Fits
  <2>5. WrittenSoFar
    <3>1. ASSUME NEW i \in Instances PROVE CopyPos(i) = 0 /\ TailOf(i) = 0
      BY RoleFacts DEF Init, TailOf, CopyPos
    <3> QED
      BY <3>1 DEF WrittenSoFar
  <2>6. ContentsIntact
    BY RoleFacts DEF Init, ContentsIntact
  <2> QED
    BY <2>1, <2>2, <2>3, <2>4, <2>5, <2>6 DEF RingInv, TransactionFits
<1>2. RingInv /\ [Next]_vars => RingInv'
  <2> SUFFICES ASSUME RingInv, [Next]_vars PROVE RingInv'
    OBVIOUS
  <2>1. ASSUME NEW i \in Instances, Step(i) PROVE RingInv'
    <3>1. TypeOK' /\ TransactionFits'
      BY <2>1, TypesPreserved, FitsPreserved
    <3>2. MarkersOrdered' /\ OneTransactionPerRole'
      BY <2>1, MarkersPreserved, FlagsPreserved
    <3>3. WrittenSoFar'
      BY <2>1, <3>1, WrittenPreserved
    <3>4. ContentsIntact'
      BY <2>1, ContentsPreserved
    <3> QED
      BY <3>1, <3>2, <3>3, <3>4 DEF RingInv
  <2>2. CASE UNCHANGED vars
    <3>1. /\ TypeOK' /\ MarkersOrdered' /\ OneTransactionPerRole'
      BY <2>2 DEF vars, RingInv, TypeOK, MarkersOrdered, OneTransactionPerRole
    <3>2. TransactionFits'
      BY <2>2 DEF vars, RingInv, TransactionFits, Fits, TailOf, Limit
    <3>3. WrittenSoFar' /\ ContentsIntact'
      BY <2>2 DEF vars, RingInv, WrittenSoFar, ContentsIntact, TailOf, CopyPos
    <3> QED
      BY <3>1, <3>2, <3>3 DEF RingInv
  <2> QED
    BY <2>1, <2>2 DEF Next
<1> QED
  BY <1>1, <1>2, PTL DEF Spec

\* What was committed stays in the pool until the first role has freed it.
THEOREM RingContents == Spec => []ContentsIntact
<1>1. RingInv => ContentsIntact
  BY DEF RingInv
<1> QED
  BY <1>1, RingInvariant, PTL

\* Claims of different roles are apart, the lower role first.
LEMMA ClaimsOfRolesDisjoint ==
  ASSUME RingInv, NEW i \in Instances, NEW j \in Instances, RoleOf[i] < RoleOf[j],
         NEW a \in TailOf(i) .. TailOf(i) + txSize[i] - 1,
         NEW b \in TailOf(j) .. TailOf(j) + txSize[j] - 1
  PROVE  a % Size # b % Size
<1>0. TypeOK /\ MarkersOrdered /\ Fits(i) /\ Fits(j)
  BY DEF RingInv, TransactionFits
<1>1. /\ RoleOf[i] \in Roles /\ RoleOf[j] \in Roles
      /\ TailOf(i) \in Nat /\ txSize[i] \in Nat /\ Limit(RoleOf[i]) \in Nat
      /\ TailOf(j) \in Nat /\ txSize[j] \in Nat /\ Limit(RoleOf[j]) \in Nat
  BY <1>0, TxTypes
<1>2. /\ markers[0] \in Nat /\ markers[0] <= TailOf(i)
      /\ Limit(RoleOf[j]) <= markers[0] + Size
  BY <1>0, TxWithinPool
<1>3. /\ TailOf(i) + txSize[i] <= Limit(RoleOf[i])
      /\ TailOf(j) + txSize[j] <= Limit(RoleOf[j])
  BY <1>0 DEF Fits
<1>4. Limit(RoleOf[i]) <= TailOf(j)
  <2>1. RoleOf[i] # Filler /\ RoleOf[i] + 1 <= RoleOf[j]
    BY <1>1, RoleFacts
  <2>2. RoleOf[i] + 1 \in Roles /\ Limit(RoleOf[i]) = markers[RoleOf[i] + 1]
    BY <2>1, <1>1, RoleFacts DEF Limit
  <2> QED
    BY <2>1, <2>2, <1>0, <1>1 DEF MarkersOrdered, TailOf
<1>5. /\ a \in Nat /\ b \in Nat /\ a < b
      /\ markers[0] <= a /\ b < markers[0] + Size
  BY <1>1, <1>2, <1>3, <1>4, RingAssumption
<1>6. a < markers[0] + Size /\ markers[0] <= b
  BY <1>2, <1>5, RingAssumption
<1> QED
  BY <1>2, <1>5, <1>6, SlotsDifferWithin

\* No two instances may touch the same memory, whatever they are doing and
\* wherever processes have died: memcpys in the data pool never race.
THEOREM RingClaimsDisjoint == Spec => []ClaimsDisjoint
<1>1. RingInv => ClaimsDisjoint
  <2> SUFFICES ASSUME RingInv, NEW i \in Instances, NEW j \in Instances, i # j,
                      NEW a \in TailOf(i) .. TailOf(i) + txSize[i] - 1,
                      NEW b \in TailOf(j) .. TailOf(j) + txSize[j] - 1
               PROVE  a % Size # b % Size
    BY DEF ClaimsDisjoint, Claimed
  <2>0. RoleOf[i] \in Nat /\ RoleOf[j] \in Nat
    BY RoleFacts
  <2>1. CASE RoleOf[i] = RoleOf[j]
    <3>1. txSize[i] = 0 \/ txSize[j] = 0
      BY <2>1 DEF RingInv, OneTransactionPerRole, TransactionFits, Fits
    <3>2. TailOf(i) \in Nat /\ TailOf(j) \in Nat
      BY TxTypes DEF RingInv
    <3> QED
      BY <3>1, <3>2
  <2>2. CASE RoleOf[i] < RoleOf[j]
    BY <2>2, ClaimsOfRolesDisjoint
  <2>3. CASE RoleOf[j] < RoleOf[i]
    <3>1. b % Size # a % Size
      BY <2>3, ClaimsOfRolesDisjoint
    <3> QED
      BY <3>1
  <2> QED
    BY <2>0, <2>1, <2>2, <2>3
<1> QED
  BY <1>1, RingInvariant, PTL

\* A reader copies out what was committed at its position.
THEOREM RingCopies == Spec => []CopiesCommittedBytes
<1>1. RingInv => CopiesCommittedBytes
  <2> SUFFICES ASSUME RingInv, NEW i \in Instances, pc[i] = "copy", RoleOf[i] # Filler
               PROVE  /\ CopyPos(i) < markers[Filler]
                      /\ data[CopySlot(i)] = [by |-> author[CopyPos(i)], pos |-> CopyPos(i)]
    BY DEF CopiesCommittedBytes
  <2>0. TypeOK /\ MarkersOrdered /\ Fits(i)
    BY DEF RingInv, TransactionFits
  <2>1. /\ CopyPos(i) \in Nat /\ TailOf(i) <= CopyPos(i)
        /\ CopyPos(i) < TailOf(i) + txSize[i]
        /\ CopySlot(i) = CopyPos(i) % Size
    BY CopySlotIsSlot DEF RingInv
  <2>2. /\ RoleOf[i] \in Roles /\ TailOf(i) \in Nat /\ txSize[i] \in Nat
        /\ TailOf(i) + txSize[i] <= Limit(RoleOf[i])
    BY <2>0, TxTypes DEF Fits
  <2>3. RoleOf[i] + 1 \in Roles /\ Limit(RoleOf[i]) = markers[RoleOf[i] + 1]
    BY <2>2, RoleFacts DEF Limit
  <2>4. /\ markers[RoleOf[i] + 1] <= markers[Filler]
        /\ markers[RoleOf[i] + 1] \in Nat /\ markers[Filler] \in Nat
    BY <2>0, <2>3, RoleFacts DEF MarkersOrdered, TypeOK
  <2>5. markers[0] \in Nat /\ markers[0] <= TailOf(i)
    BY <2>0, TxWithinPool
  <2>6. CopyPos(i) \in markers[0] .. markers[Filler] - 1
    BY <2>1, <2>2, <2>3, <2>4, <2>5
  <2> QED
    BY <2>1, <2>4, <2>6 DEF RingInv, ContentsIntact
<1> QED
  BY <1>1, RingInvariant, PTL

\* The ring buffer is a bounded stream: a commit is one step of it, and nothing
\* else that an instance does can be seen in the markers.
THEOREM RingIsStream == Spec => BoundedStreamSpec
<1>1. Init => Stream!Init
  BY DEF Init, Stream!Init
<1>2. RingInv /\ [Next]_vars => [Stream!Next]_(Stream!vars)
  <2> SUFFICES ASSUME RingInv, Next PROVE Stream!Next \/ UNCHANGED <<markers, author>>
    BY DEF vars, Stream!vars
  <2>1. PICK i \in Instances : Step(i)
    BY DEF Next
  <2>2. CASE CommitTx(i)
    <3>0. TypeOK /\ MarkersOrdered /\ Fits(i)
      BY DEF RingInv, TransactionFits
    <3>1. /\ RoleOf[i] \in Roles /\ TailOf(i) \in Nat /\ txSize[i] \in Nat
          /\ txSize[i] <= Size
      BY <3>0, TxTypes, TxWithinPool
    <3>2. TailOf(i) + txSize[i] <= Limit(RoleOf[i])
      BY <3>0 DEF Fits
    <3>3. CASE txSize[i] = 0
      <4>1. markers' = markers
        BY <2>2, <3>0, <3>1, <3>3 DEF CommitTx, TypeOK
      <4>2. author' = author
        BY <2>2, <3>0, <3>1, <3>3 DEF CommitTx, TypeOK
      <4> QED
        BY <4>1, <4>2
    <3>4. CASE txSize[i] # 0 /\ RoleOf[i] = Filler
      <4>1. Stream!Put(i, txSize[i])
        BY <2>2, <3>1, <3>2, <3>4, RoleFacts DEF CommitTx, Stream!Put, Limit, TailOf
      <4>2. txSize[i] \in 1 .. Size
        BY <3>1, <3>4, RingAssumption
      <4> QED
        BY <4>1, <4>2 DEF Stream!Next
    <3>5. CASE txSize[i] # 0 /\ RoleOf[i] # Filler
      <4>1. Stream!Take(RoleOf[i], txSize[i])
        BY <2>2, <3>1, <3>2, <3>5, RoleFacts DEF CommitTx, Stream!Take, Limit, TailOf
      <4>2. txSize[i] \in 1 .. Size /\ RoleOf[i] \in Roles \ {Filler}
        BY <3>1, <3>5, RingAssumption
      <4> QED
        BY <4>1, <4>2 DEF Stream!Next
    <3> QED
      BY <3>3, <3>4, <3>5
  <2>3. CommitTx(i) \/ UNCHANGED <<markers, author>>
    BY <2>1 DEF Step, StartTx, AccessInTx, IncMarkerInTx, CopyByte, CancelTx,
                EndTransaction, Crash
  <2> QED
    BY <2>2, <2>3
<1> QED
  BY <1>1, <1>2, RingInvariant, PTL DEF Spec, BoundedStreamSpec, Stream!Spec
=============================================================================
