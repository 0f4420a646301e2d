----------------------------- MODULE PipeProofs -----------------------------
(***************************************************************************)
(* What holds of every pipe, whatever the messages, their number and the   *)
(* order in which their pieces arrive.                                     *)
(***************************************************************************)
EXTENDS PipeSteps, PipeOrderProofs, PipeAdvanceProofs, FiniteSetTheorems

\* The operations of a pipe (advanceReadOperation, advanceWriteOperation) stay
\* in order, their flags agree with their states, and what the user was told
\* agrees with both, however calls, callbacks and errors interleave.
THEOREM PipeOrder == Spec => []OrderInv
<1>1. Init => OrderInv
  BY InitOrder
<1>2. OrderInv /\ [Next]_vars => OrderInv'
  BY NextStep, NextOrder, StutterOrder
<1> QED
  BY <1>1, <1>2, PTL DEF Spec

\* Each kind of callback is called once for each operation, in the order of the
\* user's calls, and never with success after a failure: the DCHECKs on the
\* sequence numbers in pipe_impl.cc never fail.
THEOREM PipeCallbacksInOrder == Spec => []CallbacksInOrder
<1>1. OrderInv => CallbacksInOrder
  BY OrderedCalls
<1> QED
  BY <1>1, PipeOrder, PTL

\* A pipe that has met an error (handleError) posts nothing on its connections
\* and channels any more, in any of the transitions of its operations.
THEOREM PipeNothingPostedAfterError == Spec => NothingPostedAfterError
<1> DEFINE Posted == \A p \in Pipes : error[p] => ins'[p] = ins[p] /\ outs'[p] = outs[p]
<1>1. OrderInv /\ [Next]_vars => [Posted]_vars
  BY NextStep, NothingPosted
<1> QED
  BY <1>1, PipeOrder, PTL DEF Spec, NothingPostedAfterError

\* An operation that can advance is one that the task of its pipe has yet to
\* come to: advanceOneReadOperation and advanceOneWriteOperation are called, or
\* looked at again, wherever what they wait for has changed.
THEOREM PipeAdvance == Spec => []AdvanceInv
<1>1. OrderInv /\ OrderInv' /\ AdvanceInv /\ [Next]_vars => AdvanceInv'
  BY NextStep, NextAdvance, StutterAdvance
<1> QED
  BY <1>1, InitAdvance, PipeOrder, PTL DEF Spec

\* When the loop of a pipe has nothing more to do, none of its operations could
\* have gone on: no call, callback or error leaves one behind.
THEOREM PipeNothingLeftToAdvance == Spec => []NothingLeftToAdvance
<1>1. OrderInv /\ AdvanceInv => NothingLeftToAdvance
  BY IdleAdvance
<1> QED
  BY <1>1, PipeOrder, PipeAdvance, PTL

\* A set of numbers that has every number before one it has is an interval.
LEMMA Prefix ==
  ASSUME NEW n \in Nat, NEW S \in SUBSET (1 .. n), \A i, j \in 1 .. n : i <= j /\ j \in S => i \in S
  PROVE  Cardinality(S) \in 0 .. n /\ S = 1 .. Cardinality(S)
<1>1. IsFiniteSet(1 .. n) /\ Cardinality(1 .. n) = n
  BY FS_Interval
<1>2. IsFiniteSet(S) /\ Cardinality(S) \in Nat /\ Cardinality(S) <= n
  BY <1>1, FS_Subset, FS_CardinalityType
<1>3. ASSUME NEW j \in S PROVE j <= Cardinality(S)
  <2>1. 1 .. j \in SUBSET S /\ j \in Nat /\ 1 <= j
    OBVIOUS
  <2>2. Cardinality(1 .. j) = j
    BY <2>1, FS_Interval
  <2> QED
    BY <1>2, <2>1, <2>2, FS_Subset
<1>4. S \in SUBSET (1 .. Cardinality(S))
  BY <1>2, <1>3
<1>5. IsFiniteSet(1 .. Cardinality(S)) /\ Cardinality(1 .. Cardinality(S)) = Cardinality(S)
  BY <1>2, FS_Interval
<1>6. S = 1 .. Cardinality(S)
  BY <1>4, <1>5, FS_Subset
<1> QED
  BY <1>2, <1>6

\* What the counts rest on holds of finite sets.
LEMMA CountingHolds == Counting
<1>1. Cardinality({}) = 0
  BY FS_EmptySet
<1>2. ASSUME NEW n \in Nat, NEW S \in SUBSET (1 .. n)
      PROVE  IsFiniteSet(S) /\ Cardinality(S) \in Nat /\ (Cardinality(S) = 0 => S = {})
  <2>1. IsFiniteSet(1 .. n)
    BY FS_Interval
  <2>2. IsFiniteSet(S)
    BY <2>1, FS_Subset
  <2> QED
    BY <2>2, FS_CardinalityType, FS_EmptySet
<1>3. NumberCounts
  BY <1>1, <1>2 DEF NumberCounts
<1>4. LessCounts
  BY <1>2, FS_RemoveElement DEF LessCounts
<1>5. ASSUME NEW n \in Nat, NEW m \in Nat, NEW S \in SUBSET (1 .. n)
      PROVE  Cardinality(S \cup (n + 1 .. n + m)) = Cardinality(S) + m
  <2> DEFINE T == n + 1 .. n + m
  <2>1. IsFiniteSet(T) /\ Cardinality(T) = m
    BY FS_Interval
  <2>2. S \cap T = {}
    OBVIOUS
  <2> HIDE DEF T
  <2>3. Cardinality(S \cup T) = Cardinality(S) + Cardinality(T) - Cardinality(S \cap T)
    BY <1>2, <2>1, FS_Union
  <2>4. Cardinality(S \cup T) = Cardinality(S) + m
    BY <1>1, <1>2, <2>1, <2>2, <2>3
  <2> QED
    BY <2>4 DEF T
<1>6. MoreCounts
  BY <1>5 DEF MoreCounts
<1>7. PrefixCounts
  BY Prefix DEF PrefixCounts
<1> QED
  BY <1>3, <1>4, <1>6, <1>7 DEF Counting

\* When the user of a pipe has been told of more messages than it has asked to
\* read, the next of them expects the call: the TP_THROW_ASSERT of readFromLoop
\* on the operation that gets an allocation never fails.
THEOREM PipeReadCallFindsItsMessage == Spec => []ReadCallFindsItsMessage
<1>1. OrderInv /\ NothingLeftToAdvance => ReadCallFindsItsMessage
  BY NextMessageExpected, CountingHolds
<1> QED
  BY <1>1, PipeOrder, PipeNothingLeftToAdvance, PTL
=============================================================================
