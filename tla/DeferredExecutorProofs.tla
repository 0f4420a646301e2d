----------------------- MODULE DeferredExecutorProofs -----------------------
(***************************************************************************)
(* Proofs about DeferredExecutor, for any number of threads and of calls.  *)
(***************************************************************************)
EXTENDS DeferredExecutor, TLAPS

(* What the queue operations of the executor do to a run of numbers: the   *)
(* facts about sequences the rest of the proof uses.                       *)
LEMMA AppendNat ==
  ASSUME NEW s \in Seq(Nat), NEW e \in Nat
  PROVE  Append(s, e) \in Seq(Nat) /\ Len(Append(s, e)) = Len(s) + 1
  OBVIOUS

LEMMA HeadTailNat ==
  ASSUME NEW s \in Seq(Nat), s # << >>
  PROVE  Head(s) \in Nat /\ Tail(s) \in Seq(Nat) /\ Len(Tail(s)) = Len(s) - 1
  OBVIOUS

LEMMA EmptyNat == << >> \in Seq(Nat) /\ Len(<< >>) = 0 /\ \A n : HoldsFrom(<< >>, n)
  BY DEF HoldsFrom

LEMMA LenNat == ASSUME NEW s \in Seq(Nat) PROVE Len(s) \in Nat
  OBVIOUS

LEMMA AppendHolds ==
  ASSUME NEW s \in Seq(Nat), NEW n \in Nat, HoldsFrom(s, n)
  PROVE  HoldsFrom(Append(s, n + Len(s) + 1), n)
  BY DEF HoldsFrom

LEMMA TailHolds ==
  ASSUME NEW s \in Seq(Nat), NEW n \in Nat, HoldsFrom(s, n), s # << >>
  PROVE  Head(s) = n + 1 /\ HoldsFrom(Tail(s), n + 1)
  BY DEF HoldsFrom
-----------------------------------------------------------------------------
LEMMA QueuesStep ==
  ASSUME TypeOK, [Next]_vars
  PROVE  QueuesTypeOK'
<1>0. QueuesTypeOK /\ enqueued + 1 \in Nat
  BY DEF TypeOK, ControlTypeOK
<1> USE <1>0 DEF QueuesTypeOK
<1>1. CASE StartThread
  BY <1>1, Zenon DEF StartThread
<1>2. ASSUME NEW t \in Threads, NEW next \in {"idle", "future"}, DeferToLoop(t, next) PROVE QueuesTypeOK'
  BY <1>2, AppendNat, Zenon DEF DeferToLoop
<1>3. ASSUME NEW t \in Threads, OnDemandPush(t) PROVE QueuesTypeOK'
  BY <1>3, AppendNat, Zenon DEF OnDemandPush
<1>4. ASSUME NEW t \in Threads, OnDemandNext(t) PROVE QueuesTypeOK'
  BY <1>4, HeadTailNat, Zenon DEF OnDemandNext
<1>5. ASSUME NEW t \in Threads, DeferFromTask(t) PROVE QueuesTypeOK'
  BY <1>5, AppendNat, Zenon DEF DeferFromTask
<1>6. ASSUME NEW t \in Threads, FinishTask(t) PROVE QueuesTypeOK'
  BY <1>6, Zenon DEF FinishTask
<1>7. ASSUME NEW t \in Threads, GetFuture(t) PROVE QueuesTypeOK'
  BY <1>7, Zenon DEF GetFuture
<1>8. CASE RunDeferredFunctions
  BY <1>8, EmptyNat, Zenon DEF RunDeferredFunctions
<1>9. CASE BatchNext
  BY <1>9, HeadTailNat, Zenon DEF BatchNext
<1>10. CASE EventLoopReturns
  BY <1>10, Zenon DEF EventLoopReturns
<1>11. CASE DrainOrHandOver
  BY <1>11, EmptyNat, Zenon DEF DrainOrHandOver
<1>12. CASE UNCHANGED vars
  BY <1>12 DEF vars
<1> QED
  BY <1>1, <1>2, <1>3, <1>4, <1>5, <1>6, <1>7, <1>8, <1>9, <1>10, <1>11, <1>12 DEF Next

LEMMA ControlStep ==
  ASSUME TypeOK, [Next]_vars
  PROVE  ControlTypeOK'
<1>0. ControlTypeOK /\ QueuesTypeOK
  BY DEF TypeOK
<1>h. /\ batch # << >> => Head(batch) \in Nat
      /\ pendingTasks # << >> => Head(pendingTasks) \in Nat
  BY <1>0, HeadTailNat, Zenon DEF QueuesTypeOK
<1> USE <1>0, <1>h DEF ControlTypeOK, Threads, NoTask, Location, Consuming
<1>1. CASE StartThread
  BY <1>1 DEF StartThread
<1>2. ASSUME NEW t \in Threads, NEW next \in {"idle", "future"}, DeferToLoop(t, next) PROVE ControlTypeOK'
  <2> USE <1>2 DEF DeferToLoop
  <2>1. /\ next \in Location
        /\ (IF next = "future" THEN "pushAndWait" ELSE "push") \in Location
        /\ (IF next = "future" THEN enqueued + 1 ELSE NoTask) \in Nat
    OBVIOUS
  <2> HIDE DEF Location
  <2>2. pc' \in [Threads -> Location]
    BY <2>1
  <2>3. awaiting' \in [Threads -> Nat] /\ enqueued' \in Nat
    BY <2>1
  <2> QED
    BY <2>2, <2>3
<1>3. ASSUME NEW t \in Threads, OnDemandPush(t) PROVE ControlTypeOK'
  BY <1>3 DEF OnDemandPush, AfterDefer
<1>4. ASSUME NEW t \in Threads, OnDemandNext(t) PROVE ControlTypeOK'
  BY <1>4 DEF OnDemandNext, AfterDefer
<1>5. ASSUME NEW t \in Threads, DeferFromTask(t) PROVE ControlTypeOK'
  BY <1>5 DEF DeferFromTask
<1>6. ASSUME NEW t \in Threads, FinishTask(t) PROVE ControlTypeOK'
  BY <1>6 DEF FinishTask
<1>7. ASSUME NEW t \in Threads, GetFuture(t) PROVE ControlTypeOK'
  BY <1>7 DEF GetFuture
<1>8. CASE RunDeferredFunctions
  BY <1>8 DEF RunDeferredFunctions
<1>9. CASE BatchNext
  BY <1>9 DEF BatchNext
<1>10. CASE EventLoopReturns
  BY <1>10 DEF EventLoopReturns
<1>11. CASE DrainOrHandOver
  BY <1>11 DEF DrainOrHandOver
<1>12. CASE UNCHANGED vars
  BY <1>12 DEF vars
<1> QED
  BY <1>1, <1>2, <1>3, <1>4, <1>5, <1>6, <1>7, <1>8, <1>9, <1>10, <1>11, <1>12 DEF Next

LEMMA EventLoopAloneStep ==
  ASSUME ControlTypeOK, EventLoopAlone, UnusedBeforeStart, OnDemandOwner, [Next]_vars
  PROVE  EventLoopAlone'
<1> USE ThreadsAssumption DEF ControlTypeOK, EventLoopAlone, UnusedBeforeStart, OnDemandOwner,
          Threads, NoTask, Location, Consuming, InLoop
<1>1. CASE StartThread
  BY <1>1 DEF StartThread
<1>2. ASSUME NEW t \in Threads, NEW next \in {"idle", "future"}, DeferToLoop(t, next) PROVE EventLoopAlone'
  BY <1>2 DEF DeferToLoop
<1>3. ASSUME NEW t \in Threads, OnDemandPush(t) PROVE EventLoopAlone'
  BY <1>3 DEF OnDemandPush, AfterDefer
<1>4. ASSUME NEW t \in Threads, OnDemandNext(t) PROVE EventLoopAlone'
  BY <1>4 DEF OnDemandNext, AfterDefer
<1>5. ASSUME NEW t \in Threads, DeferFromTask(t) PROVE EventLoopAlone'
  BY <1>5 DEF DeferFromTask
<1>6. ASSUME NEW t \in Threads, FinishTask(t) PROVE EventLoopAlone'
  BY <1>6 DEF FinishTask
<1>7. ASSUME NEW t \in Threads, GetFuture(t) PROVE EventLoopAlone'
  BY <1>7 DEF GetFuture
<1>8. CASE RunDeferredFunctions
  BY <1>8 DEF RunDeferredFunctions, BatchDone
<1>9. CASE BatchNext
  BY <1>9 DEF BatchNext
<1>10. CASE EventLoopReturns
  BY <1>10 DEF EventLoopReturns, BatchDone
<1>11. CASE DrainOrHandOver
  BY <1>11 DEF DrainOrHandOver, BatchDone
<1>12. CASE UNCHANGED vars
  BY <1>12 DEF vars
<1> QED
  BY <1>1, <1>2, <1>3, <1>4, <1>5, <1>6, <1>7, <1>8, <1>9, <1>10, <1>11, <1>12 DEF Next

LEMMA UnusedBeforeStartStep ==
  ASSUME ControlTypeOK, EventLoopAlone, UnusedBeforeStart, OnDemandOwner, [Next]_vars
  PROVE  UnusedBeforeStart'
<1> USE ThreadsAssumption DEF ControlTypeOK, EventLoopAlone, UnusedBeforeStart, OnDemandOwner,
          Threads, NoTask, Location, Consuming, InLoop
<1>1. CASE StartThread
  BY <1>1 DEF StartThread
<1>2. ASSUME NEW t \in Threads, NEW next \in {"idle", "future"}, DeferToLoop(t, next) PROVE UnusedBeforeStart'
  BY <1>2 DEF DeferToLoop
<1>3. ASSUME NEW t \in Threads, OnDemandPush(t) PROVE UnusedBeforeStart'
  BY <1>3 DEF OnDemandPush, AfterDefer
<1>4. ASSUME NEW t \in Threads, OnDemandNext(t) PROVE UnusedBeforeStart'
  BY <1>4 DEF OnDemandNext, AfterDefer
<1>5. ASSUME NEW t \in Threads, DeferFromTask(t) PROVE UnusedBeforeStart'
  BY <1>5 DEF DeferFromTask
<1>6. ASSUME NEW t \in Threads, FinishTask(t) PROVE UnusedBeforeStart'
  BY <1>6 DEF FinishTask
<1>7. ASSUME NEW t \in Threads, GetFuture(t) PROVE UnusedBeforeStart'
  BY <1>7 DEF GetFuture
<1>8. CASE RunDeferredFunctions
  BY <1>8 DEF RunDeferredFunctions, BatchDone
<1>9. CASE BatchNext
  BY <1>9 DEF BatchNext
<1>10. CASE EventLoopReturns
  BY <1>10 DEF EventLoopReturns, BatchDone
<1>11. CASE DrainOrHandOver
  BY <1>11 DEF DrainOrHandOver, BatchDone
<1>12. CASE UNCHANGED vars
  BY <1>12 DEF vars
<1> QED
  BY <1>1, <1>2, <1>3, <1>4, <1>5, <1>6, <1>7, <1>8, <1>9, <1>10, <1>11, <1>12 DEF Next

LEMMA OnDemandOwnerStep ==
  ASSUME ControlTypeOK, EventLoopAlone, UnusedBeforeStart, OnDemandOwner, [Next]_vars
  PROVE  OnDemandOwner'
<1> USE ThreadsAssumption DEF ControlTypeOK, EventLoopAlone, UnusedBeforeStart, OnDemandOwner,
          Threads, NoTask, Location, Consuming, InLoop
<1>1. CASE StartThread
  BY <1>1 DEF StartThread
<1>2. ASSUME NEW t \in Threads, NEW next \in {"idle", "future"}, DeferToLoop(t, next) PROVE OnDemandOwner'
  BY <1>2 DEF DeferToLoop
<1>3. ASSUME NEW t \in Threads, OnDemandPush(t) PROVE OnDemandOwner'
  BY <1>3 DEF OnDemandPush, AfterDefer
<1>4. ASSUME NEW t \in Threads, OnDemandNext(t) PROVE OnDemandOwner'
  BY <1>4 DEF OnDemandNext, AfterDefer
<1>5. ASSUME NEW t \in Threads, DeferFromTask(t) PROVE OnDemandOwner'
  BY <1>5 DEF DeferFromTask
<1>6. ASSUME NEW t \in Threads, FinishTask(t) PROVE OnDemandOwner'
  BY <1>6 DEF FinishTask
<1>7. ASSUME NEW t \in Threads, GetFuture(t) PROVE OnDemandOwner'
  BY <1>7 DEF GetFuture
<1>8. CASE RunDeferredFunctions
  BY <1>8 DEF RunDeferredFunctions, BatchDone
<1>9. CASE BatchNext
  BY <1>9 DEF BatchNext
<1>10. CASE EventLoopReturns
  BY <1>10 DEF EventLoopReturns, BatchDone
<1>11. CASE DrainOrHandOver
  BY <1>11 DEF DrainOrHandOver, BatchDone
<1>12. CASE UNCHANGED vars
  BY <1>12 DEF vars
<1> QED
  BY <1>1, <1>2, <1>3, <1>4, <1>5, <1>6, <1>7, <1>8, <1>9, <1>10, <1>11, <1>12 DEF Next

(* Each action leaves the tasks not yet begun numbered from lastRun on: a  *)
(* deferral appends the next number, a beginning takes the first one away, *)
(* a swap moves all of them.                                               *)
LEMMA ConsecutiveStep ==
  ASSUME TypeOK, EventLoopAlone, OnDemandOwner, Consecutive, [Next]_vars
  PROVE  Consecutive'
<1>0. /\ fns \in Seq(Nat) /\ batch \in Seq(Nat) /\ pendingTasks \in Seq(Nat)
      /\ Len(fns) \in Nat /\ Len(batch) \in Nat /\ Len(pendingTasks) \in Nat
      /\ enqueued \in Nat /\ lastRun \in Nat
      /\ lastRun + Len(batch) \in Nat
  BY LenNat DEF TypeOK, QueuesTypeOK, ControlTypeOK
<1>a. ASSUME Consuming, fns' = Append(fns, enqueued + 1), enqueued' = enqueued + 1,
             UNCHANGED <<batch, pendingTasks, lastRun>>
      PROVE  Consecutive'
  <2>1. pendingTasks = << >> /\ Len(pendingTasks) = 0
    BY <1>a, EmptyNat DEF EventLoopAlone
  <2>2. enqueued + 1 = (lastRun + Len(batch)) + Len(fns) + 1
    BY <1>0, <2>1 DEF Consecutive
  <2>3. HoldsFrom(fns', lastRun + Len(batch))
    BY <1>0, <1>a, <2>2, AppendHolds, Zenon DEF Consecutive
  <2>4. Len(fns') = Len(fns) + 1
    BY <1>0, <1>a, AppendNat
  <2> QED
    BY <1>0, <1>a, <2>3, <2>4 DEF Consecutive
<1>b. ASSUME ~Consuming, pendingTasks' = Append(pendingTasks, enqueued + 1),
             enqueued' = enqueued + 1, UNCHANGED <<fns, batch, lastRun>>
      PROVE  Consecutive'
  <2>1. Len(fns) = 0 /\ Len(batch) = 0
    BY <1>b, EmptyNat DEF EventLoopAlone
  <2>2. enqueued + 1 = lastRun + Len(pendingTasks) + 1
    BY <1>0, <2>1 DEF Consecutive
  <2>3. HoldsFrom(pendingTasks', lastRun)
    BY <1>0, <1>b, <2>2, AppendHolds, Zenon DEF Consecutive
  <2>4. Len(pendingTasks') = Len(pendingTasks) + 1
    BY <1>0, <1>b, AppendNat
  <2> QED
    BY <1>0, <1>b, <2>3, <2>4 DEF Consecutive
<1>c. ASSUME batch = << >>, batch' = fns, fns' = << >>, UNCHANGED <<pendingTasks, lastRun, enqueued>>
      PROVE  Consecutive'
  <2>1. Len(batch) = 0 /\ Len(fns') = 0 /\ HoldsFrom(fns', lastRun' + Len(batch'))
    BY <1>c, EmptyNat
  <2>2. lastRun + Len(batch) = lastRun
    BY <1>0, <2>1
  <2>3. HoldsFrom(batch', lastRun')
    BY <1>c, <2>2 DEF Consecutive
  <2> QED
    BY <1>0, <1>c, <2>1, <2>3 DEF Consecutive
<1>d. ASSUME UNCHANGED <<fns, batch, pendingTasks, enqueued, lastRun>>
      PROVE  Consecutive'
  BY <1>d DEF Consecutive, HoldsFrom
<1>1. CASE StartThread
  BY <1>1, <1>d DEF StartThread
<1>2. ASSUME NEW t \in Threads, NEW next \in {"idle", "future"}, DeferToLoop(t, next) PROVE Consecutive'
  BY <1>2, <1>a, <1>d DEF DeferToLoop
<1>3. ASSUME NEW t \in Threads, OnDemandPush(t) PROVE Consecutive'
  BY <1>3, <1>b DEF OnDemandPush, EventLoopAlone
<1>4. ASSUME NEW t \in Threads, OnDemandNext(t) PROVE Consecutive'
  <2>1. CASE pendingTasks = << >>
    BY <1>4, <1>d, <2>1 DEF OnDemandNext
  <2>2. CASE pendingTasks # << >>
    <3>1. /\ lastRun' = Head(pendingTasks) /\ pendingTasks' = Tail(pendingTasks)
          /\ UNCHANGED <<fns, batch, enqueued>>
      BY <1>4, <2>2 DEF OnDemandNext
    <3>2. Len(fns) = 0 /\ Len(batch) = 0 /\ fns = << >> /\ batch = << >>
      BY <2>2, EmptyNat DEF EventLoopAlone
    <3>3. lastRun' = lastRun + 1 /\ HoldsFrom(pendingTasks', lastRun')
      BY <1>0, <2>2, <3>1, TailHolds, Zenon DEF Consecutive
    <3>4. Len(pendingTasks') = Len(pendingTasks) - 1
      BY <1>0, <2>2, <3>1, HeadTailNat
    <3>5. HoldsFrom(fns', lastRun' + Len(batch')) /\ HoldsFrom(batch', lastRun')
      BY <3>1, <3>2, EmptyNat
    <3> QED
      BY <1>0, <3>1, <3>2, <3>3, <3>4, <3>5 DEF Consecutive
  <2> QED
    BY <2>1, <2>2
<1>5. ASSUME NEW t \in Threads, DeferFromTask(t) PROVE Consecutive'
  BY <1>5, <1>a, <1>b DEF DeferFromTask
<1>6. ASSUME NEW t \in Threads, FinishTask(t) PROVE Consecutive'
  BY <1>6, <1>d DEF FinishTask
<1>7. ASSUME NEW t \in Threads, GetFuture(t) PROVE Consecutive'
  BY <1>7, <1>d DEF GetFuture
<1>8. CASE RunDeferredFunctions
  BY <1>8, <1>c DEF RunDeferredFunctions, BatchDone
<1>9. CASE BatchNext
  <2>1. /\ lastRun' = Head(batch) /\ batch' = Tail(batch) /\ batch # << >>
        /\ UNCHANGED <<fns, pendingTasks, enqueued>>
    BY <1>9 DEF BatchNext
  <2>2. pendingTasks = << >> /\ Len(pendingTasks) = 0
    BY <2>1, EmptyNat DEF EventLoopAlone
  <2>a. Head(batch) = lastRun + 1 /\ HoldsFrom(Tail(batch), lastRun + 1)
    BY <1>0, <2>1, TailHolds, Zenon DEF Consecutive
  <2>3. lastRun' = lastRun + 1 /\ HoldsFrom(batch', lastRun')
    BY <2>1, <2>a
  <2>4. Len(batch') = Len(batch) - 1
    BY <1>0, <2>1, HeadTailNat
  <2>5. lastRun' + Len(batch') = lastRun + Len(batch)
    BY <1>0, <2>3, <2>4
  <2>6. HoldsFrom(fns', lastRun' + Len(batch')) /\ HoldsFrom(pendingTasks', lastRun')
    BY <2>1, <2>2, <2>5, EmptyNat DEF Consecutive
  <2> QED
    BY <1>0, <2>1, <2>2, <2>3, <2>4, <2>6 DEF Consecutive
<1>10. CASE EventLoopReturns
  BY <1>10, <1>d DEF EventLoopReturns
<1>11. CASE DrainOrHandOver
  BY <1>11, <1>c, <1>d DEF DrainOrHandOver, BatchDone
<1>12. CASE UNCHANGED vars
  BY <1>12, <1>d DEF vars
<1> QED
  BY <1>1, <1>2, <1>3, <1>4, <1>5, <1>6, <1>7, <1>8, <1>9, <1>10, <1>11, <1>12 DEF Next

LEMMA InitInv == Init => ExecutorInv
<1> SUFFICES ASSUME Init PROVE ExecutorInv
  OBVIOUS
<1> USE ThreadsAssumption DEF Init, Threads, NoTask
<1>1. QueuesTypeOK
  BY EmptyNat, Zenon DEF QueuesTypeOK
<1>2. ControlTypeOK
  BY DEF ControlTypeOK, Location
<1>3. EventLoopAlone
  BY DEF EventLoopAlone, Consuming
<1>4. UnusedBeforeStart
  BY DEF UnusedBeforeStart
<1>5. OnDemandOwner
  BY DEF OnDemandOwner, InLoop, Consuming
<1>6. Consecutive
  BY EmptyNat DEF Consecutive
<1> QED
  BY <1>1, <1>2, <1>3, <1>4, <1>5, <1>6 DEF ExecutorInv, TypeOK

(* ExecutorInv is inductive.                                               *)
LEMMA InvStep == ExecutorInv /\ [Next]_vars => ExecutorInv'
<1> SUFFICES ASSUME ExecutorInv, [Next]_vars PROVE ExecutorInv'
  OBVIOUS
<1>1. TypeOK'
  BY QueuesStep, ControlStep DEF ExecutorInv, TypeOK
<1>2. EventLoopAlone' /\ UnusedBeforeStart' /\ OnDemandOwner'
  BY EventLoopAloneStep, UnusedBeforeStartStep, OnDemandOwnerStep DEF ExecutorInv, TypeOK
<1>3. Consecutive'
  BY ConsecutiveStep DEF ExecutorInv
<1> QED
  BY <1>1, <1>2, <1>3 DEF ExecutorInv

(* The executor keeps its inductive invariant, whatever the number of      *)
(* threads that defer to it and of the calls they make.                    *)
THEOREM ExecutorInvariant == Spec => []ExecutorInv
  BY InitInv, InvStep, PTL DEF Spec

(* Every variable of the executor keeps its type.                          *)
THEOREM ExecutorTypes == Spec => []TypeOK
<1>1. ExecutorInv => TypeOK
  BY DEF ExecutorInv
<1> QED
  BY <1>1, ExecutorInvariant, PTL

(* No two threads are ever inside of tasks of one executor: whoever runs a *)
(* task is the event loop's thread before the handover and currentLoop_    *)
(* after it.                                                               *)
THEOREM ExecutorMutualExclusion == Spec => []MutualExclusion
<1>1. ExecutorInv => MutualExclusion
  BY DEF ExecutorInv, OnDemandOwner, MutualExclusion, InLoop
<1> QED
  BY <1>1, ExecutorInvariant, PTL

(* inLoop() tells the thread that is inside of a task from all others.     *)
THEOREM ExecutorInLoop == Spec => []InLoopIsRunningThread
<1>1. ExecutorInv => InLoopIsRunningThread
  BY DEF ExecutorInv, OnDemandOwner, InLoopIsRunningThread, InLoop
<1> QED
  BY <1>1, ExecutorInvariant, PTL

(* A deferred function is only ever where some thread will look for it.    *)
THEOREM ExecutorStrandsNothing == Spec => []NothingStranded
<1>1. ExecutorInv => NothingStranded
  BY DEF ExecutorInv, TypeOK, ControlTypeOK, EventLoopAlone, OnDemandOwner, NothingStranded
<1> QED
  BY <1>1, ExecutorInvariant, PTL

(* Tasks begin one after the other in the order of their deferral.         *)
THEOREM ExecutorBeginsInOrder == Spec => BeginInOrder
<1>1. ExecutorInv /\ [Next]_vars => [lastRun' # lastRun => lastRun' = lastRun + 1]_vars
  <2> SUFFICES ASSUME ExecutorInv, [Next]_vars, lastRun' # lastRun
               PROVE  lastRun' = lastRun + 1
    OBVIOUS
  <2>0. batch \in Seq(Nat) /\ pendingTasks \in Seq(Nat) /\ lastRun \in Nat
    BY DEF ExecutorInv, TypeOK, QueuesTypeOK, ControlTypeOK
  <2>1. \/ pendingTasks # << >> /\ lastRun' = Head(pendingTasks)
        \/ batch # << >> /\ lastRun' = Head(batch)
    BY DEF Next, vars, StartThread, DeferToLoop, OnDemandPush, OnDemandNext, DeferFromTask,
           FinishTask, GetFuture, RunDeferredFunctions, BatchNext, EventLoopReturns, DrainOrHandOver
  <2> QED
    BY <2>0, <2>1, TailHolds, Zenon DEF ExecutorInv, Consecutive
<1> QED
  BY <1>1, ExecutorInvariant, PTL DEF Spec, BeginInOrder
-----------------------------------------------------------------------------
(* What a concatenation does at its ends: the queue of the serial executor *)
(* is batch \o fns while the event loop consumes the functions.            *)
LEMMA ConcatNat ==
  ASSUME NEW s \in Seq(Nat), NEW r \in Seq(Nat), NEW e \in Nat
  PROVE  /\ s \o Append(r, e) = Append(s \o r, e)
         /\ << >> \o r = r
         /\ s \o << >> = s
  OBVIOUS

LEMMA ConcatHead ==
  ASSUME NEW s \in Seq(Nat), NEW r \in Seq(Nat), s # << >>
  PROVE  /\ s \o r # << >>
         /\ Head(s \o r) = Head(s)
         /\ Tail(s \o r) = Tail(s) \o r
  OBVIOUS

LEMMA CurrentIsRunning ==
  ASSUME MutualExclusion
  PROVE  /\ \A t \in Threads : running[t] # NoTask => CurrentTask = running[t]
         /\ (\A t \in Threads : running[t] = NoTask) => CurrentTask = NoTask
<1>1. ASSUME NEW t \in Threads, running[t] # NoTask PROVE CurrentTask = running[t]
  <2>1. (CHOOSE u \in Threads : running[u] # NoTask) = t
    BY <1>1 DEF MutualExclusion
  <2> QED
    BY <1>1, <2>1 DEF CurrentTask
<1>2. ASSUME \A t \in Threads : running[t] = NoTask PROVE CurrentTask = NoTask
  BY <1>2 DEF CurrentTask
<1> QED
  BY <1>1, <1>2

(* A step that changes no task and no queue is a stutter of the serial     *)
(* executor.                                                               *)
LEMMA SerialStutter ==
  ASSUME UNCHANGED <<running, TaskQueue, enqueued>>
  PROVE  UNCHANGED Serial!vars
<1>1. CurrentTask' = CurrentTask
  BY DEF CurrentTask
<1> QED
  BY <1>1 DEF Serial!vars

(* Each step of the two loops is a step of the serial executor or a        *)
(* stutter.                                                                *)
LEMMA SerialStep ==
  ASSUME ExecutorInv, ExecutorInv', [Next]_vars
  PROVE  [Serial!Next]_Serial!vars
<1> DEFINE Goal == [Serial!Next]_Serial!vars
<1>0. /\ fns \in Seq(Nat) /\ batch \in Seq(Nat) /\ pendingTasks \in Seq(Nat)
      /\ enqueued + 1 \in Nat
      /\ running \in [Threads -> Nat]
  BY DEF ExecutorInv, TypeOK, QueuesTypeOK, ControlTypeOK
<1>m. MutualExclusion /\ MutualExclusion'
  BY DEF ExecutorInv, OnDemandOwner, MutualExclusion, InLoop
<1>c. /\ \A t \in Threads : running[t] # NoTask => CurrentTask = running[t]
      /\ (\A t \in Threads : running[t] = NoTask) => CurrentTask = NoTask
  BY <1>m, CurrentIsRunning
<1>d. /\ \A t \in Threads : running'[t] # NoTask => CurrentTask' = running'[t]
      /\ (\A t \in Threads : running'[t] = NoTask) => CurrentTask' = NoTask
  BY <1>m DEF MutualExclusion, CurrentTask
<1>e. ASSUME Consuming, UNCHANGED <<consumer, batch, running>>,
             fns' = Append(fns, enqueued + 1), enqueued' = enqueued + 1
      PROVE  Serial!Defer
  <2>0. batch \o Append(fns, enqueued + 1) = Append(batch \o fns, enqueued + 1)
    BY <1>0, ConcatNat, Zenon
  <2>1. TaskQueue' = Append(TaskQueue, enqueued + 1)
    BY <1>e, <2>0 DEF TaskQueue, Consuming
  <2>2. CurrentTask' = CurrentTask
    BY <1>e DEF CurrentTask
  <2> QED
    BY <1>e, <2>1, <2>2 DEF Serial!Defer
<1>f. ASSUME ~Consuming, UNCHANGED <<consumer, running>>,
             pendingTasks' = Append(pendingTasks, enqueued + 1), enqueued' = enqueued + 1
      PROVE  Serial!Defer
  <2>1. TaskQueue' = Append(TaskQueue, enqueued + 1)
    BY <1>f, Zenon DEF TaskQueue, Consuming
  <2>2. CurrentTask' = CurrentTask
    BY <1>f DEF CurrentTask
  <2> QED
    BY <1>f, <2>1, <2>2 DEF Serial!Defer
<1>1. CASE StartThread
  <2>1. /\ pendingTasks = << >> /\ fns = << >> /\ batch = << >>
        /\ ~Consuming /\ Consuming'
        /\ UNCHANGED <<fns, batch, running, enqueued>>
    BY <1>1 DEF StartThread, ExecutorInv, EventLoopAlone, UnusedBeforeStart, Consuming
  <2>2. TaskQueue = << >> /\ TaskQueue' = << >>
    BY <2>1, EmptyNat, ConcatNat, Zenon DEF TaskQueue
  <2> QED
    BY <2>1, <2>2, SerialStutter
<1>2. ASSUME NEW t \in Threads, NEW next \in {"idle", "future"}, DeferToLoop(t, next) PROVE Goal
  <2>1. CASE Consuming
    BY <1>2, <1>e, <2>1 DEF DeferToLoop, Serial!Next
  <2>2. CASE ~Consuming
    BY <1>2, <2>2, SerialStutter DEF DeferToLoop, TaskQueue, Consuming
  <2> QED
    BY <2>1, <2>2
<1>3. ASSUME NEW t \in Threads, OnDemandPush(t) PROVE Goal
  BY <1>3, <1>f DEF OnDemandPush, Serial!Next, ExecutorInv, EventLoopAlone
<1>4. ASSUME NEW t \in Threads, OnDemandNext(t) PROVE Goal
  <2>1. CASE pendingTasks = << >>
    BY <1>4, <2>1, SerialStutter DEF OnDemandNext, TaskQueue, Consuming
  <2>2. CASE pendingTasks # << >>
    <3>1. ~Consuming /\ ~Consuming'
      BY <1>4, <2>2 DEF OnDemandNext, ExecutorInv, EventLoopAlone, Consuming
    <3>2. TaskQueue = pendingTasks /\ TaskQueue' = Tail(TaskQueue) /\ enqueued' = enqueued
      BY <1>4, <2>2, <3>1 DEF OnDemandNext, TaskQueue
    <3>3. running'[t] = Head(pendingTasks)
      BY <1>0, <1>4, <2>2 DEF OnDemandNext
    <3>4. Head(pendingTasks) # NoTask
      <4>1. lastRun \in Nat /\ HoldsFrom(pendingTasks, lastRun)
        BY DEF ExecutorInv, TypeOK, ControlTypeOK, Consecutive
      <4>2. Head(pendingTasks) = lastRun + 1
        BY <1>0, <2>2, <4>1, TailHolds, Zenon
      <4> QED
        BY <4>1, <4>2 DEF NoTask
    <3>5. \A u \in Threads : running[u] = NoTask
      BY <1>4, <2>2, <3>1 DEF OnDemandNext, ExecutorInv, OnDemandOwner, InLoop
    <3>6. CurrentTask = 0 /\ CurrentTask' = Head(TaskQueue)
      BY <1>c, <1>d, <3>2, <3>3, <3>4, <3>5 DEF NoTask
    <3> QED
      BY <2>2, <3>2, <3>6 DEF Serial!Next, Serial!Begin
  <2> QED
    BY <2>1, <2>2
<1>5. ASSUME NEW t \in Threads, DeferFromTask(t) PROVE Goal
  BY <1>5, <1>e, <1>f DEF DeferFromTask, Serial!Next
<1>6. ASSUME NEW t \in Threads, FinishTask(t) PROVE Goal
  <2>1. CurrentTask # 0
    BY <1>6, <1>c DEF FinishTask, NoTask
  <2>2. \A u \in Threads : running'[u] = NoTask
    BY <1>0, <1>6, <1>m DEF FinishTask, MutualExclusion, NoTask
  <2>3. CurrentTask' = 0
    BY <1>d, <2>2 DEF NoTask
  <2>4. TaskQueue' = TaskQueue /\ enqueued' = enqueued
    BY <1>6 DEF FinishTask, TaskQueue, Consuming
  <2> QED
    BY <2>1, <2>3, <2>4 DEF Serial!Next, Serial!End
<1>7. ASSUME NEW t \in Threads, GetFuture(t) PROVE Goal
  BY <1>7, SerialStutter DEF GetFuture, TaskQueue, Consuming
<1>s. ASSUME batch = << >>, batch' = fns, fns' = << >>, Consuming, Consuming'
      PROVE  TaskQueue' = TaskQueue
  BY <1>0, <1>s, ConcatNat, EmptyNat, Zenon DEF TaskQueue
<1>8. CASE RunDeferredFunctions
  <2>1. Consuming /\ Consuming'
    BY <1>8 DEF RunDeferredFunctions, ExecutorInv, EventLoopAlone, Consuming
  <2> QED
    BY <1>8, <1>s, <2>1, SerialStutter DEF RunDeferredFunctions, BatchDone
<1>9. CASE BatchNext
  <2>1. Consuming /\ Consuming' /\ batch # << >> /\ enqueued' = enqueued
    BY <1>9 DEF BatchNext, ExecutorInv, EventLoopAlone, Consuming
  <2>2. batch' = Tail(batch) /\ fns' = fns
    BY <1>9 DEF BatchNext
  <2>3. TaskQueue # << >> /\ Head(TaskQueue) = Head(batch) /\ TaskQueue' = Tail(TaskQueue)
    BY <1>0, <2>1, <2>2, ConcatHead, Zenon DEF TaskQueue
  <2>4. running'[LoopThread] = Head(batch)
    BY <1>0, <1>9 DEF BatchNext, Threads
  <2>5. Head(batch) # NoTask
    <3>1. lastRun \in Nat /\ HoldsFrom(batch, lastRun)
      BY DEF ExecutorInv, TypeOK, ControlTypeOK, Consecutive
    <3>2. Head(batch) = lastRun + 1
      BY <1>0, <2>1, <3>1, TailHolds, Zenon
    <3> QED
      BY <3>1, <3>2 DEF NoTask
  <2>6. \A u \in Threads : running[u] = NoTask
    BY <1>9, <2>1 DEF BatchNext, ExecutorInv, OnDemandOwner, InLoop
  <2>7. CurrentTask = 0 /\ CurrentTask' = Head(TaskQueue)
    BY <1>c, <1>d, <2>3, <2>4, <2>5, <2>6 DEF NoTask, Threads
  <2> QED
    BY <2>1, <2>3, <2>7 DEF Serial!Next, Serial!Begin
<1>10. CASE EventLoopReturns
  BY <1>10, SerialStutter DEF EventLoopReturns, TaskQueue, Consuming
<1>11. CASE DrainOrHandOver
  <2>1. Consuming /\ batch = << >> /\ pendingTasks = << >>
    BY <1>11 DEF DrainOrHandOver, BatchDone, ExecutorInv, EventLoopAlone
  <2>2. CASE fns = << >>
    <3>1. ~Consuming' /\ pendingTasks' = << >>
      BY <1>11, <2>1, <2>2 DEF DrainOrHandOver, Consuming
    <3>2. TaskQueue = << >> /\ TaskQueue' = << >>
      BY <2>1, <2>2, <3>1, ConcatNat, EmptyNat, Zenon DEF TaskQueue
    <3> QED
      BY <1>11, <3>2, SerialStutter DEF DrainOrHandOver
  <2>3. CASE fns # << >>
    <3>1. Consuming' /\ batch' = fns /\ fns' = << >>
      BY <1>11, <2>1, <2>3 DEF DrainOrHandOver, Consuming
    <3> QED
      BY <1>11, <1>s, <2>1, <3>1, SerialStutter DEF DrainOrHandOver
  <2> QED
    BY <2>2, <2>3
<1>12. CASE UNCHANGED vars
  BY <1>12, SerialStutter DEF vars, TaskQueue, Consuming
<1> QED
  BY <1>1, <1>2, <1>3, <1>4, <1>5, <1>6, <1>7, <1>8, <1>9, <1>10, <1>11, <1>12 DEF Next

LEMMA SerialInit == Init => Serial!Init
<1> SUFFICES ASSUME Init PROVE Serial!Init
  OBVIOUS
<1>1. TaskQueue = << >> /\ enqueued = 0
  BY DEF Init, TaskQueue, Consuming
<1>2. CurrentTask = 0
  BY DEF Init, CurrentTask, NoTask
<1> QED
  BY <1>1, <1>2 DEF Serial!Init

(* The event loop, the on-demand loop and the handover between them        *)
(* implement one serial executor, for any threads and any number of calls. *)
THEOREM ExecutorIsSerial == Spec => SerialSpec
<1>1. Init => Serial!Init
  BY SerialInit
<1>2. ExecutorInv /\ ExecutorInv' /\ [Next]_vars => [Serial!Next]_Serial!vars
  BY SerialStep
<1> QED
  BY <1>1, <1>2, ExecutorInvariant, PTL DEF Spec, SerialSpec, Serial!Spec
=============================================================================
