-------------------------- MODULE DeferredExecutor --------------------------
(***************************************************************************)
(* The loops every object of the library defers its operations to          *)
(* (common/deferred_executor.h): EventLoopDeferredExecutor, whose thread   *)
(* runs the deferred functions, and the OnDemandDeferredExecutor it hands  *)
(* over to when that thread winds down, which borrows the thread of        *)
(* whoever defers a task.  Each critical section of a mutex is one step.   *)
(* A task is a number: the position at which it was enqueued, from 1 on.   *)
(***************************************************************************)
EXTENDS Integers, Sequences

CONSTANTS
  Users,       \* threads that use the library
  LoopThread,  \* thread_, owned by the EventLoopDeferredExecutor
  NoThread,    \* std::thread::id()
  MaxCalls     \* bound on the calls to deferToLoop

ASSUME ThreadsAssumption ==
  /\ LoopThread \notin Users
  /\ NoThread \notin Users \cup {LoopThread}

ASSUME BoundAssumption == MaxCalls \in Nat

VARIABLES
  consumer,      \* "thread" if isThreadConsumingDeferredFunctions_, else "onDemand"
  fns,           \* fns_
  batch,         \* what is left of the functions swapped out of fns_
  pendingTasks,  \* onDemandLoop_.pendingTasks_
  currentLoop,   \* onDemandLoop_.currentLoop_
  pc,            \* where each thread is
  running,       \* the task each thread is inside of
  awaiting,      \* the task whose future a thread will get, in runInLoop
  enqueued,      \* how many tasks were enqueued
  lastRun,       \* the last task that began to run
  calls          \* how many calls to deferToLoop were made

vars == <<consumer, fns, batch, pendingTasks, currentLoop, pc, running,
          awaiting, enqueued, lastRun, calls>>

Threads == Users \cup {LoopThread}
NoTask == 0

(* "idle": outside of the executor; "push": found the event loop gone and  *)
(* is about to defer to the on-demand loop ("pushAndWait" in runInLoop);   *)
(* "loop": in the while loop of the on-demand executor; "future": waiting  *)
(* in future.get().  For the event loop's own thread: "off", "poll" in     *)
(* eventLoop(), "drain" in the loop that follows it.                       *)
Location == {"idle", "push", "pushAndWait", "loop", "future", "off", "poll", "drain"}

Init ==
  /\ consumer = "onDemand"
  /\ fns = << >>
  /\ batch = << >>
  /\ pendingTasks = << >>
  /\ currentLoop = NoThread
  /\ pc = [t \in Threads |-> IF t = LoopThread THEN "off" ELSE "idle"]
  /\ running = [t \in Threads |-> NoTask]
  /\ awaiting = [t \in Threads |-> NoTask]
  /\ enqueued = 0
  /\ lastRun = NoTask
  /\ calls = 0

-----------------------------------------------------------------------------
(* isThreadConsumingDeferredFunctions_ *)
Consuming == consumer = "thread"

(* Faulty variant: forgets that the thread's time is over after handover.  *)
InLoopIgnoringHandover(t) == t = LoopThread \/ currentLoop = t

InLoop(t) == IF Consuming THEN t = LoopThread ELSE currentLoop = t

(* The thread is started by the constructor of a viable subclass, before   *)
(* anybody can defer to the loop; that of a non-viable one never is.       *)
StartThread ==
  /\ pc[LoopThread] = "off"
  /\ calls = 0
  /\ consumer' = "thread"
  /\ pc' = [pc EXCEPT ![LoopThread] = "poll"]
  /\ UNCHANGED <<fns, batch, pendingTasks, currentLoop, running, awaiting,
                 enqueued, lastRun, calls>>

(* Once it has left deferToLoop, a caller of runInLoop gets the future.    *)
AfterDefer(task) == IF task = NoTask THEN "idle" ELSE "future"

(* EventLoopDeferredExecutor::deferToLoop by a thread that runs no task;   *)
(* what it does "next" tells the calls made by runInLoop, which get the    *)
(* future, from the others.                                                *)
DeferToLoop(t, next) ==
  /\ pc[t] = "idle"
  /\ calls < MaxCalls
  /\ next = "future" => ~InLoop(t)
  /\ calls' = calls + 1
  /\ \/ /\ Consuming
        /\ fns' = Append(fns, enqueued + 1)
        /\ enqueued' = enqueued + 1
        /\ awaiting' = [awaiting EXCEPT ![t] = IF next = "future" THEN enqueued + 1 ELSE NoTask]
        /\ pc' = [pc EXCEPT ![t] = next]
     \/ /\ ~Consuming
        /\ pc' = [pc EXCEPT ![t] = IF next = "future" THEN "pushAndWait" ELSE "push"]
        /\ UNCHANGED <<fns, enqueued, awaiting>>
  /\ UNCHANGED <<consumer, batch, pendingTasks, currentLoop, running, lastRun>>

(* Faulty variant: takes the loop without looking whether somebody has it. *)
OnDemandPushTakesLoop(t) ==
  /\ pc[t] \in {"push", "pushAndWait"}
  /\ pendingTasks' = Append(pendingTasks, enqueued + 1)
  /\ enqueued' = enqueued + 1
  /\ awaiting' = [awaiting EXCEPT ![t] =
                    IF pc[t] = "pushAndWait" THEN enqueued + 1 ELSE NoTask]
  /\ currentLoop' = t
  /\ pc' = [pc EXCEPT ![t] = "loop"]
  /\ UNCHANGED <<consumer, fns, batch, running, lastRun, calls>>

(* The first critical section of OnDemandDeferredExecutor::deferToLoop.    *)
OnDemandPush(t) ==
  /\ pc[t] \in {"push", "pushAndWait"}
  /\ pendingTasks' = Append(pendingTasks, enqueued + 1)
  /\ enqueued' = enqueued + 1
  /\ awaiting' = [awaiting EXCEPT ![t] =
                    IF pc[t] = "pushAndWait" THEN enqueued + 1 ELSE NoTask]
  /\ \/ /\ currentLoop # NoThread
        /\ pc' = [pc EXCEPT ![t] = AfterDefer(awaiting'[t])]
        /\ UNCHANGED currentLoop
     \/ /\ currentLoop = NoThread
        /\ currentLoop' = t
        /\ pc' = [pc EXCEPT ![t] = "loop"]
  /\ UNCHANGED <<consumer, fns, batch, running, lastRun, calls>>

(* The second one, at each iteration: take the next task, or leave.        *)
OnDemandNext(t) ==
  /\ pc[t] = "loop"
  /\ running[t] = NoTask
  /\ \/ /\ pendingTasks = << >>
        /\ currentLoop' = NoThread
        /\ pc' = [pc EXCEPT ![t] = AfterDefer(awaiting[t])]
        /\ UNCHANGED <<pendingTasks, running, lastRun>>
     \/ /\ pendingTasks # << >>
        /\ running' = [running EXCEPT ![t] = Head(pendingTasks)]
        /\ lastRun' = Head(pendingTasks)
        /\ pendingTasks' = Tail(pendingTasks)
        /\ UNCHANGED <<currentLoop, pc>>
  /\ UNCHANGED <<consumer, fns, batch, awaiting, enqueued, calls>>

(* Faulty variant: a task deferred by a task overtakes those that wait.    *)
DeferFromTaskFirst(t) ==
  /\ running[t] # NoTask
  /\ calls < MaxCalls
  /\ calls' = calls + 1
  /\ enqueued' = enqueued + 1
  /\ IF Consuming
     THEN /\ fns' = <<enqueued + 1>> \o fns
          /\ UNCHANGED pendingTasks
     ELSE /\ pendingTasks' = <<enqueued + 1>> \o pendingTasks
          /\ UNCHANGED fns
  /\ UNCHANGED <<consumer, batch, currentLoop, pc, running, awaiting, lastRun>>

(* A task that is running defers another one, through either loop.  The    *)
(* on-demand loop it then finds is the one it runs on, hence the return.   *)
DeferFromTask(t) ==
  /\ running[t] # NoTask
  /\ calls < MaxCalls
  /\ calls' = calls + 1
  /\ enqueued' = enqueued + 1
  /\ IF Consuming
     THEN /\ fns' = Append(fns, enqueued + 1)
          /\ UNCHANGED pendingTasks
     ELSE /\ pendingTasks' = Append(pendingTasks, enqueued + 1)
          /\ UNCHANGED fns
  /\ UNCHANGED <<consumer, batch, currentLoop, pc, running, awaiting, lastRun>>

(* The task a thread is running returns; if it came from runInLoop, its    *)
(* promise is set.                                                         *)
FinishTask(t) ==
  /\ running[t] # NoTask
  /\ running' = [running EXCEPT ![t] = NoTask]
  /\ UNCHANGED <<consumer, fns, batch, pendingTasks, currentLoop, pc,
                 awaiting, enqueued, lastRun, calls>>

(* future.get() in runInLoop.                                              *)
GetFuture(t) ==
  /\ pc[t] = "future"
  /\ awaiting[t] <= lastRun
  /\ \A u \in Threads : running[u] # awaiting[t]
  /\ awaiting' = [awaiting EXCEPT ![t] = NoTask]
  /\ pc' = [pc EXCEPT ![t] = "idle"]
  /\ UNCHANGED <<consumer, fns, batch, pendingTasks, currentLoop, running,
                 enqueued, lastRun, calls>>

-----------------------------------------------------------------------------
(* The event loop's thread has run all it swapped out of fns_.             *)
BatchDone == batch = << >> /\ running[LoopThread] = NoTask

(* runDeferredFunctionsFromEventLoop, up to its loop.                      *)
RunDeferredFunctions ==
  /\ pc[LoopThread] = "poll"
  /\ BatchDone
  /\ fns # << >>
  /\ batch' = fns
  /\ fns' = << >>
  /\ UNCHANGED <<consumer, pendingTasks, currentLoop, pc, running, awaiting,
                 enqueued, lastRun, calls>>

(* One iteration of the loop over the functions swapped out.               *)
BatchNext ==
  /\ pc[LoopThread] \in {"poll", "drain"}
  /\ running[LoopThread] = NoTask
  /\ batch # << >>
  /\ running' = [running EXCEPT ![LoopThread] = Head(batch)]
  /\ lastRun' = Head(batch)
  /\ batch' = Tail(batch)
  /\ UNCHANGED <<consumer, fns, pendingTasks, currentLoop, pc, awaiting,
                 enqueued, calls>>

(* The subclass returns from eventLoop, functions left in fns_ or not.     *)
EventLoopReturns ==
  /\ pc[LoopThread] = "poll"
  /\ BatchDone
  /\ pc' = [pc EXCEPT ![LoopThread] = "drain"]
  /\ UNCHANGED <<consumer, fns, batch, pendingTasks, currentLoop, running,
                 awaiting, enqueued, lastRun, calls>>

(* Faulty variant: hands over although functions were deferred meanwhile.  *)
HandOverAtOnce ==
  /\ pc[LoopThread] = "drain"
  /\ BatchDone
  /\ consumer' = "onDemand"
  /\ pc' = [pc EXCEPT ![LoopThread] = "idle"]
  /\ UNCHANGED <<fns, batch, pendingTasks, currentLoop, running, awaiting, enqueued,
                 lastRun, calls>>

(* The critical section of the loop after eventLoop(): swap out what is    *)
(* left, or hand over to the on-demand loop.  The thread then runs         *)
(* cleanUpLoop, from which it may defer tasks like any other.              *)
DrainOrHandOver ==
  /\ pc[LoopThread] = "drain"
  /\ BatchDone
  /\ \/ /\ fns = << >>
        /\ consumer' = "onDemand"
        /\ pc' = [pc EXCEPT ![LoopThread] = "idle"]
        /\ UNCHANGED <<fns, batch>>
     \/ /\ fns # << >>
        /\ batch' = fns
        /\ fns' = << >>
        /\ UNCHANGED <<consumer, pc>>
  /\ UNCHANGED <<pendingTasks, currentLoop, running, awaiting, enqueued,
                 lastRun, calls>>

-----------------------------------------------------------------------------
Next ==
  \/ StartThread
  \/ \E t \in Threads, next \in {"idle", "future"} : DeferToLoop(t, next)
  \/ \E t \in Threads : OnDemandPush(t)
  \/ \E t \in Threads : OnDemandNext(t)
  \/ \E t \in Threads : DeferFromTask(t)
  \/ \E t \in Threads : FinishTask(t)
  \/ \E t \in Threads : GetFuture(t)
  \/ RunDeferredFunctions
  \/ BatchNext
  \/ EventLoopReturns
  \/ DrainOrHandOver

Spec == Init /\ [][Next]_vars

(* Threads are scheduled, tasks return and a subclass runs the deferred    *)
(* functions "as soon as possible"; nobody has to defer a task or to stop  *)
(* the event loop.                                                         *)
Fairness ==
  /\ \A t \in Threads : /\ WF_vars(OnDemandPush(t))
                        /\ WF_vars(OnDemandNext(t))
                        /\ WF_vars(FinishTask(t))
                        /\ WF_vars(GetFuture(t))
  /\ WF_vars(RunDeferredFunctions)
  /\ WF_vars(BatchNext)
  /\ WF_vars(DrainOrHandOver)

FairSpec == Spec /\ Fairness

-----------------------------------------------------------------------------
QueuesTypeOK ==
  /\ fns \in Seq(Nat)
  /\ batch \in Seq(Nat)
  /\ pendingTasks \in Seq(Nat)

ControlTypeOK ==
  /\ consumer \in {"thread", "onDemand"}
  /\ currentLoop \in Threads \cup {NoThread}
  /\ pc \in [Threads -> Location]
  /\ running \in [Threads -> Nat]
  /\ awaiting \in [Threads -> Nat]
  /\ enqueued \in Nat
  /\ lastRun \in Nat
  /\ calls \in Nat

TypeOK == QueuesTypeOK /\ ControlTypeOK

(* The single-threadedness every object relies on: two threads are never   *)
(* both inside of a task, not even across the handover from the event loop *)
(* to the on-demand loop.                                                  *)
MutualExclusion ==
  \A t, u \in Threads : running[t] # NoTask /\ running[u] # NoTask => t = u

(* While a thread is inside of a task, inLoop() is true on that thread     *)
(* (else its runInLoop would wait for itself) and false on every other one *)
(* (else theirs would run inline, at the same time as the task).           *)
InLoopIsRunningThread ==
  \A t \in Threads : running[t] # NoTask => \A u \in Threads : InLoop(u) <=> u = t

(* No deferred function is left where nobody will look for it: those of    *)
(* the event loop are there only while its thread consumes them, pending   *)
(* tasks of the on-demand loop only while a thread owns that loop.         *)
NothingStranded ==
  /\ fns # << >> \/ batch # << >> => Consuming /\ pc[LoopThread] \in {"poll", "drain"}
  /\ pendingTasks # << >> => /\ currentLoop # NoThread
                             /\ pc[currentLoop] = "loop"

(* Tasks begin in the order in which they were deferred, none twice and    *)
(* none skipped, whichever loop and thread runs them.                      *)
BeginInOrder == [][lastRun' # lastRun => lastRun' = lastRun + 1]_vars

(* Every deferred task eventually runs: one deferred while the event loop  *)
(* winds down is drained, one deferred afterwards has a thread to run it.  *)
EveryTaskRuns == \A n \in 1 .. MaxCalls : enqueued >= n ~> lastRun >= n

(* Whoever calls runInLoop gets its result: no thread waits forever.       *)
RunInLoopReturns == \A t \in Threads : pc[t] = "future" ~> pc[t] = "idle"

(* What README.md says of callbacks: all of them are called from one and   *)
(* the same thread.  The loop of a core context is an on-demand one, which *)
(* runs each task on whichever thread finds the loop free.                 *)
SameThread ==
  \E t \in Threads : [](\A u \in Threads : running[u] # NoTask => u = t)

(* The task some thread is inside of.                                      *)
CurrentTask ==
  IF \E t \in Threads : running[t] # NoTask
  THEN running[CHOOSE t \in Threads : running[t] # NoTask]
  ELSE NoTask

(* The tasks deferred and not yet begun, in whichever loop they are.       *)
TaskQueue == IF Consuming THEN batch \o fns ELSE pendingTasks

Serial == INSTANCE SerialExecutor WITH queue <- TaskQueue, current <- CurrentTask

(* Event loop, on-demand loop and the handover between them are together   *)
(* one serial executor: what deferToLoop promises to pipes, listeners,     *)
(* channels and connections.                                               *)
SerialSpec == Serial!Spec
-----------------------------------------------------------------------------
(* While the event loop's thread consumes the deferred functions, the      *)
(* on-demand loop is not in use.                                           *)
EventLoopAlone ==
  /\ Consuming <=> pc[LoopThread] \in {"poll", "drain"}
  /\ Consuming => /\ currentLoop = NoThread
                  /\ pendingTasks = << >>
                  /\ \A t \in Threads : pc[t] \notin {"push", "pushAndWait"}
  /\ ~Consuming => fns = << >> /\ batch = << >>

(* Before the first call nobody is in the executor.                        *)
UnusedBeforeStart ==
  calls = 0 => /\ currentLoop = NoThread
               /\ pendingTasks = << >>
               /\ \A t \in Threads : pc[t] \in {"idle", "off", "poll", "drain"}

(* A thread is in the loop of the on-demand executor if and only if it is  *)
(* currentLoop_; tasks run nowhere else but on the event loop.             *)
OnDemandOwner ==
  /\ \A t \in Threads : pc[t] = "loop" <=> currentLoop = t
  /\ \A t \in Threads : running[t] # NoTask => InLoop(t)
  /\ pendingTasks # << >> => currentLoop # NoThread
  /\ \A t \in Users : pc[t] \notin {"off", "poll", "drain"}

(* s holds the numbers n + 1, n + 2, ...                                   *)
HoldsFrom(s, n) == \A i \in 1 .. Len(s) : s[i] = n + i

(* The tasks not yet begun carry the numbers that follow lastRun.          *)
Consecutive ==
  /\ HoldsFrom(batch, lastRun)
  /\ HoldsFrom(fns, lastRun + Len(batch))
  /\ HoldsFrom(pendingTasks, lastRun)
  /\ enqueued = lastRun + Len(batch) + Len(fns) + Len(pendingTasks)

(* The inductive invariant of the executor: which loop is in charge, who   *)
(* owns it, and in which order the deferred tasks stand in the queues.     *)
ExecutorInv ==
  TypeOK /\ EventLoopAlone /\ UnusedBeforeStart /\ OnDemandOwner /\ Consecutive
=============================================================================
