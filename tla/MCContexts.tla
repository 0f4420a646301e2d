---------------------------- MODULE MCContexts ----------------------------
(***************************************************************************)
(* The contexts and the loops under them, for TLC.  A behaviour starts by  *)
(* picking one of Scenarios; from then on only that component's actions    *)
(* are taken and the others stay as they were initialised.                 *)
(***************************************************************************)
EXTENDS Naturals, Sequences, FiniteSets

CONSTANTS NoConnection, End, Scenarios, l, d, i, j, x, y, c1, c2, c3

VARIABLES
  scenario,
  error, join, tasks,                                  \* of the context picked
  loop, obj, lst,                                      \* TransportContext
  channel, requests, thread, copying,                  \* ChannelContext
  file, opened, closedByPeer, written, tokens, fdToRecord, recordToHandler, nextRecord,
  interest, eventFd, closed, epollThread, epollEvents, fns, count, loopThread,
  batch, ran, handled,                                 \* EpollLoop
  toAdd, onStream, operations_, pendingOperations_, closed_, cudaThread, operations,
  called                                               \* CudaLoop

ofTransport == <<loop, obj, lst>>
ofChannel == <<channel, requests, thread, copying>>
ofEpoll == <<file, opened, closedByPeer, written, tokens, fdToRecord, recordToHandler, nextRecord,
             interest, eventFd, closed, epollThread, epollEvents, fns, count, loopThread,
             batch, ran, handled>>
ofCuda == <<toAdd, onStream, operations_, pendingOperations_, closed_, cudaThread, operations,
            called>>
vars == <<scenario, error, join, tasks, ofTransport, ofChannel, ofEpoll, ofCuda>>

(* shm with a connection that is made and one that comes in, ibv with two  *)
(* that come in for two calls of accept; uv.                               *)
Shm == INSTANCE TransportContext
  WITH Listeners <- {l}, Dialled <- {d}, Incoming <- {i}, MaxAccepts <- 1, Transport <- "shm"
Ibv == INSTANCE TransportContext
  WITH Listeners <- {l}, Dialled <- {}, Incoming <- {i, j}, MaxAccepts <- 2, Transport <- "ibv"
Uv == INSTANCE TransportContext
  WITH Listeners <- {l}, Dialled <- {}, Incoming <- {i}, MaxAccepts <- 2, Transport <- "uv"
Xth == INSTANCE ChannelContext WITH Channels <- {x, y}, Receives <- {1}
Epoll == INSTANCE EpollLoop WITH Fds <- {1, 2}, MaxFiles <- 2, MaxRecords <- 2
Cuda == INSTANCE CudaLoop
  WITH Callbacks <- {c1, c2, c3}, thread <- cudaThread, batch <- operations

Init ==
  /\ scenario \in Scenarios
  /\ CASE scenario = "ibv" -> Ibv!Init
       [] scenario = "uv" -> Uv!Init
       [] OTHER -> Shm!Init
  /\ Xth!Init /\ Epoll!Init /\ Cuda!Init

(* A step of the component of one scenario.                                *)
OfTransport(s, A) ==
  scenario = s /\ A /\ UNCHANGED <<scenario, ofChannel, ofEpoll, ofCuda>>
OfChannel(A) ==
  scenario = "xth" /\ A /\ UNCHANGED <<scenario, ofTransport, ofEpoll, ofCuda>>
OfEpoll(A) ==
  scenario = "epoll" /\ A
    /\ UNCHANGED <<scenario, error, join, tasks, ofTransport, ofChannel, ofCuda>>
OfCuda(A) ==
  scenario = "cuda" /\ A
    /\ UNCHANGED <<scenario, error, join, tasks, ofTransport, ofChannel, ofEpoll>>

Next ==
  \/ OfTransport("shm", Shm!Next)
  \/ OfTransport("ibv", Ibv!Next)
  \/ OfTransport("uv", Uv!Next)
  \/ OfChannel(Xth!Next)
  \/ OfEpoll(Epoll!Next)
  \/ OfCuda(Cuda!Next)

(* The fairness of the component's own specification.  The scenario never  *)
(* changes, so one conjunct does for an action of each.                    *)
Fairness ==
  /\ WF_vars(\/ OfTransport("shm", Shm!RunTask) \/ OfTransport("ibv", Ibv!RunTask)
             \/ OfTransport("uv", Uv!RunTask) \/ OfChannel(Xth!RunTask)
             \/ OfEpoll(Epoll!LoopThreadNext) \/ OfCuda(Cuda!Cuda))
  /\ WF_vars(\/ OfTransport("shm", Shm!LoopEnds) \/ OfTransport("ibv", Ibv!LoopEnds)
             \/ OfTransport("uv", Uv!LoopEnds) \/ OfChannel(Xth!Pop \/ Xth!Copy)
             \/ OfEpoll(Epoll!EpollThreadNext) \/ OfCuda(Cuda!Lock \/ Cuda!Swap \/ Cuda!Run))
  /\ WF_vars(\/ OfTransport("shm", Shm!JoinReturns)
             \/ OfTransport("ibv", Ibv!JoinReturns)
             \/ OfTransport("uv", Uv!JoinReturns) \/ OfChannel(Xth!JoinReturns))
  /\ WF_vars(OfTransport("uv", Uv!UvCloseCb(l)))
  /\ WF_vars(OfTransport("uv", Uv!UvCloseCb(i)) \/ OfTransport("ibv", Ibv!TryCleanup(i)))
  /\ WF_vars(OfTransport("ibv", Ibv!TryCleanup(j)))

Spec == Init /\ [][Next]_vars /\ Fairness

-----------------------------------------------------------------------------

(* NothingAfterJoin: when join of a transport or channel context returns,  *)
(* nothing is enrolled, and that is so ever after, whatever was or is      *)
(* deferred; once a context is in error so is everything enrolled with it, *)
(* with no task in between; and when the thread of the CUDA loop ends no   *)
(* callback is left for CUDA to call into a loop that is gone.             *)
NothingAfterJoin ==
  CASE scenario = "shm" -> Shm!NothingAfterJoin /\ Shm!ClosedTogether
    [] scenario = "ibv" -> Ibv!NothingAfterJoin /\ Ibv!ClosedTogether
    [] scenario = "uv" -> Uv!NothingAfterJoin /\ Uv!ClosedTogether
    [] scenario = "xth" -> Xth!NoChannelAfterJoin
    [] scenario = "cuda" -> Cuda!NoneLeftBehind
    [] OTHER -> TRUE

(* ServedInOrder: the connections that come in at a listener go to the     *)
(* calls of accept in order, each once, and initialised; no copy is        *)
(* requested of a channel's thread after the request that ends it; no      *)
(* handler of the epoll loop is called for the event of another file, even *)
(* if the descriptor was closed and used again between epoll_wait and the  *)
(* handling, and its count of deferred functions covers those queued.      *)
ServedInOrder ==
  CASE scenario = "shm" -> Shm!AcceptedInOrder
    [] scenario = "ibv" -> Ibv!AcceptedInOrder
    [] scenario = "uv" -> Uv!AcceptedInOrder
    [] scenario = "xth" -> Xth!NoRequestMissed
    [] scenario = "epoll" -> Epoll!HandlerOfItsFile /\ Epoll!CountCoversFunctions
    [] OTHER -> TRUE

(* JoinReturns: join of a context returns; once a CUDA loop is closed, or  *)
(* an epoll loop is and has no descriptor left, its thread ends: no wakeup *)
(* is lost between the test of a condition and the wait.  What is not of   *)
(* the scenario stays as it was initialised, so one formula does for all.  *)
JoinReturns ==
  (join # "none" \/ (closed /\ DOMAIN fdToRecord = {}) \/ closed_)
    ~> \/ join = "joined" \/ cudaThread = "done"
       \/ epollThread = "done" /\ loopThread \in {"over", "drain"}

(* The n-th accept, copy, file or callback of a scenario is owed a call ...*)
Owed(n) ==
  CASE scenario = "xth" -> n \in 1 .. 2 /\ channel[<<x, y>>[n]].recv[1] = "COPYING"
    [] scenario = "epoll" -> n \in closedByPeer /\ n \in Epoll!Files
    [] scenario = "cuda" -> <<c1, c2, c3>>[n] \notin toAdd
    [] OTHER -> n \in 1 .. 2 /\ lst[l].accepts >= n /\ obj[l].error

(* ... and has had it.                                                     *)
Served(n) ==
  CASE scenario = "xth" -> n \in 1 .. 2 /\ channel[<<x, y>>[n]].recv[1] = "FINISHED"
    [] scenario = "epoll" -> n \notin Epoll!Files \/ <<n, n>> \in {<<h[1], h[2]>> : h \in handled}
    [] scenario = "cuda" -> <<c1, c2, c3>>[n] \in Cuda!In(called)
    [] OTHER -> Len(lst[l].answers) >= n

(* AllServed: every accept on a listener in error is called back, every    *)
(* copy that was requested completes, the handler of a file whose other    *)
(* end is closed is called unless the file is closed first, and every      *)
(* callback added to a CUDA loop is called, closed or not.  An event that  *)
(* is disregarded because its record was stale fires again                 *)
(* (epoll_loop.h:127-130).                                                 *)
AllServed == \A n \in 1 .. 3 : Owed(n) ~> Served(n)
=============================================================================
