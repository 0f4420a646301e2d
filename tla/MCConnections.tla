--------------------------- MODULE MCConnections ---------------------------
(***************************************************************************)
(* The connections of the three transports, for TLC.  A behaviour starts   *)
(* by picking one of Scenarios, that is a transport with what its users    *)
(* read and write and which end may close; from then on only that          *)
(* connection's actions are taken.                                         *)
(***************************************************************************)
EXTENDS Naturals, Sequences, TLC

CONSTANTS
  Scenarios,
  IbvCanFail    \* whether requests fail by themselves in "ibv, closing"

VARIABLES scenario, conn

vars == <<scenario, conn>>

Ends == {"a", "b"}

Buffer(len) == [len |-> len, nop |-> FALSE]
Nop(len) == [len |-> len, nop |-> TRUE]

(* What a and b write, and the other end reads.                            *)
Exchange(fromA, fromB) ==
  "a" :> [write |-> fromA, read |-> fromB] @@ "b" :> [write |-> fromB, read |-> fromA]

(* Messages longer than the ring buffer and around its end, libnop objects *)
(* and an empty buffer; for uv, messages and headers longer than what the  *)
(* sockets hold.                                                           *)
Shm == INSTANCE ShmConnection
  WITH Calls <- Exchange(<<Buffer(3), Nop(2), Buffer(0)>>, <<>>),
       Closers <- {"a"}, Failing <- {}, BufferSize <- 2, MaxStale <- 1
ShmBothWays == INSTANCE ShmConnection
  WITH Calls <- Exchange(<<Buffer(2)>>, <<Nop(1)>>),
       Closers <- {"a", "b"}, Failing <- {"a"}, BufferSize <- 2, MaxStale <- 0
Uv == INSTANCE UvConnection
  WITH Calls <- Exchange(<<Buffer(2), Buffer(0), Buffer(1)>>, <<>>),
       Closers <- {"a", "b"}, Clients <- {"a"}, HeaderSize <- 2, SocketSize <- 3
UvBothWays == INSTANCE UvConnection
  WITH Calls <- Exchange(<<Buffer(1)>>, <<Buffer(0)>>),
       Closers <- {"a", "b"}, Clients <- {"a"}, HeaderSize <- 2, SocketSize <- 3
Ibv == INSTANCE IbvConnection
  WITH Calls <- Exchange(<<Buffer(2), Nop(2), Buffer(4)>>, <<Nop(1), Buffer(4)>>),
       Closers <- {}, Failing <- {}, CanFail <- FALSE, BufferSize <- 3,
       NumPendingRecvReqs <- 1, NumPendingWriteReqs <- 1, NumPendingAckReqs <- 1,
       NumPolledWorkCompletions <- 2
IbvClosing == INSTANCE IbvConnection
  WITH Calls <- Exchange(<<Buffer(3), Nop(2)>>, <<>>),
       Closers <- {"a", "b"}, Failing <- {"a"}, CanFail <- IbvCanFail, BufferSize <- 3,
       NumPendingRecvReqs <- 2, NumPendingWriteReqs <- 4, NumPendingAckReqs <- 4,
       NumPolledWorkCompletions <- 2
IbvWaiting == INSTANCE IbvConnection
  WITH Calls <- Exchange(<<Buffer(3), Nop(2)>>, <<>>),
       Closers <- {"a", "b"}, Failing <- {}, CanFail <- TRUE, BufferSize <- 3,
       NumPendingRecvReqs <- 1, NumPendingWriteReqs <- 1, NumPendingAckReqs <- 1,
       NumPolledWorkCompletions <- 2

Init ==
  /\ scenario \in Scenarios
  /\ CASE scenario = "shm" -> Shm!Init
       [] scenario = "shm, both ways" -> ShmBothWays!Init
       [] scenario = "uv" -> Uv!Init
       [] scenario = "uv, both ways" -> UvBothWays!Init
       [] scenario = "ibv" -> Ibv!Init
       [] scenario = "ibv, closing" -> IbvClosing!Init
       [] scenario = "ibv, waiting" -> IbvWaiting!Init

In(s) == scenario = s /\ UNCHANGED scenario

Next ==
  \/ In("shm") /\ Shm!Next
  \/ In("shm, both ways") /\ ShmBothWays!Next
  \/ In("uv") /\ Uv!Next
  \/ In("uv, both ways") /\ UvBothWays!Next
  \/ In("ibv") /\ Ibv!Next
  \/ In("ibv, closing") /\ IbvClosing!Next
  \/ In("ibv, waiting") /\ IbvWaiting!Next

Spec == Init /\ [][Next]_vars

-----------------------------------------------------------------------------

(* Answered: the callbacks of reads, and those of writes, are called at    *)
(* most once each, and for shm and ibv, where handleErrorImpl calls those  *)
(* that are left, in the order of the calls and all of them by the time    *)
(* the loop of an end in error is between tasks; uv gives a write's buffer *)
(* back only after libuv is done with it, on error too.                    *)
Answered ==
  CASE scenario = "shm" -> Shm!AnsweredInOrder /\ Shm!AnsweredOnError
    [] scenario = "shm, both ways" -> ShmBothWays!AnsweredInOrder /\ ShmBothWays!AnsweredOnError
    [] scenario = "uv" -> Uv!AnsweredOnce /\ Uv!BuffersNotWithLibuv
    [] scenario = "uv, both ways" -> UvBothWays!AnsweredOnce /\ UvBothWays!BuffersNotWithLibuv
    [] scenario = "ibv" -> Ibv!AnsweredInOrder
    [] scenario = "ibv, closing" -> IbvClosing!AnsweredInOrder /\ IbvClosing!AnsweredOnError
    [] scenario = "ibv, waiting" -> IbvWaiting!AnsweredInOrder /\ IbvWaiting!AnsweredOnError

(* ReadsWhatWasWritten: the n-th read, if it succeeds, has the bytes of    *)
(* the n-th write at the other end, all and in order, however the message  *)
(* was split to fit the ring buffer, the inbox or the socket.              *)
ReadsWhatWasWritten ==
  CASE scenario = "shm" -> Shm!ReadsWhatWasWritten
    [] scenario = "shm, both ways" -> ShmBothWays!ReadsWhatWasWritten
    [] scenario = "uv" -> Uv!ReadsWhatWasWritten
    [] scenario = "uv, both ways" -> UvBothWays!ReadsWhatWasWritten
    [] scenario = "ibv" -> Ibv!ReadsWhatWasWritten
    [] scenario = "ibv, closing" -> IbvClosing!ReadsWhatWasWritten
    [] scenario = "ibv, waiting" -> IbvWaiting!ReadsWhatWasWritten

(* NoneForgotten: nothing comes to rest before every read is answered for  *)
(* which the other end has written a message, or whose connection is in    *)
(* error: whenever the first read or write of an shm connection could move *)
(* bytes, a trigger or a task is on its way that will do so; libuv calls   *)
(* back for the first write, and for data only while there is a read to    *)
(* give it to; the device and the reactors of ibv go on until then.        *)
NoneForgotten ==
  CASE scenario = "shm" -> Shm!NoTriggerLost /\ Shm!Delivered
    [] scenario = "shm, both ways" -> ShmBothWays!NoTriggerLost /\ ShmBothWays!Delivered
    [] scenario = "uv" -> Uv!CallbacksHaveOperation /\ Uv!AllAnswered
    [] scenario = "uv, both ways" -> UvBothWays!CallbacksHaveOperation /\ UvBothWays!AllAnswered
    [] scenario = "ibv" -> Ibv!Transferred
    [] scenario = "ibv, closing" -> IbvClosing!Transferred
    [] scenario = "ibv, waiting" -> IbvWaiting!Transferred

(* RequestsAccounted: an ibv connection never writes more into the inbox   *)
(* of the other end than has been acknowledged; its counts of writes and   *)
(* acknowledgements in flight are those that are pending, posted or not    *)
(* yet polled, on every path; never more are out than the reactor allows,  *)
(* and one waits there only then; and its queue pair is unregistered only  *)
(* when nothing of it is left in the completion queue, in the reactor or   *)
(* on the way there, and always after an error, unless requests of it wait *)
(* in the reactor, whose slots those that failed have kept.                *)
RequestsAccounted ==
  CASE scenario = "ibv" -> Ibv!NoOverrun /\ Ibv!InFlightCounted /\ Ibv!LimitsKept
    [] scenario = "ibv, closing" ->
         /\ IbvClosing!NoOverrun /\ IbvClosing!InFlightCounted /\ IbvClosing!LimitsKept
         /\ IbvClosing!QueuePairKnown /\ IbvClosing!QueuePairDestroyed
    [] scenario = "ibv, waiting" ->
         /\ IbvWaiting!NoOverrun /\ IbvWaiting!InFlightCounted /\ IbvWaiting!LimitsKept
         /\ IbvWaiting!QueuePairKnown /\ IbvWaiting!QueuePairDestroyed
    [] OTHER -> TRUE

(* RequestsReclaimed: after the clean-up of an ibv connection nothing that *)
(* it had posted counts against the limits of the reactor any more         *)
(* (transport/ibv/constants.h:62-63: "When the connection gets closed, to  *)
(* avoid leaks, it needs to "reclaim" all the work requests that it had    *)
(* posted").                                                               *)
RequestsReclaimed == scenario = "ibv, closing" => IbvClosing!RequestsReclaimed
=============================================================================
