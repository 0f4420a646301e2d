--------------------------- MODULE IbvConnection ---------------------------
(***************************************************************************)
(* A connection of the ibv transport (transport/ibv): each end has an      *)
(* outbox and an inbox, and the bytes put in an outbox are written by RDMA *)
(* into the inbox of the other end, which acknowledges what it has read.   *)
(* Writes and acknowledgements are posted through the reactor of the       *)
(* context, which limits how many there are at a time and learns of their  *)
(* completion, and of what the other end sent, from a completion queue.    *)
(*                                                                         *)
(* An end has the further fields                                           *)
(*   state       state_                                                    *)
(*   addrSent    it has sent its address over the socket                   *)
(*   readOps, writeOps   readOperations_, writeOperations_                 *)
(*   produced, acked     the bytes put in the outbox, and how many of them *)
(*               the other end has acknowledged                            *)
(*   inbox       the bytes in the inbox that the reactor was told of       *)
(*   writes, acks        numWritesInFlight_, numAcksInFlight_              *)
(*   qp          the state of the queue pair                               *)
(*   sends       the requests posted on the queue pair                     *)
(*   cleanup     "none", "deferred", "due" once the reactor has seen no    *)
(*               completion since, or "done"                               *)
(*   crashed     its process is gone                                       *)
(* and, for the reactor of its context,                                    *)
(*   availableWrites, availableAcks    numAvailableWrites_, ...Acks_       *)
(*   pendingWrites, pendingAcks        pendingQpWrites_, pendingQpAcks_    *)
(*   recvs       the requests on the shared receive queue                  *)
(*   cq          the completions not polled yet                            *)
(***************************************************************************)
EXTENDS RingBufferOps, TLC

CONSTANTS
  Ends, Calls, Closers, Failing,
  CanFail,             \* whether requests may fail while both ends are there
  BufferSize,          \* kBufferSize
  NumPendingRecvReqs, NumPendingWriteReqs, NumPendingAckReqs,
  NumPolledWorkCompletions

VARIABLE conn

NewConnection ==
  [error |-> FALSE, calls |-> [read |-> 0, write |-> 0],
   answers |-> [read |-> <<>>, write |-> <<>>],
   state |-> "INITIALIZING", addrSent |-> FALSE, readOps |-> <<>>, writeOps |-> <<>>,
   produced |-> 0, acked |-> 0, inbox |-> <<>>, writes |-> 0, acks |-> 0,
   qp |-> "none", sends |-> <<>>, cleanup |-> "none", crashed |-> FALSE,
   availableWrites |-> NumPendingWriteReqs, availableAcks |-> NumPendingAckReqs,
   pendingWrites |-> <<>>, pendingAcks |-> <<>>, recvs |-> NumPendingRecvReqs, cq |-> <<>>]

(* An error of the socket comes before the queue pair is created, and      *)
(* handleErrorImpl, which it calls, dereferences that: the process ends.   *)
InitImplFromLoop(s, e, ok) ==
  IF ok THEN [s EXCEPT ![e].qp = "INIT", ![e].state = "SEND_ADDR"]
  ELSE [s EXCEPT ![e].error = TRUE, ![e].crashed = TRUE]

(* Nothing runs any more in a process that is gone.                        *)
Busy(c) == c.crashed

(***************************************************************************)
(* The reactor                                                             *)
(***************************************************************************)

(* postWrite, postAck                                                      *)
PostWrite(c, bytes) ==
  IF c.availableWrites > 0
  THEN [c EXCEPT !.sends = Append(@, [kind |-> "write", bytes |-> bytes]),
                 !.availableWrites = @ - 1]
  ELSE [c EXCEPT !.pendingWrites = Append(@, bytes)]

PostAck(c, length) ==
  IF c.availableAcks > 0
  THEN [c EXCEPT !.sends = Append(@, [kind |-> "ack", length |-> length]),
                 !.availableAcks = @ - 1]
  ELSE [c EXCEPT !.pendingAcks = Append(@, length)]

RECURSIVE PostPendingWrites(_)
PostPendingWrites(c) ==
  IF c.pendingWrites = <<>> \/ c.availableWrites = 0 THEN c
  ELSE PostPendingWrites(PostWrite([c EXCEPT !.pendingWrites = Tail(@)], Head(c.pendingWrites)))

RECURSIVE PostPendingAcks(_)
PostPendingAcks(c) ==
  IF c.pendingAcks = <<>> \/ c.availableAcks = 0 THEN c
  ELSE PostPendingAcks(PostAck([c EXCEPT !.pendingAcks = Tail(@)], Head(c.pendingAcks)))

(***************************************************************************)
(* The connection                                                          *)
(***************************************************************************)

AnswerOf(op, ok, bytes) == [n |-> op.n, ok |-> ok, bytes |-> bytes]

(* processReadOperationsFromLoop: what a transaction has read is           *)
(* acknowledged.                                                           *)
RECURSIVE ProcessReadOperations(_)
ProcessReadOperations(c) ==
  IF c.state # "ESTABLISHED" \/ c.readOps = <<>> THEN c
  ELSE LET r == HandleRead(Head(c.readOps), c.inbox)
           len == Len(c.inbox) - Len(r.ring)
           c1 == [c EXCEPT !.inbox = r.ring, !.readOps[1] = r.op]
           c2 == IF len > 0 THEN PostAck([c1 EXCEPT !.acks = @ + 1], len) ELSE c1
       IN IF ReadCompleted(r.op)
          THEN ProcessReadOperations(
                 [c2 EXCEPT !.readOps = Tail(@),
                            !.answers.read = Append(@, AnswerOf(r.op, TRUE, r.op.bytes))])
          ELSE c2

(* The one or two pieces of some bytes that start at this place of a ring  *)
(* buffer: accessContiguousInTx                                            *)
Contiguous(start, bytes) ==
  LET untilEnd == BufferSize - (start % BufferSize)
  IN IF Len(bytes) <= untilEnd THEN <<bytes>>
     ELSE <<SubSeq(bytes, 1, untilEnd), SubSeq(bytes, untilEnd + 1, Len(bytes))>>

(* Faulty variant: a transaction counts once.                              *)
PostWritesCountingOnce(c, buffers) ==
  IF Len(buffers) = 1 THEN PostWrite([c EXCEPT !.writes = @ + 1], buffers[1])
  ELSE PostWrite(PostWrite([c EXCEPT !.writes = @ + 1], buffers[1]), buffers[2])

RECURSIVE PostWrites(_, _)
PostWrites(c, buffers) ==
  IF buffers = <<>> THEN c
  ELSE PostWrites(PostWrite([c EXCEPT !.writes = @ + 1], Head(buffers)), Tail(buffers))

(* Faulty variant: the room is taken to be free once the write completes.  *)
OccupiedByWrites(c) == [i \in 1 .. c.writes |-> <<0, 0, 0>>]

(* What is in the outbox, or was and is not acknowledged, takes up room    *)
(* there; only how much of it matters.                                     *)
Occupied(c) == [i \in 1 .. c.produced - c.acked |-> <<0, 0, 0>>]

(* processWriteOperationsFromLoop: what a transaction has put in the       *)
(* outbox is posted, in one or two requests.                               *)
RECURSIVE ProcessWriteOperations(_)
ProcessWriteOperations(c) ==
  IF c.state # "ESTABLISHED" \/ c.writeOps = <<>> THEN c
  ELSE LET occupied == Occupied(c)
           r == HandleWrite(Head(c.writeOps), occupied, BufferSize)
           bytes == SubSeq(r.ring, Len(occupied) + 1, Len(r.ring))
           c1 == [c EXCEPT !.writeOps[1] = r.op, !.produced = @ + Len(bytes)]
           c2 == IF bytes # <<>> THEN PostWrites(c1, Contiguous(c.produced, bytes)) ELSE c1
       IN IF WriteCompleted(r.op)
          THEN ProcessWriteOperations(
                 [c2 EXCEPT !.writeOps = Tail(@),
                            !.answers.write = Append(@, AnswerOf(r.op, TRUE, <<>>))])
          ELSE c2

ReadImplFromLoop(s, e, n, call) ==
  [s EXCEPT ![e] = ProcessReadOperations([@ EXCEPT !.readOps = Append(@, ReadOperation(n, call))])]

WriteImplFromLoop(s, e, n, call) ==
  [s EXCEPT ![e] =
     ProcessWriteOperations([@ EXCEPT !.writeOps = Append(@, WriteOperation(n, call))])]

(* Faulty variant: the clean-up is not deferred.                           *)
TryCleanupAtOnce(c) ==
  IF c.error /\ c.writes = 0 /\ c.acks = 0 THEN [c EXCEPT !.cleanup = "due"] ELSE c

TryCleanup(c) ==
  IF c.error /\ c.writes = 0 /\ c.acks = 0 THEN [c EXCEPT !.cleanup = "deferred"] ELSE c

(* Faulty variant: the operations are kept.                                *)
HandleErrorKeeping(c) ==
  LET FailAll(ops) == [i \in 1 .. Len(ops) |-> AnswerOf(ops[i], FALSE, <<>>)]
  IN TryCleanup([c EXCEPT !.answers = [read |-> @.read \o FailAll(c.readOps),
                                       write |-> @.write \o FailAll(c.writeOps)],
                          !.qp = "ERROR"])

(* handleErrorImpl: all callbacks are called, the queue pair is put in its *)
(* error state, and the socket is closed.                                  *)
HandleError(c) ==
  LET FailAll(ops) == [i \in 1 .. Len(ops) |-> AnswerOf(ops[i], FALSE, <<>>)]
  IN TryCleanup([c EXCEPT !.answers = [read |-> @.read \o FailAll(c.readOps),
                                       write |-> @.write \o FailAll(c.writeOps)],
                          !.readOps = <<>>, !.writeOps = <<>>, !.qp = "ERROR"])

HandleErrorImpl(s, e) == [s EXCEPT ![e] = HandleError(@)]

SetErrorOf(c) == IF c.error THEN c ELSE HandleError([c EXCEPT !.error = TRUE])

INSTANCE Connection

(* onRemoteProducedData, onRemoteConsumedData                              *)
OnRemoteProducedData(c, bytes) ==
  ProcessReadOperations([c EXCEPT !.inbox = @ \o bytes])

(* Faulty variant: the space is accounted for, and left for later.         *)
OnRemoteConsumedDataIdle(c, length) == [c EXCEPT !.acked = @ + length]

OnRemoteConsumedData(c, length) ==
  ProcessWriteOperations([c EXCEPT !.acked = @ + length])

OnWriteCompleted(c) == TryCleanup([c EXCEPT !.writes = @ - 1])
OnAckCompleted(c) == TryCleanup([c EXCEPT !.acks = @ - 1])

(* Faulty variant: a request that failed is not counted as completed.      *)
OnErrorOnly(c, kind) == SetErrorOf(c)

OnError(c, kind) ==
  LET c1 == SetErrorOf(c)
  IN CASE kind = "write" -> OnWriteCompleted(c1)
       [] kind = "ack" -> OnAckCompleted(c1)
       [] OTHER -> c1

(* The handlers of some completions, one after the other.                  *)
RECURSIVE HandleCompletions(_, _)
HandleCompletions(c, wcs) ==
  IF wcs = <<>> THEN c
  ELSE LET wc == Head(wcs)
       IN HandleCompletions(
            CASE ~wc.success -> OnError(c, wc.kind)
              [] wc.success /\ wc.kind = "produced" -> OnRemoteProducedData(c, wc.bytes)
              [] wc.success /\ wc.kind = "consumed" -> OnRemoteConsumedData(c, wc.length)
              [] wc.success /\ wc.kind = "write" -> OnWriteCompleted(c)
              [] wc.success /\ wc.kind = "ack" -> OnAckCompleted(c), Tail(wcs))

(* How many of some completions succeeded and are of these kinds           *)
NumOf(wcs, kinds) ==
  LET Of(wc) == wc.success /\ wc.kind \in kinds IN Len(SelectSeq(wcs, Of))

(* Faulty variant: the requests that waited are forgotten.                 *)
PolledForgetful(c, wcs) ==
  LET c1 == HandleCompletions(c, wcs)
  IN [c1 EXCEPT !.recvs = @ + NumOf(wcs, {"produced", "consumed"}),
                !.availableWrites = @ + NumOf(wcs, {"write"}),
                !.availableAcks = @ + NumOf(wcs, {"ack"})]

(* pollOnce, on the completions it got.  Only those that succeeded make    *)
(* room for further requests.                                              *)
Polled(c, wcs) ==
  LET c1 == HandleCompletions(c, wcs)
      c2 == [c1 EXCEPT !.recvs = @ + NumOf(wcs, {"produced", "consumed"}),
                       !.availableWrites = @ + NumOf(wcs, {"write"})]
      c3 == PostPendingWrites(c2)
  IN PostPendingAcks([c3 EXCEPT !.availableAcks = @ + NumOf(wcs, {"ack"})])

PollOnce(e) ==
  LET c == conn[e]
      n == IF Len(c.cq) < NumPolledWorkCompletions THEN Len(c.cq) ELSE NumPolledWorkCompletions
  IN \/ /\ c.cq # <<>>
        /\ conn' = [conn EXCEPT ![e] = Polled([c EXCEPT !.cq = SubSeq(@, n + 1, Len(c.cq))],
                                              SubSeq(c.cq, 1, n))]
     \/ /\ c.cq = <<>> /\ c.cleanup = "deferred"
        /\ conn' = [conn EXCEPT ![e].cleanup = "due"]

(* cleanup, which is deferred to the loop                                  *)
Cleanup(e) ==
  /\ conn[e].cleanup = "due"
  /\ conn' = [conn EXCEPT ![e].cleanup = "done", ![e].qp = "none"]

(* handleEventOutFromLoop, handleEventInFromLoop; a socket whose peer is   *)
(* gone may report an error before the peer's address is read.             *)
HandleEventOutFromLoop(e) ==
  /\ ~conn[e].error /\ conn[e].state = "SEND_ADDR"
  /\ conn' = IF conn[Peer(e)].error THEN SetError(conn, e)
             ELSE [conn EXCEPT ![e].addrSent = TRUE, ![e].state = "RECV_ADDR"]

HandleEventInFromLoop(e) ==
  /\ ~conn[e].error
  /\ \/ /\ conn[e].state = "RECV_ADDR" /\ conn[Peer(e)].addrSent
        /\ conn' = [conn EXCEPT ![e] =
                      ProcessReadOperations(ProcessWriteOperations(
                        [@ EXCEPT !.state = "ESTABLISHED", !.qp = "RTS"]))]
     \/ /\ conn[Peer(e)].error
        /\ conn[e].state \in {"RECV_ADDR", "ESTABLISHED"}
        /\ conn' = SetError(conn, e)

(***************************************************************************)
(* The queue pairs: requests are served in order and complete at both      *)
(* ends; one that finds no receive request at the other end is retried.    *)
(***************************************************************************)
CanServe(e) ==
  /\ conn[e].qp = "RTS" /\ conn[e].sends # <<>>
  /\ conn[Peer(e)].qp = "RTS" /\ conn[Peer(e)].recvs > 0

Serve(e) ==
  LET peer == Peer(e)
      send == Head(conn[e].sends)
  IN /\ CanServe(e)
     /\ conn' = [conn EXCEPT
          ![e].sends = Tail(@),
          ![e].cq = Append(@, [kind |-> send.kind, success |-> TRUE]),
          ![peer].recvs = @ - 1,
          ![peer].cq = Append(@,
             IF send.kind = "write"
             THEN [kind |-> "produced", success |-> TRUE, bytes |-> send.bytes]
             ELSE [kind |-> "consumed", success |-> TRUE, length |-> send.length])]

(* A request fails if the other end is gone, and then the queue pair is in *)
(* its error state, where all requests fail.                               *)
MustFail(e) ==
  /\ conn[e].sends # <<>>
  /\ conn[e].qp = "ERROR" \/ conn[Peer(e)].qp \in {"ERROR", "none"}

RequestFails(e) ==
  /\ MustFail(e) \/ (CanFail /\ conn[e].sends # <<>>)
  /\ conn' = [conn EXCEPT ![e].sends = Tail(@), ![e].qp = "ERROR",
                          ![e].cq = Append(@, [kind |-> Head(conn[e].sends).kind,
                                               success |-> FALSE])]

Loop(e) ==
  \/ PollOnce(e) \/ Cleanup(e) \/ HandleEventOutFromLoop(e) \/ HandleEventInFromLoop(e)

Next ==
  \E e \in Ends : Read(e) \/ Write(e) \/ Close(e) \/ Loop(e) \/ Serve(e) \/ RequestFails(e)

Spec == Init /\ [][Next]_conn

-----------------------------------------------------------------------------

(* Nothing happens any more unless a user makes a call or closes an end:   *)
(* every other step uses up something that only those bring about.         *)
Quiet ==
  \A e \in Ends :
    LET c == conn[e]
    IN /\ c.cq = <<>> /\ c.cleanup \notin {"deferred", "due"}
       /\ ~CanServe(e) /\ ~MustFail(e)
       /\ c.error \/ (c.state = "ESTABLISHED" /\ ~conn[Peer(e)].error)

(* NoOverrun: the bytes written into an inbox, those the reactor has not   *)
(* been told of included, never exceed its size, and so never overwrite    *)
(* bytes that are still to be read; the sender knows only from the         *)
(* acknowledgements (onRemoteConsumedData).                                *)
NoOverrun ==
  \A e \in Ends :
    LET Produced(wc) == wc.kind = "produced" /\ wc.success
        landed == SelectSeq(conn[e].cq, Produced)
        RECURSIVE Total(_)
        Total(i) == IF i = 0 THEN 0 ELSE Len(landed[i].bytes) + Total(i - 1)
    IN Len(conn[e].inbox) + Total(Len(landed)) <= BufferSize

(* QueuePairKnown: a queue pair is unregistered when nothing of it is left *)
(* in the completion queue or on the way there (pollOnce asserts that it   *)
(* knows the queue pair of every completion, reactor.cc:104).              *)
QueuePairKnown ==
  \A e \in Ends : conn[e].cleanup = "done" =>
    conn[e].cq = <<>> /\ conn[e].sends = <<>> /\ conn[e].pendingWrites = <<>>
      /\ conn[e].pendingAcks = <<>>

(* InFlightCounted: numWritesInFlight_ and numAcksInFlight_ count the      *)
(* requests that are pending in the reactor, posted, or completed and not  *)
(* polled, on every path.                                                  *)
InFlightCounted ==
  \A e \in Ends :
    LET c == conn[e]
        Of(seq, kind) == LET Is(x) == x.kind = kind IN Len(SelectSeq(seq, Is))
    IN /\ c.writes = Len(c.pendingWrites) + Of(c.sends, "write") + Of(c.cq, "write")
       /\ c.acks = Len(c.pendingAcks) + Of(c.sends, "ack") + Of(c.cq, "ack")

(* LimitsKept: never more requests than allowed are posted or completed    *)
(* and not polled, which is what the completion queue has room for         *)
(* (constants.h:34-43), and a request waits in the reactor only when no    *)
(* other may be posted.                                                    *)
LimitsKept ==
  \A e \in Ends :
    LET c == conn[e]
        Out(kind) == LET Is(x) == x.kind = kind
                     IN Len(SelectSeq(c.sends, Is)) + Len(SelectSeq(c.cq, Is))
    IN /\ c.availableWrites + Out("write") <= NumPendingWriteReqs
       /\ c.availableAcks + Out("ack") <= NumPendingAckReqs
       /\ c.pendingWrites # <<>> => c.availableWrites = 0
       /\ c.pendingAcks # <<>> => c.availableAcks = 0

(* Transferred: the reactors and the device do not stop before every read  *)
(* is answered for which the other end has written a message.              *)
Transferred ==
  Quiet => \A e \in Ends :
    \/ Len(conn[e].answers.read) >= conn[e].calls.read
    \/ Len(conn[e].answers.read) >= conn[Peer(e)].calls.write

(* QueuePairDestroyed: nor before a connection in error has cleaned up, on *)
(* which depends that the reactor can be closed (readyToClose), but for    *)
(* one of whose requests some still wait in the reactor.  Those wait for   *)
(* ever: requests that fail do not make room for others (reactor.cc:109).  *)
QueuePairDestroyed ==
  Quiet => \A e \in Ends : conn[e].error =>
    \/ conn[e].qp = "none"
    \/ conn[e].pendingWrites # <<>> \/ conn[e].pendingAcks # <<>>

(* RequestsReclaimed: after the clean-up of a connection nothing that it   *)
(* had posted counts against the limits of the reactor any more            *)
(* (constants.h:62-63: "When the connection gets closed, to avoid leaks,   *)
(* it needs to "reclaim" all the work requests that it had posted").       *)
RequestsReclaimed ==
  \A e \in Ends : conn[e].cleanup = "done" =>
    /\ conn[e].availableWrites = NumPendingWriteReqs
    /\ conn[e].availableAcks = NumPendingAckReqs
=============================================================================
