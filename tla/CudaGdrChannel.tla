--------------------------- MODULE CudaGdrChannel ---------------------------
(***************************************************************************)
(* The cuda_gdr channel (channel/cuda_gdr): GPU buffers travel over        *)
(* InfiniBand, from the memory of one GPU to that of the other.  After a   *)
(* handshake in two rounds there is a queue pair for each pair of NICs.    *)
(* For a send the sender writes a descriptor; the receiver waits for its   *)
(* CUDA event, posts its recvs and says it is ready; the sender waits for  *)
(* its own CUDA event and posts its sends.  The NICs match the sends and   *)
(* the recvs of a queue pair in the order they were posted.                *)
(*                                                                         *)
(* An end has the further fields                                           *)
(*   state      state_                                                     *)
(*   events     the callbacks waiting for a CUDA event                     *)
(*   slots[d]   for each NIC, numAvailableSendSlots_ or ...RecvSlots_      *)
(*   waiting[d] for each NIC, the requests waiting for a slot              *)
(*   posted[d]  for each NIC, the requests in flight, oldest first         *)
(*   inFlight[d]  numSendsInFlight_, numRecvsInFlight_                     *)
(*   cleanups   how often cleanup ran (it clears the queue pairs)          *)
(* A request is a chunk of operation n on the queue pair of its NIC with   *)
(* the NIC nic of the other end; it is done once its bytes have been       *)
(* transferred.  A buffer is given by its number of       *)
(* chunks and the NIC of its GPU.                                          *)
(***************************************************************************)
EXTENDS ChannelOps, TLC

CONSTANTS Ends, Lengths, CanFail, Closers,
  Nics,       \* the NICs of an end
  NumSlots    \* kNumSends, kNumRecvs

VARIABLE chan

Connections == {"descriptor", "readyToReceive"}

SendState == <<"UNINITIALIZED", "READING_READY_TO_RECEIVE", "WAITING_FOR_CUDA_EVENT",
               "SENDING_OVER_IB", "FINISHED">>
RecvState == <<"UNINITIALIZED", "READING_DESCRIPTOR", "WAITING_FOR_CUDA_EVENT",
               "RECEIVING_OVER_IB", "FINISHED">>

NewOperation(c, d, buffer) ==
  [ChunkOperation(c, d, buffer.chunks, TRUE) EXCEPT !.data = {}] @@
  [chunks |-> 0, localNic |-> buffer.nic]

-----------------------------------------------------------------------------

(* IbvNic                                                                  *)

(* postSend, postRecv                                                      *)
Post(c, d, nic, request) ==
  IF c.slots[d][nic] > 0
  THEN [c EXCEPT !.slots[d][nic] = @ - 1, !.posted[d][nic] = Append(@, request)]
  ELSE [c EXCEPT !.waiting[d][nic] = Append(@, request)]

(* Faulty variant: nothing is posted.                                      *)
PostWaitingNone(c, d, nic) == c

(* What is left to do in pollOnce once a slot has been given back: post    *)
(* the first of the requests that wait.                                    *)
PostWaiting(c, d, nic) ==
  IF c.waiting[d][nic] = <<>> THEN c
  ELSE Post([c EXCEPT !.waiting[d][nic] = Tail(@)], d, nic, Head(c.waiting[d][nic]))

(* pollOnce finds the completion of request number i.                      *)
Completed(c, d, nic, i, ok) ==
  LET request == c.posted[d][nic][i]
      Without(s) == SubSeq(s, 1, i - 1) \o SubSeq(s, i + 1, Len(s))
  IN PostWaiting(
       Defer([c EXCEPT !.posted[d][nic] = Without(@), !.slots[d][nic] = @ + 1],
             Task(Callback(d, request.n, "chunk"), ok, NoMessage)), d, nic)

-----------------------------------------------------------------------------

RECURSIVE PostChunks(_, _, _, _)

(* The loops of sendOverIb and recvOverIbAndWriteReadyToRecive, from chunk *)
(* on.                                                                     *)
PostChunks(c, d, n, chunk) ==
  LET op == c.ops[d][n]
      request == [n |-> n, chunk |-> chunk, nic |-> op.message, done |-> FALSE]
  IN IF chunk = op.length THEN c
     ELSE PostChunks([Post(c, d, op.localNic, request) EXCEPT
                        !.ops[d][n].chunks = @ + 1, !.inFlight[d] = @ + 1], d, n, chunk + 1)

(* Faulty variant: the descriptor does not tell the NIC of the buffer.     *)
WriteDescriptorOfFirstNic(c, n) ==
  Read(Write(c, "descriptor", 0), "readyToReceive",
       Callback("send", n, "doneReadingReadyToReceive"))

WriteDescriptorAndReadReadyToReceive(c, n) ==
  Read(Write(c, "descriptor", c.ops.send[n].localNic), "readyToReceive",
       Callback("send", n, "doneReadingReadyToReceive"))

WaitForCudaEvent(c, d, n) ==
  [c EXCEPT !.events = @ \cup {Callback(d, n, "doneWaitingForCudaEvent")}]

WaitForSendCudaEvent(c, n) == WaitForCudaEvent(c, "send", n)

SendOverIb(c, n) == PostChunks(c, "send", n, 0)

AdvanceSendOperation(c, n, prevOpState) ==
  LET To(x, from, to, cond, Actions(_, _)) ==
        AttemptTransition(x, "send", n, from, to, cond, Actions)
      After(s) == Reached(SendState, prevOpState, s)
      Done(x, what) == what \in x.ops.send[n].done
      T1(x) == To(x, "UNINITIALIZED", "FINISHED", x.error \/ x.ops.send[n].length = 0,
                  CallSendCallback)
      T2(x) == To(x, "UNINITIALIZED", "READING_READY_TO_RECEIVE",
                  ~x.error /\ x.state = "ESTABLISHED" /\ After("READING_READY_TO_RECEIVE"),
                  WriteDescriptorAndReadReadyToReceive)
      T3(x) == To(x, "READING_READY_TO_RECEIVE", "FINISHED",
                  x.error /\ Done(x, "doneReadingReadyToReceive"), CallSendCallback)
      T4(x) == To(x, "READING_READY_TO_RECEIVE", "WAITING_FOR_CUDA_EVENT",
                  ~x.error /\ Done(x, "doneReadingReadyToReceive") /\ After("SENDING_OVER_IB"),
                  WaitForSendCudaEvent)
      T5(x) == To(x, "WAITING_FOR_CUDA_EVENT", "FINISHED",
                  x.error /\ Done(x, "doneWaitingForCudaEvent"), CallSendCallback)
      T6(x) == To(x, "WAITING_FOR_CUDA_EVENT", "SENDING_OVER_IB",
                  ~x.error /\ Done(x, "doneWaitingForCudaEvent") /\ After("SENDING_OVER_IB"),
                  SendOverIb)
      T7(x) == To(x, "SENDING_OVER_IB", "FINISHED", x.ops.send[n].chunks = 0, CallSendCallback)
  IN T7(T6(T5(T4(T3(T2(T1(c)))))))

ReadDescriptor(c, n) ==
  Read(c, "descriptor", Callback("recv", n, "doneReadingDescriptor"))

WaitForRecvCudaEvent(c, n) == WaitForCudaEvent(c, "recv", n)

RecvOverIbAndWriteReadyToReceive(c, n) ==
  Write(PostChunks(c, "recv", n, 0), "readyToReceive", c.ops.recv[n].localNic)

AdvanceRecvOperation(c, n, prevOpState) ==
  LET To(x, from, to, cond, Actions(_, _)) ==
        AttemptTransition(x, "recv", n, from, to, cond, Actions)
      After(s) == Reached(RecvState, prevOpState, s)
      Done(x, what) == what \in x.ops.recv[n].done
      T1(x) == To(x, "UNINITIALIZED", "FINISHED", x.error \/ x.ops.recv[n].length = 0,
                  CallRecvCallback)
      T2(x) == To(x, "UNINITIALIZED", "READING_DESCRIPTOR",
                  ~x.error /\ x.state = "ESTABLISHED" /\ After("READING_DESCRIPTOR"),
                  ReadDescriptor)
      T3(x) == To(x, "READING_DESCRIPTOR", "FINISHED",
                  x.error /\ Done(x, "doneReadingDescriptor"), CallRecvCallback)
      T4(x) == To(x, "READING_DESCRIPTOR", "WAITING_FOR_CUDA_EVENT",
                  ~x.error /\ Done(x, "doneReadingDescriptor") /\ After("RECEIVING_OVER_IB"),
                  WaitForRecvCudaEvent)
      T5(x) == To(x, "WAITING_FOR_CUDA_EVENT", "FINISHED",
                  x.error /\ Done(x, "doneWaitingForCudaEvent"), CallRecvCallback)
      T6(x) == To(x, "WAITING_FOR_CUDA_EVENT", "RECEIVING_OVER_IB",
                  ~x.error /\ Done(x, "doneWaitingForCudaEvent") /\ After("RECEIVING_OVER_IB"),
                  RecvOverIbAndWriteReadyToReceive)
      T7(x) == To(x, "RECEIVING_OVER_IB", "FINISHED", x.ops.recv[n].chunks = 0, CallRecvCallback)
  IN T7(T6(T5(T4(T3(T2(T1(c)))))))

Advance(c, d, n, prevOpState) ==
  IF d = "send" THEN AdvanceSendOperation(c, n, prevOpState)
  ELSE AdvanceRecvOperation(c, n, prevOpState)

INSTANCE OpsStateMachine

AdvanceAll(c) == AdvanceAllOperations(AdvanceAllOperations(c, "send"), "recv")

SendImplFromLoop(c, buffer) ==
  AdvanceOperation([c EXCEPT !.ops.send = Append(@, NewOperation(c, "send", buffer))],
                   "send", Len(c.ops.send) + 1)

RecvImplFromLoop(c, buffer) ==
  AdvanceOperation([c EXCEPT !.ops.recv = Append(@, NewOperation(c, "recv", buffer))],
                   "recv", Len(c.ops.recv) + 1)

(* Faulty variant: requests in flight are not waited for.                  *)
TryCleanupAtOnce(c) == IF c.error THEN [c EXCEPT !.cleanups = @ + 1] ELSE c

TryCleanup(c) ==
  IF c.error /\ \A d \in Directions : c.inFlight[d] = 0
  THEN [c EXCEPT !.cleanups = @ + 1]
  ELSE c

(* The queue pairs, if there are any, are now in error: see RequestFails.  *)
HandleErrorImpl(c) == TryCleanup(AdvanceAll(c))

(* The queue pairs are created; then the information about them is         *)
(* exchanged.                                                              *)
OnReadHandshakeNumNics(c) ==
  [Read(Write(c, "readyToReceive", "setupInfo"), "readyToReceive",
        Callback("none", 0, "setupInfo"))
     EXCEPT !.state = "WAITING_FOR_HANDSHAKE_SETUP_INFO"]

OnReadHandshakeSetupInfo(c) == AdvanceAll([c EXCEPT !.state = "ESTABLISHED"])

(* Faulty variant: the last request does not try to clean up.              *)
OnChunkOnly(c, d, n) ==
  [AdvanceOperation([c EXCEPT !.ops[d][n].chunks = @ - 1], d, n) EXCEPT !.inFlight[d] = @ - 1]

(* The lambdas of sendOverIb and recvOverIbAndWriteReadyToRecive.          *)
OnChunk(c, d, n) ==
  TryCleanup([AdvanceOperation([c EXCEPT !.ops[d][n].chunks = @ - 1], d, n)
                EXCEPT !.inFlight[d] = @ - 1])

Lambda(c, callback, message) ==
  LET done == MarkDone(c, callback.d, callback.n, callback.fn)
      Read0(x) == [x EXCEPT !.ops[callback.d][callback.n].message = message]
  IN CASE callback.fn = "numNics" -> IF c.error THEN c ELSE OnReadHandshakeNumNics(c)
       [] callback.fn = "setupInfo" -> IF c.error THEN c ELSE OnReadHandshakeSetupInfo(c)
       [] callback.fn = "chunk" -> OnChunk(c, callback.d, callback.n)
       [] callback.fn \in {"doneReadingReadyToReceive", "doneReadingDescriptor"} ->
            AdvanceOperation(IF c.error THEN done ELSE Read0(done), callback.d, callback.n)
       [] callback.fn = "doneWaitingForCudaEvent" ->
            AdvanceOperation(done, callback.d, callback.n)

NewChannel ==
  LET PerNic(x) == [d \in Directions |-> [nic \in Nics |-> x]]
  IN NewEnd(Connections) @@
     [state |-> "INITIALIZING", events |-> {},
      slots |-> PerNic(NumSlots), waiting |-> PerNic(<<>>), posted |-> PerNic(<<>>),
      inFlight |-> [d \in Directions |-> 0], cleanups |-> 0]

InitImplFromLoop(c, e) ==
  [Read(Write(c, "readyToReceive", "numNics"), "readyToReceive", Callback("none", 0, "numNics"))
     EXCEPT !.state = "WAITING_FOR_HANDSHAKE_NUM_NICS"]

(* The requests that are with the NICs of the end, in flight or waiting.   *)
Requests(c, d) ==
  LET In(s) == {s[i] : i \in 1 .. Len(s)}
  IN UNION {In(c.posted[d][nic]) \cup In(c.waiting[d][nic]) : nic \in Nics}

Outstanding(c) ==
  c.events \cup UNION {{Callback(d, r.n, "chunk") : r \in Requests(c, d)} : d \in Directions}

(* Request i in flight is the first of its queue pair.                     *)
IsFirst(c, d, nic, i) ==
  LET posted == c.posted[d][nic]
  IN i \in 1 .. Len(posted) /\ \A j \in 1 .. i - 1 : posted[j].nic # posted[i].nic

(* Request i is the next to be transferred on the queue pair of nic with   *)
(* remote.                                                                 *)
IsNext(c, d, nic, remote, i) ==
  LET posted == c.posted[d][nic]
  IN /\ i \in 1 .. Len(posted) /\ posted[i].nic = remote /\ ~posted[i].done
     /\ \A j \in 1 .. i - 1 : posted[j].nic = remote => posted[j].done

(* Request i of NIC "from" of the sender meets request j of NIC "to".      *)
Meet(c, peer, from, to, i, j) ==
  IsNext(c, "send", from, to, i) /\ IsNext(peer, "recv", to, from, j)

(* An event may fire, a request may complete, be flushed or be transferred. *)
Working(c, peer) ==
  \/ c.events # {}
  \/ \E d \in Directions : \E r \in Requests(c, d) : c.error \/ r.done
  \/ \E from, to \in Nics, i, j \in 1 .. NumSlots :
       Meet(c, peer, from, to, i, j) \/ Meet(peer, c, from, to, i, j)

INSTANCE Channel

-----------------------------------------------------------------------------

(* pollCudaOnce finds that an event has happened.  (It skips the event     *)
(* after one it erases, until the next time round.)                        *)
PollCudaOnce(e, callback) ==
  chan' = [chan EXCEPT ![e] = Defer([@ EXCEPT !.events = @ \ {callback}],
                                    Task(callback, TRUE, NoMessage))]

(* The NICs transfer the bytes of the first send of a queue pair to the    *)
(* first recv of its remote queue pair.  A channel in error has moved its  *)
(* queue pairs to the error state.                                         *)
Transfer(e, from, to, i, j) ==
  /\ ~chan[e].error /\ ~chan[Peer(e)].error
  /\ Meet(chan[e], chan[Peer(e)], from, to, i, j)
  /\ LET sent == chan[e].posted.send[from][i]
         received == chan[Peer(e)].posted.recv[to][j]
     IN chan' = [chan EXCEPT
          ![e].posted.send[from][i].done = TRUE,
          ![Peer(e)] = [@ EXCEPT
             !.posted.recv[to][j].done = TRUE,
             !.ops.recv[received.n].data = @ \cup {<<sent.n, sent.chunk, received.chunk>>}]]

(* A request that is done completes, even if an end has failed since.      *)
RequestCompletes(e, d, nic, i) ==
  /\ IsFirst(chan[e], d, nic, i) /\ chan[e].posted[d][nic][i].done
  /\ chan' = [chan EXCEPT ![e] = Completed(@, d, nic, i, TRUE)]

(* A request fails: its queue pair is in error, or, for a send, the one    *)
(* at the other end is.  A send may fail although it is done, when the     *)
(* acknowledgement is lost.                                                *)
RequestFails(e, d, nic, i) ==
  /\ IsFirst(chan[e], d, nic, i) /\ (d = "recv" => ~chan[e].posted[d][nic][i].done)
  /\ chan[e].error \/ (d = "send" /\ chan[Peer(e)].error)
  /\ chan' = [chan EXCEPT ![e] = Completed(@, d, nic, i, FALSE)]

Next ==
  \E e \in Ends :
    \/ Send(e, SendImplFromLoop(Called(chan[e], "send"), NextLength(e, "send")))
    \/ Recv(e, RecvImplFromLoop(Called(chan[e], "recv"), NextLength(e, "recv")))
    \/ Close(e, HandleErrorImpl(Failed(chan[e]))) \/ RunTask(e, HandleErrorImpl, Lambda)
    \/ \E callback \in chan[e].events : PollCudaOnce(e, callback)
    \/ \E from, to \in Nics, i, j \in 1 .. NumSlots : Transfer(e, from, to, i, j)
    \/ \E d \in Directions, nic \in Nics, i \in 1 .. NumSlots :
         RequestCompletes(e, d, nic, i) \/ RequestFails(e, d, nic, i)
    \/ \E k \in Connections : ReadCompletes(e, k) \/ WriteFails(e, k)

Spec == Init /\ [][Next]_chan

-----------------------------------------------------------------------------

(* TransfersMatch: the bytes that the NIC puts in a chunk of the buffer of *)
(* a recv are those of the same chunk of the send it matches.  The order   *)
(* in which both ends post their requests on a queue pair must agree, which *)
(* is what the conditions on prevOpState are for (channel_impl.cc:264-265, *)
(* 459-461).                                                               *)
TransfersMatch ==
  \A e \in Ends : \A n \in 1 .. Len(chan[e].ops.recv) :
    \A t \in chan[e].ops.recv[n].data : t[1] = n /\ t[2] = t[3]

(* CleanedUpOnce: the queue pairs are cleared and the channel is           *)
(* unenrolled at most once, and only when no NIC holds a request on them.  *)
CleanedUpOnce ==
  \A e \in Ends :
    /\ chan[e].cleanups <= 1
    /\ chan[e].cleanups = 1 => \A d \in Directions : Requests(chan[e], d) = {}

(* CleanedUp: once a channel in error has nothing left to do, cleanup has  *)
(* run, so that the context, which waits for the NICs in join, can end.    *)
CleanedUp ==
  \A e \in Ends : chan[e].error /\ chan[e].state # "INITIALIZING" /\ Quiet(e) =>
    chan[e].cleanups = 1

(* WaitingMeansFull: requests wait for a slot only while all slots are     *)
(* taken by requests in flight, so a completion comes that posts them.     *)
(* readyToClose (context_impl.cc:444) looks at those in flight only.       *)
WaitingMeansFull ==
  \A e \in Ends, d \in Directions, nic \in Nics :
    /\ Len(chan[e].posted[d][nic]) + chan[e].slots[d][nic] = NumSlots
    /\ chan[e].waiting[d][nic] # <<>> => chan[e].slots[d][nic] = 0
=============================================================================
