----------------------------- MODULE MptChannel -----------------------------
(***************************************************************************)
(* The mpt channel (channel/mpt): a buffer is cut in chunks, one for each  *)
(* lane.  The lanes are connections the client opens to the listeners of   *)
(* the server's context once it has read, on the channel's own connection, *)
(* the hello of the server; the server's context reads a hello on each     *)
(* lane it accepts and gives the lane to the channel that registered for   *)
(* it.                                                                     *)
(*                                                                         *)
(* An end has the further fields state (state_), lanes (the lanes it       *)
(* holds), registered (the lanes it has a request registered for with its  *)
(* context), and those of its context: waitingForHello (the lanes accepted *)
(* whose hello is being read), accepted (the lanes taken from the          *)
(* listeners) and closed (the context is in error).                        *)
(***************************************************************************)
EXTENDS ChannelOps, TLC

CONSTANTS Ends, Client, NumLanes, Lengths, CanFail, Closers

VARIABLE chan

Lanes == 0 .. NumLanes - 1
Backbone == NumLanes             \* the channel's own connection
Connections == Lanes \cup {Backbone}

SendState == <<"UNINITIALIZED", "WRITING_CHUNKS", "FINISHED">>
RecvState == <<"UNINITIALIZED", "READING_CHUNKS", "FINISHED">>

NewOperation(c, d, length) ==
  [ChunkOperation(c, d, length, TRUE) EXCEPT !.data = {}] @@ [chunks |-> 0]

(* Faulty variant: what is left over after equal parts is not sent.        *)
ChunkOfEqual(length, lane) ==
  (length \div NumLanes) * lane .. (length \div NumLanes) * (lane + 1) - 1

(* The bytes of a buffer that go over a lane: the cut points are equally   *)
(* spaced, rounded down.                                                   *)
Chunk(length, lane) ==
  (length * lane) \div NumLanes .. ((length * (lane + 1)) \div NumLanes) - 1

WriteChunks(c, n) ==
  [c EXCEPT
     !.out = [k \in Connections |-> IF k \in Lanes
                THEN Append(@[k], {<<n, byte>> : byte \in Chunk(c.ops.send[n].length, k)})
                ELSE @[k]],
     !.writes = [k \in Connections |-> IF k \in Lanes
                   THEN Append(@[k], Callback("send", n, "chunk")) ELSE @[k]],
     !.ops.send[n].chunks = NumLanes]

AdvanceSendOperation(c, n, prevOpState) ==
  LET To(x, from, to, cond, Actions(_, _)) ==
        AttemptTransition(x, "send", n, from, to, cond, Actions)
      T1(x) == To(x, "UNINITIALIZED", "FINISHED", x.error \/ x.ops.send[n].length = 0,
                  CallSendCallback)
      T2(x) == To(x, "UNINITIALIZED", "WRITING_CHUNKS",
                  /\ ~x.error /\ x.state = "ESTABLISHED"
                  /\ Reached(SendState, prevOpState, "WRITING_CHUNKS"), WriteChunks)
      T3(x) == To(x, "WRITING_CHUNKS", "FINISHED", x.ops.send[n].chunks = 0, CallSendCallback)
  IN T3(T2(T1(c)))

ReadChunks(c, n) ==
  [c EXCEPT
     !.reads = [k \in Connections |-> IF k \in Lanes
                  THEN Append(@[k], Callback("recv", n, "chunk")) ELSE @[k]],
     !.ops.recv[n].chunks = NumLanes]

AdvanceRecvOperation(c, n, prevOpState) ==
  LET To(x, from, to, cond, Actions(_, _)) ==
        AttemptTransition(x, "recv", n, from, to, cond, Actions)
      T1(x) == To(x, "UNINITIALIZED", "FINISHED", x.error \/ x.ops.recv[n].length = 0,
                  CallRecvCallback)
      T2(x) == To(x, "UNINITIALIZED", "READING_CHUNKS",
                  /\ ~x.error /\ x.state = "ESTABLISHED"
                  /\ Reached(RecvState, prevOpState, "READING_CHUNKS"), ReadChunks)
      T3(x) == To(x, "READING_CHUNKS", "FINISHED", x.ops.recv[n].chunks = 0, CallRecvCallback)
  IN T3(T2(T1(c)))

Advance(c, d, n, prevOpState) ==
  IF d = "send" THEN AdvanceSendOperation(c, n, prevOpState)
  ELSE AdvanceRecvOperation(c, n, prevOpState)

INSTANCE OpsStateMachine

AdvanceAll(c) == AdvanceAllOperations(AdvanceAllOperations(c, "send"), "recv")

SendImplFromLoop(c, length) ==
  AdvanceOperation([c EXCEPT !.ops.send = Append(@, NewOperation(c, "send", length))],
                   "send", Len(c.ops.send) + 1)

RecvImplFromLoop(c, length) ==
  AdvanceOperation([c EXCEPT !.ops.recv = Append(@, NewOperation(c, "recv", length))],
                   "recv", Len(c.ops.recv) + 1)

(* The connections are closed, in Channel's MayFail, and the registrations *)
(* that are left are withdrawn.                                            *)
HandleErrorImpl(c) == [AdvanceAll(c) EXCEPT !.registered = {}]

(* The client connects the lanes and writes a hello on each.               *)
OnClientReadHelloOnConnection(c) ==
  AdvanceAll([c EXCEPT !.out = [k \in Connections |-> IF k \in Lanes THEN <<"hello">> ELSE @[k]],
                       !.lanes = Lanes, !.state = "ESTABLISHED"])

(* Faulty variant: the operations that were waiting are not advanced.      *)
OnServerAcceptOfLaneOnly(c, lane) ==
  LET held == [c EXCEPT !.lanes = @ \cup {lane}, !.registered = @ \ {lane}]
  IN IF held.lanes = Lanes THEN [held EXCEPT !.state = "ESTABLISHED"] ELSE held

(* Faulty variant: the first lane is taken for the last.                   *)
OnServerAcceptOfFirstLane(c, lane) ==
  AdvanceAll([c EXCEPT !.lanes = @ \cup {lane}, !.registered = @ \ {lane},
                       !.state = "ESTABLISHED"])

(* The registration of the lane went when the context called back; the     *)
(* channel withdraws it once more, which does nothing.                     *)
OnServerAcceptOfLane(c, lane) ==
  LET held == [c EXCEPT !.lanes = @ \cup {lane}, !.registered = @ \ {lane}]
  IN IF held.lanes = Lanes THEN AdvanceAll([held EXCEPT !.state = "ESTABLISHED"]) ELSE held

(* The lambda of writeChunks or readChunks.                                *)
OnChunk(c, d, n, bytes) ==
  AdvanceOperation([c EXCEPT !.ops[d][n].chunks = @ - 1,
                             !.ops[d][n].data = @ \cup bytes], d, n)

Lambda(c, callback, message) ==
  CASE callback.fn = "hello" -> IF c.error THEN c ELSE OnClientReadHelloOnConnection(c)
    [] callback.fn = "accepted" -> IF c.error THEN c ELSE OnServerAcceptOfLane(c, callback.n)
    [] callback.fn = "chunk" ->
         OnChunk(c, callback.d, callback.n,
                 IF callback.d = "recv" /\ ~c.error THEN message ELSE {})

NewChannel ==
  NewEnd(Connections) @@
  [state |-> "UNINITIALIZED", lanes |-> {}, registered |-> {},
   accepted |-> {}, waitingForHello |-> {}, closed |-> FALSE]

(* The client reads the server's hello; the server registers for each lane *)
(* and writes its hello.                                                   *)
InitImplFromLoop(c, e) ==
  IF e = Client
  THEN Read([c EXCEPT !.state = "CLIENT_READING_HELLO"], Backbone, Callback("none", 0, "hello"))
  ELSE Write([c EXCEPT !.state = "SERVER_ACCEPTING_LANES", !.registered = Lanes],
             Backbone, "hello")

(* The context of the server has lanes to accept or hellos to read.        *)
Working(c, peer) ==
  /\ c.state = "SERVER_ACCEPTING_LANES" /\ ~c.closed
  /\ c.waitingForHello # {} \/ peer.lanes \ c.accepted # {}

Outstanding(c) == {}

INSTANCE Channel

-----------------------------------------------------------------------------

(* The context of the server.                                              *)

(* ContextImpl::handleErrorImpl: the channels, already closed, have        *)
(* withdrawn their registrations; the lanes still waiting are closed.      *)
CloseContextImpl(c) ==
  [SetError(c, FALSE, HandleErrorImpl(Failed(c))) EXCEPT
     !.closed = TRUE, !.registered = {}, !.waitingForHello = {}]

CloseContext(e) ==
  /\ e \in Closers /\ ~chan[e].closed
  /\ chan' = [chan EXCEPT ![e] = CloseContextImpl(@)]

(* acceptLane, onAcceptOfLane: a lane the client has connected is accepted *)
(* and its hello awaited; the listener is armed again.                     *)
OnAcceptOfLane(e, lane) ==
  /\ e # Client /\ ~chan[e].closed
  /\ lane \in chan[Client].lanes \ chan[e].accepted
  /\ chan' = [chan EXCEPT ![e].accepted = @ \cup {lane}, ![e].waitingForHello = @ \cup {lane}]

(* The hello names the registration to give the lane to, unless it is      *)
(* gone; a failure to read it is an error of the whole context.            *)
OnReadClientHelloOnLane(e, lane) ==
  /\ lane \in chan[e].waitingForHello
  /\ LET c == [chan[e] EXCEPT !.waitingForHello = @ \ {lane}]
     IN \/ /\ chan' = [chan EXCEPT
                ![Client].out[lane] = Tail(@),
                ![e] = IF lane \in c.registered
                       THEN Defer([c EXCEPT !.registered = @ \ {lane}],
                                  Task(Callback("none", lane, "accepted"), TRUE, NoMessage))
                       ELSE c]
        \/ /\ MayFail(e, lane)
           /\ chan' = [chan EXCEPT ![e] = CloseContextImpl(c)]

Next ==
  \E e \in Ends :
    \/ Send(e, SendImplFromLoop(Called(chan[e], "send"), NextLength(e, "send")))
    \/ Recv(e, RecvImplFromLoop(Called(chan[e], "recv"), NextLength(e, "recv")))
    \/ Close(e, HandleErrorImpl(Failed(chan[e]))) \/ RunTask(e, HandleErrorImpl, Lambda)
    \/ CloseContext(e)
    \/ \E k \in Connections : ReadCompletes(e, k) \/ WriteCompletes(e, k) \/ WriteFails(e, k)
    \/ \E lane \in Lanes : OnAcceptOfLane(e, lane) \/ OnReadClientHelloOnLane(e, lane)

Spec == Init /\ [][Next]_chan

-----------------------------------------------------------------------------

(* ChunksAssembled: a recv that reports success has each byte of the send  *)
(* it matches, and no byte of another: the chunks over several lanes are   *)
(* those of one buffer, whatever order the lanes deliver them in.          *)
ChunksAssembled ==
  \A e \in Ends : \A n \in 1 .. Len(chan[e].ops.recv) :
    LET op == chan[e].ops.recv[n]
    IN chan[e].calls.recv[op.call].ok =>
         op.data = {<<n, byte>> : byte \in 0 .. op.length - 1}

(* LanesWhole: a server that is established holds all lanes and has no     *)
(* request left with its context; one that is not, and is not in error,    *)
(* has for each lane it lacks a request registered or a lane on its way,   *)
(* so no lane is lost between the context and the channel.                 *)
LanesWhole ==
  \A e \in Ends \ {Client} : ~chan[e].error =>
    \A lane \in Lanes :
      \/ lane \in chan[e].lanes /\ lane \notin chan[e].registered
      \/ lane \in chan[e].registered /\ chan[e].state # "ESTABLISHED"
      \/ \E i \in 1 .. Len(chan[e].tasks) :
           chan[e].tasks[i].callback = Callback("none", lane, "accepted")
=============================================================================
