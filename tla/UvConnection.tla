---------------------------- MODULE UvConnection ----------------------------
(***************************************************************************)
(* A connection of the uv transport (transport/uv/connection_impl.cc) over *)
(* a TCP stream that libuv handles, with the StreamReadOperation and       *)
(* StreamWriteOperation of common/stream_read_write_ops.h.  A message is   *)
(* sent as its length, HeaderSize bytes, and its payload, and the stream   *)
(* may be cut anywhere.  Byte i of message n is <<n, i, len>>, those of    *)
(* its length included.                                                    *)
(*                                                                         *)
(* An end has the further fields                                           *)
(*   connected   libuv has connected or accepted the socket                *)
(*   readOps     readOperations_                                           *)
(*   writeOps    writeOperations_: the calls                               *)
(*   reading     between uv_read_start and uv_read_stop                    *)
(*   requests    libuv's write requests: the call, and the bytes left      *)
(*   written     the write requests that are finished but not called back  *)
(*   incoming    the bytes in the socket                                   *)
(*   handle      "open", "closing" after uv_close, "closed" after its      *)
(*               callback, when the connection is no longer enrolled       *)
(***************************************************************************)
EXTENDS Naturals, Sequences, TLC

CONSTANTS
  Ends, Calls, Closers,
  Clients,        \* the ends that connect (the other one was accepted)
  HeaderSize,     \* sizeof(size_t)
  SocketSize      \* bound: how many bytes the sockets hold in each direction

VARIABLE conn

NewConnection ==
  [error |-> FALSE, calls |-> [read |-> 0, write |-> 0],
   answers |-> [read |-> <<>>, write |-> <<>>],
   connected |-> FALSE, readOps |-> <<>>, writeOps |-> <<>>, reading |-> FALSE,
   requests |-> <<>>, written |-> <<>>, incoming |-> <<>>, handle |-> "closed"]

(* Nothing fails in it: a connect that does calls back later.              *)
Failing == {}

InitImplFromLoop(s, e, ok) ==
  [s EXCEPT ![e].handle = "open", ![e].connected = e \notin Clients]

Busy(c) == FALSE

(***************************************************************************)
(* StreamReadOperation: mode_, readLength_, and the bytes read since the   *)
(* mode changed.                                                           *)
(***************************************************************************)

StreamReadOperation(n) == [n |-> n, mode |-> "READ_LENGTH", readLength |-> 0, bytes |-> <<>>]

(* allocFromLoop: how many bytes there is a buffer for                     *)
AllocFromLoop(op) ==
  (IF op.mode = "READ_LENGTH" THEN HeaderSize ELSE op.readLength) - Len(op.bytes)

(* Faulty variant: the length is taken to arrive in one piece.             *)
ReadFromLoopEagerly(op, bytes) ==
  LET all == op.bytes \o bytes
  IN IF op.mode = "READ_LENGTH"
     THEN [op EXCEPT !.readLength = all[1][3], !.bytes = <<>>,
                     !.mode = IF all[1][3] = 0 THEN "COMPLETE" ELSE "READ_PAYLOAD"]
     ELSE [op EXCEPT !.bytes = all,
                     !.mode = IF Len(all) = op.readLength THEN "COMPLETE" ELSE @]

ReadFromLoop(op, bytes) ==
  LET all == op.bytes \o bytes
  IN CASE op.mode = "READ_LENGTH" /\ Len(all) < HeaderSize -> [op EXCEPT !.bytes = all]
       [] op.mode = "READ_LENGTH" /\ Len(all) = HeaderSize ->
            [op EXCEPT !.readLength = all[1][3], !.bytes = <<>>,
                       !.mode = IF all[1][3] = 0 THEN "COMPLETE" ELSE "READ_PAYLOAD"]
       [] op.mode = "READ_PAYLOAD" ->
            [op EXCEPT !.bytes = all,
                       !.mode = IF Len(all) = op.readLength THEN "COMPLETE" ELSE @]

(* StreamWriteOperation::getBufs: the length and the payload               *)
GetBufs(n, call) == [i \in 1 .. HeaderSize + call.len |-> <<n, i, call.len>>]

(* The user's bytes of a message, numbered from 1                          *)
UserBytes(bytes) == [i \in 1 .. Len(bytes) |-> <<bytes[i][1], bytes[i][2] - HeaderSize>>]

-----------------------------------------------------------------------------

(* Faulty variant: reading is only ever started by the first read.         *)
ReadImplFromLoopFirstOnly(s, e, n, call) ==
  [s EXCEPT ![e].readOps = Append(@, StreamReadOperation(n)),
            ![e].reading = IF n = 1 THEN TRUE ELSE @]

ReadImplFromLoop(s, e, n, call) ==
  [s EXCEPT ![e].readOps = Append(@, StreamReadOperation(n)),
            ![e].reading = IF Len(s[e].readOps) = 0 THEN TRUE ELSE @]

WriteImplFromLoop(s, e, n, call) ==
  [s EXCEPT ![e].writeOps = Append(@, n),
            ![e].requests = Append(@, [n |-> n, left |-> GetBufs(n, call)])]

(* Faulty variant: the callbacks of the writes are called here as well.    *)
HandleErrorImplWithWrites(s, e) ==
  LET Fail(n) == [n |-> n, ok |-> FALSE, bytes |-> <<>>]
      c == s[e]
  IN [s EXCEPT ![e].answers.read = @ \o [i \in 1 .. Len(c.readOps) |-> Fail(c.readOps[i].n)],
               ![e].answers.write = @ \o [i \in 1 .. Len(c.writeOps) |-> Fail(c.writeOps[i])],
               ![e].readOps = <<>>, ![e].reading = FALSE, ![e].handle = "closing"]

(* The reads are called back; the writes are not, for libuv still has      *)
(* their buffers.  uv_close also stops reading.                            *)
HandleErrorImpl(s, e) ==
  LET ops == s[e].readOps
  IN [s EXCEPT ![e].answers.read =
                 @ \o [i \in 1 .. Len(ops) |-> [n |-> ops[i].n, ok |-> FALSE, bytes |-> <<>>]],
               ![e].readOps = <<>>, ![e].reading = FALSE, ![e].handle = "closing"]

INSTANCE Connection

-----------------------------------------------------------------------------

(* readCallbackFromLoop                                                    *)
ReadCallbackFromLoop(s, e, bytes) ==
  LET op == ReadFromLoop(Head(s[e].readOps), bytes)
      rest == Tail(s[e].readOps)
  IN IF op.mode # "COMPLETE" THEN [s EXCEPT ![e].readOps[1] = op]
     ELSE Answer([s EXCEPT ![e].readOps = rest, ![e].reading = rest # <<>>],
                 e, "read", op.n, TRUE, UserBytes(op.bytes))

(* Faulty variant: after an error, the rest is left to handleError.        *)
WriteCallbackFromLoopReturns(s, e, failed) ==
  IF failed THEN SetError(s, e)
  ELSE Answer([s EXCEPT ![e].writeOps = Tail(@)], e, "write", Head(s[e].writeOps), ~s[e].error,
              <<>>)

(* writeCallbackFromLoop: the callback of the first write gets error_,     *)
(* which a failed request has set just before.                             *)
WriteCallbackFromLoop(s, e, failed) ==
  LET t == IF failed THEN SetError(s, e) ELSE s
  IN Answer([t EXCEPT ![e].writeOps = Tail(@)], e, "write", Head(s[e].writeOps), ~t[e].error,
            <<>>)

(* closeCallbackFromLoop                                                   *)
CloseCallbackFromLoop(s, e) == [s EXCEPT ![e].handle = "closed"]

(***************************************************************************)
(* libuv and TCP                                                           *)
(***************************************************************************)

Open(e) == conn[e].handle = "open"
PeerGone(e) == conn[Peer(e)].handle # "open"

(* uv_tcp_connect, which fails if there is nobody to connect to.           *)
UvConnectCb(e) ==
  /\ Open(e) /\ ~conn[e].connected
  /\ \/ ~PeerGone(e) /\ conn' = [conn EXCEPT ![e].connected = TRUE]
     \/ PeerGone(e) /\ conn' = SetError(conn, e)

(* Bytes of the first write request go into the socket.  A request fails   *)
(* when the other end is gone, and may succeed even then.                  *)
UvTryWrite(e) ==
  /\ Open(e) /\ conn[e].connected /\ conn[e].requests # <<>>
  /\ LET request == Head(conn[e].requests)
         Finish(s, failed) ==
           [s EXCEPT ![e].requests = Tail(@),
                     ![e].written = Append(@, [n |-> request.n, failed |-> failed])]
     IN \/ \E k \in 1 .. Len(request.left) :
             /\ Len(conn[Peer(e)].incoming) + k <= SocketSize
             /\ LET s == [conn EXCEPT ![Peer(e)].incoming = @ \o SubSeq(request.left, 1, k),
                                      ![e].requests[1].left =
                                        SubSeq(@, k + 1, Len(request.left))]
                IN conn' = IF k = Len(request.left) THEN Finish(s, FALSE) ELSE s
        \/ PeerGone(e) /\ conn' = Finish(conn, TRUE)

UvWriteCb(e) ==
  /\ Open(e) /\ conn[e].written # <<>>
  /\ conn' = WriteCallbackFromLoop([conn EXCEPT ![e].written = Tail(@)], e,
                                   Head(conn[e].written).failed)

(* Some of the bytes in the socket, at most as many as there is a buffer   *)
(* for.                                                                    *)
UvReadCb(e) ==
  /\ Open(e) /\ conn[e].connected /\ conn[e].reading
  /\ \E k \in 1 .. Len(conn[e].incoming) :
       /\ k <= AllocFromLoop(Head(conn[e].readOps))
       /\ conn' = ReadCallbackFromLoop(
                    [conn EXCEPT ![e].incoming = SubSeq(@, k + 1, Len(conn[e].incoming))],
                    e, SubSeq(conn[e].incoming, 1, k))

(* The end of the stream, or a reset that overtakes what is in the socket. *)
UvReadCbError(e) ==
  /\ Open(e) /\ conn[e].connected /\ conn[e].reading /\ PeerGone(e)
  /\ conn' = SetError(conn, e)

RECURSIVE CancelWrites(_, _, _)
CancelWrites(s, e, requests) ==
  IF requests = <<>> THEN s
  ELSE CancelWrites(WriteCallbackFromLoop(s, e, Head(requests).failed), e, Tail(requests))

(* The end of uv_close: all write requests, finished or not, are called    *)
(* back and then the handle.                                               *)
UvCloseCb(e) ==
  /\ conn[e].handle = "closing"
  /\ LET c == conn[e]
         cancelled == [i \in 1 .. Len(c.requests) |-> [n |-> c.requests[i].n, failed |-> TRUE]]
         s == [conn EXCEPT ![e].requests = <<>>, ![e].written = <<>>]
     IN conn' = CloseCallbackFromLoop(CancelWrites(s, e, c.written \o cancelled), e)

Uv(e) ==
  \/ UvConnectCb(e) \/ UvTryWrite(e) \/ UvWriteCb(e)
  \/ UvReadCb(e) \/ UvReadCbError(e) \/ UvCloseCb(e)

Next == \E e \in Ends : Read(e) \/ Write(e) \/ Close(e) \/ Uv(e)

Spec == Init /\ [][Next]_conn

-----------------------------------------------------------------------------

(* BuffersNotWithLibuv: a write's callback, which gives the user back the  *)
(* buffer, is called after libuv is done with it, on error too (see the    *)
(* comments at connection_impl.cc:158-163 and 184-186).                    *)
BuffersNotWithLibuv ==
  \A e \in Ends : \A i \in 1 .. Len(conn[e].answers.write) :
    \A j \in 1 .. Len(conn[e].requests) : conn[e].requests[j].n # conn[e].answers.write[i].n

(* CallbacksHaveOperation: libuv calls back for a write, in the order of   *)
(* writeOperations_, and for data only while there is a read to give it to *)
(* (the assertions at connection_impl.cc:116, 136 and 166).                *)
CallbacksHaveOperation ==
  \A e \in Ends :
    LET c == conn[e]
        requests == c.written \o c.requests
    IN /\ c.writeOps = [i \in 1 .. Len(requests) |-> requests[i].n]
       /\ c.reading <=> c.readOps # <<>>

(* AllAnswered: libuv does not come to rest before an end in error has     *)
(* called all its callbacks, and a read is answered if the other end has   *)
(* written as many messages or is closed.                                  *)
AllAnswered ==
  (\A e \in Ends : ~ENABLED Uv(e)) =>
    \A e \in Ends :
      /\ conn[e].error =>
           \A d \in Directions : Len(conn[e].answers[d]) = conn[e].calls[d]
      /\ \/ Len(conn[e].answers.read) = conn[e].calls.read
         \/ Len(conn[e].answers.read) >= conn[Peer(e)].calls.write /\ ~conn[Peer(e)].error
=============================================================================
