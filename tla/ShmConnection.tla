--------------------------- MODULE ShmConnection ---------------------------
(***************************************************************************)
(* A connection of the shm transport (transport/shm): two processes, each  *)
(* with a reactor thread, exchange over a Unix socket the descriptors of a *)
(* ring buffer for each direction and of the ring buffers through which    *)
(* their reactors are triggered.  Data then goes through the ring buffers  *)
(* only; the socket stays open to tell when the other end is gone.         *)
(*                                                                         *)
(* An end has the further fields                                           *)
(*   state       state_                                                    *)
(*   fdsSent     it has sent its descriptors and tokens over the socket    *)
(*   inbox       the bytes in its inbox, the other end's outbox            *)
(*   readOps, writeOps   readOperations_, writeOperations_                 *)
(*   tokens      the triggers in the ring buffer of its reactor            *)
(*   reactions   the tokens it has a reaction for                          *)
(*   stale       triggers still to come from the peers of connections that *)
(*               had the same tokens before it                             *)
(*   todo        what its reactor thread still has to do in this task: a   *)
(*               round of one of the two loops of process...FromLoop, or   *)
(*               the trigger that ends a round                             *)
(* The reactor threads of the two ends interleave between the commit of a  *)
(* transaction on a ring buffer and the trigger that follows it.           *)
(***************************************************************************)
EXTENDS RingBufferOps, TLC

CONSTANTS
  Ends, Calls, Closers, Failing,
  BufferSize,     \* kBufferSize
  MaxStale        \* bound: triggers that were meant for an earlier connection

VARIABLE conn

Tokens == {"inbox", "outbox"}

NewConnection ==
  [error |-> FALSE, calls |-> [read |-> 0, write |-> 0],
   answers |-> [read |-> <<>>, write |-> <<>>],
   state |-> "INITIALIZING", fdsSent |-> FALSE, inbox |-> <<>>,
   readOps |-> <<>>, writeOps |-> <<>>, tokens |-> <<>>, reactions |-> {},
   stale |-> MaxStale, todo |-> <<>>]

(* processReadOperationsFromLoop, processWriteOperationsFromLoop: returns  *)
(* at once unless the connection is established.                           *)
Process(s, e, d) ==
  IF s[e].state = "ESTABLISHED" THEN [s EXCEPT ![e].todo = Append(@, d)] ELSE s

ReadImplFromLoop(s, e, n, call) ==
  Process([s EXCEPT ![e].readOps = Append(@, ReadOperation(n, call))], e, "read")

WriteImplFromLoop(s, e, n, call) ==
  Process([s EXCEPT ![e].writeOps = Append(@, WriteOperation(n, call))], e, "write")

Busy(c) == c.todo # <<>>

(* Faulty variant: the operations are kept, and so are the reactions.      *)
HandleErrorImplForgetful(s, e) ==
  LET FailAll(ops) == [i \in 1 .. Len(ops) |-> [n |-> ops[i].n, ok |-> FALSE, bytes |-> <<>>]]
  IN [s EXCEPT ![e].answers = [read |-> @.read \o FailAll(s[e].readOps),
                               write |-> @.write \o FailAll(s[e].writeOps)]]

(* All callbacks are called; the reactions are removed, the socket is      *)
(* unregistered and closed.                                                *)
HandleErrorImpl(s, e) ==
  LET Failed(op) == [n |-> op.n, ok |-> FALSE, bytes |-> <<>>]
      FailAll(ops) == [i \in 1 .. Len(ops) |-> Failed(ops[i])]
  IN [s EXCEPT ![e].answers = [read |-> @.read \o FailAll(s[e].readOps),
                               write |-> @.write \o FailAll(s[e].writeOps)],
               ![e].readOps = <<>>, ![e].writeOps = <<>>, ![e].reactions = {}]

InitImplFromLoop(s, e, ok) ==
  IF ok THEN [s EXCEPT ![e].reactions = Tokens, ![e].state = "SEND_FDS"]
  ELSE HandleErrorImpl([s EXCEPT ![e].error = TRUE], e)

INSTANCE Connection

-----------------------------------------------------------------------------

(* Reactor::pollOnce: the reaction for the token, if it is still there.    *)
PollOnce(e) ==
  /\ ~Busy(conn[e]) /\ conn[e].tokens # <<>>
  /\ LET token == Head(conn[e].tokens)
         s == [conn EXCEPT ![e].tokens = Tail(@)]
     IN conn' = IF token \notin s[e].reactions THEN s
                ELSE Process(s, e, IF token = "inbox" THEN "read" ELSE "write")

(* A round of the loop of processReadOperationsFromLoop, up to the trigger.*)
ReadRound(e) ==
  /\ Busy(conn[e]) /\ Head(conn[e].todo) = "read"
  /\ LET rest == [conn EXCEPT ![e].todo = Tail(@)]
     IN IF conn[e].readOps = <<>> THEN conn' = rest
        ELSE LET r == HandleRead(Head(conn[e].readOps), conn[e].inbox)
                 s == [rest EXCEPT ![e].inbox = r.ring, ![e].readOps[1] = r.op]
                 done == ReadCompleted(r.op)
                 t == IF done
                      THEN Answer([s EXCEPT ![e].readOps = Tail(@)], e, "read", r.op.n, TRUE,
                                  r.op.bytes)
                      ELSE s
             IN conn' = [t EXCEPT ![e].todo = (IF r.moved THEN <<"triggerOutbox">> ELSE <<>>)
                                              \o (IF done THEN <<"read">> ELSE <<>>) \o @]

WriteRound(e) ==
  /\ Busy(conn[e]) /\ Head(conn[e].todo) = "write"
  /\ LET rest == [conn EXCEPT ![e].todo = Tail(@)]
         peer == Peer(e)
     IN IF conn[e].writeOps = <<>> THEN conn' = rest
        ELSE LET r == HandleWrite(Head(conn[e].writeOps), conn[peer].inbox, BufferSize)
                 s == [rest EXCEPT ![peer].inbox = r.ring, ![e].writeOps[1] = r.op]
                 done == WriteCompleted(r.op)
                 t == IF done
                      THEN Answer([s EXCEPT ![e].writeOps = Tail(@)], e, "write", r.op.n, TRUE,
                                  <<>>)
                      ELSE s
             IN conn' = [t EXCEPT ![e].todo = (IF r.moved THEN <<"triggerInbox">> ELSE <<>>)
                                              \o (IF done THEN <<"write">> ELSE <<>>) \o @]

(* peerReactorTrigger_->run                                                *)
RunTrigger(e, what, token) ==
  /\ Busy(conn[e]) /\ Head(conn[e].todo) = what
  /\ conn' = [conn EXCEPT ![e].todo = Tail(@), ![Peer(e)].tokens = Append(@, token)]

(* Reactor::add hands out the tokens of removed reactions again, while     *)
(* triggers for the removed ones may still be on their way.                *)
StaleTrigger(e, token) ==
  /\ conn[e].stale > 0
  /\ conn' = [conn EXCEPT ![e].stale = @ - 1, ![e].tokens = Append(@, token)]

(* The peer has closed its socket, or never opened it.                     *)
PeerGone(e) == conn[Peer(e)].error

(* handleEventOutFromLoop: the socket is writable and the descriptors are  *)
(* sent, which fails if the peer is gone.                                  *)
HandleEventOutFromLoop(e) ==
  /\ ~Busy(conn[e]) /\ ~conn[e].error /\ conn[e].state = "SEND_FDS"
  /\ conn' = IF PeerGone(e) THEN SetError(conn, e)
             ELSE [conn EXCEPT ![e].fdsSent = TRUE, ![e].state = "RECV_FDS"]

(* Faulty variant: the reads are not looked at when the connection is      *)
(* established.                                                            *)
HandleEventInFromLoopNoReads(e) ==
  /\ ~Busy(conn[e]) /\ ~conn[e].error
  /\ conn[e].state = "RECV_FDS" /\ conn[Peer(e)].fdsSent
  /\ conn' = Process([conn EXCEPT ![e].state = "ESTABLISHED"], e, "write")

(* handleEventInFromLoop: the socket is readable, for it has the peer's    *)
(* descriptors or is at its end.  A socket whose peer is gone may report   *)
(* an error first, and then the descriptors are left unread.               *)
HandleEventInFromLoop(e) ==
  /\ ~Busy(conn[e]) /\ ~conn[e].error
  /\ \/ /\ conn[e].state = "RECV_FDS" /\ conn[Peer(e)].fdsSent
        /\ conn' = Process(Process([conn EXCEPT ![e].state = "ESTABLISHED"], e, "write"),
                           e, "read")
     \/ /\ conn[e].state \in {"RECV_FDS", "ESTABLISHED"} /\ PeerGone(e)
        /\ conn' = SetError(conn, e)

(* The steps of the reactor thread of an end                               *)
React(e) ==
  \/ PollOnce(e)
  \/ ReadRound(e) \/ WriteRound(e)
  \/ RunTrigger(e, "triggerInbox", "inbox") \/ RunTrigger(e, "triggerOutbox", "outbox")
  \/ HandleEventOutFromLoop(e) \/ HandleEventInFromLoop(e)

Next ==
  \E e \in Ends :
    \/ Read(e) \/ Write(e) \/ Close(e) \/ React(e)
    \/ \E token \in Tokens : StaleTrigger(e, token)

Spec == Init /\ [][Next]_conn

-----------------------------------------------------------------------------

(* NoTriggerLost: whenever the first read or write of an established end   *)
(* could move bytes, its reactor will look at it: a trigger is in its ring *)
(* buffer or about to be put there, or the loop is about to run.  Nothing  *)
(* but a trigger makes the reactor look again (connection_impl.h:117-141). *)
NoTriggerLost ==
  \A e \in Ends :
    LET c == conn[e]
        peer == conn[Peer(e)]
        Has(s, x) == \E i \in 1 .. Len(s) : s[i] = x
    IN c.state = "ESTABLISHED" /\ ~c.error =>
         /\ c.readOps # <<>> /\ HandleRead(Head(c.readOps), c.inbox).moved =>
              \/ Has(c.tokens, "inbox") \/ Has(c.todo, "read")
              \/ Has(peer.todo, "triggerInbox")
         /\ c.writeOps # <<>> /\ HandleWrite(Head(c.writeOps), peer.inbox, BufferSize).moved =>
              \/ Has(c.tokens, "outbox") \/ Has(c.todo, "write")
              \/ Has(peer.todo, "triggerOutbox")

(* Delivered: the reactors, which poll for ever, do not come to rest       *)
(* before a read is answered if the other end has written as many messages *)
(* or either end is closed.                                                *)
Delivered ==
  (\A e \in Ends : ~ENABLED React(e)) =>
    \A e \in Ends : \/ Len(conn[e].answers.read) >= conn[e].calls.read
                   \/ /\ Len(conn[e].answers.read) >= conn[Peer(e)].calls.write
                      /\ \A f \in Ends : ~conn[f].error
=============================================================================
