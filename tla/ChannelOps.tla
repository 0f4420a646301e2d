----------------------------- MODULE ChannelOps -----------------------------
(***************************************************************************)
(* What the code of every channel does to one end of it, as operators from *)
(* the record of the end to the record after the call: attempt a           *)
(* transition, call the user's callback, read and write on a connection.   *)
(*                                                                         *)
(* An end is a record with the fields                                      *)
(*   error          error_ is set                                          *)
(*   calls[d]       for each send or recv of the user, how often its       *)
(*                  callback was called and whether it reported success    *)
(*   ops, front     the operations of each direction, see OpsStateMachine  *)
(*   out[k]         the messages written to connection k and not yet read  *)
(*                  by the other end                                       *)
(*   reads[k]       the callbacks of the reads pending on connection k     *)
(*   writes[k]      the callbacks of the writes pending on connection k    *)
(*   failed         the connections that have reported an error            *)
(*   tasks          the callbacks deferred to the context's loop           *)
(* and those that its channel adds.                                        *)
(***************************************************************************)
EXTENDS Naturals, Sequences

CONSTANT NoMessage      \* what a callback gets when there is nothing to get

Directions == {"send", "recv"}

(* Faulty variant: every state is as good.                                 *)
ReachedAny(order, s, t) == TRUE

(* s >= t in the enum of the states of an operation                        *)
Reached(order, s, t) ==
  \E i, j \in 1 .. Len(order) : i <= j /\ order[i] = t /\ order[j] = s

(* A callback given to callbackWrapper_: fn names the lambda, d and n the  *)
(* operation it captures.                                                  *)
Callback(d, n, fn) == [d |-> d, n |-> n, fn |-> fn]

(* A lambda that does nothing: only the wrapper's setError is left.        *)
OnlySetError == Callback("none", 0, "none")

Task(callback, ok, message) == [callback |-> callback, ok |-> ok, message |-> message]

(* Faulty variant: every chunk holds the user's callback.                  *)
ChunkOperationCalling(c, d, length, callback) ==
  [state |-> "UNINITIALIZED", call |-> Len(c.calls[d]), callback |-> TRUE,
   length |-> length, done |-> {}, message |-> NoMessage, data |-> NoMessage]

(* A new operation for the latest call of direction d, on length bytes;    *)
(* callback tells whether it is the one that holds the user's callback.    *)
ChunkOperation(c, d, length, callback) ==
  [state |-> "UNINITIALIZED", call |-> Len(c.calls[d]), callback |-> callback,
   length |-> length, done |-> {}, message |-> NoMessage, data |-> NoMessage]

EmplaceBack(c, d, length) ==
  [c EXCEPT !.ops[d] = Append(@, ChunkOperation(c, d, length, TRUE))]

(* An end on the given connections with no operation and nothing pending.  *)
NewEnd(connections) ==
  [error |-> FALSE,
   calls |-> [d \in Directions |-> <<>>],
   ops |-> [d \in Directions |-> <<>>],
   front |-> [d \in Directions |-> 0],
   out |-> [k \in connections |-> <<>>],
   reads |-> [k \in connections |-> <<>>],
   writes |-> [k \in connections |-> <<>>],
   failed |-> {},
   tasks |-> <<>>]

(* Faulty variant: in error every transition to FINISHED is taken.         *)
TakenInError(c, d, n, from, to, cond) ==
  c.ops[d][n].state = from /\ (cond \/ (c.error /\ to = "FINISHED"))

Taken(c, d, n, from, to, cond) == c.ops[d][n].state = from /\ cond

AttemptTransition(c, d, n, from, to, cond, Actions(_, _)) ==
  IF Taken(c, d, n, from, to, cond) THEN [Actions(c, n) EXCEPT !.ops[d][n].state = to] ELSE c

(* callback(error_), for call i of the user                                *)
Answer(c, d, i) == [c EXCEPT !.calls[d][i] = [called |-> @.called + 1, ok |-> ~c.error]]

CallCallback(c, d, n) ==
  IF c.ops[d][n].callback THEN Answer(c, d, c.ops[d][n].call) ELSE c

CallSendCallback(c, n) == CallCallback(c, "send", n)
CallRecvCallback(c, n) == CallCallback(c, "recv", n)

(* opIter->done... = true                                                  *)
MarkDone(c, d, n, what) == [c EXCEPT !.ops[d][n].done = @ \cup {what}]

(* callbackWrapper_: the callback is a task of the loop.                    *)
Defer(c, task) == [c EXCEPT !.tasks = Append(@, task)]

Read(c, k, callback) == [c EXCEPT !.reads[k] = Append(@, callback)]

(* A write whose callback matters, and one whose callback only reports an  *)
(* error.                                                                  *)
WriteThen(c, k, message, callback) ==
  [c EXCEPT !.out[k] = Append(@, message), !.writes[k] = Append(@, callback)]
Write(c, k, message) == [c EXCEPT !.out[k] = Append(@, message)]
=============================================================================
