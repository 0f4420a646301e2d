------------------------------- MODULE MCPipe -------------------------------
(***************************************************************************)
(* A pipe for TLC, over which one end writes up to two messages of         *)
(* different shapes, or both ends write one.                               *)
(***************************************************************************)
EXTENDS Pipe, TLC

CONSTANTS a, b

Payload == [payloads |-> 1, tensors |-> 0, missing |-> FALSE]
Tensor == [payloads |-> 0, tensors |-> 1, missing |-> FALSE]
MissingTensor == [payloads |-> 0, tensors |-> 1, missing |-> TRUE]

(* What a and b write, and the other end reads.                            *)
Session(fromA, fromB) ==
  [writes |-> a :> fromA @@ b :> fromB, reads |-> a :> Len(fromB) @@ b :> Len(fromA)]

(* Two messages that both go out at once, or of which one waits for its    *)
(* descriptor reply.                                                       *)
Differ ==
  {<<Payload, Tensor>>, <<Tensor, Payload>>, <<Payload, MissingTensor>>,
   <<MissingTensor, Payload>>, <<MissingTensor, Tensor>>}

OneWayOrBoth ==
  {Session(messages, << >>) : messages \in Differ} \cup {Session(<<Tensor>>, <<Payload>>)}

(* Two messages, each of which waits for its descriptor reply.             *)
TwoThatWait == {Session(<<MissingTensor, MissingTensor>>, << >>)}
=============================================================================
