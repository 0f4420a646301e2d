--------------------------- MODULE BoundedStream ---------------------------
(***************************************************************************)
(* What a ring buffer promises: a stream of bytes that goes from stage to  *)
(* stage. The last stage puts bytes in, several at once and all of one     *)
(* author; each other stage takes over what the next one has let go; and   *)
(* at most Size bytes are on their way.                                    *)
(***************************************************************************)
EXTENDS Integers

CONSTANTS Stages, Last, Size, Authors, Capacity, Nobody

VARIABLES
  position,   \* how far each stage has got
  author      \* who put in the byte at each position

vars == <<position, author>>

Init ==
  /\ position = [s \in Stages |-> 0]
  /\ author = [q \in 0 .. Capacity - 1 |-> Nobody]

Put(a, n) ==
  /\ position[Last] + n <= position[0] + Size
  /\ position' = [position EXCEPT ![Last] = @ + n]
  /\ author' = [q \in DOMAIN author |->
                  IF q \in position[Last] .. position[Last] + n - 1 THEN a ELSE author[q]]

Take(s, n) ==
  /\ position[s] + n <= position[s + 1]
  /\ position' = [position EXCEPT ![s] = @ + n]
  /\ UNCHANGED author

Next ==
  \E n \in 1 .. Size :
    \/ \E a \in Authors : Put(a, n)
    \/ \E s \in Stages \ {Last} : Take(s, n)

Spec == Init /\ [][Next]_vars
=============================================================================
