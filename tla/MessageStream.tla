--------------------------- MODULE MessageStream ----------------------------
(***************************************************************************)
(* What a pipe promises to its users: the messages that one end writes     *)
(* are announced to the user of the other end, and read by them, in order. *)
(***************************************************************************)
EXTENDS Integers, Sequences

CONSTANTS Ends, Messages

VARIABLES
  written,    \* written[e]: messages given to write at end e
  announced,  \* announced[e]: those of which the other end's user was told
  delivered   \* delivered[e]: those which the other end's user has read

vars == <<written, announced, delivered>>

Init ==
  /\ written = [e \in Ends |-> << >>]
  /\ announced = [e \in Ends |-> << >>]
  /\ delivered = [e \in Ends |-> << >>]

Write(e, m) ==
  /\ written' = [written EXCEPT ![e] = Append(@, m)]
  /\ UNCHANGED <<announced, delivered>>

Announce(e) ==
  LET n == Len(announced[e]) IN
  /\ n < Len(written[e])
  /\ announced' = [announced EXCEPT ![e] = Append(@, written[e][n + 1])]
  /\ UNCHANGED <<written, delivered>>

Deliver(e) ==
  LET n == Len(delivered[e]) IN
  /\ n < Len(announced[e])
  /\ delivered' = [delivered EXCEPT ![e] = Append(@, announced[e][n + 1])]
  /\ UNCHANGED <<written, announced>>

Next == \E e \in Ends : (\E m \in Messages : Write(e, m)) \/ Announce(e) \/ Deliver(e)

Spec == Init /\ [][Next]_vars
=============================================================================
