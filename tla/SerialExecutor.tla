--------------------------- MODULE SerialExecutor ---------------------------
(***************************************************************************)
(* What a DeferredExecutor promises to the objects that defer to it: one   *)
(* queue of tasks, run one at a time and in order.                         *)
(***************************************************************************)
EXTENDS Integers, Sequences

VARIABLES
  queue,     \* tasks deferred and not yet begun
  current,   \* the task being run, 0 if none
  enqueued   \* how many tasks were deferred

vars == <<queue, current, enqueued>>

Init == queue = << >> /\ current = 0 /\ enqueued = 0

Defer ==
  /\ enqueued' = enqueued + 1
  /\ queue' = Append(queue, enqueued + 1)
  /\ UNCHANGED current

Begin ==
  /\ current = 0
  /\ queue # << >>
  /\ current' = Head(queue)
  /\ queue' = Tail(queue)
  /\ UNCHANGED enqueued

End ==
  /\ current # 0
  /\ current' = 0
  /\ UNCHANGED <<queue, enqueued>>

Next == Defer \/ Begin \/ End

Spec == Init /\ [][Next]_vars
=============================================================================
