-------------------------- MODULE OpsStateMachine --------------------------
(***************************************************************************)
(* OpsStateMachine (common/state_machine.h), the deque of operations that  *)
(* every channel keeps for its sends and another for its receives.  The    *)
(* owner c is a record whose ops[d] holds all operations of direction d    *)
(* so far; the first front[d] of them have been popped from the deque.     *)
(* Operation n has sequence number n.                                      *)
(***************************************************************************)
EXTENDS Naturals, Sequences, FiniteSetsExt

CONSTANT
  Advance(_, _, _, _)   \* the Transitioner: Advance(c, d, n, prevOpState)

RECURSIVE AdvanceOperation(_, _, _), GoOn(_, _, _, _), AdvanceFrom(_, _, _)

(* Faulty variant: the last operation is not found.                        *)
FindOperationButLast(c, d, n) == c.front[d] < n /\ n < Len(c.ops[d])

(* findOperation does not return nullptr                                   *)
FindOperation(c, d, n) == c.front[d] < n /\ n <= Len(c.ops[d])

(* Operation n has just been advanced: if it is FINISHED, the finished     *)
(* operations at the front are popped.                                     *)
PopFinished(c, d, n) ==
  IF c.ops[d][n].state # "FINISHED" THEN c
  ELSE [c EXCEPT !.front[d] = Max({f \in @ .. Len(c.ops[d]) :
                                     \A i \in (@ + 1) .. f : c.ops[d][i].state = "FINISHED"})]

AdvanceOneOperation(c, d, n) ==
  LET prevOpState == IF FindOperation(c, d, n - 1) THEN c.ops[d][n - 1].state ELSE "FINISHED"
  IN PopFinished(Advance(c, d, n, prevOpState), d, n)

(* Advance operation n, and the ones after it as long as each advances.    *)
AdvanceOperation(c, d, n) ==
  IF ~FindOperation(c, d, n) \/ c.ops[d][n].state = "FINISHED" THEN c
  ELSE GoOn(AdvanceOneOperation(c, d, n), d, n, c.ops[d][n].state)

(* Operation n has been advanced, and was in state before.                 *)
GoOn(c, d, n, before) ==
  IF c.ops[d][n].state = before THEN c ELSE AdvanceOperation(c, d, n + 1)

(* The loop of advanceAllOperations, from operation n on: it ends at the   *)
(* first operation that findOperation does not find.                       *)
AdvanceFrom(c, d, n) ==
  IF FindOperation(c, d, n) THEN AdvanceFrom(AdvanceOneOperation(c, d, n), d, n + 1) ELSE c

AdvanceAllOperations(c, d) == AdvanceFrom(c, d, c.front[d] + 1)
=============================================================================
