------------------------------ MODULE CudaLoop ------------------------------
(***************************************************************************)
(* CudaLoop (common/cuda_loop.{h,cc}): callbacks put on CUDA streams are   *)
(* handed by CUDA's own thread, which must not call CUDA functions, to a   *)
(* thread of the loop, which calls them.  A critical section of mutex_ is  *)
(* one step.                                                               *)
(***************************************************************************)
EXTENDS Naturals, Sequences, FiniteSets

CONSTANT Callbacks      \* what addCallback is called with, each once

VARIABLES
  toAdd,              \* the callbacks addCallback has not been called with
  onStream,           \* those on a stream, for CUDA to run
  operations_,        \* operations_
  pendingOperations_,
  closed_,
  thread,             \* "lock", "wait" in cv_.wait, "swap", "run", "done"
  batch,              \* operations: those left of the round
  called              \* the calls made, by the thread or by addCallback

vars == <<toAdd, onStream, operations_, pendingOperations_, closed_, thread, batch, called>>

Init ==
  /\ toAdd = Callbacks /\ onStream = {} /\ operations_ = <<>> /\ pendingOperations_ = 0
  /\ closed_ = FALSE /\ thread = "lock" /\ batch = <<>> /\ called = <<>>

(* Faulty variant: the operation is counted once CUDA has run it.          *)
AddCallbackUncounted(callback) ==
  /\ callback \in toAdd
  /\ toAdd' = toAdd \ {callback}
  /\ onStream' = onStream \cup {callback}
  /\ UNCHANGED <<operations_, pendingOperations_, closed_, thread, batch, called>>

AddCallback(callback) ==
  /\ callback \in toAdd
  /\ toAdd' = toAdd \ {callback}
  /\ IF closed_
     THEN called' = Append(called, callback) /\ UNCHANGED <<onStream, pendingOperations_>>
     ELSE /\ pendingOperations_' = pendingOperations_ + 1
          /\ onStream' = onStream \cup {callback}
          /\ UNCHANGED called
  /\ UNCHANGED <<operations_, closed_, thread, batch>>

(* notify_all                                                              *)
Notified == IF thread = "wait" THEN "swap" ELSE thread

(* Faulty variant: the thread is not notified.                             *)
RunCudaCallbackSilently(callback) ==
  /\ callback \in onStream
  /\ onStream' = onStream \ {callback}
  /\ operations_' = Append(operations_, callback)
  /\ UNCHANGED <<toAdd, pendingOperations_, closed_, batch, called, thread>>

RunCudaCallback(callback) ==
  /\ callback \in onStream
  /\ onStream' = onStream \ {callback}
  /\ operations_' = Append(operations_, callback)
  /\ thread' = Notified
  /\ UNCHANGED <<toAdd, pendingOperations_, closed_, batch, called>>

Close ==
  /\ ~closed_
  /\ closed_' = TRUE
  /\ thread' = Notified
  /\ UNCHANGED <<toAdd, onStream, operations_, pendingOperations_, batch, called>>

(* The first critical section of a round of processCallbacks.              *)
Lock ==
  /\ thread = "lock"
  /\ thread' = IF operations_ # <<>> THEN "swap"
               ELSE IF closed_ /\ pendingOperations_ = 0 THEN "done" ELSE "wait"
  /\ UNCHANGED <<toAdd, onStream, operations_, pendingOperations_, closed_, batch, called>>

(* cv_.wait may return without a notification.                             *)
SpuriousWakeup ==
  /\ thread = "wait"
  /\ thread' = "swap"
  /\ UNCHANGED <<toAdd, onStream, operations_, pendingOperations_, closed_, batch, called>>

Swap ==
  /\ thread = "swap"
  /\ batch' = operations_ /\ operations_' = <<>>
  /\ pendingOperations_' = pendingOperations_ - Len(operations_)
  /\ thread' = "run"
  /\ UNCHANGED <<toAdd, onStream, closed_, called>>

Run ==
  /\ thread = "run"
  /\ IF batch = <<>> THEN thread' = "lock" /\ UNCHANGED <<batch, called>>
     ELSE /\ batch' = Tail(batch) /\ called' = Append(called, Head(batch))
          /\ UNCHANGED thread
  /\ UNCHANGED <<toAdd, onStream, operations_, pendingOperations_, closed_>>

Cuda == \E callback \in Callbacks : RunCudaCallback(callback)

Next ==
  \/ (\E callback \in Callbacks : AddCallback(callback)) \/ Cuda \/ Close
  \/ Lock \/ SpuriousWakeup \/ Swap \/ Run

(* CUDA runs what is on a stream, and the thread runs; nothing promises a  *)
(* spurious wakeup.                                                        *)
Spec == Init /\ [][Next]_vars /\ WF_vars(Cuda) /\ WF_vars(Lock \/ Swap \/ Run)

-----------------------------------------------------------------------------

In(s) == {s[i] : i \in 1 .. Len(s)}

(* NoneLeftBehind: when the thread ends, no callback is left on a stream   *)
(* or in a queue: CUDA would otherwise call into a loop that is gone, and  *)
(* the callback would never be called (cuda_loop.cc:68-69, 91-97).         *)
NoneLeftBehind ==
  thread = "done" =>
    /\ onStream = {} /\ operations_ = <<>> /\ batch = <<>>
    /\ In(called) \cup toAdd = Callbacks
=============================================================================
