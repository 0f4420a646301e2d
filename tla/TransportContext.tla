-------------------------- MODULE TransportContext --------------------------
(***************************************************************************)
(* A transport's context with its listeners and connections, from the      *)
(* calls that create them to the join of the context: what                 *)
(* ContextImplBoilerplate, ListenerImplBoilerplate and                     *)
(* ConnectionImplBoilerplate do (transport/*_impl_boilerplate.h), and what *)
(* the listeners of the transports do.  What goes over a connection is the *)
(* subject of ShmConnection, UvConnection and IbvConnection.               *)
(*                                                                         *)
(*   error      the context is in error                                    *)
(*   loop       "open", "closed" once Loop::close or Reactor::close was    *)
(*              called, and "ended"                                        *)
(*   join       what the thread that joins the context is waiting for      *)
(*   tasks      the functions deferred to the loop, in order               *)
(*   obj[x]     a listener or connection: its stage, error_, how often it  *)
(*              is in listeners_ or connections_, and for ibv whether its  *)
(*              queue pair is registered with the reactor                  *)
(*   lst[l]     a listener's callbacks and, for uv, the connections that   *)
(*              no callback was there for (RearmableCallback); the         *)
(*              connections its socket was asked for; the calls of accept  *)
(*              and their callbacks                                        *)
(***************************************************************************)
EXTENDS Naturals, Sequences, FiniteSets

CONSTANTS
  Listeners,
  Dialled,      \* connections that connect makes
  Incoming,     \* connections that come in at a listener
  NoConnection, \* what the callback of accept gets with an error
  MaxAccepts,   \* bound: calls of accept per listener
  Transport     \* "uv", or "shm" or "ibv", which have a reactor and an EpollLoop

VARIABLES error, loop, join, tasks, obj, lst

vars == <<error, loop, join, tasks, obj, lst>>

Uv == Transport = "uv"

Objects == Listeners \cup Dialled \cup Incoming

Init ==
  /\ error = FALSE /\ loop = "open" /\ join = "none" /\ tasks = <<>>
  /\ obj = [x \in Objects |->
              [stage |-> "none", error |-> FALSE, enrolled |-> 0, qp |-> FALSE]]
  /\ lst = [l \in Listeners |->
              [fns |-> <<>>, args |-> <<>>, backlog |-> <<>>, arrived |-> <<>>,
               accepts |-> 0, answers |-> <<>>]]

DeferToLoop(task) == tasks' = Append(tasks, task)

(***************************************************************************)
(* Calls by users, from any thread                                         *)
(***************************************************************************)

(* listen, connect: the object is constructed, its init deferred.          *)
Create(x) ==
  /\ x \in Listeners \cup Dialled /\ obj[x].stage = "none"
  /\ obj' = [obj EXCEPT ![x].stage = "created"]
  /\ DeferToLoop([do |-> "init", on |-> x])
  /\ UNCHANGED <<error, loop, join, lst>>

Accept(l) ==
  /\ obj[l].stage # "none" /\ lst[l].accepts < MaxAccepts
  /\ lst' = [lst EXCEPT ![l].accepts = @ + 1]
  /\ DeferToLoop([do |-> "accept", on |-> l, n |-> lst[l].accepts + 1])
  /\ UNCHANGED <<error, loop, join, obj>>

(* A user closes an object once; closing twice is the same as once.        *)
Close(x) ==
  /\ obj[x].stage \in {"created", "inited"} /\ ~obj[x].error
  /\ \A i \in 1 .. Len(tasks) : tasks[i] # [do |-> "close", on |-> x]
  /\ DeferToLoop([do |-> "close", on |-> x])
  /\ UNCHANGED <<error, loop, join, obj, lst>>

(* close; and all that join does if it was called before, joined_ being    *)
(* set: it returns at once, whether or not the first call has.             *)
CloseContext ==
  /\ error => join # "none"
  /\ \A i \in 1 .. Len(tasks) : tasks[i].do # "closeContext"
  /\ DeferToLoop([do |-> "closeContext"])
  /\ UNCHANGED <<error, loop, join, obj, lst>>

(* The first join: close, and wait for a task deferred after the closing.  *)
Join ==
  /\ join = "none"
  /\ tasks' = tasks \o <<[do |-> "closeContext"], [do |-> "hasClosed"]>>
  /\ join' = "hasClosed"
  /\ UNCHANGED <<error, loop, obj, lst>>

(* The end of joinImpl, when the thread of the loop has ended.             *)
JoinReturns ==
  /\ join = "joinImpl" /\ loop = "ended"
  /\ join' = "joined"
  /\ UNCHANGED <<error, loop, tasks, obj, lst>>

(***************************************************************************)
(* Tasks of the loop.  The operators return the new values of obj and lst. *)
(***************************************************************************)

Enroll(o, x) == [o EXCEPT ![x].enrolled = @ + 1]
Unenroll(o, x) == [o EXCEPT ![x].enrolled = @ - 1]

(* initImplFromLoop: the object enrols; a connection of ibv registers its  *)
(* queue pair with the reactor.                                            *)
InitImplFromLoop(o, x) ==
  Enroll([o EXCEPT ![x].stage = "inited",
                   ![x].qp = (Transport = "ibv" /\ x \notin Listeners)], x)

(* Faulty variant: a context that is closed is not heeded.                 *)
InitFromLoopAnyway(o, x) == InitImplFromLoop(o, x)

(* initFromLoop: in a closed context, error_ is set and nothing more.      *)
InitFromLoop(o, x) ==
  IF error THEN [o EXCEPT ![x].stage = "inited", ![x].error = TRUE]
  ELSE InitImplFromLoop(o, x)

Answer(l, n, c) == [lst EXCEPT ![l].answers = Append(@, [n |-> n, connection |-> c])]

(* Faulty variant: the callbacks are dropped.                              *)
FailAcceptsSilently(s, l) == [s EXCEPT ![l].fns = <<>>]

(* What the accept callbacks of a listener get when it is closed: the      *)
(* triggerAll of uv's RearmableCallback, the loop over fns_ of the others. *)
FailAccepts(s, l) ==
  [s EXCEPT ![l].fns = <<>>,
            ![l].answers =
              @ \o [i \in 1 .. Len(s[l].fns) |->
                      [n |-> s[l].fns[i], connection |-> NoConnection]]]

(* handleErrorImpl of objects: those of uv stay enrolled until libuv has   *)
(* closed their handle, the others until their descriptor is unregistered, *)
(* at once.  The queue pair of ibv is left to cleanup.                     *)
CloseObject(o, x) ==
  IF o[x].error THEN o
  ELSE IF Uv THEN [o EXCEPT ![x].error = TRUE, ![x].stage = "closing"]
  ELSE Unenroll([o EXCEPT ![x].error = TRUE], x)

Enrolled == {x \in Objects : obj[x].enrolled > 0}

(* initFromLoop, in which the calls on the socket may fail in shm and ibv. *)
(* (For a connection of ibv that ends the process: see IbvConnection.)     *)
RunInit(x) ==
  /\ \/ obj' = InitFromLoop(obj, x)
     \/ /\ ~Uv /\ ~error /\ (Transport = "ibv" => x \in Listeners)
        /\ obj' = CloseObject(InitFromLoop(obj, x), x)
  /\ UNCHANGED <<error, loop, join, lst>>

(* RearmableCallback, in uv: arm hands out a stashed connection if there  *)
(* is one, trigger stashes the connection if there is no callback.         *)
Arm(s, l, n) ==
  IF s[l].args = <<>> THEN [s EXCEPT ![l].fns = Append(@, n)]
  ELSE [s EXCEPT ![l].args = Tail(@),
                 ![l].answers = Append(@, [n |-> n, connection |-> Head(s[l].args)])]

(* Faulty variant: the callback that waits longest is not the first.       *)
TriggerLast(s, l, c) ==
  LET fns == s[l].fns
  IN IF fns = <<>> THEN [s EXCEPT ![l].args = Append(@, c)]
     ELSE [s EXCEPT ![l].fns = SubSeq(@, 1, Len(fns) - 1),
                    ![l].answers = Append(@, [n |-> fns[Len(fns)], connection |-> c])]

Trigger(s, l, c) ==
  IF s[l].fns = <<>> THEN [s EXCEPT ![l].args = Append(@, c)]
  ELSE [s EXCEPT ![l].fns = Tail(@),
                 ![l].answers = Append(@, [n |-> Head(s[l].fns), connection |-> c])]

(* acceptImplFromLoop of shm and ibv: the descriptor of the socket is      *)
(* registered with the epoll loop while fns_ is not empty.                 *)
AcceptImplFromLoop(s, l, n) == [s EXCEPT ![l].fns = Append(@, n)]

(* acceptFromLoop                                                          *)
RunAccept(l, n) ==
  /\ lst' = IF obj[l].error THEN Answer(l, n, NoConnection)
            ELSE IF Uv THEN Arm(lst, l, n) ELSE AcceptImplFromLoop(lst, l, n)
  /\ UNCHANGED <<error, loop, join, obj>>

(* closeFromLoop of a listener or connection                               *)
RunClose(x) ==
  /\ obj' = CloseObject(obj, x)
  /\ lst' = IF x \in Listeners /\ ~obj[x].error THEN FailAccepts(lst, x) ELSE lst
  /\ UNCHANGED <<error, loop, join>>

(* Faulty variant: the connections are left to their users.                *)
RunCloseContextListenersOnly ==
  /\ error' = TRUE
  /\ obj' = [x \in Objects |->
               IF x \in Enrolled \cap Listeners THEN CloseObject(obj, x)[x] ELSE obj[x]]
  /\ lst' = [l \in Listeners |->
               IF l \in Enrolled /\ ~obj[l].error THEN FailAccepts(lst, l)[l] ELSE lst[l]]
  /\ loop' = IF error THEN loop ELSE "closed"
  /\ UNCHANGED join

(* closeFromLoop of the context: all objects that are enrolled are closed  *)
(* in the same task, and then the loop.                                    *)
RunCloseContext ==
  /\ error' = TRUE
  /\ obj' = [x \in Objects |->
               IF ~error /\ x \in Enrolled THEN CloseObject(obj, x)[x] ELSE obj[x]]
  /\ lst' = [l \in Listeners |->
               IF ~error /\ l \in Enrolled /\ ~obj[l].error THEN FailAccepts(lst, l)[l]
               ELSE lst[l]]
  /\ loop' = IF error THEN loop ELSE "closed"
  /\ UNCHANGED join

RunHasClosed ==
  /\ join' = "joinImpl"
  /\ UNCHANGED <<error, loop, obj, lst>>

(* cleanup of a connection of ibv: unregisterQp                            *)
RunCleanup(x) ==
  /\ obj' = [obj EXCEPT ![x].qp = FALSE]
  /\ UNCHANGED <<error, loop, join, lst>>

RunTask ==
  /\ tasks # <<>> /\ tasks' = Tail(tasks)
  /\ LET task == Head(tasks)
     IN \/ task.do = "init" /\ RunInit(task.on)
        \/ task.do = "accept" /\ RunAccept(task.on, task.n)
        \/ task.do = "close" /\ RunClose(task.on)
        \/ task.do = "cleanup" /\ RunCleanup(task.on)
        \/ task.do = "closeContext" /\ RunCloseContext
        \/ task.do = "hasClosed" /\ RunHasClosed

(***************************************************************************)
(* Events of the loop                                                      *)
(***************************************************************************)

(* Somebody connects to a listener.                                        *)
Arrive(l, c) ==
  /\ obj[l].stage = "inited" /\ ~obj[l].error /\ obj[c].stage = "none"
  /\ \A k \in Listeners : \A i \in 1 .. Len(lst[k].arrived) : lst[k].arrived[i] # c
  /\ lst' = [lst EXCEPT ![l].backlog = Append(@, c), ![l].arrived = Append(@, c)]
  /\ UNCHANGED <<error, loop, join, tasks, obj>>

(* A connection is taken from the socket of a listener and initialised at  *)
(* once (createAndInitConnection).                                         *)
CreateAndInitConnection(l, c) ==
  /\ obj[l].stage = "inited" /\ ~obj[l].error
  /\ lst[l].backlog # <<>> /\ c = Head(lst[l].backlog)
  /\ obj' = InitFromLoop(obj, c)

(* connectionCallbackFromLoop of uv                                        *)
ConnectionCallbackFromLoop(l, c) ==
  /\ Uv
  /\ CreateAndInitConnection(l, c)
  /\ lst' = Trigger([lst EXCEPT ![l].backlog = Tail(@)], l, c)
  /\ UNCHANGED <<error, loop, join, tasks>>

(* handleEventsFromLoop of shm and ibv, called only while the descriptor   *)
(* is registered                                                           *)
HandleEventsFromLoop(l, c) ==
  /\ ~Uv /\ lst[l].fns # <<>>
  /\ CreateAndInitConnection(l, c)
  /\ lst' = [lst EXCEPT ![l].backlog = Tail(@), ![l].fns = Tail(@),
                        ![l].answers = Append(@, [n |-> Head(lst[l].fns), connection |-> c])]
  /\ UNCHANGED <<error, loop, join, tasks>>

(* A socket fails: the listener or connection closes itself.  Listeners of *)
(* shm and ibv learn of it only while their descriptor is registered.      *)
Fail(x) ==
  /\ obj[x].stage = "inited" /\ ~obj[x].error
  /\ x \in Listeners => Uv \/ lst[x].fns # <<>>
  /\ RunClose(x)
  /\ UNCHANGED tasks

(* closeCallbackFromLoop                                                   *)
UvCloseCb(x) ==
  /\ obj[x].stage = "closing"
  /\ obj' = Unenroll([obj EXCEPT ![x].stage = "inited"], x)
  /\ UNCHANGED <<error, loop, join, tasks, lst>>

(* tryCleanup of a connection of ibv in error, when the last of its        *)
(* requests completes.                                                     *)
TryCleanup(x) ==
  /\ obj[x].error /\ obj[x].qp
  /\ \A i \in 1 .. Len(tasks) : tasks[i] # [do |-> "cleanup", on |-> x]
  /\ DeferToLoop([do |-> "cleanup", on |-> x])
  /\ UNCHANGED <<error, loop, join, obj, lst>>

(* Faulty variant: the reactor of ibv does not wait for its queue pairs.   *)
ReadyToCloseAnyway == Enrolled = {}

(* readyToClose of the reactors of shm (no reaction) and ibv (no queue     *)
(* pair), with no descriptor registered at the epoll loop; in uv, no       *)
(* handle open.                                                            *)
ReadyToClose == Enrolled = {} /\ \A x \in Objects : ~obj[x].qp

LoopEnds ==
  /\ loop = "closed" /\ ReadyToClose
  /\ loop' = "ended"
  /\ UNCHANGED <<error, join, tasks, obj, lst>>

Next ==
  \/ \E x \in Objects : Create(x) \/ Close(x) \/ Fail(x) \/ UvCloseCb(x) \/ TryCleanup(x)
  \/ \E l \in Listeners :
       \/ Accept(l)
       \/ \E c \in Incoming :
            Arrive(l, c) \/ ConnectionCallbackFromLoop(l, c) \/ HandleEventsFromLoop(l, c)
  \/ CloseContext \/ Join \/ JoinReturns \/ RunTask \/ LoopEnds

(* Tasks are run, handles that are closed are called back, a thread that   *)
(* can end does, and the requests of a queue pair in error complete.       *)
Spec ==
  /\ Init /\ [][Next]_vars
  /\ WF_vars(RunTask) /\ WF_vars(LoopEnds) /\ WF_vars(JoinReturns)
  /\ \A x \in Objects : WF_vars(UvCloseCb(x)) /\ WF_vars(TryCleanup(x))

-----------------------------------------------------------------------------

(* ClosedTogether: once the context is in error so is everything enrolled, *)
(* with no task in between that could use a closed context                 *)
(* (context_impl_boilerplate.h:242-246), and nothing is enrolled twice.    *)
ClosedTogether ==
  \A x \in Objects :
    /\ obj[x].enrolled \in {0, 1}
    /\ error /\ obj[x].enrolled = 1 => obj[x].error

(* NothingAfterJoin: when the first join returns nothing is enrolled,      *)
(* which the context asserts, no queue pair is registered with a reactor   *)
(* whose thread is gone, and that is so ever after, whatever was or is     *)
(* deferred.                                                               *)
NothingAfterJoin ==
  join = "joined" => loop = "ended" /\ Enrolled = {} /\ \A x \in Objects : ~obj[x].qp

(* AcceptedInOrder: of the connections that come in at a listener the      *)
(* first goes to the first call of accept, and so on; the calls that fail  *)
(* are the later ones; each is called back at most once, and one that gets *)
(* a connection gets it initialised.                                       *)
AcceptedInOrder ==
  \A l \in Listeners :
    LET answers == lst[l].answers
    IN \A i \in 1 .. Len(answers) :
         /\ answers[i].n = i
         /\ answers[i].connection # NoConnection =>
              /\ answers[i].connection = lst[l].arrived[i]
              /\ obj[answers[i].connection].stage # "none"
=============================================================================
