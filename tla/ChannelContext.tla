--------------------------- MODULE ChannelContext ---------------------------
(***************************************************************************)
(* The context of the xth and cma channels: ContextImplBoilerplate         *)
(* (channel/context_impl_boilerplate.h) and the thread that serves the     *)
(* copy requests of all channels (xth/context_impl.cc), which a queue      *)
(* (common/queue.h) hands to it.  The context and its channels share a     *)
(* loop; requests come from there, but the thread runs on its own.         *)
(*                                                                         *)
(*   error, join      as in TransportContext                               *)
(*   tasks            the functions deferred to the loop, in order         *)
(*   channel[x]       the channel's stage, error_, how often it is in      *)
(*                    channels_, and each receive's progress               *)
(*   requests         requests_: receives, or End                          *)
(*   thread           whether the thread is waiting for a request, copying *)
(*                    or ended                                             *)
(*   copying          the request it took last                             *)
(***************************************************************************)
EXTENDS Naturals, Sequences, FiniteSets

CONSTANTS
  Channels,
  Receives,     \* the receives at each channel
  End           \* nullopt

VARIABLES error, join, tasks, channel, requests, thread, copying

vars == <<error, join, tasks, channel, requests, thread, copying>>

Init ==
  /\ error = FALSE /\ join = "none" /\ tasks = <<>> /\ requests = <<>> /\ thread = "waiting" /\ copying = End
  /\ channel = [x \in Channels |->
                  [stage |-> "none", error |-> FALSE, enrolled |-> 0,
                   recv |-> [r \in Receives |-> "none"]]]

Deferred(task) == \E i \in 1 .. Len(tasks) : tasks[i] = task

DeferToLoop(task) == tasks' = Append(tasks, task)

(* createChannel                                                           *)
CreateChannel(x) ==
  /\ channel[x].stage = "none"
  /\ channel' = [channel EXCEPT ![x].stage = "created"]
  /\ DeferToLoop([do |-> "init", on |-> x])
  /\ UNCHANGED <<error, join, requests, thread, copying>>

(* A receive is asked for, in the loop; one at a channel in error is       *)
(* refused.                                                                *)
Recv(x, r) ==
  /\ channel[x].stage = "inited" /\ channel[x].recv[r] = "none"
  /\ channel' = [channel EXCEPT ![x].recv[r] =
                   IF channel[x].error THEN "FINISHED" ELSE "READING_DESCRIPTOR"]
  /\ UNCHANGED <<error, join, tasks, requests, thread, copying>>

(* The descriptor is read, or not since the connection is closed.          *)
DescriptorRead(x, r) ==
  /\ channel[x].recv[r] = "READING_DESCRIPTOR"
  /\ ~Deferred([do |-> "descriptor", on |-> x, of |-> r])
  /\ DeferToLoop([do |-> "descriptor", on |-> x, of |-> r])
  /\ UNCHANGED <<error, join, channel, requests, thread, copying>>

Close(x) ==
  /\ channel[x].stage # "none" /\ ~channel[x].error
  /\ ~Deferred([do |-> "close", on |-> x])
  /\ DeferToLoop([do |-> "close", on |-> x])
  /\ UNCHANGED <<error, join, channel, requests, thread, copying>>

(* close; and all that a join does that is not the first, joined_ being    *)
(* set.                                                                    *)
CloseContext ==
  /\ error => join # "none"
  /\ ~Deferred([do |-> "closeContext"])
  /\ DeferToLoop([do |-> "closeContext"])
  /\ UNCHANGED <<error, join, channel, requests, thread, copying>>

Join ==
  /\ join = "none"
  /\ tasks' = tasks \o <<[do |-> "closeContext"], [do |-> "hasClosed"]>>
  /\ join' = "hasClosed"
  /\ UNCHANGED <<error, channel, requests, thread, copying>>

(* joinImpl: thread_.join()                                                *)
JoinReturns ==
  /\ join = "joinImpl" /\ thread = "ended"
  /\ join' = "joined"
  /\ UNCHANGED <<error, tasks, channel, requests, thread, copying>>

-----------------------------------------------------------------------------

Enroll(s, x) == [s EXCEPT ![x].enrolled = @ + 1]
Unenroll(s, x) == [s EXCEPT ![x].enrolled = @ - 1]

(* Faulty variant: a context that is closed is not heeded.                 *)
RunInitAnyway(x) ==
  /\ channel' = Enroll([channel EXCEPT ![x].stage = "inited"], x)
  /\ UNCHANGED <<error, join, requests>>

(* initFromLoop of a channel                                               *)
RunInit(x) ==
  /\ channel' = IF error
                THEN [channel EXCEPT ![x].stage = "inited", ![x].error = TRUE]
                ELSE Enroll([channel EXCEPT ![x].stage = "inited"], x)
  /\ UNCHANGED <<error, join, requests>>

(* Faulty variant: whether the channel is in error is not looked at.       *)
RunDescriptorAnyway(x, r) ==
  /\ requests' = Append(requests, [on |-> x, of |-> r])
  /\ channel' = [channel EXCEPT ![x].recv[r] = "COPYING"]
  /\ UNCHANGED <<error, join>>

(* The receive goes on to its copy (requestCopy), unless the channel is in *)
(* error.                                                                  *)
RunDescriptor(x, r) ==
  /\ IF channel[x].error
     THEN /\ channel' = [channel EXCEPT ![x].recv[r] = "FINISHED"]
          /\ UNCHANGED requests
     ELSE /\ requests' = Append(requests, [on |-> x, of |-> r])
          /\ channel' = [channel EXCEPT ![x].recv[r] = "COPYING"]
  /\ UNCHANGED <<error, join>>

RunCopied(x, r) ==
  /\ channel' = [channel EXCEPT ![x].recv[r] = "FINISHED"]
  /\ UNCHANGED <<error, join, requests>>

(* handleErrorImpl of the channel, which closes its connections.           *)
CloseChannel(s, x) ==
  IF s[x].error THEN s ELSE Unenroll([s EXCEPT ![x].error = TRUE], x)

RunClose(x) ==
  /\ channel' = CloseChannel(channel, x)
  /\ UNCHANGED <<error, join, requests>>

(* Faulty variant: the thread is not told to end.                          *)
RunCloseContextOnly ==
  /\ error' = TRUE
  /\ channel' = [x \in Channels |->
                   IF ~error /\ channel[x].enrolled > 0 THEN CloseChannel(channel, x)[x]
                   ELSE channel[x]]
  /\ UNCHANGED <<join, requests>>

(* closeFromLoop of the context: the channels are closed in the same task, *)
(* and then the thread is told to end.                                     *)
RunCloseContext ==
  /\ error' = TRUE
  /\ channel' = [x \in Channels |->
                   IF ~error /\ channel[x].enrolled > 0 THEN CloseChannel(channel, x)[x]
                   ELSE channel[x]]
  /\ requests' = IF error THEN requests ELSE Append(requests, End)
  /\ UNCHANGED join

RunHasClosed ==
  /\ join' = "joinImpl"
  /\ UNCHANGED <<error, channel, requests>>

RunTask ==
  /\ tasks # <<>> /\ tasks' = Tail(tasks) /\ UNCHANGED <<thread, copying>>
  /\ LET task == Head(tasks)
     IN \/ task.do = "init" /\ RunInit(task.on)
        \/ task.do = "descriptor" /\ RunDescriptor(task.on, task.of)
        \/ task.do = "copied" /\ RunCopied(task.on, task.of)
        \/ task.do = "close" /\ RunClose(task.on)
        \/ task.do = "closeContext" /\ RunCloseContext
        \/ task.do = "hasClosed" /\ RunHasClosed

(* Faulty variant: the thread ends as soon as it is told to.               *)
PopAll ==
  /\ thread = "waiting" /\ requests # <<>>
  /\ LET ending == \E i \in 1 .. Len(requests) : requests[i] = End
     IN /\ thread' = IF ending THEN "ended" ELSE "copying"
        /\ requests' = IF ending THEN <<>> ELSE Tail(requests)
  /\ copying' = Head(requests)
  /\ UNCHANGED <<error, join, tasks, channel>>

(* handleCopyRequests: pop, and the copy with its callback                 *)
Pop ==
  /\ thread = "waiting" /\ requests # <<>>
  /\ requests' = Tail(requests)
  /\ copying' = Head(requests)
  /\ thread' = IF Head(requests) = End THEN "ended" ELSE "copying"
  /\ UNCHANGED <<error, join, tasks, channel>>

Copy ==
  /\ thread = "copying" /\ thread' = "waiting"
  /\ DeferToLoop([do |-> "copied", on |-> copying.on, of |-> copying.of])
  /\ UNCHANGED <<error, join, channel, requests, copying>>

Next ==
  \/ \E x \in Channels :
       \/ CreateChannel(x) \/ Close(x)
       \/ \E r \in Receives : Recv(x, r) \/ DescriptorRead(x, r)
  \/ CloseContext \/ Join \/ JoinReturns \/ RunTask \/ Pop \/ Copy

(* Tasks are run, and the thread goes on while it has requests.            *)
Spec ==
  /\ Init /\ [][Next]_vars
  /\ WF_vars(RunTask) /\ WF_vars(Pop \/ Copy) /\ WF_vars(JoinReturns)

-----------------------------------------------------------------------------

(* NoRequestMissed: no copy is requested after the request that ends the   *)
(* thread, so when it ends it has served them all (the assertion that is   *)
(* commented out at xth/context_impl.cc:73).                               *)
NoRequestMissed ==
  /\ \A i, j \in 1 .. Len(requests) : requests[i] = End => j <= i
  /\ thread = "ended" => requests = <<>>

(* NoChannelAfterJoin: when join returns all channels have unenrolled (the *)
(* assertion that is commented out at context_impl_boilerplate.h:262 holds *)
(* for these contexts), and none enrols later.                             *)
NoChannelAfterJoin ==
  join = "joined" => \A x \in Channels : channel[x].enrolled = 0
=============================================================================
