----------------------------- MODULE EpollLoop -----------------------------
(***************************************************************************)
(* The epoll loop (common/epoll_loop.{h,cc}) and the busy polling loop     *)
(* (common/busy_polling_loop.h) it hands its events to: the epoll thread   *)
(* blocks in epoll_wait, defers the handling of what it returns to the     *)
(* thread of the busy polling loop, and waits until that is done.  That    *)
(* thread alternates between pollOnce, which here takes a token another    *)
(* process has left in shared memory, and the deferred functions.          *)
(*                                                                         *)
(* A file is an open socket; its descriptor is used again for another file *)
(* once it is closed.  The other process may leave a token for a file, and *)
(* close its end of it, which makes the file readable for good.            *)
(***************************************************************************)
EXTENDS Naturals, Sequences, FiniteSets, Functions

CONSTANTS
  Fds,         \* the values of file descriptors
  MaxFiles,    \* bound on the files opened
  MaxRecords   \* bound on the calls of registerDescriptor

VARIABLES
  file,             \* the file open under each descriptor, or 0
  opened,           \* how many files were opened: they are 1 .. opened
  closedByPeer,     \* the files whose other end has been closed
  written,          \* the files for which a token was left; one for each is the bound
  tokens,           \* the files for which a token is in the reactor's ring buffer
  fdToRecord,       \* fdToRecord_
  recordToHandler,  \* recordToHandler_; the handler of a file is named by it
  nextRecord,       \* nextRecord_
  interest,         \* the kernel's epoll set: the record of each descriptor in it
  eventFd,          \* the eventfd is readable
  closed,           \* closed_
  epollThread,      \* "loop", "wait" in epoll_wait, "future" in runInLoop, "done"
  epollEvents,      \* what epoll_wait returned and is not yet handled: <<record, file>>
  fns,              \* fns_, the deferred functions
  count,            \* deferredFunctionCount_
  loopThread,       \* "poll", "count", "run"; "over", "drain" after eventLoop
  batch,            \* what is left of the functions being run
  ran,              \* how many functions runDeferredFunctionsFromEventLoop ran
  handled           \* the calls of handlers: <<handler, file of the event, token left>>

vars == <<file, opened, closedByPeer, written, tokens, fdToRecord, recordToHandler, nextRecord,
          interest, eventFd, closed, epollThread, epollEvents, fns, count, loopThread,
          batch, ran, handled>>

kernel == <<file, opened, closedByPeer, written, tokens>>
registry == <<fdToRecord, recordToHandler, nextRecord, interest>>
busyLoop == <<fns, count, loopThread, batch, ran>>

Empty == [x \in {} |-> 0]

Init ==
  /\ file = [fd \in Fds |-> 0] /\ opened = 0 /\ closedByPeer = {} /\ written = {} /\ tokens = {}
  /\ fdToRecord = Empty /\ recordToHandler = Empty /\ nextRecord = 1 /\ interest = Empty
  /\ eventFd = FALSE /\ closed = FALSE
  /\ epollThread = "loop" /\ epollEvents = {}
  /\ fns = <<>> /\ count = 0 /\ loopThread = "poll" /\ batch = <<>> /\ ran = 0
  /\ handled = {}

-----------------------------------------------------------------------------
(* Users of the loop, on the loop's thread.                                *)

Put(f, x, y) == [z \in DOMAIN f \cup {x} |-> IF z = x THEN y ELSE f[z]]

(* Faulty variant: the record of the first registration is kept.           *)
RegisterDescriptorKeepingRecord(fd, handler) ==
  /\ nextRecord <= MaxRecords
  /\ LET record == IF fd \in DOMAIN fdToRecord THEN fdToRecord[fd] ELSE fd
     IN /\ fdToRecord' = Put(fdToRecord, fd, record)
        /\ recordToHandler' = Put(recordToHandler, record, handler)
        /\ interest' = Put(interest, fd, record)
  /\ nextRecord' = nextRecord + 1

RegisterDescriptor(fd, handler) ==
  /\ nextRecord <= MaxRecords
  /\ fdToRecord' = Put(fdToRecord, fd, nextRecord)
  /\ recordToHandler' =
       Put(IF fd \in DOMAIN fdToRecord
           THEN Restrict(recordToHandler, DOMAIN recordToHandler \ {fdToRecord[fd]})
           ELSE recordToHandler, nextRecord, handler)
  /\ interest' = Put(interest, fd, nextRecord)
  /\ nextRecord' = nextRecord + 1

(* Faulty variant: nobody wakes the loop up for the last descriptor.       *)
UnregisterDescriptorSilently(fd) ==
  /\ fdToRecord' = Restrict(fdToRecord, DOMAIN fdToRecord \ {fd})
  /\ recordToHandler' = Restrict(recordToHandler, DOMAIN recordToHandler \ {fdToRecord[fd]})
  /\ interest' = Restrict(interest, DOMAIN interest \ {fd})
  /\ nextRecord' = nextRecord /\ eventFd' = eventFd

UnregisterDescriptor(fd) ==
  /\ fdToRecord' = Restrict(fdToRecord, DOMAIN fdToRecord \ {fd})
  /\ recordToHandler' = Restrict(recordToHandler, DOMAIN recordToHandler \ {fdToRecord[fd]})
  /\ interest' = Restrict(interest, DOMAIN interest \ {fd})
  /\ nextRecord' = nextRecord
  /\ eventFd' = (eventFd \/ DOMAIN fdToRecord' = {})

(* A file is opened, under the lowest descriptor that is free, and         *)
(* registered; registered anew for other events; unregistered and closed.  *)
Open(fd) ==
  /\ file[fd] = 0 /\ \A lower \in Fds : lower < fd => file[lower] # 0
  /\ opened < MaxFiles /\ ~closed
  /\ opened' = opened + 1
  /\ file' = [file EXCEPT ![fd] = opened + 1]
  /\ RegisterDescriptor(fd, opened + 1)
  /\ UNCHANGED <<closedByPeer, written, tokens, eventFd>>

Modify(fd) ==
  /\ fd \in DOMAIN fdToRecord
  /\ RegisterDescriptor(fd, file[fd])
  /\ UNCHANGED <<kernel, eventFd>>

Shut(fd) ==
  /\ fd \in DOMAIN fdToRecord
  /\ UnregisterDescriptor(fd)
  /\ file' = [file EXCEPT ![fd] = 0]
  /\ tokens' = tokens \ {file[fd]}
  /\ UNCHANGED <<opened, closedByPeer, written>>

Nothing == UNCHANGED <<kernel, registry, eventFd>>

Use == Nothing \/ \E fd \in Fds : Open(fd) \/ Modify(fd) \/ Shut(fd)

-----------------------------------------------------------------------------
(* The busy polling loop.                                                  *)

(* deferToLoop, with wakeupEventLoopToDeferFunction, under the lock.  The  *)
(* count is not looked at any more once eventLoop has returned.            *)
Defer(fn) ==
  /\ fns' = Append(fns, fn)
  /\ count' = IF loopThread \in {"over", "drain"} THEN count ELSE count + 1

(* readyToClose of the reactor of shm: the connection of a file that is    *)
(* registered has its reactions there.                                     *)
ReadyToClose == DOMAIN fdToRecord = {}

(* while (!closed_ || !readyToClose()), and pollOnce: the reactor handles  *)
(* one token if there is one.                                              *)
PollOnce ==
  /\ loopThread = "poll" /\ (~closed \/ ~ReadyToClose)
  /\ \/ /\ \E f \in tokens : tokens' = tokens \ {f}
        /\ UNCHANGED loopThread
     \/ tokens = {} /\ loopThread' = "count" /\ UNCHANGED tokens
  /\ UNCHANGED <<file, opened, closedByPeer, written, registry, eventFd, closed, epollThread,
                 epollEvents, fns, count, batch, ran, handled>>

(* deferredFunctionCount_ > 0, and the swap of                             *)
(* runDeferredFunctionsFromEventLoop                                       *)
TakeDeferred ==
  /\ loopThread = "count"
  /\ IF count > 0
     THEN /\ loopThread' = "run" /\ batch' = fns /\ fns' = <<>> /\ ran' = Len(fns)
     ELSE loopThread' = "poll" /\ UNCHANGED <<batch, fns, ran>>
  /\ UNCHANGED <<kernel, registry, eventFd, closed, epollThread, epollEvents, count, handled>>

(* The loop ends.                                                          *)
EventLoopReturns ==
  /\ loopThread = "poll" /\ closed /\ ReadyToClose
  /\ loopThread' = "over"
  /\ UNCHANGED <<kernel, registry, eventFd, closed, epollThread, epollEvents, fns, count,
                 batch, ran, handled>>

(* From then on functions are taken by the thread, while it winds down, or *)
(* run by the on-demand loop: either way in order, and one at a time.      *)
WindDown ==
  /\ loopThread = "over" /\ fns # <<>>
  /\ loopThread' = "drain" /\ batch' = fns /\ fns' = <<>>
  /\ UNCHANGED <<kernel, registry, eventFd, closed, epollThread, epollEvents, count, ran,
                 handled>>

Running == loopThread \in {"run", "drain"}

(* A function of a user of the loop.                                       *)
RunUser ==
  /\ Running /\ batch # <<>> /\ Head(batch) = "user"
  /\ Use
  /\ batch' = Tail(batch)
  /\ UNCHANGED <<closed, epollThread, epollEvents, fns, count, loopThread, ran, handled>>

(* One round of the loop of handleEpollEventsFromLoop: the handler of the  *)
(* record, if it is still there, is called, and may do what a user does.   *)
HandleEpollEvent(event) ==
  IF event[1] \in DOMAIN recordToHandler
  THEN /\ handled' = handled \cup
            {<<recordToHandler[event[1]], event[2], event[2] \in tokens>>}
       /\ Use
  ELSE Nothing /\ UNCHANGED handled

HandleEpollEventsFromLoop ==
  /\ Running /\ batch # <<>> /\ Head(batch) = "epoll"
  /\ \E event \in epollEvents :
       /\ HandleEpollEvent(event)
       /\ epollEvents' = epollEvents \ {event}
  /\ UNCHANGED <<closed, epollThread, busyLoop>>

(* ... and its end: the future of runInLoop is set.                        *)
HandledEpollEvents ==
  /\ Running /\ batch # <<>> /\ Head(batch) = "epoll" /\ epollEvents = {}
  /\ batch' = Tail(batch)
  /\ epollThread' = "loop"
  /\ UNCHANGED <<kernel, registry, eventFd, closed, epollEvents, fns, count, loopThread, ran,
                 handled>>

(* Faulty variant: the count is reset, instead of reduced by the functions *)
(* that ran.                                                               *)
RanDeferredResetting ==
  /\ Running /\ batch = <<>>
  /\ count' = 0
  /\ loopThread' = IF loopThread = "run" THEN "poll" ELSE "over"
  /\ ran' = 0
  /\ UNCHANGED <<kernel, registry, eventFd, closed, epollThread, epollEvents, fns, batch,
                 handled>>

(* deferredFunctionCount_ -= ...                                           *)
RanDeferred ==
  /\ Running /\ batch = <<>>
  /\ IF loopThread = "run" THEN count' = count - ran /\ loopThread' = "poll"
     ELSE count' = count /\ loopThread' = "over"
  /\ ran' = 0
  /\ UNCHANGED <<kernel, registry, eventFd, closed, epollThread, epollEvents, fns, batch,
                 handled>>

-----------------------------------------------------------------------------
(* The epoll thread.                                                       *)

(* while (!closed_ || hasRegisteredHandlers())                             *)
LoopAgain ==
  /\ epollThread = "loop"
  /\ epollThread' = IF ~closed \/ DOMAIN fdToRecord # {} THEN "wait" ELSE "done"
  /\ UNCHANGED <<kernel, registry, eventFd, closed, epollEvents, busyLoop, handled>>

(* The entries of the kernel's set that are ready.                         *)
Ready == {<<interest[fd], file[fd]>> : fd \in {x \in DOMAIN interest : file[x] \in closedByPeer}}

(* epoll_wait returns; the eventfd is read; the handling is deferred.      *)
EpollWait ==
  /\ epollThread = "wait"
  /\ eventFd \/ Ready # {}
  /\ eventFd' = FALSE
  /\ epollEvents' = Ready
  /\ Defer("epoll")
  /\ epollThread' = "future"
  /\ UNCHANGED <<kernel, registry, closed, loopThread, batch, ran, handled>>

-----------------------------------------------------------------------------
(* The rest of the world.                                                  *)

(* A user defers a function to the loop.                                   *)
DeferUser ==
  /\ "user" \notin {fns[i] : i \in 1 .. Len(fns)} /\ nextRecord <= MaxRecords
  /\ Defer("user")
  /\ UNCHANGED <<kernel, registry, eventFd, closed, epollThread, epollEvents, loopThread,
                 batch, ran, handled>>

Files == {file[fd] : fd \in Fds} \ {0}

PeerWrites(f) ==
  /\ f \in Files /\ f \notin closedByPeer /\ f \notin written
  /\ written' = written \cup {f}
  /\ tokens' = tokens \cup {f}
  /\ UNCHANGED <<file, opened, closedByPeer, registry, eventFd, closed, epollThread,
                 epollEvents, busyLoop, handled>>

PeerCloses(f) ==
  /\ f \in Files /\ f \notin closedByPeer
  /\ closedByPeer' = closedByPeer \cup {f}
  /\ UNCHANGED <<file, opened, written, tokens, registry, eventFd, closed, epollThread,
                 epollEvents, busyLoop, handled>>

Close ==
  /\ ~closed
  /\ closed' = TRUE /\ eventFd' = TRUE
  /\ UNCHANGED <<kernel, registry, epollThread, epollEvents, busyLoop, handled>>

LoopThreadNext ==
  \/ PollOnce \/ TakeDeferred \/ EventLoopReturns \/ WindDown \/ RunUser \/ HandleEpollEventsFromLoop \/ HandledEpollEvents
  \/ RanDeferred

EpollThreadNext == LoopAgain \/ EpollWait

Next ==
  \/ LoopThreadNext \/ EpollThreadNext \/ DeferUser \/ Close
  \/ \E f \in 1 .. MaxFiles : PeerWrites(f) \/ PeerCloses(f)

(* Both threads run.                                                       *)
Spec == Init /\ [][Next]_vars /\ WF_vars(LoopThreadNext) /\ WF_vars(EpollThreadNext)

-----------------------------------------------------------------------------

(* HandlerOfItsFile: a handler is never called for the event of another    *)
(* file, even if the descriptor was closed and used again between          *)
(* epoll_wait and the handling of its events (epoll_loop.h:108-128).       *)
HandlerOfItsFile == \A h \in handled : h[1] = h[2]

(* CountCoversFunctions: deferredFunctionCount_ counts the functions that  *)
(* are queued or being run, so the loop never ignores a queued function    *)
(* for want of a count, nor spins on a count without functions.            *)
CountCoversFunctions ==
  /\ loopThread = "run" => count = Len(fns) + ran
  /\ loopThread \in {"poll", "count"} => count = Len(fns)

(* WriteSeenFirst: when the handler is called because the other process    *)
(* closed its socket, the loop has reacted to what that process had        *)
(* written before: the guarantee of epoll_loop.h:102-107.                  *)
WriteSeenFirst == \A h \in handled : h[3] = FALSE
=============================================================================
