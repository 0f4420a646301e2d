----------------------------- MODULE Handshake -----------------------------
(***************************************************************************)
(* How pipes come about: a client connects to a listener, sends a brochure *)
(* of what it has, and the server answers with the transport and channels  *)
(* it picked and with one registration for each further connection the     *)
(* client is to open (core/listener_impl.cc, core/pipe_impl.cc, and        *)
(* core/context_impl.cc for the server's context).                         *)
(*                                                                         *)
(* The server's code runs as tasks of its context's loop, in order: the    *)
(* calls of the user, and the callbacks of connections and registrations,  *)
(* which CallbackWrapper defers.  Each client is a process of its own,     *)
(* with one pipe.  Connections are what the transports promise: a client's *)
(* connection reaches the listener at any time after it was dialled, what  *)
(* was written is read, and reads fail once the other end is gone.         *)
(***************************************************************************)
EXTENDS Selection

CONSTANTS
  Clients,
  Setups,       \* what the two ends have registered: see SetupsAssumption
  NumConnectionsNeeded,  \* of each channel
  MaxAccepts,   \* bound on the calls to accept
  MaxTasks,     \* bound on the tasks that wait when another is added from outside
  Closers       \* what may be closed, of "client", "pipe", "listener", "context",
                \* or fail by itself: "transport"

(* A setup: the priority maps of the server (transports, channels) and the *)
(* channel priorities of the client (clientChannels); the transports the   *)
(* client has (clientTransports), those that can communicate (reachable),  *)
(* those the listener has an address for (addresses), and the one of the   *)
(* url the client connects to; the devices of each channel on either side, *)
(* and the pairs of devices that the server and that the client find able  *)
(* to communicate, their own first (reach, clientReach), or throw for      *)
(* (throws, clientThrows).                                                 *)
ASSUME SetupsAssumption ==
  \A setup \in Setups :
    /\ setup.url \in setup.addresses \cap setup.clientTransports \cap setup.reachable
    /\ setup.addresses \subseteq DOMAIN setup.transports
    /\ DOMAIN setup.serverDevices = DOMAIN setup.channels
    /\ DOMAIN setup.clientDevices = DOMAIN setup.clientChannels
    /\ DOMAIN setup.channels \cup DOMAIN setup.clientChannels
         \subseteq DOMAIN NumConnectionsNeeded \cap DOMAIN setup.reach \cap DOMAIN setup.clientReach
                     \cap DOMAIN setup.throws \cap DOMAIN setup.clientThrows

VARIABLES
  setup,
  context,      \* the server's context
  listener,     \* its one listener
  pipe,         \* the server's pipe for each client
  client,       \* each client's pipe
  connections,  \* connections[c]: those client c has opened, by role
  tasks         \* of the server's loop

vars == <<setup, context, listener, pipe, client, connections, tasks>>

(* What a connection is for: the client's first one, a replacement of it   *)
(* on the transport that was picked, the one for descriptor replies, or    *)
(* the n-th one of a channel.                                              *)
INITIAL == << "tr", 0 >>
DESCRIPTOR == << "tr", 1 >>
DESCRIPTOR_REPLY == << "tr", 2 >>
OfChannel(role) == role[1] # "tr"

NoPipe ==
  [state |-> "NONE", error |-> FALSE, transport |-> "", registrationIds |-> << >>,
   channelRegistrationIds |-> << >>, connection |-> << >>, channels |-> {},
   channelForDevicePair |-> << >>]

NoAnswer == [sent |-> FALSE, transport |-> "", transportRegistrationIds |-> << >>,
             channelRegistrationIds |-> << >>, channelDeviceDescriptors |-> << >>,
             channelForDevicePair |-> << >>]

Init ==
  /\ setup \in Setups
  /\ context = [error |-> FALSE, threw |-> FALSE, listeners |-> {}, pipes |-> {}, join |-> "no"]
  /\ listener = [inited |-> FALSE, error |-> FALSE, waitingForHello |-> {}, nextRegistrationId |-> 0,
                 registrations |-> << >>, listened |-> FALSE, accepts |-> 0, armed |-> << >>, stashed |-> << >>,
                 called |-> << >>]
  /\ pipe = [c \in Clients |-> NoPipe]
  /\ client = [c \in Clients |->
                 [state |-> "CLIENT_ABOUT_TO_SEND_HELLO_AND_BROCHURE", transport |-> setup.url,
                  channelForDevicePair |-> << >>, answer |-> NoAnswer]]
  /\ connections = [c \in Clients |-> << >>]
  /\ tasks = << >>

-----------------------------------------------------------------------------
(* The handlers of the server take a state and give the one they leave: a  *)
(* record of the variables that they change.                               *)
Server == [context |-> context, listener |-> listener, pipe |-> pipe,
           client |-> client, tasks |-> tasks]

Become(s) ==
  /\ context' = s.context
  /\ listener' = s.listener
  /\ pipe' = s.pipe
  /\ client' = s.client
  /\ tasks' = s.tasks

(* What a task is about: a client, the role of a connection that was asked *)
(* for, and the connection that came; the callback's error.                *)
Task(what, c, role, from, ok) ==
  [what |-> what, client |-> c, role |-> role, from |-> from, ok |-> ok]

ForClient(what, c, ok) == Task(what, c, INITIAL, << c, INITIAL >>, ok)
ForConnection(what, from, ok) == Task(what, from[1], from[2], from, ok)
ForServer(what) == ForClient(what, CHOOSE c \in Clients : TRUE, TRUE)

(* The callback of the n-th accept is called with a pipe, or an error.     *)
Call(n, with) == [accept |-> n, with |-> with]
CalledWithError == << >>

-----------------------------------------------------------------------------
(* The listener's book of connections that pipes asked for.                *)

(* Faulty variant: the identifier is that of the place in the book.        *)
RegisterConnectionRequestAtEnd(s, c, role) ==
  LET id == Cardinality(DOMAIN s.listener.registrations) IN
  IF s.listener.error
  THEN [s EXCEPT !.listener.nextRegistrationId = id + 1,
                 !.tasks = Append(@, Task("request", c, role, << c, role >>, FALSE))]
  ELSE [s EXCEPT !.listener.nextRegistrationId = id + 1,
                 !.listener.registrations = (id :> << c, role >>) @@ @]

(* The identifier is the nextRegistrationId of before.  A listener that    *)
(* has failed calls back at once, which defers.                            *)
RegisterConnectionRequest(s, c, role) ==
  LET id == s.listener.nextRegistrationId IN
  IF s.listener.error
  THEN [s EXCEPT !.listener.nextRegistrationId = id + 1,
                 !.tasks = Append(@, Task("request", c, role, << c, role >>, FALSE))]
  ELSE [s EXCEPT !.listener.nextRegistrationId = id + 1,
                 !.listener.registrations = (id :> << c, role >>) @@ @]

UnregisterConnectionRequests(s, ids) ==
  [s EXCEPT !.listener.registrations = Restrict(@, DOMAIN @ \ ids)]

(* registerTransport                                                       *)
RegisterTransport(s, c, role) ==
  [RegisterConnectionRequest(s, c, role) EXCEPT
     !.pipe[c].registrationIds = (role :> s.listener.nextRegistrationId) @@ @]

(* registerChannel: one registration for each connection it needs.         *)
RegisterChannel(s, c, name) ==
  LET n == NumConnectionsNeeded[name]
      first == s.listener.nextRegistrationId
      Register(r, i) == RegisterConnectionRequest(r, c, << name, i >>)
  IN [FoldLeft(Register, s, [i \in 1 .. n |-> i]) EXCEPT
        !.pipe[c].channelRegistrationIds = (name :> [i \in 1 .. n |-> first + i - 1]) @@ @]

(* Faulty variant: channels do not count.                                  *)
PendingTransports(p) == p.registrationIds # << >>

PendingRegistrations(p) == p.registrationIds # << >> \/ p.channelRegistrationIds # << >>

-----------------------------------------------------------------------------
(* Errors.  Connections that are closed show as the error of the pipe or   *)
(* the listener that held them.                                            *)

(* The registrations that a pipe still holds.                              *)
IdsOf(p) == Range(p.registrationIds) \cup UNION {Range(ids) : ids \in Range(p.channelRegistrationIds)}

(* Faulty variant: the registrations for channels are left in the book.    *)
SetPipeErrorKeeping(s, c) ==
  IF s.pipe[c].error THEN s
  ELSE [UnregisterConnectionRequests(s, Range(s.pipe[c].registrationIds)) EXCEPT
          !.pipe[c] = [@ EXCEPT !.error = TRUE, !.registrationIds = << >>,
                                !.channelRegistrationIds = << >>],
          !.context.pipes = @ \ {c}]

(* setError and handleError of a pipe of the server.                       *)
SetPipeError(s, c) ==
  IF s.pipe[c].error THEN s
  ELSE [UnregisterConnectionRequests(s, IdsOf(s.pipe[c])) EXCEPT
          !.pipe[c] = [@ EXCEPT !.error = TRUE, !.registrationIds = << >>,
                                !.channelRegistrationIds = << >>],
          !.context.pipes = @ \ {c}]

(* The callbacks of the registrations, with an error.                      *)
FailRegistrations(registrations) ==
  LET ids == SetToSortSeq(DOMAIN registrations, <) IN
  [i \in 1 .. Len(ids) |->
     Task("request", registrations[ids[i]][1], registrations[ids[i]][2],
          registrations[ids[i]], FALSE)]

(* Faulty variant: the accept callbacks are not called.                    *)
SetListenerErrorSilently(s) ==
  IF s.listener.error THEN s
  ELSE [s EXCEPT !.listener = [@ EXCEPT !.error = TRUE, !.registrations = << >>,
                                        !.waitingForHello = {}],
                 !.tasks = @ \o FailRegistrations(s.listener.registrations),
                 !.context.listeners = {}]

(* setError and handleError of the listener.                               *)
SetListenerError(s) ==
  IF s.listener.error THEN s
  ELSE [s EXCEPT !.listener = [@ EXCEPT
                   !.error = TRUE,
                   !.called = @ \o [i \in 1 .. Len(s.listener.armed) |->
                                     Call(s.listener.armed[i], CalledWithError)],
                   !.armed = << >>,
                   !.registrations = << >>,
                   !.waitingForHello = {}],
                 !.tasks = @ \o FailRegistrations(s.listener.registrations),
                 !.context.listeners = {}]

-----------------------------------------------------------------------------
(* The server's side of the handshake.                                     *)

(* The callback of armListener: onAccept, which reads the connection's     *)
(* first packet, and armListener again, for the next connection of that    *)
(* transport; with an error, setError comes first.                         *)
RunAccept(s, from, ok) ==
  LET t == IF ok THEN s ELSE SetListenerError(s) IN
  IF t.listener.error THEN t
  ELSE [t EXCEPT !.listener.waitingForHello = @ \cup {from}]

(* The constructor of a pipe for connection INITIAL of client c, and its   *)
(* initFromLoop, which posts the read of the brochure.                     *)
OpenPipe(s, c) ==
  LET new == [NoPipe EXCEPT !.state = "SERVER_WAITING_FOR_BROCHURE",
                            !.transport = connections[c][INITIAL].transport,
                            !.connection = (INITIAL :> << c, INITIAL >>)]
  IN IF s.context.error THEN [s EXCEPT !.pipe[c] = [new EXCEPT !.error = TRUE]]
     ELSE [s EXCEPT !.pipe[c] = new, !.context.pipes = @ \cup {c}]

(* acceptCallback_.trigger                                                 *)
TriggerAccept(s, c) ==
  IF s.listener.armed = << >> THEN [s EXCEPT !.listener.stashed = Append(@, c)]
  ELSE [s EXCEPT !.listener.armed = Tail(@), !.listener.called = Append(@, Call(Head(s.listener.armed), << c >>))]

(* onConnectionHelloRead, for a spontaneous and for a requested connection *)
RunHello(s, from, ok) ==
  LET t == IF ok THEN s ELSE SetListenerError(s)
      hello == connections[from[1]][from[2]]
      u == [t EXCEPT !.listener.waitingForHello = @ \ {from}]
  IN IF t.listener.error THEN t
     ELSE IF from[2] = INITIAL THEN TriggerAccept(OpenPipe(u, from[1]), from[1])
     ELSE IF hello.registrationId \notin DOMAIN u.listener.registrations THEN u
     ELSE LET asked == u.listener.registrations[hello.registrationId] IN
          [UnregisterConnectionRequests(u, {hello.registrationId}) EXCEPT
             !.tasks = Append(@, Task("request", asked[1], asked[2], from, TRUE))]

(* The channels that the server picked, in an order.                       *)
Chosen(selected) == SetToSeq(DOMAIN selected.descriptorsMap)

ServerSelection ==
  SelectChannels(Ordered(setup.channels), setup.serverDevices, setup.clientDevices, setup.reach)

ServerTransport ==
  SelectTransport(Ordered(setup.transports), setup.clientTransports, setup.addresses,
                  setup.reachable)

(* onReadWhileServerWaitingForBrochure.  The registration for descriptor   *)
(* replies is always there, so the pipe always has to wait.  Nothing       *)
(* catches what selectChannels throws: the server's process ends.          *)
OnReadWhileServerWaitingForBrochure(s, c) ==
  LET transport == ServerTransport
      selected == ServerSelection
      replaced == IF transport = s.pipe[c].transport THEN s
                  ELSE RegisterTransport([s EXCEPT !.pipe[c].transport = transport], c, DESCRIPTOR)
      replies == RegisterTransport(replaced, c, DESCRIPTOR_REPLY)
      Register(r, name) == RegisterChannel(r, c, name)
      registered == FoldLeft(Register, replies, Chosen(selected))
      p == registered.pipe[c]
  IN IF SelectionThrows(setup.serverDevices, setup.clientDevices, setup.throws)
     THEN [s EXCEPT !.context.threw = TRUE]
     ELSE
     [registered EXCEPT
        !.pipe[c].channelForDevicePair = selected.channelForDevicePair,
        !.pipe[c].state = IF PendingRegistrations(p) THEN "SERVER_WAITING_FOR_CONNECTIONS"
                          ELSE "ESTABLISHED",
        !.client[c].answer =
          [sent |-> TRUE, transport |-> transport,
           transportRegistrationIds |-> p.registrationIds,
           channelRegistrationIds |-> p.channelRegistrationIds,
           channelDeviceDescriptors |-> selected.descriptorsMap,
           channelForDevicePair |-> selected.channelForDevicePair]]

RunBrochure(s, c, ok) ==
  LET t == IF ok THEN s ELSE SetPipeError(s, c) IN
  IF t.pipe[c].error THEN t ELSE OnReadWhileServerWaitingForBrochure(t, c)

(* The callback of the write of the answer, which only heeds an error.     *)
RunAnswerWritten(s, c, ok) == IF ok THEN s ELSE SetPipeError(s, c)

Settle(s, c) ==
  IF PendingRegistrations(s.pipe[c]) THEN s ELSE [s EXCEPT !.pipe[c].state = "ESTABLISHED"]

(* Faulty variant: the pipe is established only by the last channel.       *)
OnAcceptWhileServerWaitingForConnectionOnly(s, c, role, from) ==
  LET t == UnregisterConnectionRequests(s, {s.pipe[c].registrationIds[role]}) IN
  [t EXCEPT !.pipe[c].registrationIds = Restrict(@, DOMAIN @ \ {role}),
            !.pipe[c].connection = (role :> from) @@ @]

(* onAcceptWhileServerWaitingForConnection                                 *)
OnAcceptWhileServerWaitingForConnection(s, c, role, from) ==
  LET t == UnregisterConnectionRequests(s, {s.pipe[c].registrationIds[role]}) IN
  Settle([t EXCEPT !.pipe[c].registrationIds = Restrict(@, DOMAIN @ \ {role}),
                   !.pipe[c].connection = (role :> from) @@ @], c)

(* Faulty variant: the channel is made when its last connection arrives.   *)
OnAcceptWhileServerWaitingForChannelLast(s, c, role, from) ==
  LET name == role[1]
      t == [UnregisterConnectionRequests(s, {s.pipe[c].channelRegistrationIds[name][role[2]]})
              EXCEPT !.pipe[c].connection = (role :> from) @@ @]
  IN IF role[2] # NumConnectionsNeeded[name] THEN t
     ELSE Settle([t EXCEPT !.pipe[c].channels = @ \cup {name},
                           !.pipe[c].channelRegistrationIds = Restrict(@, DOMAIN @ \ {name})], c)

(* onAcceptWhileServerWaitingForChannel: the channel is made once all its  *)
(* connections have arrived.                                               *)
OnAcceptWhileServerWaitingForChannel(s, c, role, from) ==
  LET name == role[1]
      t == [UnregisterConnectionRequests(s, {s.pipe[c].channelRegistrationIds[name][role[2]]})
              EXCEPT !.pipe[c].connection = (role :> from) @@ @]
  IN IF \E i \in 1 .. NumConnectionsNeeded[name] : << name, i >> \notin DOMAIN t.pipe[c].connection
     THEN t
     ELSE Settle([t EXCEPT !.pipe[c].channels = @ \cup {name},
                           !.pipe[c].channelRegistrationIds = Restrict(@, DOMAIN @ \ {name})], c)

(* The callback of a registration, with the connection or with an error.   *)
RunRequest(s, c, role, from, ok) ==
  LET t == IF ok THEN s ELSE SetPipeError(s, c) IN
  IF t.pipe[c].error THEN t
  ELSE IF OfChannel(role) THEN OnAcceptWhileServerWaitingForChannel(t, c, role, from)
  ELSE OnAcceptWhileServerWaitingForConnection(t, c, role, from)

-----------------------------------------------------------------------------
(* The server's user, and the rest of the server's tasks.                  *)

(* listen: the listener's init is deferred.                                *)
RunListen(s) ==
  IF s.context.error THEN [s EXCEPT !.listener.error = TRUE]
  ELSE [s EXCEPT !.context.listeners = {"listener"}, !.listener.inited = TRUE]

(* acceptFromLoop, with acceptCallback_.arm                                *)
RunUserAccept(s) ==
  LET n == Len(s.listener.called) + Len(s.listener.armed) + 1 IN
  IF s.listener.error THEN [s EXCEPT !.listener.called = Append(@, Call(n, CalledWithError))]
  ELSE IF s.listener.stashed = << >> THEN [s EXCEPT !.listener.armed = Append(@, n)]
  ELSE [s EXCEPT !.listener.called = Append(@, Call(n, << Head(s.listener.stashed) >>)),
                 !.listener.stashed = Tail(@)]

(* Faulty variant: what the context holds is closed by tasks of its own.   *)
RunCloseContextLater(s) ==
  IF s.context.error THEN s
  ELSE [s EXCEPT !.context.error = TRUE,
                 !.tasks = @ \o << ForServer("close listener") >>
                             \o [i \in 1 .. Cardinality(s.context.pipes) |->
                                   ForClient("close pipe", SetToSeq(s.context.pipes)[i], TRUE)]]

(* closeFromLoop of the context, with handleError: the listener, if it is  *)
(* enrolled, and then the pipes are closed at once.                        *)
RunCloseContext(s) ==
  IF s.context.error THEN s
  ELSE LET t == [s EXCEPT !.context.error = TRUE]
           u == IF t.context.listeners = {} THEN t ELSE SetListenerError(t)
       IN FoldLeft(SetPipeError, u, SetToSeq(s.context.pipes))

Run(s, task) ==
  CASE task.what = "listen" -> RunListen(s)
    [] task.what = "user accept" -> RunUserAccept(s)
    [] task.what = "accept" -> RunAccept(s, task.from, task.ok)
    [] task.what = "hello" -> RunHello(s, task.from, task.ok)
    [] task.what = "brochure" -> RunBrochure(s, task.client, task.ok)
    [] task.what = "answer written" -> RunAnswerWritten(s, task.client, task.ok)
    [] task.what = "request" -> RunRequest(s, task.client, task.role, task.from, task.ok)
    [] task.what = "close pipe" -> SetPipeError(s, task.client)
    [] task.what = "close listener" -> SetListenerError(s)
    [] task.what = "close context" -> RunCloseContext(s)
    [] task.what = "has closed" -> [s EXCEPT !.context.join = "closed"]

RunTask ==
  /\ tasks # << >> /\ ~context.threw
  /\ Become(Run([Server EXCEPT !.tasks = Tail(@)], Head(tasks)))
  /\ UNCHANGED <<setup, connections>>

Defer(task) ==
  /\ Len(tasks) < MaxTasks /\ ~context.threw
  /\ tasks' = Append(tasks, task)
  /\ UNCHANGED <<setup, context, pipe, client>>

Listen ==
  /\ ~listener.listened
  /\ listener' = [listener EXCEPT !.listened = TRUE]
  /\ Defer(ForServer("listen"))
  /\ UNCHANGED connections

Accept ==
  /\ listener.listened
  /\ listener.accepts < MaxAccepts
  /\ listener' = [listener EXCEPT !.accepts = @ + 1]
  /\ Defer(ForServer("user accept"))
  /\ UNCHANGED connections

(* The user closes the pipes they were given.                              *)
Given(c) == \E i \in 1 .. Len(listener.called) : listener.called[i].with = << c >>

ClosePipe(c) ==
  /\ "pipe" \in Closers
  /\ Given(c)
  /\ ~pipe[c].error
  /\ \A i \in 1 .. Len(tasks) : tasks[i] # ForClient("close pipe", c, TRUE)
  /\ Defer(ForClient("close pipe", c, TRUE))
  /\ UNCHANGED <<listener, connections>>

CloseListener ==
  /\ "listener" \in Closers
  /\ listener.listened
  /\ ~listener.error
  /\ \A i \in 1 .. Len(tasks) : tasks[i] # ForServer("close listener")
  /\ Defer(ForServer("close listener"))
  /\ UNCHANGED <<listener, connections>>

(* join: a close, and a task that tells when it is done.                   *)
Join ==
  /\ "context" \in Closers
  /\ context.join = "no"
  /\ Len(tasks) < MaxTasks /\ ~context.threw
  /\ context' = [context EXCEPT !.join = "waiting"]
  /\ tasks' = tasks \o << ForServer("close context"), ForServer("has closed") >>
  /\ UNCHANGED <<setup, listener, pipe, client, connections>>

(* The transports and channels have been joined, and join returns.         *)
JoinReturns ==
  /\ context.join = "closed" /\ ~context.threw
  /\ context' = [context EXCEPT !.join = "joined"]
  /\ UNCHANGED <<setup, listener, pipe, client, connections, tasks>>

-----------------------------------------------------------------------------
(* The callbacks of the server's connections.                              *)

Gone(c) == client[c].state \in {"CLOSED", "THREW"}

Dialled(c, role) == role \in DOMAIN connections[c] /\ connections[c][role].state = "dialled"

SetState(c, role, state) == connections' = [connections EXCEPT ![c][role].state = state]

(* The listener of a transport fails.                                      *)
AcceptFails ==
  /\ "transport" \in Closers
  /\ listener.inited /\ ~listener.error
  /\ \A i \in 1 .. Len(tasks) : tasks[i].what = "accept" => tasks[i].ok
  /\ Defer([ForServer("accept") EXCEPT !.ok = FALSE])
  /\ UNCHANGED <<listener, connections>>

(* A transport's listener takes one connection for each call to accept,    *)
(* and is armed again by the task of the one before.                       *)
AcceptCallback(c, role) ==
  /\ listener.inited /\ ~listener.error
  /\ Dialled(c, role)
  /\ \A i \in 1 .. Len(tasks) :
       tasks[i].what = "accept" /\ tasks[i].ok
         => connections[tasks[i].from[1]][tasks[i].from[2]].transport
              # connections[c][role].transport
  /\ SetState(c, role, "accepted")
  /\ Defer(ForConnection("accept", << c, role >>, TRUE))
  /\ UNCHANGED listener

(* The first packet was written when the connection was opened; reading it *)
(* can only fail when the client is gone.                                  *)
HelloCallback(c, role, ok) ==
  /\ << c, role >> \in listener.waitingForHello
  /\ connections[c][role].state = "accepted"
  /\ ok \/ Gone(c)
  /\ SetState(c, role, "read")
  /\ Defer(ForConnection("hello", << c, role >>, ok))
  /\ UNCHANGED listener

BrochureCallback(c, ok) ==
  /\ pipe[c].state = "SERVER_WAITING_FOR_BROCHURE"
  /\ connections[c][INITIAL].state = "read"
  /\ ok \/ Gone(c) \/ pipe[c].error
  /\ SetState(c, INITIAL, "brochure read")
  /\ Defer(ForClient("brochure", c, ok))
  /\ UNCHANGED listener

(* The answer cannot be written, as the client is gone or the connection   *)
(* broken.  (The callback of a write that succeeds does nothing.)          *)
AnswerFails(c) ==
  /\ pipe[c].state \in {"SERVER_WAITING_FOR_CONNECTIONS", "ESTABLISHED"} /\ ~pipe[c].error
  /\ Gone(c) \/ "transport" \in Closers
  /\ \A i \in 1 .. Len(tasks) : tasks[i].what # "answer written"
  /\ Defer(ForClient("answer written", c, FALSE))
  /\ UNCHANGED <<listener, connections>>

-----------------------------------------------------------------------------
(* The clients.                                                            *)

Opened(transport, registrationId) ==
  [transport |-> transport, registrationId |-> registrationId, state |-> "dialled"]

(* The constructor and initFromLoop of a client's pipe: the hello and the  *)
(* brochure are written and the read of the answer is posted.              *)
Connect(c) ==
  /\ client[c].state = "CLIENT_ABOUT_TO_SEND_HELLO_AND_BROCHURE"
  /\ listener.listened
  /\ client' = [client EXCEPT ![c].state = "CLIENT_WAITING_FOR_BROCHURE_ANSWER"]
  /\ connections' = [connections EXCEPT ![c] = (INITIAL :> Opened(setup.url, 0))]
  /\ UNCHANGED <<setup, context, listener, pipe, tasks>>

ClientSelection(answer) ==
  SelectChannels(Ordered(setup.clientChannels), setup.clientDevices,
                 answer.channelDeviceDescriptors, setup.clientReach)

(* The connections that the client opens for the transport that the answer *)
(* names, each with its first packet (initConnection).                     *)
TransportConnections(c, answer) ==
  LET roles == IF answer.transport # client[c].transport THEN {DESCRIPTOR, DESCRIPTOR_REPLY}
               ELSE {DESCRIPTOR_REPLY}
  IN [role \in roles |-> Opened(answer.transport, answer.transportRegistrationIds[role])]

ChannelConnections(answer, names) ==
  LET roles == UNION {{<< name, i >> : i \in 1 .. NumConnectionsNeeded[name]} : name \in names}
  IN [role \in roles |->
        Opened(answer.transport, answer.channelRegistrationIds[role[1]][role[2]])]

(* onReadWhileClientWaitingForBrochureAnswer.  When the two selections     *)
(* differ it throws, as selectChannels may, and nothing catches it.        *)
OnReadWhileClientWaitingForBrochureAnswer(c) ==
  LET answer == client[c].answer
      selected == ClientSelection(answer)
      same == /\ ~SelectionThrows(setup.clientDevices, answer.channelDeviceDescriptors,
                                  setup.clientThrows)
              /\ SameSelection(selected.channelForDevicePair, answer.channelForDevicePair)
      opened == TransportConnections(c, answer) @@
                (IF same THEN ChannelConnections(answer, DOMAIN selected.descriptorsMap)
                 ELSE << >>)
  IN /\ client[c].state = "CLIENT_WAITING_FOR_BROCHURE_ANSWER"
     /\ answer.sent
     /\ client' = [client EXCEPT ![c].transport = answer.transport,
                                 ![c].channelForDevicePair = selected.channelForDevicePair,
                                 ![c].state = IF same THEN "ESTABLISHED" ELSE "THREW"]
     /\ connections' = [connections EXCEPT ![c] = opened @@ @]
     /\ UNCHANGED <<setup, context, listener, pipe, tasks>>

(* The client's read of the answer fails once the server has closed its    *)
(* end of the connection, will never accept it or is gone.                 *)
ClientFails(c) ==
  /\ client[c].state = "CLIENT_WAITING_FOR_BROCHURE_ANSWER"
  /\ pipe[c].error \/ context.threw \/ (listener.error /\ pipe[c].state = "NONE")
  /\ client' = [client EXCEPT ![c].state = "CLOSED"]
  /\ UNCHANGED <<setup, context, listener, pipe, connections, tasks>>

(* The client's user closes the pipe, or the client's process ends.        *)
CloseClient(c) ==
  /\ "client" \in Closers
  /\ client[c].state \in {"CLIENT_WAITING_FOR_BROCHURE_ANSWER", "ESTABLISHED"}
  /\ client' = [client EXCEPT ![c].state = "CLOSED"]
  /\ UNCHANGED <<setup, context, listener, pipe, connections, tasks>>

Next ==
  \/ RunTask
  \/ Listen
  \/ Accept
  \/ \E c \in Clients : ClosePipe(c)
  \/ CloseListener
  \/ Join
  \/ JoinReturns
  \/ \E c \in Clients : \E role \in DOMAIN connections[c] : AcceptCallback(c, role)
  \/ \E c \in Clients : \E role \in DOMAIN connections[c], ok \in BOOLEAN :
       HelloCallback(c, role, ok)
  \/ \E c \in Clients, ok \in BOOLEAN : BrochureCallback(c, ok)
  \/ AcceptFails
  \/ \E c \in Clients : AnswerFails(c)
  \/ \E c \in Clients : Connect(c)
  \/ \E c \in Clients : OnReadWhileClientWaitingForBrochureAnswer(c)
  \/ \E c \in Clients : ClientFails(c)
  \/ \E c \in Clients : CloseClient(c)

Spec == Init /\ [][Next]_vars

-----------------------------------------------------------------------------
(* Each connection that a pipe of the server works with is the one that    *)
(* its own client opened for that purpose, though connections arrive in    *)
(* any order and those of all clients at the same listener: it is the      *)
(* registration identifier alone that matches them                         *)
(* (listener_impl.cc:148-178, pipe_impl.cc:1226-1304).                     *)
RightConnections ==
  \A c \in Clients : \A role \in DOMAIN pipe[c].connection :
    pipe[c].connection[role] = << c, role >>

(* A pipe of the server is established only when every channel it picked   *)
(* for a pair of devices is made, from all the connections it needs, and   *)
(* the connections for descriptors are there, in whatever order they came  *)
(* (pipe_impl.cc:1251-1256 and 1279-1316).                                 *)
ChannelsComplete ==
  \A c \in Clients : pipe[c].state = "ESTABLISHED" =>
    LET picked == Range(pipe[c].channelForDevicePair)
        needed == {DESCRIPTOR_REPLY}
                    \cup (IF pipe[c].transport = connections[c][INITIAL].transport THEN {}
                          ELSE {DESCRIPTOR})
                    \cup UNION {{<< name, i >> : i \in 1 .. NumConnectionsNeeded[name]} : name \in picked}
    IN picked \subseteq pipe[c].channels /\ needed \subseteq DOMAIN pipe[c].connection

(* A registration is in the listener's book only while the pipe that made  *)
(* it still waits for that connection: once the pipe has failed, or the    *)
(* connection was matched, a late one finds nothing (handleError of the    *)
(* pipe, pipe_impl.cc:647-657; listener_impl.cc:324-331).                  *)
RegistrationsWanted ==
  \A id \in DOMAIN listener.registrations :
    LET asked == listener.registrations[id] IN
    /\ ~pipe[asked[1]].error
    /\ pipe[asked[1]].state = "SERVER_WAITING_FOR_CONNECTIONS"
    /\ asked[2] \notin DOMAIN pipe[asked[1]].connection

(* When the callback of a registration reaches a pipe that has not failed, *)
(* the pipe is waiting for connections, still knows of that one, and the   *)
(* connection is of its transport: the checks at the top of                *)
(* onAcceptWhileServerWaitingForConnection and ...ForChannel               *)
(* (pipe_impl.cc:1231-1237 and 1264-1268).                                 *)
ConnectionsExpected ==
  tasks # << >> /\ Head(tasks).what = "request" /\ Head(tasks).ok =>
    LET c == Head(tasks).client
        role == Head(tasks).role
        from == Head(tasks).from
    IN pipe[c].error \/
       /\ pipe[c].state = "SERVER_WAITING_FOR_CONNECTIONS"
       /\ role \in DOMAIN pipe[c].registrationIds \/ role[1] \in DOMAIN pipe[c].channelRegistrationIds
       /\ connections[from[1]][from[2]].transport = pipe[c].transport

(* The channels that connect a pair of devices, and the best of them.      *)
Common(pair) ==
  {name \in DOMAIN setup.channels \cap DOMAIN setup.clientChannels :
     /\ pair[1] \in setup.serverDevices[name]
     /\ pair[2] \in setup.clientDevices[name]
     /\ pair \in setup.reach[name]}

Best(priorities, names) ==
  CHOOSE name \in names : \A other \in names : priorities[other] <= priorities[name]

(* The two ends of a pipe agree on the channel for each pair of devices,   *)
(* and it is the one of highest priority among those both have and that    *)
(* connect the pair.  The client, which picks anew among what the server   *)
(* offers it, throws only if the two ends rank those channels differently  *)
(* (pipe_impl.cc:1146-1172) or it cannot look up a device of the server's; *)
(* the server only if it cannot look up one of the client's.               *)
BestChannelsAgreed ==
  \A c \in Clients :
    LET mine == client[c].channelForDevicePair
        Expected(pair) == Best(setup.channels, Common(pair))
    IN /\ client[c].state = "ESTABLISHED" =>
            \A pair \in {"cpu", "cuda"} \X {"cpu", "cuda"} :
              IF Common(pair) = {} THEN Flip(pair) \notin DOMAIN mine
              ELSE Flip(pair) \in DOMAIN mine /\ mine[Flip(pair)] = Expected(pair)
       /\ client[c].state = "THREW" =>
            \E pair \in {"cpu", "cuda"} \X {"cpu", "cuda"} :
              /\ Common(pair) # {}
              /\ \/ Expected(pair) # Best(setup.clientChannels, Common(pair))
                 \/ Flip(pair) \in setup.clientThrows[Expected(pair)]
       /\ context.threw => \E name \in DOMAIN setup.channels : setup.throws[name] # {}

(* Every accept is called back once, in order, each pipe is given to one   *)
(* of them and in the order the pipes came about; and a listener that has  *)
(* failed owes no callback (listener_impl.cc:98-121, 209-211 and 315-317). *)
AcceptsInOrder ==
  /\ \A i \in 1 .. Len(listener.called) : listener.called[i].accept = i
  /\ \A i, j \in 1 .. Len(listener.called) :
       i < j /\ listener.called[j].with # CalledWithError
         => listener.called[i].with \notin {CalledWithError, listener.called[j].with}
  /\ listener.error => listener.armed = << >>

(* After join nothing is enrolled with the context any more, and nothing   *)
(* enrolls later (the checks at context_impl.cc:286-287): the context      *)
(* closes its listeners and pipes at once rather than by a later task      *)
(* (context_impl.cc:243-250).                                              *)
NothingEnrolledAfterJoin ==
  context.join = "joined" => context.listeners = {} /\ context.pipes = {}

(* Nothing is left to happen on its own: no task, no connection on its way *)
(* or unread, no brochure or answer to read, no client about to connect.   *)
Quiet ==
  /\ listener.inited
  /\ tasks = << >>
  /\ \A c \in Clients :
       /\ \A role \in DOMAIN connections[c] :
            connections[c][role].state \notin {"dialled", "accepted"}
       /\ client[c].state \notin {"CLIENT_ABOUT_TO_SEND_HELLO_AND_BROCHURE",
                                 "CLIENT_WAITING_FOR_BROCHURE_ANSWER"}
            \/ (client[c].state = "CLIENT_WAITING_FOR_BROCHURE_ANSWER" /\ ~client[c].answer.sent)
       /\ pipe[c].state = "SERVER_WAITING_FOR_BROCHURE"
            => connections[c][INITIAL].state = "brochure read"

(* As long as nobody closes anything, the handshake never stops halfway:   *)
(* when nothing is left to happen both pipes are established, or a         *)
(* selection has thrown and ended its process (the counts of               *)
(* registrations at pipe_impl.cc:1252-1256, 1299-1303 and 1306-1316).      *)
HandshakeCompletes ==
  Closers = {} /\ Quiet =>
    \A c \in Clients :
      \/ client[c].state = "ESTABLISHED" /\ pipe[c].state = "ESTABLISHED"
      \/ client[c].state = "THREW" \/ context.threw
=============================================================================
