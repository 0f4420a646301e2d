----------------------------- MODULE MCHandshake -----------------------------
(***************************************************************************)
(* The handshake for TLC: two transports, two channels, two devices.  A    *)
(* behaviour starts by picking one of four scenarios: one client with      *)
(* everything that may be closed, two clients at one listener, one client  *)
(* for every setup, or one client for every pair of processes, with the    *)
(* setup that their descriptors lead to.                                   *)
(***************************************************************************)
EXTENDS Handshake, Descriptors

CONSTANTS clientA, clientB

VARIABLE scenario

allVars == <<scenario, vars>>

Cpu == {"cpu"}
Both == {"cpu", "cuda"}
AllPairs == Both \X Both

(* Any channel that needs one connection, any that needs two, and those    *)
(* there are, with mpt over shm and cuda_basic over basic.                 *)
Needed == [name \in {"single", "basic", "mpt"} |-> 1] @@
          [name \in {"double", "xth", "cma", "cuda_basic", "cuda_xth", "cuda_ipc", "cuda_gdr"} |-> 2]

Setup(transports, clientChannels, serverDevices, clientDevices) ==
  [transports |-> transports, channels |-> "single" :> 1 @@ "double" :> 2,
   clientChannels |-> clientChannels, clientTransports |-> {"uv", "shm"},
   reachable |-> {"uv", "shm"}, addresses |-> {"uv", "shm"}, url |-> "uv",
   serverDevices |-> serverDevices, clientDevices |-> clientDevices,
   reach |-> "single" :> AllPairs @@ "double" :> (Cpu \X Cpu),
   clientReach |-> "single" :> AllPairs @@ "double" :> (Cpu \X Cpu),
   throws |-> "single" :> {} @@ "double" :> {}, clientThrows |-> "single" :> {} @@ "double" :> {}]

(* The setup with other pairs that can communicate, on which the ends      *)
(* agree.                                                                  *)
Reaching(setting, first, second) ==
  [setting EXCEPT !.reach = "single" :> first @@ "double" :> second,
                  !.clientReach = "single" :> FlipAll(first) @@ "double" :> FlipAll(second)]

UvFirst == "uv" :> 2 @@ "shm" :> 1
ShmFirst == "uv" :> 1 @@ "shm" :> 2
SameOrder == "single" :> 3 @@ "double" :> 7
OtherOrder == "single" :> 3 @@ "double" :> 2

(* One channel, that needs two connections.                                *)
OneChannel == {Reaching(Setup(UvFirst, SameOrder, "single" :> Cpu @@ "double" :> Cpu,
                              "single" :> Cpu @@ "double" :> Cpu), {}, Cpu \X Cpu)}

(* The first connection is kept, or replaced by one of another transport.  *)
KeptOrReplaced == OneChannel \cup {[one EXCEPT !.transports = ShmFirst] : one \in OneChannel}

(* All devices that the channels may have at either end, and all pairs     *)
(* that they may connect, with both rankings at the client.                *)
AllSetups ==
  {Reaching(Setup(UvFirst, order, "single" :> Both @@ "double" :> s, "single" :> Both @@ "double" :> c),
            b, m) :
     order \in {SameOrder, OtherOrder}, s \in {Cpu, Both}, c \in {Cpu, Both},
     b \in SUBSET AllPairs, m \in {AllPairs, {<< "cpu", "cpu" >>, << "cuda", "cpu" >>}, {}}}

(* A process where everything can be used, and another beside it.          *)
One ==
  [boot |-> "boot1", pid |-> 1, pidNs |-> "ns1", netNs |-> "ns1", userNs |-> "ns1",
   uids |-> {1}, gids |-> {1}, caps |-> {}, dumpable |-> TRUE,
   activeLsms |-> {"capability", "yama"}, yama |-> "restricted", securityfs |-> TRUE,
   readvBlocked |-> FALSE, shmAllowed |-> TRUE, cuda |-> TRUE, nvml |-> TRUE, ibv |-> TRUE,
   gpus |-> {"gpu1"}, nvmlGpus |-> {"gpu1", "gpu2"},
   unifiedAddressing |-> TRUE, computeModeDefault |-> TRUE,
   enoughBar1 |-> TRUE, p2p |-> {"gpu1", "gpu2"} \X {"gpu1", "gpu2"},
   nics |-> {"nic"}, peerMemory |-> TRUE]
Two == [One EXCEPT !.pid = 2, !.gpus = {"gpu2"}]

(* The other process in a container, or of another user, and so on.        *)
Others ==
  {One, Two, [Two EXCEPT !.boot = "boot2"], [Two EXCEPT !.boot = "boot2", !.pid = 1],
   [Two EXCEPT !.pidNs = "ns2", !.pid = 1], [Two EXCEPT !.pidNs = Unknown],
   [Two EXCEPT !.netNs = "ns2"], [Two EXCEPT !.netNs = Unknown],
   [Two EXCEPT !.userNs = "ns2"], [Two EXCEPT !.uids = {2}], [Two EXCEPT !.uids = {1, 2}],
   [Two EXCEPT !.caps = {"cap"}], [Two EXCEPT !.dumpable = FALSE], [Two EXCEPT !.securityfs = FALSE],
   [Two EXCEPT !.readvBlocked = TRUE], [Two EXCEPT !.shmAllowed = FALSE],
   [Two EXCEPT !.cuda = FALSE], [Two EXCEPT !.nvml = FALSE], [Two EXCEPT !.ibv = FALSE],
   [Two EXCEPT !.gpus = {}], [Two EXCEPT !.gpus = {"gpu1"}], [Two EXCEPT !.nics = {}],
   [Two EXCEPT !.nvmlGpus = {"gpu2"}], [Two EXCEPT !.nvmlGpus = {"gpu2"}, !.pidNs = "ns2"]}

(* The two of them on a machine of another kind.                           *)
Together(p, q, Machine(_)) == << Machine(p), Machine(q) >>
OtherMachines ==
  {Together(One, Two, LAMBDA p : [p EXCEPT !.yama = scope]) : scope \in {"classic", "admin", "none"}}
  \cup {Together(One, Two, LAMBDA p : [p EXCEPT !.activeLsms = {"capability"}, !.yama = Unknown])}
  \cup {Together(One, Two, LAMBDA p : [p EXCEPT !.p2p = pairs]) :
          pairs \in SUBSET {<< "gpu1", "gpu2" >>, << "gpu2", "gpu1" >>}}

Processes ==
  {<< One, other >> : other \in Others} \cup {<< other, One >> : other \in Others} \cup OtherMachines

(* What a user registers, two transports and two channels at a time.       *)
Registered ==
  {"xth" :> 2 @@ "cma" :> 1, "cma" :> 2 @@ "basic" :> 1, "mpt" :> 2 @@ "basic" :> 1,
   "cuda_ipc" :> 2 @@ "cuda_basic" :> 1, "cuda_xth" :> 2 @@ "cuda_gdr" :> 1}

(* registerTransport and registerChannel skip what is not viable.          *)
SetupOf(p, q, registered) ==
  LET Channels(r) == {name \in DOMAIN registered : IsViable(r, name)}
      Transports(r) == {name \in {"uv", "shm"} : TransportIsViable(r, name)}
  IN [server |-> p, client |-> q,
      transports |-> [name \in Transports(p) |-> ShmFirst[name]],
      channels |-> [name \in Channels(p) |-> registered[name]],
      clientChannels |-> [name \in Channels(q) |-> registered[name]],
      clientTransports |-> Transports(q),
      reachable |-> {name \in Transports(p) \cap Transports(q) :
                       TransportCanCommunicateWithRemote(p, q, name)},
      addresses |-> Transports(p), url |-> "uv",
      serverDevices |-> [name \in Channels(p) |-> DevicesOf(p, name)],
      clientDevices |-> [name \in Channels(q) |-> DevicesOf(q, name)],
      reach |-> [name \in DOMAIN registered |-> Reach(p, q, name)],
      clientReach |-> [name \in DOMAIN registered |-> Reach(q, p, name)],
      throws |-> [name \in DOMAIN registered |-> Throws(p, q, name)],
      clientThrows |-> [name \in DOMAIN registered |-> Throws(q, p, name)]]

SetupsOfProcesses == {SetupOf(both[1], both[2], registered) :
                        both \in Processes, registered \in Registered}

TwoClients == INSTANCE Handshake
  WITH Clients <- {clientA, clientB}, Setups <- OneChannel,
       MaxAccepts <- 2, MaxTasks <- 1, Closers <- {}
EverySetup == INSTANCE Handshake
  WITH Clients <- {clientA}, Setups <- AllSetups,
       MaxAccepts <- 0, MaxTasks <- 1, Closers <- {}
EveryProcess == INSTANCE Handshake
  WITH Clients <- {clientA}, Setups <- SetupsOfProcesses,
       MaxAccepts <- 0, MaxTasks <- 1, Closers <- {}

AnyInit ==
  \/ scenario = "closing" /\ Init
  \/ scenario = "two clients" /\ TwoClients!Init
  \/ scenario = "every setup" /\ EverySetup!Init
  \/ scenario = "every process" /\ EveryProcess!Init

In(s) == scenario = s /\ UNCHANGED scenario

AnyNext ==
  \/ In("closing") /\ Next
  \/ In("two clients") /\ TwoClients!Next
  \/ In("every setup") /\ EverySetup!Next
  \/ In("every process") /\ EveryProcess!Next

AnySpec == AnyInit /\ [][AnyNext]_allVars

-----------------------------------------------------------------------------

(* NoLooseEnds: a registration is in the listener's book only while the    *)
(* pipe that made it waits for that connection, and the pipe that gets one *)
(* expects it; every accept is called back once and in order, also when    *)
(* the listener fails; after join nothing is enrolled with the context.    *)
NoLooseEnds ==
  CASE scenario = "closing" ->
         RegistrationsWanted /\ ConnectionsExpected /\ AcceptsInOrder /\ NothingEnrolledAfterJoin
    [] scenario = "two clients" ->
         /\ TwoClients!RegistrationsWanted /\ TwoClients!ConnectionsExpected
         /\ TwoClients!AcceptsInOrder
    [] scenario = "every setup" ->
         EverySetup!RegistrationsWanted /\ EverySetup!ConnectionsExpected
    [] scenario = "every process" ->
         EveryProcess!RegistrationsWanted /\ EveryProcess!ConnectionsExpected

(* ConnectionsMatched: each connection that a pipe of the server works     *)
(* with is the one that its own client opened for that purpose, and an     *)
(* established pipe has all connections of all the channels it picked,     *)
(* though those of all clients arrive at one listener in any order.        *)
ConnectionsMatched ==
  CASE scenario = "closing" -> RightConnections /\ ChannelsComplete
    [] scenario = "two clients" -> TwoClients!RightConnections /\ TwoClients!ChannelsComplete
    [] scenario = "every setup" -> EverySetup!RightConnections /\ EverySetup!ChannelsComplete
    [] scenario = "every process" -> EveryProcess!RightConnections /\ EveryProcess!ChannelsComplete

(* NeverHalfway: as long as nobody closes anything the handshake does not  *)
(* stop halfway: when nothing is left to happen both pipes are             *)
(* established, or a selection has thrown and ended its process (the       *)
(* counts of registrations at pipe_impl.cc:1252-1256 and 1299-1316).       *)
NeverHalfway ==
  CASE scenario = "closing" -> TRUE
    [] scenario = "two clients" -> TwoClients!HandshakeCompletes
    [] scenario = "every setup" -> EverySetup!HandshakeCompletes
    [] scenario = "every process" -> EveryProcess!HandshakeCompletes

(* SelectionsAgree: both ends of a pipe use for each pair of devices the   *)
(* same channel, the one of highest priority of those both have and that   *)
(* connect the pair; the client, which picks anew among what it is         *)
(* offered, throws only if the ends rank those channels differently        *)
(* (pipe_impl.cc:1146-1172), and either end only if NVML does not show it  *)
(* the GPU of a process of its machine (cuda_ipc/context_impl.cc:101),     *)
(* whatever p2p there is.  What they pick for two processes, transport     *)
(* and channels, works between them: canCommunicateWithRemote is symmetric *)
(* and true only where the system lets both ends do what they need to.     *)
SelectionsAgree ==
  CASE scenario = "closing" -> BestChannelsAgreed
    [] scenario = "two clients" -> TwoClients!BestChannelsAgreed
    [] scenario = "every setup" -> EverySetup!BestChannelsAgreed
    [] scenario = "every process" ->
         /\ EveryProcess!BestChannelsAgreed
         /\ client[clientA].state = "ESTABLISHED" =>
              \A name \in Range(client[clientA].channelForDevicePair) \cup {client[clientA].transport} :
                Works(setup.server, setup.client, name)
=============================================================================
