---------------------------- MODULE MCChannels ----------------------------
(***************************************************************************)
(* The channels, for TLC.  A behaviour starts by picking one of Scenarios, *)
(* that is a channel with what its users send and receive, which end may   *)
(* close and how many slots, lanes or NICs there are; from then on only    *)
(* that channel's actions are taken.                                       *)
(***************************************************************************)
EXTENDS Naturals, Sequences, TLC

CONSTANTS
  NoMessage,
  Scenarios,    \* the channels to look at
  MptLengths,   \* the buffers sent over the mpt channel, from its client
  MptClosers,   \* the ends of that channel that may be closed
  GdrBuffers    \* the buffers sent over the cuda_gdr channel with one NIC

VARIABLES scenario, chan

vars == <<scenario, chan>>

Ends == {"a", "b"}

(* What the users of the two ends send and receive: one end sends.         *)
OneWay(s, r, from, to) ==
  s :> [send |-> from, recv |-> <<>>] @@ r :> [send |-> <<>>, recv |-> to]
FromA(lengths) == OneWay("a", "b", lengths, lengths)

EmptyInTheMiddle == FromA(<<1, 0, 1>>)

Cpu(n) == [chunks |-> n, cpu |-> TRUE]
Gpu(n) == [chunks |-> n, cpu |-> FALSE]
On(chunks, nic) == [chunks |-> chunks, nic |-> nic]

(* Values of MptLengths and GdrBuffers.                                    *)
LanesUnequal == <<3, 1>>
LanesWithEmpty == <<1, 0, 1>>
TwoChunksThenOne == <<On(2, 0), On(1, 0)>>
EmptyBetween == <<On(1, 0), On(0, 0), On(1, 0)>>

Basic == INSTANCE BasicChannel
  WITH Lengths <- EmptyInTheMiddle, CanFail <- TRUE, Closers <- {"a", "b"}
Xth == INSTANCE XthChannel
  WITH Lengths <- EmptyInTheMiddle, CanFail <- TRUE, Closers <- {"a"}
Cma == INSTANCE CmaChannel
  WITH Lengths <- EmptyInTheMiddle, CanFail <- TRUE, Closers <- {"b"}
CudaXth == INSTANCE CudaXthChannel
  WITH Lengths <- EmptyInTheMiddle, CanFail <- FALSE, Closers <- {"a"}
Mpt == INSTANCE MptChannel
  WITH Client <- "a", NumLanes <- 2, Lengths <- FromA(MptLengths),
       CanFail <- FALSE, Closers <- MptClosers
MptFromServer == INSTANCE MptChannel
  WITH Client <- "a", NumLanes <- 2, Lengths <- OneWay("b", "a", <<3>>, <<3>>),
       CanFail <- FALSE, Closers <- {"b"}
CudaIpc == INSTANCE CudaIpcChannel
  WITH NumSlots <- 1, Lengths <- FromA(<<0, 2, 1>>), CanFail <- FALSE, Closers <- {"a"}
CudaBasic == INSTANCE CudaBasicChannel
  WITH NumSlots <- 1, CpuInOrder <- FALSE, Lengths <- FromA(<<Gpu(2)>>),
       CanFail <- TRUE, Closers <- {"a", "b"}
CudaBasicInOrder == INSTANCE CudaBasicChannel
  WITH NumSlots <- 1, CpuInOrder <- TRUE,
       Lengths <- OneWay("a", "b", <<Gpu(1), Cpu(2)>>, <<Cpu(1), Cpu(2)>>),
       CanFail <- FALSE, Closers <- {"a"}
CudaGdr == INSTANCE CudaGdrChannel
  WITH NumSlots <- 1, Nics <- {0}, Lengths <- FromA(GdrBuffers),
       CanFail <- FALSE, Closers <- {"a"}
CudaGdrNics == INSTANCE CudaGdrChannel
  WITH NumSlots <- 2, Nics <- {0, 1},
       Lengths <- OneWay("a", "b", <<On(1, 0), On(1, 1), On(1, 0)>>,
                                   <<On(1, 1), On(1, 0), On(1, 1)>>),
       CanFail <- FALSE, Closers <- {}

Init ==
  /\ scenario \in Scenarios
  /\ CASE scenario = "basic" -> Basic!Init
       [] scenario = "xth" -> Xth!Init
       [] scenario = "cma" -> Cma!Init
       [] scenario = "cuda_xth" -> CudaXth!Init
       [] scenario = "mpt" -> Mpt!Init
       [] scenario = "mpt, from the server" -> MptFromServer!Init
       [] scenario = "cuda_ipc" -> CudaIpc!Init
       [] scenario = "cuda_basic" -> CudaBasic!Init
       [] scenario = "cuda_basic, CPU channel in order" -> CudaBasicInOrder!Init
       [] scenario = "cuda_gdr" -> CudaGdr!Init
       [] scenario = "cuda_gdr, two NICs" -> CudaGdrNics!Init

In(s) == scenario = s /\ UNCHANGED scenario

Next ==
  \/ In("basic") /\ Basic!Next
  \/ In("xth") /\ Xth!Next
  \/ In("cma") /\ Cma!Next
  \/ In("cuda_xth") /\ CudaXth!Next
  \/ In("mpt") /\ Mpt!Next
  \/ In("mpt, from the server") /\ MptFromServer!Next
  \/ In("cuda_ipc") /\ CudaIpc!Next
  \/ In("cuda_basic") /\ CudaBasic!Next
  \/ In("cuda_basic, CPU channel in order") /\ CudaBasicInOrder!Next
  \/ In("cuda_gdr") /\ CudaGdr!Next
  \/ In("cuda_gdr, two NICs") /\ CudaGdrNics!Next

Spec == Init /\ [][Next]_vars

-----------------------------------------------------------------------------

(* NoDanglingIterator: a pending callback of a channel that captured an    *)
(* opIter finds its operation in the deque and not FINISHED, so that the   *)
(* pointer in the Iter (common/state_machine.h) is not into memory that    *)
(* pop_front has freed.                                                    *)
NoDanglingIterator ==
  CASE scenario = "basic" -> Basic!NoDanglingIterator
    [] scenario = "xth" -> Xth!NoDanglingIterator
    [] scenario = "cma" -> Cma!NoDanglingIterator
    [] scenario = "cuda_xth" -> CudaXth!NoDanglingIterator
    [] scenario = "mpt" -> Mpt!NoDanglingIterator
    [] scenario = "mpt, from the server" -> MptFromServer!NoDanglingIterator
    [] scenario = "cuda_ipc" -> CudaIpc!NoDanglingIterator
    [] scenario = "cuda_basic" -> CudaBasic!NoDanglingIterator
    [] scenario = "cuda_basic, CPU channel in order" -> CudaBasicInOrder!NoDanglingIterator
    [] scenario = "cuda_gdr" -> CudaGdr!NoDanglingIterator
    [] scenario = "cuda_gdr, two NICs" -> CudaGdrNics!NoDanglingIterator

(* AllCalledBack: once an end of a channel is in error and nothing is left *)
(* that could run there, handleErrorImpl and the callbacks it provoked     *)
(* have finished every operation: each callback of the user has been       *)
(* called, and not twice.                                                  *)
AllCalledBack ==
  CASE scenario = "basic" -> Basic!AllCalledBack
    [] scenario = "xth" -> Xth!AllCalledBack
    [] scenario = "cma" -> Cma!AllCalledBack
    [] scenario = "cuda_xth" -> CudaXth!AllCalledBack
    [] scenario = "mpt" -> Mpt!AllCalledBack
    [] scenario = "mpt, from the server" -> MptFromServer!AllCalledBack
    [] scenario = "cuda_ipc" -> CudaIpc!AllCalledBack
    [] scenario = "cuda_basic" -> CudaBasic!AllCalledBack
    [] scenario = "cuda_basic, CPU channel in order" -> CudaBasicInOrder!AllCalledBack
    [] scenario = "cuda_gdr" -> CudaGdr!AllCalledBack
    [] scenario = "cuda_gdr, two NICs" -> CudaGdrNics!AllCalledBack

(* NoneStuck: when no end is in error and nothing can run any more, a send *)
(* and a recv that match have both called back: no transition of a state   *)
(* machine waits for one that waits for it, and no slot, staging buffer,   *)
(* lane or request it waits for is lost.                                   *)
NoneStuck ==
  CASE scenario = "basic" -> Basic!NoneStuck
    [] scenario = "xth" -> Xth!NoneStuck
    [] scenario = "cma" -> Cma!NoneStuck
    [] scenario = "cuda_xth" -> CudaXth!NoneStuck
    [] scenario = "mpt" -> Mpt!NoneStuck
    [] scenario = "mpt, from the server" -> MptFromServer!NoneStuck
    [] scenario = "cuda_ipc" -> CudaIpc!NoneStuck
    [] scenario = "cuda_basic" -> CudaBasic!NoneStuck
    [] scenario = "cuda_basic, CPU channel in order" -> CudaBasicInOrder!NoneStuck
    [] scenario = "cuda_gdr" -> CudaGdr!NoneStuck
    [] scenario = "cuda_gdr, two NICs" -> CudaGdrNics!NoneStuck

(* ReceivedIntact: what a recv has received is what the send it matches    *)
(* sent: the whole buffer for basic, xth and cma; every byte, whatever the *)
(* order of the lanes, for mpt; the bytes between the kernels before the   *)
(* send and those after its callback for cuda_xth; the chunk the staging   *)
(* slot or buffer held for cuda_ipc and cuda_basic; the same chunk of the  *)
(* same operation, whatever the NICs, for cuda_gdr.                        *)
ReceivedIntact ==
  CASE scenario = "basic" -> Basic!ReceivedIntact
    [] scenario = "xth" -> Xth!ReceivedIntact
    [] scenario = "cma" -> Cma!ReceivedIntact
    [] scenario = "cuda_xth" -> CudaXth!CopiedInStreamOrder
    [] scenario = "mpt" -> Mpt!ChunksAssembled
    [] scenario = "mpt, from the server" -> MptFromServer!ChunksAssembled
    [] scenario = "cuda_ipc" -> CudaIpc!SlotsKept
    [] scenario = "cuda_basic" -> CudaBasic!StagedIntact
    [] scenario = "cuda_basic, CPU channel in order" -> CudaBasicInOrder!StagedIntact
    [] scenario = "cuda_gdr" -> CudaGdr!TransfersMatch
    [] scenario = "cuda_gdr, two NICs" -> CudaGdrNics!TransfersMatch

(* SentMeansTaken: a send of xth or cma reports success only when the      *)
(* other end's thread has copied the buffer, one of cuda_xth only when the *)
(* copy and the wait for it are on the streams; and a send or a recv of a  *)
(* CPU buffer of cuda_basic calls back, with success or with an error,     *)
(* only when the CPU channel is done with every chunk, if that channel     *)
(* calls back in order: the user may reuse the memory.                     *)
SentMeansTaken ==
  CASE scenario = "xth" -> Xth!SentMeansCopied
    [] scenario = "cma" -> Cma!SentMeansCopied
    [] scenario = "cuda_xth" -> CudaXth!SentMeansQueued
    [] scenario = "cuda_basic, CPU channel in order" -> CudaBasicInOrder!ChunksDoneBeforeCallback
    [] OTHER -> TRUE

(* ResourcesKept: no lane of mpt is lost between its context and the       *)
(* channel; each slot of cuda_ipc is available, held by one operation or   *)
(* on its way to one; cuda_gdr lets requests wait only when all slots are  *)
(* taken, and clears its queue pairs once, when no NIC holds a request on  *)
(* them any more, and always after an error.                               *)
ResourcesKept ==
  CASE scenario = "mpt" -> Mpt!LanesWhole
    [] scenario = "mpt, from the server" -> MptFromServer!LanesWhole
    [] scenario = "cuda_ipc" -> CudaIpc!SlotsAccounted
    [] scenario = "cuda_gdr" ->
         CudaGdr!CleanedUpOnce /\ CudaGdr!CleanedUp /\ CudaGdr!WaitingMeansFull
    [] OTHER -> TRUE
=============================================================================
