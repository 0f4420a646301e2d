---------------------------- MODULE Descriptors ----------------------------
(***************************************************************************)
(* Which transports and channels a process can use and with whom: what the *)
(* create functions of their contexts find out about the process and its   *)
(* machine, the descriptors they derive from it, and                       *)
(* canCommunicateWithRemote, which compares two of them.                   *)
(*                                                                         *)
(* A process p is a record with the fields                                 *)
(*   boot                   the boot ID of its machine                     *)
(*   pid, pidNs, netNs, userNs   its PID and the IDs of its namespaces     *)
(*   uids, gids             its real, effective and saved-set IDs          *)
(*   caps, dumpable         its permitted capabilities, PR_GET_DUMPABLE    *)
(*   activeLsms, yama       the security modules of its machine, and the   *)
(*                          scope of YAMA, Unknown without that module     *)
(*   securityfs             it can list the security modules               *)
(*   readvBlocked           process_vm_readv is filtered or unsupported    *)
(*   shmAllowed             a shared memory segment can be allocated       *)
(*   cuda, nvml, ibv        the library can be loaded                      *)
(*   gpus                   the GPUs it sees, one at most                  *)
(*   nvmlGpus               the GPUs that NVML shows it                    *)
(*   unifiedAddressing, computeModeDefault, enoughBar1    of its GPU       *)
(*   p2p                    the pairs of GPUs of its machine that can read *)
(*                          each other's memory                            *)
(*   nics, peerMemory       the InfiniBand NICs, and the kernel module     *)
(* The ID of a namespace that cannot be read is Unknown.                   *)
(***************************************************************************)
EXTENDS Naturals, Sequences, FiniteSets, TLC

CONSTANT Unknown

(***************************************************************************)
(* Transports                                                              *)
(***************************************************************************)

ShmIsViable(p) == p.netNs # Unknown /\ p.shmAllowed

IbvIsViable(p) == p.ibv /\ p.nics # {}

TransportIsViable(p, name) ==
  /\ name = "shm" => ShmIsViable(p)
  /\ name = "ibv" => IbvIsViable(p)

ShmDomainDescriptor(p) == << "shm", p.boot, p.netNs >>

(* The descriptors of ibv and uv, which do not depend on the process.      *)
AnyDomainDescriptor(name) == << name, "*" >>

DomainDescriptor(p, name) ==
  IF name = "shm" THEN ShmDomainDescriptor(p) ELSE AnyDomainDescriptor(name)

TransportCanCommunicateWithRemote(p, q, name) ==
  DomainDescriptor(p, name) = DomainDescriptor(q, name)

(***************************************************************************)
(* Channels between CPUs.  The lanes of mpt are connections of shm.        *)
(***************************************************************************)

XthIsViable(p) == p.pidNs # Unknown

ProcessDescriptor(p) == << p.boot, p.pidNs, p.pid >>

(* The security modules that create of cma goes through: those that are    *)
(* active, or the usual ones when they cannot be listed.                   *)
Lsms(p) == IF p.securityfs THEN p.activeLsms ELSE {"capability", "yama"}

(* create gives no context if the scope of YAMA forbids it, nor if it      *)
(* cannot be read of a YAMA known to be there, when it throws.             *)
CmaIsViable(p) ==
  /\ p.pidNs # Unknown /\ p.userNs # Unknown
  /\ Cardinality(p.uids) = 1 /\ Cardinality(p.gids) = 1
  /\ p.dumpable
  /\ "yama" \in Lsms(p) =>
       p.yama \in {"classic", "restricted"} \/ (p.yama = Unknown /\ ~p.securityfs)
  /\ ~p.readvBlocked

(* What create of cma changes in the process: under the restricted scope   *)
(* of YAMA any process is allowed to trace it.                             *)
TracedByAny(p) == "yama" \in Lsms(p) /\ p.yama = "restricted"

(* Faulty variant: the capabilities are left out.                          *)
CmaDescriptorNoCapabilities(p) ==
  << p.boot, p.pidNs, p.userNs, p.uids, p.gids, {} >>

CmaDescriptor(p) ==
  << p.boot, p.pidNs, p.userNs, p.uids, p.gids,
     IF "capability" \in Lsms(p) THEN p.caps ELSE {} >>

MptIsViable(p) == TransportIsViable(p, "shm")

MptDescriptor(p) == << 1, DomainDescriptor(p, "shm") >>

(***************************************************************************)
(* Channels between GPUs.  cuda_basic is over basic.                       *)
(***************************************************************************)

(* getCudaDevices                                                          *)
CudaDevices(p) == IF p.gpus = {} THEN {} ELSE {"cuda"}

CudaXthIsViable(p) == p.cuda /\ p.pidNs # Unknown /\ p.gpus # {} /\ p.unifiedAddressing

CudaIpcIsViable(p) ==
  /\ p.cuda /\ p.nvml /\ p.pidNs # Unknown
  /\ p.gpus # {} => p.unifiedAddressing /\ p.computeModeDefault

GpuDescriptor(p) == [boot |-> p.boot, pid |-> p.pid, uuids |-> p.gpus]

(* globalIdxForDevice throws for a GPU that NVML does not show the process *)
(* (in a container, say), which canCommunicateWithRemote asks of processes *)
(* on the same machine.                                                    *)
CudaIpcThrows(p, local, remote) ==
  /\ local.boot = remote.boot
  /\ local.pid # remote.pid
  /\ ~(local.uuids \cup remote.uuids \subseteq p.nvmlGpus)

(* p2pSupport_ of two GPUs                                                 *)
P2pSupport(p, local, remote) == local = remote \/ local \X remote \subseteq p.p2p

(* Faulty variant: only one direction is looked up.                        *)
CudaIpcCanReadRemote(p, local, remote) ==
  /\ local.boot = remote.boot
  /\ local.pid # remote.pid
  /\ P2pSupport(p, local.uuids, remote.uuids)

CudaIpcCanCommunicateWithRemote(p, local, remote) ==
  /\ local.boot = remote.boot
  /\ local.pid # remote.pid
  /\ P2pSupport(p, local.uuids, remote.uuids) /\ P2pSupport(p, remote.uuids, local.uuids)

CudaBasicDescriptor(device) == << device, "any" >>

CudaBasicCanCommunicateWithRemote(local, remote) ==
  /\ << local[1], remote[1] >> # << "cpu", "cpu" >>
  /\ local[2] = remote[2]

CudaGdrIsViable(p) ==
  /\ p.cuda /\ p.ibv /\ p.peerMemory /\ p.nics # {}
  /\ p.gpus # {} => p.enoughBar1

(***************************************************************************)
(* All channels                                                            *)
(***************************************************************************)

IsViable(p, name) ==
  CASE name = "basic" -> TRUE
    [] name = "xth" -> XthIsViable(p)
    [] name = "cma" -> CmaIsViable(p)
    [] name = "mpt" -> MptIsViable(p)
    [] name = "cuda_basic" -> p.cuda
    [] name = "cuda_xth" -> CudaXthIsViable(p)
    [] name = "cuda_ipc" -> CudaIpcIsViable(p)
    [] name = "cuda_gdr" -> CudaGdrIsViable(p)

(* The devices a channel has a descriptor for, and the descriptor of one.  *)
DevicesOf(p, name) ==
  (IF name \in {"basic", "xth", "cma", "mpt", "cuda_basic"} THEN {"cpu"} ELSE {})
    \cup (IF name \in {"cuda_basic", "cuda_xth", "cuda_ipc", "cuda_gdr"} THEN CudaDevices(p) ELSE {})

DeviceDescriptor(p, name, device) ==
  CASE name \in {"xth", "cuda_xth"} -> ProcessDescriptor(p)
    [] name = "cma" -> CmaDescriptor(p)
    [] name = "mpt" -> MptDescriptor(p)
    [] name = "cuda_basic" -> CudaBasicDescriptor(device)
    [] name = "cuda_ipc" -> GpuDescriptor(p)
    [] name \in {"basic", "cuda_gdr"} -> << "any" >>

CanCommunicateWithRemote(p, name, local, remote) ==
  CASE name = "cuda_ipc" -> CudaIpcCanCommunicateWithRemote(p, local, remote)
    [] name = "cuda_basic" -> CudaBasicCanCommunicateWithRemote(local, remote)
    [] OTHER -> local = remote

(* The pairs of devices that process p finds channel "name" to connect,    *)
(* its own first, when it has read the descriptors of process q.           *)
Reach(p, q, name) ==
  {pair \in DevicesOf(p, name) \X DevicesOf(q, name) :
     CanCommunicateWithRemote(p, name, DeviceDescriptor(p, name, pair[1]),
                              DeviceDescriptor(q, name, pair[2]))}

(* The pairs of devices for which that call throws.                        *)
Throws(p, q, name) ==
  {pair \in DevicesOf(p, name) \X DevicesOf(q, name) :
     name = "cuda_ipc" /\ CudaIpcThrows(p, GpuDescriptor(p), GpuDescriptor(q))}

(***************************************************************************)
(* What the system lets processes do with each other                       *)
(***************************************************************************)

(* process_vm_readv of p on q, see ptrace(2).                              *)
CanReadMemory(p, q) ==
  /\ p.boot = q.boot /\ p.pidNs = q.pidNs /\ p.userNs = q.userNs
  /\ p.uids = q.uids /\ p.gids = q.gids /\ Cardinality(q.uids) = 1 /\ Cardinality(q.gids) = 1
  /\ q.dumpable
  /\ q.caps \subseteq p.caps
  /\ "yama" \in p.activeLsms => p.yama = "classic" \/ (p.yama = "restricted" /\ TracedByAny(q))
  /\ ~p.readvBlocked

SameProcess(p, q) == ProcessDescriptor(p) = ProcessDescriptor(q)

(* What a transport or channel needs of two processes.                     *)
Works(p, q, name) ==
  CASE name = "cma" -> CanReadMemory(p, q) /\ CanReadMemory(q, p)
    [] name \in {"xth", "cuda_xth"} -> SameProcess(p, q)
    [] name = "cuda_ipc" -> p.boot = q.boot /\ ~SameProcess(p, q)
    [] name \in {"shm", "mpt"} -> p.boot = q.boot /\ p.netNs = q.netNs
    [] name = "cuda_gdr" -> p.nics # {} /\ q.nics # {}
    [] OTHER -> TRUE
=============================================================================
