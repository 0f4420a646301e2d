----------------------------- MODULE Selection -----------------------------
(***************************************************************************)
(* How a pipe picks a transport and, for each pair of devices, a channel   *)
(* (selectTransport and selectChannels of core/pipe_impl.cc), out of what  *)
(* was registered with the context (core/context_impl.cc) and what the     *)
(* other end announced.                                                    *)
(*                                                                         *)
(* A priority map takes the names of the viable transports or channels to  *)
(* their priorities, all different (registerTransport and registerChannel  *)
(* refuse a priority already in use and skip contexts that are not         *)
(* viable).  A device descriptor is its device; what it can communicate    *)
(* with is given apart.                                                    *)
(***************************************************************************)
EXTENDS Integers, Sequences, TLC, FiniteSetsExt, SequencesExt

(* transportsByPriority_ and channelsByPriority_: highest priority first.  *)
Ordered(priorities) ==
  SetToSortSeq(DOMAIN priorities, LAMBDA x, y : priorities[x] > priorities[y])

(* The transport is the first one that the listener has an address for and *)
(* that the other end has and can be reached with; the code throws when    *)
(* there is none.                                                          *)
Viable(ordered, remoteTransports, addresses, canCommunicate) ==
  SelectSeq(ordered, LAMBDA name : /\ name \in addresses
                                   /\ name \in remoteTransports
                                   /\ name \in canCommunicate)

SelectTransport(ordered, remoteTransports, addresses, canCommunicate) ==
  Head(Viable(ordered, remoteTransports, addresses, canCommunicate))

NoneSelected == [channelForDevicePair |-> << >>, descriptorsMap |-> << >>]

(* The pairs of devices that channel "name" is the first to connect.       *)
NewPairs(result, name, localDevices, remoteDevices, canCommunicate) ==
  {pair \in localDevices \X remoteDevices : pair \in canCommunicate[name]}
    \ DOMAIN result.channelForDevicePair

(* Faulty variant: a later channel replaces the one a pair already has.    *)
SelectChannelsLast(ordered, local, remote, canCommunicate) ==
  FoldLeft(
    LAMBDA result, name :
      LET pairs == {pair \in local[name] \X remote[name] : pair \in canCommunicate[name]} IN
      IF name \notin DOMAIN remote \/ pairs = {} THEN result
      ELSE [channelForDevicePair |-> [pair \in pairs |-> name] @@ result.channelForDevicePair,
            descriptorsMap |-> (name :> local[name]) @@ result.descriptorsMap],
    NoneSelected, ordered)

(* local and remote take the names of channels to the devices that they    *)
(* have a descriptor for.                                                  *)
SelectChannels(ordered, local, remote, canCommunicate) ==
  FoldLeft(
    LAMBDA result, name :
      IF name \notin DOMAIN remote THEN result
      ELSE LET pairs == NewPairs(result, name, local[name], remote[name], canCommunicate) IN
           IF pairs = {} THEN result
           ELSE [channelForDevicePair |->
                   [pair \in pairs |-> name] @@ result.channelForDevicePair,
                 descriptorsMap |-> (name :> local[name]) @@ result.descriptorsMap],
    NoneSelected, ordered)

(* selectChannels asks canCommunicateWithRemote of every channel that both *)
(* have about every pair of their devices, those settled already included: *)
(* it throws if one of the calls does.                                     *)
SelectionThrows(local, remote, throws) ==
  \E name \in DOMAIN local \cap DOMAIN remote :
    (local[name] \X remote[name]) \cap throws[name] # {}

(* A map of channels, or a relation between devices, from the other end.   *)
Flip(pair) == << pair[2], pair[1] >>
FlipAll(pairs) == {Flip(pair) : pair \in pairs}

(* Client and server chose the same channel for each pair of devices, as   *)
(* the client verifies when it reads the answer.                           *)
SameSelection(mine, theirs) ==
  /\ Cardinality(DOMAIN mine) = Cardinality(DOMAIN theirs)
  /\ \A pair \in DOMAIN mine : /\ Flip(pair) \in DOMAIN theirs
                               /\ theirs[Flip(pair)] = mine[pair]
=============================================================================
