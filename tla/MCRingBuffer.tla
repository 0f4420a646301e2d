---------------------------- MODULE MCRingBuffer ----------------------------
(* An instance of RingBuffer for TLC. *)
EXTENDS RingBuffer, TLC

CONSTANTS p1, p2, w, c

\* Two producers, as in the reactor of shm, and the three roles of the outbox
\* of ibv: producer, writer and acker.
Outbox == (p1 :> 2) @@ (p2 :> 2) @@ (w :> 1) @@ (c :> 0)

\* The producers are interchangeable.
Producers == Permutations({p1, p2})
=============================================================================
