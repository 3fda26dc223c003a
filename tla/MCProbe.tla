------------------------------- MODULE MCProbe -------------------------------
(* Finite instances of DiscoveryProbe.  Peer p1 has a direct connection and, in *)
(* the larger instance, a transient one; p2 has a direct one.                   *)
EXTENDS DiscoveryProbe, TLC

CONSTANTS p1, p2, c1, c2, c3

MCRemotePeer == [c \in Conn |-> IF c = c3 THEN p2 ELSE p1]
MCTransient == {c2}

\* Senders and Shutdown callers are interchangeable.
MCSymmetry == Permutations(Sender) \cup Permutations(Closer)
==============================================================================
