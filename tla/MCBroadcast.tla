----------------------------- MODULE MCBroadcast -----------------------------
(* Finite instances of Broadcast.  Workers and peers are interchangeable, and *)
(* so are senders of the same kind.                                           *)
EXTENDS Broadcast, TLC

CONSTANTS s1, s2, s3

MCHaveSender == {s1}
MCSymmetry == Permutations(Worker) \cup Permutations(Peer) \cup Permutations({s2, s3})
===============================================================================
