------------------------------- MODULE MCTracer -------------------------------
(* Finite instances of Tracer.  Connections, messages and callers of Shutdown *)
(* are interchangeable.                                                       *)
EXTENDS Tracer, TLC

MCTopic == {"bitswap_messages", "conn_events"}
MCSymmetry == Permutations(Conn) \cup Permutations(Message) \cup Permutations(Closer)
===============================================================================
