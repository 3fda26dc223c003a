----------------------------- MODULE MCPublisher -----------------------------
(* Finite instances of Publisher.  Callers and closers are interchangeable.   *)
EXTENDS Publisher, TLC

MCSymmetry == Permutations(Caller) \cup Permutations(Closer)
===============================================================================
