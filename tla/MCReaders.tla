------------------------------ MODULE MCReaders -------------------------------
(* Finite instances of PeerSample, and with it of Population.  Peers are        *)
(* interchangeable, and so are the versions other than "others".                *)
EXTENDS PeerSample, TLC

MCStream == {[protocol |-> "bitswap", direction |-> d] : d \in {"inbound", "outbound"}}
MCSymmetry == Permutations(Peer) \cup Permutations(Version \ {Others})
===============================================================================
