------------------------------ MODULE PeerSample ------------------------------
(***************************************************************************)
(* One call of SamplePeerMetadata (metricplugin/metric_export.go): it      *)
(* copies the peers of the peerstore, reads the number of connections, and *)
(* then asks for one property after the other of one peer after the other, *)
(* while the node changes.                                                 *)
(*                                                                         *)
(* The rounds of Population and these calls only read the node and do not  *)
(* affect each other: a behaviour has the ones or one of the others.       *)
(***************************************************************************)
EXTENDS Population

VARIABLES
  call,          \* "none", "called", "peers", "conns", "looking", "returned", or the
                 \* property of the peer to read next: "addrs", "version"
  onlyConnected, \* the argument
  peers,         \* peers of the copy still to look at
  numConns,
  pmd,           \* the PeerMetadata being built
  metadata,      \* those appended
  \* history, not in the code
  stored,        \* the peers in the peerstore since the call began
  seen           \* the connections open at any time since then

callVars == <<call, onlyConnected, peers, numConns, pmd, metadata>>
sampleVars  == <<callVars, stored, seen>>
readersVars == <<vars, sampleVars>>

PeerMetadata ==
  [peer : Peer, connected : BOOLEAN, addrs : SUBSET Conn, version : Version \cup {None}]

NoEntry == [peer |-> None, connected |-> FALSE, addrs |-> {}, version |-> None]

SampleTypeOK ==
  /\ TypeOK
  /\ call \in {"none", "called", "peers", "conns", "looking", "addrs", "version", "returned"}
  /\ onlyConnected \in BOOLEAN
  /\ peers \subseteq Peer
  /\ numConns \in 0..Cardinality(Conn)
  /\ pmd \in PeerMetadata \cup {NoEntry}
  /\ metadata \subseteq PeerMetadata
  /\ stored \subseteq known /\ seen \subseteq Conn

SampleInit ==
  /\ Init
  /\ call \in {"none", "called"}
  /\ call = "called" => \A c \in Conn : streams[c] = {} \* it asks for no stream
  /\ onlyConnected \in BOOLEAN /\ (call = "none" => ~onlyConnected)
  /\ peers = {} /\ numConns = 0
  /\ pmd = NoEntry /\ metadata = {}
  /\ stored = {} /\ seen = {}

-------------------------------------------------------------------------------
(* Faulty variants of definitions below, none part of ReadersSpec: with one in place *)
(* of the definition it is named after, TLC reports a property as violated.   *)

Skips_Connected(p) == onlyConnected /\ p \in Peers \* "==" for "!="
HasAddresses_Always == TRUE              \* without the look at Connectedness
NumConns_Known == Cardinality(known)

-------------------------------------------------------------------------------
Begin ==
  /\ call = "called"
  /\ call' = "peers"
  /\ Begins /\ stored' = known /\ seen' = open
  /\ UNCHANGED <<nodeState, onlyConnected, peers, numConns, pmd, metadata>>

CopyPeers ==
  /\ call = "peers"
  /\ call' = "conns"
  /\ peers' = known
  /\ UNCHANGED <<nodeVars, onlyConnected, numConns, pmd, metadata, stored, seen>>

NumConns == Cardinality(open)

GetNumConns ==
  /\ call = "conns"
  /\ call' = "looking"
  /\ numConns' = NumConns
  /\ UNCHANGED <<nodeVars, onlyConnected, peers, pmd, metadata, stored, seen>>

Skips(p) == onlyConnected /\ p \notin Peers
Remaining(p) == peers \ {p}

\* Connectedness(p), and skip a peer that is not connected if asked to.
LookAt(p) ==
  /\ call = "looking" /\ p \in peers
  /\ peers' = Remaining(p)
  /\ IF Skips(p)
     THEN UNCHANGED <<call, pmd>>
     ELSE /\ pmd' = [NoEntry EXCEPT !.peer = p, !.connected = p \in Peers]
          /\ call' = "addrs"
  /\ UNCHANGED <<nodeVars, onlyConnected, numConns, metadata, stored, seen>>

HasAddresses == pmd.connected
Addresses(p) == ConnsToPeer(p)

GetAddresses ==
  /\ call = "addrs"
  /\ call' = "version"
  /\ pmd' = IF HasAddresses THEN [pmd EXCEPT !.addrs = Addresses(pmd.peer)] ELSE pmd
  /\ UNCHANGED <<nodeVars, onlyConnected, peers, numConns, metadata, stored, seen>>

\* The other properties are read like this one; None is reported as "N/A".
GetVersion ==
  /\ call = "version"
  /\ call' = "looking"
  /\ metadata' = metadata \cup {[pmd EXCEPT !.version = agent[pmd.peer]]}
  /\ pmd' = NoEntry
  /\ UNCHANGED <<nodeVars, onlyConnected, peers, numConns, stored, seen>>

Return ==
  /\ call = "looking" /\ peers = {}
  /\ call' = "returned"
  /\ UNCHANGED <<nodeVars, onlyConnected, peers, numConns, pmd, metadata, stored, seen>>

-------------------------------------------------------------------------------
\* The node changes; what it does before the call is in SampleInit.
Environment ==
  /\ call \notin {"none", "called", "returned"}
  /\ NodeStep /\ streams' = streams
  /\ stored' = stored \cap known'
  /\ seen' = seen \cup open'
  /\ UNCHANGED callVars

SampleNext ==
  \/ Environment
  \/ Begin \/ CopyPeers \/ GetNumConns
  \/ \E p \in peers : LookAt(p)
  \/ GetAddresses \/ GetVersion \/ Return

ReadersNext ==
  \/ SampleNext /\ UNCHANGED loopVars
  \/ call = "none" /\ Next /\ UNCHANGED sampleVars

ReadersSpec == SampleInit /\ [][ReadersNext]_readersVars

-------------------------------------------------------------------------------
(* Safety *)

\* "It returns information about all peers of the peerstore", or of those that
\* are connected: nobody is left out who was stored, or connected, during the
\* whole call, nobody is listed twice, and a filtered sample has nobody who was
\* not connected at some time of the call.
SampleComplete ==
  call = "returned" =>
    LET listed == {m.peer : m \in metadata} IN
    /\ Cardinality(metadata) = Cardinality(listed)
    /\ onlyConnected => steady \subseteq listed /\ listed \subseteq met
    /\ ~onlyConnected => stored \subseteq listed

\* "For peers that are not currently connected, the ConnectedMultiaddrs field
\* will be nil": what an entry says of one peer agrees although it was read in
\* several steps, and every address is of a connection to that very peer that
\* was open during the call.
EntriesConsistent ==
  \A m \in metadata :
    /\ m.addrs # {} => m.connected
    /\ \A c \in m.addrs : PeerOf(c) = m.peer /\ c \in seen
    /\ m.connected => m.peer \in met
    /\ m.peer \in steady => m.version = agent[m.peer]

\* "the number of currently established connections" lies between those open
\* all the time, one per steady peer at least, and those open at any time.
NumConnsPlausible ==
  call = "returned" => numConns \in Cardinality(steady)..Cardinality(seen)

\* All three: what a call returns is right although it was read in many steps.
SampleTruthful == SampleComplete /\ EntriesConsistent /\ NumConnsPlausible

\* The type invariant, and that no round leaves streams of an earlier one.
ReadersInv == SampleTypeOK /\ NoStaleStreams
===============================================================================
