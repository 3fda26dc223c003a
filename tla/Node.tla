--------------------------------- MODULE Node ---------------------------------
(***************************************************************************)
(* The part of the IPFS node that the plugin only reads: connections and   *)
(* their streams, and what the peerstore knows of peers.  Each of Conns(), *)
(* Peers(), ConnsToPeer(), GetStreams() and the getters of the peerstore   *)
(* is one atomic read, and the node changes between any two of them.       *)
(*                                                                         *)
(* A reader of the node (Population, PeerSample) is judged by what was the *)
(* case while it read: who was connected all the time, and who at all.     *)
(***************************************************************************)
EXTENDS Naturals, FiniteSets, Functions

CONSTANTS Peer,
          Slot,       \* distinguishes the connections of a peer
          Version,    \* agent versions: what a peer says of itself, any string
          Protocol,
          Stream,     \* streams of a connection: [protocol, direction, ...]
          None,       \* no agent version is known
          MaxChanges  \* bound: changes of the node in a behaviour

ASSUME NodeAssumption ==
  /\ IsFiniteSet(Peer) /\ IsFiniteSet(Slot) /\ IsFiniteSet(Stream)
  /\ None \notin Version
  /\ MaxChanges \in Nat

Conn == Peer \X Slot
PeerOf(c) == c[1]

VARIABLES
  open,      \* the open connections
  streams,   \* per connection: its open streams
  known,     \* the peers in the peerstore
  agent,     \* per peer: its agent version in the peerstore, or None
  protocols, \* per peer: its protocols in the peerstore
  changes,   \* number of changes so far
  \* history, not in the code
  steady,    \* peers connected, with one agent version, since the reader began
  met,       \* peers connected at any time since then
  always,    \* per peer connected since then: the protocols it had all the time
  ever       \* per peer: the protocols it had at any time

nodeVars == <<open, streams, known, agent, protocols, changes, steady, met, always, ever>>

NodeTypeOK ==
  /\ open \subseteq Conn
  /\ streams \in [Conn -> SUBSET Stream]
  /\ known \subseteq Peer
  /\ agent \in [Peer -> Version \cup {None}]
  /\ protocols \in [Peer -> SUBSET Protocol]
  /\ changes \in 0..MaxChanges
  /\ steady \subseteq met /\ met \subseteq Peer
  /\ always \in [Peer -> SUBSET Protocol] /\ ever \in [Peer -> SUBSET Protocol]

ConnsToPeer(p) == {c \in open : PeerOf(c) = p}
Peers == {PeerOf(c) : c \in open}

NodeInit ==
  /\ open \in SUBSET Conn
  /\ known \in {Peers, Peer}
  /\ \E all \in BOOLEAN :
       streams = [c \in Conn |-> IF all /\ c \in open THEN Stream ELSE {}]
  /\ agent \in [Peer -> Version \cup {None}]
  /\ \A p \in Peer \ known : agent[p] = None
  /\ protocols = [p \in Peer |-> IF agent[p] = None THEN {} ELSE Protocol]
  /\ changes = 0
  /\ steady = {} /\ met = {}
  /\ always = [p \in Peer |-> {}] /\ ever = [p \in Peer |-> {}]

OpenConn(c) ==
  /\ c \notin open
  /\ open' = open \cup {c}
  /\ known' = known \cup {PeerOf(c)}
  /\ UNCHANGED <<streams, agent, protocols>>

CloseConn(c) ==
  /\ c \in open
  /\ open' = open \ {c}
  /\ streams' = [streams EXCEPT ![c] = {}]
  /\ UNCHANGED <<known, agent, protocols>>

OpenStream(c, s) ==
  /\ c \in open /\ s \notin streams[c]
  /\ streams' = [streams EXCEPT ![c] = @ \cup {s}]
  /\ UNCHANGED <<open, known, agent, protocols>>

\* The peerstore forgets a peer that is not connected.
Forget(p) ==
  /\ p \in known \ Peers
  /\ known' = known \ {p}
  /\ agent' = [agent EXCEPT ![p] = None]
  /\ protocols' = [protocols EXCEPT ![p] = {}]
  /\ UNCHANGED <<open, streams>>

\* The identify protocol, or a peer that pushes a new identity, writes what a peer
\* is and what it supports, one after the other; either may change alone.
Identify(p, v) ==
  /\ p \in Peers /\ v # agent[p]
  /\ agent' = [agent EXCEPT ![p] = v]
  /\ UNCHANGED <<open, streams, known, protocols>>

SetProtocols(p, supported) ==
  /\ p \in Peers /\ supported # protocols[p]
  /\ protocols' = [protocols EXCEPT ![p] = supported]
  /\ UNCHANGED <<open, streams, known, agent>>

NodeStep ==
  /\ changes < MaxChanges
  /\ changes' = changes + 1
  /\ \/ \E c \in Conn : OpenConn(c) \/ CloseConn(c) \/ \E s \in Stream : OpenStream(c, s)
     \/ \E p \in Peer : \/ Forget(p)
                       \/ \E v \in Version : Identify(p, v)
                       \/ \E supported \in SUBSET Protocol : SetProtocols(p, supported)
  /\ steady' = {p \in steady : p \in Peers' /\ agent'[p] = agent[p]}
  /\ met' = met \cup Peers'
  /\ always' = [p \in Peer |-> IF p \in Peers' THEN always[p] \cap protocols'[p] ELSE {}]
  /\ ever' = [p \in Peer |-> ever[p] \cup protocols'[p]]

\* A reader begins, at the next state.
Begins ==
  /\ steady' = Peers /\ met' = Peers
  /\ always' = [p \in Peer |-> IF p \in Peers THEN protocols[p] ELSE {}]
  /\ ever' = protocols

nodeState == <<open, streams, known, agent, protocols, changes>>
===============================================================================
