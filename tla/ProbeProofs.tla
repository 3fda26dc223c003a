----------------------------- MODULE ProbeProofs -----------------------------
(***************************************************************************)
(* Proofs about DiscoveryProbe, for any sets of peers, connections and     *)
(* senders, any number of Shutdown callers and any MaxConnectors.          *)
(***************************************************************************)
EXTENDS DiscoveryProbe, SumProofs, FiniteSetTheorems, TLAPS

\* A tick adds a natural number of goroutines: there are finitely many peers.
LEMMA MissingSenderCount == TypeOK => Cardinality(MissingSender) \in Nat
<1> SUFFICES ASSUME TypeOK PROVE Cardinality(MissingSender) \in Nat
  OBVIOUS
<1>1. MissingSender \subseteq Peer
  BY DEF MissingSender, TypeOK
<1>2. IsFiniteSet(MissingSender)
  BY <1>1, ProbeAssumption, FS_Subset
<1> QED
  BY <1>2, FS_CardinalityType

-------------------------------------------------------------------------------
(* Type correctness *)

\* The initial states are of their types.
LEMMA InitType == Init => TypeOK
<1> SUFFICES ASSUME Init PROVE TypeOK
  OBVIOUS
<1>1. /\ connections \in [Peer -> SUBSET Conn]
      /\ sender \in [Peer -> Sender \cup {NoSender}]
      /\ held \in [Sender -> Peer \cup {NoPeer}]
  BY DEF Init
<1>2. sleeping \in [Peer -> Nat] /\ dialing \in [Peer -> Nat] /\ wg \in Int
  BY DEF Init
<1>3. shutdown \in [Closer -> {"idle", "waiting", "returned"}]
  BY DEF Init
<1> QED
  BY <1>1, <1>2, <1>3 DEF Init, TypeOK

\* Every step keeps the types.
LEMMA NextType == TypeOK /\ [Next]_vars => TypeOK'
<1> SUFFICES ASSUME TypeOK, [Next]_vars PROVE TypeOK'
  OBVIOUS
<1> USE ProbeAssumption
        DEF TypeOK, swarmVars, probeVars, tableVars, connectorVars, lifetimeVars
<1>1. ASSUME NEW c \in Conn, Swarm(c) PROVE TypeOK'
  BY <1>1 DEF Swarm, OpenConn, CloseConn, NotifyNobody
<1>2. CASE Register
  BY <1>2 DEF Register
<1>3. ASSUME NEW c \in Conn, ConnectedTrack(c) PROVE TypeOK'
  BY <1>3 DEF ConnectedTrack
<1>4. ASSUME NEW c \in Conn, ConnectedSpawn(c) PROVE TypeOK'
  BY <1>4 DEF ConnectedSpawn, Unlocked, Accounted
<1>5. ASSUME NEW c \in Conn, Disconnected(c) PROVE TypeOK'
  BY <1>5 DEF Disconnected, Forgotten, Closed
<1>6. ASSUME NEW p \in Peer,
             ConnectorGivesUp(p) \/ ConnectorDials(p) \/ DialFails(p)
      PROVE TypeOK'
  <2>1. CASE ConnectorGivesUp(p)
    BY <2>1 DEF ConnectorGivesUp, AfterDone
  <2>2. CASE ConnectorDials(p)
    BY <2>2 DEF ConnectorDials
  <2>3. CASE DialFails(p)
    BY <2>3 DEF DialFails, AfterDone
  <2> QED
    BY <1>6, <2>1, <2>2, <2>3
<1>7. ASSUME NEW p \in Peer, NEW s \in Sender, DialSucceeds(p, s)
      PROVE TypeOK'
  BY <1>7 DEF DialSucceeds
<1>8. ASSUME NEW s \in Sender, ConnectorEnd(s) PROVE TypeOK'
  <2>1. CASE ConnectorAttaches(s)
    BY <2>1 DEF ConnectorAttaches, AfterDone
  <2>2. CASE ConnectorDiscards(s)
    BY <2>2 DEF ConnectorDiscards, AfterDone, Closed
  <2> QED
    BY <1>8, <2>1, <2>2 DEF ConnectorEnd
<1>9. CASE ConnectionLoopTick
  BY <1>9, MissingSenderCount DEF ConnectionLoopTick
<1>10. ASSUME NEW l \in {"connection", "stat"}, LoopExits(l) PROVE TypeOK'
  BY <1>10 DEF LoopExits
<1>11. ASSUME NEW k \in Closer, ShutdownCloses(k) \/ ShutdownReturns(k)
       PROVE TypeOK'
  BY <1>11 DEF ShutdownCloses, ShutdownReturns
<1>12. CASE UNCHANGED vars
  BY <1>12 DEF vars
<1> QED
  BY <1>1, <1>2, <1>3, <1>4, <1>5, <1>6, <1>7, <1>8, <1>9, <1>10, <1>11, <1>12
     DEF Next, Handlers, Connector

\* Every variable of the probe keeps its type.
THEOREM TypeCorrect == Spec => []TypeOK
<1>1. QED
  BY InitType, NextType, PTL DEF Spec

-------------------------------------------------------------------------------
(* The maps of connectionManager.  Only Connected and Disconnected write      *)
(* them, so all other actions preserve what relates them and nothing else.    *)

\* Only the two notifications of the network change the table's connections.
LEMMA TableUntouched ==
  ASSUME [Next]_vars,
         \A c \in Conn : ~ConnectedTrack(c) /\ ~Disconnected(c)
  PROVE  UNCHANGED <<allConnections, tracked, connections>>
<1> USE DEF swarmVars, probeVars, tableVars, connectorVars, lifetimeVars
<1>1. ASSUME NEW c \in Conn, Swarm(c) \/ ConnectedSpawn(c)
      PROVE UNCHANGED <<allConnections, tracked, connections>>
  BY <1>1 DEF Swarm, OpenConn, CloseConn, NotifyNobody, ConnectedSpawn
<1>2. CASE Register
  BY <1>2 DEF Register
<1>3. ASSUME NEW p \in Peer, Connector(p)
      PROVE UNCHANGED <<allConnections, tracked, connections>>
  BY <1>3 DEF Connector, ConnectorGivesUp, ConnectorDials, DialFails, DialSucceeds
<1>4. ASSUME NEW s \in Sender, ConnectorEnd(s)
      PROVE UNCHANGED <<allConnections, tracked, connections>>
  BY <1>4 DEF ConnectorEnd, ConnectorAttaches, ConnectorDiscards
<1>5. CASE ConnectionLoopTick
  BY <1>5 DEF ConnectionLoopTick
<1>6. ASSUME NEW l \in {"connection", "stat"}, LoopExits(l)
      PROVE UNCHANGED <<allConnections, tracked, connections>>
  BY <1>6 DEF LoopExits
<1>7. ASSUME NEW k \in Closer, ShutdownCloses(k) \/ ShutdownReturns(k)
      PROVE UNCHANGED <<allConnections, tracked, connections>>
  BY <1>7 DEF ShutdownCloses, ShutdownReturns
<1>8. CASE UNCHANGED vars
  BY <1>8 DEF vars
<1> QED
  BY <1>1, <1>2, <1>3, <1>4, <1>5, <1>6, <1>7, <1>8 DEF Next, Handlers

\* At first the table is empty.
LEMMA InitTable == Init => TableConsistent
BY ProbeAssumption DEF Init, TableConsistent

\* Every step keeps the three maps in agreement.
LEMMA NextTable == TypeOK /\ TableConsistent /\ [Next]_vars => TableConsistent'
<1> SUFFICES ASSUME TypeOK, TableConsistent, [Next]_vars PROVE TableConsistent'
  OBVIOUS
<1> USE ProbeAssumption
<1>1. ASSUME NEW c \in Conn, ConnectedTrack(c) PROVE TableConsistent'
  <2> DEFINE p == RemotePeer[c]
  <2>1. p \in Peer
    OBVIOUS
  <2>2. connections' = [connections EXCEPT ![p] = @ \cup {c}]
    <3>1. ~HasEntry(p) => connections[p] = {}
      BY <2>1 DEF TableConsistent, HasEntry
    <3> QED
      BY <1>1, <3>1, <2>1 DEF ConnectedTrack, TypeOK
  <2>3. allConnections' = allConnections \cup {c} /\ tracked' = tracked \cup {p}
    BY <1>1 DEF ConnectedTrack
  <2>4. /\ connections'[p] = connections[p] \cup {c}
        /\ \A q \in Peer \ {p} : connections'[q] = connections[q]
    BY <2>1, <2>2 DEF TypeOK
  <2>5. ASSUME NEW q \in Peer PROVE q \in tracked' <=> connections'[q] # {}
    BY <2>1, <2>3, <2>4 DEF TableConsistent
  <2>6. ASSUME NEW q \in Peer, NEW d \in connections'[q] PROVE RemotePeer[d] = q
    BY <2>1, <2>4 DEF TableConsistent
  <2>7. ASSUME NEW d \in Conn
        PROVE d \in allConnections' <=> d \in connections'[RemotePeer[d]]
    <3>1. RemotePeer[d] \in Peer
      OBVIOUS
    <3> QED
      BY <2>1, <2>3, <2>4, <3>1 DEF TableConsistent
  <2> QED
    BY <2>5, <2>6, <2>7 DEF TableConsistent
<1>2. ASSUME NEW c \in Conn, Disconnected(c) PROVE TableConsistent'
  <2> DEFINE p == RemotePeer[c]
  <2>1. p \in Peer
    OBVIOUS
  <2>2. /\ allConnections' = allConnections \ {c}
        /\ tracked' = IF IsLastConnection(p, c) THEN tracked \ {p} ELSE tracked
    BY <1>2 DEF Disconnected, Forgotten
  <2>3. /\ connections'[p] = connections[p] \ {c}
        /\ \A q \in Peer \ {p} : connections'[q] = connections[q]
    BY <1>2, <2>1 DEF Disconnected, TypeOK
  <2>4. ASSUME NEW q \in Peer PROVE q \in tracked' <=> connections'[q] # {}
    <3>1. CASE q = p
      BY <2>1, <2>2, <2>3, <3>1 DEF TableConsistent, IsLastConnection
    <3>2. CASE q # p
      BY <2>2, <2>3, <3>2 DEF TableConsistent
    <3> QED
      BY <3>1, <3>2
  <2>5. ASSUME NEW q \in Peer, NEW d \in connections'[q] PROVE RemotePeer[d] = q
    BY <2>1, <2>3 DEF TableConsistent
  <2>6. ASSUME NEW d \in Conn
        PROVE d \in allConnections' <=> d \in connections'[RemotePeer[d]]
    <3>1. RemotePeer[d] \in Peer
      OBVIOUS
    <3>2. d = c => RemotePeer[d] = p
      OBVIOUS
    <3> QED
      BY <2>1, <2>2, <2>3, <3>1, <3>2 DEF TableConsistent
  <2> QED
    BY <2>4, <2>5, <2>6 DEF TableConsistent
<1>3. CASE \A c \in Conn : ~ConnectedTrack(c) /\ ~Disconnected(c)
  BY <1>3, TableUntouched DEF TableConsistent
<1> QED
  BY <1>1, <1>2, <1>3

\* The maps of connectionManager agree in every reachable state.
THEOREM TableAgrees == Spec => []TableConsistent
BY InitType, NextType, InitTable, NextTable, PTL DEF Spec

-------------------------------------------------------------------------------
(* Senders.  Five actions write what SenderOwnership relates.                 *)

\* Only four actions change who owns a sender.
LEMMA SendersUntouched ==
  ASSUME [Next]_vars,
         \A c \in Conn : ~ConnectedTrack(c) /\ ~Disconnected(c),
         \A p \in Peer, s \in Sender : ~DialSucceeds(p, s),
         \A s \in Sender : ~ConnectorEnd(s)
  PROVE  UNCHANGED <<tracked, sender, open, held>>
<1> USE DEF swarmVars, probeVars, tableVars, connectorVars, lifetimeVars
<1>1. ASSUME NEW c \in Conn, Swarm(c) \/ ConnectedSpawn(c)
      PROVE UNCHANGED <<tracked, sender, open, held>>
  BY <1>1 DEF Swarm, OpenConn, CloseConn, NotifyNobody, ConnectedSpawn
<1>2. CASE Register
  BY <1>2 DEF Register
<1>3. ASSUME NEW p \in Peer,
             ConnectorGivesUp(p) \/ ConnectorDials(p) \/ DialFails(p)
      PROVE UNCHANGED <<tracked, sender, open, held>>
  BY <1>3 DEF ConnectorGivesUp, ConnectorDials, DialFails
<1>4. CASE ConnectionLoopTick
  BY <1>4 DEF ConnectionLoopTick
<1>5. ASSUME NEW l \in {"connection", "stat"}, LoopExits(l)
      PROVE UNCHANGED <<tracked, sender, open, held>>
  BY <1>5 DEF LoopExits
<1>6. ASSUME NEW k \in Closer, ShutdownCloses(k) \/ ShutdownReturns(k)
      PROVE UNCHANGED <<tracked, sender, open, held>>
  BY <1>6 DEF ShutdownCloses, ShutdownReturns
<1>7. CASE UNCHANGED vars
  BY <1>7 DEF vars
<1> QED
  BY <1>1, <1>2, <1>3, <1>4, <1>5, <1>6, <1>7 DEF Next, Handlers, Connector

\* Connected never changes a sender: the entry it creates had none.
LEMMA TrackKeepsSenders ==
  ASSUME TypeOK, SenderOwnership, NEW c \in Conn, ConnectedTrack(c)
  PROVE  /\ tracked' = tracked \cup {RemotePeer[c]}
         /\ sender' = sender
         /\ UNCHANGED <<open, held>>
<1> USE DEF connectorVars
<1> DEFINE p == RemotePeer[c]
<1>1. p \in Peer
  BY ProbeAssumption
<1>2. p \notin tracked => sender[p] = NoSender
  BY <1>1 DEF SenderOwnership
<1>3. sender' = [sender EXCEPT ![p] = IF HasEntry(p) THEN @ ELSE NoSender]
  BY DEF ConnectedTrack
<1>4. sender' = sender
  BY <1>1, <1>2, <1>3 DEF HasEntry, TypeOK
<1> QED
  BY <1>4 DEF ConnectedTrack

\* What each step does to the sender of one peer.
LEMMA DisconnectedSenders ==
  ASSUME TypeOK, NEW c \in Conn, Disconnected(c)
  PROVE  LET p == RemotePeer[c] IN
         /\ p \in Peer
         /\ \/ /\ tracked' = tracked \ {p}
               /\ p \in tracked
               /\ sender' = [sender EXCEPT ![p] = NoSender]
               /\ open' = open \ {sender[p]}
            \/ UNCHANGED <<tracked, sender, open>>
         /\ UNCHANGED held
BY ProbeAssumption
   DEF Disconnected, IsLastConnection, Closed, connectorVars

\* At first there is no sender.
LEMMA InitSenders == Init => SenderOwnership
BY ProbeAssumption DEF Init, SenderOwnership

\* Every step keeps one owner for each sender.
LEMMA NextSenders ==
  TypeOK /\ SenderOwnership /\ [Next]_vars => SenderOwnership'
<1> SUFFICES ASSUME TypeOK, SenderOwnership, [Next]_vars PROVE SenderOwnership'
  OBVIOUS
<1> USE ProbeAssumption
<1>1. ASSUME NEW c \in Conn, ConnectedTrack(c) PROVE SenderOwnership'
  BY <1>1, TrackKeepsSenders DEF SenderOwnership
<1>2. ASSUME NEW c \in Conn, Disconnected(c) PROVE SenderOwnership'
  <2> DEFINE p == RemotePeer[c]
  <2>1. p \in Peer /\ UNCHANGED held
    BY <1>2, DisconnectedSenders
  <2>2. CASE UNCHANGED <<tracked, sender, open>>
    BY <2>1, <2>2 DEF SenderOwnership
  <2>3. CASE /\ tracked' = tracked \ {p}
             /\ sender' = [sender EXCEPT ![p] = NoSender]
             /\ open' = open \ {sender[p]}
    <3>1. /\ sender'[p] = NoSender
          /\ \A q \in Peer \ {p} : sender'[q] = sender[q]
      BY <2>1, <2>3 DEF TypeOK
    <3>2. ASSUME NEW s \in Sender
          PROVE s \in open' <=> held'[s] # NoPeer \/ \E q \in Peer : sender'[q] = s
      <4>1. CASE s = sender[p]
        <5>1. held[s] = NoPeer /\ s \notin open'
          BY <2>1, <2>3, <4>1 DEF SenderOwnership
        <5>2. \A q \in Peer : sender'[q] # s
          BY <2>1, <3>1, <4>1 DEF SenderOwnership
        <5> QED
          BY <2>1, <5>1, <5>2
      <4>2. CASE s # sender[p]
        <5>1. (\E q \in Peer : sender'[q] = s) <=> \E q \in Peer : sender[q] = s
          BY <2>1, <3>1, <4>2
        <5> QED
          BY <2>1, <2>3, <4>2, <5>1 DEF SenderOwnership
      <4> QED
        BY <4>1, <4>2
    <3>3. ASSUME NEW q \in Peer, sender'[q] # NoSender
          PROVE q \in tracked' /\ held'[sender'[q]] = NoPeer
      BY <2>1, <2>3, <3>1, <3>3 DEF SenderOwnership
    <3>4. ASSUME NEW q \in Peer, NEW r \in Peer, sender'[q] = sender'[r], q # r
          PROVE sender'[q] = NoSender
      BY <3>1, <3>4 DEF SenderOwnership
    <3> QED
      BY <3>2, <3>3, <3>4 DEF SenderOwnership
  <2> QED
    BY <1>2, <2>2, <2>3, DisconnectedSenders
<1>3. ASSUME NEW p \in Peer, NEW t \in Sender, DialSucceeds(p, t)
      PROVE SenderOwnership'
  <2>1. /\ t \notin open /\ open' = open \cup {t}
        /\ UNCHANGED <<tracked, sender>>
    BY <1>3 DEF DialSucceeds, tableVars
  <2>2. held'[t] = p /\ \A s \in Sender \ {t} : held'[s] = held[s]
    BY <1>3 DEF DialSucceeds, TypeOK
  <2>3. \A q \in Peer : sender[q] # t
    BY <2>1 DEF SenderOwnership
  <2>4. ASSUME NEW q \in Peer, sender[q] # NoSender PROVE sender[q] \in Sender \ {t}
    BY <2>3, <2>4 DEF TypeOK
  <2> QED
    BY <2>1, <2>2, <2>3, <2>4 DEF SenderOwnership
<1>4. ASSUME NEW t \in Sender, ConnectorAttaches(t) PROVE SenderOwnership'
  <2> DEFINE p == held[t]
  <2>1. p \in Peer /\ p \in tracked /\ sender[p] = NoSender
    BY <1>4 DEF ConnectorAttaches, Reusable, WantsSender, TypeOK
  <2>2. UNCHANGED <<open, tracked>>
    BY <1>4 DEF ConnectorAttaches
  <2>3. sender'[p] = t /\ \A q \in Peer \ {p} : sender'[q] = sender[q]
    BY <1>4, <2>1 DEF ConnectorAttaches, TypeOK
  <2>4. held'[t] = NoPeer /\ \A s \in Sender \ {t} : held'[s] = held[s]
    BY <1>4 DEF ConnectorAttaches, TypeOK
  <2>5. held[t] # NoPeer
    BY <1>4 DEF ConnectorAttaches
  <2>6. t \in open /\ \A q \in Peer : sender[q] # t
    BY <2>5 DEF SenderOwnership
  <2>7. ASSUME NEW s \in Sender
        PROVE s \in open' <=> held'[s] # NoPeer \/ \E q \in Peer : sender'[q] = s
    <3>1. CASE s = t
      BY <2>1, <2>2, <2>3, <2>6, <3>1
    <3>2. CASE s # t
      <4>1. (\E q \in Peer : sender'[q] = s) <=> \E q \in Peer : sender[q] = s
        BY <2>1, <2>3, <3>2
      <4> QED
        BY <2>2, <2>4, <3>2, <4>1 DEF SenderOwnership
    <3> QED
      BY <3>1, <3>2
  <2>8. ASSUME NEW q \in Peer, sender'[q] # NoSender
        PROVE q \in tracked' /\ held'[sender'[q]] = NoPeer
    <3>1. CASE q = p
      BY <2>1, <2>2, <2>3, <2>4, <3>1
    <3>2. CASE q # p
      <4>1. sender'[q] = sender[q] /\ sender[q] \in Sender \ {t}
        BY <2>3, <2>6, <2>8, <3>2 DEF TypeOK
      <4> QED
        BY <2>2, <2>4, <2>8, <4>1 DEF SenderOwnership
    <3> QED
      BY <3>1, <3>2
  <2>9. ASSUME NEW q \in Peer, NEW r \in Peer, sender'[q] = sender'[r], q # r
        PROVE sender'[q] = NoSender
    BY <2>3, <2>6, <2>9 DEF SenderOwnership
  <2> QED
    BY <2>7, <2>8, <2>9 DEF SenderOwnership
<1>5. ASSUME NEW t \in Sender, ConnectorDiscards(t) PROVE SenderOwnership'
  <2>1. held[t] # NoPeer /\ open' = open \ {t} /\ UNCHANGED <<tracked, sender>>
    BY <1>5 DEF ConnectorDiscards, Closed, tableVars
  <2>2. held'[t] = NoPeer /\ \A s \in Sender \ {t} : held'[s] = held[s]
    BY <1>5 DEF ConnectorDiscards, TypeOK
  <2>3. \A q \in Peer : sender[q] # t
    BY <2>1 DEF SenderOwnership
  <2>4. ASSUME NEW q \in Peer, sender[q] # NoSender PROVE sender[q] \in Sender \ {t}
    BY <2>3, <2>4 DEF TypeOK
  <2> QED
    BY <2>1, <2>2, <2>3, <2>4 DEF SenderOwnership
<1>6. CASE /\ \A c \in Conn : ~ConnectedTrack(c) /\ ~Disconnected(c)
           /\ \A p \in Peer, s \in Sender : ~DialSucceeds(p, s)
           /\ \A s \in Sender : ~ConnectorEnd(s)
  BY <1>6, SendersUntouched DEF SenderOwnership
<1> QED
  BY <1>1, <1>2, <1>3, <1>4, <1>5, <1>6 DEF ConnectorEnd

\* Every sender that is not closed has exactly one owner, in every reachable
\* state.
THEOREM SendersOwned == Spec => []SenderOwnership
BY InitType, NextType, InitSenders, NextSenders, PTL DEF Spec

\* A sender leaves the table only with its peer, closed.
LEMMA SenderStep ==
  ASSUME TypeOK, SenderOwnership, [Next]_vars,
         NEW p \in Peer, sender[p] # NoSender, sender'[p] # sender[p]
  PROVE  p \notin tracked' /\ sender[p] \notin open'
<1>1. ASSUME NEW c \in Conn, ConnectedTrack(c) PROVE FALSE
  BY <1>1, TrackKeepsSenders
<1>2. ASSUME NEW c \in Conn, Disconnected(c)
      PROVE p \notin tracked' /\ sender[p] \notin open'
  <2> DEFINE q == RemotePeer[c]
  <2>1. /\ q \in Peer
        /\ tracked' = tracked \ {q}
        /\ sender' = [sender EXCEPT ![q] = NoSender]
        /\ open' = open \ {sender[q]}
    BY <1>2, DisconnectedSenders
  <2>2. p = q
    BY <2>1 DEF TypeOK
  <2> QED
    BY <2>1, <2>2
<1>3. ASSUME NEW q \in Peer, NEW s \in Sender, DialSucceeds(q, s) PROVE FALSE
  BY <1>3 DEF DialSucceeds, tableVars
<1>4. ASSUME NEW s \in Sender, ConnectorEnd(s) PROVE FALSE
  BY <1>4 DEF ConnectorEnd, ConnectorAttaches, ConnectorDiscards, tableVars,
              Reusable, WantsSender, TypeOK
<1>5. UNCHANGED sender => FALSE
  OBVIOUS
<1> QED
  BY <1>1, <1>2, <1>3, <1>4, <1>5, SendersUntouched

\* No step replaces the sender of a peer, or closes it while the peer stays.
THEOREM SendersLeave == Spec => SenderLeavesWithPeer
<1>1. TypeOK /\ SenderOwnership /\ [Next]_vars =>
        [\A p \in Peer : sender[p] # NoSender /\ sender'[p] # sender[p] =>
           p \notin tracked' /\ sender[p] \notin open']_vars
  BY SenderStep
<1> QED
  BY <1>1, InitType, NextType, InitSenders, NextSenders, PTL
     DEF Spec, SenderLeavesWithPeer

-------------------------------------------------------------------------------
(* The probe implements SenderTable: Connected of a new peer is Track, the     *)
(* attachment of a dialled sender is Attach, the last Disconnected is Untrack, *)
(* and everything else leaves slot and live alone.                             *)

\* The initial states are those of SenderTable.
LEMMA InitRefines == Init => Table!TableInit
BY DEF Init, Table!TableInit

\* Every step is one of SenderTable, or leaves its variables alone.
LEMMA NextRefines ==
  TypeOK /\ SenderOwnership /\ [Next]_vars => [Table!TableNext]_(Table!tableVars)
<1> SUFFICES ASSUME TypeOK, SenderOwnership, [Next]_vars
             PROVE  [Table!TableNext]_(Table!tableVars)
  OBVIOUS
<1> DEFINE S == [p \in Peer |-> IF p \in tracked THEN sender[p] ELSE Untracked]
           L == open \ Held
<1> USE ProbeAssumption
<1>1. ASSUME NEW c \in Conn, ConnectedTrack(c)
      PROVE [Table!TableNext]_(Table!tableVars)
  <2> DEFINE p == RemotePeer[c]
  <2>1. /\ p \in Peer /\ tracked' = tracked \cup {p}
        /\ UNCHANGED <<sender, open, held>>
    BY <1>1, TrackKeepsSenders
  <2>2. L' = L
    BY <2>1 DEF Held
  <2>3. CASE p \in tracked
    <3>1. S' = S
      BY <2>1, <2>3
    <3> QED
      BY <2>2, <3>1 DEF Table!tableVars
  <2>4. CASE p \notin tracked
    <3>1. sender[p] = NoSender
      BY <2>1, <2>4 DEF SenderOwnership
    <3>2. S' = [S EXCEPT ![p] = NoSender]
      BY <2>1, <3>1
    <3>3. Table!Track(p)
      BY <2>1, <2>2, <2>4, <3>2 DEF Table!Track
    <3> QED
      BY <2>1, <3>3 DEF Table!TableNext
  <2> QED
    BY <2>3, <2>4
<1>2. ASSUME NEW c \in Conn, Disconnected(c)
      PROVE [Table!TableNext]_(Table!tableVars)
  <2> DEFINE p == RemotePeer[c]
  <2>1. p \in Peer /\ UNCHANGED held
    BY <1>2, DisconnectedSenders
  <2>2. CASE UNCHANGED <<tracked, sender, open>>
    BY <2>1, <2>2 DEF Table!tableVars, Held
  <2>3. CASE /\ p \in tracked
             /\ tracked' = tracked \ {p}
             /\ sender' = [sender EXCEPT ![p] = NoSender]
             /\ open' = open \ {sender[p]}
    <3>1. S[p] = sender[p] /\ sender[p] # Untracked
      BY <2>1, <2>3 DEF TypeOK
    <3>2. S' = [S EXCEPT ![p] = Untracked]
      BY <2>1, <2>3 DEF TypeOK
    <3>3. L' = L \ {S[p]}
      BY <2>1, <2>3, <3>1 DEF Held
    <3>4. Table!Untrack(p)
      BY <3>1, <3>2, <3>3 DEF Table!Untrack
    <3> QED
      BY <2>1, <3>4 DEF Table!TableNext
  <2> QED
    BY <1>2, <2>2, <2>3, DisconnectedSenders
<1>3. ASSUME NEW p \in Peer, NEW t \in Sender, DialSucceeds(p, t)
      PROVE [Table!TableNext]_(Table!tableVars)
  <2>1. /\ t \notin open /\ open' = open \cup {t}
        /\ UNCHANGED <<tracked, sender>>
    BY <1>3 DEF DialSucceeds, tableVars
  <2>2. Held' = Held \cup {t}
    BY <1>3 DEF DialSucceeds, Held, TypeOK
  <2>3. L' = L
    BY <2>1, <2>2
  <2> QED
    BY <2>1, <2>3 DEF Table!tableVars
<1>4. ASSUME NEW t \in Sender, ConnectorAttaches(t)
      PROVE [Table!TableNext]_(Table!tableVars)
  <2>1. PICK p \in Peer :
          p = held[t] /\ p \in tracked /\ sender[p] = NoSender
    BY <1>4 DEF ConnectorAttaches, Reusable, WantsSender, TypeOK
  <2>2. UNCHANGED <<open, tracked>> /\ sender' = [sender EXCEPT ![p] = t]
    BY <1>4, <2>1 DEF ConnectorAttaches
  <2>3. t \in Held /\ Held' = Held \ {t}
    BY <1>4 DEF ConnectorAttaches, Held, TypeOK
  <2>4. t \in open
    BY <2>3 DEF SenderOwnership, Held
  <2>5. S[p] = NoSender /\ S' = [S EXCEPT ![p] = t]
    <3>1. S[p] = NoSender
      BY <2>1
    <3>2. \A q \in Peer : sender'[q] = IF q = p THEN t ELSE sender[q]
      BY <2>2 DEF TypeOK
    <3>3. S' = [q \in Peer |-> IF q \in tracked
                              THEN (IF q = p THEN t ELSE sender[q]) ELSE Untracked]
      BY <2>2, <3>2
    <3>4. [S EXCEPT ![p] = t] =
            [q \in Peer |-> IF q = p THEN t
                           ELSE IF q \in tracked THEN sender[q] ELSE Untracked]
      OBVIOUS
    <3> QED
      BY <2>1, <3>1, <3>3, <3>4
  <2>6. t \notin L /\ L' = L \cup {t}
    BY <2>2, <2>3, <2>4
  <2>7. Table!Attach(p, t)
    BY <2>5, <2>6 DEF Table!Attach
  <2> QED
    BY <2>1, <2>7 DEF Table!TableNext
<1>5. ASSUME NEW t \in Sender, ConnectorDiscards(t)
      PROVE [Table!TableNext]_(Table!tableVars)
  <2>1. open' = open \ {t} /\ UNCHANGED <<tracked, sender>>
    BY <1>5 DEF ConnectorDiscards, Closed, tableVars
  <2>2. t \in Held /\ Held' = Held \ {t}
    BY <1>5 DEF ConnectorDiscards, Held, TypeOK
  <2>3. L' = L
    BY <2>1, <2>2
  <2> QED
    BY <2>1, <2>3 DEF Table!tableVars
<1>6. CASE UNCHANGED <<tracked, sender, open, held>>
  BY <1>6 DEF Table!tableVars, Held
<1> QED
  BY <1>1, <1>2, <1>3, <1>4, <1>5, <1>6, SendersUntouched DEF ConnectorEnd

\* The probe implements SenderTable.
THEOREM ProbeRefinesTable == Spec => ImplementsSenderTable
<1>1. Spec => Table!TableInit /\ [][Table!TableNext]_(Table!tableVars)
  BY InitRefines, NextRefines, InitType, NextType, InitSenders, NextSenders, PTL
     DEF Spec
<1> QED
  BY <1>1 DEF ImplementsSenderTable, Table!TableSpec

-------------------------------------------------------------------------------
(* Phantom connections.  NoPhantomConnection is not inductive: that Connected  *)
(* records a connection which Disconnected has yet to see rests on the order   *)
(* of the two notifications, and that notifications lost before Notify lose no *)
(* removal rests on nothing being recorded before it.                          *)

\* A connection being announced exists or has its Disconnected outstanding, and
\* nothing is recorded before the probe is registered.
NotificationOrder ==
  /\ opened \subseteq up \cup gone
  /\ ~registered => allConnections = {}

\* Every step keeps an outstanding notification for each connection that ended.
LEMMA NextPhantom ==
  TypeOK /\ NotificationOrder /\ NoPhantomConnection /\ [Next]_vars =>
    NotificationOrder' /\ NoPhantomConnection'
<1> SUFFICES ASSUME TypeOK, NotificationOrder, NoPhantomConnection, [Next]_vars
             PROVE  NotificationOrder' /\ NoPhantomConnection'
  OBVIOUS
<1> USE DEF NotificationOrder, NoPhantomConnection,
            swarmVars, probeVars, tableVars, connectorVars, lifetimeVars
<1>1. ASSUME NEW c \in Conn, Swarm(c) \/ Handlers(c)
      PROVE NotificationOrder' /\ NoPhantomConnection'
  <2>1. CASE OpenConn(c)
    BY <2>1 DEF OpenConn
  <2>2. CASE CloseConn(c)
    BY <2>2 DEF CloseConn
  <2>3. CASE NotifyNobody(c)
    BY <2>3 DEF NotifyNobody
  <2>4. CASE ConnectedTrack(c)
    BY <2>4 DEF ConnectedTrack
  <2>5. CASE ConnectedSpawn(c)
    BY <2>5 DEF ConnectedSpawn
  <2>6. CASE Disconnected(c)
    BY <2>6 DEF Disconnected, Forgotten
  <2> QED
    BY <1>1, <2>1, <2>2, <2>3, <2>4, <2>5, <2>6 DEF Swarm, Handlers
<1>2. CASE Register
  BY <1>2 DEF Register
<1>3. ASSUME NEW p \in Peer, Connector(p)
      PROVE NotificationOrder' /\ NoPhantomConnection'
  BY <1>3 DEF Connector, ConnectorGivesUp, ConnectorDials, DialFails, DialSucceeds
<1>4. ASSUME NEW s \in Sender, ConnectorEnd(s)
      PROVE NotificationOrder' /\ NoPhantomConnection'
  BY <1>4 DEF ConnectorEnd, ConnectorAttaches, ConnectorDiscards
<1>5. CASE ConnectionLoopTick
  BY <1>5 DEF ConnectionLoopTick
<1>6. ASSUME NEW l \in {"connection", "stat"}, LoopExits(l)
      PROVE NotificationOrder' /\ NoPhantomConnection'
  BY <1>6 DEF LoopExits
<1>7. ASSUME NEW k \in Closer, ShutdownCloses(k) \/ ShutdownReturns(k)
      PROVE NotificationOrder' /\ NoPhantomConnection'
  BY <1>7 DEF ShutdownCloses, ShutdownReturns
<1>8. CASE UNCHANGED vars
  BY <1>8 DEF vars
<1> QED
  BY <1>1, <1>2, <1>3, <1>4, <1>5, <1>6, <1>7, <1>8 DEF Next

\* Every recorded connection exists or has its removal outstanding.
THEOREM NoPhantoms == Spec => []NoPhantomConnection
<1>1. Init => NotificationOrder /\ NoPhantomConnection
  BY DEF Init, NotificationOrder, NoPhantomConnection
<1> QED
  BY <1>1, InitType, NextType, NextPhantom, PTL DEF Spec

-------------------------------------------------------------------------------
(* The WaitGroup counts the goroutines.  Senders need not be finitely many, so *)
(* that only finitely many are held is part of the invariant.                  *)

HeldFinite == IsFiniteSet(Held)
HeldFor(p) == {s \in Sender : held[s] = p}

\* The senders that connectors hold for one peer are finitely many.
LEMMA HeldForFinite ==
  ASSUME HeldFinite, NEW p \in Peer
  PROVE  IsFiniteSet(HeldFor(p)) /\ Cardinality(HeldFor(p)) \in Nat
<1>1. HeldFor(p) \in SUBSET Held
  BY ProbeAssumption DEF HeldFor, Held
<1> QED
  BY <1>1, FS_Subset, FS_CardinalityType DEF HeldFinite

\* The connectors of a peer are a number.
LEMMA ConnectorsNat ==
  ASSUME TypeOK, HeldFinite
  PROVE  \A p \in Peer : ConnectorsOf(p) \in Nat
<1> SUFFICES ASSUME NEW p \in Peer PROVE ConnectorsOf(p) \in Nat
  OBVIOUS
<1>1. sleeping[p] \in Nat /\ dialing[p] \in Nat
  BY DEF TypeOK
<1>2. Cardinality(HeldFor(p)) \in Nat
  BY HeldForFinite
<1>3. ConnectorsOf(p) = sleeping[p] + dialing[p] + Cardinality(HeldFor(p))
  BY DEF ConnectorsOf, HeldFor
<1> QED
  BY <1>1, <1>2, <1>3

\* The connectors of all peers are a number.
LEMMA ConnectorsType == ASSUME TypeOK, HeldFinite PROVE Connectors \in Nat
<1> DEFINE f == [p \in Peer |-> ConnectorsOf(p)]
<1>1. \A p \in Peer : f[p] \in Nat
  BY ConnectorsNat
<1>2. Connectors = SumFunctionOnSet(f, Peer)
  BY DEF Connectors, SumFunction
<1> HIDE DEF f
<1> QED
  BY <1>1, <1>2, ProbeAssumption, SumType

\* Connectors of some peers, one each, start.
LEMMA ConnectorsStart ==
  ASSUME TypeOK, HeldFinite, NEW T \in SUBSET Peer,
         \A p \in Peer :
           ConnectorsOf(p)' = IF p \in T THEN ConnectorsOf(p) + 1 ELSE ConnectorsOf(p)
  PROVE  Connectors' = Connectors + Cardinality(T)
<1> DEFINE f == [p \in Peer |-> ConnectorsOf(p)]
           g == [p \in Peer |-> ConnectorsOf(p)']
<1>1. \A p \in Peer : f[p] \in Nat /\ g[p] = IF p \in T THEN f[p] + 1 ELSE f[p]
  BY ConnectorsNat
<1>2. Connectors = SumFunctionOnSet(f, Peer) /\ Connectors' = SumFunctionOnSet(g, Peer)
  BY DEF Connectors, SumFunction
<1> HIDE DEF f, g
<1> QED
  BY <1>1, <1>2, ProbeAssumption, SumRaised

\* A connector of one peer ends.
LEMMA ConnectorEnds ==
  ASSUME TypeOK', HeldFinite', NEW q \in Peer,
         \A p \in Peer :
           ConnectorsOf(p) = IF p = q THEN ConnectorsOf(p)' + 1 ELSE ConnectorsOf(p)'
  PROVE  Connectors' = Connectors - 1
<1> DEFINE f == [p \in Peer |-> ConnectorsOf(p)]
           g == [p \in Peer |-> ConnectorsOf(p)']
<1>1. \A p \in Peer : ConnectorsOf(p)' \in Nat
  <2>1. (\A p \in Peer : ConnectorsOf(p) \in Nat)'
    BY ConnectorsNat, PTL
  <2> QED
    BY <2>1
<1>2. \A p \in Peer : g[p] \in Nat /\ f[p] = IF p \in {q} THEN g[p] + 1 ELSE g[p]
  BY <1>1
<1>3. Connectors = SumFunctionOnSet(f, Peer) /\ Connectors' = SumFunctionOnSet(g, Peer)
  BY DEF Connectors, SumFunction
<1> HIDE DEF f, g
<1>4. SumFunctionOnSet(f, Peer) = SumFunctionOnSet(g, Peer) + Cardinality({q})
  BY <1>2, ProbeAssumption, SumRaised
<1>5. SumFunctionOnSet(g, Peer) \in Nat
  BY <1>2, ProbeAssumption, SumType
<1>6. SumFunctionOnSet(f, Peer) = SumFunctionOnSet(g, Peer) + 1
  BY <1>4, FS_Singleton
<1>7. SumFunctionOnSet(f, Peer) \in Nat
  BY <1>5, <1>6
<1>8. SumFunctionOnSet(g, Peer) = SumFunctionOnSet(f, Peer) - 1
  BY <1>5, <1>6, <1>7
<1> QED
  BY <1>3, <1>8

\* A step that leaves the connectors' variables alone leaves their number.
LEMMA ConnectorsSame ==
  ASSUME UNCHANGED connectorVars
  PROVE  Connectors' = Connectors /\ HeldFinite' = HeldFinite
BY DEF connectorVars, Connectors, ConnectorsOf, HeldFinite, Held

\* What a connector does to the numbers of connectors.
LEMMA ConnectorCounts ==
  ASSUME TypeOK, TypeOK', HeldFinite, SenderOwnership, NEW p \in Peer, Connector(p)
  PROVE  /\ HeldFinite'
         /\ wg' - wg = Connectors' - Connectors
         /\ Connectors' <= Connectors
<1> USE DEF swarmVars, tableVars, lifetimeVars
<1>1. /\ sleeping \in [Peer -> Nat] /\ dialing \in [Peer -> Nat]
      /\ sleeping' \in [Peer -> Nat] /\ dialing' \in [Peer -> Nat]
      /\ held \in [Sender -> Peer \cup {NoPeer}] /\ wg \in Int
  BY DEF TypeOK
<1>2. Connectors \in Nat
  BY ConnectorsType
<1>3. \A q \in Peer : Cardinality(HeldFor(q)) \in Nat
  BY HeldForFinite
<1>4. \A q \in Peer : /\ ConnectorsOf(q) = sleeping[q] + dialing[q] + Cardinality(HeldFor(q))
                      /\ ConnectorsOf(q)' = sleeping'[q] + dialing'[q] + Cardinality(HeldFor(q)')
  BY DEF ConnectorsOf, HeldFor
<1>5. CASE ConnectorGivesUp(p) \/ DialFails(p)
  <2>1. HeldFinite' /\ \A q \in Peer : HeldFor(q)' = HeldFor(q)
    BY <1>5 DEF ConnectorGivesUp, DialFails, HeldFinite, Held, HeldFor
  <2>2. wg' = wg - 1
    BY <1>5 DEF ConnectorGivesUp, DialFails, AfterDone
  <2>3. \A q \in Peer : sleeping[q] + dialing[q] =
          IF q = p THEN sleeping'[q] + dialing'[q] + 1 ELSE sleeping'[q] + dialing'[q]
    BY <1>1, <1>5 DEF ConnectorGivesUp, DialFails
  <2>4. \A q \in Peer :
          ConnectorsOf(q) = IF q = p THEN ConnectorsOf(q)' + 1 ELSE ConnectorsOf(q)'
    BY <1>1, <1>3, <1>4, <2>1, <2>3
  <2>5. Connectors' = Connectors - 1
    BY <2>1, <2>4, ConnectorEnds
  <2>6. (Connectors \in Nat)'
    BY <2>1, ConnectorsType, PTL
  <2>7. wg' - wg = Connectors' - Connectors /\ Connectors' <= Connectors
    <3>1. wg \in Int /\ Connectors' \in Nat
      BY <1>1, <2>6
    <3>2. wg' - wg = 0 - 1
      BY <2>2, <3>1
    <3>3. Connectors' - Connectors = 0 - 1 /\ Connectors' <= Connectors
      BY <1>2, <2>5, <3>1
    <3> QED
      BY <3>2, <3>3
  <2> QED
    BY <2>1, <2>7
<1>6. CASE ConnectorDials(p)
  <2>1. HeldFinite' /\ \A q \in Peer : HeldFor(q)' = HeldFor(q)
    BY <1>6 DEF ConnectorDials, HeldFinite, Held, HeldFor
  <2>2. wg' = wg
    BY <1>6 DEF ConnectorDials
  <2>3. \A q \in Peer : sleeping[q] + dialing[q] = sleeping'[q] + dialing'[q]
    BY <1>1, <1>6 DEF ConnectorDials
  <2>4. \A q \in Peer : ConnectorsOf(q)' = ConnectorsOf(q)
    BY <1>1, <1>3, <1>4, <2>1, <2>3
  <2>5. Connectors' = Connectors
    BY <2>4 DEF Connectors
  <2> QED
    BY <1>1, <1>2, <2>1, <2>2, <2>5
<1>7. ASSUME NEW s \in Sender, DialSucceeds(p, s)
      PROVE  HeldFinite' /\ wg' - wg = Connectors' - Connectors /\ Connectors' <= Connectors
  <2>1. held[s] = NoPeer
    BY <1>7 DEF DialSucceeds, SenderOwnership
  <2>2. held' = [held EXCEPT ![s] = p]
    BY <1>7 DEF DialSucceeds
  <2>3. HeldFinite'
    <3>1. Held' = Held \cup {s}
      BY <1>1, <2>2, ProbeAssumption DEF Held
    <3> QED
      BY <3>1, FS_AddElement DEF HeldFinite
  <2>4. s \notin HeldFor(p) /\ HeldFor(p)' = HeldFor(p) \cup {s}
    BY <1>1, <2>1, <2>2, ProbeAssumption DEF HeldFor
  <2>5. \A q \in Peer \ {p} : HeldFor(q)' = HeldFor(q)
    BY <1>1, <2>1, <2>2, ProbeAssumption DEF HeldFor
  <2>6. Cardinality(HeldFor(p)') = Cardinality(HeldFor(p)) + 1
    BY <2>4, HeldForFinite, FS_AddElement
  <2>7. wg' = wg /\ sleeping' = sleeping
    BY <1>7 DEF DialSucceeds
  <2>8. \A q \in Peer : dialing[q] = IF q = p THEN dialing'[q] + 1 ELSE dialing'[q]
    BY <1>1, <1>7 DEF DialSucceeds
  <2>9. \A q \in Peer : ConnectorsOf(q)' = ConnectorsOf(q)
    BY <1>1, <1>3, <1>4, <2>5, <2>6, <2>7, <2>8
  <2>10. Connectors' = Connectors
    BY <2>9 DEF Connectors
  <2> QED
    BY <1>1, <1>2, <2>3, <2>7, <2>10
<1> QED
  BY <1>5, <1>6, <1>7 DEF Connector

\* A connector that ends calls Done, and is one less.
LEMMA ConnectorEndCounts ==
  ASSUME TypeOK, TypeOK', HeldFinite, NEW s \in Sender, ConnectorEnd(s)
  PROVE  HeldFinite' /\ wg' = wg - 1 /\ Connectors' = Connectors - 1
<1>1. /\ sleeping \in [Peer -> Nat] /\ dialing \in [Peer -> Nat]
      /\ held \in [Sender -> Peer \cup {NoPeer}]
  BY DEF TypeOK
<1>2. PICK p \in Peer :
      /\ held[s] = p /\ held' = [held EXCEPT ![s] = NoPeer] /\ wg' = wg - 1
      /\ sleeping' = sleeping /\ dialing' = dialing
  BY <1>1 DEF ConnectorEnd, ConnectorAttaches, ConnectorDiscards, AfterDone
<1>3. HeldFinite'
  <2>1. Held' = Held \ {s}
    BY <1>1, <1>2 DEF Held
  <2> QED
    BY <2>1, FS_RemoveElement DEF HeldFinite
<1>4. \A q \in Peer : /\ ConnectorsOf(q) = sleeping[q] + dialing[q] + Cardinality(HeldFor(q))
                      /\ ConnectorsOf(q)' = sleeping[q] + dialing[q] + Cardinality(HeldFor(q)')
  BY <1>2 DEF ConnectorsOf, HeldFor
<1>5. s \in HeldFor(p) /\ HeldFor(p)' = HeldFor(p) \ {s}
  BY <1>1, <1>2, ProbeAssumption DEF HeldFor
<1>6. \A q \in Peer \ {p} : HeldFor(q)' = HeldFor(q)
  BY <1>1, <1>2, ProbeAssumption DEF HeldFor
<1>7. \A q \in Peer : Cardinality(HeldFor(q)) \in Nat
  BY HeldForFinite
<1>8. Cardinality(HeldFor(p)') = Cardinality(HeldFor(p)) - 1
  BY <1>2, <1>5, HeldForFinite, FS_RemoveElement
<1>9. \A q \in Peer :
        ConnectorsOf(q) = IF q = p THEN ConnectorsOf(q)' + 1 ELSE ConnectorsOf(q)'
  BY <1>1, <1>4, <1>6, <1>7, <1>8
<1>10. Connectors' = Connectors - 1
  BY <1>2, <1>3, <1>9, ConnectorEnds
<1> QED
  BY <1>2, <1>3, <1>10

\* The connection loop calls Add for each connector it starts.
LEMMA TickCounts ==
  ASSUME TypeOK, HeldFinite, ConnectionLoopTick
  PROVE  HeldFinite' /\ wg' - wg = Connectors' - Connectors
<1>1. HeldFinite' /\ \A p \in Peer : HeldFor(p)' = HeldFor(p)
  BY DEF ConnectionLoopTick, HeldFinite, Held, HeldFor
<1>2. sleeping \in [Peer -> Nat] /\ dialing \in [Peer -> Nat] /\ wg \in Int
  BY DEF TypeOK
<1>3. \A p \in Peer : Cardinality(HeldFor(p)) \in Nat
  BY HeldForFinite
<1>4. \A p \in Peer : /\ ConnectorsOf(p) = sleeping[p] + dialing[p] + Cardinality(HeldFor(p))
                      /\ ConnectorsOf(p)' = sleeping'[p] + dialing'[p] + Cardinality(HeldFor(p)')
  BY DEF ConnectorsOf, HeldFor
<1>5. /\ \A p \in Peer : sleeping'[p] = IF p \in MissingSender THEN sleeping[p] + 1
                                                               ELSE sleeping[p]
      /\ dialing' = dialing /\ wg' = wg + Cardinality(MissingSender)
      /\ MissingSender \in SUBSET Peer
  BY DEF ConnectionLoopTick, MissingSender, TypeOK
<1>6. \A p \in Peer : ConnectorsOf(p)' =
        IF p \in MissingSender THEN ConnectorsOf(p) + 1 ELSE ConnectorsOf(p)
  BY <1>1, <1>2, <1>3, <1>4, <1>5
<1>7. Connectors' = Connectors + Cardinality(MissingSender)
  BY <1>5, <1>6, ConnectorsStart
<1>8. Connectors \in Nat /\ Cardinality(MissingSender) \in Nat
  BY ConnectorsType, MissingSenderCount
<1>9. wg' - wg = Connectors' - Connectors
  BY <1>2, <1>5, <1>7, <1>8
<1> QED
  BY <1>1, <1>9

\* Connected calls Add for the connector it starts.
LEMMA SpawnCounts ==
  ASSUME TypeOK, HeldFinite, NEW c \in Conn, ConnectedSpawn(c)
  PROVE  HeldFinite' /\ wg' = wg + 1 /\ Connectors' = Connectors + 1
<1>1. /\ HeldFinite' /\ \A p \in Peer : HeldFor(p)' = HeldFor(p)
      /\ wg' = wg + 1
  BY DEF ConnectedSpawn, Accounted, HeldFinite, Held, HeldFor
<1>2. sleeping \in [Peer -> Nat] /\ dialing \in [Peer -> Nat] /\ wg \in Int
  BY DEF TypeOK
<1>3. \A p \in Peer : Cardinality(HeldFor(p)) \in Nat
  BY HeldForFinite
<1>4. \A p \in Peer : /\ ConnectorsOf(p) = sleeping[p] + dialing[p] + Cardinality(HeldFor(p))
                      /\ ConnectorsOf(p)' = sleeping'[p] + dialing'[p] + Cardinality(HeldFor(p)')
  BY DEF ConnectorsOf, HeldFor
<1>5. PICK q \in Peer :
        /\ \A p \in Peer : sleeping'[p] = IF p \in {q} THEN sleeping[p] + 1 ELSE sleeping[p]
        /\ dialing' = dialing
  <2>1. RemotePeer[c] \in Peer
    BY ProbeAssumption
  <2> QED
    BY <1>2, <2>1 DEF ConnectedSpawn
<1>6. \A p \in Peer : ConnectorsOf(p)' =
        IF p \in {q} THEN ConnectorsOf(p) + 1 ELSE ConnectorsOf(p)
  BY <1>1, <1>2, <1>3, <1>4, <1>5
<1>7. Connectors' = Connectors + Cardinality({q})
  BY <1>6, ConnectorsStart
<1> QED
  BY <1>1, <1>7, FS_Singleton

\* Shutdown ends the loops and waits for them: closing is set before anybody
\* waits, and once somebody has returned there is no loop, and at most one
\* connector, running or about to be started by the handler that holds the lock.
LateInv ==
  /\ \A k \in Closer : shutdown[k] # "idle" => closing
  /\ (\E k \in Closer : shutdown[k] = "returned") =>
       /\ closing /\ loops = {}
       /\ Connectors <= 1
       /\ handler # NoConn => Connectors = 0

CountInv == HeldFinite /\ WaitGroupExact /\ LateInv

\* At first there is no connector, and the WaitGroup counts the loops.
LEMMA InitCount == Init => CountInv
<1> SUFFICES ASSUME Init PROVE CountInv
  OBVIOUS
<1>1. Held = {}
  BY DEF Init, Held
<1>2. HeldFinite
  BY <1>1, FS_EmptySet DEF HeldFinite
<1>3. \A p \in Peer : HeldFor(p) = {}
  BY ProbeAssumption DEF Init, HeldFor
<1>4. \A p \in Peer : ConnectorsOf(p) = 0
  BY <1>3, FS_EmptySet DEF Init, ConnectorsOf, HeldFor
<1>5. Connectors = 0
  <2> DEFINE f == [p \in Peer |-> ConnectorsOf(p)]
  <2>1. \A p \in Peer : f[p] = 0
    BY <1>4
  <2>2. Connectors = SumFunctionOnSet(f, Peer)
    BY DEF Connectors, SumFunction
  <2> HIDE DEF f
  <2>3. \A p \in Peer : f[p] \in Nat
    BY <2>1
  <2> QED
    BY <2>1, <2>2, <2>3, ProbeAssumption, SumZero
<1>6. Cardinality(loops) = 2
  <2> DEFINE first == {"connection"}
  <2>1. IsFiniteSet(first) /\ Cardinality(first) = 1
    BY FS_Singleton
  <2>2. loops = first \cup {"stat"} /\ "stat" \notin first
    BY DEF Init
  <2> HIDE DEF first
  <2> QED
    BY <2>1, <2>2, FS_AddElement
<1>7. wg = 2
  BY DEF Init
<1>8. WaitGroupExact
  BY <1>5, <1>6, <1>7 DEF WaitGroupExact
<1>9. LateInv
  BY DEF Init, LateInv
<1> QED
  BY <1>2, <1>8, <1>9 DEF CountInv

\* Who is counted changes in step with wg, whatever happens.
LEMMA NextCounts ==
  ASSUME TypeOK, TypeOK', SenderOwnership, CountInv, [Next]_vars
  PROVE  HeldFinite' /\ WaitGroupExact'
<1> USE DEF swarmVars, probeVars, tableVars, lifetimeVars
<1>0. /\ HeldFinite /\ wg = Cardinality(loops) + Connectors
      /\ wg \in Int /\ loops \subseteq {"connection", "stat"}
  BY DEF CountInv, WaitGroupExact, TypeOK
<1>1. Connectors \in Nat
  BY <1>0, ConnectorsType
<1>2. IsFiniteSet(loops) /\ Cardinality(loops) \in Nat
  <2>1. IsFiniteSet({"connection"} \cup {"stat"})
    BY FS_Singleton, FS_AddElement
  <2>2. loops \in SUBSET ({"connection"} \cup {"stat"})
    BY <1>0
  <2> QED
    BY <2>1, <2>2, FS_Subset, FS_CardinalityType
<1>3. ASSUME HeldFinite', loops' = loops, wg' - wg = Connectors' - Connectors, wg' \in Int
      PROVE  WaitGroupExact'
  <2>1. (Connectors \in Nat)'
    BY <1>3, ConnectorsType, PTL
  <2>2. wg' = Cardinality(loops') + Connectors'
    BY <1>0, <1>1, <1>2, <1>3, <2>1
  <2> QED
    BY <2>2 DEF WaitGroupExact
<1>4. wg' \in Int
  BY DEF TypeOK
<1>5. ASSUME UNCHANGED connectorVars, loops' = loops, wg' = wg
      PROVE  HeldFinite' /\ WaitGroupExact'
  BY <1>0, <1>5, ConnectorsSame DEF WaitGroupExact
<1>6. ASSUME NEW c \in Conn, Swarm(c) \/ Handlers(c) PROVE HeldFinite' /\ WaitGroupExact'
  <2>1. CASE Swarm(c) \/ ConnectedTrack(c) \/ Disconnected(c)
    <3>1. UNCHANGED connectorVars /\ loops' = loops /\ wg' = wg
      BY <2>1 DEF Swarm, OpenConn, CloseConn, NotifyNobody, ConnectedTrack, Disconnected,
                  connectorVars
    <3> QED
      BY <1>5, <3>1
  <2>2. CASE ConnectedSpawn(c)
    <3>1. HeldFinite' /\ wg' = wg + 1 /\ Connectors' = Connectors + 1
      BY <1>0, <2>2, SpawnCounts
    <3>2. wg' - wg = Connectors' - Connectors
      BY <1>0, <1>1, <3>1
    <3>3. loops' = loops
      BY <2>2 DEF ConnectedSpawn
    <3> QED
      BY <1>3, <1>4, <3>1, <3>2, <3>3
  <2> QED
    BY <1>6, <2>1, <2>2 DEF Handlers
<1>7. CASE Register
  BY <1>5, <1>7 DEF Register, connectorVars
<1>8. ASSUME NEW p \in Peer, Connector(p) PROVE HeldFinite' /\ WaitGroupExact'
  <2>1. HeldFinite' /\ wg' - wg = Connectors' - Connectors
    BY <1>0, <1>8, ConnectorCounts
  <2>2. loops' = loops
    BY <1>8 DEF Connector, ConnectorGivesUp, ConnectorDials, DialFails, DialSucceeds
  <2> QED
    BY <1>3, <1>4, <2>1, <2>2
<1>9. ASSUME NEW s \in Sender, ConnectorEnd(s) PROVE HeldFinite' /\ WaitGroupExact'
  <2>1. HeldFinite' /\ wg' = wg - 1 /\ Connectors' = Connectors - 1
    BY <1>0, <1>9, ConnectorEndCounts
  <2>2. (Connectors \in Nat)'
    BY <2>1, ConnectorsType, PTL
  <2>3. wg' - wg = Connectors' - Connectors
    <3>1. wg' - wg = 0 - 1
      BY <1>0, <2>1
    <3>2. Connectors' - Connectors = 0 - 1
      BY <1>1, <2>1, <2>2
    <3> QED
      BY <3>1, <3>2
  <2>4. loops' = loops
    BY <1>9 DEF ConnectorEnd, ConnectorAttaches, ConnectorDiscards
  <2> QED
    BY <1>3, <1>4, <2>1, <2>3, <2>4
<1>10. CASE ConnectionLoopTick
  <2>1. HeldFinite' /\ wg' - wg = Connectors' - Connectors
    BY <1>0, <1>10, TickCounts
  <2>2. loops' = loops
    BY <1>10 DEF ConnectionLoopTick
  <2> QED
    BY <1>3, <1>4, <2>1, <2>2
<1>11. ASSUME NEW l \in {"connection", "stat"}, LoopExits(l)
       PROVE HeldFinite' /\ WaitGroupExact'
  <2>1. UNCHANGED connectorVars /\ l \in loops /\ loops' = loops \ {l} /\ wg' = wg - 1
    BY <1>11 DEF LoopExits
  <2>2. HeldFinite' /\ Connectors' = Connectors
    BY <1>0, <2>1, ConnectorsSame
  <2>3. Cardinality(loops') = Cardinality(loops) - 1
    BY <1>2, <2>1, FS_RemoveElement
  <2>4. wg' = Cardinality(loops') + Connectors'
    BY <1>0, <1>1, <1>2, <2>1, <2>2, <2>3
  <2> QED
    BY <2>2, <2>4 DEF WaitGroupExact
<1>12. ASSUME NEW k \in Closer, ShutdownCloses(k) \/ ShutdownReturns(k)
       PROVE HeldFinite' /\ WaitGroupExact'
  BY <1>5, <1>12 DEF ShutdownCloses, ShutdownReturns
<1>13. CASE UNCHANGED vars
  BY <1>5, <1>13 DEF vars
<1> QED
  BY <1>6, <1>7, <1>8, <1>9, <1>10, <1>11, <1>12, <1>13 DEF Next

\* Every step keeps at most one connector that started after Shutdown began.
LEMMA NextLate ==
  ASSUME TypeOK, TypeOK', SenderOwnership, CountInv, [Next]_vars
  PROVE  LateInv'
<1> USE DEF swarmVars, probeVars, tableVars, lifetimeVars
<1> DEFINE Returned == \E k \in Closer : shutdown[k] = "returned"
           Waits == \A k \in Closer : shutdown[k] # "idle" => closing
           Left == /\ closing /\ loops = {}
                   /\ Connectors <= 1
                   /\ handler # NoConn => Connectors = 0
<1>0. HeldFinite /\ Waits /\ (Returned => Left)
  BY DEF CountInv, LateInv
<1>1. Connectors \in Nat
  BY <1>0, ConnectorsType
<1>2. (Connectors \in Nat)'
  <2>1. HeldFinite'
    BY NextCounts
  <2> QED
    BY <2>1, ConnectorsType, PTL
<1>3. ASSUME UNCHANGED <<closing, shutdown>>, loops' \subseteq loops, handler' \in {handler, NoConn},
             Connectors' <= Connectors
      PROVE  LateInv'
  <2>1. Waits' /\ (Returned' => Returned)
    BY <1>0, <1>3
  <2>2. ASSUME Returned PROVE Left'
    <3>1. Left
      BY <1>0, <2>2
    <3>2. closing' /\ loops' = {}
      BY <1>3, <3>1
    <3>3. Connectors' <= 1
      BY <1>1, <1>2, <1>3, <3>1
    <3>4. ASSUME handler' # NoConn PROVE Connectors' = 0
      <4>1. Connectors = 0
        BY <1>3, <3>1, <3>4
      <4> QED
        BY <1>2, <1>3, <4>1
    <3> QED
      BY <3>2, <3>3, <3>4
  <2> QED
    BY <2>1, <2>2 DEF LateInv
<1>4. ASSUME UNCHANGED connectorVars PROVE Connectors' = Connectors /\ Connectors' <= Connectors
  BY <1>1, <1>4, ConnectorsSame
<1>5. ASSUME NEW c \in Conn, Swarm(c) \/ Handlers(c) PROVE LateInv'
  <2>1. CASE Swarm(c) \/ Disconnected(c)
    <3>1. UNCHANGED <<closing, shutdown, loops, handler, connectorVars>>
      BY <2>1 DEF Swarm, OpenConn, CloseConn, NotifyNobody, Disconnected
    <3> QED
      BY <1>3, <1>4, <3>1
  <2>2. CASE ConnectedTrack(c)
    <3>1. UNCHANGED <<closing, shutdown, loops, connectorVars>>
          /\ (closing => handler' = handler)
      BY <2>2 DEF ConnectedTrack, SeesClosing
    <3>2. CASE closing
      BY <1>3, <1>4, <3>1, <3>2
    <3>3. CASE ~closing
      <4>1. ~Returned' /\ Waits'
        BY <1>0, <3>1, <3>3
      <4> QED
        BY <4>1 DEF LateInv
    <3> QED
      BY <3>2, <3>3
  <2>3. CASE ConnectedSpawn(c)
    <3>1. /\ UNCHANGED <<closing, shutdown, loops>>
          /\ handler = c /\ handler' = NoConn /\ c # NoConn
      BY <2>3, ProbeAssumption DEF ConnectedSpawn, Unlocked
    <3>2. Connectors' = Connectors + 1
      BY <1>0, <2>3, SpawnCounts
    <3>3. Waits' /\ (Returned' => Returned)
      BY <1>0, <3>1
    <3>4. ASSUME Returned PROVE Left'
      <4>1. closing /\ loops = {} /\ Connectors = 0
        BY <1>0, <3>1, <3>4
      <4>2. Connectors' <= 1
        BY <3>2, <4>1
      <4> QED
        BY <3>1, <4>1, <4>2
    <3> QED
      BY <3>3, <3>4 DEF LateInv
  <2> QED
    BY <1>5, <2>1, <2>2, <2>3 DEF Handlers
<1>6. CASE Register
  <2>1. UNCHANGED <<closing, shutdown, loops, handler, connectorVars>>
    BY <1>6 DEF Register
  <2> QED
    BY <1>3, <1>4, <2>1
<1>7. ASSUME NEW p \in Peer, Connector(p) PROVE LateInv'
  <2>1. UNCHANGED <<closing, shutdown, loops, handler>>
    BY <1>7 DEF Connector, ConnectorGivesUp, ConnectorDials, DialFails, DialSucceeds
  <2>2. Connectors' <= Connectors
    BY <1>0, <1>7, ConnectorCounts
  <2> QED
    BY <1>3, <2>1, <2>2
<1>8. ASSUME NEW s \in Sender, ConnectorEnd(s) PROVE LateInv'
  <2>1. UNCHANGED <<closing, shutdown, loops, handler>>
    BY <1>8 DEF ConnectorEnd, ConnectorAttaches, ConnectorDiscards
  <2>2. Connectors' = Connectors - 1
    BY <1>0, <1>8, ConnectorEndCounts
  <2>3. Connectors' <= Connectors
    BY <1>1, <1>2, <2>2
  <2> QED
    BY <1>3, <2>1, <2>3
<1>9. CASE ConnectionLoopTick
  <2>1. UNCHANGED <<closing, shutdown>> /\ loops # {}
    BY <1>9 DEF ConnectionLoopTick
  <2>2. Waits' /\ ~Returned'
    BY <1>0, <2>1
  <2> QED
    BY <2>2 DEF LateInv
<1>10. ASSUME NEW l \in {"connection", "stat"}, LoopExits(l) PROVE LateInv'
  <2>1. UNCHANGED <<closing, shutdown, handler, connectorVars>> /\ loops' \subseteq loops
    BY <1>10 DEF LoopExits
  <2> QED
    BY <1>3, <1>4, <2>1
<1>11. ASSUME NEW k \in Closer, ShutdownCloses(k) PROVE LateInv'
  <2>1. /\ closing' /\ UNCHANGED <<loops, handler, connectorVars>>
        /\ (Returned' => Returned)
    BY <1>11 DEF ShutdownCloses, TypeOK
  <2>2. Connectors' = Connectors
    BY <1>4, <2>1
  <2> QED
    BY <1>0, <2>1, <2>2 DEF LateInv
<1>12. ASSUME NEW k \in Closer, ShutdownReturns(k) PROVE LateInv'
  <2>1. /\ UNCHANGED <<closing, loops, handler, connectorVars>>
        /\ shutdown[k] = "waiting" /\ shutdown' = [shutdown EXCEPT ![k] = "returned"]
        /\ wg = 0
    BY <1>12 DEF ShutdownReturns
  <2>2. closing /\ Waits'
    BY <1>0, <2>1 DEF TypeOK
  <2>3. IsFiniteSet(loops) /\ Cardinality(loops) \in Nat
    <3>1. IsFiniteSet({"connection"} \cup {"stat"})
      BY FS_Singleton, FS_AddElement
    <3>2. loops \in SUBSET ({"connection"} \cup {"stat"})
      BY DEF TypeOK
    <3> QED
      BY <3>1, <3>2, FS_Subset, FS_CardinalityType
  <2>4. 0 = Cardinality(loops) + Connectors
    BY <2>1 DEF CountInv, WaitGroupExact
  <2>5. Cardinality(loops) = 0 /\ Connectors = 0
    BY <1>1, <2>3, <2>4
  <2>6. loops = {}
    BY <2>3, <2>5, FS_EmptySet
  <2>7. Connectors' = 0
    BY <1>4, <2>1, <2>5
  <2>8. Left'
    BY <2>1, <2>2, <2>6, <2>7
  <2> QED
    BY <2>2, <2>8 DEF LateInv
<1>13. CASE UNCHANGED vars
  <2>1. UNCHANGED <<closing, shutdown, loops, handler, connectorVars>>
    BY <1>13 DEF vars
  <2> QED
    BY <1>3, <1>4, <2>1
<1> QED
  BY <1>5, <1>6, <1>7, <1>8, <1>9, <1>10, <1>11, <1>12, <1>13 DEF Next

\* The invariant about the WaitGroup holds in every behaviour.
LEMMA CountInvariant == Spec => [](TypeOK /\ SenderOwnership /\ CountInv)
<1>1. TypeOK /\ TypeOK' /\ SenderOwnership /\ CountInv /\ [Next]_vars => CountInv'
  BY NextCounts, NextLate DEF CountInv
<1> QED
  BY <1>1, InitType, NextType, InitSenders, NextSenders, InitCount, PTL DEF Spec

\* The WaitGroup counts the goroutines Shutdown has to wait for, no more and no
\* fewer, with any number of peers and connectors.
THEOREM WaitGroupCounts == Spec => []WaitGroupExact
<1>1. CountInv => WaitGroupExact
  BY DEF CountInv
<1> QED
  BY <1>1, CountInvariant, PTL

\* The types of the probe's variables, and a WaitGroup that never goes negative:
\* nobody calls Done who was not added.
THEOREM ProbeCorrect == Spec => []ProbeInv
<1>1. TypeOK /\ CountInv => ProbeInv
  <2> SUFFICES ASSUME TypeOK, CountInv PROVE ProbeInv
    OBVIOUS
  <2>1. IsFiniteSet({"connection"} \cup {"stat"})
    BY FS_Singleton, FS_AddElement
  <2>2. loops \subseteq {"connection"} \cup {"stat"}
    BY DEF TypeOK
  <2>3. Cardinality(loops) \in Nat
    BY <2>1, <2>2, FS_Subset, FS_CardinalityType
  <2>4. Connectors \in Nat
    BY ConnectorsType DEF CountInv
  <2>5. wg = Cardinality(loops) + Connectors
    BY DEF CountInv, WaitGroupExact
  <2> QED
    BY <2>3, <2>4, <2>5 DEF ProbeInv
<1> QED
  BY <1>1, CountInvariant, PTL

\* Although Connected checks wt.closing before it adds to the WaitGroup, one
\* connector at most is running once a Shutdown has returned.
THEOREM OneLateConnector == Spec => []AtMostOneLateConnector
<1>1. CountInv => AtMostOneLateConnector
  BY DEF CountInv, LateInv, AtMostOneLateConnector
<1> QED
  BY <1>1, CountInvariant, PTL

===============================================================================
