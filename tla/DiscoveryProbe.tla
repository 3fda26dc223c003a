---------------------------- MODULE DiscoveryProbe ----------------------------
(***************************************************************************)
(* The Bitswap discovery probe (metricplugin/bitswap_discovery_probe.go):  *)
(* the connectionManager that follows the swarm's connection events, the   *)
(* connectBitswap goroutines that give every connected peer one Bitswap    *)
(* sender, the two periodic loops, and Shutdown.                           *)
(*                                                                         *)
(* Granularity.  Everything done under connManager.lock without a blocking *)
(* call is one action.  Connected is two: it reads wt.closing and later    *)
(* calls wg.Add, and Shutdown, which does not take that lock, can run in   *)
(* between; `handler' is the handler that holds the lock there.            *)
(*                                                                         *)
(* connectBitswap goroutines of one peer are interchangeable until they    *)
(* own a sender, so they are counted per peer.                             *)
(***************************************************************************)
EXTENDS Integers, FiniteSets, Functions

CONSTANTS Peer, Conn, Sender,
          Closer,         \* callers of Shutdown
          RemotePeer,     \* conn.RemotePeer()
          Transient,      \* connections whose Stat().Transient is set
          MaxConnectors,  \* bound: connectors per peer, see Expected
          NoConn, NoPeer, NoSender,
          Untracked       \* what SenderTable calls a peer without an entry

ASSUME ProbeAssumption ==
  /\ IsFiniteSet(Peer)
  /\ RemotePeer \in [Conn -> Peer]
  /\ Transient \subseteq Conn
  /\ MaxConnectors \in Nat \ {0}
  /\ NoConn \notin Conn
  /\ NoPeer \notin Peer
  /\ NoSender \notin Sender
  /\ Untracked \notin Sender \cup {NoSender}

VARIABLES
  \* the libp2p swarm and Bitswap network (external)
  up,          \* connections the swarm has
  opened,      \* connections whose Connected notification is not finished
  gone,        \* connections with a Disconnected notification to deliver
  registered,  \* Network().Notify(probe) has been called
  open,        \* senders created and not closed
  \* connManager
  handler,         \* Connected handler past its closing check, holding the lock
  allConnections,  \* keys of allConnections
  tracked,         \* keys of peers
  connections,     \* peers[p].connections
  sender,          \* peers[p].bitswapSender
  \* connectBitswap goroutines
  sleeping,  \* per peer: before the first critical section
  dialing,   \* per peer: inside NewMessageSender
  held,      \* per sender: the peer its connector is about to attach it to
  \* lifetime
  closing,   \* wt.closing is closed
  loops,     \* periodic loops still running
  wg,        \* wt.wg
  shutdown   \* program counter of every Shutdown caller

swarmVars     == <<up, opened, gone, registered>>
tableVars     == <<allConnections, tracked, connections, sender>>
connectorVars == <<sleeping, dialing, held>>
lifetimeVars  == <<closing, loops, shutdown>>
probeVars     == <<open, handler, tableVars, connectorVars, lifetimeVars, wg>>
vars          == <<swarmVars, probeVars>>

TypeOK ==
  /\ up \subseteq Conn /\ opened \subseteq Conn /\ gone \subseteq Conn
  /\ registered \in BOOLEAN
  /\ open \subseteq Sender
  /\ handler \in Conn \cup {NoConn}
  /\ allConnections \subseteq Conn
  /\ tracked \subseteq Peer
  /\ connections \in [Peer -> SUBSET Conn]
  /\ sender \in [Peer -> Sender \cup {NoSender}]
  /\ sleeping \in [Peer -> Nat]
  /\ dialing \in [Peer -> Nat]
  /\ held \in [Sender -> Peer \cup {NoPeer}]
  /\ closing \in BOOLEAN
  /\ loops \subseteq {"connection", "stat"}
  /\ wg \in Int
  /\ shutdown \in [Closer -> {"idle", "waiting", "returned"}]

\* NewProbe: an empty table, two loops started.
Init ==
  /\ up = {} /\ opened = {} /\ gone = {}
  /\ registered = FALSE
  /\ open = {}
  /\ handler = NoConn
  /\ allConnections = {}
  /\ tracked = {}
  /\ connections = [p \in Peer |-> {}]
  /\ sender = [p \in Peer |-> NoSender]
  /\ sleeping = [p \in Peer |-> 0]
  /\ dialing = [p \in Peer |-> 0]
  /\ held = [s \in Sender |-> NoPeer]
  /\ closing = FALSE
  /\ loops = {"connection", "stat"}
  /\ wg = 2
  /\ shutdown = [k \in Closer |-> "idle"]

Held == {s \in Sender : held[s] # NoPeer}

ConnectorsOf(p) ==
  sleeping[p] + dialing[p] + Cardinality({s \in Sender : held[s] = p})

\* Connectors of p, and handlers that may still start one: what MaxConnectors
\* bounds.  A guard of OpenConn and not of Connected, which never waits for it.
Expected(p) ==
  ConnectorsOf(p) + Cardinality({c \in opened : RemotePeer[c] = p})

\* All connectBitswap goroutines.
Connectors == SumFunction([p \in Peer |-> ConnectorsOf(p)])

-------------------------------------------------------------------------------
(* Faulty variants of definitions below, none part of Spec: with one in place *)
(* of the definition it is named after, TLC reports a property as violated.   *)

HasEntry_Never(p) == FALSE              \* Connected builds a new peerConnection
SeesClosing_Never == FALSE              \* Connected does not look at wt.closing
Unlocked_Not == handler                 \* the deferred Unlock is missing
Forgotten_Not(c) == allConnections      \* Disconnected keeps the connection ID
IsLastConnection_Any(p, c) == p \in tracked \* it does not count what is left
Closed_Not(s) == open                   \* a sender is dropped without Close
Reusable_IfTracked(p) == p \in tracked  \* no look at a sender added meanwhile
Accounted_Not == wg                     \* Connected starts a connector without wg.Add
AfterDone_Twice == wg - 2               \* wg.Done() on top of the deferred one
AfterDone_Missing == wg                 \* the deferred wg.Done() is missing
MissingSender_Inverted == {p \in tracked : sender[p] # NoSender}
LockFree_NotWhileDialing ==             \* connectBitswap dials with the lock held
  handler = NoConn /\ \A p \in Peer : dialing[p] = 0

-------------------------------------------------------------------------------
(* The swarm.  A connection ID is fresh: it is not used again before the   *)
(* notifications of its earlier use are over.  Connected of a connection   *)
(* ends before its Disconnected starts.                                    *)

OpenConn(c) ==
  /\ c \notin up \cup opened \cup gone
  /\ Expected(RemotePeer[c]) < MaxConnectors
  /\ up' = up \cup {c}
  /\ opened' = opened \cup {c}
  /\ UNCHANGED <<gone, registered, probeVars>>

CloseConn(c) ==
  /\ c \in up
  /\ up' = up \ {c}
  /\ gone' = gone \cup {c}
  /\ UNCHANGED <<opened, registered, probeVars>>

\* Notifications of a time at which the probe is not registered reach nobody.
NotifyNobody(c) ==
  /\ ~registered
  /\ \/ c \in opened /\ opened' = opened \ {c} /\ UNCHANGED gone
     \/ c \in gone \ opened /\ gone' = gone \ {c} /\ UNCHANGED opened
  /\ UNCHANGED <<up, registered, probeVars>>

\* Start registers the probe after NewProbe, on a node that is already online.
Register ==
  /\ ~registered
  /\ registered' = TRUE
  /\ UNCHANGED <<up, opened, gone, probeVars>>

-------------------------------------------------------------------------------
(* Network event handlers *)

LockFree == handler = NoConn

HasEntry(p) == p \in tracked
SeesClosing == closing
Unlocked == NoConn
Accounted == wg + 1

\* Connected up to the closing check: record the connection; when the probe is
\* closing the handler returns here, otherwise it keeps the lock.
ConnectedTrack(c) ==
  LET p == RemotePeer[c] IN
  /\ registered /\ c \in opened /\ LockFree
  /\ allConnections' = allConnections \cup {c}
  /\ tracked' = tracked \cup {p}
  /\ connections' = [connections EXCEPT
                       ![p] = IF HasEntry(p) THEN @ \cup {c} ELSE {c}]
  /\ sender' = [sender EXCEPT ![p] = IF HasEntry(p) THEN @ ELSE NoSender]
  /\ IF SeesClosing THEN opened' = opened \ {c} /\ UNCHANGED handler
                ELSE handler' = c /\ UNCHANGED opened
  /\ UNCHANGED <<up, gone, registered, open, connectorVars, lifetimeVars, wg>>

\* wg.Add(1), go connectBitswap, deferred Unlock.
ConnectedSpawn(c) ==
  /\ handler = c /\ c \in opened
  /\ wg' = Accounted
  /\ sleeping' = [sleeping EXCEPT ![RemotePeer[c]] = @ + 1]
  /\ handler' = Unlocked
  /\ opened' = opened \ {c}
  /\ UNCHANGED <<up, gone, registered, open, tableVars, dialing, held, lifetimeVars>>

IsLastConnection(p, c) == p \in tracked /\ connections[p] \subseteq {c}
Forgotten(c) == allConnections \ {c}
Closed(s) == open \ {s}

\* Disconnected.  The notification may come again ("We occasionally receive
\* duplicate disconnection events").
Disconnected(c) ==
  LET p == RemotePeer[c] IN
  /\ registered /\ c \in gone \ opened /\ LockFree
  /\ gone' \in {gone, gone \ {c}}
  /\ allConnections' = Forgotten(c)
  /\ connections' = [connections EXCEPT ![p] = @ \ {c}]
  /\ IF IsLastConnection(p, c)
     THEN /\ tracked' = tracked \ {p}
          /\ sender' = [sender EXCEPT ![p] = NoSender]
          /\ open' = Closed(sender[p])
     ELSE UNCHANGED <<tracked, sender, open>>
  /\ UNCHANGED <<up, opened, registered, handler, connectorVars, lifetimeVars, wg>>

-------------------------------------------------------------------------------
(* connectBitswap *)

\* The deferred wg.Done().
AfterDone == wg - 1

\* After its sleep a connector goes on only for a tracked peer that has no
\* sender and at least one connection that is not transient.
WantsSender(p) == p \in tracked /\ sender[p] = NoSender
MayDial(p) == WantsSender(p) /\ ~(connections[p] \subseteq Transient)

ConnectorGivesUp(p) ==
  /\ sleeping[p] > 0 /\ LockFree
  /\ ~MayDial(p)
  /\ sleeping' = [sleeping EXCEPT ![p] = @ - 1]
  /\ wg' = AfterDone
  /\ UNCHANGED <<swarmVars, open, handler, tableVars, dialing, held, lifetimeVars>>

ConnectorDials(p) ==
  /\ sleeping[p] > 0 /\ LockFree
  /\ MayDial(p)
  /\ sleeping' = [sleeping EXCEPT ![p] = @ - 1]
  /\ dialing' = [dialing EXCEPT ![p] = @ + 1]
  /\ UNCHANGED <<swarmVars, open, handler, tableVars, held, lifetimeVars, wg>>

\* A dial may fail at any time: it may time out even while it waits for an
\* announcement.  It need not; see Fairness.
DialFails(p) ==
  /\ dialing[p] > 0
  /\ dialing' = [dialing EXCEPT ![p] = @ - 1]
  /\ wg' = AfterDone
  /\ UNCHANGED <<swarmVars, open, handler, tableVars, sleeping, held, lifetimeVars>>

\* NewMessageSender returns a fresh sender.  It uses a connection that exists, or
\* reconnects; a new connection is announced to the probe before the dial gets
\* it, so an announcement that waits for the lock makes the dial wait too.
Announced(p) ==
  LET ofPeer == {c \in Conn : RemotePeer[c] = p}
  IN  ofPeer \cap (up \ opened) # {} \/ ofPeer \cap opened = {}

DialSucceeds(p, s) ==
  /\ dialing[p] > 0
  /\ s \notin open
  /\ Announced(p)
  /\ dialing' = [dialing EXCEPT ![p] = @ - 1]
  /\ open' = open \cup {s}
  /\ held' = [held EXCEPT ![s] = p]
  /\ UNCHANGED <<swarmVars, handler, tableVars, sleeping, lifetimeVars, wg>>

\* Second critical section: only connectivity and the sender are checked again.
Reusable(p) == WantsSender(p)

ConnectorAttaches(s) ==
  /\ held[s] # NoPeer /\ LockFree
  /\ Reusable(held[s])
  /\ sender' = [sender EXCEPT ![held[s]] = s]
  /\ held' = [held EXCEPT ![s] = NoPeer]
  /\ wg' = AfterDone
  /\ UNCHANGED <<swarmVars, open, handler, allConnections, tracked,
                 connections, sleeping, dialing, lifetimeVars>>

ConnectorDiscards(s) ==
  /\ held[s] # NoPeer /\ LockFree
  /\ ~Reusable(held[s])
  /\ open' = Closed(s)
  /\ held' = [held EXCEPT ![s] = NoPeer]
  /\ wg' = AfterDone
  /\ UNCHANGED <<swarmVars, handler, tableVars, sleeping, dialing, lifetimeVars>>

-------------------------------------------------------------------------------
(* Periodic loops and Shutdown *)

MissingSender == {p \in tracked : sender[p] = NoSender}

\* A tick of bitswapConnectionLoop.  With both channels ready its select may
\* take the ticker even after closing.
ConnectionLoopTick ==
  /\ "connection" \in loops /\ LockFree
  /\ MissingSender # {}
  /\ \A p \in MissingSender : Expected(p) < MaxConnectors
  /\ sleeping' = [p \in Peer |->
                    IF p \in MissingSender THEN sleeping[p] + 1 ELSE sleeping[p]]
  /\ wg' = wg + Cardinality(MissingSender)
  /\ UNCHANGED <<swarmVars, open, handler, tableVars, dialing, held, lifetimeVars>>

\* Either loop sees closing at its select and returns.
LoopExits(l) ==
  /\ closing /\ l \in loops
  /\ loops' = loops \ {l}
  /\ wg' = wg - 1
  /\ UNCHANGED <<swarmVars, open, handler, tableVars, connectorVars, closing, shutdown>>

\* Shutdown: close wt.closing unless closed, under closeLock, then wg.Wait().
\* The plugin calls it only after Start, hence after Register.
ShutdownCloses(k) ==
  /\ registered /\ shutdown[k] = "idle"
  /\ closing' = TRUE
  /\ shutdown' = [shutdown EXCEPT ![k] = "waiting"]
  /\ UNCHANGED <<swarmVars, open, handler, tableVars, connectorVars, loops, wg>>

ShutdownReturns(k) ==
  /\ shutdown[k] = "waiting" /\ wg = 0
  /\ shutdown' = [shutdown EXCEPT ![k] = "returned"]
  /\ UNCHANGED <<swarmVars, open, handler, tableVars, connectorVars, closing, loops, wg>>

-------------------------------------------------------------------------------
Swarm(c) == OpenConn(c) \/ CloseConn(c) \/ NotifyNobody(c)
Handlers(c) == ConnectedTrack(c) \/ ConnectedSpawn(c) \/ Disconnected(c)
Connector(p) ==
  \/ ConnectorGivesUp(p) \/ ConnectorDials(p) \/ DialFails(p)
  \/ \E s \in Sender : DialSucceeds(p, s)
ConnectorEnd(s) == ConnectorAttaches(s) \/ ConnectorDiscards(s)

Next ==
  \/ \E c \in Conn : Swarm(c) \/ Handlers(c)
  \/ Register
  \/ \E p \in Peer : Connector(p)
  \/ \E s \in Sender : ConnectorEnd(s)
  \/ ConnectionLoopTick
  \/ \E l \in {"connection", "stat"} : LoopExits(l)
  \/ \E k \in Closer : ShutdownCloses(k) \/ ShutdownReturns(k)

Spec == Init /\ [][Next]_vars

(* Fairness.  The swarm and the callers of Shutdown owe nothing.  Goroutines  *)
(* run.  connManager.lock is a Go mutex, which starves nobody (its starvation *)
(* mode hands it over in FIFO order): strong fairness for whatever waits for  *)
(* it.  NewMessageSender returns unless the announcement of a connection of   *)
(* its peer never ends (its context, context.Background(), has no deadline),  *)
(* and among unboundedly many dials of a peer some succeed.                   *)
Fairness ==
  /\ WF_vars(Register)
  /\ \A c \in Conn :
       /\ WF_vars(NotifyNobody(c))
       /\ SF_vars(ConnectedTrack(c))
       /\ WF_vars(ConnectedSpawn(c))
       /\ SF_vars(Disconnected(c))
  /\ \A p \in Peer :
       /\ SF_vars(ConnectorGivesUp(p) \/ ConnectorDials(p))
       /\ (\A c \in Conn : RemotePeer[c] = p => []<>(c \notin opened))
            => WF_vars(DialFails(p) \/ \E s \in Sender : DialSucceeds(p, s))
       /\ SF_vars(\E s \in Sender : DialSucceeds(p, s))
  /\ \A s \in Sender : SF_vars(ConnectorEnd(s))
  /\ SF_vars(ConnectionLoopTick)
  /\ \A l \in {"connection", "stat"} : WF_vars(LoopExits(l))
  /\ \A k \in Closer : WF_vars(ShutdownReturns(k))

FairSpec == Spec /\ Fairness

-------------------------------------------------------------------------------
(* Safety *)

\* The types, and the WaitGroup's counter is not negative (it would panic):
\* every goroutine that calls Done was added before.
ProbeInv == TypeOK /\ wg >= 0

\* The three maps of connectionManager agree: a peer has an entry exactly while
\* it has a recorded connection, connections are filed under their own peer,
\* and allConnections is the union of the entries.
TableConsistent ==
  /\ \A p \in Peer : p \in tracked <=> connections[p] # {}
  /\ \A p \in Peer : \A c \in connections[p] : RemotePeer[c] = p
  /\ \A c \in Conn : c \in allConnections <=> c \in connections[RemotePeer[c]]

\* No sender is lost, shared or used after Close by the table: the senders not
\* closed are those on their way from a connector to the table and those in
\* it; none is both, and no two peers have the same one.  Untracked peers have
\* none ("If we're not connected anymore, we destroy the sender").
SenderOwnership ==
  /\ \A s \in Sender :
       s \in open <=> (held[s] # NoPeer \/ \E p \in Peer : sender[p] = s)
  /\ \A p \in Peer :
       sender[p] # NoSender => p \in tracked /\ held[sender[p]] = NoPeer
  /\ \A p, q \in Peer : sender[p] = sender[q] /\ p # q => sender[p] = NoSender

\* A recorded connection still exists, or its Disconnected is on its way: the
\* table has no phantom that nothing will ever remove.
NoPhantomConnection == allConnections \subseteq up \cup gone

\* The WaitGroup counts the goroutines Shutdown has to wait for, no more (it
\* would wait for ever) and no fewer (it would panic or return early).
WaitGroupExact ==
  wg = Cardinality(loops) + Connectors

\* The code's check-then-Add in Connected lets a connector start after a
\* Shutdown has returned, but one only: the handler in that window holds the
\* lock, and every later handler sees closing.
AtMostOneLateConnector ==
  (\E k \in Closer : shutdown[k] = "returned") =>
    loops = {} /\ Connectors <= 1

\* The sender of a peer is never replaced: it leaves the table only together
\* with the peer's entry and is closed in that step.
SenderLeavesWithPeer ==
  [][\A p \in Peer : sender[p] # NoSender /\ sender'[p] # sender[p] =>
       p \notin tracked' /\ sender[p] \notin open']_vars

\* The comment on Shutdown: "This will block until all goroutines have quit".
ShutdownWaitsForGoroutines ==
  (\E k \in Closer : shutdown[k] = "returned") =>
    loops = {} /\ \A p \in Peer : ConnectorsOf(p) = 0

(* The probe is a SenderTable once connectors are hidden: a sender counts as *)
(* live from the moment it enters the table.                                 *)
Table == INSTANCE SenderTable WITH
           slot <- [p \in Peer |-> IF p \in tracked THEN sender[p] ELSE Untracked],
           live <- open \ Held
ImplementsSenderTable == Table!TableSpec

-------------------------------------------------------------------------------
(* Liveness, under FairSpec *)

\* The swarm delivers notifications synchronously, so a stuck Connected handler
\* stalls it: every handler finishes, whatever the dials do.
HandlersReturn ==
  \A c \in Conn : (registered /\ c \in opened) ~> c \notin opened

\* A connection that is gone is eventually forgotten.
PhantomsForgotten ==
  \A c \in Conn : (c \in allConnections \ up) ~> c \notin allConnections

\* The probe "attempts to hold an active Bitswap sender to each of them": a
\* peer that stays connected by a connection that is not transient gets one
\* and keeps it, although any single dial may fail, unless the probe closes.
PersistentPeerGetsSender ==
  \A p \in Peer :
    <>[](~closing /\ ~(connections[p] \subseteq Transient))
      => <>[](sender[p] # NoSender)

\* A Shutdown returns, whatever connectors and handlers were doing.
ShutdownTerminates ==
  \A k \in Closer : shutdown[k] = "waiting" ~> shutdown[k] = "returned"

\* The comment on BitswapDiscoveryProbe: "it looks like we converge with the
\* true IPFS connectivity after a while".
ConvergesWithSwarm ==
  \A c \in Conn : (registered /\ c \in up) ~> (c \in allConnections \/ c \notin up)
===============================================================================
