------------------------------ MODULE Population ------------------------------
(***************************************************************************)
(* populatePrometheus (metricplugin/metric_export.go): a round asks the    *)
(* node for its connections and its peers and then fills three families of *)
(* gauges, each in the same way: it reads something of every peer or       *)
(* connection, one at a time, counts labels, resets the family and sets    *)
(* its series one by one.  The node changes in between, and a scrape sees  *)
(* whatever is set.  Ties between agent versions are broken arbitrarily:   *)
(* sort.Slice is not stable and starts from the order of a map.            *)
(***************************************************************************)
EXTENDS Node

CONSTANTS CutOff \* AgentVersionCutOff

Others == "others"

\* Init (Plugin) leaves no cut-off below 1.  A peer may call itself "others".
ASSUME PopulationAssumption == CutOff \in Nat \ {0} /\ Others \in Version

Family == {"protocols", "versions", "streams"}
Label == [protocols |-> Protocol,
          versions  |-> Version,
          streams   |-> {<<s.protocol, s.direction>> : s \in Stream}]

VARIABLES
  at,           \* "waiting", "conns", "peers", "counting" or "setting"
  family,       \* the family being filled, or the last one filled
  currentConns, currentPeers,
  todo,         \* the peers or connections still to read
  counts,       \* label -> how often it was read
  unset,        \* the series still to set
  rest,         \* the agent versions beyond the cut-off
  gauges,       \* per family: series -> value, what a scrape sees
  \* history, not in the code
  read          \* per peer: the agent version read in this round, or None

snapshots == <<currentConns, currentPeers>>
fillVars  == <<family, todo, counts, unset, rest, gauges, read>>
loopVars  == <<at, snapshots, fillVars>>
vars      == <<nodeVars, loopVars>>

TypeOK ==
  /\ NodeTypeOK
  /\ at \in {"waiting", "conns", "peers", "counting", "setting"}
  /\ family \in Family
  /\ currentConns \subseteq Conn /\ currentPeers \subseteq Peer
  /\ todo \subseteq (IF family = "streams" THEN Conn ELSE Peer)
  /\ counts \in [Label[family] -> Nat]
  /\ unset \subseteq Label[family] /\ rest \subseteq Version
  /\ \A f \in Family : /\ DOMAIN gauges[f] \subseteq Label[f]
                       /\ \A l \in DOMAIN gauges[f] : gauges[f][l] \in Nat
  /\ read \in [Peer -> Version \cup {None}]

Init ==
  /\ NodeInit
  /\ at = "waiting" /\ family = "protocols"
  /\ currentConns = {} /\ currentPeers = {} /\ todo = {}
  /\ counts = [l \in Protocol |-> 0]
  /\ unset = {} /\ rest = {}
  /\ gauges = [f \in Family |-> <<>>]
  /\ read = [p \in Peer |-> None]

\* The labels of the family that were read.
Seen == {l \in Label[family] : counts[l] > 0}

-------------------------------------------------------------------------------
(* Faulty variants of definitions below, none part of Spec: with one in place *)
(* of the definition it is named after, TLC reports a property as violated.   *)

Cleared_Not(f) == gauges[f]                      \* Reset() is missing
Ranked_Ascending(v, w) == counts[v] <= counts[w] \* "<" in the Less function
Beyond_OneLess(series) ==                        \* sorted[maxIndex+1:]
  {v \in Seen \ series : \E w \in Seen \ series : w # v}
PeersNow_Known == known                          \* Peerstore.Peers()
PeersNow_Cached == currentPeers                  \* the list of an earlier round
StreamItems_Peers == currentPeers                \* the wrong list

-------------------------------------------------------------------------------
TickFires ==
  /\ at = "waiting"
  /\ at' = "conns"
  /\ Begins
  /\ UNCHANGED <<nodeState, snapshots, fillVars>>

GetConns ==
  /\ at = "conns"
  /\ currentConns' = open
  /\ at' = "peers"
  /\ UNCHANGED <<nodeVars, currentPeers, fillVars>>

\* From here on the two lists are all the round knows of the node's peers.
StartFamily(f, items) ==
  /\ at' = "counting"
  /\ family' = f
  /\ todo' = items
  /\ counts' = [l \in Label[f] |-> 0]
  /\ rest' = {}

PeersNow == Peers

GetPeers ==
  /\ at = "peers"
  /\ currentPeers' = PeersNow
  /\ StartFamily("protocols", currentPeers')
  /\ UNCHANGED <<nodeVars, currentConns, unset, gauges, read>>

\* What is counted under a label at a peer or connection, when it is read.
ProtocolFound(p, x) == {y \in protocols[p] : y = x}
VersionFound(p, v)  == {w \in Version : w = agent[p] /\ w = v}
StreamsFound(c, l)  == {s \in streams[c] : <<s.protocol, s.direction>> = l}
Found(i, l) == CASE family = "protocols" -> ProtocolFound(i, l)
                 [] family = "versions"  -> VersionFound(i, l)
                 [] family = "streams"   -> StreamsFound(i, l)

Count(i) ==
  /\ at = "counting" /\ i \in todo
  /\ todo' = todo \ {i}
  /\ counts' = [l \in Label[family] |-> counts[l] + Cardinality(Found(i, l))]
  /\ read' = IF family = "versions" THEN [read EXCEPT ![i] = agent[i]] ELSE read
  /\ UNCHANGED <<nodeVars, at, snapshots, family, unset, rest, gauges>>

Ranked(v, w) == counts[v] >= counts[w]
NumShown(n) == IF CutOff >= n THEN n ELSE CutOff
Cleared(f) == <<>>
Beyond(series) == Seen \ series

\* Every label has a series, but agent versions only as far as CutOff.
Shown ==
  IF family = "versions"
  THEN {top \in SUBSET Seen : /\ Cardinality(top) = NumShown(Cardinality(Seen))
                              /\ \A v \in top, w \in Seen \ top : Ranked(v, w)}
  ELSE {Seen}

ResetFamily ==
  /\ at = "counting" /\ todo = {}
  /\ at' = "setting"
  /\ gauges' = [gauges EXCEPT ![family] = Cleared(family)]
  /\ \E series \in Shown : unset' = series /\ rest' = Beyond(series)
  /\ UNCHANGED <<nodeVars, snapshots, family, todo, counts, read>>

WithSeries(g, l, n) == [x \in DOMAIN g \cup {l} |-> IF x = l THEN n ELSE g[x]]

SetSeries(l) ==
  /\ at = "setting" /\ l \in unset
  /\ unset' = unset \ {l}
  /\ gauges' = [gauges EXCEPT ![family] = WithSeries(@, l, counts[l])]
  /\ UNCHANGED <<nodeVars, at, snapshots, family, todo, counts, rest, read>>

AllSet(f) == at = "setting" /\ family = f /\ unset = {}

ProtocolsDone ==
  /\ AllSet("protocols")
  /\ StartFamily("versions", currentPeers)
  /\ read' = [p \in Peer |-> None]
  /\ UNCHANGED <<nodeVars, snapshots, unset, gauges>>

StreamItems == currentConns

\* "Add all other agent versions": their sum is the last series set.
VersionsDone ==
  /\ AllSet("versions")
  /\ LET avSum == SumFunctionOnSet(counts, rest)
     IN gauges' = [gauges EXCEPT !.versions = WithSeries(@, Others, avSum)]
  /\ StartFamily("streams", StreamItems)
  /\ UNCHANGED <<nodeVars, snapshots, unset, read>>

StreamsDone ==
  /\ AllSet("streams")
  /\ at' = "waiting"
  /\ UNCHANGED <<nodeVars, snapshots, fillVars>>

-------------------------------------------------------------------------------
Next ==
  \/ NodeStep /\ UNCHANGED loopVars
  \/ TickFires \/ GetConns \/ GetPeers
  \/ \E i \in todo : Count(i)
  \/ ResetFamily
  \/ \E l \in unset : SetSeries(l)
  \/ ProtocolsDone \/ VersionsDone \/ StreamsDone

Spec == Init /\ [][Next]_vars

-------------------------------------------------------------------------------
(* Safety *)

\* The protocols, and the agent versions, are those of this round.
InRound == at \notin {"conns", "peers"}
ProtocolsFilled == InRound /\ family \in {"versions", "streams"}
VersionsFilled  == InRound /\ family = "streams"

Counted == {p \in Peer : read[p] # None}
Having(v) == {p \in Peer : read[p] = v}
Value(f, l) == IF l \in DOMAIN gauges[f] THEN gauges[f][l] ELSE 0

\* "Number of currently connected peers, distinguished by their agent_version":
\* every peer whose version was read is in one series and no other, except that
\* the peers who call themselves "others" may be in none, all of them together:
\* their series, if it is shown, is overwritten by the sum of the remainder.
PeersCountedOnce ==
  VersionsFilled =>
    Cardinality(Counted) - SumFunction(gauges.versions) \in {0, Cardinality(Having(Others))}

\* The series shown are CutOff of the most frequent versions of this round, each
\* with its number of peers, and no version of an earlier round is left; if a
\* peer calls itself "others" there may be one less.
TopVersionsShown ==
  VersionsFilled =>
    LET shown == DOMAIN gauges.versions \ {Others}
        hidden == Version \ (shown \cup {Others})
        taken == IF Having(Others) = {} THEN 0 ELSE 1
    IN
    /\ Cardinality(shown) <= CutOff
    /\ \A v \in shown : /\ gauges.versions[v] = Cardinality(Having(v))
                        /\ Having(v) # {}
                        /\ \A w \in hidden : Cardinality(Having(w)) <= gauges.versions[v]
    /\ Cardinality(shown) + taken < CutOff => \A w \in hidden : Having(w) = {}

\* Both: the agent versions a round shows are right, and so is their remainder.
VersionsShownRight == PeersCountedOnce /\ TopVersionsShown

\* Peers that come and go leave the round in doubt only about themselves: a peer
\* that stayed connected, with one version, is counted under it, and one that
\* was never connected is not.
SteadyPeersCounted ==
  VersionsFilled =>
    /\ \A p \in steady : read[p] = agent[p]
    /\ Counted \subseteq met

\* The same of protocols, which change independently of the version: the value
\* of a series lies between the peers that stayed connected and supported it all
\* the time and those that were connected and supported it at some time.
SteadyProtocolsCounted ==
  ProtocolsFilled =>
    \A x \in Protocol :
      /\ Cardinality({p \in Peer : x \in always[p]}) <= Value("protocols", x)
      /\ Value("protocols", x) <= Cardinality({p \in met : x \in ever[p]})

\* Both: a round that reads the node piece by piece is right about those who stay.
SteadyCounted == SteadyPeersCounted /\ SteadyProtocolsCounted

\* After a round no stream series is left of an earlier one: what is shown is on
\* a connection of this round's list.
NoStaleStreams ==
  at = "waiting" /\ VersionsFilled =>
    /\ currentConns = {} => DOMAIN gauges.streams = {}
    /\ \A l \in DOMAIN gauges.streams : gauges.streams[l] = counts[l] /\ counts[l] > 0
===============================================================================
