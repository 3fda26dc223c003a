---------------------------- MODULE ReadersProofs -----------------------------
(***************************************************************************)
(* Proofs about PeerSample and Population, for any node, any number of     *)
(* its changes and any cut-off.                                            *)
(***************************************************************************)
EXTENDS PeerSample, SumProofs, FiniteSetTheorems, TLAPS

-------------------------------------------------------------------------------
(* The node *)

\* There are finitely many connections.
LEMMA FiniteConn ==
  /\ IsFiniteSet(Conn) /\ Cardinality(Conn) \in Nat
  /\ \A S \in SUBSET Conn : IsFiniteSet(S) /\ Cardinality(S) \in 0..Cardinality(Conn)
<1>1. IsFiniteSet(Conn)
  BY NodeAssumption, FS_Product DEF Conn
<1>2. Cardinality(Conn) \in Nat
  BY <1>1, FS_CardinalityType
<1>3. ASSUME NEW S \in SUBSET Conn
      PROVE  IsFiniteSet(S) /\ Cardinality(S) \in 0..Cardinality(Conn)
  <2>1. IsFiniteSet(S) /\ Cardinality(S) <= Cardinality(Conn)
    BY <1>1, FS_Subset
  <2>2. Cardinality(S) \in Nat
    BY <2>1, FS_CardinalityType
  <2> QED
    BY <1>2, <2>1, <2>2
<1> QED
  BY <1>1, <1>2, <1>3

\* There are finitely many peers.
LEMMA FinitePeers ==
  \A S \in SUBSET Peer : IsFiniteSet(S) /\ Cardinality(S) \in Nat
<1> SUFFICES ASSUME NEW S \in SUBSET Peer PROVE IsFiniteSet(S) /\ Cardinality(S) \in Nat
  OBVIOUS
<1> QED
  BY NodeAssumption, FS_Subset, FS_CardinalityType

\* Connections are with peers.
LEMMA PeersArePeers ==
  ASSUME open \subseteq Conn
  PROVE  Peers \subseteq Peer /\ \A c \in Conn : PeerOf(c) \in Peer
BY DEF Peers, PeerOf, Conn

\* The node begins with its types and with every connected peer in the peerstore.
LEMMA InitNode ==
  ASSUME NodeInit
  PROVE  /\ NodeTypeOK /\ Peers \subseteq known /\ steady = {} /\ met = {}
         /\ always = [p \in Peer |-> {}]
<1>1. open \subseteq Conn /\ known \in {Peers, Peer} /\ Peers \subseteq Peer
  BY PeersArePeers DEF NodeInit
<1>2. streams \in [Conn -> SUBSET Stream]
  BY DEF NodeInit
<1>3. agent \in [Peer -> Version \cup {None}] /\ protocols \in [Peer -> SUBSET Protocol]
  BY DEF NodeInit
<1>4. changes \in 0..MaxChanges /\ steady = {} /\ met = {}
  BY NodeAssumption DEF NodeInit
<1>5. /\ always = [p \in Peer |-> {}] /\ ever = [p \in Peer |-> {}]
  BY DEF NodeInit
<1> QED
  BY <1>1, <1>2, <1>3, <1>4, <1>5 DEF NodeTypeOK

\* What a reader remembers when it begins: those connected now, and what they support.
LEMMA BeginsNow ==
  ASSUME NodeTypeOK, Begins, UNCHANGED nodeState
  PROVE  /\ NodeTypeOK' /\ Peers' = Peers /\ steady' = Peers /\ met' = Peers
         /\ \A p \in Peer : /\ \A x \in always'[p] : x \in protocols'[p] /\ p \in Peers'
                           /\ \A x \in protocols'[p] : x \in ever'[p]
<1>1. Peers \subseteq Peer /\ Peers' = Peers
  BY PeersArePeers DEF NodeTypeOK, nodeState, Peers
<1>2. /\ protocols \in [Peer -> SUBSET Protocol] /\ protocols' = protocols
      /\ always' = [p \in Peer |-> IF p \in Peers THEN protocols[p] ELSE {}]
      /\ ever' = protocols /\ steady' = Peers /\ met' = Peers
  BY DEF NodeTypeOK, Begins, nodeState
<1>3. always' \in [Peer -> SUBSET Protocol]
  BY <1>2
<1>4. NodeTypeOK'
  BY <1>1, <1>2, <1>3 DEF NodeTypeOK, nodeState
<1> QED
  BY <1>1, <1>2, <1>4

\* What a change of the node leaves as it was, for those who stay.
LEMMA NodeChanges ==
  ASSUME NodeTypeOK, NodeStep
  PROVE  /\ NodeTypeOK'
         /\ steady' \subseteq steady /\ steady' \subseteq Peers'
         /\ met \subseteq met' /\ Peers' \subseteq met'
         /\ \A p \in steady' : agent'[p] = agent[p]
         /\ \A p \in Peer : /\ \A x \in always'[p] : x \in always[p] /\ x \in protocols'[p] /\ p \in Peers'
                           /\ (\A x \in ever[p] : x \in ever'[p]) /\ \A x \in protocols'[p] : x \in ever'[p]
         /\ Peers \subseteq known => Peers' \subseteq known'
<1>0. /\ open \subseteq Conn /\ streams \in [Conn -> SUBSET Stream] /\ known \subseteq Peer
      /\ agent \in [Peer -> Version \cup {None}] /\ protocols \in [Peer -> SUBSET Protocol]
      /\ changes \in 0..MaxChanges /\ steady \subseteq Peer /\ steady \subseteq met /\ met \subseteq Peer
      /\ always \in [Peer -> SUBSET Protocol] /\ ever \in [Peer -> SUBSET Protocol]
  BY DEF NodeTypeOK
<1>1. /\ changes' \in 0..MaxChanges
      /\ steady' = {p \in steady : p \in Peers' /\ agent'[p] = agent[p]}
      /\ met' = met \cup Peers'
  BY <1>0, NodeAssumption DEF NodeStep
<1>h. /\ always' = [p \in Peer |-> IF p \in Peers' THEN always[p] \cap protocols'[p] ELSE {}]
      /\ ever' = [p \in Peer |-> ever[p] \cup protocols'[p]]
  BY DEF NodeStep
<1>p. \A p \in Peer : /\ \A x \in always'[p] : x \in always[p] /\ x \in protocols'[p] /\ p \in Peers'
                     /\ (\A x \in ever[p] : x \in ever'[p]) /\ \A x \in protocols'[p] : x \in ever'[p]
  BY <1>h
<1>2. ASSUME /\ open' \subseteq Conn /\ streams' \in [Conn -> SUBSET Stream]
             /\ known' \subseteq Peer
             /\ agent' \in [Peer -> Version \cup {None}] /\ protocols' \in [Peer -> SUBSET Protocol]
      PROVE  NodeTypeOK'
  <2>1. Peers' \subseteq Peer
    BY <1>2 DEF Peers, PeerOf, Conn
  <2>2. steady' \subseteq met' /\ met' \subseteq Peer
    BY <1>0, <1>1, <2>1
  <2>3. always' \in [Peer -> SUBSET Protocol] /\ ever' \in [Peer -> SUBSET Protocol]
    <3>1. \A p \in Peer : /\ always[p] \subseteq Protocol /\ ever[p] \subseteq Protocol
                         /\ protocols'[p] \subseteq Protocol
      BY <1>0, <1>2
    <3> QED
      BY <1>h, <3>1
  <2> QED
    BY <1>1, <1>2, <2>2, <2>3 DEF NodeTypeOK
<1>3. CASE \E c \in Conn : OpenConn(c)
  <2>1. PICK c \in Conn : OpenConn(c)
    BY <1>3
  <2>2. /\ open' = open \cup {c} /\ known' = known \cup {PeerOf(c)}
        /\ UNCHANGED <<streams, agent, protocols>>
    BY <2>1 DEF OpenConn
  <2>3. PeerOf(c) \in Peer
    BY DEF PeerOf, Conn
  <2>4. NodeTypeOK'
    BY <1>0, <1>2, <2>2, <2>3
  <2>5. Peers \subseteq known => Peers' \subseteq known'
    BY <2>2 DEF Peers
  <2> QED
    BY <1>1, <1>p, <2>2, <2>4, <2>5
<1>4. CASE \E c \in Conn : CloseConn(c)
  <2>1. PICK c \in Conn : CloseConn(c)
    BY <1>4
  <2>2. /\ open' = open \ {c} /\ streams' = [streams EXCEPT ![c] = {}]
        /\ UNCHANGED <<known, agent, protocols>>
    BY <2>1 DEF CloseConn
  <2>3. NodeTypeOK'
    BY <1>0, <1>2, <2>2
  <2>4. Peers \subseteq known => Peers' \subseteq known'
    BY <2>2 DEF Peers
  <2> QED
    BY <1>1, <1>p, <2>2, <2>3, <2>4
<1>5. CASE \E c \in Conn : \E s \in Stream : OpenStream(c, s)
  <2>1. PICK c \in Conn, s \in Stream : OpenStream(c, s)
    BY <1>5
  <2>2. /\ streams' = [streams EXCEPT ![c] = @ \cup {s}]
        /\ UNCHANGED <<open, known, agent, protocols>>
    BY <2>1 DEF OpenStream
  <2>3. NodeTypeOK'
    BY <1>0, <1>2, <2>2
  <2>4. Peers' = Peers
    BY <2>2 DEF Peers
  <2> QED
    BY <1>1, <1>p, <2>2, <2>3, <2>4
<1>6. CASE \E p \in Peer : Forget(p)
  <2>1. PICK p \in Peer : Forget(p)
    BY <1>6
  <2>2. /\ p \notin Peers /\ known' = known \ {p}
        /\ agent' = [agent EXCEPT ![p] = None] /\ protocols' = [protocols EXCEPT ![p] = {}]
        /\ UNCHANGED <<open, streams>>
    BY <2>1 DEF Forget
  <2>3. NodeTypeOK'
    BY <1>0, <1>2, <2>2
  <2>4. Peers' = Peers
    BY <2>2 DEF Peers
  <2> QED
    BY <1>1, <1>p, <2>2, <2>3, <2>4
<1>7. CASE \E p \in Peer : \E v \in Version : Identify(p, v)
  <2>1. PICK p \in Peer, v \in Version : Identify(p, v)
    BY <1>7
  <2>2. /\ agent' = [agent EXCEPT ![p] = v]
        /\ UNCHANGED <<open, streams, known, protocols>>
    BY <2>1 DEF Identify
  <2>3. NodeTypeOK'
    BY <1>0, <1>2, <2>2
  <2>4. Peers' = Peers
    BY <2>2 DEF Peers
  <2> QED
    BY <1>1, <1>p, <2>2, <2>3, <2>4
<1>8. CASE \E p \in Peer : \E supported \in SUBSET Protocol : SetProtocols(p, supported)
  <2>1. PICK p \in Peer, supported \in SUBSET Protocol : SetProtocols(p, supported)
    BY <1>8
  <2>2. /\ protocols' = [protocols EXCEPT ![p] = supported]
        /\ UNCHANGED <<open, streams, known, agent>>
    BY <2>1 DEF SetProtocols
  <2>3. NodeTypeOK'
    BY <1>0, <1>2, <2>2
  <2>4. Peers' = Peers
    BY <2>2 DEF Peers
  <2> QED
    BY <1>1, <1>p, <2>2, <2>3, <2>4
<1> QED
  BY <1>3, <1>4, <1>5, <1>6, <1>7, <1>8 DEF NodeStep

-------------------------------------------------------------------------------
(* A round of populatePrometheus.  The invariant has a part for what the stages *)
(* do, one for the numbers of each family and one for the peers that stay.      *)

Filling == at \in {"counting", "setting"}
Items == IF family = "streams" THEN currentConns ELSE currentPeers
Series == unset \cup DOMAIN gauges[family]

\* While a family is set, what is set and what is still to be set make up the
\* series chosen, and the rest is what was read beyond them.
FillInv ==
  /\ DOMAIN gauges = Family
  /\ Filling => todo \subseteq Items
  /\ at # "counting" => todo = {}
  /\ at # "setting" => unset = {}
  /\ at = "setting" =>
       /\ unset \cap DOMAIN gauges[family] = {}
       /\ Series \in Shown
       /\ rest = Seen \ Series
       /\ \A l \in DOMAIN gauges[family] : gauges[family][l] = counts[l]

\* The numbers counted are those of the peers read so far.
VersionCounts ==
  Filling /\ family = "versions" =>
    /\ \A v \in Version : counts[v] = Cardinality(Having(v))
    /\ \A p \in todo : read[p] = None

\* The labels of each family.
LEMMA Labels ==
  /\ Label["protocols"] = Protocol
  /\ Label["versions"] = Version
  /\ Label["streams"] = {<<s.protocol, s.direction>> : s \in Stream}
BY DEF Label

\* What is found at one peer or connection.
LEMMA FoundCounts ==
  ASSUME TypeOK, NEW i \in todo, NEW l \in Label[family]
  PROVE  /\ Cardinality(Found(i, l)) \in Nat
         /\ family = "protocols" =>
              Cardinality(Found(i, l)) = IF l \in protocols[i] THEN 1 ELSE 0
         /\ family = "versions" =>
              Cardinality(Found(i, l)) = IF l \in Version /\ l = agent[i] THEN 1 ELSE 0
<1>1. Cardinality({}) = 0 /\ Cardinality({l}) = 1
  BY FS_EmptySet, FS_Singleton
<1>2. CASE family = "protocols"
  <2>1. Found(i, l) = IF l \in protocols[i] THEN {l} ELSE {}
    BY <1>2 DEF Found, ProtocolFound
  <2> QED
    BY <1>1, <1>2, <2>1
<1>3. CASE family = "versions"
  <2>1. Found(i, l) = IF l \in Version /\ l = agent[i] THEN {l} ELSE {}
    BY <1>3 DEF Found, VersionFound
  <2> QED
    BY <1>1, <1>3, <2>1
<1>4. CASE family = "streams"
  <2>1. i \in Conn /\ streams[i] \subseteq Stream
    BY <1>4 DEF TypeOK, NodeTypeOK
  <2>2. Found(i, l) = StreamsFound(i, l)
    BY <1>4 DEF Found
  <2>3. Found(i, l) \in SUBSET Stream
    BY <2>1, <2>2 DEF StreamsFound
  <2> QED
    BY <1>4, <2>3, NodeAssumption, FS_Subset, FS_CardinalityType
<1> QED
  BY <1>2, <1>3, <1>4 DEF TypeOK, Family

\* Types, except those of the node.
LoopType ==
  /\ at \in {"waiting", "conns", "peers", "counting", "setting"}
  /\ family \in Family
  /\ currentConns \subseteq Conn /\ currentPeers \subseteq Peer
  /\ todo \subseteq (IF family = "streams" THEN Conn ELSE Peer)
  /\ counts \in [Label[family] -> Nat]
  /\ unset \subseteq Label[family] /\ rest \subseteq Version
  /\ \A f \in Family : /\ DOMAIN gauges[f] \subseteq Label[f]
                       /\ \A l \in DOMAIN gauges[f] : gauges[f][l] \in Nat
  /\ read \in [Peer -> Version \cup {None}]

\* The types of a round are those of the node and of the loop.
LEMMA TypeParts == TypeOK <=> NodeTypeOK /\ LoopType
BY DEF TypeOK, LoopType

\* The versions read are finitely many.
LEMMA SeenVersions ==
  ASSUME LoopType, VersionCounts, Filling, family = "versions"
  PROVE  IsFiniteSet(Seen) /\ Seen \subseteq Version
<1>1. Seen \subseteq Version
  BY Labels DEF Seen
<1>2. \A v \in Seen : \E p \in Peer : read[p] = v
  <2> SUFFICES ASSUME NEW v \in Seen, Having(v) = {} PROVE FALSE
    BY DEF Having
  <2>1. counts[v] = 0
    BY <1>1, FS_EmptySet DEF VersionCounts
  <2>2. counts[v] > 0
    BY DEF Seen
  <2> QED
    BY <2>1, <2>2
<1>3. IsFiniteSet({read[p] : p \in Peer})
  <2> DEFINE f == [p \in Peer |-> read[p]]
             T == {read[p] : p \in Peer}
  <2>1. f \in Surjection(Peer, T)
    BY DEF Surjection
  <2> HIDE DEF f, T
  <2>2. IsFiniteSet(T)
    BY <2>1, NodeAssumption, FS_Surjection
  <2> QED
    BY <2>2 DEF T
<1>4. Seen \in SUBSET {read[p] : p \in Peer}
  BY <1>2
<1> QED
  BY <1>1, <1>3, <1>4, FS_Subset

-------------------------------------------------------------------------------
(* Types of a round *)

\* Turning to a family sets its variables within their types.
LEMMA StartFamilyType ==
  ASSUME NEW f \in Family, NEW items, StartFamily(f, items),
         LoopType, unset = {}, unset' = {},
         items \subseteq (IF f = "streams" THEN Conn ELSE Peer)
  PROVE  /\ at' = "counting" /\ family' = f /\ family' \in Family
         /\ todo' \subseteq (IF family' = "streams" THEN Conn ELSE Peer)
         /\ counts' = [l \in Label[f] |-> 0]
         /\ counts' \in [Label[family'] -> Nat]
         /\ unset' \subseteq Label[family'] /\ rest' \subseteq Version
BY DEF StartFamily

\* Setting or resetting one family leaves the types of all as they are.
LEMMA GaugesType ==
  ASSUME LoopType, DOMAIN gauges = Family, NEW f \in Family, NEW g,
         gauges' = [gauges EXCEPT ![f] = g],
         DOMAIN g \subseteq Label[f], \A l \in DOMAIN g : g[l] \in Nat
  PROVE  /\ \A h \in Family : /\ DOMAIN gauges'[h] \subseteq Label[h]
                              /\ \A l \in DOMAIN gauges'[h] : gauges'[h][l] \in Nat
         /\ DOMAIN gauges' = Family
         /\ gauges'[f] = g
         /\ \A h \in Family \ {f} : gauges'[h] = gauges[h]
<1>1. \A h \in Family : gauges'[h] = IF h = f THEN g ELSE gauges[h]
  OBVIOUS
<1>2. \A h \in Family : /\ DOMAIN gauges'[h] \subseteq Label[h]
                        /\ \A l \in DOMAIN gauges'[h] : gauges'[h][l] \in Nat
  BY <1>1 DEF LoopType
<1> QED
  BY <1>1, <1>2

\* Only labels that were read get a series.
LEMMA ShownSeries ==
  ASSUME NEW series \in Shown
  PROVE  series \subseteq Seen
BY DEF Shown

\* Reading one peer or connection keeps the types.
LEMMA CountType ==
  ASSUME TypeOK, FillInv, NEW i \in todo, Count(i)
  PROVE  LoopType'
<1> USE DEF snapshots, nodeVars
<1>1. LoopType /\ NodeTypeOK
  BY TypeParts
<1>2. counts' \in [Label[family] -> Nat]
  <2>1. \A l \in Label[family] : Cardinality(Found(i, l)) \in Nat /\ counts[l] \in Nat
    BY <1>1, FoundCounts DEF LoopType
  <2>2. counts' = [l \in Label[family] |-> counts[l] + Cardinality(Found(i, l))]
    BY DEF Count
  <2> QED
    BY <2>1, <2>2
<1>3. read' \in [Peer -> Version \cup {None}]
  <2>1. read \in [Peer -> Version \cup {None}] /\ agent \in [Peer -> Version \cup {None}]
    BY <1>1 DEF LoopType, NodeTypeOK
  <2>2. family = "versions" => i \in Peer
    BY <1>1 DEF LoopType
  <2> QED
    BY <2>1, <2>2 DEF Count
<1> QED
  BY <1>1, <1>2, <1>3 DEF LoopType, Count

\* Reset() keeps the types and leaves its family empty.
LEMMA ResetType ==
  ASSUME LoopType, FillInv, VersionCounts, ResetFamily
  PROVE  LoopType' /\ DOMAIN gauges' = Family /\ gauges'[family] = <<>>
<1> USE DEF snapshots, nodeVars
<1>1. family \in Family /\ DOMAIN gauges = Family
  BY DEF LoopType, FillInv
<1>2. /\ DOMAIN gauges' = Family /\ gauges'[family] = <<>>
      /\ \A h \in Family : /\ DOMAIN gauges'[h] \subseteq Label[h]
                           /\ \A l \in DOMAIN gauges'[h] : gauges'[h][l] \in Nat
  <2>1. gauges' = [gauges EXCEPT ![family] = <<>>]
    BY DEF ResetFamily, Cleared
  <2>2. DOMAIN <<>> \subseteq Label[family] /\ \A l \in DOMAIN <<>> : <<>>[l] \in Nat
    OBVIOUS
  <2> QED
    BY <1>1, <2>1, <2>2, GaugesType
<1>3. PICK series \in Shown : unset' = series /\ rest' = Seen \ series
  BY DEF ResetFamily, Beyond
<1>4. series \subseteq Seen /\ Seen \subseteq Label[family]
  BY ShownSeries DEF Seen
<1>5. rest' \subseteq Version
  <2>1. CASE family = "versions"
    <3>1. Seen \subseteq Version
      BY <2>1, SeenVersions DEF Filling, ResetFamily
    <3> QED
      BY <1>3, <3>1
  <2>2. CASE family # "versions"
    <3>1. series = Seen
      BY <2>2 DEF Shown
    <3> QED
      BY <1>3, <3>1
  <2> QED
    BY <2>1, <2>2
<1> QED
  BY <1>2, <1>3, <1>4, <1>5 DEF LoopType, ResetFamily

\* Setting a series keeps the types and every other series.
LEMMA SetSeriesType ==
  ASSUME LoopType, FillInv, NEW l \in unset, SetSeries(l)
  PROVE  /\ LoopType' /\ DOMAIN gauges' = Family
         /\ DOMAIN gauges'[family] = DOMAIN gauges[family] \cup {l}
         /\ gauges'[family][l] = counts[l]
         /\ \A x \in DOMAIN gauges[family] \ {l} : gauges'[family][x] = gauges[family][x]
         /\ \A h \in Family \ {family} : gauges'[h] = gauges[h]
<1> USE DEF snapshots, nodeVars
<1> DEFINE g == WithSeries(gauges[family], l, counts[l])
<1>1. /\ family \in Family /\ DOMAIN gauges = Family /\ l \in Label[family]
      /\ counts[l] \in Nat
  BY DEF LoopType, FillInv
<1>2. /\ DOMAIN g = DOMAIN gauges[family] \cup {l} /\ g[l] = counts[l]
      /\ \A x \in DOMAIN gauges[family] \ {l} : g[x] = gauges[family][x]
  BY DEF WithSeries
<1>3. gauges' = [gauges EXCEPT ![family] = g]
  BY DEF SetSeries
<1> HIDE DEF g
<1>4. DOMAIN g \subseteq Label[family] /\ \A x \in DOMAIN g : g[x] \in Nat
  BY <1>1, <1>2 DEF LoopType
<1>5. /\ DOMAIN gauges' = Family /\ gauges'[family] = g
      /\ \A h \in Family \ {family} : gauges'[h] = gauges[h]
      /\ \A h \in Family : /\ DOMAIN gauges'[h] \subseteq Label[h]
                           /\ \A x \in DOMAIN gauges'[h] : gauges'[h][x] \in Nat
  BY <1>1, <1>3, <1>4, GaugesType
<1>6. LoopType'
  BY <1>5 DEF LoopType, SetSeries
<1> QED
  BY <1>2, <1>5, <1>6

\* The sum of the versions beyond the cut-off is a number.
LEMMA RestSum ==
  ASSUME LoopType, FillInv, VersionCounts, AllSet("versions")
  PROVE  /\ IsFiniteSet(Seen) /\ Seen \subseteq Version
         /\ rest \subseteq Seen /\ IsFiniteSet(rest)
         /\ \A v \in Seen : counts[v] \in Nat
         /\ SumFunctionOnSet(counts, rest) \in Nat
<1>1. family = "versions" /\ at = "setting"
  BY DEF AllSet
<1>2. IsFiniteSet(Seen) /\ Seen \subseteq Version
  BY <1>1, SeenVersions DEF Filling
<1>3. rest \in SUBSET Seen
  BY <1>1 DEF FillInv
<1>4. IsFiniteSet(rest)
  BY <1>2, <1>3, FS_Subset
<1>5. \A v \in Seen : counts[v] \in Nat
  BY <1>1 DEF Seen, LoopType
<1> QED
  BY <1>2, <1>3, <1>4, <1>5, SumType

\* Setting the series of the others keeps the types and the other families.
LEMMA VersionsDoneType ==
  ASSUME LoopType, FillInv, VersionCounts, VersionsDone
  PROVE  /\ LoopType' /\ DOMAIN gauges' = Family
         /\ \A h \in Family \ {"versions"} : gauges'[h] = gauges[h]
         /\ gauges'["versions"] =
              WithSeries(gauges["versions"], Others, SumFunctionOnSet(counts, rest))
<1> USE DEF snapshots, nodeVars
<1> DEFINE sum == SumFunctionOnSet(counts, rest)
           g == WithSeries(gauges["versions"], Others, sum)
<1>1. DOMAIN gauges = Family /\ "versions" \in Family /\ "streams" \in Family
  BY DEF FillInv, Family
<1>2. sum \in Nat
  BY RestSum DEF VersionsDone
<1>3. gauges' = [gauges EXCEPT !["versions"] = g]
  BY DEF VersionsDone
<1>4. /\ DOMAIN g = DOMAIN gauges["versions"] \cup {Others} /\ g[Others] = sum
      /\ \A x \in DOMAIN gauges["versions"] \ {Others} : g[x] = gauges["versions"][x]
  BY DEF WithSeries
<1> HIDE DEF g, sum
<1>5. DOMAIN g \subseteq Label["versions"] /\ \A x \in DOMAIN g : g[x] \in Nat
  BY <1>1, <1>2, <1>4, Labels, PopulationAssumption DEF LoopType
<1>6. /\ DOMAIN gauges' = Family /\ gauges'["versions"] = g
      /\ \A h \in Family \ {"versions"} : gauges'[h] = gauges[h]
      /\ \A h \in Family : /\ DOMAIN gauges'[h] \subseteq Label[h]
                           /\ \A x \in DOMAIN gauges'[h] : gauges'[h][x] \in Nat
  BY <1>1, <1>3, <1>5, GaugesType
<1>7. StartFamily("streams", currentConns) /\ unset = {} /\ unset' = {}
      /\ UNCHANGED <<currentConns, currentPeers, read>>
  BY DEF VersionsDone, StreamItems, AllSet
<1>8. currentConns \subseteq Conn
  BY DEF LoopType
<1>9. /\ at' = "counting" /\ family' \in Family
      /\ todo' \subseteq (IF family' = "streams" THEN Conn ELSE Peer)
      /\ counts' \in [Label[family'] -> Nat]
      /\ unset' \subseteq Label[family'] /\ rest' \subseteq Version
  BY <1>1, <1>7, <1>8, StartFamilyType
<1>10. LoopType'
  BY <1>6, <1>7, <1>9 DEF LoopType
<1> QED
  BY <1>6, <1>10 DEF g, sum

\* Every step keeps the types of the loop.
LEMMA NextType ==
  ASSUME TypeOK, FillInv, VersionCounts, Next \/ UNCHANGED loopVars
  PROVE  LoopType'
<1> USE DEF snapshots, fillVars, loopVars
<1>0. LoopType /\ NodeTypeOK
  BY TypeParts
<1>1. CASE UNCHANGED loopVars
  BY <1>0, <1>1 DEF LoopType
<1>2. CASE TickFires \/ StreamsDone
  BY <1>0, <1>2 DEF LoopType, TickFires, StreamsDone
<1>3. CASE GetConns
  BY <1>0, <1>3 DEF LoopType, GetConns, NodeTypeOK
<1>4. CASE GetPeers \/ ProtocolsDone
  <2>1. PICK f \in {"protocols", "versions"} : StartFamily(f, currentPeers')
    BY <1>4 DEF GetPeers, ProtocolsDone
  <2>2. Peers \subseteq Peer
    BY <1>0, PeersArePeers DEF NodeTypeOK
  <2>3. currentPeers' \subseteq Peer /\ currentConns' \subseteq Conn
    BY <1>0, <1>4, <2>2 DEF GetPeers, PeersNow, ProtocolsDone, LoopType
  <2>4. unset = {} /\ unset' = {} /\ UNCHANGED gauges
    BY <1>4 DEF GetPeers, ProtocolsDone, FillInv, AllSet
  <2>5. read' \in [Peer -> Version \cup {None}]
    BY <1>0, <1>4 DEF GetPeers, ProtocolsDone, LoopType
  <2>6. f \in Family /\ f # "streams"
    BY DEF Family
  <2>7. /\ at' = "counting" /\ family' \in Family
        /\ todo' \subseteq (IF family' = "streams" THEN Conn ELSE Peer)
        /\ counts' \in [Label[family'] -> Nat]
        /\ unset' \subseteq Label[family'] /\ rest' \subseteq Version
    BY <1>0, <2>1, <2>3, <2>4, <2>6, StartFamilyType
  <2> QED
    BY <1>0, <2>3, <2>4, <2>5, <2>7 DEF LoopType
<1>5. ASSUME NEW i \in todo, Count(i) PROVE LoopType'
  BY <1>5, CountType
<1>6. CASE ResetFamily
  BY <1>0, <1>6, ResetType
<1>7. ASSUME NEW l \in unset, SetSeries(l) PROVE LoopType'
  BY <1>0, <1>7, SetSeriesType
<1>8. CASE VersionsDone
  BY <1>0, <1>8, VersionsDoneType
<1> QED
  BY <1>1, <1>2, <1>3, <1>4, <1>5, <1>6, <1>7, <1>8 DEF Next

-------------------------------------------------------------------------------
(* Filling a family *)

\* Every step keeps the invariant of the stages.
LEMMA NextFill ==
  ASSUME TypeOK, FillInv, VersionCounts, Next \/ UNCHANGED loopVars
  PROVE  FillInv'
<1> USE DEF snapshots, fillVars, loopVars
<1>0. LoopType
  BY TypeParts
<1>1. CASE UNCHANGED loopVars
  BY <1>1 DEF FillInv, Filling, Items, Series, Shown, Seen, NumShown, Ranked
<1>2. CASE TickFires \/ StreamsDone \/ GetConns
  BY <1>2 DEF FillInv, Filling, TickFires, StreamsDone, GetConns, AllSet
<1>3. CASE GetPeers \/ ProtocolsDone
  <2>1. /\ at' = "counting" /\ todo' = currentPeers' /\ unset' = {} /\ gauges' = gauges
        /\ family' \in {"protocols", "versions"}
    BY <1>3 DEF GetPeers, ProtocolsDone, StartFamily, FillInv, AllSet
  <2> QED
    BY <2>1 DEF FillInv, Filling, Items
<1>4. ASSUME NEW i \in todo, Count(i) PROVE FillInv'
  BY <1>4 DEF Count, FillInv, Filling, Items
<1>5. CASE ResetFamily
  <2>1. DOMAIN gauges' = Family /\ gauges'[family] = <<>>
    BY <1>0, <1>5, ResetType
  <2>2. /\ at' = "setting" /\ UNCHANGED <<currentConns, currentPeers, family, todo, counts>>
        /\ at = "counting" /\ todo = {}
    BY <1>5 DEF ResetFamily
  <2>3. PICK series \in Shown : unset' = series /\ rest' = Seen \ series
    BY <1>5 DEF ResetFamily, Beyond
  <2>4. Shown' = Shown /\ Seen' = Seen
    BY <2>2 DEF Shown, Seen, NumShown, Ranked
  <2>5. DOMAIN gauges'[family'] = {}
    BY <2>1, <2>2
  <2>6. Series' = series
    BY <2>3, <2>5 DEF Series
  <2> QED
    BY <2>1, <2>2, <2>3, <2>4, <2>5, <2>6 DEF FillInv, Filling, Items
<1>6. ASSUME NEW l \in unset, SetSeries(l) PROVE FillInv'
  <2>1. /\ DOMAIN gauges' = Family
        /\ DOMAIN gauges'[family] = DOMAIN gauges[family] \cup {l}
        /\ gauges'[family][l] = counts[l]
        /\ \A x \in DOMAIN gauges[family] \ {l} : gauges'[family][x] = gauges[family][x]
    BY <1>0, <1>6, SetSeriesType
  <2>2. /\ at = "setting" /\ unset' = unset \ {l}
        /\ UNCHANGED <<at, currentConns, currentPeers, family, todo, counts, rest>>
    BY <1>6 DEF SetSeries
  <2>3. Shown' = Shown /\ Seen' = Seen
    BY <2>2 DEF Shown, Seen, NumShown, Ranked
  <2>4. Series' = Series
    BY <2>1, <2>2 DEF Series
  <2>5. unset' \cap DOMAIN gauges'[family'] = {}
    BY <2>1, <2>2 DEF FillInv
  <2>6. \A x \in DOMAIN gauges'[family'] : gauges'[family'][x] = counts'[x]
    BY <2>1, <2>2 DEF FillInv
  <2>7. Series' \in Shown' /\ rest' = Seen' \ Series'
    BY <2>2, <2>3, <2>4 DEF FillInv
  <2>8. todo' = {}
    BY <2>2 DEF FillInv
  <2> QED
    BY <2>1, <2>2, <2>5, <2>6, <2>7, <2>8 DEF FillInv
<1>7. CASE VersionsDone
  <2>1. DOMAIN gauges' = Family
    BY <1>0, <1>7, VersionsDoneType
  <2>2. /\ at' = "counting" /\ family' = "streams" /\ todo' = currentConns'
        /\ unset' = {}
    BY <1>7 DEF VersionsDone, StartFamily, StreamItems, AllSet
  <2> QED
    BY <2>1, <2>2 DEF FillInv, Filling, Items
<1> QED
  BY <1>1, <1>2, <1>3, <1>4, <1>5, <1>6, <1>7 DEF Next

\* Reading one more peer adds it to those that have its version.
LEMMA CountVersion ==
  ASSUME TypeOK, VersionCounts, family = "versions", NEW i \in todo, Count(i)
  PROVE  /\ \A v \in Version : counts'[v] = Cardinality(Having(v)')
         /\ \A p \in todo' : read'[p] = None
<1>0. LoopType /\ NodeTypeOK
  BY TypeParts
<1>1. /\ read \in [Peer -> Version \cup {None}] /\ i \in Peer /\ todo \subseteq Peer
      /\ agent \in [Peer -> Version \cup {None}]
      /\ counts \in [Version -> Nat]
  BY <1>0, Labels DEF LoopType, NodeTypeOK
<1>2. /\ \A v \in Version : counts[v] = Cardinality(Having(v))
      /\ \A p \in todo : read[p] = None
  BY DEF VersionCounts, Filling, Count
<1>3. /\ read' = [read EXCEPT ![i] = agent[i]] /\ todo' = todo \ {i}
  BY DEF Count
<1>4. \A l \in Version : counts'[l] = counts[l] + (IF l = agent[i] THEN 1 ELSE 0)
  <2>1. counts' = [l \in Label[family] |-> counts[l] + Cardinality(Found(i, l))]
    BY DEF Count
  <2>2. Label[family] = Version
    BY Labels
  <2>3. \A l \in Label[family] :
          Cardinality(Found(i, l)) = IF l \in Version /\ l = agent[i] THEN 1 ELSE 0
    BY FoundCounts
  <2> QED
    BY <2>1, <2>2, <2>3
<1>5. ASSUME NEW v \in Version PROVE counts'[v] = Cardinality(Having(v)')
  <2>1. counts[v] \in Nat /\ counts[v] = Cardinality(Having(v))
    BY <1>1, <1>2
  <2>2. IsFiniteSet(Having(v)) /\ i \notin Having(v)
    <3>1. Having(v) \in SUBSET Peer
      BY DEF Having
    <3> QED
      BY <1>2, <3>1, FinitePeers, NodeAssumption DEF Having
  <2>3. Having(v)' = IF v = agent[i] THEN Having(v) \cup {i} ELSE Having(v)
    BY <1>1, <1>2, <1>3, NodeAssumption DEF Having
  <2>4. Cardinality(Having(v) \cup {i}) = Cardinality(Having(v)) + 1
    BY <2>2, FS_AddElement
  <2>5. counts'[v] = counts[v] + (IF v = agent[i] THEN 1 ELSE 0)
    BY <1>4
  <2>6. CASE v = agent[i]
    BY <2>1, <2>3, <2>4, <2>5, <2>6
  <2>7. CASE v # agent[i]
    BY <2>1, <2>3, <2>5, <2>7
  <2> QED
    BY <2>6, <2>7
<1>6. \A p \in todo' : read'[p] = None
  BY <1>1, <1>2, <1>3
<1> QED
  BY <1>5, <1>6

\* Every step keeps the numbers of versions those of the peers read.
LEMMA NextVersionCounts ==
  ASSUME TypeOK, FillInv, VersionCounts, Next \/ UNCHANGED loopVars
  PROVE  VersionCounts'
<1> USE DEF snapshots, fillVars, loopVars
<1>0. LoopType
  BY TypeParts
<1>1. ASSUME UNCHANGED <<family, todo, counts, read>>, Filling' => Filling PROVE VersionCounts'
  BY <1>1 DEF VersionCounts, Having
<1>2. CASE UNCHANGED loopVars
  BY <1>1, <1>2 DEF Filling
<1>3. CASE TickFires \/ GetConns \/ StreamsDone
  <2>1. ~Filling'
    BY <1>3 DEF Filling, TickFires, GetConns, StreamsDone
  <2> QED
    BY <2>1 DEF VersionCounts
<1>4. CASE GetPeers \/ VersionsDone
  <2>1. family' # "versions"
    BY <1>4 DEF GetPeers, VersionsDone, StartFamily
  <2> QED
    BY <2>1 DEF VersionCounts
<1>5. ASSUME NEW i \in todo, Count(i) PROVE VersionCounts'
  <2>1. CASE family = "versions"
    BY <1>5, <2>1, CountVersion DEF VersionCounts
  <2>2. CASE family # "versions"
    BY <1>5, <2>2 DEF VersionCounts, Count
  <2> QED
    BY <2>1, <2>2
<1>6. CASE ResetFamily
  BY <1>1, <1>6 DEF ResetFamily, Filling
<1>7. ASSUME NEW l \in unset, SetSeries(l) PROVE VersionCounts'
  BY <1>1, <1>7 DEF SetSeries, Filling
<1>8. CASE ProtocolsDone
  <2>1. /\ counts' = [l \in Label["versions"] |-> 0]
        /\ read' = [p \in Peer |-> None] /\ todo' = currentPeers
    BY <1>8 DEF ProtocolsDone, StartFamily
  <2>2. \A v \in Version : counts'[v] = 0 /\ Having(v)' = {}
    BY <2>1, Labels, NodeAssumption DEF Having
  <2>3. \A p \in todo' : read'[p] = None
    BY <1>0, <2>1 DEF LoopType
  <2> QED
    BY <2>2, <2>3, FS_EmptySet DEF VersionCounts
<1> QED
  BY <1>2, <1>3, <1>4, <1>5, <1>6, <1>7, <1>8 DEF Next

-------------------------------------------------------------------------------
(* The agent versions a round shows *)

\* What is known when the last series of the versions has been set.
LEMMA VersionsSet ==
  ASSUME LoopType, FillInv, VersionCounts, AllSet("versions"), NEW shown,
         shown = DOMAIN gauges["versions"]
  PROVE  /\ shown \subseteq Seen /\ rest = Seen \ shown
         /\ Cardinality(shown) = NumShown(Cardinality(Seen))
         /\ \A v \in shown, w \in Seen \ shown : counts[v] >= counts[w]
         /\ \A v \in shown : gauges["versions"][v] = counts[v]
         /\ \A v \in Version : counts[v] = Cardinality(Having(v)) /\ counts[v] \in Nat
<1>1. family = "versions" /\ at = "setting" /\ unset = {}
  BY DEF AllSet
<1>2. shown = Series /\ shown \in Shown /\ rest = Seen \ shown
  BY <1>1 DEF FillInv, Series
<1>3. /\ shown \subseteq Seen /\ Cardinality(shown) = NumShown(Cardinality(Seen))
      /\ \A v \in shown, w \in Seen \ shown : counts[v] >= counts[w]
  BY <1>1, <1>2 DEF Shown, Ranked
<1>4. \A v \in shown : gauges["versions"][v] = counts[v]
  BY <1>1 DEF FillInv
<1>5. \A v \in Version : counts[v] = Cardinality(Having(v)) /\ counts[v] \in Nat
  BY <1>1, Labels DEF VersionCounts, Filling, LoopType
<1> QED
  BY <1>2, <1>3, <1>4, <1>5

\* The peers counted are those whose version was seen.
LEMMA SeenSum ==
  ASSUME LoopType, VersionCounts, Filling, family = "versions"
  PROVE  SumFunctionOnSet(counts, Seen) = Cardinality(Counted)
<1> DEFINE part == [v \in Seen |-> Having(v)]
<1>1. IsFiniteSet(Seen) /\ Seen \subseteq Version
  BY SeenVersions
<1>2. \A v \in Version : counts[v] = Cardinality(Having(v)) /\ counts[v] \in Nat
  BY Labels DEF VersionCounts, LoopType
<1>3. \A v \in Seen : IsFiniteSet(part[v]) /\ counts[v] = Cardinality(part[v])
  <2> SUFFICES ASSUME NEW v \in Seen PROVE IsFiniteSet(Having(v)) /\ counts[v] = Cardinality(Having(v))
    OBVIOUS
  <2>1. Having(v) \in SUBSET Peer
    BY DEF Having
  <2> QED
    BY <1>1, <1>2, <2>1, FinitePeers
<1>4. \A v, w \in Seen : v # w => part[v] \cap part[w] = {}
  BY DEF Having
<1>5. UNION {part[v] : v \in Seen} = Counted
  <2>1. ASSUME NEW p \in Counted PROVE \E v \in Seen : p \in Having(v)
    <3>1. p \in Peer /\ read[p] # None /\ read[p] \in Version
      BY DEF Counted, LoopType
    <3> DEFINE v == read[p]
    <3>2. p \in Having(v) /\ Having(v) \in SUBSET Peer
      BY <3>1 DEF Having
    <3> HIDE DEF v
    <3>3. Cardinality(Having(v)) # 0
      BY <3>2, FinitePeers, FS_EmptySet
    <3>4. v \in Version /\ v \in Label[family]
      BY <3>1, Labels DEF v
    <3>5. v \in Seen
      BY <1>2, <3>3, <3>4 DEF Seen
    <3> QED
      BY <3>2, <3>5
  <2>2. \A v \in Seen : Having(v) \subseteq Counted
    BY <1>1, NodeAssumption DEF Having, Counted
  <2> QED
    BY <2>1, <2>2
<1> HIDE DEF part
<1> QED
  BY <1>1, <1>3, <1>4, <1>5, SumOfParts

\* When the versions are done every peer read is in one series, except those of a
\* version "others" that is among the most frequent: the sum takes its series.
LEMMA ShownOnce ==
  ASSUME LoopType, FillInv, VersionCounts, VersionsDone
  PROVE  Cardinality(Counted) - SumFunction(gauges'["versions"])
           \in {0, Cardinality(Having(Others))}
<1> DEFINE sum == SumFunctionOnSet(counts, rest)
           top == DOMAIN gauges["versions"]
           shown == top \ {Others}
           g == WithSeries(gauges["versions"], Others, sum)
           all == shown \cup {Others}
<1>1. AllSet("versions")
  BY DEF VersionsDone
<1>2. /\ top \in SUBSET Seen /\ rest = Seen \ top
      /\ \A v \in top : gauges["versions"][v] = counts[v]
      /\ \A v \in Version : counts[v] = Cardinality(Having(v)) /\ counts[v] \in Nat
  BY <1>1, VersionsSet
<1>3. /\ IsFiniteSet(Seen) /\ Seen \subseteq Version /\ \A v \in Seen : counts[v] \in Nat
      /\ sum \in Nat
  BY <1>1, RestSum
<1>4. /\ IsFiniteSet(top) /\ IsFiniteSet(shown) /\ Others \notin shown
      /\ shown \in SUBSET top
  BY <1>2, <1>3, FS_Subset
<1>5. /\ DOMAIN g = all /\ g[Others] = sum
      /\ \A v \in shown : g[v] = counts[v]
  BY <1>2, <1>4 DEF WithSeries
<1>o. top = shown \/ (Others \in top /\ top \ shown = {Others})
  OBVIOUS
<1>6. gauges'["versions"] = g
  BY VersionsDoneType
<1> HIDE DEF g, sum, shown, top
<1>7. IsFiniteSet(all) /\ shown \in SUBSET all /\ all \ shown = {Others}
  BY <1>4, FS_AddElement
<1>8. \A v \in all : g[v] \in Nat
  BY <1>2, <1>3, <1>4, <1>5
<1> HIDE DEF all
<1>9. SumFunctionOnSet(g, all) = SumFunctionOnSet(g, shown) + SumFunctionOnSet(g, {Others})
  BY <1>7, <1>8, SumSplit
<1>10. SumFunctionOnSet(g, {Others}) = sum
  BY <1>3, <1>5, SumOne
<1>11. SumFunctionOnSet(g, shown) = SumFunctionOnSet(counts, shown)
  <2>1. \A v \in shown : counts[v] \in Nat /\ g[v] = counts[v]
    BY <1>2, <1>3, <1>4, <1>5
  <2> QED
    BY <1>4, <2>1, SumAgree
<1>12. SumFunctionOnSet(counts, Seen) = SumFunctionOnSet(counts, top) + sum
  BY <1>2, <1>3, SumSplit DEF sum
<1>15. /\ SumFunctionOnSet(counts, top) - SumFunctionOnSet(counts, shown)
             \in {0, Cardinality(Having(Others))}
       /\ SumFunctionOnSet(counts, top) \in Nat /\ SumFunctionOnSet(counts, shown) \in Nat
  <2>1. \A v \in top : counts[v] \in Nat
    BY <1>2, <1>3
  <2>2. SumFunctionOnSet(counts, top) \in Nat /\ SumFunctionOnSet(counts, shown) \in Nat
    BY <1>4, <2>1, SumType
  <2>3. CASE top = shown
    BY <2>2, <2>3
  <2>4. CASE Others \in top /\ top \ shown = {Others}
    <3>1. SumFunctionOnSet(counts, top)
            = SumFunctionOnSet(counts, shown) + SumFunctionOnSet(counts, {Others})
      BY <1>4, <2>1, <2>4, SumSplit
    <3>2. SumFunctionOnSet(counts, {Others}) = counts[Others] /\ counts[Others] \in Nat
      BY <2>1, <2>4, SumOne
    <3>3. counts[Others] = Cardinality(Having(Others))
      BY <1>2, PopulationAssumption
    <3> QED
      BY <2>2, <3>1, <3>2, <3>3
  <2> QED
    BY <1>o, <2>3, <2>4
<1>13. SumFunctionOnSet(counts, Seen) = Cardinality(Counted)
  BY <1>1, SeenSum DEF AllSet, Filling
<1>14. SumFunction(g) = SumFunctionOnSet(g, all)
  BY <1>5 DEF SumFunction
<1>16. /\ SumFunction(g) = SumFunctionOnSet(counts, shown) + sum
       /\ Cardinality(Counted) = SumFunctionOnSet(counts, top) + sum
  BY <1>9, <1>10, <1>11, <1>12, <1>13, <1>14
<1> QED
  BY <1>3, <1>6, <1>15, <1>16

\* When the versions are done the series are the most frequent ones.
LEMMA ShownTop ==
  ASSUME LoopType, FillInv, VersionCounts, VersionsDone
  PROVE  LET shown == DOMAIN gauges'["versions"] \ {Others}
             hidden == Version \ (shown \cup {Others})
             taken == IF Having(Others) = {} THEN 0 ELSE 1
         IN
         /\ Cardinality(shown) <= CutOff
         /\ \A v \in shown : /\ gauges'["versions"][v] = Cardinality(Having(v))
                             /\ Having(v) # {}
                             /\ \A w \in hidden :
                                  Cardinality(Having(w)) <= gauges'["versions"][v]
         /\ Cardinality(shown) + taken < CutOff => \A w \in hidden : Having(w) = {}
<1> DEFINE top == DOMAIN gauges["versions"]
           shown == top \ {Others}
           hidden == Version \ (shown \cup {Others})
           taken == IF Having(Others) = {} THEN 0 ELSE 1
           g == gauges'["versions"]
<1>1. AllSet("versions")
  BY DEF VersionsDone
<1>2. /\ top \in SUBSET Seen
      /\ Cardinality(top) = NumShown(Cardinality(Seen))
      /\ \A v \in top, w \in Seen \ top : counts[v] >= counts[w]
      /\ \A v \in top : gauges["versions"][v] = counts[v]
      /\ \A v \in Version : counts[v] = Cardinality(Having(v)) /\ counts[v] \in Nat
  BY <1>1, VersionsSet
<1>3. IsFiniteSet(Seen) /\ Seen \subseteq Version
  BY <1>1, RestSum
<1>4. /\ shown \in SUBSET top /\ Others \notin shown
      /\ Cardinality(Seen) \in Nat /\ Cardinality(top) \in Nat /\ Cardinality(shown) \in Nat
      /\ IsFiniteSet(shown) /\ Cardinality(shown) <= Cardinality(top)
  BY <1>2, <1>3, FS_Subset, FS_CardinalityType
<1>5. DOMAIN g \ {Others} = shown /\ \A v \in shown : g[v] = counts[v]
  BY <1>2, <1>4, VersionsDoneType DEF WithSeries
<1>6. \A v \in Version : counts[v] = 0 <=> Having(v) = {}
  <2> SUFFICES ASSUME NEW v \in Version PROVE counts[v] = 0 <=> Having(v) = {}
    OBVIOUS
  <2>1. Having(v) \in SUBSET Peer
    BY DEF Having
  <2> QED
    BY <1>2, <2>1, FinitePeers, FS_EmptySet
<1>7. \A v \in Version : v \in Seen <=> counts[v] # 0
  <2>1. Label[family] = Version
    BY <1>1, Labels DEF AllSet
  <2> QED
    BY <1>2, <2>1 DEF Seen
<1>h. hidden \subseteq Version /\ hidden \cap top = {}
  OBVIOUS
<1>t. Cardinality(top) <= Cardinality(shown) + taken
  <2>1. CASE Others \in top
    <3>1. Having(Others) # {} /\ top = shown \cup {Others}
      BY <1>2, <1>3, <1>6, <1>7, <2>1
    <3>2. Cardinality(shown \cup {Others}) = Cardinality(shown) + 1
      <4> HIDE DEF shown
      <4> QED
        BY <1>4, FS_AddElement
    <3>3. taken = 1
      BY <3>1
    <3> HIDE DEF taken
    <3> QED
      BY <1>4, <3>1, <3>2, <3>3
  <2>2. CASE Others \notin top
    <3>1. top = shown /\ taken \in {0, 1}
      BY <2>2
    <3> QED
      BY <1>4, <3>1
  <2> QED
    BY <2>1, <2>2
<1>c. taken \in {0, 1}
  OBVIOUS
<1> HIDE DEF hidden, taken
<1> HIDE DEF shown, top, g
<1>8. Cardinality(shown) <= CutOff
  BY <1>2, <1>4, PopulationAssumption DEF NumShown
<1>9. ASSUME NEW v \in shown
      PROVE  /\ g[v] = Cardinality(Having(v)) /\ Having(v) # {}
             /\ \A w \in hidden : Cardinality(Having(w)) <= g[v]
  <2>1. v \in top /\ v \in Seen /\ v \in Version
    BY <1>2, <1>3, <1>4
  <2>2. \A w \in hidden : counts[w] <= counts[v]
    BY <1>2, <1>7, <1>h, <2>1
  <2> QED
    BY <1>2, <1>5, <1>6, <1>7, <1>h, <2>1, <2>2
<1>10. ASSUME Cardinality(shown) + taken < CutOff PROVE \A w \in hidden : Having(w) = {}
  <2>1. Cardinality(top) < CutOff
    BY <1>4, <1>t, <1>c, <1>10, PopulationAssumption
  <2>2. Cardinality(top) = Cardinality(Seen)
    BY <1>2, <1>4, <2>1, PopulationAssumption DEF NumShown
  <2>3. top = Seen
    BY <1>2, <1>3, <2>2, FS_Subset
  <2> QED
    BY <1>6, <1>7, <1>h, <2>3
<1> QED
  BY <1>5, <1>8, <1>9, <1>10 DEF g, hidden, taken

\* Every step keeps the series of versions right once they are.
LEMMA NextVersionsShown ==
  ASSUME TypeOK, FillInv, VersionCounts, VersionsShownRight, Next \/ UNCHANGED loopVars
  PROVE  VersionsShownRight'
<1> USE DEF snapshots, fillVars, loopVars
<1>0. LoopType
  BY TypeParts
<1>1. ASSUME UNCHANGED <<gauges["versions"], read>>, VersionsFilled' => VersionsFilled
      PROVE  VersionsShownRight'
  <2>1. /\ gauges'["versions"] = gauges["versions"] /\ Counted' = Counted
        /\ \A v : Having(v)' = Having(v)
    BY <1>1 DEF Counted, Having
  <2>2. PeersCountedOnce'
    BY <1>1, <2>1 DEF VersionsShownRight, PeersCountedOnce
  <2>3. TopVersionsShown'
    <3> SUFFICES ASSUME VersionsFilled' PROVE TopVersionsShown'
      BY DEF TopVersionsShown
    <3>1. VersionsFilled
      BY <1>1
    <3> QED
      BY <2>1, <3>1 DEF VersionsShownRight, TopVersionsShown
  <2> QED
    BY <2>2, <2>3 DEF VersionsShownRight
<1>2. ASSUME ~VersionsFilled' PROVE VersionsShownRight'
  BY <1>2 DEF VersionsShownRight, PeersCountedOnce, TopVersionsShown
<1>3. CASE UNCHANGED loopVars
  BY <1>1, <1>3 DEF VersionsFilled, InRound
<1>4. CASE TickFires \/ GetConns \/ GetPeers \/ ProtocolsDone
  BY <1>2, <1>4 DEF TickFires, GetConns, GetPeers, ProtocolsDone, StartFamily,
                    VersionsFilled, InRound
<1>5. CASE StreamsDone
  BY <1>1, <1>5 DEF StreamsDone, VersionsFilled, InRound, AllSet
<1>6. ASSUME NEW i \in todo, Count(i) PROVE VersionsShownRight'
  <2>1. family' = family /\ at = at' /\ gauges' = gauges
    BY <1>6 DEF Count
  <2>2. CASE family = "streams"
    BY <1>1, <1>6, <2>1, <2>2 DEF Count, VersionsFilled, InRound
  <2>3. CASE family # "streams"
    BY <1>2, <2>1, <2>3 DEF VersionsFilled
  <2> QED
    BY <2>2, <2>3
<1>7. ASSUME ResetFamily \/ \E l \in unset : SetSeries(l) PROVE VersionsShownRight'
  <2>1. /\ family' = family /\ read' = read /\ at \in {"counting", "setting"}
        /\ gauges' = [gauges EXCEPT ![family] = gauges'[family]]
    BY <1>7 DEF ResetFamily, SetSeries, FillInv, LoopType
  <2>2. CASE family = "streams"
    <3>1. gauges'["versions"] = gauges["versions"]
      BY <1>0, <2>1, <2>2 DEF FillInv, Family
    <3> QED
      BY <1>1, <2>1, <2>2, <3>1 DEF VersionsFilled, InRound
  <2>3. CASE family # "streams"
    BY <1>2, <2>1, <2>3 DEF VersionsFilled
  <2> QED
    BY <2>2, <2>3
<1>8. CASE VersionsDone
  <2>1. read' = read /\ Counted' = Counted /\ \A v : Having(v)' = Having(v)
    BY <1>8 DEF VersionsDone, Counted, Having
  <2>2. PeersCountedOnce'
    BY <1>0, <1>8, <2>1, ShownOnce DEF PeersCountedOnce
  <2>3. TopVersionsShown'
    BY <1>0, <1>8, <2>1, ShownTop DEF TopVersionsShown
  <2> QED
    BY <2>2, <2>3 DEF VersionsShownRight
<1> QED
  BY <1>3, <1>4, <1>5, <1>6, <1>7, <1>8 DEF Next

-------------------------------------------------------------------------------
(* No stale series of streams *)

StreamsInv ==
  /\ Filling /\ family = "streams" /\ currentConns = {} =>
       \A l \in Label["streams"] : counts[l] = 0
  /\ NoStaleStreams

\* Every step keeps series of streams on connections of the round's list.
LEMMA NextStreams ==
  ASSUME TypeOK, FillInv, VersionCounts, StreamsInv, Next \/ UNCHANGED loopVars
  PROVE  StreamsInv'
<1> USE DEF snapshots, fillVars, loopVars
<1>0. LoopType
  BY TypeParts
<1>1. CASE UNCHANGED loopVars
  BY <1>1 DEF StreamsInv, NoStaleStreams, Filling, VersionsFilled, InRound
<1>2. CASE TickFires \/ GetConns
  BY <1>2 DEF StreamsInv, NoStaleStreams, Filling, TickFires, GetConns
<1>3. CASE GetPeers \/ ProtocolsDone
  BY <1>3 DEF StreamsInv, NoStaleStreams, GetPeers, ProtocolsDone, StartFamily
<1>4. CASE VersionsDone
  <2>1. at' = "counting" /\ counts' = [l \in Label["streams"] |-> 0]
    BY <1>4 DEF VersionsDone, StartFamily
  <2> QED
    BY <2>1 DEF StreamsInv, NoStaleStreams
<1>5. ASSUME NEW i \in todo, Count(i) PROVE StreamsInv'
  <2>1. at' = "counting" /\ UNCHANGED <<family, currentConns>>
    BY <1>5 DEF Count
  <2>2. family = "streams" => currentConns # {}
    BY <1>5 DEF Count, FillInv, Filling, Items
  <2> QED
    BY <2>1, <2>2 DEF StreamsInv, NoStaleStreams
<1>6. CASE ResetFamily \/ \E l \in unset : SetSeries(l)
  <2>1. at' = "setting" /\ UNCHANGED <<family, currentConns, counts>> /\ Filling
    BY <1>6 DEF ResetFamily, SetSeries, Filling
  <2> QED
    BY <2>1 DEF StreamsInv, NoStaleStreams
<1>7. CASE StreamsDone
  <2>1. /\ at = "setting" /\ family = "streams" /\ unset = {} /\ at' = "waiting"
        /\ UNCHANGED <<family, currentConns, gauges, counts>>
    BY <1>7 DEF StreamsDone, AllSet
  <2>2. /\ DOMAIN gauges["streams"] \in Shown
        /\ \A l \in DOMAIN gauges["streams"] : gauges["streams"][l] = counts[l]
    BY <2>1 DEF FillInv, Series
  <2>3. DOMAIN gauges["streams"] = Seen
    BY <2>1, <2>2 DEF Shown
  <2>4. \A l \in Seen : counts[l] > 0 /\ l \in Label["streams"]
    BY <2>1 DEF Seen
  <2>5. currentConns = {} => Seen = {}
    <3> SUFFICES ASSUME currentConns = {}, NEW l \in Seen PROVE FALSE
      OBVIOUS
    <3>1. counts[l] = 0
      BY <2>1, <2>4 DEF StreamsInv, Filling
    <3> QED
      BY <2>4, <3>1
  <2>6. NoStaleStreams'
    BY <2>1, <2>2, <2>3, <2>4, <2>5 DEF NoStaleStreams
  <2> QED
    BY <2>1, <2>6 DEF StreamsInv, Filling
<1> QED
  BY <1>1, <1>2, <1>3, <1>4, <1>5, <1>6, <1>7 DEF Next

-------------------------------------------------------------------------------
(* The peers that stay *)

\* Who stays is connected, and in the list of the round.
StayInv ==
  /\ at # "waiting" => Peers \subseteq met
  /\ steady \subseteq Peers
  /\ \A p \in Peer : \A x \in always[p] : x \in protocols[p] /\ p \in Peers
  /\ at # "waiting" => \A p \in Peer : \A x \in protocols[p] : x \in ever[p]
  /\ Filling => /\ currentPeers \subseteq met /\ steady \subseteq currentPeers
                /\ \A p \in Peer : \A x \in always[p] : p \in currentPeers

VersionsRead ==
  Filling /\ family = "versions" =>
    /\ \A p \in steady \ todo : read[p] = agent[p]
    /\ Counted \subseteq met

Kept(P, x) == {p \in P : x \in always[p]}
Had(P, x) == {p \in P : x \in ever[p]}

ProtocolsRead ==
  Filling /\ family = "protocols" =>
    \A x \in Protocol :
      /\ Cardinality(Kept(currentPeers \ todo, x)) <= counts[x]
      /\ counts[x] <= Cardinality(Had(currentPeers \ todo, x))

SteadyInv == StayInv /\ VersionsRead /\ ProtocolsRead /\ SteadyCounted

\* The node may change as it likes: those who stay become fewer, those met more.
LEMMA NodeSteady ==
  ASSUME TypeOK, SteadyInv, NodeStep, UNCHANGED loopVars
  PROVE  SteadyInv'
<1> USE DEF snapshots, fillVars, loopVars
<1>0. NodeTypeOK /\ LoopType
  BY TypeParts
<1>1. /\ NodeTypeOK'
      /\ steady' \subseteq steady /\ steady' \subseteq Peers'
      /\ met \subseteq met' /\ Peers' \subseteq met'
      /\ \A p \in steady' : agent'[p] = agent[p]
  BY <1>0, NodeChanges
<1>p. \A p \in Peer : /\ \A x \in always'[p] : x \in always[p] /\ x \in protocols'[p] /\ p \in Peers'
                     /\ (\A x \in ever[p] : x \in ever'[p]) /\ \A x \in protocols'[p] : x \in ever'[p]
  BY <1>0, NodeChanges
<1>2. /\ steady \in SUBSET Peer /\ met \in SUBSET Peer /\ met' \in SUBSET Peer
  BY <1>0, <1>1 DEF NodeTypeOK
<1>3. UNCHANGED <<at, family, currentPeers, todo, counts, gauges, read>>
  OBVIOUS
<1>4. StayInv'
  <2>1. Filling => \A p \in Peer : \A x \in always'[p] : p \in currentPeers
    BY <1>p DEF SteadyInv, StayInv
  <2>2. /\ at' # "waiting" => Peers' \subseteq met'
        /\ steady' \subseteq Peers'
        /\ Filling' => currentPeers' \subseteq met' /\ steady' \subseteq currentPeers'
    BY <1>1, <1>3 DEF SteadyInv, StayInv, Filling
  <2>3. Filling' => \A p \in Peer : \A x \in always'[p] : p \in currentPeers'
    BY <1>3, <2>1 DEF Filling
  <2> QED
    BY <1>p, <2>2, <2>3 DEF StayInv
<1>5. VersionsRead'
  BY <1>1, <1>3 DEF SteadyInv, VersionsRead, Filling, Counted
<1>6. ASSUME NEW x, NEW S \in SUBSET Peer, NEW T \in SUBSET Peer, S \subseteq T
      PROVE  /\ Cardinality({p \in S : x \in always'[p]}) <= Cardinality({p \in S : x \in always[p]})
             /\ Cardinality({p \in S : x \in ever[p]}) <= Cardinality({p \in T : x \in ever'[p]})
             /\ Cardinality({p \in S : x \in always'[p]}) \in Nat
             /\ Cardinality({p \in S : x \in always[p]}) \in Nat
             /\ Cardinality({p \in S : x \in ever[p]}) \in Nat
             /\ Cardinality({p \in T : x \in ever'[p]}) \in Nat
  <2> DEFINE kept == {p \in S : x \in always[p]}
             keptThen == {p \in S : x \in always'[p]}
             had == {p \in S : x \in ever[p]}
             hadThen == {p \in T : x \in ever'[p]}
  <2>1. kept \in SUBSET Peer /\ hadThen \in SUBSET Peer
    BY <1>6
  <2>2. keptThen \in SUBSET kept /\ had \in SUBSET hadThen
    <3>1. \A p \in S : p \in Peer /\ p \in T
      BY <1>6
    <3>2. \A p \in S : (x \in always'[p] => x \in always[p]) /\ (x \in ever[p] => x \in ever'[p])
      BY <1>p, <3>1
    <3> QED
      BY <3>1, <3>2
  <2> HIDE DEF kept, keptThen, had, hadThen
  <2>3. /\ Cardinality(keptThen) <= Cardinality(kept) /\ Cardinality(had) <= Cardinality(hadThen)
        /\ Cardinality(kept) \in Nat /\ Cardinality(keptThen) \in Nat
        /\ Cardinality(had) \in Nat /\ Cardinality(hadThen) \in Nat
    BY <2>1, <2>2, FinitePeers, FS_Subset, FS_CardinalityType
  <2> QED
    BY <2>3 DEF kept, keptThen, had, hadThen
<1>7. ProtocolsRead'
  <2> SUFFICES ASSUME Filling', family' = "protocols", NEW x \in Protocol
               PROVE  /\ Cardinality({p \in currentPeers \ todo : x \in always'[p]}) <= counts[x]
                      /\ counts[x] <= Cardinality({p \in currentPeers \ todo : x \in ever'[p]})
    BY <1>3 DEF ProtocolsRead, Kept, Had
  <2>1. /\ Cardinality({p \in currentPeers \ todo : x \in always[p]}) <= counts[x]
        /\ counts[x] <= Cardinality({p \in currentPeers \ todo : x \in ever[p]})
    BY <1>3 DEF SteadyInv, ProtocolsRead, Filling, Kept, Had
  <2>2. family = "protocols" /\ currentPeers \ todo \in SUBSET Peer
    BY <1>0, <1>3 DEF LoopType
  <2>3. counts[x] \in Nat
    BY <1>0, <2>2, Labels DEF LoopType
  <2> DEFINE S == currentPeers \ todo
             kept == Cardinality({p \in S : x \in always[p]})
             keptThen == Cardinality({p \in S : x \in always'[p]})
             had == Cardinality({p \in S : x \in ever[p]})
             hadThen == Cardinality({p \in S : x \in ever'[p]})
  <2>4. /\ keptThen <= kept /\ had <= hadThen
        /\ keptThen \in Nat /\ kept \in Nat /\ had \in Nat /\ hadThen \in Nat
    BY <1>6, <2>2
  <2>5. kept <= counts[x] /\ counts[x] <= had
    BY <2>1
  <2>6. keptThen <= counts[x] /\ counts[x] <= hadThen
    <3> HIDE DEF kept, keptThen, had, hadThen
    <3> QED
      BY <2>3, <2>4, <2>5
  <2> QED
    BY <2>6
<1>8. SteadyPeersCounted'
  BY <1>1, <1>3 DEF SteadyInv, SteadyCounted, SteadyPeersCounted, VersionsFilled, InRound, Counted
<1>9. SteadyProtocolsCounted'
  <2> SUFFICES ASSUME ProtocolsFilled', NEW x \in Protocol
               PROVE  /\ Cardinality({p \in Peer : x \in always'[p]}) <= Value("protocols", x)
                      /\ Value("protocols", x) <= Cardinality({p \in met' : x \in ever'[p]})
    BY <1>3 DEF SteadyProtocolsCounted, Value
  <2>1. /\ Cardinality({p \in Peer : x \in always[p]}) <= Value("protocols", x)
        /\ Value("protocols", x) <= Cardinality({p \in met : x \in ever[p]})
    BY <1>3 DEF SteadyInv, SteadyCounted, SteadyProtocolsCounted, ProtocolsFilled, InRound
  <2>2. Value("protocols", x) \in Nat
    <3>1. "protocols" \in Family
      BY DEF Family
    <3> QED
      BY <1>0, <3>1 DEF Value, LoopType
  <2> DEFINE kept == Cardinality({p \in Peer : x \in always[p]})
             keptThen == Cardinality({p \in Peer : x \in always'[p]})
             had == Cardinality({p \in met : x \in ever[p]})
             hadThen == Cardinality({p \in met' : x \in ever'[p]})
  <2>3. /\ keptThen <= kept /\ had <= hadThen
        /\ keptThen \in Nat /\ kept \in Nat /\ had \in Nat /\ hadThen \in Nat
    <3>1. Peer \in SUBSET Peer /\ met \in SUBSET Peer /\ met' \in SUBSET Peer /\ met \subseteq met'
      BY <1>1, <1>2
    <3>2. keptThen <= kept /\ keptThen \in Nat /\ kept \in Nat
      BY <1>6, <3>1
    <3>3. had <= hadThen /\ had \in Nat /\ hadThen \in Nat
      BY <1>6, <3>1
    <3> QED
      BY <3>2, <3>3
  <2>4. kept <= Value("protocols", x) /\ Value("protocols", x) <= had
    BY <2>1
  <2>5. keptThen <= Value("protocols", x) /\ Value("protocols", x) <= hadThen
    <3> HIDE DEF kept, keptThen, had, hadThen
    <3> QED
      BY <2>2, <2>3, <2>4
  <2> QED
    BY <2>5
<1> QED
  BY <1>4, <1>5, <1>7, <1>8, <1>9 DEF SteadyInv, SteadyCounted

\* One more peer is read: it counts at most once, and once if it supports x.
LEMMA CountSteady ==
  ASSUME TypeOK, FillInv, VersionCounts, SteadyInv, NEW i \in todo, Count(i)
  PROVE  VersionsRead' /\ ProtocolsRead'
<1> USE DEF snapshots, nodeVars
<1>0. NodeTypeOK /\ LoopType
  BY TypeParts
<1>1. /\ todo' = todo \ {i}
      /\ UNCHANGED <<at, family, currentPeers, open, agent, protocols, steady, met, always, ever>>
      /\ at = "counting"
  BY DEF Count
<1>2. VersionsRead'
  <2> SUFFICES ASSUME family = "versions"
               PROVE  (\A p \in steady \ todo' : read'[p] = agent[p]) /\ Counted' \subseteq met
    BY <1>1 DEF VersionsRead
  <2>1. /\ read \in [Peer -> Version \cup {None}] /\ read' = [read EXCEPT ![i] = agent[i]]
        /\ steady \subseteq Peer /\ i \in currentPeers /\ i \in Peer
    BY <1>0, <1>1 DEF LoopType, NodeTypeOK, Count, FillInv, Filling, Items
  <2>2. (\A p \in steady \ todo : read[p] = agent[p]) /\ Counted \subseteq met /\ i \in met
    BY <1>1, <2>1 DEF SteadyInv, VersionsRead, StayInv, Filling
  <2>3. \A p \in steady \ todo' : read'[p] = agent[p]
    BY <1>1, <2>1, <2>2
  <2>4. Counted' \subseteq Counted \cup {i}
    BY <2>1 DEF Counted
  <2> QED
    BY <2>2, <2>3, <2>4
<1>3. ProtocolsRead'
  <2> SUFFICES ASSUME family = "protocols", NEW x \in Protocol
               PROVE  /\ Cardinality(Kept(currentPeers \ todo', x)) <= counts'[x]
                      /\ counts'[x] <= Cardinality(Had(currentPeers \ todo', x))
    BY <1>1 DEF ProtocolsRead, Kept, Had
  <2> DEFINE one == IF x \in protocols[i] THEN 1 ELSE 0
             kept == Kept(currentPeers \ todo, x)
             had == Had(currentPeers \ todo, x)
  <2>1. /\ i \in currentPeers /\ currentPeers \subseteq Peer
        /\ counts[x] \in Nat /\ x \in Label[family]
    BY <1>0, <1>1, Labels DEF LoopType, FillInv, Filling, Items
  <2>a. (x \in always[i] => x \in protocols[i]) /\ (x \in protocols[i] => x \in ever[i])
    BY <1>1, <2>1 DEF SteadyInv, StayInv
  <2>2. Cardinality(kept) <= counts[x] /\ counts[x] <= Cardinality(had)
    BY <1>1 DEF SteadyInv, ProtocolsRead, Filling
  <2>3. counts'[x] = counts[x] + one
    <3>1. counts'[x] = counts[x] + Cardinality(Found(i, x))
      BY <2>1 DEF Count
    <3> QED
      BY <2>1, <3>1, FoundCounts
  <2>4. /\ IsFiniteSet(kept) /\ Cardinality(kept) \in Nat /\ i \notin kept
        /\ IsFiniteSet(had) /\ Cardinality(had) \in Nat /\ i \notin had
    <3>1. kept \in SUBSET Peer /\ had \in SUBSET Peer /\ i \notin kept /\ i \notin had
      BY <2>1 DEF Kept, Had
    <3> QED
      BY <3>1, FinitePeers
  <2>5. /\ Kept(currentPeers \ todo', x) = IF x \in always[i] THEN kept \cup {i} ELSE kept
        /\ Had(currentPeers \ todo', x) = IF x \in ever[i] THEN had \cup {i} ELSE had
    BY <1>1, <2>1 DEF Kept, Had
  <2> HIDE DEF kept, had
  <2>6. Cardinality(kept \cup {i}) = Cardinality(kept) + 1
        /\ Cardinality(had \cup {i}) = Cardinality(had) + 1
    BY <2>4, FS_AddElement
  <2>7. /\ Cardinality(Kept(currentPeers \ todo', x)) \in Nat
        /\ Cardinality(Kept(currentPeers \ todo', x)) <= Cardinality(kept) + one
    <3>1. CASE x \in always[i]
      <4>1. Kept(currentPeers \ todo', x) = kept \cup {i} /\ one = 1
        BY <2>a, <2>5, <3>1
      <4>2. Cardinality(Kept(currentPeers \ todo', x)) = Cardinality(kept) + one
        BY <2>6, <4>1
      <4> HIDE DEF one
      <4> QED
        BY <2>4, <4>1, <4>2
    <3>2. CASE x \notin always[i]
      BY <2>4, <2>5, <3>2
    <3> QED
      BY <3>1, <3>2
  <2>8. /\ Cardinality(Had(currentPeers \ todo', x)) \in Nat
        /\ Cardinality(had) + one <= Cardinality(Had(currentPeers \ todo', x))
    <3>1. CASE x \in ever[i]
      <4>1. Had(currentPeers \ todo', x) = had \cup {i} /\ one \in {0, 1}
        BY <2>5, <3>1
      <4>2. Cardinality(Had(currentPeers \ todo', x)) = Cardinality(had) + 1
        BY <2>6, <4>1
      <4> HIDE DEF one
      <4> QED
        BY <2>4, <4>1, <4>2
    <3>2. CASE x \notin ever[i]
      BY <2>a, <2>4, <2>5, <3>2
    <3> QED
      BY <3>1, <3>2
  <2>9. one \in {0, 1}
    OBVIOUS
  <2> HIDE DEF one
  <2> QED
    BY <2>1, <2>2, <2>3, <2>4, <2>7, <2>8, <2>9
<1> QED
  BY <1>2, <1>3

\* The protocols are done: what the gauges show is what was counted.
LEMMA ProtocolsSteady ==
  ASSUME TypeOK, FillInv, SteadyInv, ProtocolsDone
  PROVE  SteadyProtocolsCounted'
<1> USE DEF snapshots, nodeVars
<1>0. NodeTypeOK /\ LoopType
  BY TypeParts
<1>1. /\ at = "setting" /\ family = "protocols" /\ unset = {} /\ todo = {}
      /\ UNCHANGED <<gauges, always, ever, met>>
  BY DEF ProtocolsDone, AllSet, FillInv
<1>2. /\ DOMAIN gauges["protocols"] = Seen
      /\ \A x \in Seen : gauges["protocols"][x] = counts[x]
  BY <1>1 DEF FillInv, Series, Shown
<1>3. \A x \in Protocol : counts[x] \in Nat /\ x \in Label[family]
  BY <1>0, <1>1, Labels DEF LoopType
<1>4. \A x \in Protocol : Value("protocols", x) = counts[x]
  BY <1>2, <1>3 DEF Value, Seen
<1> SUFFICES ASSUME NEW x \in Protocol
             PROVE  /\ Cardinality({p \in Peer : x \in always[p]}) <= counts[x]
                    /\ counts[x] <= Cardinality({p \in met : x \in ever[p]})
  BY <1>1, <1>4 DEF SteadyProtocolsCounted, Value
<1> DEFINE listed == Had(currentPeers, x)
           had == {p \in met : x \in ever[p]}
<1>5. Cardinality(Kept(currentPeers, x)) <= counts[x] /\ counts[x] <= Cardinality(listed)
  <2>1. currentPeers \ todo = currentPeers
    BY <1>1
  <2> QED
    BY <1>1, <2>1 DEF SteadyInv, ProtocolsRead, Filling
<1>6. currentPeers \subseteq met /\ met \subseteq Peer
      /\ \A p \in Peer : x \in always[p] => p \in currentPeers
  BY <1>0, <1>1 DEF SteadyInv, StayInv, Filling, NodeTypeOK
<1>7. Kept(currentPeers, x) = {p \in Peer : x \in always[p]}
  BY <1>6 DEF Kept
<1>8. listed \in SUBSET had /\ had \in SUBSET Peer
  BY <1>6 DEF Had
<1> HIDE DEF listed, had
<1>9. /\ Cardinality(listed) <= Cardinality(had)
      /\ Cardinality(listed) \in Nat /\ Cardinality(had) \in Nat
  BY <1>8, FinitePeers, FS_Subset, FS_CardinalityType
<1>10. counts[x] <= Cardinality(had)
  BY <1>3, <1>5, <1>9
<1> QED
  BY <1>5, <1>7, <1>10 DEF had

\* Every step of a round keeps the invariant of those who stay.
LEMMA NextSteady ==
  ASSUME TypeOK, FillInv, VersionCounts, SteadyInv, Next
  PROVE  SteadyInv'
<1> USE DEF snapshots, fillVars, loopVars, nodeVars, nodeState
<1>0. NodeTypeOK /\ LoopType
  BY TypeParts
<1>1. CASE NodeStep /\ UNCHANGED loopVars
  BY <1>1, NodeSteady
<1>2. CASE TickFires
  <2>1. at' = "conns" /\ Begins
    BY <1>2 DEF TickFires
  <2>2. /\ Peers' = Peers /\ steady' = Peers /\ met' = Peers
        /\ \A p \in Peer : /\ \A x \in always'[p] : x \in protocols'[p] /\ p \in Peers'
                          /\ \A x \in protocols'[p] : x \in ever'[p]
    <3>1. UNCHANGED nodeState
      BY <1>2 DEF TickFires
    <3> QED
      BY <1>0, <2>1, <3>1, BeginsNow
  <2> QED
    BY <2>1, <2>2 DEF SteadyInv, StayInv, VersionsRead, ProtocolsRead, SteadyCounted, Filling,
       SteadyPeersCounted, SteadyProtocolsCounted, VersionsFilled, ProtocolsFilled, InRound
<1>3. ASSUME UNCHANGED nodeVars PROVE Peers' = Peers
  BY <1>3 DEF Peers
<1>4. CASE GetConns
  <2>1. at = "conns" /\ at' = "peers" /\ UNCHANGED nodeVars
    BY <1>4 DEF GetConns
  <2> QED
    BY <1>3, <2>1 DEF SteadyInv, StayInv, VersionsRead, ProtocolsRead, SteadyCounted, Filling,
       SteadyPeersCounted, SteadyProtocolsCounted, VersionsFilled, ProtocolsFilled, InRound
<1>5. CASE GetPeers
  <2>1. /\ at = "peers" /\ at' = "counting" /\ family' = "protocols" /\ UNCHANGED nodeVars
        /\ currentPeers' = Peers /\ todo' = Peers /\ counts' = [x \in Label["protocols"] |-> 0]
    BY <1>5 DEF GetPeers, PeersNow, StartFamily
  <2>2. StayInv'
    BY <1>3, <2>1 DEF SteadyInv, StayInv
  <2>3. ProtocolsRead'
    <3>1. \A x \in Protocol : counts'[x] = 0
      BY <2>1, Labels
    <3>2. \A x \in Protocol : /\ Kept(currentPeers \ todo, x)' = {}
                              /\ Had(currentPeers \ todo, x)' = {}
      BY <2>1 DEF Kept, Had
    <3> QED
      BY <3>1, <3>2, FS_EmptySet DEF ProtocolsRead
  <2> QED
    BY <2>1, <2>2, <2>3 DEF SteadyInv, VersionsRead, SteadyCounted,
       SteadyPeersCounted, SteadyProtocolsCounted, VersionsFilled, ProtocolsFilled
<1>6. ASSUME Filling, UNCHANGED <<nodeVars, currentPeers>> PROVE StayInv'
  BY <1>3, <1>6 DEF SteadyInv, StayInv, Filling
<1>7. ASSUME NEW i \in todo, Count(i) PROVE SteadyInv'
  <2>1. /\ at = "counting" /\ UNCHANGED <<nodeVars, currentPeers, at, family, gauges>>
        /\ (family = "streams" => read' = read)
    BY <1>7 DEF Count
  <2>2. StayInv'
    BY <1>6, <2>1 DEF Filling
  <2>3. VersionsRead' /\ ProtocolsRead'
    BY <1>7, CountSteady
  <2>4. SteadyPeersCounted'
    BY <2>1 DEF SteadyInv, SteadyCounted, SteadyPeersCounted, VersionsFilled, InRound, Counted
  <2>5. SteadyProtocolsCounted'
    BY <2>1 DEF SteadyInv, SteadyCounted, SteadyProtocolsCounted, ProtocolsFilled, InRound, Value
  <2> QED
    BY <2>2, <2>3, <2>4, <2>5 DEF SteadyInv, SteadyCounted
<1>8. CASE ResetFamily \/ \E l \in unset : SetSeries(l)
  <2>1. /\ Filling /\ Filling' /\ at \notin {"conns", "peers"} /\ at' \notin {"conns", "peers"}
        /\ UNCHANGED <<nodeVars, currentPeers, family, todo, counts, read>>
        /\ gauges' = [gauges EXCEPT ![family] = gauges'[family]]
    BY <1>0, <1>8 DEF ResetFamily, SetSeries, Filling, FillInv, LoopType
  <2>2. StayInv'
    BY <1>6, <2>1
  <2>3. VersionsRead'
    BY <2>1 DEF SteadyInv, VersionsRead, Counted
  <2>4. ProtocolsRead'
    BY <2>1 DEF SteadyInv, ProtocolsRead, Kept, Had
  <2>5. SteadyPeersCounted'
    BY <2>1 DEF SteadyInv, SteadyCounted, SteadyPeersCounted, VersionsFilled, InRound, Counted
  <2>6. SteadyProtocolsCounted'
    <3>1. CASE family = "protocols"
      BY <2>1, <3>1 DEF SteadyProtocolsCounted, ProtocolsFilled
    <3>2. CASE family # "protocols"
      <4>1. gauges'["protocols"] = gauges["protocols"]
        BY <1>0, <2>1, <3>2 DEF FillInv, Family
      <4> QED
        BY <2>1, <4>1 DEF SteadyInv, SteadyCounted, SteadyProtocolsCounted, ProtocolsFilled,
                          InRound, Value
    <3> QED
      BY <3>1, <3>2
  <2> QED
    BY <2>2, <2>3, <2>4, <2>5, <2>6 DEF SteadyInv, SteadyCounted
<1>9. CASE ProtocolsDone
  <2>1. /\ Filling /\ at' = "counting" /\ family' = "versions" /\ todo' = currentPeers
        /\ read' = [p \in Peer |-> None] /\ UNCHANGED <<nodeVars, currentPeers>>
    BY <1>9 DEF ProtocolsDone, StartFamily, AllSet, Filling
  <2>2. StayInv'
    BY <1>6, <2>1
  <2>3. VersionsRead'
    <3>1. steady' \ todo' = {}
      BY <2>1 DEF SteadyInv, StayInv
    <3>2. Counted' = {}
      BY <2>1 DEF Counted
    <3> QED
      BY <3>1, <3>2 DEF VersionsRead
  <2>4. SteadyProtocolsCounted'
    BY <1>9, ProtocolsSteady
  <2> QED
    BY <2>1, <2>2, <2>3, <2>4 DEF SteadyInv, ProtocolsRead, SteadyCounted, SteadyPeersCounted,
                                  VersionsFilled
<1>10. CASE VersionsDone
  <2>1. /\ Filling /\ at = "setting" /\ family = "versions" /\ todo = {}
        /\ at' = "counting" /\ family' = "streams"
        /\ UNCHANGED <<nodeVars, currentPeers, read>>
    BY <1>10 DEF VersionsDone, StartFamily, AllSet, Filling, FillInv
  <2>2. StayInv'
    BY <1>6, <2>1
  <2>3. SteadyPeersCounted'
    BY <2>1 DEF SteadyInv, VersionsRead, SteadyPeersCounted, Counted
  <2>4. SteadyProtocolsCounted'
    <3>1. gauges'["protocols"] = gauges["protocols"]
      BY <1>0, <1>10, VersionsDoneType DEF Family
    <3> QED
      BY <2>1, <3>1 DEF SteadyInv, SteadyCounted, SteadyProtocolsCounted, ProtocolsFilled,
                        InRound, Value
  <2> QED
    BY <2>1, <2>2, <2>3, <2>4 DEF SteadyInv, VersionsRead, ProtocolsRead, SteadyCounted
<1>11. CASE StreamsDone
  <2>1. /\ at = "setting" /\ at' = "waiting" /\ family = "streams"
        /\ UNCHANGED <<nodeVars, fillVars>>
    BY <1>11 DEF StreamsDone, AllSet
  <2>2. StayInv' /\ VersionsRead' /\ ProtocolsRead'
    BY <1>3, <2>1 DEF SteadyInv, StayInv, VersionsRead, ProtocolsRead, Filling
  <2>3. SteadyPeersCounted'
    BY <2>1 DEF SteadyInv, SteadyCounted, SteadyPeersCounted, VersionsFilled, InRound, Counted
  <2>4. SteadyProtocolsCounted'
    BY <2>1 DEF SteadyInv, SteadyCounted, SteadyProtocolsCounted, ProtocolsFilled, InRound, Value
  <2> QED
    BY <2>2, <2>3, <2>4 DEF SteadyInv, SteadyCounted
<1> QED
  BY <1>1, <1>2, <1>4, <1>5, <1>7, <1>8, <1>9, <1>10, <1>11 DEF Next

-------------------------------------------------------------------------------
(* The invariant of ReadersSpec.  To that of a round it adds what a call of      *)
(* SamplePeerMetadata has: who is in its list, and what it knows of each.        *)

InCall   == call \notin {"none", "called"}
Read     == call \in {"conns", "looking", "addrs", "version", "returned"}
Counting == call \in {"looking", "addrs", "version", "returned"}
InHand   == IF call \in {"addrs", "version"} THEN {pmd.peer} ELSE {}
Listed   == {m.peer : m \in metadata}

LoopInv == LoopType /\ FillInv /\ VersionCounts /\ VersionsShownRight /\ StreamsInv

\* A call and a round exclude each other, and what is seen and met is kept up.
SampleInv ==
  /\ call # "none" => at = "waiting" /\ family = "protocols"
  /\ call = "none" => stored = {}
  /\ Peers \subseteq known
  /\ InCall => open \subseteq seen /\ Peers \subseteq met
  /\ InHand # {} => pmd \in PeerMetadata
  /\ InHand = {} => pmd = NoEntry
  /\ ~Counting => metadata = {}
  /\ Counting => numConns \in Cardinality(steady)..Cardinality(seen)

\* The copy, the peer in hand and the list have no peer twice and none of those
\* there all the time is missing.
ListInv ==
  /\ Listed \cap peers = {} /\ InHand \cap (Listed \cup peers) = {}
  /\ \A m, n \in metadata : m.peer = n.peer => m = n
  /\ Read /\ ~onlyConnected => stored \subseteq peers \cup InHand \cup Listed
  /\ Read /\ onlyConnected => steady \subseteq peers \cup InHand \cup Listed
  /\ onlyConnected => Listed \cup InHand \subseteq met
  /\ call = "returned" => peers = {}

EntryInv ==
  /\ EntriesConsistent
  /\ pmd.connected => pmd.peer \in met
  /\ pmd.addrs # {} => pmd.connected
  /\ \A c \in pmd.addrs : PeerOf(c) = pmd.peer /\ c \in seen

IInv == SampleTypeOK /\ LoopInv /\ SteadyInv /\ SampleInv /\ ListInv /\ EntryInv

\* A step of the specification, or none.
Step == ReadersNext \/ UNCHANGED readersVars

\* What a step can do to the node, as a reader sees it.
LEMMA StepOfNode ==
  ASSUME Step
  PROVE  NodeStep \/ (Begins /\ UNCHANGED nodeState) \/ UNCHANGED nodeVars
<1>1. CASE SampleNext
  BY <1>1 DEF SampleNext, Environment, Begin, CopyPeers, GetNumConns, LookAt, GetAddresses,
              GetVersion, Return
<1>2. CASE Next
  BY <1>2 DEF Next, TickFires, GetConns, GetPeers, Count, ResetFamily, SetSeries,
              ProtocolsDone, VersionsDone, StreamsDone
<1>3. CASE UNCHANGED readersVars
  BY <1>3 DEF readersVars, vars
<1> QED
  BY <1>1, <1>2, <1>3 DEF Step, ReadersNext

\* Every step keeps the types of the node, and connected peers in the peerstore.
LEMMA NodeStays ==
  ASSUME NodeTypeOK, Step, Peers \subseteq known
  PROVE  NodeTypeOK' /\ Peers' \subseteq known'
<1>1. CASE NodeStep
  BY <1>1, NodeChanges
<1>2. CASE Begins /\ UNCHANGED nodeState
  <2>1. NodeTypeOK' /\ Peers' = Peers
    BY <1>2, BeginsNow
  <2> QED
    BY <1>2, <2>1 DEF nodeState
<1>3. CASE UNCHANGED nodeVars
  BY <1>3 DEF NodeTypeOK, nodeVars, Peers
<1> QED
  BY <1>1, <1>2, <1>3, StepOfNode

\* Every step keeps the invariant of a round.
LEMMA LoopStays ==
  ASSUME TypeOK, LoopInv, Step
  PROVE  LoopInv'
<1>1. Next \/ UNCHANGED loopVars
  BY DEF Step, ReadersNext, readersVars, vars
<1> QED
  BY <1>1, NextType, NextFill, NextVersionCounts, NextVersionsShown, NextStreams DEF LoopInv

\* During a call nothing is claimed of a round, and who stays is connected.
LEMMA SteadyStays ==
  ASSUME TypeOK, LoopInv, SteadyInv, SampleInv, Step
  PROVE  SteadyInv'
<1>1. CASE Next
  BY <1>1, NextSteady DEF LoopInv
<1>2. CASE SampleNext /\ UNCHANGED loopVars
  <2>1. at = "waiting" /\ family = "protocols" /\ at' = "waiting" /\ family' = "protocols"
    <3>1. call # "none"
      BY <1>2 DEF SampleNext, Environment, Begin, CopyPeers, GetNumConns, LookAt, GetAddresses,
                  GetVersion, Return
    <3> QED
      BY <1>2, <3>1 DEF SampleInv, loopVars, fillVars
  <2>2. /\ steady' \subseteq Peers'
        /\ \A p \in Peer : \A x \in always'[p] : x \in protocols'[p] /\ p \in Peers'
    <3>1. CASE NodeStep
      BY <3>1, TypeParts, NodeChanges
    <3>2. CASE Begins /\ UNCHANGED nodeState
      BY <3>2, TypeParts, BeginsNow
    <3>3. CASE UNCHANGED nodeVars
      BY <3>3 DEF nodeVars, Peers, SteadyInv, StayInv
    <3> QED
      BY <3>1, <3>2, <3>3, StepOfNode
  <2> QED
    BY <2>1, <2>2 DEF SteadyInv, StayInv, VersionsRead, ProtocolsRead, Filling, SteadyCounted,
       SteadyPeersCounted, SteadyProtocolsCounted, VersionsFilled, ProtocolsFilled
<1>3. CASE UNCHANGED readersVars
  <2>1. UNCHANGED <<open, protocols, agent, steady, met, always, ever, at, family, currentPeers,
                    todo, counts, gauges, read>>
    BY <1>3 DEF readersVars, vars, nodeVars, loopVars, snapshots, fillVars
  <2>2. StayInv'
    BY <2>1 DEF SteadyInv, StayInv, Peers, Filling
  <2>3. VersionsRead'
    BY <2>1 DEF SteadyInv, VersionsRead, Filling, Counted
  <2>4. ProtocolsRead'
    BY <2>1 DEF SteadyInv, ProtocolsRead, Filling, Kept, Had
  <2>5. SteadyPeersCounted'
    BY <2>1 DEF SteadyInv, SteadyCounted, SteadyPeersCounted, VersionsFilled, InRound, Counted
  <2>6. SteadyProtocolsCounted'
    BY <2>1 DEF SteadyInv, SteadyCounted, SteadyProtocolsCounted, ProtocolsFilled, InRound, Value
  <2> QED
    BY <2>2, <2>3, <2>4, <2>5, <2>6 DEF SteadyInv, SteadyCounted
<1> QED
  BY <1>1, <1>2, <1>3 DEF Step, ReadersNext

\* Every peer that is connected has a connection.
LEMMA PeersCounted ==
  ASSUME open \subseteq Conn
  PROVE  /\ Cardinality(open) \in 0..Cardinality(Conn)
         /\ \A S \in SUBSET Peers : Cardinality(S) \in Nat /\ Cardinality(S) <= Cardinality(open)
<1> DEFINE f == [c \in open |-> PeerOf(c)]
<1>1. f \in Surjection(open, Peers)
  BY DEF Surjection, Peers
<1> HIDE DEF f
<1>2. IsFiniteSet(open) /\ Cardinality(open) \in 0..Cardinality(Conn) /\ Cardinality(Conn) \in Nat
  BY FiniteConn
<1>3. IsFiniteSet(Peers) /\ Cardinality(Peers) <= Cardinality(open)
  BY <1>1, <1>2, FS_Surjection
<1>4. Cardinality(Peers) \in Nat /\ Cardinality(open) \in Nat
  BY <1>2, <1>3, FS_CardinalityType
<1>5. ASSUME NEW S \in SUBSET Peers
      PROVE  Cardinality(S) \in Nat /\ Cardinality(S) <= Cardinality(open)
  <2>1. IsFiniteSet(S) /\ Cardinality(S) <= Cardinality(Peers)
    BY <1>3, FS_Subset
  <2>2. Cardinality(S) \in Nat
    BY <2>1, FS_CardinalityType
  <2> QED
    BY <1>3, <1>4, <2>1, <2>2
<1> QED
  BY <1>2, <1>5

\* The parts of a step that is one of a call.
LEMMA CallSteps ==
  ASSUME SampleNext, UNCHANGED loopVars
  PROVE  /\ call # "none" /\ call' # "none"
         /\ UNCHANGED <<at, family, onlyConnected>>
BY DEF SampleNext, Environment, Begin, CopyPeers, GetNumConns, LookAt, GetAddresses, GetVersion,
       Return, callVars, loopVars, fillVars

\* Every step keeps the types of a call.
LEMMA SampleTypeStays ==
  ASSUME SampleTypeOK, LoopInv, SampleInv, Step
  PROVE  SampleTypeOK'
<1>0. /\ TypeOK /\ NodeTypeOK /\ open \subseteq Conn /\ known \subseteq Peer
      /\ agent \in [Peer -> Version \cup {None}]
  BY TypeParts DEF SampleTypeOK, NodeTypeOK
<1>1. TypeOK'
  <2>1. NodeTypeOK'
    BY <1>0, NodeStays DEF SampleInv
  <2>2. LoopType'
    BY <1>0, LoopStays DEF LoopInv
  <2> QED
    BY <2>1, <2>2 DEF TypeOK, NodeTypeOK, LoopType
<1>2. open' \subseteq Conn
  BY <1>1 DEF TypeOK, NodeTypeOK
<1>3. CASE Environment
  BY <1>1, <1>2, <1>3 DEF SampleTypeOK, Environment, callVars
<1>4. CASE Begin
  BY <1>0, <1>1, <1>4 DEF SampleTypeOK, Begin, nodeState
<1>5. CASE CopyPeers
  BY <1>0, <1>1, <1>5 DEF SampleTypeOK, CopyPeers, nodeVars
<1>6. CASE GetNumConns
  BY <1>0, <1>1, <1>6, PeersCounted DEF SampleTypeOK, GetNumConns, NumConns, nodeVars
<1>7. ASSUME NEW p \in peers, LookAt(p) PROVE SampleTypeOK'
  <2>1. pmd' = pmd \/ \E b \in BOOLEAN :
                         pmd' = [peer |-> p, connected |-> b, addrs |-> {}, version |-> None]
    <3>1. pmd' = pmd \/ pmd' = [NoEntry EXCEPT !.peer = p, !.connected = p \in Peers]
      BY <1>7 DEF LookAt
    <3>2. CASE p \in Peers
      BY <3>1, <3>2 DEF NoEntry
    <3>3. CASE p \notin Peers
      <4>1. (p \in Peers) = FALSE
        BY <3>3
      <4>2. [NoEntry EXCEPT !.peer = p, !.connected = p \in Peers]
              = [NoEntry EXCEPT !.peer = p, !.connected = FALSE]
        BY <4>1, Zenon
      <4> QED
        BY <3>1, <4>2 DEF NoEntry
    <3> QED
      BY <3>2, <3>3
  <2>2. pmd' \in PeerMetadata \cup {NoEntry}
    <3>1. p \in Peer /\ pmd \in PeerMetadata \cup {NoEntry}
      BY DEF SampleTypeOK
    <3> QED
      BY <2>1, <3>1 DEF PeerMetadata
  <2> QED
    BY <1>1, <1>7, <2>2 DEF SampleTypeOK, LookAt, Remaining, nodeVars
<1>8. CASE GetAddresses
  <2>1. pmd \in PeerMetadata
    BY <1>8 DEF GetAddresses, SampleInv, InHand
  <2>2. pmd' \in PeerMetadata
    BY <1>0, <1>8, <2>1 DEF GetAddresses, PeerMetadata, Addresses, ConnsToPeer
  <2> QED
    BY <1>1, <1>8, <2>2 DEF SampleTypeOK, GetAddresses, nodeVars
<1>9. CASE GetVersion
  <2>1. pmd \in PeerMetadata
    BY <1>9 DEF GetVersion, SampleInv, InHand
  <2>2. [pmd EXCEPT !.version = agent[pmd.peer]] \in PeerMetadata
    BY <1>0, <2>1 DEF PeerMetadata
  <2> QED
    BY <1>1, <1>9, <2>2 DEF SampleTypeOK, GetVersion, nodeVars
<1>10. CASE Return
  BY <1>1, <1>10 DEF SampleTypeOK, Return, nodeVars
<1>11. CASE call = "none" /\ UNCHANGED sampleVars
  BY <1>1, <1>11 DEF SampleTypeOK, SampleInv, sampleVars, callVars
<1>12. CASE UNCHANGED readersVars
  BY <1>1, <1>12 DEF SampleTypeOK, readersVars, vars, nodeVars, sampleVars, callVars
<1> QED
  BY <1>3, <1>4, <1>5, <1>6, <1>7, <1>8, <1>9, <1>10, <1>11, <1>12
     DEF Step, ReadersNext, SampleNext

\* The number of connections stays between the steady peers and those seen.
LEMMA NumConnsStays ==
  ASSUME SampleTypeOK, LoopInv, SteadyInv, SampleInv, Step, Counting'
  PROVE  numConns' \in Cardinality(steady')..Cardinality(seen')
<1>0. /\ open \subseteq Conn /\ seen \subseteq Conn /\ steady \subseteq Peer /\ steady \subseteq Peers
      /\ numConns \in Nat /\ NodeTypeOK
  <2>1. numConns \in 0..Cardinality(Conn) /\ Cardinality(Conn) \in Nat
    BY FiniteConn DEF SampleTypeOK
  <2> QED
    BY <2>1, TypeParts DEF SampleTypeOK, NodeTypeOK, SteadyInv, StayInv
<1>1. SampleTypeOK'
  BY SampleTypeStays
<1>2. /\ Cardinality(seen) \in Nat /\ Cardinality(seen') \in Nat
      /\ Cardinality(steady) \in Nat
  BY <1>0, <1>1, FiniteConn, FinitePeers DEF SampleTypeOK
<1>3. CASE GetNumConns
  <2>1. /\ numConns' = Cardinality(open) /\ UNCHANGED <<steady, seen>> /\ open \subseteq seen
    BY <1>3 DEF GetNumConns, NumConns, SampleInv, InCall, nodeVars
  <2>2. Cardinality(steady) <= Cardinality(open) /\ Cardinality(open) \in Nat
    BY <1>0, PeersCounted
  <2>3. Cardinality(open) <= Cardinality(seen)
    BY <1>0, <2>1, FiniteConn, FS_Subset
  <2> QED
    BY <1>2, <2>1, <2>2, <2>3
<1>4. CASE ~GetNumConns
  <2>1. Counting /\ numConns' = numConns
    <3>1. CASE SampleNext
      BY <1>4, <3>1 DEF SampleNext, Environment, Begin, CopyPeers, LookAt, GetAddresses,
                        GetVersion, Return, callVars, Counting
    <3>2. CASE UNCHANGED sampleVars
      BY <3>2 DEF sampleVars, callVars, Counting
    <3> QED
      BY <3>1, <3>2 DEF Step, ReadersNext, readersVars
  <2>2. seen \subseteq seen' /\ steady' \subseteq steady
    <3>1. CASE Environment
      BY <1>0, <3>1, NodeChanges DEF Environment
    <3>2. CASE ~Environment
      <4>1. CASE SampleNext
        BY <2>1, <3>2, <4>1 DEF SampleNext, Begin, CopyPeers, GetNumConns, LookAt, GetAddresses,
                                GetVersion, Return, Counting, nodeVars
      <4>2. CASE call = "none"
        BY <2>1, <4>2 DEF Counting
      <4>3. CASE UNCHANGED readersVars
        BY <4>3 DEF readersVars, vars, nodeVars, sampleVars
      <4> QED
        BY <4>1, <4>2, <4>3 DEF Step, ReadersNext
    <3> QED
      BY <3>1, <3>2
  <2>3. Cardinality(steady') <= Cardinality(steady) /\ Cardinality(steady') \in Nat
        /\ Cardinality(seen) <= Cardinality(seen')
    <3>1. seen' \subseteq Conn
      BY <1>1 DEF SampleTypeOK
    <3> QED
      BY <1>0, <2>2, <3>1, FiniteConn, FinitePeers, FS_Subset, FS_CardinalityType
  <2>4. numConns \in Cardinality(steady)..Cardinality(seen)
    BY <2>1 DEF SampleInv
  <2> QED
    BY <1>0, <1>2, <2>1, <2>3, <2>4
<1> QED
  BY <1>3, <1>4

\* Every step keeps the invariant of a call's stages.
LEMMA SampleInvStays ==
  ASSUME SampleTypeOK, LoopInv, SteadyInv, SampleInv, Step
  PROVE  SampleInv'
<1> DEFINE Sees == InCall => open \subseteq seen /\ Peers \subseteq met
           Holds == /\ InHand # {} => pmd \in PeerMetadata
                    /\ InHand = {} => pmd = NoEntry
                    /\ ~Counting => metadata = {}
<1>0. NodeTypeOK /\ Peers' \subseteq known'
  <2>1. NodeTypeOK /\ Peers \subseteq known
    BY TypeParts DEF SampleTypeOK, SampleInv
  <2> QED
    BY <2>1, NodeStays
<1>1. (Counting => numConns \in Cardinality(steady)..Cardinality(seen))'
  BY NumConnsStays
<1>2. CASE SampleNext /\ UNCHANGED loopVars
  <2>1. call' # "none" /\ at' = "waiting" /\ family' = "protocols"
    BY <1>2, CallSteps DEF SampleInv
  <2>2. Sees'
    <3>1. CASE Environment
      BY <1>0, <3>1, NodeChanges DEF Environment
    <3>2. CASE Begin
      BY <3>2 DEF Begin, Begins, nodeState, Peers
    <3>3. CASE ~Environment /\ ~Begin
      BY <1>2, <3>3 DEF SampleNext, CopyPeers, GetNumConns, LookAt, GetAddresses, GetVersion,
                        Return, SampleInv, InCall, nodeVars, Peers
    <3> QED
      BY <3>1, <3>2, <3>3
  <2>3. Holds'
    <3>1. SampleTypeOK'
      BY SampleTypeStays
    <3>2. CASE \E p \in peers : LookAt(p)
      <4>1. PICK p \in peers : LookAt(p)
        BY <3>2
      <4>2. call = "looking" /\ pmd = NoEntry /\ metadata' = metadata
        BY <4>1 DEF LookAt, SampleInv, InHand
      <4>3. CASE Skips(p)
        BY <4>1, <4>2, <4>3 DEF LookAt, InHand, Counting
      <4>4. CASE ~Skips(p)
        <5>1. call' = "addrs" /\ pmd'.peer = p
          BY <4>1, <4>4 DEF LookAt, NoEntry
        <5>2. pmd' \in PeerMetadata
          <6>1. pmd' \in PeerMetadata \/ pmd' = NoEntry
            BY <3>1 DEF SampleTypeOK
          <6>2. pmd' = NoEntry => None \in Peer
            BY <5>1 DEF NoEntry, SampleTypeOK
          <6>3. None \in Peer => NoEntry \in PeerMetadata
            BY DEF NoEntry, PeerMetadata
          <6> QED
            BY <6>1, <6>2, <6>3
        <5> QED
          BY <5>1, <5>2 DEF InHand, Counting
      <4> QED
        BY <4>3, <4>4
    <3>3. CASE GetAddresses
      <4>1. pmd \in PeerMetadata /\ NodeTypeOK
        BY <1>0, <3>3 DEF GetAddresses, SampleInv, InHand
      <4>2. pmd' \in PeerMetadata
        BY <3>3, <4>1 DEF GetAddresses, PeerMetadata, Addresses, ConnsToPeer, NodeTypeOK
      <4> QED
        BY <3>3, <4>2 DEF GetAddresses, InHand, Counting
    <3>4. CASE GetVersion
      BY <3>4 DEF GetVersion, InHand, Counting
    <3>5. CASE Environment
      <4>1. UNCHANGED <<call, pmd, metadata>>
        BY <3>5 DEF Environment, callVars
      <4> QED
        BY <4>1 DEF SampleInv, InHand, Counting
    <3>6. CASE Begin \/ CopyPeers \/ GetNumConns \/ Return
      <4>1. /\ UNCHANGED <<pmd, metadata>>
            /\ call \notin {"addrs", "version"} /\ call' \notin {"addrs", "version"}
            /\ ~Counting' => ~Counting
        BY <3>6 DEF Begin, CopyPeers, GetNumConns, Return, Counting
      <4> QED
        BY <4>1 DEF SampleInv, InHand
    <3> QED
      BY <1>2, <3>2, <3>3, <3>4, <3>5, <3>6 DEF SampleNext
  <2> HIDE DEF Sees, Holds
  <2>4. Sees' /\ Holds'
    BY <2>2, <2>3
  <2> QED
    BY <1>0, <1>1, <2>1, <2>4 DEF SampleInv, Sees, Holds
<1>3. CASE call = "none" /\ UNCHANGED sampleVars
  BY <1>0, <1>3 DEF SampleInv, sampleVars, callVars, InCall, Counting, InHand
<1>4. CASE UNCHANGED readersVars
  <2>1. UNCHANGED <<call, stored, pmd, metadata, numConns, seen, at, family, open, met>>
    BY <1>4 DEF readersVars, sampleVars, callVars, vars, loopVars, fillVars, nodeVars
  <2> QED
    BY <1>0, <1>1, <2>1 DEF SampleInv, InCall, Counting, InHand, Peers
<1> QED
  BY <1>2, <1>3, <1>4 DEF Step, ReadersNext

\* Every step keeps the list of a call free of repetition and gaps.
LEMMA ListStays ==
  ASSUME SampleTypeOK, LoopInv, SteadyInv, SampleInv, ListInv, Step
  PROVE  ListInv'
<1>0. /\ NodeTypeOK /\ steady \subseteq Peers /\ Peers \subseteq known
  BY TypeParts DEF SampleTypeOK, SteadyInv, StayInv, SampleInv
<1>1. CASE Environment
  <2>1. UNCHANGED <<call, onlyConnected, peers, pmd, metadata>>
        /\ stored' \subseteq stored /\ steady' \subseteq steady /\ met \subseteq met'
    BY <1>0, <1>1, NodeChanges DEF Environment, callVars
  <2> QED
    BY <2>1 DEF ListInv, Listed, InHand, Read
<1>2. CASE Begin
  <2>1. metadata = {} /\ metadata' = {} /\ call' = "peers"
    BY <1>2 DEF Begin, SampleInv, Counting
  <2> QED
    BY <2>1 DEF ListInv, Listed, InHand, Read
<1>3. CASE CopyPeers
  <2>1. /\ metadata = {} /\ metadata' = {} /\ call' = "conns" /\ peers' = known
        /\ UNCHANGED <<stored, steady>>
    BY <1>3 DEF CopyPeers, SampleInv, Counting, nodeVars
  <2>2. stored \subseteq known
    BY DEF SampleTypeOK
  <2> QED
    BY <1>0, <2>1, <2>2 DEF ListInv, Listed, InHand, Read
<1>4. CASE GetNumConns \/ Return
  <2>1. /\ Read /\ call \notin {"addrs", "version"} /\ call' \notin {"addrs", "version"}
        /\ UNCHANGED <<onlyConnected, peers, pmd, metadata, stored, steady, met>>
        /\ call' = "returned" => peers = {}
    BY <1>4 DEF GetNumConns, Return, nodeVars, Read
  <2> QED
    BY <2>1 DEF ListInv, Listed, InHand, Read
<1>5. ASSUME NEW p \in peers, LookAt(p) PROVE ListInv'
  <2>1. /\ call = "looking" /\ peers' = peers \ {p}
        /\ UNCHANGED <<onlyConnected, metadata, stored, steady, met>>
    BY <1>5 DEF LookAt, Remaining, nodeVars
  <2>2. CASE Skips(p)
    <3>1. call' = "looking" /\ p \notin steady /\ onlyConnected
      BY <1>0, <1>5, <2>1, <2>2 DEF LookAt, Skips
    <3> QED
      BY <2>1, <3>1 DEF ListInv, Listed, InHand, Read
  <2>3. CASE ~Skips(p)
    <3>1. call' = "addrs" /\ pmd'.peer = p
      BY <1>5, <2>3 DEF LookAt, NoEntry
    <3>2. onlyConnected => p \in met
      BY <2>1, <2>3 DEF Skips, SampleInv, InCall
    <3> QED
      BY <2>1, <3>1, <3>2 DEF ListInv, Listed, InHand, Read
  <2> QED
    BY <2>2, <2>3
<1>6. CASE GetAddresses
  <2>1. /\ call = "addrs" /\ call' = "version"
        /\ UNCHANGED <<onlyConnected, peers, metadata, stored, steady, met>>
    BY <1>6 DEF GetAddresses, nodeVars
  <2>2. pmd'.peer = pmd.peer
    <3>1. pmd \in PeerMetadata
      BY <2>1 DEF SampleInv, InHand
    <3> QED
      BY <1>6, <3>1 DEF GetAddresses, PeerMetadata
  <2> QED
    BY <2>1, <2>2 DEF ListInv, Listed, InHand, Read
<1>7. CASE GetVersion
  <2> DEFINE entry == [pmd EXCEPT !.version = agent[pmd.peer]]
  <2>1. /\ call = "version" /\ call' = "looking" /\ metadata' = metadata \cup {entry}
        /\ UNCHANGED <<onlyConnected, peers, stored, steady, met>>
    BY <1>7 DEF GetVersion, nodeVars
  <2>2. entry.peer = pmd.peer
    <3>1. pmd \in PeerMetadata
      BY <2>1 DEF SampleInv, InHand
    <3> QED
      BY <3>1 DEF PeerMetadata
  <2> HIDE DEF entry
  <2>3. InHand = {pmd.peer} /\ InHand' = {} /\ Listed' = Listed \cup {pmd.peer}
    BY <2>1, <2>2 DEF InHand, Listed
  <2>4. \A m, n \in metadata' : m.peer = n.peer => m = n
    <3>1. \A m \in metadata : m.peer # pmd.peer
      BY <2>3 DEF ListInv, Listed
    <3> QED
      BY <2>1, <2>2, <3>1 DEF ListInv
  <2>5. Read /\ Read' /\ call' # "returned"
    BY <2>1 DEF Read
  <2> QED
    BY <2>1, <2>3, <2>4, <2>5 DEF ListInv
<1>8. CASE call = "none" /\ UNCHANGED sampleVars
  <2>1. UNCHANGED <<call, onlyConnected, peers, metadata>> /\ metadata = {}
    BY <1>8 DEF SampleInv, Counting, sampleVars, callVars
  <2> QED
    BY <1>8, <2>1 DEF ListInv, Listed, InHand, Read
<1>9. CASE UNCHANGED readersVars
  <2>1. UNCHANGED <<call, onlyConnected, peers, pmd, metadata, stored, steady, met>>
    BY <1>9 DEF readersVars, sampleVars, callVars, vars, nodeVars
  <2> QED
    BY <2>1 DEF ListInv, Listed, InHand, Read
<1> QED
  BY <1>1, <1>2, <1>3, <1>4, <1>5, <1>6, <1>7, <1>8, <1>9 DEF Step, ReadersNext, SampleNext

\* Every step keeps what is said of each peer in agreement.
LEMMA EntryStays ==
  ASSUME SampleTypeOK, LoopInv, SteadyInv, SampleInv, EntryInv, Step
  PROVE  EntryInv'
<1>0. /\ NodeTypeOK /\ open \subseteq Conn
  BY TypeParts DEF SampleTypeOK, NodeTypeOK
<1>1. CASE Environment
  <2>1. UNCHANGED <<pmd, metadata>> /\ seen \subseteq seen'
        /\ steady' \subseteq steady /\ met \subseteq met'
        /\ \A p \in steady' : agent'[p] = agent[p]
    BY <1>0, <1>1, NodeChanges DEF Environment, callVars
  <2> QED
    BY <2>1 DEF EntryInv, EntriesConsistent
<1>2. CASE Begin
  <2>1. metadata' = {} /\ pmd' = NoEntry
    BY <1>2 DEF Begin, SampleInv, Counting, InHand
  <2> QED
    BY <2>1 DEF EntryInv, EntriesConsistent, NoEntry
<1>3. CASE CopyPeers \/ GetNumConns \/ Return
  BY <1>3 DEF CopyPeers, GetNumConns, Return, nodeVars, EntryInv, EntriesConsistent
<1>4. ASSUME NEW p \in peers, LookAt(p) PROVE EntryInv'
  <2>1. UNCHANGED <<metadata, seen, steady, met, agent>> /\ Peers \subseteq met
    BY <1>4 DEF LookAt, nodeVars, SampleInv, InCall
  <2>2. CASE Skips(p)
    BY <1>4, <2>1, <2>2 DEF LookAt, EntryInv, EntriesConsistent
  <2>3. CASE ~Skips(p)
    <3>1. pmd'.peer = p /\ (pmd'.connected <=> p \in Peers) /\ pmd'.addrs = {}
      BY <1>4, <2>3 DEF LookAt, NoEntry
    <3> QED
      BY <2>1, <3>1 DEF EntryInv, EntriesConsistent
  <2> QED
    BY <2>2, <2>3
<1>5. CASE GetAddresses
  <2>1. /\ UNCHANGED <<metadata, seen, steady, met, agent>> /\ open \subseteq seen
        /\ pmd \in PeerMetadata
    BY <1>5 DEF GetAddresses, nodeVars, SampleInv, InCall, InHand
  <2>2. /\ pmd'.peer = pmd.peer /\ pmd'.connected = pmd.connected
        /\ pmd'.addrs = IF pmd.connected THEN ConnsToPeer(pmd.peer) ELSE pmd.addrs
    BY <1>5, <2>1 DEF GetAddresses, HasAddresses, Addresses, PeerMetadata
  <2> QED
    BY <2>1, <2>2 DEF EntryInv, EntriesConsistent, ConnsToPeer
<1>6. CASE GetVersion
  <2> DEFINE entry == [pmd EXCEPT !.version = agent[pmd.peer]]
  <2>1. /\ UNCHANGED <<seen, steady, met, agent>> /\ pmd \in PeerMetadata /\ pmd' = NoEntry
        /\ metadata' = metadata \cup {entry}
    BY <1>6 DEF GetVersion, nodeVars, SampleInv, InHand
  <2>2. /\ entry.peer = pmd.peer /\ entry.connected = pmd.connected
        /\ entry.addrs = pmd.addrs /\ entry.version = agent[pmd.peer]
    BY <2>1 DEF PeerMetadata
  <2> HIDE DEF entry
  <2>3. EntriesConsistent'
    BY <2>1, <2>2 DEF EntryInv, EntriesConsistent
  <2> QED
    BY <2>1, <2>3 DEF EntryInv, NoEntry
<1>7. CASE call = "none" /\ UNCHANGED sampleVars
  <2>1. metadata' = {} /\ pmd' = NoEntry
    BY <1>7 DEF SampleInv, Counting, InHand, sampleVars, callVars
  <2> QED
    BY <2>1 DEF EntryInv, EntriesConsistent, NoEntry
<1>8. CASE UNCHANGED readersVars
  <2>1. UNCHANGED <<pmd, metadata, seen, steady, met, agent>>
    BY <1>8 DEF readersVars, sampleVars, callVars, vars, nodeVars
  <2> QED
    BY <2>1 DEF EntryInv, EntriesConsistent
<1> QED
  BY <1>1, <1>2, <1>3, <1>4, <1>5, <1>6, <1>7, <1>8 DEF Step, ReadersNext, SampleNext

\* Nobody is listed twice.
LEMMA OncePerPeer ==
  ASSUME metadata \subseteq PeerMetadata, \A m, n \in metadata : m.peer = n.peer => m = n
  PROVE  Cardinality(metadata) = Cardinality(Listed)
<1> DEFINE f == [m \in metadata |-> m.peer]
<1>1. IsFiniteSet(Listed)
  BY FinitePeers DEF Listed, PeerMetadata
<1>2. f \in Bijection(metadata, Listed)
  <2>1. f \in [metadata -> Listed] /\ \A m, n \in metadata : f[m] = f[n] => m = n
    BY DEF Listed
  <2>2. \A p \in Listed : \E m \in metadata : f[m] = p
    BY DEF Listed
  <2> HIDE DEF f
  <2> QED
    BY <2>1, <2>2 DEF Bijection, Injection, Surjection, IsInjective
<1> HIDE DEF f
<1>3. IsFiniteSet(metadata)
  <2>1. f \in Injection(metadata, Listed)
    BY <1>2 DEF Bijection
  <2> QED
    BY <1>1, <2>1, FS_Injection
<1> QED
  BY <1>2, <1>3, FS_Bijection DEF ExistsBijection

\* The inductive invariant contains what the runs check.
LEMMA InvImplies ==
  ASSUME IInv
  PROVE  ReadersInv /\ VersionsShownRight /\ SteadyCounted /\ SampleTruthful
<1>1. ReadersInv /\ VersionsShownRight /\ SteadyCounted
  BY DEF IInv, LoopInv, StreamsInv, SteadyInv, ReadersInv
<1>2. SampleComplete
  <2> SUFFICES ASSUME call = "returned"
               PROVE  /\ Cardinality(metadata) = Cardinality(Listed)
                      /\ onlyConnected => steady \subseteq Listed /\ Listed \subseteq met
                      /\ ~onlyConnected => stored \subseteq Listed
    BY DEF SampleComplete, Listed
  <2>1. Cardinality(metadata) = Cardinality(Listed)
    BY OncePerPeer DEF IInv, SampleTypeOK, ListInv
  <2>2. InHand = {} /\ peers = {} /\ Read
    BY DEF IInv, ListInv, InHand, Read
  <2> QED
    BY <2>1, <2>2 DEF IInv, ListInv
<1>3. EntriesConsistent /\ NumConnsPlausible
  BY DEF IInv, EntryInv, SampleInv, NumConnsPlausible, Counting
<1> QED
  BY <1>1, <1>2, <1>3 DEF SampleTruthful

\* The initial states satisfy the inductive invariant.
LEMMA InitReaders ==
  ASSUME SampleInit
  PROVE  IInv
<1>1. /\ at = "waiting" /\ family = "protocols" /\ call \in {"none", "called"}
      /\ currentConns = {} /\ currentPeers = {} /\ todo = {}
      /\ counts = [l \in Protocol |-> 0] /\ unset = {} /\ rest = {}
      /\ gauges = [f \in Family |-> <<>>] /\ read = [p \in Peer |-> None]
      /\ peers = {} /\ numConns = 0 /\ pmd = NoEntry /\ metadata = {} /\ stored = {} /\ seen = {}
      /\ onlyConnected \in BOOLEAN
  BY DEF SampleInit, Init
<1>2. /\ NodeTypeOK /\ Peers \subseteq known /\ steady = {} /\ met = {}
      /\ \A p \in Peer : always[p] = {}
  BY InitNode DEF SampleInit, Init
<1>3. LoopType
  <2>1. family \in Family /\ counts \in [Label[family] -> Nat]
    BY <1>1, Labels DEF Family
  <2> QED
    BY <1>1, <2>1 DEF LoopType
<1>4. TypeOK
  BY <1>2, <1>3 DEF TypeOK, NodeTypeOK, LoopType
<1>5. SampleTypeOK
  <2>1. numConns \in 0..Cardinality(Conn)
    BY <1>1, FiniteConn
  <2> QED
    BY <1>1, <1>4, <2>1 DEF SampleTypeOK
<1>6. LoopInv
  BY <1>1, <1>3 DEF LoopInv, FillInv, Filling, VersionCounts, VersionsShownRight,
     PeersCountedOnce, TopVersionsShown, VersionsFilled, StreamsInv, NoStaleStreams
<1>7. SteadyInv
  BY <1>1, <1>2 DEF SteadyInv, StayInv, VersionsRead, ProtocolsRead, Filling, SteadyCounted,
     SteadyPeersCounted, SteadyProtocolsCounted, VersionsFilled, ProtocolsFilled
<1>8. SampleInv
  BY <1>1, <1>2 DEF SampleInv, InCall, InHand, Counting
<1>9. ListInv
  BY <1>1 DEF ListInv, Listed, InHand, Read
<1>10. EntryInv
  BY <1>1 DEF EntryInv, EntriesConsistent, NoEntry
<1> QED
  BY <1>5, <1>6, <1>7, <1>8, <1>9, <1>10 DEF IInv

\* The inductive invariant: every behaviour keeps all of the above.
LEMMA Invariance == ReadersSpec => []IInv
<1>1. SampleInit => IInv
  BY InitReaders
<1>2. IInv /\ [ReadersNext]_readersVars => IInv'
  <2> SUFFICES ASSUME IInv, [ReadersNext]_readersVars PROVE IInv'
    OBVIOUS
  <2>1. /\ SampleTypeOK /\ LoopInv /\ SteadyInv /\ SampleInv /\ ListInv /\ EntryInv
        /\ Step /\ TypeOK
    BY DEF IInv, SampleTypeOK, Step
  <2>2. LoopInv' /\ SteadyInv'
    BY <2>1, LoopStays, SteadyStays
  <2>3. SampleTypeOK' /\ SampleInv' /\ ListInv' /\ EntryInv'
    BY <2>1, SampleTypeStays, SampleInvStays, ListStays, EntryStays
  <2> QED
    BY <2>2, <2>3 DEF IInv
<1> QED
  BY <1>1, <1>2, PTL DEF ReadersSpec

\* The state of the rounds and of the calls has its types, and after a round no
\* series of streams is left of an earlier one.
THEOREM TypesAndStreams == ReadersSpec => []ReadersInv
<1>1. IInv => ReadersInv
  BY InvImplies
<1> QED
  BY <1>1, Invariance, PTL

\* populatePrometheus counts every peer of a round in one series of agent
\* versions, and shows the most frequent ones and the sum of the others; at most
\* the peers of a version called "others" are left out.
THEOREM VersionsRight == ReadersSpec => []VersionsShownRight
<1>1. IInv => VersionsShownRight
  BY InvImplies
<1> QED
  BY <1>1, Invariance, PTL

\* A round that reads the node piece by piece counts those who stay connected
\* under the version and the protocols they keep, and nobody who was not connected
\* at all, or for a protocol it never had.
THEOREM SteadyRight == ReadersSpec => []SteadyCounted
<1>1. IInv => SteadyCounted
  BY InvImplies
<1> QED
  BY <1>1, Invariance, PTL

\* What SamplePeerMetadata returns is complete, nobody is in it twice, and what
\* it says of one peer agrees, however the node changes during the call.
THEOREM SampleRight == ReadersSpec => []SampleTruthful
<1>1. IInv => SampleTruthful
  BY InvImplies
<1> QED
  BY <1>1, Invariance, PTL

===============================================================================
