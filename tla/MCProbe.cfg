\* Two peers, the first with a direct and a transient connection; two connectors
\* per peer.
SPECIFICATION Spec
CONSTANTS
  p1 = p1
  p2 = p2
  c1 = c1
  c2 = c2
  c3 = c3
  Peer = {p1, p2}
  Conn = {c1, c2, c3}
  Sender = {s1, s2, s3}
  Closer = {k1, k2}
  RemotePeer <- MCRemotePeer
  Transient <- MCTransient
  MaxConnectors = 2
  NoConn = NoConn
  NoPeer = NoPeer
  NoSender = NoSender
  Untracked = Untracked
SYMMETRY MCSymmetry
INVARIANTS
  ProbeInv
  TableConsistent
  SenderOwnership
  NoPhantomConnection
  WaitGroupExact
  AtMostOneLateConnector
PROPERTIES
  SenderLeavesWithPeer
  ImplementsSenderTable
