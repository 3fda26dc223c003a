SPECIFICATION FairSpec
CONSTANTS
  p1 = p1
  p2 = p2
  c1 = c1
  c2 = c2
  c3 = c3
  Peer = {p1}
  Conn = {c1, c2}
  Sender = {s1, s2}
  Closer = {k1}
  RemotePeer <- MCRemotePeer
  Transient <- MCTransient
  MaxConnectors = 2
  NoConn = NoConn
  NoPeer = NoPeer
  NoSender = NoSender
  Untracked = Untracked
PROPERTIES
  ConvergesWithSwarm
