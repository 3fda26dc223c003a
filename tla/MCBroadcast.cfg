\* Two peers, two workers, three senders, one of which supports HAVE.  No symmetry,
\* which liveness would not survive.
SPECIFICATION FairSpec
CONSTANTS
  s1 = s1
  s2 = s2
  s3 = s3
  Peer = {p1, p2}
  Sender = {s1, s2, s3}
  Worker = {w1, w2}
  HaveSender <- MCHaveSender
  NoSender = NoSender
  Untracked = Untracked
  NoPeer = NoPeer
  None = None
INVARIANTS
  TypeOK
  NoSendOnClosedChannel
  ResultsDereferenceable
  ResultsTellTruth
  KeptPeersServed
  SenderNotShared
PROPERTIES
  BroadcastReturns
