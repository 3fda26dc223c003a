\* Three peers with one connection each, two agent versions and the version "others",
\* one of which is shown: versions are ranked, tied and dropped, over several rounds.
\* CHECK_DEADLOCK is off because a call of SamplePeerMetadata ends.
SPECIFICATION ReadersSpec
CONSTANTS
  Peer = {p1, p2, p3}
  Slot = {1}
  Version = {v1, v2, "others"}
  Protocol = {"bitswap"}
  Stream <- MCStream
  None = None
  MaxChanges = 2
  CutOff = 1
SYMMETRY MCSymmetry
CHECK_DEADLOCK FALSE
INVARIANTS
  ReadersInv
  VersionsShownRight
  SteadyCounted
  SampleTruthful
