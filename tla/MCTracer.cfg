\* Two connections, two messages, two callers of Shutdown, batches of one event and
\* more.  CHECK_DEADLOCK is off because connections and messages come to an end.
SPECIFICATION Spec
CONSTANTS
  Topic <- MCTopic
  MinSlice = 1
  Conn = {c1, c2}
  Message = {m1, m2}
  Closer = {k1, k2}
SYMMETRY MCSymmetry
CHECK_DEADLOCK FALSE
INVARIANTS
  TracerInv
