\* Batches of two or three events: six events fill all stages.  CHECK_DEADLOCK is
\* off because log.Fatalf ends the process.
SPECIFICATION Spec
CONSTANTS
  Caller = {g1, g2}
  Closer = {k1, k2}
  Array = {a1, a2, a3}
  Buffer = {b1, b2, b3, b4}
  MinSlice = 2
  MaxSlice = 3
  MaxEvents = 6
  None = None
SYMMETRY MCSymmetry
CHECK_DEADLOCK FALSE
INVARIANTS
  TypeOK
  EventsAccounted
  PayloadsIntact
  MemoryOwned
  NeverPanics
  CloseDrains
PROPERTIES
  ImplementsLossyFeed
