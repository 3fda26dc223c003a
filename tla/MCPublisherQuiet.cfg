\* Two events, batches of two, Close never called.
SPECIFICATION FairSpec
CONSTANTS
  Caller = {g1}
  Closer = {}
  Array = {a1, a2, a3}
  Buffer = {b1, b2, b3, b4}
  MinSlice = 2
  MaxSlice = 2
  MaxEvents = 2
  None = None
CHECK_DEADLOCK FALSE
PROPERTIES
  EventsLeave
