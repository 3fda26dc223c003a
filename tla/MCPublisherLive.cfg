\* Batches of one event, so that four events fill the pipeline and overflow it.
SPECIFICATION FairSpec
CONSTANTS
  Caller = {g1}
  Closer = {k1}
  Array = {a1, a2, a3}
  Buffer = {b1, b2, b3, b4}
  MinSlice = 1
  MaxSlice = 1
  MaxEvents = 4
  None = None
CHECK_DEADLOCK FALSE
PROPERTIES
  CallersNeverStall
  CloseTerminates
