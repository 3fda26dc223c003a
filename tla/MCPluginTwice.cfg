\* One listener, one request, three callers of Close; configurations with and
\* without a probe and with good and bad numbers.  CHECK_DEADLOCK is off because
\* the plugin ends, and because of panics that end the process.
SPECIFICATION PluginFairSpec
CONSTANTS
  Listener = {l1}
  Request = {r1}
  Stopper = {k1, k2, k3}
  Interval <- MCInterval
  CutOff <- MCCutOff
  None = None
CHECK_DEADLOCK FALSE
PROPERTIES
  CloseIdempotent
