\* Three batches, two load attempts, a host and two other threads; the last
\* tensor may be dropped on another thread, long after the wrapper.
SPECIFICATION LiveSpec
CONSTANTS
  Threads = {host, t1, t2}
  Host = host
  Batches = {b1, b2, b3}
  Instances = {i1, i2}
INVARIANTS
  PluginCodePresent
  TensorsReadable
  FreedInOrder
  NoLeak
PROPERTY
  EventuallyUnloaded
CHECK_DEADLOCK FALSE
