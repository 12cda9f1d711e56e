\* A gat on the batch port of an item that L1 holds.
CONSTANTS
  None = None
  m1 = m1
  m2 = m2
  b1 = b1
  Data = {d1}
  Keys = {k1}
  MaxLen = 2
  RealTimeMaxDelta = 2
  MainConns = {m1}
  BatchConns = {b1}
  OpsOf <- BatchGatOps
  Exptimes = {0, 12}
  StartTime = 10
  MaxNow = 11
  MaxFaults = 0
  Buckets = {1}
  Hash <- OneBucket
  Locked = TRUE
  MultipleReaders = TRUE
SPECIFICATION Spec
INVARIANT L1NeverOutlivesL2
