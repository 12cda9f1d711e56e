\* Three connections, every request type, no failures and no expiry.
CONSTANTS
  None = None
  m1 = m1
  m2 = m2
  b1 = b1
  Data = {d1, d2}
  Keys = {k1}
  MaxLen = 2
  RealTimeMaxDelta = 2
  MainConns = {m1, m2}
  BatchConns = {b1}
  OpsOf <- LinearizableOps
  Exptimes = {0}
  StartTime = 10
  MaxNow = 10
  MaxFaults = 0
  Buckets = {1}
  Hash <- OneBucket
  Locked = TRUE
  MultipleReaders = TRUE
SPECIFICATION FairSpec
PROPERTIES ImplementsAtomicCache EveryRequestEnds
