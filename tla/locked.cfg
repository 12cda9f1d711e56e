\* Both ports behind one set of read-write locks; one handler call may fail, one expiry time is reached.
CONSTANTS
  None = None
  m1 = m1
  m2 = m2
  b1 = b1
  Data = {d1, d2}
  Keys = {k1}
  MaxLen = 2
  RealTimeMaxDelta = 2
  MainConns = {m1, m2}
  BatchConns = {b1}
  OpsOf <- LockedOps
  Exptimes = {0, 11}
  StartTime = 10
  MaxNow = 11
  MaxFaults = 1
  Buckets = {1}
  Hash <- OneBucket
  Locked = TRUE
  MultipleReaders = TRUE
SPECIFICATION Spec
SYMMETRY DataSymmetry
INVARIANTS TypeOK LockExclusion Coherent OnlyFailuresTear
