\* Clients that send nothing more leave the server waiting, so it may stop.
SPECIFICATION Spec
CONSTANTS
  c1 = c1
  c2 = c2
  k1 = k1
  k2 = k2
  Conns = {c1, c2}
  Keys = {k1, k2}
  Data = {"x"}
  None = None
  Workloads <- MCWorkloads
INVARIANTS TypeOK BinaryReplies TextReplies ClosedForCause SnapshotGets OnlyGetsClash
PROPERTY EveryRequestIsServed
CHECK_DEADLOCK FALSE
