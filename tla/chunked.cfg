\* Two clients sending everything, one failure, one eviction, a deadline
\* to come and one that has passed.
CONSTANTS
  None = None
  Zero = Zero
  a = a
  b = b
  c1 = c1
  c2 = c2
  Data = {a, b}
  MaxLen = 10
  RealTimeMaxDelta = 2
  StartTime = 10
  Conns = {c1, c2}
  OpsOf <- ChunkedOps
  PayloadsOf <- ChunkedPayloads
  ExptimesOf <- ChunkedExptimes
  SpareConns = {c2}
  MaxNow = 11
  MaxPieces = 2
  MaxTokens = 2
  MaxFaults = 1
SPECIFICATION Spec
INVARIANTS TypeOK TokensGuardReads ActsLikeMemcached
