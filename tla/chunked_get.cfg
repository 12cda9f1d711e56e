\* A writer and a reader; nothing fails.
CONSTANTS
  None = None
  Zero = Zero
  a = a
  b = b
  c1 = c1
  c2 = c2
  Data = {a, b}
  MaxLen = 10
  RealTimeMaxDelta = 2
  StartTime = 10
  Conns = {c1, c2}
  OpsOf <- GetOps
  PayloadsOf <- TwoChunks
  ExptimesOf <- Forever
  SpareConns = {c1, c2}
  MaxNow = 10
  MaxPieces = 2
  MaxTokens = 2
  MaxFaults = 0
SPECIFICATION Spec
INVARIANT HitIsWhole
