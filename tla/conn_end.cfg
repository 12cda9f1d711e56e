\* The clients of conn, one of which sends a text get of two keys through the
\* locking wrapper.  Clients that send nothing more leave the server waiting.
SPECIFICATION Spec
CONSTANTS
  c1 = c1
  c2 = c2
  k1 = k1
  k2 = k2
  Conns = {c1, c2}
  Keys = {k1, k2}
  Data = {"x"}
  None = None
  Workloads <- MCWorkloads
INVARIANT TextAnswersOnce
CHECK_DEADLOCK FALSE
