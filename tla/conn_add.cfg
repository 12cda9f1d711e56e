\* A client that stores and adds.  Clients that send nothing more leave the
\* server waiting.
SPECIFICATION Spec
CONSTANTS
  c1 = c1
  c2 = c2
  k1 = k1
  k2 = k2
  Conns = {c1, c2}
  Keys = {k1, k2}
  Data = {"x"}
  None = None
  Workloads <- AddWorkloads
PROPERTY KeptUnlessAsked
CHECK_DEADLOCK FALSE
