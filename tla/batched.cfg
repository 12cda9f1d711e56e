\* The batch size left at 0, and set so that the default is used; sockets smaller
\* than a batch, a pool that grows, and one failure.
CONSTANTS
  c1 = c1
  c2 = c2
  Clients = {c1, c2}
  Script <- BatchedScript
  KeysPerGet = 2
  Settings = {0, 1}
  DefaultBatchSize = 2
  Bases = {0}
  SocketRoom = 1
  MaxPool = 2
  MaxFaults = 1
SPECIFICATION FairSpec
INVARIANTS TypeOK AnswersAreOwn AnswersAreComplete InSync OnlyFaultsPanic
PROPERTY EveryCallEnds
CHECK_DEADLOCK FALSE
