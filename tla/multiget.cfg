\* One connection, gets of up to two keys and sets after them, every
\* orchestrator and every content of the two levels.
SPECIFICATION Spec
CONSTANTS
  Keys = {k1, k2}
  MaxKeys = 2
  None = None
  MaxReqs = 2
  MaxFaults = 2
INVARIANTS TypeOK OneCallPerHandler EndIsComplete TrueAnswers
PROPERTY EveryRequestEnds
