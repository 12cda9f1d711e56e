\* Two observers, two polls of the endpoint, buffers of two cells, few buckets and short words: the larger
\* value lies beyond the table, and totals wrap.
CONSTANTS
  Observers = {o1, o2}
  Pollers = {p1, p2}
  Values = {20, 62}
  None = None
  MaxUint64 = 100
  NumAtlasBuckets = 20
  BufLen = 1
  SampleMask = 1
  MaxObs = 3
  MaxPolls = 2
SPECIFICATION Spec
INVARIANTS TypeOK ReportIsThePeriod SortedBufferIsPrivate SamplesAreOfThePeriod BucketsCoverCounts ObservationsAreBucketed
PROPERTY EveryObservationEnds
CHECK_DEADLOCK FALSE
