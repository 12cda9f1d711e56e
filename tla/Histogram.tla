----------------------------- MODULE Histogram -----------------------------
(***************************************************************************)
(* One histogram of package metrics: goroutines record observations under  *)
(* the read side of its lock, each with a handful of atomic operations,    *)
(* and the metrics endpoint takes the numbers of the period that ends and  *)
(* swaps the two sample buffers under the write side.  Beside it are the   *)
(* bucket counters, which are never reset and which no lock covers.        *)
(*                                                                         *)
(* A sample cell carries, beside the value, the period it was written in:  *)
(* history, for the properties.                                            *)
(***************************************************************************)
EXTENDS Naturals, FiniteSetsExt, SequencesExt

CONSTANTS Observers,    \* goroutines that record observations
          Pollers,      \* requests to the metrics endpoint
          Values,       \* the durations observed
          None,         \* nobody
          MaxUint64,    \* math.MaxUint64
          NumAtlasBuckets,  \* numAtlasBuckets, 276 in the source
          BufLen,       \* buflen, the last index of a buffer: 2^n - 1
          SampleMask,   \* 0x3 in the source: keep one of SampleMask + 1
          MaxObs,       \* bound on the observations
          MaxPolls      \* bound on the polls

ASSUME HistogramAssumption ==
  /\ MaxUint64 \in Nat /\ Values \subseteq 0..MaxUint64
  /\ NumAtlasBuckets \in Nat /\ NumAtlasBuckets > 15
  /\ BufLen \in Nat \ {0} /\ SampleMask \in Nat
  /\ MaxObs \in Nat /\ MaxPolls \in Nat
  /\ None \notin Pollers

VARIABLES sampled,    \* hSampled: whether only some observations are kept
          dat,        \* hist.dat; buf says which of the two buffers
          bakbuf,     \* hist.bakbuf, the other buffer
          bufs,       \* what the two buffers hold
          readers,    \* observers holding the read side of hist.lock
          buckets,    \* bhist.buckets
          obs,        \* each observer's call of ObserveHist
          readLock,   \* metricsReadLock: the poller that holds it
          poll,       \* each poller's call of printMetrics
          period,     \* history: how often each value was seen this period
          epoch,      \* history: the number of the period
          told,       \* history: the counts of all polls so far
          seen        \* history: observations begun so far

vars == <<sampled, dat, bakbuf, bufs, readers, buckets, obs, readLock, poll,
          period, epoch, told, seen>>

\* What a poll leaves alone, and what an observation leaves alone.
pollVars == <<readLock, poll, bakbuf, epoch, told, sampled>>

(***************************************************************************)
(* The buckets.                                                            *)
(***************************************************************************)

powerOf4Index == <<0, 3, 14, 23, 32, 41, 50, 59, 68, 77, 86, 95, 104, 113,
                   122, 131, 140, 149, 158, 167, 176, 185, 194, 203, 212, 221,
                   230, 239, 248, 257, 266, 275>>

\* The position of the highest set bit: 64 - lzcnt(n) - 1.
HighBit(n) == CHOOSE r \in 0..63 : n \div 2^r = 1

\* The bucket of a value: small ones have one each, and what lies beyond the
\* table goes to the last.
getBucket(n) ==
  IF n <= 15 THEN n
  ELSE LET rshift == HighBit(n)
           lshift == rshift - (rshift % 2)
           prevPowerOf4 == 2^lshift
           offset == (n - prevPowerOf4) \div (prevPowerOf4 \div 3)
           pos == offset + powerOf4Index[lshift \div 2 + 1]
       IN  IF pos >= NumAtlasBuckets - 1 THEN NumAtlasBuckets - 1 ELSE pos + 1

Bucket == {getBucket(v) : v \in Values}

(***************************************************************************)
(* The state.                                                              *)
(***************************************************************************)

Cell(val, at) == [val |-> val, epoch |-> at]

NewData(buf) ==
  [count |-> 0, kept |-> 0, total |-> 0, min |-> MaxUint64, max |-> 0,
   buf |-> buf]

Quiet == [pc |-> "idle", val |-> 0, old |-> 0, idx |-> 0]

\* obs and at are history: what was observed in the period reported, and
\* which period that was.
NotPolling == [pc |-> "idle", dat |-> NewData(1), pctl |-> <<>>,
               copy |-> [b \in Bucket |-> 0],
               obs |-> [v \in Values |-> 0], at |-> 0]

Init ==
  /\ sampled \in BOOLEAN
  /\ dat = NewData(1)
  /\ bakbuf = 2
  /\ bufs = [b \in 1..2 |-> [i \in 0..BufLen |-> Cell(0, 0)]]
  /\ readers = {}
  /\ buckets = [b \in Bucket |-> 0]
  /\ obs = [o \in Observers |-> Quiet]
  /\ readLock = None
  /\ poll = [p \in Pollers |-> NotPolling]
  /\ period = [v \in Values |-> 0]
  /\ epoch = 1
  /\ told = 0
  /\ seen = 0

(***************************************************************************)
(* ObserveHist.                                                            *)
(***************************************************************************)

Goto(o, label) == obs' = [obs EXCEPT ![o].pc = label]

\* RLock, and the running total, a word.
Observe(o) ==
  \E v \in Values :
    /\ obs[o].pc = "idle" /\ seen < MaxObs
    /\ obs' = [obs EXCEPT ![o] = [Quiet EXCEPT !.pc = "max", !.val = v]]
    /\ readers' = readers \cup {o}
    /\ dat' = [dat EXCEPT !.total = (@ + v) % (MaxUint64 + 1)]
    /\ period' = [period EXCEPT ![v] = @ + 1]
    /\ seen' = seen + 1
    /\ UNCHANGED <<bufs, buckets>>

\* The load of max: nothing to do when the value is below it.
LoadMax(o) ==
  /\ obs[o].pc = "max"
  /\ obs' = [obs EXCEPT ![o].old = dat.max,
                        ![o].pc = IF obs[o].val < dat.max THEN "min" ELSE "casmax"]
  /\ UNCHANGED <<dat, bufs, readers, buckets, period, seen>>

\* Mutant: a plain store instead of the compare and swap.
StoreMax(o) ==
  /\ obs[o].pc = "casmax"
  /\ dat' = [dat EXCEPT !.max = obs[o].val]
  /\ Goto(o, "min")
  /\ UNCHANGED <<bufs, readers, buckets, period, seen>>

\* Mutant: the compare and swap is tried again with the value loaded before.
CasMaxStale(o) ==
  /\ obs[o].pc = "casmax"
  /\ IF dat.max = obs[o].old
     THEN dat' = [dat EXCEPT !.max = obs[o].val] /\ Goto(o, "min")
     ELSE UNCHANGED <<obs, dat>>
  /\ UNCHANGED <<bufs, readers, buckets, period, seen>>

\* CompareAndSwap: back to the load when max has moved meanwhile.
CasMax(o) ==
  /\ obs[o].pc = "casmax"
  /\ IF dat.max = obs[o].old
     THEN dat' = [dat EXCEPT !.max = obs[o].val] /\ Goto(o, "min")
     ELSE Goto(o, "max") /\ UNCHANGED dat
  /\ UNCHANGED <<bufs, readers, buckets, period, seen>>

LoadMin(o) ==
  /\ obs[o].pc = "min"
  /\ obs' = [obs EXCEPT ![o].old = dat.min,
                        ![o].pc = IF obs[o].val > dat.min THEN "bucket" ELSE "casmin"]
  /\ UNCHANGED <<dat, bufs, readers, buckets, period, seen>>

CasMin(o) ==
  /\ obs[o].pc = "casmin"
  /\ IF dat.min = obs[o].old
     THEN dat' = [dat EXCEPT !.min = obs[o].val] /\ Goto(o, "bucket")
     ELSE Goto(o, "min") /\ UNCHANGED dat
  /\ UNCHANGED <<bufs, readers, buckets, period, seen>>

\* Mutant: only observations that will be kept are counted in a bucket.
CountBucketOfKept(o) ==
  /\ obs[o].pc = "bucket"
  /\ buckets' = IF sampled /\ dat.count % 2 = 0 THEN buckets
                ELSE [buckets EXCEPT ![getBucket(obs[o].val)] = @ + 1]
  /\ Goto(o, "count")
  /\ UNCHANGED <<dat, bufs, readers, period, seen>>

\* Mutant: the bucket is the one of the minimum last compared with.
CountBucketOfOld(o) ==
  /\ obs[o].pc = "bucket"
  /\ buckets' = [buckets EXCEPT ![getBucket(obs[o].old)] = @ + 1]
  /\ Goto(o, "count")
  /\ UNCHANGED <<dat, bufs, readers, period, seen>>

CountBucket(o) ==
  /\ obs[o].pc = "bucket"
  /\ buckets' = [buckets EXCEPT ![getBucket(obs[o].val)] = @ + 1]
  /\ Goto(o, "count")
  /\ UNCHANGED <<dat, bufs, readers, period, seen>>

\* Count, and return here when the observation is not one to keep.
Count(o) ==
  /\ obs[o].pc = "count"
  /\ dat' = [dat EXCEPT !.count = @ + 1]
  /\ IF sampled /\ (dat.count + 1) % (SampleMask + 1) > 0
     THEN Goto(o, "idle") /\ readers' = readers \ {o}
     ELSE Goto(o, "kept") /\ UNCHANGED readers
  /\ UNCHANGED <<bufs, buckets, period, seen>>

\* Mutant: the index is not reduced to the size of the buffer.
KeepUnwrapped(o) ==
  /\ obs[o].pc = "kept"
  /\ dat' = [dat EXCEPT !.kept = @ + 1]
  /\ obs' = [obs EXCEPT ![o].pc = "write", ![o].idx = dat.kept + 1]
  /\ UNCHANGED <<bufs, readers, buckets, period, seen>>

\* Mutant: the lock is given back before the cell is written.
KeepUnlocked(o) ==
  /\ obs[o].pc = "kept"
  /\ dat' = [dat EXCEPT !.kept = @ + 1]
  /\ obs' = [obs EXCEPT ![o].pc = "write",
                        ![o].idx = (dat.kept + 1) % (BufLen + 1)]
  /\ readers' = readers \ {o}
  /\ UNCHANGED <<bufs, buckets, period, seen>>

\* The cell is the new value of kept, modulo the size of the buffer.
Keep(o) ==
  /\ obs[o].pc = "kept"
  /\ dat' = [dat EXCEPT !.kept = @ + 1]
  /\ obs' = [obs EXCEPT ![o].pc = "write",
                        ![o].idx = (dat.kept + 1) % (BufLen + 1)]
  /\ UNCHANGED <<bufs, readers, buckets, period, seen>>

\* The plain store into the buffer, and RUnlock.
WriteCell(o) ==
  /\ obs[o].pc = "write"
  /\ bufs' = [bufs EXCEPT ![dat.buf][obs[o].idx] = Cell(obs[o].val, epoch)]
  /\ Goto(o, "idle")
  /\ readers' = readers \ {o}
  /\ UNCHANGED <<dat, buckets, period, seen>>

ObserveHist(o) ==
  /\ \/ Observe(o) \/ LoadMax(o) \/ CasMax(o) \/ LoadMin(o) \/ CasMin(o)
     \/ CountBucket(o) \/ Count(o) \/ Keep(o) \/ WriteCell(o)
  /\ UNCHANGED pollVars

(***************************************************************************)
(* printMetrics, as far as one histogram goes.                             *)
(***************************************************************************)

\* Mutant: polls do not exclude each other.
PollUnlocked(p) ==
  /\ poll[p].pc = "idle" /\ epoch <= MaxPolls
  /\ poll' = [poll EXCEPT ![p].pc = "extract"]
  /\ UNCHANGED <<readLock, dat, bakbuf, bufs, period, epoch, told>>

\* metricsReadLock is held for the whole of printMetrics.
Poll(p) ==
  /\ poll[p].pc = "idle" /\ epoch <= MaxPolls
  /\ readLock = None
  /\ readLock' = p
  /\ poll' = [poll EXCEPT ![p].pc = "extract"]
  /\ UNCHANGED <<dat, bakbuf, bufs, period, epoch, told>>

\* extractHist, under the write lock: take the numbers, start afresh on the
\* other buffer.
ExtractHist(p) ==
  /\ poll[p].pc = "extract"
  /\ readers = {}
  /\ poll' = [poll EXCEPT ![p] = [@ EXCEPT !.pc = "sort", !.dat = dat,
                                          !.obs = period, !.at = epoch]]
  /\ dat' = NewData(bakbuf)
  /\ bakbuf' = dat.buf
  /\ period' = [v \in Values |-> 0]
  /\ epoch' = epoch + 1
  /\ told' = told + dat.count
  /\ UNCHANGED <<readLock, bufs>>

\* How many cells, from 0 on, the percentiles are taken from.
Slice(d) == IF d.kept < BufLen + 1 THEN d.kept ELSE BufLen + 1

\* hdatPercentiles: sorts the cells in place, equal ones in any order, and
\* reads the percentiles off them.  There are none without observations
\* (getAllHistograms), and all are zero when nothing was kept.
HdatPercentiles(p) ==
  LET d == poll[p].dat
      n == Slice(d)
      cells == bufs[d.buf]
  IN
  /\ poll[p].pc = "sort"
  /\ \E perm \in Bijection(1..n, 1..n) :
       LET sorted == [i \in 1..n |-> cells[perm[i] - 1]] IN
       /\ \A i, j \in 1..n : i < j => sorted[i].val <= sorted[j].val
       /\ poll' = [poll EXCEPT ![p] = [@ EXCEPT !.pc = "buckets", !.pctl = sorted,
                                               !.copy = buckets]]
       /\ bufs' = [bufs EXCEPT ![d.buf] =
                     [i \in 0..BufLen |-> IF i < n THEN sorted[i + 1] ELSE cells[i]]]
  /\ UNCHANGED <<readLock, dat, bakbuf, period, epoch, told>>

\* getAllBucketHistograms copies the counters one by one while they are being
\* increased; every word is some value it had during the copy.
ExtractBHist(p) ==
  /\ poll[p].pc = "buckets"
  /\ \E copy \in [Bucket -> 0..MaxObs] :
       /\ \A b \in Bucket : copy[b] \in poll[p].copy[b]..buckets[b]
       /\ poll' = [poll EXCEPT ![p].pc = "print", ![p].copy = copy]
  /\ UNCHANGED <<readLock, dat, bakbuf, bufs, period, epoch, told>>

\* The answer is written and metricsReadLock released.
PrintMetrics(p) ==
  /\ poll[p].pc = "print"
  /\ poll' = [poll EXCEPT ![p] = NotPolling]
  /\ readLock' = None
  /\ UNCHANGED <<dat, bakbuf, bufs, period, epoch, told>>

Endpoint(p) ==
  /\ \/ Poll(p) \/ ExtractHist(p) \/ HdatPercentiles(p) \/ ExtractBHist(p)
     \/ PrintMetrics(p)
  /\ UNCHANGED <<sampled, readers, buckets, obs, seen>>

-----------------------------------------------------------------------------

Next == (\E o \in Observers : ObserveHist(o)) \/ (\E p \in Pollers : Endpoint(p))

\* The goroutines run, and no step of theirs waits for more than the locks.
Fairness ==
  /\ \A o \in Observers : WF_vars(obs[o].pc # "idle" /\ ObserveHist(o))
  /\ \A p \in Pollers : WF_vars(poll[p].pc # "idle" /\ Endpoint(p))

Spec == Init /\ [][Next]_vars /\ Fairness

-----------------------------------------------------------------------------
(***************************************************************************)
(* Properties.                                                             *)
(***************************************************************************)

Reporting(p) == poll[p].pc \in {"sort", "buckets", "print"}

Sum(f) == MapThenSumSet(LAMBDA x : f[x], DOMAIN f)

Seen(p) == {v \in Values : poll[p].obs[v] > 0}

Data == [count : Nat, kept : Nat, total : Nat, min : Nat, max : Nat, buf : 1..2]

Cells == [val : Nat, epoch : Nat]

Observations == [pc : {"idle", "max", "casmax", "min", "casmin", "bucket",
                       "count", "kept", "write"},
                 val : Nat, old : Nat, idx : 0..BufLen]

Polls == [pc : {"idle", "extract", "sort", "buckets", "print"}, dat : Data,
          pctl : Seq(Cells), copy : [Bucket -> Nat], obs : [Values -> Nat],
          at : Nat]

\* Types: in particular an index stays within the buffers, whatever kept is.
TypeOK ==
  /\ sampled \in BOOLEAN
  /\ dat \in Data
  /\ bakbuf \in 1..2
  /\ bufs \in [1..2 -> [0..BufLen -> Cells]]
  /\ readers \subseteq Observers
  /\ buckets \in [Bucket -> Nat]
  /\ obs \in [Observers -> Observations]
  /\ readLock \in Pollers \cup {None}
  /\ poll \in [Pollers -> Polls]
  /\ period \in [Values -> Nat]
  /\ epoch \in Nat /\ told \in Nat /\ seen \in Nat

\* ObserveHist: "We lock here to ensure that the min and max values are true
\* to this time period ... Same with average."  What a poll takes is exactly
\* the count, the sum, the minimum and the maximum of the observations begun
\* in the period (the sum as a word), however their atomic steps were
\* interleaved, and of the sampled ones every (SampleMask + 1)th is kept.
ReportIsThePeriod ==
  \A p \in Pollers : Reporting(p) =>
    LET d == poll[p].dat IN
    /\ d.count = Sum(poll[p].obs)
    /\ d.total = Sum([v \in Values |-> v * poll[p].obs[v]]) % (MaxUint64 + 1)
    /\ d.kept = IF sampled THEN d.count \div (SampleMask + 1) ELSE d.count
    /\ Seen(p) # {} => d.min = Min(Seen(p)) /\ d.max = Max(Seen(p))

\* The buffer a poll sorts in place is not the one observations are written
\* to: the second buffer comes back into use only with the next poll, which
\* metricsReadLock holds off ("prevent concurrent access to metrics",
\* endpoint.go).
SortedBufferIsPrivate ==
  \A p \in Pollers : Reporting(p) => poll[p].dat.buf # dat.buf

\* The percentiles are taken from observations of the period, lying between
\* its minimum and its maximum, save one cell: the first index used is 1, so
\* that until the buffer is full cell 0 holds something older, and the last
\* observation is left out in its place.
SamplesAreOfThePeriod ==
  \A p \in Pollers : poll[p].pc \in {"buckets", "print"} =>
    LET d == poll[p].dat
        foreign == {i \in DOMAIN poll[p].pctl : poll[p].pctl[i].epoch # poll[p].at}
    IN  /\ Cardinality(foreign) <= 1
        /\ d.kept > BufLen => foreign = {}
        /\ \A i \in DOMAIN poll[p].pctl \ foreign :
             poll[p].pctl[i].val \in d.min..d.max

\* Buckets are counted before observations are, and read after the histogram
\* is: a poll never reports fewer bucket entries than all polls so far have
\* reported observations.
BucketsCoverCounts ==
  \A p \in Pollers : poll[p].pc = "print" =>
    Sum(poll[p].copy) >= told

\* Nor is an observation of the period missing from the bucket of its own
\* value: the counters are outside of the lock and are read after the period
\* has ended, but each was increased before the lock was given back.
ObservationsAreBucketed ==
  \A p \in Pollers : poll[p].pc = "print" =>
    \A b \in Bucket :
      poll[p].copy[b] >= Sum([v \in {w \in Values : getBucket(w) = b} |-> poll[p].obs[v]])

\* Every observation ends: whatever the others do, the compare-and-swap loops
\* make progress.
EveryObservationEnds ==
  \A o \in Observers : obs[o].pc # "idle" ~> obs[o].pc = "idle"

=============================================================================
