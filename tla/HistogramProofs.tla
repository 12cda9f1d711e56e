--------------------------- MODULE HistogramProofs ---------------------------
(***************************************************************************)
(* A histogram, for any number of goroutines, polls and observations: what *)
(* a poll takes is what was observed in the period, however the atomic     *)
(* operations of ObserveHist were interleaved.                             *)
(***************************************************************************)
EXTENDS Histogram, FiniteSetTheorems, FunctionTheorems, WellFoundedInduction, TLAPS

(***************************************************************************)
(* The inductive invariant.                                                *)
(***************************************************************************)

At(labels) == {o \in Observers : obs[o].pc \in labels}

BeforeMax == {"max", "casmax"}

BeforeMin == {"max", "casmax", "min", "casmin"}

BeforeCount == {"max", "casmax", "min", "casmin", "bucket", "count"}

\* Observations hold the read side of the lock, a poll metricsReadLock, and a
\* poll in progress has the buffer that is not in use.
LocksOK ==
  /\ readers = {o \in Observers : obs[o].pc # "idle"}
  /\ \A p \in Pollers : poll[p].pc # "idle" => readLock = p
  /\ dat.buf # bakbuf
  /\ \A p \in Pollers : Reporting(p) => poll[p].dat.buf = bakbuf

Observed == {v \in Values : period[v] > 0}

\* An observation in progress is one of the period, and the extremes have been
\* observed in it, unless there are none yet.  What exceeds them is still to
\* be compared with them.
ExtremesOK ==
  /\ \A o \in Observers : obs[o].pc # "idle" => obs[o].val \in Observed
  /\ \A o \in Observers : obs[o].pc = "casmax" => obs[o].old <= obs[o].val
  /\ \A o \in Observers : obs[o].pc = "casmin" => obs[o].val <= obs[o].old
  /\ dat.max # 0 => dat.max \in Observed
  /\ dat.min # MaxUint64 => dat.min \in Observed
  /\ \A v \in Observed : v <= dat.max \/ \E o \in At(BeforeMax) : obs[o].val = v
  /\ \A v \in Observed : dat.min <= v \/ \E o \in At(BeforeMin) : obs[o].val = v

\* The numbers of a word are those below this one.
Word == MaxUint64 + 1

Weighted(f) == [v \in Values |-> v * f[v]]

KeptOf(count) == IF sampled THEN count \div (SampleMask + 1) ELSE count

\* The counters, and the observations that have yet to reach them.
CountsOK ==
  /\ IsFiniteSet(readers)
  /\ dat.count + Cardinality(At(BeforeCount)) = Sum(period)
  /\ dat.total = Sum(Weighted(period)) % Word
  /\ dat.kept + Cardinality(At({"kept"})) = KeptOf(dat.count)
  /\ told + dat.count + Cardinality(At({"count"})) = Sum(buckets)

\* The cells that have been given out hold observations of the period, or are
\* about to: cell 0 is the last one given out of a round.
GivenOut(d) == {i \in 0..BufLen : (IF i = 0 THEN BufLen + 1 ELSE i) <= d.kept}

CellsFilled ==
  \A i \in GivenOut(dat) :
    \/ \E o \in At({"write"}) : obs[o].idx = i
    \/ bufs[dat.buf][i].epoch = epoch /\ bufs[dat.buf][i].val \in Observed

\* No cell is of a later period, and one of the period is an observation of it.
CellsDated ==
  /\ \A b \in 1..2, i \in 0..BufLen : bufs[b][i].epoch <= epoch
  /\ \A i \in 0..BufLen : bufs[dat.buf][i].epoch = epoch => bufs[dat.buf][i].val \in Observed

CellsOK == CellsFilled /\ CellsDated

\* What a poll has taken and not yet sorted, and the counters it starts from.
TakenOK ==
  /\ \A p \in Pollers : poll[p].pc = "sort" =>
       /\ \A i \in GivenOut(poll[p].dat) : bufs[poll[p].dat.buf][i].epoch = poll[p].at
       /\ \A i \in 0..BufLen : bufs[poll[p].dat.buf][i].epoch = poll[p].at =>
            bufs[poll[p].dat.buf][i].val \in Seen(p)
  /\ \A p \in Pollers : poll[p].pc = "buckets" => Sum(poll[p].copy) >= told

HistogramInv ==
  /\ TypeOK
  /\ LocksOK
  /\ ExtremesOK
  /\ CountsOK
  /\ CellsOK
  /\ TakenOK
  /\ ReportIsThePeriod
  /\ SamplesAreOfThePeriod
  /\ BucketsCoverCounts

-----------------------------------------------------------------------------
(***************************************************************************)
(* Sums.  A sum of naturals is the number of their units.                  *)
(***************************************************************************)

Units(f, S) == UNION {{x} \X (1..f[x]) : x \in S}

LEMMA UnitsAre ==
  ASSUME NEW f, NEW S
  PROVE  \A u : u \in Units(f, S) <=> \E x \in S : u \in {x} \X (1..f[x])
  BY DEF Units

LEMMA UnitsStep ==
  ASSUME NEW f, NEW S, NEW x \in S, f[x] \in Nat, IsFiniteSet(Units(f, S \ {x}))
  PROVE  /\ IsFiniteSet(Units(f, S))
         /\ Cardinality(Units(f, S)) = f[x] + Cardinality(Units(f, S \ {x}))
  <1> DEFINE A == {x} \X (1..f[x])
             B == Units(f, S \ {x})
  <1>1. Units(f, S) = A \cup B
    BY DEF Units
  <1>2. A \cap B = {}
    BY DEF Units
  <1>3. IsFiniteSet(A) /\ Cardinality(A) = f[x]
    <2>1. IsFiniteSet({x}) /\ Cardinality({x}) = 1
      BY FS_Singleton
    <2>2. IsFiniteSet(1..f[x]) /\ Cardinality(1..f[x]) = f[x]
      <3>1. IsFiniteSet(1..f[x]) /\ Cardinality(1..f[x]) = IF 1 > f[x] THEN 0 ELSE f[x] - 1 + 1
        BY FS_Interval
      <3> QED BY <3>1
    <2>3. IsFiniteSet(A) /\ Cardinality(A) = Cardinality({x}) * Cardinality(1..f[x])
      BY <2>1, <2>2, FS_Product
    <2> QED BY <2>1, <2>2, <2>3
  <1> HIDE DEF A, B
  <1>4. IsFiniteSet(B)
    BY DEF B
  <1>5. Cardinality(B) \in Nat /\ Cardinality(A \cap B) = 0
    BY <1>2, <1>4, FS_CardinalityType, FS_EmptySet
  <1>6. IsFiniteSet(A \cup B)
        /\ Cardinality(A \cup B) = Cardinality(A) + Cardinality(B) - Cardinality(A \cap B)
    BY <1>3, <1>4, FS_Union
  <1> QED BY <1>1, <1>3, <1>5, <1>6 DEF B

\* A set of naturals has a least member.
LEMMA LeastNat ==
  ASSUME NEW I \in SUBSET Nat, I # {}
  PROVE  \E x \in I : \A y \in I : x <= y
  <1> DEFINE R == {ss \in Nat \X Nat : ss[1] < ss[2]}
  <1>1. IsWellFoundedOn(R, Nat)
    BY NatLessThanWellFounded DEF OpToRel
  <1> HIDE DEF R
  <1>2. PICK x \in I : \A y \in I : ~(<<y, x>> \in R)
    BY <1>1, WFMin
  <1>3. ASSUME NEW y \in I PROVE x <= y
    <2>1. x \in Nat /\ y \in Nat /\ <<y, x>> \in Nat \X Nat
      OBVIOUS
    <2>2. ~(y < x)
      BY <1>2, <2>1 DEF R
    <2> QED BY <2>1, <2>2
  <1> QED BY <1>3

\* A set of subsets of a finite set has a smallest member.
LEMMA SmallestSubset ==
  ASSUME NEW S, IsFiniteSet(S), NEW F \in SUBSET SUBSET S, F # {}
  PROVE  \E s \in F : \A x \in s : s \ {x} \notin F
  <1> DEFINE I == {Cardinality(s) : s \in F}
  <1>1. \A s \in F : IsFiniteSet(s) /\ Cardinality(s) \in Nat
    BY FS_Subset, FS_CardinalityType
  <1>2. I \in SUBSET Nat /\ I # {}
    BY <1>1
  <1> HIDE DEF I
  <1>3. PICK c \in I : \A d \in I : c <= d
    BY <1>2, LeastNat
  <1>4. PICK s \in F : c = Cardinality(s)
    BY <1>3 DEF I
  <1>5. ASSUME NEW x \in s, s \ {x} \in F PROVE FALSE
    <2>1. Cardinality(s \ {x}) = Cardinality(s) - 1
      BY <1>1, FS_RemoveElement
    <2>2. Cardinality(s) <= Cardinality(s \ {x})
      BY <1>3, <1>4, <1>5 DEF I
    <2> QED BY <1>1, <2>1, <2>2
  <1> QED BY <1>5

LEMMA UnitsFinite ==
  ASSUME NEW S, IsFiniteSet(S), NEW f \in [S -> Nat], NEW s \in SUBSET S
  PROVE  IsFiniteSet(Units(f, s)) /\ Cardinality(Units(f, s)) \in Nat
  <1> DEFINE F == {t \in SUBSET S : ~IsFiniteSet(Units(f, t))}
  <1>1. F = {}
    <2>1. SUFFICES ASSUME F # {} PROVE FALSE
      OBVIOUS
    <2>2. PICK t \in F : \A x \in t : t \ {x} \notin F
      <3>1. F \in SUBSET SUBSET S
        OBVIOUS
      <3> HIDE DEF F
      <3> QED BY <2>1, <3>1, SmallestSubset
    <2>3. CASE t = {}
      <3>1. Units(f, t) = {}
        BY <2>3 DEF Units
      <3> QED BY <2>2, <3>1, FS_EmptySet
    <2>4. CASE t # {}
      <3>1. PICK x : x \in t
        BY <2>4
      <3>2. IsFiniteSet(Units(f, t \ {x})) /\ f[x] \in Nat
        BY <2>2, <3>1
      <3>3. IsFiniteSet(Units(f, t))
        BY <3>1, <3>2, UnitsStep
      <3> QED BY <2>2, <3>3
    <2> QED BY <2>3, <2>4
  <1>2. IsFiniteSet(Units(f, s))
    BY <1>1
  <1> QED BY <1>2, FS_CardinalityType

Some(s) == CHOOSE x \in s : TRUE

LEMMA SumIsUnits ==
  ASSUME NEW S, IsFiniteSet(S), NEW f \in [S -> Nat]
  PROVE  Sum(f) = Cardinality(Units(f, S))
  <1> DEFINE c == [s \in SUBSET S |-> Cardinality(Units(f, s))]
             Sums(g) == [s \in SUBSET S |-> IF s = {} THEN 0 ELSE f[Some(s)] + g[s \ {Some(s)}]]
             it == CHOOSE g : g = Sums(g)
  <1>1. Sum(f) = it[S]
    <2>1. DOMAIN f = S
      OBVIOUS
    <2> QED BY <2>1 DEF Sum, MapThenSumSet, MapThenFoldSet, Some
  <1>2. \A s \in SUBSET S : s # {} => Some(s) \in s /\ s \ {Some(s)} \in SUBSET S
    BY DEF Some
  <1>3. c = Sums(c)
    <2>1. ASSUME NEW s \in SUBSET S
          PROVE  c[s] = IF s = {} THEN 0 ELSE f[Some(s)] + c[s \ {Some(s)}]
      <3>1. CASE s = {}
        <4>1. Units(f, s) = {}
          BY <3>1 DEF Units
        <4> QED BY <3>1, <4>1, FS_EmptySet
      <3>2. CASE s # {}
        <4>1. Some(s) \in s /\ s \ {Some(s)} \in SUBSET S /\ f[Some(s)] \in Nat
          BY <1>2, <3>2
        <4>2. IsFiniteSet(Units(f, s \ {Some(s)}))
          BY <4>1, UnitsFinite
        <4>3. Cardinality(Units(f, s)) = f[Some(s)] + Cardinality(Units(f, s \ {Some(s)}))
          BY <4>1, <4>2, UnitsStep
        <4> QED BY <3>2, <4>1, <4>3
      <3> QED BY <3>1, <3>2
    <2> QED BY <2>1
  <1>4. it = Sums(it)
    <2>1. \E g : g = Sums(g)
      BY <1>3
    <2> QED BY <2>1
  <1> HIDE DEF it, c
  <1>5. it = c
    <2>1. /\ it = [s \in SUBSET S |-> IF s = {} THEN 0 ELSE f[Some(s)] + it[s \ {Some(s)}]]
          /\ c = [s \in SUBSET S |-> IF s = {} THEN 0 ELSE f[Some(s)] + c[s \ {Some(s)}]]
      BY <1>3, <1>4
    <2> DEFINE F == {s \in SUBSET S : it[s] # c[s]}
    <2>2. F = {}
      <3>1. SUFFICES ASSUME F # {} PROVE FALSE
        OBVIOUS
      <3>2. PICK s \in F : \A x \in s : s \ {x} \notin F
        <4>1. F \in SUBSET SUBSET S
          OBVIOUS
        <4> HIDE DEF F
        <4> QED BY <3>1, <4>1, SmallestSubset
      <3>3. /\ it[s] = IF s = {} THEN 0 ELSE f[Some(s)] + it[s \ {Some(s)}]
            /\ c[s] = IF s = {} THEN 0 ELSE f[Some(s)] + c[s \ {Some(s)}]
        BY <2>1, <3>2
      <3>4. s # {}
        BY <3>2, <3>3
      <3>5. it[s \ {Some(s)}] = c[s \ {Some(s)}]
        BY <1>2, <3>2, <3>4
      <3> QED BY <3>2, <3>3, <3>4, <3>5
    <2> QED BY <2>1, <2>2
  <1>6. c[S] = Cardinality(Units(f, S))
    BY DEF c
  <1> QED BY <1>1, <1>5, <1>6

\* What the invariant says of sums.
LEMMA SumIsNat ==
  ASSUME NEW S, IsFiniteSet(S), NEW f \in [S -> Nat]
  PROVE  Sum(f) \in Nat
  BY SumIsUnits, UnitsFinite

LEMMA SumOfZeros ==
  ASSUME NEW S, IsFiniteSet(S), NEW f, f = [x \in S |-> 0]
  PROVE  Sum(f) = 0
  <1>1. f \in [S -> Nat]
    OBVIOUS
  <1>2. Units(f, S) = {}
    <2>1. \A x \in S : 1..f[x] = {}
      OBVIOUS
    <2> QED BY <2>1 DEF Units
  <1> QED BY <1>1, <1>2, SumIsUnits, FS_EmptySet

LEMMA SumAdds ==
  ASSUME NEW S, IsFiniteSet(S), NEW f \in [S -> Nat], NEW g \in [S -> Nat],
         NEW x \in S, NEW d \in Nat, g[x] = f[x] + d, \A y \in S \ {x} : g[y] = f[y]
  PROVE  Sum(g) = Sum(f) + d
  <1> DEFINE T == S \ {x}
  <1>1. Units(g, T) = Units(f, T)
    BY DEF Units
  <1>2. IsFiniteSet(Units(f, T)) /\ Cardinality(Units(f, T)) \in Nat
    BY UnitsFinite
  <1>3. Cardinality(Units(f, S)) = f[x] + Cardinality(Units(f, T))
    BY <1>2, UnitsStep
  <1>4. Cardinality(Units(g, S)) = g[x] + Cardinality(Units(g, T))
    BY <1>1, <1>2, UnitsStep
  <1>5. Sum(f) = Cardinality(Units(f, S)) /\ Sum(g) = Cardinality(Units(g, S))
    BY SumIsUnits
  <1> HIDE DEF T
  <1> QED BY <1>1, <1>2, <1>3, <1>4, <1>5

LEMMA SumGrows ==
  ASSUME NEW S, IsFiniteSet(S), NEW f \in [S -> Nat], NEW g \in [S -> Nat],
         \A x \in S : f[x] <= g[x]
  PROVE  Sum(f) <= Sum(g)
  <1>1. Units(f, S) \in SUBSET Units(g, S)
    <2>1. \A x \in S : 1..f[x] \subseteq 1..g[x]
      OBVIOUS
    <2> QED BY <2>1 DEF Units
  <1>2. IsFiniteSet(Units(g, S))
    BY UnitsFinite
  <1>3. Cardinality(Units(f, S)) <= Cardinality(Units(g, S))
    BY <1>1, <1>2, FS_Subset
  <1> QED BY <1>3, SumIsUnits

\* The sets that are summed over.
LEMMA ValuesAre ==
  /\ IsFiniteSet(Values) /\ Values \subseteq Nat
  /\ \A v \in Values : v \in Nat /\ v <= MaxUint64
  /\ MaxUint64 \in Nat /\ Word \in Nat \ {0}
  <1>1. IsFiniteSet(0..MaxUint64)
    <2>1. 0 \in Int /\ MaxUint64 \in Int
      BY HistogramAssumption
    <2> QED BY <2>1, FS_Interval
  <1>2. Values \in SUBSET (0..MaxUint64) /\ MaxUint64 \in Nat
    BY HistogramAssumption
  <1>3. \A v \in Values : v \in Nat /\ v <= MaxUint64
    BY <1>2
  <1>4. IsFiniteSet(Values)
    BY <1>1, <1>2, FS_Subset
  <1>5. Word \in Nat \ {0}
    BY <1>2 DEF Word
  <1> QED BY <1>2, <1>3, <1>4, <1>5

LEMMA BucketIsFinite == IsFiniteSet(Bucket)
  <1> DEFINE f == [v \in Values |-> getBucket(v)]
  <1>1. f \in Surjection(Values, Bucket)
    BY DEF Surjection, Bucket
  <1> QED BY <1>1, ValuesAre, FS_Surjection

\* Remainders and quotients, as far as the indices and the samples need them.
LEMMA Remainders ==
  ASSUME NEW a \in Nat, NEW m \in Nat \ {0}
  PROVE  /\ a % m \in 0..(m - 1)
         /\ a < m => a % m = a
         /\ m % m = 0
  OBVIOUS

LEMMA Quotients ==
  ASSUME NEW a \in Nat, NEW m \in Nat \ {0}
  PROVE  /\ a \div m \in Nat
         /\ (a + 1) % m > 0 => (a + 1) \div m = a \div m
         /\ ~((a + 1) % m > 0) => (a + 1) \div m = a \div m + 1
         /\ 0 \div m = 0
  OBVIOUS

\* Adding to a remainder.
LEMMA Wraps ==
  ASSUME NEW a \in Nat, NEW v \in Nat, NEW m \in Nat \ {0}
  PROVE  ((a % m) + v) % m = (a + v) % m
  <1> DEFINE q == a \div m
             r == (a % m) + v
             x == q + (r \div m) - ((a + v) \div m)
  <1>1. \A n \in Nat : /\ n \div m \in Nat /\ n % m \in 0..(m - 1)
                       /\ n = m * (n \div m) + (n % m)
    OBVIOUS
  <1>2. /\ q \in Nat /\ r \in Nat /\ r \div m \in Nat /\ (a + v) \div m \in Nat /\ x \in Int
        /\ a + v = m * q + r
    BY <1>1
  <1>3. /\ r = m * (r \div m) + (r % m)
        /\ a + v = m * ((a + v) \div m) + ((a + v) % m)
        /\ r % m \in 0..(m - 1) /\ (a + v) % m \in 0..(m - 1)
    BY <1>1, <1>2
  <1> HIDE DEF q, r
  <1>4. m * x = ((a + v) % m) - (r % m)
    <2>1. m * x = m * q + m * (r \div m) - m * ((a + v) \div m)
      BY <1>2
    <2> QED BY <1>2, <1>3, <2>1
  <1> HIDE DEF x
  <1>5. /\ x >= 1 => m * x >= m
        /\ x <= -1 => m * x <= -m
    BY <1>2
  <1>6. x = 0
    BY <1>2, <1>3, <1>4, <1>5
  <1>7. m * x = 0
    BY <1>6
  <1> QED BY <1>3, <1>4, <1>7 DEF r

-----------------------------------------------------------------------------
(***************************************************************************)
(* Steps of an observation, in general.                                    *)
(***************************************************************************)

LEMMA ObservationIs ==
  ASSUME TypeOK, NEW o \in Observers
  PROVE  /\ obs \in [Observers -> Observations] /\ obs[o] \in Observations
         /\ obs[o].val \in Nat /\ obs[o].old \in Nat /\ obs[o].idx \in 0..BufLen
  BY DEF TypeOK, Observations

LEMMA DataIs ==
  ASSUME NEW d \in Data
  PROVE  /\ d.count \in Nat /\ d.kept \in Nat /\ d.total \in Nat /\ d.min \in Nat
         /\ d.max \in Nat /\ d.buf \in 1..2
  BY DEF Data

\* One observation changes.
LEMMA ObsStep ==
  ASSUME TypeOK, NEW o \in Observers, NEW x \in Observations, obs' = [obs EXCEPT ![o] = x]
  PROVE  /\ obs' \in [Observers -> Observations] /\ obs'[o] = x
         /\ \A q \in Observers \ {o} : obs'[q] = obs[q]
  BY DEF TypeOK

\* How many observations are at some labels.
LEMMA AtIsFinite ==
  ASSUME LocksOK, IsFiniteSet(readers), NEW L, "idle" \notin L
  PROVE  IsFiniteSet(At(L)) /\ Cardinality(At(L)) \in Nat
  <1>1. At(L) \in SUBSET readers
    BY DEF At, LocksOK
  <1> QED BY <1>1, FS_Subset, FS_CardinalityType

LEMMA AtMoves ==
  ASSUME LocksOK, IsFiniteSet(readers), NEW L, "idle" \notin L, NEW o \in Observers,
         \A q \in Observers \ {o} : obs'[q] = obs[q]
  PROVE  /\ (obs[o].pc \in L <=> obs'[o].pc \in L) => At(L)' = At(L)
         /\ (obs[o].pc \notin L /\ obs'[o].pc \in L) =>
              Cardinality(At(L)') = Cardinality(At(L)) + 1
         /\ (obs[o].pc \in L /\ obs'[o].pc \notin L) =>
              Cardinality(At(L)') = Cardinality(At(L)) - 1
  <1>1. IsFiniteSet(At(L))
    BY AtIsFinite
  <1>2. (obs[o].pc \in L <=> obs'[o].pc \in L) => At(L)' = At(L)
    BY DEF At
  <1>3. ASSUME obs[o].pc \notin L, obs'[o].pc \in L
        PROVE  Cardinality(At(L)') = Cardinality(At(L)) + 1
    <2>1. At(L)' = At(L) \cup {o} /\ o \notin At(L)
      BY <1>3 DEF At
    <2> QED BY <1>1, <2>1, FS_AddElement
  <1>4. ASSUME obs[o].pc \in L, obs'[o].pc \notin L
        PROVE  Cardinality(At(L)') = Cardinality(At(L)) - 1
    <2>1. At(L)' = At(L) \ {o} /\ o \in At(L)
      BY <1>4 DEF At
    <2> QED BY <1>1, <2>1, FS_RemoveElement
  <1> QED BY <1>2, <1>3, <1>4

\* What the polls have taken is theirs.
LEMMA PollsKept ==
  ASSUME TakenOK, ReportIsThePeriod, SamplesAreOfThePeriod, BucketsCoverCounts, LocksOK,
         UNCHANGED pollVars, bufs'[bakbuf] = bufs[bakbuf]
  PROVE  TakenOK' /\ ReportIsThePeriod' /\ SamplesAreOfThePeriod' /\ BucketsCoverCounts'
  <1>1. /\ readLock' = readLock /\ poll' = poll /\ bakbuf' = bakbuf /\ epoch' = epoch
        /\ told' = told /\ sampled' = sampled
    BY DEF pollVars
  <1>2. \A p \in Pollers : Reporting(p)' = Reporting(p) /\ Seen(p)' = Seen(p)
    BY <1>1 DEF Reporting, Seen
  <1>3. TakenOK'
    <2>1. \A p \in Pollers : poll[p].pc = "sort" =>
            bufs'[poll[p].dat.buf] = bufs[poll[p].dat.buf]
      BY DEF LocksOK, Reporting
    <2> QED BY <1>1, <1>2, <2>1 DEF TakenOK
  <1>4. ReportIsThePeriod'
    BY <1>1, <1>2 DEF ReportIsThePeriod
  <1>5. SamplesAreOfThePeriod' /\ BucketsCoverCounts'
    BY <1>1 DEF SamplesAreOfThePeriod, BucketsCoverCounts
  <1> QED BY <1>3, <1>4, <1>5

\* The read lock is taken with the first step and given back with the last.
LEMMA LocksKept ==
  ASSUME LocksOK, NEW o \in Observers, IsFiniteSet(readers), UNCHANGED pollVars,
         dat'.buf = dat.buf,
         \A q \in Observers \ {o} : obs'[q] = obs[q],
         readers' = IF obs'[o].pc = "idle" THEN readers \ {o} ELSE readers \cup {o}
  PROVE  LocksOK' /\ IsFiniteSet(readers') /\ readers' \subseteq Observers
  <1>1. /\ readLock' = readLock /\ poll' = poll /\ bakbuf' = bakbuf
    BY DEF pollVars
  <1>2. readers' = {q \in Observers : obs'[q].pc # "idle"}
    BY DEF LocksOK
  <1>3. IsFiniteSet(readers')
    BY FS_AddElement, FS_RemoveElement
  <1> QED BY <1>1, <1>2, <1>3 DEF LocksOK, Reporting

LEMMA CountsKept ==
  ASSUME LocksOK, CountsOK, NEW o \in Observers, UNCHANGED pollVars,
         \A q \in Observers \ {o} : obs'[q] = obs[q], IsFiniteSet(readers'),
         UNCHANGED <<period, buckets>>,
         dat'.count = dat.count, dat'.total = dat.total, dat'.kept = dat.kept,
         obs[o].pc \in BeforeCount <=> obs'[o].pc \in BeforeCount,
         obs[o].pc = "kept" <=> obs'[o].pc = "kept",
         obs[o].pc = "count" <=> obs'[o].pc = "count"
  PROVE  CountsOK'
  <1>1. told' = told /\ sampled' = sampled
    BY DEF pollVars
  <1>2. "idle" \notin BeforeCount /\ "idle" \notin {"kept"} /\ "idle" \notin {"count"}
        /\ IsFiniteSet(readers)
    BY DEF BeforeCount, CountsOK
  <1>3. At(BeforeCount)' = At(BeforeCount)
    BY <1>2, AtMoves
  <1>4. At({"kept"})' = At({"kept"})
    BY <1>2, AtMoves
  <1>5. At({"count"})' = At({"count"})
    BY <1>2, AtMoves
  <1> QED BY <1>1, <1>3, <1>4, <1>5 DEF CountsOK, Weighted, KeptOf

LEMMA CellsKept ==
  ASSUME CellsOK, NEW o \in Observers, UNCHANGED pollVars, UNCHANGED bufs,
         \A q \in Observers \ {o} : obs'[q] = obs[q], obs[o].pc # "write",
         dat'.kept = dat.kept, dat'.buf = dat.buf, Observed \subseteq Observed'
  PROVE  CellsOK'
  <1>1. epoch' = epoch /\ GivenOut(dat)' = GivenOut(dat)
    BY DEF pollVars, GivenOut
  <1>2. At({"write"}) \subseteq At({"write"})' /\ \A q \in At({"write"}) : obs'[q] = obs[q]
    BY DEF At
  <1>3. CellsFilled'
    BY <1>1, <1>2 DEF CellsOK, CellsFilled
  <1>4. CellsDated'
    BY <1>1 DEF CellsOK, CellsDated
  <1> QED BY <1>3, <1>4 DEF CellsOK

\* An observation's step keeps the invariant if it keeps what it may disturb.
LEMMA ObserverStep ==
  ASSUME HistogramInv, NEW o \in Observers, UNCHANGED pollVars,
         obs' \in [Observers -> Observations], \A q \in Observers \ {o} : obs'[q] = obs[q],
         dat' \in Data, dat'.buf = dat.buf,
         readers' = IF obs'[o].pc = "idle" THEN readers \ {o} ELSE readers \cup {o},
         bufs' \in [1..2 -> [0..BufLen -> Cells]], bufs'[bakbuf] = bufs[bakbuf],
         buckets' \in [Bucket -> Nat], period' \in [Values -> Nat], seen' \in Nat,
         ExtremesOK', IsFiniteSet(readers') => CountsOK', CellsOK'
  PROVE  HistogramInv'
  <1>1. /\ TypeOK /\ LocksOK /\ CountsOK /\ TakenOK /\ ReportIsThePeriod
        /\ SamplesAreOfThePeriod /\ BucketsCoverCounts
    BY DEF HistogramInv
  <1>2. IsFiniteSet(readers)
    BY <1>1 DEF CountsOK
  <1>3. LocksOK' /\ IsFiniteSet(readers') /\ readers' \subseteq Observers
    BY <1>1, <1>2, LocksKept
  <1>4. TypeOK'
    <2>1. /\ sampled' \in BOOLEAN /\ bakbuf' \in 1..2 /\ readLock' \in Pollers \cup {None}
          /\ poll' \in [Pollers -> Polls] /\ epoch' \in Nat /\ told' \in Nat
      BY <1>1 DEF pollVars, TypeOK
    <2> QED BY <1>3, <2>1 DEF TypeOK
  <1>5. TakenOK' /\ ReportIsThePeriod' /\ SamplesAreOfThePeriod' /\ BucketsCoverCounts'
    BY <1>1, PollsKept
  <1> QED BY <1>3, <1>4, <1>5 DEF HistogramInv

-----------------------------------------------------------------------------
(***************************************************************************)
(* The steps of an observation.                                            *)
(***************************************************************************)

LEMMA ReadersKept ==
  ASSUME LocksOK, NEW o \in Observers, obs[o].pc # "idle", obs'[o].pc # "idle", readers' = readers
  PROVE  readers' = IF obs'[o].pc = "idle" THEN readers \ {o} ELSE readers \cup {o}
  BY DEF LocksOK

LEMMA ReadersLeft ==
  ASSUME NEW o \in Observers, obs'[o].pc = "idle", readers' = readers \ {o}
  PROVE  readers' = IF obs'[o].pc = "idle" THEN readers \ {o} ELSE readers \cup {o}
  OBVIOUS

\* The loads, compares and swaps: max only grows and min only shrinks, to the
\* value in hand, which is not compared further once it lies within them.
LEMMA CompareStep ==
  ASSUME HistogramInv, NEW o \in Observers, UNCHANGED pollVars,
         NEW x \in Observations, obs' = [obs EXCEPT ![o] = x], x.val = obs[o].val,
         obs[o].pc \in BeforeMin, x.pc \in BeforeMin \cup {"bucket"},
         dat' \in Data, dat'.count = dat.count, dat'.total = dat.total,
         dat'.kept = dat.kept, dat'.buf = dat.buf,
         dat'.max = dat.max \/ (dat.max <= x.val /\ dat'.max = x.val),
         dat'.min = dat.min \/ (x.val <= dat.min /\ dat'.min = x.val),
         obs[o].pc \in BeforeMax => x.pc \in BeforeMax \/ x.val <= dat'.max,
         x.pc \in BeforeMin \/ dat'.min <= x.val,
         x.pc = "casmax" => x.old <= x.val,
         x.pc = "casmin" => x.val <= x.old,
         UNCHANGED <<bufs, readers, buckets, period, seen>>
  PROVE  HistogramInv'
  <1>1. bufs' = bufs /\ readers' = readers /\ buckets' = buckets /\ period' = period
        /\ seen' = seen
    OBVIOUS
  <1>2. TypeOK /\ LocksOK /\ ExtremesOK /\ CountsOK /\ CellsOK
    BY DEF HistogramInv
  <1>3. /\ obs[o].val \in Nat /\ dat.max \in Nat /\ dat.min \in Nat /\ dat'.max \in Nat
        /\ dat'.min \in Nat
    BY <1>2, ObservationIs, DataIs DEF TypeOK
  <1>4. /\ obs' \in [Observers -> Observations] /\ obs'[o] = x
        /\ \A q \in Observers \ {o} : obs'[q] = obs[q]
    BY <1>2, ObsStep
  <1>5. readers' = IF obs'[o].pc = "idle" THEN readers \ {o} ELSE readers \cup {o}
    <2>1. obs[o].pc # "idle" /\ obs'[o].pc # "idle"
      BY <1>4 DEF BeforeMin
    <2> QED BY <1>1, <1>2, <2>1, ReadersKept
  <1>6. Observed' = Observed /\ Observed \subseteq Nat
    BY <1>1, ValuesAre DEF Observed
  <1>7. ExtremesOK'
    <2>1. /\ \A q \in Observers : obs'[q].val = obs[q].val
          /\ \A v \in Observed : v <= dat.max => v <= dat'.max
          /\ \A v \in Observed : dat.min <= v => dat'.min <= v
      <3>1. \A q \in Observers : obs'[q].val = obs[q].val
        BY <1>4
      <3>2. dat.max <= dat'.max /\ dat'.min <= dat.min
        BY <1>3
      <3>3. \A v \in Observed : v \in Nat
        BY <1>6
      <3> QED BY <1>3, <3>1, <3>2, <3>3
    <2>2. \A v \in Observed : v <= dat'.max \/ \E q \in At(BeforeMax)' : obs'[q].val = v
      <3> SUFFICES ASSUME NEW v \in Observed, ~(v <= dat'.max)
                   PROVE  \E q \in At(BeforeMax)' : obs'[q].val = v
        OBVIOUS
      <3>1. PICK q \in At(BeforeMax) : obs[q].val = v
        BY <1>2, <2>1 DEF ExtremesOK
      <3>2. q \in At(BeforeMax)'
        BY <1>4, <3>1 DEF At
      <3> QED BY <2>1, <3>1, <3>2 DEF At
    <2>3. \A v \in Observed : dat'.min <= v \/ \E q \in At(BeforeMin)' : obs'[q].val = v
      <3> SUFFICES ASSUME NEW v \in Observed, ~(dat'.min <= v)
                   PROVE  \E q \in At(BeforeMin)' : obs'[q].val = v
        OBVIOUS
      <3>1. PICK q \in At(BeforeMin) : obs[q].val = v
        BY <1>2, <2>1 DEF ExtremesOK
      <3>2. q \in At(BeforeMin)'
        BY <1>4, <3>1 DEF At
      <3> QED BY <2>1, <3>1, <3>2 DEF At
    <2>4. x.val \in Observed
      BY <1>2 DEF ExtremesOK, BeforeMin
    <2>5. /\ \A q \in Observers : obs'[q].pc = "casmax" => obs'[q].old <= obs'[q].val
          /\ \A q \in Observers : obs'[q].pc = "casmin" => obs'[q].val <= obs'[q].old
          /\ \A q \in Observers : obs'[q].pc # "idle" => obs'[q].val \in Observed
      BY <1>2, <1>4, <2>4 DEF ExtremesOK
    <2>6. (dat'.max # 0 => dat'.max \in Observed) /\ (dat'.min # MaxUint64 => dat'.min \in Observed)
      BY <1>2, <2>4 DEF ExtremesOK
    <2> QED BY <1>6, <2>2, <2>3, <2>5, <2>6 DEF ExtremesOK
  <1>8. IsFiniteSet(readers') => CountsOK'
    <2>1. obs[o].pc \in BeforeCount /\ obs'[o].pc \in BeforeCount
          /\ obs[o].pc \notin {"kept", "count"} /\ obs'[o].pc \notin {"kept", "count"}
      BY <1>4 DEF BeforeCount, BeforeMin
    <2> QED BY <1>1, <1>2, <1>4, <2>1, CountsKept
  <1>9. CellsOK'
    <2>1. obs[o].pc # "write"
      BY DEF BeforeMin
    <2> QED BY <1>1, <1>2, <1>4, <1>6, <2>1, CellsKept
  <1>10. /\ bufs' \in [1..2 -> [0..BufLen -> Cells]] /\ buckets' \in [Bucket -> Nat]
         /\ period' \in [Values -> Nat] /\ seen' \in Nat
    BY <1>1, <1>2 DEF TypeOK
  <1> QED BY <1>1, <1>4, <1>5, <1>7, <1>8, <1>9, <1>10, ObserverStep

LEMMA LoadMaxStep ==
  ASSUME HistogramInv, NEW o \in Observers, LoadMax(o), UNCHANGED pollVars
  PROVE  HistogramInv'
  <1> DEFINE at == IF obs[o].val < dat.max THEN "min" ELSE "casmax"
             x == [[obs[o] EXCEPT !.old = dat.max] EXCEPT !.pc = at]
  <1>1. TypeOK
    BY DEF HistogramInv
  <1>2. /\ obs[o].pc = "max" /\ obs' = [obs EXCEPT ![o] = x] /\ dat' = dat
        /\ UNCHANGED <<bufs, readers, buckets, period, seen>>
    BY <1>1 DEF LoadMax, TypeOK
  <1>3. /\ obs[o] \in Observations /\ obs[o].val \in Nat /\ dat \in Data /\ dat.max \in Nat
    BY <1>1, ObservationIs, DataIs DEF TypeOK
  <1>4. /\ at \in {"min", "casmax"} /\ (at = "min" => obs[o].val <= dat.max)
        /\ (at = "casmax" => dat.max <= obs[o].val)
    BY <1>3
  <1> HIDE DEF at
  <1>5. x \in Observations /\ x.pc = at /\ x.val = obs[o].val /\ x.old = dat.max
    BY <1>3, <1>4 DEF Observations
  <1> HIDE DEF x
  <1> QED BY <1>2, <1>3, <1>4, <1>5, CompareStep DEF BeforeMax, BeforeMin

LEMMA LoadMinStep ==
  ASSUME HistogramInv, NEW o \in Observers, LoadMin(o), UNCHANGED pollVars
  PROVE  HistogramInv'
  <1> DEFINE at == IF obs[o].val > dat.min THEN "bucket" ELSE "casmin"
             x == [[obs[o] EXCEPT !.old = dat.min] EXCEPT !.pc = at]
  <1>1. TypeOK
    BY DEF HistogramInv
  <1>2. /\ obs[o].pc = "min" /\ obs' = [obs EXCEPT ![o] = x] /\ dat' = dat
        /\ UNCHANGED <<bufs, readers, buckets, period, seen>>
    BY <1>1 DEF LoadMin, TypeOK
  <1>3. /\ obs[o] \in Observations /\ obs[o].val \in Nat /\ dat \in Data /\ dat.min \in Nat
    BY <1>1, ObservationIs, DataIs DEF TypeOK
  <1>4. /\ at \in {"bucket", "casmin"} /\ (at = "bucket" => dat.min <= obs[o].val)
        /\ (at = "casmin" => obs[o].val <= dat.min)
    BY <1>3
  <1> HIDE DEF at
  <1>5. x \in Observations /\ x.pc = at /\ x.val = obs[o].val /\ x.old = dat.min
    BY <1>3, <1>4 DEF Observations
  <1> HIDE DEF x
  <1> QED BY <1>2, <1>3, <1>4, <1>5, CompareStep DEF BeforeMax, BeforeMin

\* Goto changes nothing but the label.
LEMMA GotoIs ==
  ASSUME TypeOK, NEW o \in Observers, NEW label, Goto(o, label),
         label \in {"idle", "max", "casmax", "min", "casmin", "bucket", "count", "kept", "write"}
  PROVE  \E x \in Observations :
           /\ obs' = [obs EXCEPT ![o] = x]
           /\ x.pc = label /\ x.val = obs[o].val /\ x.old = obs[o].old /\ x.idx = obs[o].idx
  <1> DEFINE x == [obs[o] EXCEPT !.pc = label]
  <1>1. obs[o] \in Observations /\ obs' = [obs EXCEPT ![o] = x]
    BY ObservationIs DEF Goto
  <1>2. /\ x \in Observations /\ x.pc = label /\ x.val = obs[o].val /\ x.old = obs[o].old
        /\ x.idx = obs[o].idx
    BY <1>1 DEF Observations
  <1> QED BY <1>1, <1>2

LEMMA CasMaxStep ==
  ASSUME HistogramInv, NEW o \in Observers, CasMax(o), UNCHANGED pollVars
  PROVE  HistogramInv'
  <1>1. TypeOK /\ ExtremesOK
    BY DEF HistogramInv
  <1>2. obs[o].pc = "casmax" /\ UNCHANGED <<bufs, readers, buckets, period, seen>>
    BY DEF CasMax
  <1>3. /\ obs[o].val \in Nat /\ dat \in Data /\ dat.max \in Nat /\ obs[o].old <= obs[o].val
    BY <1>1, <1>2, ObservationIs, DataIs DEF TypeOK, ExtremesOK
  <1>4. CASE dat.max = obs[o].old
    <2>1. dat' = [dat EXCEPT !.max = obs[o].val] /\ Goto(o, "min")
      BY <1>4 DEF CasMax
    <2>2. PICK x \in Observations : /\ obs' = [obs EXCEPT ![o] = x]
                                    /\ x.pc = "min" /\ x.val = obs[o].val
      BY <1>1, <2>1, GotoIs
    <2>3. /\ dat' \in Data /\ dat'.max = x.val /\ dat'.min = dat.min /\ dat'.count = dat.count
          /\ dat'.total = dat.total /\ dat'.kept = dat.kept /\ dat'.buf = dat.buf
      BY <1>3, <2>1, <2>2 DEF Data
    <2>4. dat.max <= x.val /\ x.val <= dat'.max
      BY <1>3, <1>4, <2>2, <2>3
    <2> QED BY <1>2, <2>2, <2>3, <2>4, CompareStep DEF BeforeMax, BeforeMin
  <1>5. CASE dat.max # obs[o].old
    <2>1. dat' = dat /\ Goto(o, "max")
      BY <1>5 DEF CasMax
    <2>2. PICK x \in Observations : /\ obs' = [obs EXCEPT ![o] = x]
                                    /\ x.pc = "max" /\ x.val = obs[o].val
      BY <1>1, <2>1, GotoIs
    <2> QED BY <1>2, <1>3, <2>1, <2>2, CompareStep DEF BeforeMax, BeforeMin
  <1> QED BY <1>4, <1>5

LEMMA CasMinStep ==
  ASSUME HistogramInv, NEW o \in Observers, CasMin(o), UNCHANGED pollVars
  PROVE  HistogramInv'
  <1>1. TypeOK /\ ExtremesOK
    BY DEF HistogramInv
  <1>2. obs[o].pc = "casmin" /\ UNCHANGED <<bufs, readers, buckets, period, seen>>
    BY DEF CasMin
  <1>3. /\ obs[o].val \in Nat /\ dat \in Data /\ dat.min \in Nat /\ obs[o].val <= obs[o].old
    BY <1>1, <1>2, ObservationIs, DataIs DEF TypeOK, ExtremesOK
  <1>4. CASE dat.min = obs[o].old
    <2>1. dat' = [dat EXCEPT !.min = obs[o].val] /\ Goto(o, "bucket")
      BY <1>4 DEF CasMin
    <2>2. PICK x \in Observations : /\ obs' = [obs EXCEPT ![o] = x]
                                    /\ x.pc = "bucket" /\ x.val = obs[o].val
      BY <1>1, <2>1, GotoIs
    <2>3. /\ dat' \in Data /\ dat'.min = x.val /\ dat'.max = dat.max /\ dat'.count = dat.count
          /\ dat'.total = dat.total /\ dat'.kept = dat.kept /\ dat'.buf = dat.buf
      BY <1>3, <2>1, <2>2 DEF Data
    <2>4. x.val <= dat.min /\ dat'.min <= x.val
      BY <1>3, <1>4, <2>2, <2>3
    <2> QED BY <1>2, <2>2, <2>3, <2>4, CompareStep DEF BeforeMax, BeforeMin
  <1>5. CASE dat.min # obs[o].old
    <2>1. dat' = dat /\ Goto(o, "min")
      BY <1>5 DEF CasMin
    <2>2. PICK x \in Observations : /\ obs' = [obs EXCEPT ![o] = x]
                                    /\ x.pc = "min" /\ x.val = obs[o].val
      BY <1>1, <2>1, GotoIs
    <2> QED BY <1>2, <1>3, <2>1, <2>2, CompareStep DEF BeforeMax, BeforeMin
  <1> QED BY <1>4, <1>5

\* Once it has been compared, an observation leaves the extremes alone.
LEMMA ExtremesKept ==
  ASSUME ExtremesOK, NEW o \in Observers, \A q \in Observers \ {o} : obs'[q] = obs[q],
         obs[o].pc \notin BeforeMin \cup {"idle"}, obs'[o].pc \notin BeforeMin,
         obs'[o].val = obs[o].val, dat'.max = dat.max, dat'.min = dat.min, period' = period
  PROVE  ExtremesOK' /\ Observed' = Observed
  <1>1. Observed' = Observed
    BY DEF Observed
  <1>2. At(BeforeMax)' = At(BeforeMax) /\ At(BeforeMin)' = At(BeforeMin)
    BY DEF At, BeforeMax, BeforeMin
  <1>3. /\ \A q \in Observers : obs'[q].val = obs[q].val
        /\ \A q \in Observers : obs'[q].pc # "idle" => obs'[q].val \in Observed
        /\ \A q \in Observers : obs'[q].pc = "casmax" => obs'[q].old <= obs'[q].val
        /\ \A q \in Observers : obs'[q].pc = "casmin" => obs'[q].val <= obs'[q].old
    BY DEF ExtremesOK, BeforeMin
  <1> QED BY <1>1, <1>2, <1>3 DEF ExtremesOK, At

\* One more observation of a value adds it to the total.
LEMMA WeightedAdds ==
  ASSUME NEW f \in [Values -> Nat], NEW g \in [Values -> Nat], NEW v \in Values,
         g[v] = f[v] + 1, \A w \in Values \ {v} : g[w] = f[w]
  PROVE  Sum(Weighted(g)) = Sum(Weighted(f)) + v
  <1>1. IsFiniteSet(Values) /\ Values \subseteq Nat /\ v \in Nat
    BY ValuesAre
  <1>2. \A w \in Values : w * f[w] \in Nat /\ w * g[w] \in Nat
    BY <1>1
  <1>3. Weighted(f) \in [Values -> Nat] /\ Weighted(g) \in [Values -> Nat]
    BY <1>2 DEF Weighted
  <1>4. v * (f[v] + 1) = v * f[v] + v
    BY <1>1
  <1>5. /\ Weighted(g)[v] = Weighted(f)[v] + v
        /\ \A w \in Values \ {v} : Weighted(g)[w] = Weighted(f)[w]
    BY <1>4 DEF Weighted
  <1>6. ASSUME NEW x \in [Values -> Nat], NEW y \in [Values -> Nat], NEW k \in Nat,
               y[v] = x[v] + k, \A w \in Values \ {v} : y[w] = x[w]
        PROVE  Sum(y) = Sum(x) + k
    <2>1. /\ IsFiniteSet(Values) /\ v \in Values /\ x \in [Values -> Nat]
          /\ y \in [Values -> Nat] /\ k \in Nat /\ y[v] = x[v] + k
          /\ \A w \in Values \ {v} : y[w] = x[w]
      BY <1>1, <1>6
    <2> QED BY ONLY <2>1, SumAdds, SMTT(30)
  <1> QED BY ONLY <1>1, <1>3, <1>5, <1>6

LEMMA WeightIsNat ==
  ASSUME NEW f \in [Values -> Nat]
  PROVE  Sum(Weighted(f)) \in Nat
  <1>1. \A v \in Values : v * f[v] \in Nat
    BY ValuesAre
  <1>2. Weighted(f) \in [Values -> Nat] /\ IsFiniteSet(Values)
    BY <1>1, ValuesAre DEF Weighted
  <1> QED BY ONLY <1>2, SumIsNat

LEMMA ObserveStep ==
  ASSUME HistogramInv, NEW o \in Observers, Observe(o), UNCHANGED pollVars
  PROVE  HistogramInv'
  <1>1. TypeOK /\ LocksOK /\ ExtremesOK /\ CountsOK /\ CellsOK
    BY DEF HistogramInv
  <1>2. PICK v \in Values :
          /\ obs[o].pc = "idle"
          /\ obs' = [obs EXCEPT ![o] = [Quiet EXCEPT !.pc = "max", !.val = v]]
          /\ readers' = readers \cup {o}
          /\ dat' = [dat EXCEPT !.total = (@ + v) % Word]
          /\ period' = [period EXCEPT ![v] = @ + 1]
          /\ seen' = seen + 1
          /\ UNCHANGED <<bufs, buckets>>
    BY DEF Observe, Word
  <1> DEFINE x == [Quiet EXCEPT !.pc = "max", !.val = v]
  <1>3. /\ IsFiniteSet(Values) /\ v \in Values /\ v \in Nat /\ Values \subseteq Nat
        /\ period \in [Values -> Nat] /\ dat \in Data /\ seen \in Nat /\ BufLen \in Nat
    BY <1>1, <1>2, ValuesAre, HistogramAssumption DEF TypeOK
  <1>4. x \in Observations /\ x.pc = "max" /\ x.val = v
    <2>1. 0 \in 0..BufLen
      BY <1>3
    <2>2. Quiet \in Observations
      BY <2>1 DEF Quiet, Observations
    <2> QED BY <1>3, <2>2 DEF Observations
  <1> HIDE DEF x
  <1>5. /\ obs' \in [Observers -> Observations] /\ obs'[o] = x
        /\ \A q \in Observers \ {o} : obs'[q] = obs[q]
    BY <1>1, <1>2, <1>4, ObsStep DEF x
  <1>6. readers' = IF obs'[o].pc = "idle" THEN readers \ {o} ELSE readers \cup {o}
    BY <1>2, <1>4, <1>5
  <1>7. /\ dat' \in Data /\ dat'.total = (dat.total + v) % Word /\ dat'.count = dat.count
        /\ dat'.kept = dat.kept /\ dat'.min = dat.min /\ dat'.max = dat.max /\ dat'.buf = dat.buf
    <2>1. (dat.total + v) % Word \in Nat
      <3>1. dat.total + v \in Nat /\ Word \in Nat \ {0}
        BY <1>3, DataIs, ValuesAre
      <3> QED BY <3>1, Remainders
    <2> QED BY <1>2, <1>3, <2>1 DEF Data
  <1>8. /\ period' \in [Values -> Nat] /\ period'[v] = period[v] + 1
        /\ period[v] \in Nat
        /\ \A w \in Values \ {v} : period'[w] = period[w]
    BY <1>2, <1>3
  <1>9. Observed' = Observed \cup {v}
    <2>1. \A w \in Values : period'[w] > 0 <=> period[w] > 0 \/ w = v
      BY <1>3, <1>8
    <2> QED BY <2>1 DEF Observed
  <1>10. ExtremesOK'
    <2>1. /\ At(BeforeMax)' = At(BeforeMax) \cup {o} /\ o \notin At(BeforeMax)
          /\ At(BeforeMin)' = At(BeforeMin) \cup {o} /\ o \notin At(BeforeMin)
      BY <1>2, <1>4, <1>5 DEF At, BeforeMax, BeforeMin
    <2>2. /\ \A q \in At(BeforeMax) : obs'[q].val = obs[q].val
          /\ \A q \in At(BeforeMin) : obs'[q].val = obs[q].val
          /\ obs'[o].val = v
      BY <1>4, <1>5, <2>1 DEF At
    <2>3. /\ \A q \in Observers : obs'[q].pc # "idle" => obs'[q].val \in Observed'
          /\ \A q \in Observers : obs'[q].pc = "casmax" => obs'[q].old <= obs'[q].val
          /\ \A q \in Observers : obs'[q].pc = "casmin" => obs'[q].val <= obs'[q].old
      BY <1>1, <1>4, <1>5, <1>9 DEF ExtremesOK
    <2>4. \A w \in Observed' : w <= dat'.max \/ \E q \in At(BeforeMax)' : obs'[q].val = w
      BY <1>1, <1>7, <1>9, <2>1, <2>2 DEF ExtremesOK
    <2>5. \A w \in Observed' : dat'.min <= w \/ \E q \in At(BeforeMin)' : obs'[q].val = w
      BY <1>1, <1>7, <1>9, <2>1, <2>2 DEF ExtremesOK
    <2>6. (dat'.max # 0 => dat'.max \in Observed') /\ (dat'.min # MaxUint64 => dat'.min \in Observed')
      BY <1>1, <1>7, <1>9 DEF ExtremesOK
    <2> QED BY <2>3, <2>4, <2>5, <2>6 DEF ExtremesOK
  <1>11. IsFiniteSet(readers') => CountsOK'
    <2>1. IsFiniteSet(readers) /\ "idle" \notin BeforeCount /\ "idle" \notin {"kept"}
          /\ "idle" \notin {"count"} /\ "max" \in BeforeCount
      BY <1>1 DEF CountsOK, BeforeCount
    <2>2. Cardinality(At(BeforeCount)') = Cardinality(At(BeforeCount)) + 1
      BY <1>1, <1>2, <1>4, <1>5, <2>1, AtMoves
    <2>3. At({"kept"})' = At({"kept"})
      BY <1>1, <1>2, <1>4, <1>5, <2>1, AtMoves
    <2>4. At({"count"})' = At({"count"})
      BY <1>1, <1>2, <1>4, <1>5, <2>1, AtMoves
    <2>5. Cardinality(At(BeforeCount)) \in Nat
      BY <1>1, <2>1, AtIsFinite
    <2>6. Sum(period') = Sum(period) + 1
      <3>1. /\ IsFiniteSet(Values) /\ v \in Values /\ period \in [Values -> Nat]
            /\ period' \in [Values -> Nat] /\ 1 \in Nat /\ period'[v] = period[v] + 1
            /\ \A w \in Values \ {v} : period'[w] = period[w]
        BY <1>3, <1>8
      <3> QED BY ONLY <3>1, SumAdds
    <2>7. Sum(Weighted(period')) = Sum(Weighted(period)) + v
      <3>1. /\ v \in Values /\ period \in [Values -> Nat] /\ period' \in [Values -> Nat]
            /\ period'[v] = period[v] + 1 /\ \A w \in Values \ {v} : period'[w] = period[w]
        BY <1>3, <1>8
      <3> QED BY ONLY <3>1, WeightedAdds
    <2>8. told' = told /\ sampled' = sampled /\ buckets' = buckets
      BY <1>2 DEF pollVars
    <2>9. dat.count \in Nat
      BY <1>3, DataIs
    <2>10. dat'.count + Cardinality(At(BeforeCount)') = Sum(period')
      BY <1>1, <1>7, <2>2, <2>5, <2>6, <2>9 DEF CountsOK
    <2>11. dat'.total = Sum(Weighted(period')) % Word
      <3>1. Sum(Weighted(period)) \in Nat
        BY <1>3, WeightIsNat
      <3>2. ((Sum(Weighted(period)) % Word) + v) % Word = (Sum(Weighted(period)) + v) % Word
        BY <1>3, <3>1, ValuesAre, Wraps
      <3> QED BY <1>1, <1>7, <2>7, <3>2 DEF CountsOK
    <2>12. /\ dat'.kept + Cardinality(At({"kept"})') = KeptOf(dat.count)' 
           /\ told' + dat'.count + Cardinality(At({"count"})') = Sum(buckets')
      BY <1>1, <1>7, <2>3, <2>4, <2>8 DEF CountsOK, KeptOf
    <2>13. Weighted(period)' = Weighted(period')
      BY DEF Weighted
    <2> QED BY <2>10, <2>11, <2>12, <2>13 DEF CountsOK
  <1>12. CellsOK'
    <2>1. obs[o].pc # "write" /\ bufs' = bufs
      BY <1>2
    <2> QED BY <1>1, <1>5, <1>7, <1>9, <2>1, CellsKept
  <1>13. /\ bufs' \in [1..2 -> [0..BufLen -> Cells]] /\ bufs'[bakbuf] = bufs[bakbuf]
         /\ buckets' \in [Bucket -> Nat] /\ seen' \in Nat
    BY <1>1, <1>2, <1>3 DEF TypeOK
  <1> QED BY <1>5, <1>6, <1>7, <1>8, <1>10, <1>11, <1>12, <1>13, ObserverStep

LEMMA CountBucketStep ==
  ASSUME HistogramInv, NEW o \in Observers, CountBucket(o), UNCHANGED pollVars
  PROVE  HistogramInv'
  <1> DEFINE b == getBucket(obs[o].val)
  <1>1. TypeOK /\ LocksOK /\ ExtremesOK /\ CountsOK /\ CellsOK
    BY DEF HistogramInv
  <1>2. /\ obs[o].pc = "bucket" /\ buckets' = [buckets EXCEPT ![b] = @ + 1]
        /\ Goto(o, "count") /\ dat' = dat /\ bufs' = bufs /\ readers' = readers
        /\ period' = period /\ seen' = seen
    BY DEF CountBucket
  <1>3. PICK x \in Observations : /\ obs' = [obs EXCEPT ![o] = x]
                                  /\ x.pc = "count" /\ x.val = obs[o].val
    BY <1>1, <1>2, GotoIs
  <1>4. /\ obs' \in [Observers -> Observations] /\ obs'[o] = x
        /\ \A q \in Observers \ {o} : obs'[q] = obs[q]
    BY <1>1, <1>3, ObsStep
  <1>5. b \in Bucket
    <2>1. obs[o].val \in Values
      BY <1>1, <1>2 DEF ExtremesOK, Observed
    <2> QED BY <2>1 DEF Bucket
  <1> HIDE DEF b
  <1>6. /\ buckets \in [Bucket -> Nat] /\ buckets' \in [Bucket -> Nat]
        /\ buckets'[b] = buckets[b] + 1 /\ \A c \in Bucket \ {b} : buckets'[c] = buckets[c]
    BY <1>1, <1>2, <1>5 DEF TypeOK
  <1>7. Sum(buckets') = Sum(buckets) + 1
    BY <1>5, <1>6, BucketIsFinite, SumAdds
  <1>8. readers' = IF obs'[o].pc = "idle" THEN readers \ {o} ELSE readers \cup {o}
    BY <1>1, <1>2, <1>3, <1>4, ReadersKept
  <1>9. ExtremesOK' /\ Observed' = Observed
    BY <1>1, <1>2, <1>3, <1>4, ExtremesKept DEF BeforeMin
  <1>10. IsFiniteSet(readers') => CountsOK'
    <2>1. IsFiniteSet(readers) /\ "idle" \notin BeforeCount /\ "idle" \notin {"kept"}
          /\ "idle" \notin {"count"} /\ "bucket" \in BeforeCount /\ "count" \in BeforeCount
      BY <1>1 DEF CountsOK, BeforeCount
    <2>2. At(BeforeCount)' = At(BeforeCount)
      BY <1>1, <1>2, <1>3, <1>4, <2>1, AtMoves
    <2>3. At({"kept"})' = At({"kept"})
      BY <1>1, <1>2, <1>3, <1>4, <2>1, AtMoves
    <2>4. Cardinality(At({"count"})') = Cardinality(At({"count"})) + 1
      BY <1>1, <1>2, <1>3, <1>4, <2>1, AtMoves
    <2>5. Cardinality(At({"count"})) \in Nat
      BY <1>1, <2>1, AtIsFinite
    <2>6. told' = told /\ sampled' = sampled /\ told \in Nat /\ dat.count \in Nat
      BY <1>1, DataIs DEF pollVars, TypeOK
    <2>7. told' + dat'.count + Cardinality(At({"count"})') = Sum(buckets')
      BY <1>1, <1>2, <1>7, <2>4, <2>5, <2>6 DEF CountsOK
    <2> QED BY <1>1, <1>2, <2>2, <2>3, <2>6, <2>7 DEF CountsOK, Weighted, KeptOf
  <1>11. CellsOK'
    BY <1>1, <1>2, <1>4, <1>9, CellsKept
  <1>12. /\ bufs' \in [1..2 -> [0..BufLen -> Cells]] /\ bufs'[bakbuf] = bufs[bakbuf]
         /\ period' \in [Values -> Nat] /\ seen' \in Nat /\ dat' \in Data
    BY <1>1, <1>2 DEF TypeOK
  <1> QED BY <1>2, <1>4, <1>6, <1>8, <1>9, <1>10, <1>11, <1>12, ObserverStep

LEMMA CountStep ==
  ASSUME HistogramInv, NEW o \in Observers, Count(o), UNCHANGED pollVars
  PROVE  HistogramInv'
  <1> DEFINE m == SampleMask + 1
             skip == sampled /\ (dat.count + 1) % m > 0
             at == IF skip THEN "idle" ELSE "kept"
  <1>1. TypeOK /\ LocksOK /\ ExtremesOK /\ CountsOK /\ CellsOK
    BY DEF HistogramInv
  <1>2. /\ obs[o].pc = "count" /\ dat' = [dat EXCEPT !.count = @ + 1] /\ Goto(o, at)
        /\ bufs' = bufs /\ buckets' = buckets /\ period' = period /\ seen' = seen
        /\ readers' = IF skip THEN readers \ {o} ELSE readers
    BY DEF Count
  <1>3. dat \in Data /\ dat.count \in Nat /\ dat.kept \in Nat /\ told \in Nat
        /\ m \in Nat \ {0} /\ sampled \in BOOLEAN
    BY <1>1, DataIs, HistogramAssumption DEF TypeOK
  <1>4. /\ dat' \in Data /\ dat'.count = dat.count + 1 /\ dat'.total = dat.total
        /\ dat'.kept = dat.kept /\ dat'.min = dat.min /\ dat'.max = dat.max /\ dat'.buf = dat.buf
    BY <1>2, <1>3 DEF Data
  <1>5. PICK x \in Observations : /\ obs' = [obs EXCEPT ![o] = x]
                                  /\ x.pc = at /\ x.val = obs[o].val
    <2>1. at \in {"idle", "kept"}
      OBVIOUS
    <2> HIDE DEF at
    <2> QED BY <1>1, <1>2, <2>1, GotoIs
  <1>6. /\ obs' \in [Observers -> Observations] /\ obs'[o] = x
        /\ \A q \in Observers \ {o} : obs'[q] = obs[q]
    BY <1>1, <1>5, ObsStep
  <1>7. readers' = IF obs'[o].pc = "idle" THEN readers \ {o} ELSE readers \cup {o}
    <2>1. o \in readers
      BY <1>1, <1>2 DEF LocksOK
    <2> QED BY <1>2, <1>5, <1>6, <2>1
  <1>8. ExtremesOK' /\ Observed' = Observed
    BY <1>1, <1>2, <1>4, <1>5, <1>6, ExtremesKept DEF BeforeMin
  <1>9. IsFiniteSet(readers') => CountsOK'
    <2>1. IsFiniteSet(readers) /\ "idle" \notin BeforeCount /\ "idle" \notin {"kept"}
          /\ "idle" \notin {"count"} /\ "count" \in BeforeCount /\ "kept" \notin BeforeCount
          /\ at \in {"idle", "kept"} /\ (at = "idle" <=> skip)
      BY <1>1 DEF CountsOK, BeforeCount
    <2> HIDE DEF at
    <2>2. Cardinality(At(BeforeCount)') = Cardinality(At(BeforeCount)) - 1
      BY <1>1, <1>2, <1>5, <1>6, <2>1, AtMoves
    <2>3. Cardinality(At({"count"})') = Cardinality(At({"count"})) - 1
      BY <1>1, <1>2, <1>5, <1>6, <2>1, AtMoves
    <2>4. /\ Cardinality(At({"count"})) \in Nat /\ Cardinality(At(BeforeCount)) \in Nat
          /\ Cardinality(At({"kept"})) \in Nat
      BY <1>1, <2>1, AtIsFinite
    <2>5. told' = told /\ sampled' = sampled
      BY DEF pollVars
    <2>6. dat'.kept + Cardinality(At({"kept"})') = KeptOf(dat.count)'
      <3>1. /\ dat.count \div m \in Nat
            /\ (dat.count + 1) % m > 0 => (dat.count + 1) \div m = dat.count \div m
            /\ ~((dat.count + 1) % m > 0) => (dat.count + 1) \div m = dat.count \div m + 1
        <4> HIDE DEF m
        <4> QED BY <1>3, Quotients
      <3>2. KeptOf(dat.count)' = IF sampled THEN (dat.count + 1) \div m ELSE dat.count + 1
        BY <1>4, <2>5 DEF KeptOf
      <3>3. dat.kept + Cardinality(At({"kept"})) = IF sampled THEN dat.count \div m ELSE dat.count
        BY <1>1 DEF CountsOK, KeptOf
      <3>4. CASE skip
        <4>1. At({"kept"})' = At({"kept"})
          BY <1>1, <1>2, <1>5, <1>6, <2>1, <3>4, AtMoves
        <4> QED BY <1>4, <3>1, <3>2, <3>3, <3>4, <4>1
      <3>5. CASE ~skip
        <4>1. Cardinality(At({"kept"})') = Cardinality(At({"kept"})) + 1
          BY <1>1, <1>2, <1>5, <1>6, <2>1, <3>5, AtMoves
        <4> HIDE DEF m
        <4>2. CASE sampled
          BY <1>3, <1>4, <2>4, <3>1, <3>2, <3>3, <3>5, <4>1, <4>2
        <4>3. CASE ~sampled
          BY <1>3, <1>4, <2>4, <3>2, <3>3, <4>1, <4>3
        <4> QED BY <4>2, <4>3
      <3> QED BY <3>4, <3>5
    <2>7. dat'.count + Cardinality(At(BeforeCount)') = Sum(period')
      <3>1. dat.count + Cardinality(At(BeforeCount)) = Sum(period)
        BY <1>1 DEF CountsOK
      <3> QED BY <1>2, <1>3, <1>4, <2>2, <2>4, <3>1
    <2>8. told' + dat'.count + Cardinality(At({"count"})') = Sum(buckets')
      BY <1>1, <1>2, <1>3, <1>4, <2>3, <2>4, <2>5 DEF CountsOK
    <2>9. dat'.total = Sum(Weighted(period)') % Word
      BY <1>1, <1>2, <1>4 DEF CountsOK, Weighted
    <2> QED BY <2>6, <2>7, <2>8, <2>9 DEF CountsOK
  <1>10. CellsOK'
    BY <1>1, <1>2, <1>4, <1>6, <1>8, CellsKept
  <1>11. /\ bufs' \in [1..2 -> [0..BufLen -> Cells]] /\ bufs'[bakbuf] = bufs[bakbuf]
         /\ period' \in [Values -> Nat] /\ seen' \in Nat /\ buckets' \in [Bucket -> Nat]
    BY <1>1, <1>2 DEF TypeOK
  <1> QED BY <1>4, <1>6, <1>7, <1>8, <1>9, <1>10, <1>11, ObserverStep

LEMMA KeepStep ==
  ASSUME HistogramInv, NEW o \in Observers, Keep(o), UNCHANGED pollVars
  PROVE  HistogramInv'
  <1> DEFINE n == (dat.kept + 1) % (BufLen + 1)
             x == [[obs[o] EXCEPT !.pc = "write"] EXCEPT !.idx = n]
  <1>1. TypeOK /\ LocksOK /\ ExtremesOK /\ CountsOK /\ CellsOK
    BY DEF HistogramInv
  <1>2. /\ obs[o].pc = "kept" /\ dat' = [dat EXCEPT !.kept = @ + 1]
        /\ obs' = [obs EXCEPT ![o] = x] /\ bufs' = bufs /\ readers' = readers
        /\ buckets' = buckets /\ period' = period /\ seen' = seen
    BY <1>1 DEF Keep, TypeOK
  <1>3. /\ dat \in Data /\ dat.kept \in Nat /\ dat.count \in Nat /\ obs[o] \in Observations
        /\ BufLen \in Nat \ {0}
    BY <1>1, ObservationIs, DataIs, HistogramAssumption DEF TypeOK
  <1>4. /\ n \in 0..BufLen /\ (dat.kept + 1 < BufLen + 1 => n = dat.kept + 1)
        /\ (dat.kept + 1 = BufLen + 1 => n = 0)
    <2>1. dat.kept + 1 \in Nat /\ BufLen + 1 \in Nat \ {0} /\ (BufLen + 1) - 1 = BufLen
      BY <1>3
    <2> DEFINE a == dat.kept + 1
               m == BufLen + 1
    <2> HIDE DEF a, m
    <2>2. a \in Nat /\ m \in Nat \ {0} /\ m - 1 = BufLen
      BY <2>1 DEF a, m
    <2>3. a % m \in 0..(m - 1) /\ (a < m => a % m = a) /\ m % m = 0
      BY <2>2, Remainders
    <2> QED BY <2>2, <2>3 DEF a, m
  <1> HIDE DEF n
  <1>5. x \in Observations /\ x.pc = "write" /\ x.val = obs[o].val /\ x.idx = n
    BY <1>3, <1>4 DEF Observations
  <1> HIDE DEF x
  <1>6. /\ obs' \in [Observers -> Observations] /\ obs'[o] = x
        /\ \A q \in Observers \ {o} : obs'[q] = obs[q]
    BY <1>1, <1>2, <1>5, ObsStep
  <1>7. /\ dat' \in Data /\ dat'.kept = dat.kept + 1 /\ dat'.count = dat.count
        /\ dat'.total = dat.total /\ dat'.min = dat.min /\ dat'.max = dat.max
        /\ dat'.buf = dat.buf
    BY <1>2, <1>3 DEF Data
  <1>8. readers' = IF obs'[o].pc = "idle" THEN readers \ {o} ELSE readers \cup {o}
    BY <1>1, <1>2, <1>5, <1>6, ReadersKept
  <1>9. ExtremesOK' /\ Observed' = Observed
    BY <1>1, <1>2, <1>5, <1>6, <1>7, ExtremesKept DEF BeforeMin
  <1>10. IsFiniteSet(readers') => CountsOK'
    <2>1. IsFiniteSet(readers) /\ "idle" \notin BeforeCount /\ "idle" \notin {"kept"}
          /\ "idle" \notin {"count"} /\ "kept" \notin BeforeCount /\ "write" \notin BeforeCount
      BY <1>1 DEF CountsOK, BeforeCount
    <2>2. At(BeforeCount)' = At(BeforeCount)
      BY <1>1, <1>2, <1>5, <1>6, <2>1, AtMoves
    <2>3. Cardinality(At({"kept"})') = Cardinality(At({"kept"})) - 1
      BY <1>1, <1>2, <1>5, <1>6, <2>1, AtMoves
    <2>4. At({"count"})' = At({"count"})
      BY <1>1, <1>2, <1>5, <1>6, <2>1, AtMoves
    <2>5. Cardinality(At({"kept"})) \in Nat
      BY <1>1, <2>1, AtIsFinite
    <2>6. told' = told /\ sampled' = sampled
      BY DEF pollVars
    <2>7. KeptOf(dat.count)' = KeptOf(dat.count)
      BY <1>7, <2>6 DEF KeptOf
    <2>8. dat'.kept + Cardinality(At({"kept"})') = KeptOf(dat.count)'
      BY <1>1, <1>3, <1>7, <2>3, <2>5, <2>7 DEF CountsOK
    <2> QED BY <1>1, <1>2, <1>7, <2>2, <2>4, <2>6, <2>8 DEF CountsOK, Weighted
  <1>11. CellsDated'
    BY <1>1, <1>2, <1>7, <1>9 DEF CellsOK, CellsDated, pollVars
  <1>12. CellsFilled'
    <2> SUFFICES ASSUME NEW i \in GivenOut(dat')
                 PROVE  \/ \E q \in At({"write"})' : obs'[q].idx = i
                        \/ bufs'[dat'.buf][i].epoch = epoch' /\ bufs'[dat'.buf][i].val \in Observed'
      BY DEF CellsFilled, GivenOut
    <2>1. epoch' = epoch
      BY DEF pollVars
    <2>2. CASE i \in GivenOut(dat)
      <3>1. At({"write"}) \subseteq At({"write"})' /\ \A q \in At({"write"}) : obs'[q] = obs[q]
        BY <1>2, <1>6 DEF At
      <3> QED BY <1>1, <1>2, <1>7, <1>9, <2>1, <2>2, <3>1 DEF CellsOK, CellsFilled
    <2>3. CASE i \notin GivenOut(dat)
      <3>1. i = n
        <4>1. i \in 0..BufLen /\ (IF i = 0 THEN BufLen + 1 ELSE i) <= dat.kept + 1
              /\ ~((IF i = 0 THEN BufLen + 1 ELSE i) <= dat.kept)
          BY <1>7, <2>3 DEF GivenOut
        <4> QED BY <1>3, <1>4, <4>1
      <3>2. o \in At({"write"})' /\ obs'[o].idx = i
        BY <1>5, <1>6, <3>1 DEF At
      <3> QED BY <3>2
    <2> QED BY <2>2, <2>3
  <1>13. /\ bufs' \in [1..2 -> [0..BufLen -> Cells]] /\ bufs'[bakbuf] = bufs[bakbuf]
         /\ period' \in [Values -> Nat] /\ seen' \in Nat /\ buckets' \in [Bucket -> Nat]
    BY <1>1, <1>2 DEF TypeOK
  <1>14. CellsOK'
    BY <1>11, <1>12 DEF CellsOK
  <1> QED BY <1>6, <1>7, <1>8, <1>9, <1>10, <1>13, <1>14, ObserverStep

LEMMA WriteCellStep ==
  ASSUME HistogramInv, NEW o \in Observers, WriteCell(o), UNCHANGED pollVars
  PROVE  HistogramInv'
  <1> DEFINE n == obs[o].idx
             c == Cell(obs[o].val, epoch)
  <1>1. TypeOK /\ LocksOK /\ ExtremesOK /\ CountsOK /\ CellsOK
    BY DEF HistogramInv
  <1>2. /\ obs[o].pc = "write" /\ bufs' = [bufs EXCEPT ![dat.buf][n] = c]
        /\ Goto(o, "idle") /\ dat' = dat /\ readers' = readers \ {o}
        /\ buckets' = buckets /\ period' = period /\ seen' = seen
    BY DEF WriteCell
  <1>3. PICK x \in Observations : /\ obs' = [obs EXCEPT ![o] = x]
                                  /\ x.pc = "idle" /\ x.val = obs[o].val
    BY <1>1, <1>2, GotoIs
  <1>4. /\ obs' \in [Observers -> Observations] /\ obs'[o] = x
        /\ \A q \in Observers \ {o} : obs'[q] = obs[q]
    BY <1>1, <1>3, ObsStep
  <1>5. /\ dat \in Data /\ dat.buf \in 1..2 /\ n \in 0..BufLen /\ obs[o].val \in Nat
        /\ bufs \in [1..2 -> [0..BufLen -> Cells]] /\ epoch \in Nat /\ bakbuf \in 1..2
        /\ dat.buf # bakbuf
    BY <1>1, DataIs, ObservationIs DEF TypeOK, LocksOK
  <1>6. c \in Cells /\ c.epoch = epoch /\ c.val = obs[o].val
    BY <1>5 DEF Cell, Cells
  <1> HIDE DEF n, c
  <1>7. /\ bufs' \in [1..2 -> [0..BufLen -> Cells]] /\ bufs'[bakbuf] = bufs[bakbuf]
        /\ bufs'[dat.buf][n] = c /\ \A i \in 0..BufLen \ {n} : bufs'[dat.buf][i] = bufs[dat.buf][i]
    BY <1>2, <1>5, <1>6
  <1>8. readers' = IF obs'[o].pc = "idle" THEN readers \ {o} ELSE readers \cup {o}
    BY <1>2, <1>3, <1>4, ReadersLeft
  <1>9. ExtremesOK' /\ Observed' = Observed
    BY <1>1, <1>2, <1>3, <1>4, ExtremesKept DEF BeforeMin
  <1>10. IsFiniteSet(readers') => CountsOK'
    BY <1>1, <1>2, <1>3, <1>4, CountsKept DEF BeforeCount
  <1>11. obs[o].val \in Observed
    BY <1>1, <1>2 DEF ExtremesOK
  <1>12. CellsDated'
    <2>1. epoch' = epoch
      BY DEF pollVars
    <2>2. ASSUME NEW b \in 1..2, NEW i \in 0..BufLen PROVE bufs'[b][i].epoch <= epoch
      <3>1. bufs'[b][i] = c \/ bufs'[b][i] = bufs[b][i]
        BY <1>5, <1>7
      <3>2. bufs[b][i].epoch <= epoch
        BY <1>1 DEF CellsOK, CellsDated
      <3> QED BY <1>5, <1>6, <3>1, <3>2
    <2>3. ASSUME NEW i \in 0..BufLen, bufs'[dat.buf][i].epoch = epoch
          PROVE  bufs'[dat.buf][i].val \in Observed
      <3>1. bufs'[dat.buf][i] = c \/ bufs'[dat.buf][i] = bufs[dat.buf][i]
        BY <1>7
      <3> QED BY <1>1, <1>6, <1>11, <2>3, <3>1 DEF CellsOK, CellsDated
    <2> QED BY <1>2, <1>9, <2>1, <2>2, <2>3 DEF CellsDated
  <1>13. CellsFilled'
    <2> SUFFICES ASSUME NEW i \in GivenOut(dat)
                 PROVE  \/ \E q \in At({"write"})' : obs'[q].idx = i
                        \/ bufs'[dat.buf][i].epoch = epoch /\ bufs'[dat.buf][i].val \in Observed
      BY <1>2, <1>9 DEF CellsFilled, GivenOut, pollVars
    <2>1. i \in 0..BufLen
      BY DEF GivenOut
    <2>2. CASE i = n
      BY <1>6, <1>7, <1>11, <2>2
    <2>3. CASE i # n
      <3>1. bufs'[dat.buf][i] = bufs[dat.buf][i]
        BY <1>7, <2>1, <2>3
      <3>2. \A q \in At({"write"}) : obs[q].idx = i => q \in At({"write"})' /\ obs'[q].idx = i
        BY <1>4, <2>3 DEF At, n
      <3> QED BY <1>1, <3>1, <3>2 DEF CellsOK, CellsFilled
    <2> QED BY <2>2, <2>3
  <1>14. /\ period' \in [Values -> Nat] /\ seen' \in Nat /\ buckets' \in [Bucket -> Nat]
         /\ dat' \in Data
    BY <1>1, <1>2 DEF TypeOK
  <1>15. CellsOK'
    BY <1>12, <1>13 DEF CellsOK
  <1> QED BY <1>2, <1>4, <1>7, <1>8, <1>9, <1>10, <1>14, <1>15, ObserverStep

-----------------------------------------------------------------------------
(***************************************************************************)
(* The steps of a poll.                                                    *)
(***************************************************************************)

\* Sets of observed values have extremes.
LEMMA Extremes ==
  ASSUME NEW S \in SUBSET Values, S # {}
  PROVE  /\ Min(S) \in S /\ \A v \in S : Min(S) <= v
         /\ Max(S) \in S /\ \A v \in S : v <= Max(S)
  <1>1. MaxUint64 \in Nat /\ \A v \in S : v \in Nat /\ v <= MaxUint64
    BY ValuesAre
  <1>2. \E x \in S : \A y \in S : x <= y
    BY <1>1, LeastNat
  <1>3. \E x \in S : \A y \in S : x >= y
    <2> DEFINE I == {MaxUint64 - v : v \in S}
    <2>1. I \in SUBSET Nat /\ I # {}
      BY <1>1
    <2> HIDE DEF I
    <2>2. PICK c \in I : \A d \in I : c <= d
      BY <2>1, LeastNat
    <2>3. PICK x \in S : c = MaxUint64 - x
      BY <2>2 DEF I
    <2>4. ASSUME NEW y \in S PROVE x >= y
      <3>1. MaxUint64 - y \in I
        BY DEF I
      <3>2. MaxUint64 - x <= MaxUint64 - y
        BY <2>2, <2>3, <3>1
      <3> QED BY <1>1, <2>3, <3>2
    <2> QED BY <2>3, <2>4
  <1>4. Min(S) \in S /\ \A y \in S : Min(S) <= y
    BY <1>2 DEF Min
  <1>5. Max(S) \in S /\ \A y \in S : Max(S) >= y
    BY <1>3 DEF Max
  <1> QED BY <1>1, <1>4, <1>5

LEMMA ExtremesAre ==
  ASSUME NEW S \in SUBSET Values, NEW a \in S, NEW b \in S,
         \A v \in S : a <= v /\ v <= b
  PROVE  Min(S) = a /\ Max(S) = b
  <1>1. \A v \in S : v \in Nat
    BY ValuesAre
  <1>2. /\ Min(S) \in S /\ \A v \in S : Min(S) <= v
        /\ Max(S) \in S /\ \A v \in S : v <= Max(S)
    BY Extremes
  <1>3. Min(S) <= a /\ a <= Min(S) /\ b <= Max(S) /\ Max(S) <= b
    BY <1>2
  <1> HIDE DEF Min, Max
  <1> QED BY <1>1, <1>2, <1>3

LEMMA PollIs ==
  ASSUME TypeOK, NEW p \in Pollers
  PROVE  /\ poll \in [Pollers -> Polls] /\ poll[p] \in Polls
         /\ poll[p].dat \in Data /\ poll[p].copy \in [Bucket -> Nat]
         /\ poll[p].obs \in [Values -> Nat] /\ poll[p].at \in Nat
  BY DEF TypeOK, Polls

LEMMA NewDataIs ==
  ASSUME NEW b \in 1..2
  PROVE  /\ NewData(b) \in Data /\ NewData(b).count = 0 /\ NewData(b).kept = 0
         /\ NewData(b).total = 0 /\ NewData(b).min = MaxUint64 /\ NewData(b).max = 0
         /\ NewData(b).buf = b
  <1>1. MaxUint64 \in Nat
    BY ValuesAre
  <1> QED BY <1>1 DEF NewData, Data

LEMMA NotPollingIs ==
  NotPolling \in Polls /\ NotPolling.pc = "idle"
  <1>1. NewData(1) \in Data
    BY NewDataIs
  <1>2. <<>> \in Seq(Cells)
    OBVIOUS
  <1>3. [b \in Bucket |-> 0] \in [Bucket -> Nat] /\ [v \in Values |-> 0] \in [Values -> Nat]
    OBVIOUS
  <1> QED BY <1>1, <1>2, <1>3 DEF NotPolling, Polls

\* One poll changes; metricsReadLock keeps the others away.
LEMMA OnePoll ==
  ASSUME TypeOK, LocksOK, NEW p \in Pollers, readLock \in {p, None},
         NEW x \in Polls, poll' = [poll EXCEPT ![p] = x]
  PROVE  /\ poll' \in [Pollers -> Polls] /\ poll'[p] = x
         /\ \A q \in Pollers \ {p} : poll'[q] = poll[q] /\ poll'[q].pc = "idle"
  <1>1. None \notin Pollers
    BY HistogramAssumption
  <1>2. \A q \in Pollers \ {p} : poll[q].pc = "idle"
    BY <1>1 DEF LocksOK
  <1> QED BY <1>2 DEF TypeOK

\* A poll that takes nothing leaves the observations alone.
LEMMA PollerStep ==
  ASSUME HistogramInv, UNCHANGED <<sampled, readers, buckets, obs, seen>>,
         UNCHANGED <<dat, bakbuf, period, epoch, told>>,
         poll' \in [Pollers -> Polls], readLock' \in Pollers \cup {None},
         \A p \in Pollers : poll'[p].pc # "idle" => readLock' = p,
         \A p \in Pollers : poll'[p].pc \in {"sort", "buckets", "print"} => poll'[p].dat.buf = bakbuf,
         bufs' \in [1..2 -> [0..BufLen -> Cells]], bufs'[dat.buf] = bufs[dat.buf],
         \A b \in 1..2, i \in 0..BufLen : bufs'[b][i].epoch <= epoch,
         TakenOK', ReportIsThePeriod', SamplesAreOfThePeriod', BucketsCoverCounts'
  PROVE  HistogramInv'
  <1>1. /\ sampled' = sampled /\ readers' = readers /\ buckets' = buckets /\ obs' = obs
        /\ seen' = seen /\ dat' = dat /\ bakbuf' = bakbuf /\ period' = period
        /\ epoch' = epoch /\ told' = told
    OBVIOUS
  <1>2. TypeOK /\ LocksOK /\ ExtremesOK /\ CountsOK /\ CellsOK
    BY DEF HistogramInv
  <1>3. TypeOK'
    BY <1>1, <1>2 DEF TypeOK
  <1>4. LocksOK'
    BY <1>1, <1>2 DEF LocksOK, Reporting
  <1>5. Observed' = Observed
    BY <1>1 DEF Observed
  <1>6. ExtremesOK'
    BY <1>1, <1>2, <1>5 DEF ExtremesOK, At
  <1>7. CountsOK'
    BY <1>1, <1>2 DEF CountsOK, At, Weighted, KeptOf
  <1>8. CellsOK'
    BY <1>1, <1>2, <1>5 DEF CellsOK, CellsFilled, CellsDated, GivenOut, At
  <1> QED BY <1>3, <1>4, <1>6, <1>7, <1>8 DEF HistogramInv

\* Nothing is said of a poll that has taken nothing yet.
LEMMA NoneReporting ==
  ASSUME \A p \in Pollers : poll'[p].pc \in {"idle", "extract"}
  PROVE  TakenOK' /\ ReportIsThePeriod' /\ SamplesAreOfThePeriod' /\ BucketsCoverCounts'
  BY DEF TakenOK, ReportIsThePeriod, SamplesAreOfThePeriod, BucketsCoverCounts, Reporting

LEMMA PollStep ==
  ASSUME HistogramInv, NEW p \in Pollers, Poll(p), UNCHANGED <<sampled, readers, buckets, obs, seen>>
  PROVE  HistogramInv'
  <1> DEFINE x == [poll[p] EXCEPT !.pc = "extract"]
  <1>1. TypeOK /\ LocksOK /\ CellsOK
    BY DEF HistogramInv
  <1>2. /\ readLock = None /\ readLock' = p /\ poll' = [poll EXCEPT ![p] = x]
        /\ bufs' = bufs /\ UNCHANGED <<dat, bakbuf, period, epoch, told>>
    BY DEF Poll
  <1>3. x \in Polls /\ x.pc = "extract"
    <2>1. poll[p] \in Polls
      BY <1>1, PollIs
    <2> QED BY <2>1 DEF Polls
  <1> HIDE DEF x
  <1>4. /\ poll' \in [Pollers -> Polls] /\ poll'[p] = x
        /\ \A q \in Pollers \ {p} : poll'[q] = poll[q] /\ poll'[q].pc = "idle"
    BY <1>1, <1>2, <1>3, OnePoll
  <1>5. \A q \in Pollers : poll'[q].pc \in {"idle", "extract"}
    BY <1>3, <1>4
  <1>6. TakenOK' /\ ReportIsThePeriod' /\ SamplesAreOfThePeriod' /\ BucketsCoverCounts'
    BY <1>5, NoneReporting
  <1>7. /\ bufs' \in [1..2 -> [0..BufLen -> Cells]] /\ bufs'[dat.buf] = bufs[dat.buf]
        /\ \A b \in 1..2, i \in 0..BufLen : bufs'[b][i].epoch <= epoch
    BY <1>1, <1>2 DEF TypeOK, CellsOK, CellsDated
  <1>8. /\ \A q \in Pollers : poll'[q].pc # "idle" => readLock' = q
        /\ \A q \in Pollers : poll'[q].pc \notin {"sort", "buckets", "print"}
    BY <1>2, <1>4, <1>5
  <1> QED BY <1>2, <1>4, <1>6, <1>7, <1>8, PollerStep

LEMMA PrintMetricsStep ==
  ASSUME HistogramInv, NEW p \in Pollers, PrintMetrics(p),
         UNCHANGED <<sampled, readers, buckets, obs, seen>>
  PROVE  HistogramInv'
  <1>1. TypeOK /\ LocksOK /\ CellsOK
    BY DEF HistogramInv
  <1>2. /\ poll[p].pc = "print" /\ readLock' = None /\ poll' = [poll EXCEPT ![p] = NotPolling]
        /\ bufs' = bufs /\ UNCHANGED <<dat, bakbuf, period, epoch, told>>
    BY DEF PrintMetrics
  <1>3. readLock = p
    BY <1>1, <1>2 DEF LocksOK
  <1>4. /\ poll' \in [Pollers -> Polls] /\ poll'[p] = NotPolling
        /\ \A q \in Pollers \ {p} : poll'[q] = poll[q] /\ poll'[q].pc = "idle"
    BY <1>1, <1>2, <1>3, NotPollingIs, OnePoll
  <1>5. \A q \in Pollers : poll'[q].pc = "idle"
    BY <1>4, NotPollingIs
  <1>6. TakenOK' /\ ReportIsThePeriod' /\ SamplesAreOfThePeriod' /\ BucketsCoverCounts'
    BY <1>5, NoneReporting
  <1>7. /\ bufs' \in [1..2 -> [0..BufLen -> Cells]] /\ bufs'[dat.buf] = bufs[dat.buf]
        /\ \A b \in 1..2, i \in 0..BufLen : bufs'[b][i].epoch <= epoch
    BY <1>1, <1>2 DEF TypeOK, CellsOK, CellsDated
  <1> QED BY <1>2, <1>4, <1>5, <1>6, <1>7, PollerStep

\* The counters only grow while they are copied.
LEMMA ExtractBHistStep ==
  ASSUME HistogramInv, NEW p \in Pollers, ExtractBHist(p),
         UNCHANGED <<sampled, readers, buckets, obs, seen>>
  PROVE  HistogramInv'
  <1>1. /\ TypeOK /\ LocksOK /\ CellsOK /\ TakenOK /\ ReportIsThePeriod /\ SamplesAreOfThePeriod
    BY DEF HistogramInv
  <1>2. /\ poll[p].pc = "buckets" /\ readLock' = readLock /\ bufs' = bufs
        /\ UNCHANGED <<dat, bakbuf, period, epoch, told>>
    BY DEF ExtractBHist
  <1>3. PICK copy \in [Bucket -> 0..MaxObs] :
          /\ \A b \in Bucket : copy[b] \in poll[p].copy[b]..buckets[b]
          /\ poll' = [poll EXCEPT ![p].pc = "print", ![p].copy = copy]
    BY DEF ExtractBHist
  <1> DEFINE x == [[poll[p] EXCEPT !.pc = "print"] EXCEPT !.copy = copy]
  <1>4. /\ poll[p] \in Polls /\ poll[p].copy \in [Bucket -> Nat] /\ copy \in [Bucket -> Nat]
        /\ buckets \in [Bucket -> Nat]
    <2>1. copy \in [Bucket -> Nat]
      BY <1>3, HistogramAssumption
    <2> QED BY <1>1, <2>1, PollIs DEF TypeOK
  <1>5. /\ x \in Polls /\ x.pc = "print" /\ x.copy = copy /\ x.dat = poll[p].dat
        /\ x.obs = poll[p].obs /\ x.at = poll[p].at /\ x.pctl = poll[p].pctl
    BY <1>4 DEF Polls
  <1>6. poll' = [poll EXCEPT ![p] = x]
    BY <1>1, <1>3 DEF TypeOK
  <1> HIDE DEF x
  <1>7. readLock = p
    BY <1>1, <1>2 DEF LocksOK
  <1>8. /\ poll' \in [Pollers -> Polls] /\ poll'[p] = x
        /\ \A q \in Pollers \ {p} : poll'[q] = poll[q] /\ poll'[q].pc = "idle"
    BY <1>1, <1>5, <1>6, <1>7, OnePoll
  <1>9. Sum(copy) >= told
    <2>1. \A b \in Bucket : poll[p].copy[b] <= copy[b]
      BY <1>3, <1>4
    <2>2. Sum(poll[p].copy) <= Sum(copy)
      <3> DEFINE old == poll[p].copy
      <3>1. old \in [Bucket -> Nat] /\ copy \in [Bucket -> Nat] /\ IsFiniteSet(Bucket)
            /\ \A b \in Bucket : old[b] <= copy[b]
        BY <1>4, <2>1, BucketIsFinite
      <3> HIDE DEF old
      <3>2. Sum(old) <= Sum(copy)
        BY ONLY <3>1, SumGrows
      <3> QED BY <3>2 DEF old
    <2>3. Sum(poll[p].copy) >= told
      BY <1>1, <1>2 DEF TakenOK
    <2>4. Sum(poll[p].copy) \in Nat /\ Sum(copy) \in Nat /\ told \in Nat
      BY <1>1, <1>4, BucketIsFinite, SumIsNat DEF TypeOK
    <2> QED BY <2>2, <2>3, <2>4
  <1>10. TakenOK' /\ BucketsCoverCounts'
    BY <1>2, <1>5, <1>8, <1>9 DEF TakenOK, BucketsCoverCounts
  <1>11. ReportIsThePeriod'
    <2>1. \A q \in Pollers : Reporting(q)' => q = p
      BY <1>8 DEF Reporting
    <2>2. Seen(p)' = Seen(p) /\ poll'[p].dat = poll[p].dat /\ poll'[p].obs = poll[p].obs
      BY <1>5, <1>8 DEF Seen
    <2>3. Reporting(p)
      BY <1>2 DEF Reporting
    <2> QED BY <1>1, <2>1, <2>2, <2>3 DEF ReportIsThePeriod
  <1>12. SamplesAreOfThePeriod'
    <2>1. \A q \in Pollers : poll'[q].pc \in {"buckets", "print"} => q = p
      BY <1>8
    <2> QED BY <1>1, <1>2, <1>5, <1>8, <2>1 DEF SamplesAreOfThePeriod
  <1>13. /\ bufs' \in [1..2 -> [0..BufLen -> Cells]] /\ bufs'[dat.buf] = bufs[dat.buf]
         /\ \A b \in 1..2, i \in 0..BufLen : bufs'[b][i].epoch <= epoch
    BY <1>1, <1>2 DEF TypeOK, CellsOK, CellsDated
  <1>14. /\ \A q \in Pollers : poll'[q].pc # "idle" => readLock' = q
         /\ \A q \in Pollers : poll'[q].pc \in {"sort", "buckets", "print"} => poll'[q].dat.buf = bakbuf
         /\ readLock' \in Pollers \cup {None}
    BY <1>1, <1>2, <1>5, <1>7, <1>8 DEF LocksOK, Reporting
  <1> QED BY <1>2, <1>8, <1>10, <1>11, <1>12, <1>13, <1>14, PollerStep

\* Nobody holds the read side of the lock: nothing is under way.
LEMMA AllIdle ==
  ASSUME LocksOK, readers = {}
  PROVE  /\ \A o \in Observers : obs[o].pc = "idle"
         /\ \A L : "idle" \notin L => At(L) = {}
  BY DEF LocksOK, At

LEMMA ExtractHistStep ==
  ASSUME HistogramInv, NEW p \in Pollers, ExtractHist(p),
         UNCHANGED <<sampled, readers, buckets, obs, seen>>
  PROVE  HistogramInv'
  <1> DEFINE x == [poll[p] EXCEPT !.pc = "sort", !.dat = dat, !.obs = period, !.at = epoch]
  <1>1. TypeOK /\ LocksOK /\ ExtremesOK /\ CountsOK /\ CellsOK
    BY DEF HistogramInv
  <1>2. /\ poll[p].pc = "extract" /\ readers = {} /\ poll' = [poll EXCEPT ![p] = x]
        /\ dat' = NewData(bakbuf) /\ bakbuf' = dat.buf /\ period' = [v \in Values |-> 0]
        /\ epoch' = epoch + 1 /\ told' = told + dat.count /\ readLock' = readLock /\ bufs' = bufs
    BY DEF ExtractHist
  <1>3. /\ sampled' = sampled /\ readers' = readers /\ buckets' = buckets /\ obs' = obs
        /\ seen' = seen
    OBVIOUS
  <1>4. /\ dat \in Data /\ dat.count \in Nat /\ dat.kept \in Nat /\ dat.min \in Nat /\ dat.max \in Nat
        /\ dat.buf \in 1..2 /\ bakbuf \in 1..2 /\ epoch \in Nat /\ told \in Nat
        /\ period \in [Values -> Nat] /\ poll[p] \in Polls
    BY <1>1, PollIs, DataIs DEF TypeOK
  <1>5. x \in Polls /\ x.pc = "sort" /\ x.dat = dat /\ x.obs = period /\ x.at = epoch
    BY <1>4 DEF Polls
  <1> HIDE DEF x
  <1>6. readLock = p
    BY <1>1, <1>2 DEF LocksOK
  <1>7. /\ poll' \in [Pollers -> Polls] /\ poll'[p] = x
        /\ \A q \in Pollers \ {p} : poll'[q] = poll[q] /\ poll'[q].pc = "idle"
    BY <1>1, <1>2, <1>5, <1>6, OnePoll
  <1>8. /\ dat' \in Data /\ dat'.count = 0 /\ dat'.kept = 0 /\ dat'.total = 0
        /\ dat'.min = MaxUint64 /\ dat'.max = 0 /\ dat'.buf = bakbuf
    BY <1>2, <1>4, NewDataIs
  <1>9. /\ \A o \in Observers : obs[o].pc = "idle"
        /\ At(BeforeMax) = {} /\ At(BeforeMin) = {} /\ At(BeforeCount) = {} /\ At({"kept"}) = {}
        /\ At({"count"}) = {} /\ At({"write"}) = {}
    <2>1. "idle" \notin BeforeMax /\ "idle" \notin BeforeMin /\ "idle" \notin BeforeCount
          /\ "idle" \notin {"kept"} /\ "idle" \notin {"count"} /\ "idle" \notin {"write"}
      BY DEF BeforeMax, BeforeMin, BeforeCount
    <2> QED BY <1>1, <1>2, <2>1, AllIdle
  <1>10. TypeOK'
    <2>1. period' \in [Values -> Nat] /\ epoch' \in Nat /\ told' \in Nat
      BY <1>2, <1>4
    <2>2. sampled' \in BOOLEAN
      BY <1>1, <1>3 DEF TypeOK
    <2>3. /\ bufs' \in [1..2 -> [0..BufLen -> Cells]] /\ readers' \subseteq Observers
          /\ buckets' \in [Bucket -> Nat] /\ obs' \in [Observers -> Observations]
          /\ readLock' \in Pollers \cup {None} /\ bakbuf' \in 1..2 /\ seen' \in Nat
      BY <1>1, <1>2, <1>3, <1>4 DEF TypeOK
    <2> QED BY <1>7, <1>8, <2>1, <2>2, <2>3 DEF TypeOK
  <1>11. LocksOK'
    <2>1. \A q \in Pollers : poll'[q].pc # "idle" => q = p
      BY <1>7
    <2>2. \A q \in Pollers : Reporting(q)' => poll'[q].dat.buf = bakbuf'
      BY <1>2, <1>5, <1>7, <2>1 DEF Reporting
    <2> QED BY <1>1, <1>2, <1>3, <1>6, <1>8, <2>1, <2>2 DEF LocksOK
  <1>12. Observed' = {}
    BY <1>2 DEF Observed
  <1>13. ExtremesOK'
    BY <1>3, <1>8, <1>9, <1>12 DEF ExtremesOK, At
  <1>14. Sum(period') = 0 /\ Sum(Weighted(period)') = 0
    <2>1. Weighted(period)' = [v \in Values |-> 0]
      <3>1. \A v \in Values : v * period'[v] = 0
        BY <1>2, ValuesAre
      <3> QED BY <3>1 DEF Weighted
    <2>2. IsFiniteSet(Values)
      BY ValuesAre
    <2> QED BY <1>2, <2>1, <2>2, SumOfZeros
  <1>15. Cardinality({}) = 0
    BY FS_EmptySet
  <1>16. CountsOK'
    <2>1. /\ At(BeforeCount)' = {} /\ At({"kept"})' = {} /\ At({"count"})' = {}
      BY <1>3, <1>9 DEF At
    <2>2. KeptOf(dat.count)' = 0
      <3>1. SampleMask + 1 \in Nat \ {0}
        BY HistogramAssumption
      <3>2. 0 \div (SampleMask + 1) = 0
        BY <3>1, Quotients
      <3> QED BY <1>8, <3>2 DEF KeptOf
    <2>3. told + dat.count + 0 = Sum(buckets)
      BY <1>1, <1>9, <1>15 DEF CountsOK
    <2>4. told' + dat'.count + Cardinality(At({"count"})') = Sum(buckets')
      <3>1. (told + dat.count) + 0 + 0 = told + dat.count + 0
        BY <1>4
      <3> QED BY <1>2, <1>3, <1>8, <1>15, <2>1, <2>3, <3>1
    <2>5. IsFiniteSet(readers')
      BY <1>1, <1>3 DEF CountsOK
    <2>6. dat'.total = Sum(Weighted(period)') % Word
      BY <1>8, <1>14, ValuesAre, Remainders
    <2> QED BY <1>8, <1>14, <1>15, <2>1, <2>2, <2>4, <2>5, <2>6 DEF CountsOK
  <1>17. CellsOK'
    <2>1. GivenOut(dat') = {}
      <3>1. BufLen \in Nat \ {0}
        BY HistogramAssumption
      <3> QED BY <1>8, <3>1 DEF GivenOut
    <2>2. \A b \in 1..2, i \in 0..BufLen : bufs'[b][i].epoch <= epoch /\ bufs'[b][i].epoch \in Nat
      BY <1>1, <1>2 DEF CellsOK, CellsDated, TypeOK, Cells
    <2>3. \A b \in 1..2, i \in 0..BufLen : bufs'[b][i].epoch <= epoch' /\ bufs'[b][i].epoch # epoch'
      BY <1>2, <1>4, <2>2
    <2>4. dat'.buf \in 1..2
      BY <1>4, <1>8
    <2> QED BY <2>1, <2>3, <2>4 DEF CellsOK, CellsFilled, CellsDated, GivenOut
  <1>18. Seen(p)' = Observed
    BY <1>5, <1>7 DEF Seen, Observed
  <1>19. TakenOK'
    <2>1. \A q \in Pollers : poll'[q].pc \in {"sort", "buckets"} => q = p
      BY <1>7
    <2>2. \A i \in GivenOut(dat) : bufs[dat.buf][i].epoch = epoch
      BY <1>1, <1>9 DEF CellsOK, CellsFilled
    <2>3. \A i \in 0..BufLen : bufs[dat.buf][i].epoch = epoch => bufs[dat.buf][i].val \in Observed
      BY <1>1 DEF CellsOK, CellsDated
    <2> QED BY <1>2, <1>5, <1>7, <1>18, <2>1, <2>2, <2>3 DEF TakenOK, GivenOut
  <1>20. ReportIsThePeriod'
    <2>1. \A q \in Pollers : Reporting(q)' => q = p
      BY <1>7 DEF Reporting
    <2>2. dat.count = Sum(period) /\ dat.total = Sum(Weighted(period)) % Word
          /\ dat.kept = KeptOf(dat.count)
      <3>1. /\ dat.count + 0 = Sum(period) /\ dat.total = Sum(Weighted(period)) % Word
            /\ dat.kept + 0 = KeptOf(dat.count)
        BY <1>1, <1>9, <1>15 DEF CountsOK
      <3> QED BY <1>4, <3>1
    <2>3. ASSUME Observed # {} PROVE dat.min = Min(Observed) /\ dat.max = Max(Observed)
      <3>1. \A v \in Observed : v <= dat.max /\ dat.min <= v
        BY <1>1, <1>9 DEF ExtremesOK
      <3>2. PICK v : v \in Observed
        BY <2>3
      <3>3. v \in Nat /\ v <= MaxUint64 /\ MaxUint64 \in Nat
        BY <3>2, ValuesAre DEF Observed
      <3>4. (dat.max = 0 => v = dat.max) /\ (dat.min = MaxUint64 => v = dat.min)
        BY <1>4, <3>1, <3>2, <3>3
      <3>5. dat.max \in Observed /\ dat.min \in Observed /\ Observed \in SUBSET Values
        BY <1>1, <3>2, <3>4 DEF ExtremesOK, Observed
      <3> QED BY <3>1, <3>5, ExtremesAre
    <2>4. /\ poll'[p].dat = dat /\ poll'[p].obs = period
      BY <1>5, <1>7
    <2> QED BY <1>3, <1>18, <2>1, <2>2, <2>3, <2>4 DEF ReportIsThePeriod, Weighted, KeptOf, Word
  <1>21. SamplesAreOfThePeriod' /\ BucketsCoverCounts'
    <2>1. \A q \in Pollers : poll'[q].pc \in {"idle", "sort"}
      BY <1>5, <1>7
    <2> QED BY <2>1 DEF SamplesAreOfThePeriod, BucketsCoverCounts
  <1> QED BY <1>10, <1>11, <1>13, <1>16, <1>17, <1>19, <1>20, <1>21 DEF HistogramInv

\* The cells are sorted in place: they are the same cells, and but for cell 0
\* they have been given out in the period.
LEMMA HdatPercentilesStep ==
  ASSUME HistogramInv, NEW p \in Pollers, HdatPercentiles(p),
         UNCHANGED <<sampled, readers, buckets, obs, seen>>
  PROVE  HistogramInv'
  <1> DEFINE d == poll[p].dat
             n == Slice(d)
             cells == bufs[d.buf]
  <1>1. /\ TypeOK /\ LocksOK /\ CountsOK /\ CellsOK /\ TakenOK /\ ReportIsThePeriod
    BY DEF HistogramInv
  <1>2. /\ poll[p].pc = "sort" /\ readLock' = readLock
        /\ UNCHANGED <<dat, bakbuf, period, epoch, told>>
    BY DEF HdatPercentiles
  <1>3. PICK perm \in Bijection(1..n, 1..n) :
          LET sorted == [i \in 1..n |-> cells[perm[i] - 1]] IN
          /\ poll' = [poll EXCEPT ![p] = [@ EXCEPT !.pc = "buckets", !.pctl = sorted,
                                                  !.copy = buckets]]
          /\ bufs' = [bufs EXCEPT ![d.buf] =
                        [i \in 0..BufLen |-> IF i < n THEN sorted[i + 1] ELSE cells[i]]]
    BY DEF HdatPercentiles
  <1> DEFINE sorted == [i \in 1..n |-> cells[perm[i] - 1]]
             x == [poll[p] EXCEPT !.pc = "buckets", !.pctl = sorted, !.copy = buckets]
             after == [i \in 0..BufLen |-> IF i < n THEN sorted[i + 1] ELSE cells[i]]
  <1>4. poll' = [poll EXCEPT ![p] = x] /\ bufs' = [bufs EXCEPT ![d.buf] = after]
    BY <1>3
  <1>5. /\ d \in Data /\ d.kept \in Nat /\ d.buf \in 1..2 /\ cells \in [0..BufLen -> Cells]
        /\ bufs \in [1..2 -> [0..BufLen -> Cells]] /\ BufLen \in Nat \ {0}
        /\ poll[p] \in Polls /\ buckets \in [Bucket -> Nat] /\ epoch \in Nat
    <2>1. d \in Data /\ poll[p] \in Polls
      BY <1>1, PollIs
    <2> HIDE DEF d
    <2>2. d.kept \in Nat /\ d.buf \in 1..2
      BY <2>1, DataIs
    <2> QED BY <1>1, <2>1, <2>2, HistogramAssumption DEF TypeOK
  <1>6. n \in Nat /\ n <= BufLen + 1 /\ n <= d.kept
    <2> HIDE DEF d
    <2> QED BY <1>5 DEF Slice
  <1>7. /\ \A i \in 1..n : perm[i] \in 1..n
        /\ \A i, j \in 1..n : perm[i] = perm[j] => i = j
    BY <1>3 DEF Bijection, Injection, IsInjective
  <1>8. Reporting(p) /\ d.buf = bakbuf /\ readLock = p /\ d.buf # dat.buf
    BY <1>1, <1>2 DEF LocksOK, Reporting
  <1> HIDE DEF d, n, cells
  <1>9. \A i \in 1..n : perm[i] - 1 \in 0..BufLen
    BY <1>5, <1>6, <1>7
  <1>10. /\ DOMAIN sorted = 1..n
         /\ \A i \in 1..n : sorted[i] = cells[perm[i] - 1] /\ sorted[i] \in Cells
    BY <1>5, <1>9
  <1>11. sorted \in Seq(Cells)
    <2>1. sorted \in [1..n -> Cells]
      BY <1>10
    <2> HIDE DEF sorted
    <2> QED BY <1>6, <2>1
  <1> HIDE DEF sorted
  <1>12. /\ after \in [0..BufLen -> Cells]
         /\ \A i \in 0..BufLen : \E j \in 0..BufLen : after[i] = cells[j]
    <2>1. ASSUME NEW i \in 0..BufLen
          PROVE  \E j \in 0..BufLen : after[i] = cells[j]
      <3>1. CASE i < n
        <4>1. i + 1 \in 1..n
          BY <1>5, <1>6, <3>1
        <4> QED BY <1>9, <1>10, <3>1, <4>1
      <3>2. CASE ~(i < n)
        BY <3>2
      <3> QED BY <3>1, <3>2
    <2>2. \A i \in 0..BufLen : after[i] \in Cells
      <3> HIDE DEF after
      <3> QED BY <1>5, <2>1
    <2> QED BY <2>1, <2>2
  <1> HIDE DEF after
  <1>13. /\ x \in Polls /\ x.pc = "buckets" /\ x.pctl = sorted /\ x.copy = buckets
         /\ x.dat = d /\ x.obs = poll[p].obs /\ x.at = poll[p].at
    BY <1>5, <1>11 DEF Polls, d
  <1> HIDE DEF x
  <1>14. /\ poll' \in [Pollers -> Polls] /\ poll'[p] = x
         /\ \A q \in Pollers \ {p} : poll'[q] = poll[q] /\ poll'[q].pc = "idle"
    BY <1>1, <1>4, <1>8, <1>13, OnePoll
  <1>15. /\ bufs' \in [1..2 -> [0..BufLen -> Cells]] /\ bufs'[dat.buf] = bufs[dat.buf]
         /\ \A b \in 1..2, i \in 0..BufLen : bufs'[b][i].epoch <= epoch
    <2>1. dat.buf \in 1..2
      BY <1>1, DataIs DEF TypeOK
    <2>2. /\ bufs' \in [1..2 -> [0..BufLen -> Cells]] /\ bufs'[d.buf] = after
          /\ \A b \in 1..2 \ {d.buf} : bufs'[b] = bufs[b]
      BY <1>4, <1>5, <1>12
    <2>3. \A b \in 1..2, i \in 0..BufLen : bufs[b][i].epoch <= epoch
      BY <1>1 DEF CellsOK, CellsDated
    <2>4. \A i \in 0..BufLen : after[i].epoch <= epoch
      BY <1>5, <1>12, <2>3 DEF cells
    <2>5. \A b \in 1..2, i \in 0..BufLen : bufs'[b][i].epoch <= epoch
      BY <2>2, <2>3, <2>4
    <2> QED BY <1>8, <2>1, <2>2, <2>5
  <1>16. TakenOK' /\ BucketsCoverCounts'
    <2>1. \A q \in Pollers : poll'[q].pc \in {"sort", "buckets", "print"} => q = p
      BY <1>14
    <2>2. Sum(buckets) >= told
      <3>1. told + dat.count + Cardinality(At({"count"})) = Sum(buckets)
        BY <1>1 DEF CountsOK
      <3>2. Cardinality(At({"count"})) \in Nat
        <4>1. IsFiniteSet(readers) /\ "idle" \notin {"count"}
          BY <1>1 DEF CountsOK
        <4> QED BY <1>1, <4>1, AtIsFinite
      <3>3. told \in Nat /\ dat.count \in Nat
        BY <1>1, DataIs DEF TypeOK
      <3> QED BY <3>1, <3>2, <3>3
    <2> QED BY <1>2, <1>13, <1>14, <2>1, <2>2 DEF TakenOK, BucketsCoverCounts
  <1>17. ReportIsThePeriod'
    <2>1. \A q \in Pollers : Reporting(q)' => q = p
      BY <1>14 DEF Reporting
    <2>2. Seen(p)' = Seen(p) /\ poll'[p].dat = poll[p].dat /\ poll'[p].obs = poll[p].obs
      BY <1>13, <1>14 DEF Seen, d
    <2> QED BY <1>1, <1>8, <2>1, <2>2 DEF ReportIsThePeriod
  <1>18. SamplesAreOfThePeriod'
    <2> DEFINE foreign == {i \in 1..n : sorted[i].epoch # poll[p].at}
    <2>1. \A q \in Pollers : poll'[q].pc \in {"buckets", "print"} => q = p
      BY <1>14
    <2>2. /\ \A i \in GivenOut(d) : cells[i].epoch = poll[p].at
          /\ \A i \in 0..BufLen : cells[i].epoch = poll[p].at => cells[i].val \in Seen(p)
      BY <1>1, <1>2 DEF TakenOK, d, cells
    <2>3. \A i \in foreign : perm[i] = 1 /\ 0 \notin GivenOut(d)
      <3> SUFFICES ASSUME NEW i \in foreign PROVE perm[i] = 1 /\ 0 \notin GivenOut(d)
        OBVIOUS
      <3>1. i \in 1..n /\ perm[i] - 1 \notin GivenOut(d)
        BY <1>10, <2>2
      <3>2. perm[i] \in 1..n
        BY <1>7, <3>1
      <3>3. perm[i] = 1
        <4>1. SUFFICES ASSUME perm[i] # 1 PROVE FALSE
          OBVIOUS
        <4>2. perm[i] - 1 \in 0..BufLen /\ perm[i] - 1 # 0 /\ perm[i] - 1 <= d.kept
          BY <1>5, <1>6, <3>2, <4>1
        <4> QED BY <3>1, <4>2 DEF GivenOut
      <3> QED BY <3>1, <3>3
    <2>4. Cardinality(foreign) <= 1
      <3>1. CASE foreign = {}
        <4>1. Cardinality({}) = 0
          BY FS_EmptySet
        <4> QED BY <3>1, <4>1
      <3>2. CASE foreign # {}
        <4>1. PICK i : i \in foreign
          BY <3>2
        <4>2. \A j \in foreign : j = i
          BY <1>7, <2>3, <4>1
        <4>3. foreign = {i}
          BY <4>1, <4>2
        <4>4. Cardinality({i}) = 1
          BY FS_Singleton
        <4> HIDE DEF foreign
        <4> QED BY <4>3, <4>4
      <3> QED BY <3>1, <3>2
    <2>5. d.kept > BufLen => foreign = {}
      <3>1. d.kept > BufLen => 0 \in GivenOut(d)
        BY <1>5 DEF GivenOut
      <3> QED BY <2>3, <3>1
    <2>6. ASSUME NEW i \in 1..n, i \notin foreign PROVE sorted[i].val \in d.min..d.max
      <3>1. sorted[i].val \in Seen(p) /\ Seen(p) \in SUBSET Values
        BY <1>9, <1>10, <2>2, <2>6 DEF Seen
      <3>2. d.min = Min(Seen(p)) /\ d.max = Max(Seen(p))
        BY <1>1, <1>8, <3>1 DEF ReportIsThePeriod, d
      <3>3. Min(Seen(p)) <= sorted[i].val /\ sorted[i].val <= Max(Seen(p))
        BY <3>1, Extremes
      <3>4. sorted[i].val \in Nat /\ d.min \in Nat /\ d.max \in Nat
        BY <1>5, <3>1, ValuesAre, DataIs
      <3> QED BY <3>2, <3>3, <3>4
    <2>7. /\ poll'[p].pctl = sorted /\ poll'[p].dat = d /\ poll'[p].at = poll[p].at
          /\ DOMAIN sorted = 1..n
      BY <1>10, <1>13, <1>14
    <2>8. foreign = {i \in DOMAIN poll'[p].pctl : poll'[p].pctl[i].epoch # poll'[p].at}
      BY <2>7
    <2> HIDE DEF foreign
    <2> QED BY <2>1, <2>4, <2>5, <2>6, <2>7, <2>8 DEF SamplesAreOfThePeriod
  <1>19. /\ \A q \in Pollers : poll'[q].pc # "idle" => readLock' = q
         /\ \A q \in Pollers : poll'[q].pc \in {"sort", "buckets", "print"} => poll'[q].dat.buf = bakbuf
         /\ readLock' \in Pollers \cup {None}
    BY <1>2, <1>8, <1>13, <1>14
  <1> QED BY <1>2, <1>14, <1>15, <1>16, <1>17, <1>18, <1>19, PollerStep

-----------------------------------------------------------------------------
(***************************************************************************)
(* The invariant.                                                          *)
(***************************************************************************)

LEMMA InitHistogram ==
  ASSUME Init PROVE HistogramInv
  <1>1. /\ sampled \in BOOLEAN /\ dat = NewData(1) /\ bakbuf = 2
        /\ bufs = [b \in 1..2 |-> [i \in 0..BufLen |-> Cell(0, 0)]] /\ readers = {}
        /\ buckets = [b \in Bucket |-> 0] /\ obs = [o \in Observers |-> Quiet]
        /\ readLock = None /\ poll = [p \in Pollers |-> NotPolling]
        /\ period = [v \in Values |-> 0] /\ epoch = 1 /\ told = 0 /\ seen = 0
    BY DEF Init
  <1>2. /\ dat \in Data /\ dat.count = 0 /\ dat.kept = 0 /\ dat.total = 0
        /\ dat.min = MaxUint64 /\ dat.max = 0 /\ dat.buf = 1
    BY <1>1, NewDataIs
  <1>3. BufLen \in Nat \ {0} /\ SampleMask + 1 \in Nat \ {0}
    BY HistogramAssumption
  <1>4. \A o \in Observers : obs[o].pc = "idle"
    BY <1>1 DEF Quiet
  <1>5. \A p \in Pollers : poll[p].pc = "idle"
    BY <1>1, NotPollingIs
  <1>6. Cell(0, 0) \in Cells /\ Cell(0, 0).epoch = 0
    BY DEF Cell, Cells
  <1>7. TypeOK
    <2>1. obs \in [Observers -> Observations]
      <3>1. 0 \in 0..BufLen
        BY <1>3
      <3>2. Quiet \in Observations
        BY <3>1 DEF Quiet, Observations
      <3> QED BY <1>1, <3>2
    <2>2. poll \in [Pollers -> Polls]
      BY <1>1, NotPollingIs
    <2>3. bufs \in [1..2 -> [0..BufLen -> Cells]]
      BY <1>1, <1>6
    <2>4. /\ bakbuf \in 1..2 /\ readers \subseteq Observers /\ buckets \in [Bucket -> Nat]
          /\ readLock \in Pollers \cup {None} /\ period \in [Values -> Nat]
          /\ epoch \in Nat /\ told \in Nat /\ seen \in Nat
      BY <1>1
    <2>5. sampled \in BOOLEAN
      BY <1>1
    <2> QED BY <1>2, <2>1, <2>2, <2>3, <2>4, <2>5 DEF TypeOK
  <1>8. LocksOK
    BY <1>1, <1>2, <1>4, <1>5 DEF LocksOK, Reporting
  <1>9. Observed = {}
    BY <1>1 DEF Observed
  <1>10. ExtremesOK
    BY <1>2, <1>4, <1>9 DEF ExtremesOK
  <1>11. CountsOK
    <2>1. "idle" \notin BeforeCount /\ "idle" \notin {"kept"} /\ "idle" \notin {"count"}
      BY DEF BeforeCount
    <2>2. At(BeforeCount) = {} /\ At({"kept"}) = {} /\ At({"count"}) = {}
      BY <1>1, <1>8, <2>1, AllIdle
    <2>3. Cardinality({}) = 0 /\ IsFiniteSet({})
      BY FS_EmptySet
    <2>4. Sum(period) = 0 /\ Sum(Weighted(period)) = 0
      <3>1. Weighted(period) = [v \in Values |-> 0]
        <4>1. \A v \in Values : v * period[v] = 0
          BY <1>1, ValuesAre
        <4> QED BY <4>1 DEF Weighted
      <3>2. IsFiniteSet(Values)
        BY ValuesAre
      <3> QED BY <1>1, <3>1, <3>2, SumOfZeros
    <2>5. Sum(buckets) = 0
      BY <1>1, BucketIsFinite, SumOfZeros
    <2>6. KeptOf(dat.count) = 0
      <3>1. 0 \div (SampleMask + 1) = 0
        BY <1>3, Quotients
      <3> QED BY <1>2, <3>1 DEF KeptOf
    <2>7. /\ Cardinality(At(BeforeCount)) = 0 /\ Cardinality(At({"kept"})) = 0
          /\ Cardinality(At({"count"})) = 0
      BY <2>2, <2>3
    <2>8. dat.kept + Cardinality(At({"kept"})) = KeptOf(dat.count)
      BY <1>2, <2>6, <2>7
    <2>9. told + dat.count + Cardinality(At({"count"})) = Sum(buckets)
      BY <1>1, <1>2, <2>5, <2>7
    <2>10. dat.count + Cardinality(At(BeforeCount)) = Sum(period)
      BY <1>2, <2>4, <2>7
    <2>11. dat.total = Sum(Weighted(period)) % Word
      BY <1>2, <2>4, ValuesAre, Remainders
    <2> QED BY <1>1, <1>2, <2>3, <2>4, <2>8, <2>9, <2>10, <2>11 DEF CountsOK
  <1>12. CellsOK
    <2>1. GivenOut(dat) = {}
      BY <1>2, <1>3 DEF GivenOut
    <2>2. \A b \in 1..2, i \in 0..BufLen : bufs[b][i].epoch = 0
      BY <1>1, <1>6
    <2> QED BY <1>1, <1>2, <2>1, <2>2 DEF CellsOK, CellsFilled, CellsDated
  <1>13. TakenOK /\ ReportIsThePeriod /\ SamplesAreOfThePeriod /\ BucketsCoverCounts
    BY <1>5 DEF TakenOK, ReportIsThePeriod, SamplesAreOfThePeriod, BucketsCoverCounts, Reporting
  <1> QED BY <1>7, <1>8, <1>10, <1>11, <1>12, <1>13 DEF HistogramInv

LEMMA StutterHistogram ==
  ASSUME HistogramInv, UNCHANGED vars PROVE HistogramInv'
  <1>1. /\ UNCHANGED <<sampled, readers, buckets, obs, seen>>
        /\ UNCHANGED <<dat, bakbuf, period, epoch, told>>
        /\ poll' = poll /\ readLock' = readLock /\ bufs' = bufs /\ UNCHANGED pollVars
    BY DEF vars, pollVars
  <1>2. /\ TypeOK /\ LocksOK /\ CellsOK /\ TakenOK /\ ReportIsThePeriod /\ SamplesAreOfThePeriod
        /\ BucketsCoverCounts
    BY DEF HistogramInv
  <1>3. TakenOK' /\ ReportIsThePeriod' /\ SamplesAreOfThePeriod' /\ BucketsCoverCounts'
    BY <1>1, <1>2, PollsKept
  <1>4. /\ poll' \in [Pollers -> Polls] /\ readLock' \in Pollers \cup {None}
        /\ \A p \in Pollers : poll'[p].pc # "idle" => readLock' = p
        /\ \A p \in Pollers : poll'[p].pc \in {"sort", "buckets", "print"} => poll'[p].dat.buf = bakbuf
        /\ bufs' \in [1..2 -> [0..BufLen -> Cells]] /\ bufs'[dat.buf] = bufs[dat.buf]
        /\ \A b \in 1..2, i \in 0..BufLen : bufs'[b][i].epoch <= epoch
    BY <1>1, <1>2 DEF TypeOK, LocksOK, Reporting, CellsOK, CellsDated
  <1> QED BY <1>1, <1>3, <1>4, PollerStep

LEMMA NextHistogram ==
  ASSUME HistogramInv, [Next]_vars PROVE HistogramInv'
  <1>1. ASSUME NEW o \in Observers, ObserveHist(o) PROVE HistogramInv'
    <2>1. UNCHANGED pollVars
      BY <1>1 DEF ObserveHist
    <2>2. CASE Observe(o) BY <2>1, <2>2, ObserveStep
    <2>3. CASE LoadMax(o) BY <2>1, <2>3, LoadMaxStep
    <2>4. CASE CasMax(o) BY <2>1, <2>4, CasMaxStep
    <2>5. CASE LoadMin(o) BY <2>1, <2>5, LoadMinStep
    <2>6. CASE CasMin(o) BY <2>1, <2>6, CasMinStep
    <2>7. CASE CountBucket(o) BY <2>1, <2>7, CountBucketStep
    <2>8. CASE Count(o) BY <2>1, <2>8, CountStep
    <2>9. CASE Keep(o) BY <2>1, <2>9, KeepStep
    <2>10. CASE WriteCell(o) BY <2>1, <2>10, WriteCellStep
    <2> QED
      BY <1>1, <2>2, <2>3, <2>4, <2>5, <2>6, <2>7, <2>8, <2>9, <2>10 DEF ObserveHist
  <1>2. ASSUME NEW p \in Pollers, Endpoint(p) PROVE HistogramInv'
    <2>1. UNCHANGED <<sampled, readers, buckets, obs, seen>>
      BY <1>2 DEF Endpoint
    <2>2. CASE Poll(p) BY <2>1, <2>2, PollStep
    <2>3. CASE ExtractHist(p) BY <2>1, <2>3, ExtractHistStep
    <2>4. CASE HdatPercentiles(p) BY <2>1, <2>4, HdatPercentilesStep
    <2>5. CASE ExtractBHist(p) BY <2>1, <2>5, ExtractBHistStep
    <2>6. CASE PrintMetrics(p) BY <2>1, <2>6, PrintMetricsStep
    <2> QED BY <1>2, <2>2, <2>3, <2>4, <2>5, <2>6 DEF Endpoint
  <1>3. CASE UNCHANGED vars
    BY <1>3, StutterHistogram
  <1> QED BY <1>1, <1>2, <1>3 DEF Next

LEMMA HistogramInvariant == Spec => []HistogramInv
  <1>1. Init => HistogramInv
    BY InitHistogram
  <1>2. HistogramInv /\ [Next]_vars => HistogramInv'
    BY NextHistogram
  <1> QED BY <1>1, <1>2, PTL DEF Spec

-----------------------------------------------------------------------------

\* Types; in particular the index of a cell stays within the buffer, whatever
\* the number of observations kept.
THEOREM HistogramTypes == Spec => []TypeOK
  <1>1. HistogramInv => TypeOK
    BY DEF HistogramInv
  <1> QED BY <1>1, HistogramInvariant, PTL

\* What a poll takes (extractHist) is the count, the sum, the minimum and the
\* maximum of the observations of the period, and the number of samples that
\* the sampling asks for: no interleaving of ObserveHist's atomic operations,
\* of any number of goroutines, loses one.
THEOREM PollsReportThePeriod == Spec => []ReportIsThePeriod
  <1>1. HistogramInv => ReportIsThePeriod
    BY DEF HistogramInv
  <1> QED BY <1>1, HistogramInvariant, PTL

\* hdatPercentiles sorts a buffer that no observation writes to.
THEOREM SortsItsOwnBuffer == Spec => []SortedBufferIsPrivate
  <1>1. HistogramInv => SortedBufferIsPrivate
    BY DEF HistogramInv, LocksOK, SortedBufferIsPrivate
  <1> QED BY <1>1, HistogramInvariant, PTL

\* Of the samples the percentiles are read from, all but at most one were
\* observed in the period, and all of them once the buffer has been filled.
THEOREM SamplesAreFresh == Spec => []SamplesAreOfThePeriod
  <1>1. HistogramInv => SamplesAreOfThePeriod
    BY DEF HistogramInv
  <1> QED BY <1>1, HistogramInvariant, PTL

\* The buckets a poll prints hold at least the observations that the polls so
\* far have counted, though no lock covers them.
THEOREM BucketsAreNotBehind == Spec => []BucketsCoverCounts
  <1>1. HistogramInv => BucketsCoverCounts
    BY DEF HistogramInv
  <1> QED BY <1>1, HistogramInvariant, PTL

=============================================================================
