----------------------------- MODULE Coherence -----------------------------
(***************************************************************************)
(* What the two cache levels owe each other, and what the comments in      *)
(* orcas/ say of them.                                                     *)
(***************************************************************************)
EXTENDS LockedOrca

Inside(c) == pc[c] \notin {"closed", "idle", "lock", "drain"}

\* A request that has changed one level and not yet the other.
Midway(c) == pc[c] \in {"L1", "L1Add", "L2Touch", "L1Touch"}

Settled(k) == \A c \in Conns : Midway(c) => req[c].key # k

Quiet(k) == \A c \in Conns : Inside(c) => req[c].key # k

\* L1 may miss what L2 has, and may hold nothing else.
Agree(k) == l1[k] \in {None, l2[k]}

\* Two requests in orchestrators at the same time on keys of one bucket are
\* both reads, and only if the lock set allows several readers
\* (locked.go: Lock/Unlock around every wrapped call).
LockExclusion ==
  \A c, d \in Conns :
    (c # d /\ Inside(c) /\ Inside(d) /\ Bucket(c) = Bucket(d))
      => /\ MultipleReaders
         /\ req[c].op \in Reads /\ req[d].op \in Reads

\* Under the locks, between requests, L1 holds exactly what L2 holds or
\* nothing: same value, same deadline.  Exempt are keys whose last request
\* failed between the levels, until a set, add, replace or delete of the key
\* is acknowledged (the retry l1l2.go counts on: "Clients will retry failed
\* writes").
Coherent ==
  \A k \in Keys : (k \notin torn /\ Settled(k)) => Agree(k)

\* Under the locks a request comes to grief between the levels only because a
\* handler call failed or an item expired in between: no add is refused by L1
\* after L2 took it, no touch in a gat misses L2 after L1 hit, no append fits
\* into L2 and not into L1.
OnlyFailuresTear ==
  (faults = 0 /\ now = StartTime) => torn = {}

\* Every request is answered, or its connection closed, in the end: no lock is
\* kept by a request that is over and none is waited for in a circle.
EveryRequestEnds ==
  \A c \in Conns : pc[c] = "lock" ~> pc[c] \in {"idle", "closed"}

-----------------------------------------------------------------------------
(***************************************************************************)
(* A statement of the source that the code does not keep.                  *)
(***************************************************************************)

\* l1l2batch.go, Touch: "If I don't touch or delete in L1 then data in L1
\* might live longer", and Gat: "Try touching in L1 to touch hot data. See
\* touch impl for reasoning."  So between requests no L1 entry outlives its L2
\* entry.
L1NeverOutlivesL2 ==
  \A k \in Keys : (Quiet(k) /\ l1[k] # None /\ l2[k] # None)
    => \/ l2[k].exp = 0
       \/ l1[k].exp # 0 /\ l1[k].exp <= l2[k].exp

=============================================================================
