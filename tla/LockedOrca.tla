----------------------------- MODULE LockedOrca -----------------------------
(***************************************************************************)
(* The running proxy: both orchestrators over the same two caches, behind  *)
(* the locking wrapper LockedOrca (orcas/locked.go) and under the          *)
(* connection loop (server/default.go).  A request takes the lock of its   *)
(* key's bucket, runs in its orchestrator and lets go; the two ports share *)
(* one lock set.  With Locked = FALSE the wrapper is absent, as it is      *)
(* unless the -locked flag is given.                                       *)
(***************************************************************************)
EXTENDS L1L2, L1L2Batch

CONSTANTS Buckets,
          Hash,              \* the bucket of each key
          Locked,            \* is the wrapper used?
          MultipleReaders    \* are its locks read-write locks?

ASSUME LockAssumption ==
  /\ Hash \in [Keys -> Buckets]
  /\ Locked \in BOOLEAN
  /\ MultipleReaders \in BOOLEAN

VARIABLES writer,    \* by bucket, who holds the lock or is next to: at most one
          readers    \* by bucket, the connections holding its read side

lockVars == <<writer, readers>>
vars == <<l1, l2, now, pc, req, got, reply, faults, torn, writer, readers>>

TypeOK ==
  /\ OrcaTypeOK
  /\ writer \in [Buckets -> SUBSET Conns]
  /\ readers \in [Buckets -> SUBSET Conns]

Init ==
  /\ OrcaInit
  /\ writer = [b \in Buckets |-> {}]
  /\ readers = [b \in Buckets |-> {}]

(***************************************************************************)
(* Requests, as the parsers deliver them: only the fields a type has.      *)
(***************************************************************************)

Stores   == {"Set", "Add", "Replace"}
Extends  == {"Append", "Prepend"}
Expiring == {"Touch", "Gat"}
Reads    == {"Get", "GetE"}

Requests ==
  [op : Stores, key : Keys, val : {<<d>> : d \in Data}, exptime : Exptimes]
    \cup [op : Extends, key : Keys, val : {<<d>> : d \in Data}, exptime : {0}]
    \cup [op : Expiring, key : Keys, val : {<<>>}, exptime : Exptimes]
    \cup [op : Reads \cup {"Delete"}, key : Keys, val : {<<>>}, exptime : {0}]

\* server.Loop has parsed a request and calls the orchestrator.
Receive(c) ==
  /\ pc[c] = "idle"
  /\ \E r \in Requests :
       /\ r.op \in OpsOf[c]
       /\ req' = [req EXCEPT ![c] = r]
  /\ pc' = [pc EXCEPT ![c] = "lock"]
  /\ UNCHANGED <<l1, l2, now, got, reply, faults, torn, writer, readers>>

(***************************************************************************)
(* The lock.                                                               *)
(***************************************************************************)

Bucket(c) == Hash[req[c].key]

\* Mutant: gat asks getlock for the read side.
ExclusiveButGat(c) == req[c].op \notin Reads \cup {"Gat"} \/ ~MultipleReaders

\* Does the request take its lock for itself?  A single-reader lock set has
\* plain mutexes for both sides.
Exclusive(c) == req[c].op \notin Reads \/ ~MultipleReaders

\* The handler call the orchestrator's method starts with.
FirstCall(c) ==
  CASE req[c].op = "Get"  -> "L1Get"
    [] req[c].op = "GetE" -> "GetE"
    [] req[c].op = "Gat"  -> IF c \in MainConns THEN "L1Gat" ELSE "L2Gat"
    [] OTHER              -> "L2"

\* lock.Lock(), on the write or the read side.  A writer that finds readers
\* keeps new ones out and waits for those inside to leave (sync.RWMutex).
Acquire(c) ==
  LET b == Bucket(c) IN
  /\ pc[c] = "lock"
  /\ IF ~Locked
     THEN pc' = [pc EXCEPT ![c] = FirstCall(c)] /\ UNCHANGED lockVars
     ELSE IF Exclusive(c)
     THEN /\ writer[b] = {}
          /\ writer' = [writer EXCEPT ![b] = {c}]
          /\ pc' = [pc EXCEPT ![c] = IF readers[b] = {} THEN FirstCall(c) ELSE "drain"]
          /\ UNCHANGED readers
     ELSE /\ writer[b] = {}
          /\ readers' = [readers EXCEPT ![b] = @ \cup {c}]
          /\ pc' = [pc EXCEPT ![c] = FirstCall(c)]
          /\ UNCHANGED writer
  /\ UNCHANGED <<l1, l2, now, req, got, reply, faults, torn>>

\* The last reader has left and the writer goes in.
Drain(c) ==
  /\ pc[c] = "drain"
  /\ readers[Bucket(c)] = {}
  /\ pc' = [pc EXCEPT ![c] = FirstCall(c)]
  /\ UNCHANGED <<l1, l2, now, req, got, reply, faults, torn, writer, readers>>

\* Mutant: an error returns before the unlock.
UnlockUnlessError(c) ==
  LET b == Bucket(c) IN
  /\ writer' = [writer EXCEPT ![b] = IF reply[c].err = "nil" THEN @ \ {c} ELSE @]
  /\ readers' = [readers EXCEPT ![b] = @ \ {c}]

\* lock.Unlock(), deferred or explicit: it runs whatever the request returned.
Unlock(c) ==
  LET b == Bucket(c) IN
  /\ writer' = [writer EXCEPT ![b] = @ \ {c}]
  /\ readers' = [readers EXCEPT ![b] = @ \ {c}]

\* The method has returned.  A protocol error is sent to the client and the
\* loop goes on; any other error closes the connection and its handlers.
Finish(c) ==
  /\ pc[c] = "done"
  /\ Unlock(c)
  /\ pc' = [pc EXCEPT ![c] = IF IsAppError(reply[c].err) THEN "idle" ELSE "closed"]
  /\ req' = [req EXCEPT ![c] = None]
  /\ got' = [got EXCEPT ![c] = None]
  /\ reply' = [reply EXCEPT ![c] = None]
  /\ UNCHANGED <<l1, l2, now, faults, torn>>

(***************************************************************************)
(* Connections come and go between requests.                               *)
(***************************************************************************)

Quit(c) ==
  /\ pc[c] = "idle"
  /\ pc' = [pc EXCEPT ![c] = "closed"]
  /\ UNCHANGED <<l1, l2, now, req, got, reply, faults, torn, writer, readers>>

Connect(c) ==
  /\ pc[c] = "closed"
  /\ pc' = [pc EXCEPT ![c] = "idle"]
  /\ UNCHANGED <<l1, l2, now, req, got, reply, faults, torn, writer, readers>>

-----------------------------------------------------------------------------
MainStep(c) == L1L2Step(c) /\ UNCHANGED lockVars
BatchPortStep(c) == BatchStep(c) /\ UNCHANGED lockVars
Evict(k) == EvictL1(k) /\ UNCHANGED lockVars
ClockTick == Tick /\ UNCHANGED lockVars

Next ==
  \/ \E c \in Conns :
       \/ Receive(c) \/ Acquire(c) \/ Drain(c) \/ MainStep(c) \/ BatchPortStep(c)
       \/ Finish(c) \/ Quit(c) \/ Connect(c)
  \/ \E k \in Keys : Evict(k)
  \/ ClockTick

Spec == Init /\ [][Next]_vars

\* A handler call returns, a lock that is free again and again is not held back
\* for ever from one waiter (sync.Mutex hands over to a waiter that starves, a
\* RWMutex lets waiting readers in after each writer), and a loop that has an
\* answer goes on.
Fairness ==
  \A c \in Conns :
    /\ WF_vars(MainStep(c)) /\ WF_vars(BatchPortStep(c)) /\ WF_vars(Finish(c))
    /\ WF_vars(Drain(c)) /\ SF_vars(Acquire(c))

FairSpec == Spec /\ Fairness

=============================================================================
