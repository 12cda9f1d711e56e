-------------------------------- MODULE InMem --------------------------------
(***************************************************************************)
(* The in-memory handler of package handlers/inmem: one map for the whole  *)
(* process, behind one sync.RWMutex.  Writes, Touch and GAT run under the  *)
(* write lock.  Get and GetE run under the read lock for all their keys,   *)
(* and delete what they find expired, or do not find, from the map.        *)
(*                                                                         *)
(* A call is made by a connection's goroutine: at says where it is in the  *)
(* method, call what it was called with, got what it will return.          *)
(***************************************************************************)
EXTENDS Naturals, Sequences

CONSTANTS Conns,   \* the connections
          Keys,    \* the keys
          Data,    \* payloads
          None     \* no entry, no call

VARIABLES data,    \* Handler.data
          now,     \* time.Now().Unix()
          at,      \* where each goroutine is in a method of the handler
          call,    \* what it was called with
          got,     \* its responses so far
          fatal,   \* the runtime has ended the process
          clash    \* history: the methods that were in the map when it did

inmemVars == <<data, now, at, call, got, fatal, clash>>

ReadMethods == {"Get", "GetE"}

Methods == ReadMethods \cup {"Set", "Add", "Replace", "Append", "Prepend",
                             "Delete", "Touch", "Gat"}

\* "want" and "rwant" wait for the lock, "write" and "look" are in the map with
\* it, "del" is in delete() with the read lock, "ret" is about to return.
Places == {"out", "want", "write", "rwant", "look", "del", "rdone", "ret"}

Entry == [val : Seq(Data), exp : Nat]

ASSUME NoneAssumption == None \notin Entry

\* got: the error of a method that returns one, the responses of a get.
Response == [key : Keys, item : Entry \cup {None}, err : {"nil", "KeyNotFound",
                                                          "KeyExists"}]

InMemTypeOK ==
  /\ data \in [Keys -> Entry \cup {None}]
  /\ now \in Nat
  /\ at \in [Conns -> Places]
  /\ got \in [Conns -> Seq(Response)]
  /\ fatal \in BOOLEAN
  /\ clash \subseteq Methods

InMemInit ==
  /\ data = [k \in Keys |-> None]
  /\ now = 1
  /\ at = [c \in Conns |-> "out"]
  /\ call = [c \in Conns |-> None]
  /\ got = [c \in Conns |-> <<>>]
  /\ fatal = FALSE
  /\ clash = {}

(***************************************************************************)
(* What the methods do to the entry of their key.                          *)
(***************************************************************************)

isExpired(e) == e.exp # 0 /\ e.exp < now

Absent(item) == item = None \/ isExpired(item)

\* Every expiry time counts from now, however large.
Exptime(exptime) == IF exptime > 0 THEN now + exptime ELSE 0

Result(item, err) == [item |-> item, err |-> err]

Stored(r) == Result([val |-> r.val, exp |-> Exptime(r.exptime)], "nil")

NotFound == Result(None, "KeyNotFound")

\* Mutant: add is refused with the error of append.
AddNotStored(item, r) ==
  IF item # None THEN Result(None, "ItemNotStored") ELSE Stored(r)

\* An entry that is in the way is deleted, and the call refused.
Add(item, r) == IF item # None THEN Result(None, "KeyExists") ELSE Stored(r)

Replace(item, r) == IF Absent(item) THEN NotFound ELSE Stored(r)

AppendTo(item, r) ==
  IF Absent(item) THEN NotFound
  ELSE Result([item EXCEPT !.val = @ \o r.val], "nil")

PrependTo(item, r) ==
  IF Absent(item) THEN NotFound
  ELSE Result([item EXCEPT !.val = r.val \o @], "nil")

Touch(item, r) ==
  IF Absent(item) THEN NotFound
  ELSE Result([item EXCEPT !.exp = Exptime(r.exptime)], "nil")

\* GAT answers a miss as a response, so its error is always nil.
Written(item, r) ==
  CASE r.op = "Set"     -> Stored(r)
    [] r.op = "Add"     -> Add(item, r)
    [] r.op = "Replace" -> Replace(item, r)
    [] r.op = "Append"  -> AppendTo(item, r)
    [] r.op = "Prepend" -> PrependTo(item, r)
    [] r.op = "Delete"  -> Result(None, "nil")
    [] r.op = "Touch"   -> Touch(item, r)
    [] r.op = "Gat"     -> Result(Touch(item, r).item, "nil")

(***************************************************************************)
(* Calls.                                                                  *)
(***************************************************************************)

MoveTo(c, place) == at' = [at EXCEPT ![c] = place]

Respond(c, key, item, err) ==
  got' = [got EXCEPT ![c] = Append(@, [key |-> key, item |-> item, err |-> err])]

\* The caller enters a method.
Enter(c, r) ==
  /\ call' = [call EXCEPT ![c] = r]
  /\ got' = [got EXCEPT ![c] = <<>>]
  /\ MoveTo(c, IF r.op \in ReadMethods THEN "rwant" ELSE "want")

Writing == {c \in Conns : at[c] = "write"}

Reading == {c \in Conns : at[c] \in {"look", "del", "rdone"}}

\* Mutant: the lock keeps only writers from each other.
LockWritersOnly(c) ==
  /\ at[c] = "want" /\ Writing = {}
  /\ MoveTo(c, "write")
  /\ UNCHANGED <<data, now, call, got, fatal, clash>>

\* mutex.Lock().
Lock(c) ==
  /\ at[c] = "want" /\ Writing = {} /\ Reading = {}
  /\ MoveTo(c, "write")
  /\ UNCHANGED <<data, now, call, got, fatal, clash>>

\* Mutant: a method that fails does not give the lock back.
UnlockOnSuccess(c) ==
  LET r == call[c]
      key == r.keys[1]
      w == Written(data[key], r)
  IN
  /\ at[c] = "write" /\ w.err = "nil"
  /\ data' = [data EXCEPT ![key] = w.item]
  /\ Respond(c, key, w.item, w.err)
  /\ MoveTo(c, "ret")
  /\ UNCHANGED <<now, call, fatal, clash>>

\* The body of a method with the write lock, and mutex.Unlock().
Unlock(c) ==
  LET r == call[c]
      key == r.keys[1]
      w == Written(data[key], r)
  IN
  /\ at[c] = "write"
  /\ data' = [data EXCEPT ![key] = w.item]
  /\ Respond(c, key, w.item, w.err)
  /\ MoveTo(c, "ret")
  /\ UNCHANGED <<now, call, fatal, clash>>

\* mutex.RLock(): a writer that waits keeps new readers out.
RLock(c) ==
  /\ at[c] = "rwant" /\ Writing = {}
  /\ \A d \in Conns : at[d] # "want"
  /\ MoveTo(c, "look")
  /\ UNCHANGED <<data, now, call, got, fatal, clash>>

NextKey(c) == call[c].keys[Len(got[c]) + 1]

\* Mutant: the read lock is taken for each key anew.
AfterKeyRelock(c) ==
  IF Len(got'[c]) < Len(call[c].keys) THEN "rwant" ELSE "rdone"

\* After a response: the next key, or the end of the loop.
AfterKey(c) == IF Len(got'[c]) < Len(call[c].keys) THEN "look" ELSE "rdone"

\* The lookup of one key.
Look(c) ==
  LET item == data[NextKey(c)] IN
  /\ at[c] = "look"
  /\ IF Absent(item)
     THEN MoveTo(c, "del") /\ UNCHANGED got
     ELSE Respond(c, NextKey(c), item, "nil") /\ MoveTo(c, AfterKey(c))
  /\ UNCHANGED <<data, now, call, fatal, clash>>

\* The delete() of a get, with the read lock only.
DeleteAbsent(c) ==
  /\ at[c] = "del"
  /\ data' = [data EXCEPT ![NextKey(c)] = None]
  /\ Respond(c, NextKey(c), None, "nil")
  /\ MoveTo(c, AfterKey(c))
  /\ UNCHANGED <<now, call, fatal, clash>>

RUnlock(c) ==
  /\ at[c] = "rdone"
  /\ MoveTo(c, "ret")
  /\ UNCHANGED <<data, now, call, got, fatal, clash>>

\* The Go runtime may notice that a map is accessed while it is changed, and
\* then ends the process; if it does not, the accesses happen in some order.
Throw(c) ==
  /\ at[c] \in {"look", "del", "write"}
  /\ \E d \in Conns \ {c} :
       /\ at[d] \in {"del", "write"}
       /\ clash' = {call[c].op, call[d].op}
  /\ fatal' = TRUE
  /\ UNCHANGED <<data, now, at, call, got>>

\* A second passes.
Tick ==
  /\ now' = now + 1
  /\ UNCHANGED <<data, at, call, got, fatal, clash>>

InMemStep(c) ==
  \/ Lock(c) \/ Unlock(c)
  \/ RLock(c) \/ Look(c) \/ DeleteAbsent(c) \/ RUnlock(c)
  \/ Throw(c)

=============================================================================
