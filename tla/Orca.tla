-------------------------------- MODULE Orca --------------------------------
(***************************************************************************)
(* What the orchestrators of package orcas share: the two cache levels,    *)
(* the connections with the request each one is serving, and the steps an  *)
(* orchestrator is made of, a call on one of its two handlers and a        *)
(* return.  Every connection is one goroutine (server.Loop) with its own   *)
(* handlers, and between two handler calls any other connection may run.   *)
(*                                                                         *)
(* A request names one key.  A get of several keys is served key by key:   *)
(* the locking wrapper splits it into one request per key, and without the *)
(* wrapper the steps below are what happens to each of its keys.           *)
(***************************************************************************)
EXTENDS StdHandler

CONSTANTS Keys,
          MainConns,    \* connections to the L1L2 orchestrator's port
          BatchConns,   \* connections to the L1L2Batch orchestrator's port
          OpsOf,        \* the operations each connection's client sends
          Exptimes,     \* the expiry times clients send
          StartTime,    \* the clock at the start ...
          MaxNow,       \* ... and at the end of the behaviours explored
          MaxFaults     \* bound on the handler calls that fail

Conns == MainConns \cup BatchConns

Ops == {"Set", "Add", "Replace", "Append", "Prepend", "Delete", "Touch",
        "Get", "GetE", "Gat"}

ASSUME ConnsAssumption == MainConns \cap BatchConns = {}

ASSUME OpsAssumption == OpsOf \in [Conns -> SUBSET Ops]

\* Clock readings are Unix times, far above the relative range.
ASSUME TimeAssumption ==
  /\ Exptimes \subseteq Nat
  /\ StartTime \in Nat /\ StartTime > RealTimeMaxDelta
  /\ MaxNow \in Nat /\ MaxFaults \in Nat

VARIABLES l1,      \* what the L1 server holds, by key
          l2,      \* what the L2 server holds, by key
          now,     \* the clock of both servers
          pc,      \* where each connection's goroutine is
          req,     \* the request it is serving
          got,     \* the item a read in progress has in hand
          reply,   \* what it answers
          faults,  \* handler calls that have failed so far
          torn     \* history: the keys a failed request left in doubt

orcaVars == <<l1, l2, now, pc, req, got, reply, faults, torn>>

(***************************************************************************)
(* Types.                                                                  *)
(***************************************************************************)

\* Failures of the transport or the server, on any call.  IOError stands for
\* every error that is not one of common's protocol errors.
FaultErrors == {"Busy", "IOError"}

Errors == {"nil", "UnknownCmd"} \cup CommandErrors \cup FaultErrors

Request == [op : Ops, key : Keys, val : Value, exptime : Nat]

Reply == [err : Errors, val : Value \cup {None}]

\* Labels are the call a goroutine makes next.
Labels == {"closed", "idle", "lock", "drain", "L2", "L1", "L1Get", "L2Get",
           "Fill", "L1Gat", "L2Gat", "L1Add", "L2Touch", "L1Touch", "GetE", "done"}

OrcaTypeOK ==
  /\ l1 \in [Keys -> Item]
  /\ l2 \in [Keys -> Item]
  /\ now \in Nat
  /\ pc \in [Conns -> Labels]
  /\ req \in [Conns -> Request \cup {None}]
  /\ got \in [Conns -> Item]
  /\ reply \in [Conns -> Reply \cup {None}]
  /\ faults \in Nat
  /\ torn \subseteq Keys

OrcaInit ==
  /\ l1 = [k \in Keys |-> None]
  /\ l2 = [k \in Keys |-> None]
  /\ now = StartTime
  /\ pc = [c \in Conns |-> "idle"]
  /\ req = [c \in Conns |-> None]
  /\ got = [c \in Conns |-> None]
  /\ reply = [c \in Conns |-> None]
  /\ faults = 0
  /\ torn = {}

IsAppError(err) == err # "IOError"

(***************************************************************************)
(* Returning, and calling a handler.                                       *)
(***************************************************************************)

Goto(c, label) ==
  /\ pc' = [pc EXCEPT ![c] = label]
  /\ UNCHANGED reply

Return(c, err, val) ==
  /\ pc' = [pc EXCEPT ![c] = "done"]
  /\ reply' = [reply EXCEPT ![c] = [err |-> err, val |-> val]]

SetL1(c, item) ==
  /\ l1' = [l1 EXCEPT ![req[c].key] = item]
  /\ UNCHANGED <<l2, faults>>

SetL2(c, item) ==
  /\ l2' = [l2 EXCEPT ![req[c].key] = item]
  /\ UNCHANGED <<l1, faults>>

\* A failed call: the server may or may not have applied the command, and
\* every orchestrator returns the error it gets.  A failed request other than
\* a read leaves its key in doubt.
Fails(c, items1, items2) ==
  /\ faults < MaxFaults
  /\ faults' = faults + 1
  /\ \E item \in items1 : l1' = [l1 EXCEPT ![req[c].key] = item]
  /\ \E item \in items2 : l2' = [l2 EXCEPT ![req[c].key] = item]
  /\ \E err \in FaultErrors : Return(c, err, None)
  /\ torn' = IF req[c].op = "Get" THEN torn ELSE torn \cup {req[c].key}
  /\ UNCHANGED got

L1Fails(c, item) == Fails(c, {l1[req[c].key], item}, {l2[req[c].key]})

L2Fails(c, item) == Fails(c, {l1[req[c].key]}, {l2[req[c].key], item})

\* Writes that leave the same entry at both levels when they are acknowledged,
\* whatever was there before.
Overwrites == {"Set", "Add", "Replace", "Delete"}

\* The return from the second level: a refusal there, unlike one from the
\* first level, comes after the request has changed the first level.
ReturnSecond(c, err, val) ==
  /\ Return(c, err, val)
  /\ torn' = IF err # "nil" THEN torn \cup {req[c].key}
             ELSE IF req[c].op \in Overwrites THEN torn \ {req[c].key}
             ELSE torn

\* Every write: L2 first, and on success L1, where the errors in benign are
\* disregarded.
L2ThenL1(c, at2, at1, benign) ==
  /\ \/ /\ pc[c] = "L2"
        /\ \/ L2Fails(c, at2.item)
           \/ /\ SetL2(c, at2.item)
              /\ IF at2.err = "nil" THEN Goto(c, "L1")
                                    ELSE Return(c, at2.err, None)
              /\ UNCHANGED <<got, torn>>
     \/ /\ pc[c] = "L1"
        /\ \/ L1Fails(c, at1.item)
           \/ /\ SetL1(c, at1.item)
              /\ ReturnSecond(c, IF at1.err \in benign THEN "nil" ELSE at1.err,
                              None)
              /\ UNCHANGED got
  /\ UNCHANGED <<now, req>>

\* Get's first half, the same in both orchestrators: a hit in L1 is the
\* answer, a miss goes on to L2.
GetFromL1(c) ==
  LET item == l1[req[c].key] IN
  /\ pc[c] = "L1Get"
  /\ \/ L1Fails(c, item)
     \/ /\ IF item # None THEN Return(c, "nil", item.val) ELSE Goto(c, "L2Get")
        /\ UNCHANGED <<l1, l2, got, faults, torn>>
  /\ UNCHANGED <<now, req>>

\* GetE is served by neither orchestrator.
GetE(c) ==
  /\ pc[c] = "GetE"
  /\ Return(c, "UnknownCmd", None)
  /\ UNCHANGED <<l1, l2, now, req, got, faults, torn>>

(***************************************************************************)
(* The servers on their own.                                               *)
(***************************************************************************)

\* L1 drops an item to make room.  L2 holds everything.
EvictL1(k) ==
  /\ l1[k] # None
  /\ l1' = [l1 EXCEPT ![k] = None]
  /\ UNCHANGED <<l2, now, pc, req, got, reply, faults, torn>>

\* A second passes and what has reached its deadline is gone.
Tick ==
  /\ now < MaxNow
  /\ now' = now + 1
  /\ l1' = [k \in Keys |-> Live(l1[k], now + 1)]
  /\ l2' = [k \in Keys |-> Live(l2[k], now + 1)]
  /\ UNCHANGED <<pc, req, got, reply, faults, torn>>

=============================================================================
