----------------------------- MODULE StdHandler -----------------------------
(***************************************************************************)
(* The handler of package handlers/memcached/std: one method per command,  *)
(* each a round trip to one memcached-protocol server.  A command is an    *)
(* operator from the entry the server holds for the key (or None) to the   *)
(* entry it holds afterwards and the error the method returns.  The server *)
(* is external; its answers are the ones the handlers and the              *)
(* orchestrators tell apart.                                               *)
(*                                                                         *)
(* A value is a sequence of data items, so that what append and prepend do *)
(* to it is visible.  Expiry is an absolute deadline, 0 meaning never.     *)
(***************************************************************************)
EXTENDS Naturals, Sequences

CONSTANTS Data,              \* what a request's payload can be
          None,              \* no entry under the key
          MaxLen,            \* the server's item size limit, in data items
          RealTimeMaxDelta   \* expiry times up to this one are relative

Value == {s \in Seq(Data) : Len(s) <= MaxLen}

Entry == [val : Value, exp : Nat]

ASSUME NoneAssumption == None \notin Entry

ASSUME BoundsAssumption == MaxLen \in Nat \ {0} /\ RealTimeMaxDelta \in Nat

Item == Entry \cup {None}

\* Errors a command returns as part of its meaning.
CommandErrors ==
  {"KeyNotFound", "KeyExists", "ItemNotStored", "ValueTooBig"}

Result(item, err) == [item |-> item, err |-> err]

(***************************************************************************)
(* Time.                                                                   *)
(***************************************************************************)

\* The deadline the server records for a request's exptime.
Deadline(exptime, now) ==
  IF exptime = 0 \/ exptime > RealTimeMaxDelta THEN exptime ELSE now + exptime

\* The server's view of an item at a time: gone once the deadline is reached.
Live(item, now) ==
  IF item # None /\ item.exp # 0 /\ item.exp <= now THEN None ELSE item

\* Storing under a deadline that has passed leaves nothing to find.
Store(val, exp, now) == Live([val |-> val, exp |-> exp], now)

(***************************************************************************)
(* The commands.                                                           *)
(***************************************************************************)

Set(item, val, exptime, now) ==
  Result(Store(val, Deadline(exptime, now), now), "nil")

Add(item, val, exptime, now) ==
  IF item # None THEN Result(item, "KeyExists")
                 ELSE Set(item, val, exptime, now)

Replace(item, val, exptime, now) ==
  IF item = None THEN Result(item, "KeyNotFound")
                 ELSE Set(item, val, exptime, now)

\* Mutant: no size limit.
ExtendUnlimited(item, val) == Result([item EXCEPT !.val = val], "nil")

\* Append and Prepend share what they may fail of; neither moves the deadline.
Extend(item, val) ==
  IF Len(val) > MaxLen THEN Result(item, "ValueTooBig")
                       ELSE Result([item EXCEPT !.val = val], "nil")

AppendCmd(item, data) ==
  IF item = None THEN Result(item, "ItemNotStored")
                 ELSE Extend(item, item.val \o data)

PrependCmd(item, data) ==
  IF item = None THEN Result(item, "ItemNotStored")
                 ELSE Extend(item, data \o item.val)

Delete(item) ==
  IF item = None THEN Result(item, "KeyNotFound") ELSE Result(None, "nil")

Touch(item, exptime, now) ==
  IF item = None THEN Result(item, "KeyNotFound")
                 ELSE Result(Store(item.val, Deadline(exptime, now), now), "nil")

\* GAT answers a miss as a miss and not as an error, so err is always nil;
\* what it hit is the item it was given.
GAT(item, exptime, now) ==
  IF item = None THEN Result(item, "nil") ELSE Touch(item, exptime, now)

\* The command of memcached's own that the request is.
Effect(item, r, t) ==
  CASE r.op = "Set"     -> Set(item, r.val, r.exptime, t)
    [] r.op = "Add"     -> Add(item, r.val, r.exptime, t)
    [] r.op = "Replace" -> Replace(item, r.val, r.exptime, t)
    [] r.op = "Append"  -> AppendCmd(item, r.val)
    [] r.op = "Prepend" -> PrependCmd(item, r.val)
    [] r.op = "Delete"  -> Delete(item)
    [] r.op = "Touch"   -> Touch(item, r.exptime, t)
    [] r.op = "Gat"     -> GAT(item, r.exptime, t)
    [] r.op = "Get"     -> Result(item, "nil")
    [] OTHER            -> Result(item, "UnknownCmd")

Found(item, r) ==
  IF r.op \in {"Get", "Gat"} /\ item # None THEN item.val ELSE None

=============================================================================
