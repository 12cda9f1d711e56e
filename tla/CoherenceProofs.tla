--------------------------- MODULE CoherenceProofs ---------------------------
(***************************************************************************)
(* The two levels agree: under the locks L1 holds what L2 holds or nothing *)
(* and only failed calls or an expiry in mid-request tear them apart.      *)
(*                                                                         *)
(* Two hypotheses, each needed: deadlines are absolute times or absent (a  *)
(* relative expiry time is counted by each server from its own reading of  *)
(* the clock), and a gat on the batch port asks for no deadline, since it  *)
(* leaves L1 without one whatever it asks for (run batch_gat).             *)
(***************************************************************************)
EXTENDS OrcaProofs

FixedDeadline(exptime) == exptime = 0 \/ exptime > RealTimeMaxDelta

FixedDeadlines == \A e \in Exptimes : FixedDeadline(e)

BatchGatsForGood == \A c \in BatchConns : "Gat" \in OpsOf[c] => Exptimes \subseteq {0}

(***************************************************************************)
(* The inductive invariant.                                                *)
(***************************************************************************)

Fresh(item, t) == Live(item, t) = item

Absolute(item) == item # None => FixedDeadline(item.exp)

\* A write that has been taken by L2 and not yet by L1: how L1's entry i1 and
\* L2's entry i2 are related.  Of a doubted key's L1 entry nothing is known.
Halfway(c, r, i1, i2, t, doubted) ==
  /\ r.op \in Stores => i2 = Store(r.val, r.exptime, t)
  /\ (r.op = "Add" /\ c \in MainConns) => r.key \in doubted \/ i1 = None
  /\ r.op = "Append" => \/ r.key \in doubted \/ i1 = None
                         \/ AppendCmd(i1, r.val) = Result(i2, "nil")
  /\ r.op = "Prepend" => \/ r.key \in doubted \/ i1 = None
                          \/ PrependCmd(i1, r.val) = Result(i2, "nil")
  /\ r.op = "Delete" => i2 = None
  /\ r.op = "Touch" => r.key \in doubted \/ i1 = None \/ i2 = Store(i1.val, r.exptime, t)

\* What a connection about to make the call label relies on.
Known(c, label, r, item, i1, i2, t, doubted) ==
  /\ label = "L1" => Halfway(c, r, i1, i2, t, doubted)
  /\ label = "L2Touch" =>
       /\ r.key \in doubted \/ i2 # None \/ t > StartTime
       /\ \/ r.key \in doubted \/ i1 = None
          \/ i1.exp = r.exptime /\ (i2 = None \/ i2.val = i1.val)
       /\ r.key \in doubted \/ i2 = None \/ i2.val = item.val
  /\ (label = "L2Gat" /\ c \in MainConns) => r.key \in doubted \/ i1 = None
  /\ label = "L1Touch" => r.key \in doubted \/ i1 = None \/ i2 = Store(i1.val, 0, t)
  /\ label = "L1Add" => /\ r.key \in doubted \/ i1 = None
                        /\ i2 = Store(item.val, r.exptime, t)
  /\ label = "Fill" => i2 = Live(item, t) /\ Absolute(item)

Reading == {"L1Get", "L2Get", "Fill", "GetE", "done"}

\* A request is one its client sends, and a read makes a read's calls.
Sent(c) ==
  /\ pc[c] \notin {"closed", "idle"} =>
       /\ req[c].op \in OpsOf[c]
       /\ FixedDeadline(req[c].exptime)
       /\ (req[c].op = "Gat" /\ c \in BatchConns) => req[c].exptime = 0
  /\ (Inside(c) /\ req[c].op \in Reads) => pc[c] \in Reading

KnownOf(c) ==
  LET k == req[c].key IN
  Inside(c) => Known(c, pc[c], req[c], got[c], l1[k], l2[k], now, torn)

ServersOK(k) == Fresh(l1[k], now) /\ Fresh(l2[k], now) /\ Absolute(l2[k])

CoherenceInv ==
  /\ now >= StartTime
  /\ \A k \in Keys : ServersOK(k)
  /\ \A c \in Conns : Sent(c) /\ KnownOf(c)
  /\ Coherent
  /\ OnlyFailuresTear

-----------------------------------------------------------------------------
(***************************************************************************)
(* Facts about entries and the clock.                                      *)
(***************************************************************************)

\* A fixed deadline is recorded as it was sent.
LEMMA FixedDeadlineKept ==
  ASSUME NEW exptime \in Nat, NEW t \in Nat, FixedDeadline(exptime)
  PROVE  Deadline(exptime, t) = exptime
  BY DEF Deadline, FixedDeadline

\* A stored entry is alive, and keeps its deadline.
LEMMA StoreFresh ==
  ASSUME NEW val \in Value, NEW exp \in Nat, NEW t \in Nat
  PROVE  /\ Fresh(Store(val, exp, t), t)
         /\ FixedDeadline(exp) => Absolute(Store(val, exp, t))
  <1>1. [val |-> val, exp |-> exp] \in Entry /\ [val |-> val, exp |-> exp] # None
    BY NoneAssumption DEF Entry
  <1> QED BY <1>1 DEF Fresh, Absolute, Store, Live

\* A second later: what was alive is alive or gone.
LEMMA ASecondLater ==
  ASSUME NEW t \in Nat
  PROVE  /\ \A item \in Item : /\ Live(Live(item, t), t + 1) = Live(item, t + 1)
                               /\ Fresh(Live(item, t + 1), t + 1)
                               /\ Live(item, t + 1) \in {None, item}
                               /\ Absolute(item) => Absolute(Live(item, t + 1))
         /\ \A val \in Value, exp \in Nat :
              Live(Store(val, exp, t), t + 1) = Store(val, exp, t + 1)
  <1>1. \A item \in Item : /\ Live(Live(item, t), t + 1) = Live(item, t + 1)
                           /\ Fresh(Live(item, t + 1), t + 1)
                           /\ Live(item, t + 1) \in {None, item}
                           /\ Absolute(item) => Absolute(Live(item, t + 1))
    BY DEF Live, Item, Entry, Fresh, Absolute
  <1>2. \A val \in Value, exp \in Nat : [val |-> val, exp |-> exp] \in Item
    BY DEF Item, Entry
  <1> QED BY <1>1, <1>2 DEF Store

-----------------------------------------------------------------------------
(***************************************************************************)
(* The writes of both ports, in one form: a command for L2 and one for L1. *)
(***************************************************************************)

Writes == Stores \cup Extends \cup {"Delete", "Touch"}

AtL2(r, i2, t) ==
  CASE r.op = "Set"     -> Set(i2, r.val, r.exptime, t)
    [] r.op = "Add"     -> Add(i2, r.val, r.exptime, t)
    [] r.op = "Replace" -> Replace(i2, r.val, r.exptime, t)
    [] r.op = "Append"  -> AppendCmd(i2, r.val)
    [] r.op = "Prepend" -> PrependCmd(i2, r.val)
    [] r.op = "Delete"  -> Delete(i2)
    [] OTHER            -> Touch(i2, r.exptime, t)

AtL1(c, r, i1, t) ==
  CASE r.op = "Set" /\ c \in MainConns -> Set(i1, r.val, r.exptime, t)
    [] r.op = "Add" /\ c \in MainConns -> Add(i1, r.val, r.exptime, t)
    [] r.op = "Append"                 -> AppendCmd(i1, r.val)
    [] r.op = "Prepend"                -> PrependCmd(i1, r.val)
    [] r.op = "Delete"                 -> Delete(i1)
    [] r.op = "Touch"                  -> Touch(i1, r.exptime, t)
    [] OTHER                           -> Replace(i1, r.val, r.exptime, t)

Benign(c, r) ==
  IF r.op \in {"Set", "Add"} /\ c \in MainConns THEN {}
  ELSE IF r.op \in Extends THEN {"ItemNotStored", "KeyNotFound"}
  ELSE {"KeyNotFound"}

WriteStep(c) ==
  \/ L1L2Set(c) \/ L1L2Add(c) \/ L1L2Replace(c) \/ L1L2Append(c)
  \/ L1L2Prepend(c) \/ L1L2Delete(c) \/ L1L2Touch(c)
  \/ BatchSet(c) \/ BatchAdd(c) \/ BatchReplace(c) \/ BatchAppend(c)
  \/ BatchPrepend(c) \/ BatchDelete(c) \/ BatchTouch(c)

LEMMA WriteForm ==
  ASSUME NEW c \in Conns, WriteStep(c)
  PROVE  LET r == req[c] IN
         /\ r.op \in Writes
         /\ L2ThenL1(c, AtL2(r, l2[r.key], now), AtL1(c, r, l1[r.key], now), Benign(c, r))
  <1> DEFINE r == req[c]
  <1>1. c \in BatchConns => c \notin MainConns
    BY ConnsAssumption
  <1> USE DEF Serving, BatchServing, AtL2, AtL1, Benign, Writes, Stores, Extends
  <1>2. CASE L1L2Set(c)       BY <1>2 DEF L1L2Set
  <1>3. CASE L1L2Add(c)       BY <1>3 DEF L1L2Add
  <1>4. CASE L1L2Replace(c)   BY <1>4 DEF L1L2Replace
  <1>5. CASE L1L2Append(c)    BY <1>5 DEF L1L2Append
  <1>6. CASE L1L2Prepend(c)   BY <1>6 DEF L1L2Prepend
  <1>7. CASE L1L2Delete(c)    BY <1>7 DEF L1L2Delete
  <1>8. CASE L1L2Touch(c)     BY <1>8 DEF L1L2Touch
  <1>9. CASE BatchSet(c)      BY <1>1, <1>9 DEF BatchSet
  <1>10. CASE BatchAdd(c)     BY <1>1, <1>10 DEF BatchAdd
  <1>11. CASE BatchReplace(c) BY <1>1, <1>11 DEF BatchReplace
  <1>12. CASE BatchAppend(c)  BY <1>1, <1>12 DEF BatchAppend
  <1>13. CASE BatchPrepend(c) BY <1>1, <1>13 DEF BatchPrepend
  <1>14. CASE BatchDelete(c)  BY <1>1, <1>14 DEF BatchDelete
  <1>15. CASE BatchTouch(c)   BY <1>1, <1>15 DEF BatchTouch
  <1> QED BY <1>2, <1>3, <1>4, <1>5, <1>6, <1>7, <1>8, <1>9, <1>10, <1>11, <1>12,
             <1>13, <1>14, <1>15 DEF WriteStep

\* What append and prepend do to an entry.
LEMMA ExtendsKeepDeadline ==
  ASSUME NEW item \in Item, NEW data \in Value
  PROVE  \A ext \in {AppendCmd(item, data), PrependCmd(item, data)} :
           /\ ext.err # "nil" => ext.item = item
           /\ ext.err = "nil" => item # None /\ ext.item # None /\ ext.item.exp = item.exp
           /\ item = None => ext = Result(None, "ItemNotStored")
           /\ ext = Result(ext.item, ext.err)
  <1>1. ASSUME NEW val \in Seq(Data), item # None
        PROVE  LET ext == Extend(item, val) IN
               /\ ext.err # "nil" => ext.item = item
               /\ ext.err = "nil" => ext.item # None /\ ext.item.exp = item.exp
               /\ ext = Result(ext.item, ext.err)
    <2>1. item \in Entry
      BY <1>1 DEF Item
    <2>2. CASE Len(val) > MaxLen
      BY <2>2 DEF Extend, Result
    <2>3. CASE ~(Len(val) > MaxLen)
      <3>1. val \in Value
        BY <2>3, BoundsAssumption DEF Value
      <3>2. /\ [item EXCEPT !.val = val] \in Entry
            /\ [item EXCEPT !.val = val].exp = item.exp
        BY <2>1, <3>1 DEF Entry
      <3> QED BY <2>3, <3>2, NoneAssumption DEF Extend, Result
    <2> QED BY <2>2, <2>3
  <1>2. CASE item = None
    BY <1>2 DEF AppendCmd, PrependCmd, Result
  <1>3. CASE item # None
    <2>1. item.val \o data \in Seq(Data) /\ data \o item.val \in Seq(Data)
      BY <1>3 DEF Item, Entry, Value
    <2> QED BY <1>1, <1>3, <2>1 DEF AppendCmd, PrependCmd
  <1> QED BY <1>2, <1>3

\* The first half of a write: what L2 answers, and what that leaves for L1.
LEMMA FirstHalf ==
  ASSUME NEW c \in Conns, NEW r \in Request, r.op \in Writes, FixedDeadline(r.exptime),
         NEW i1 \in Item, NEW i2 \in Item, NEW t \in Nat, NEW doubted,
         r.key \in doubted \/ i1 = None \/ i1 = i2, Fresh(i2, t), Absolute(i2)
  PROVE  LET at2 == AtL2(r, i2, t) IN
         /\ at2 \in CommandResult
         /\ Fresh(at2.item, t) /\ Absolute(at2.item)
         /\ at2.err # "nil" => at2.item = i2
         /\ at2.err = "nil" => Halfway(c, r, i1, at2.item, t, doubted)
  <1> DEFINE at2 == AtL2(r, i2, t)
             stored == Store(r.val, r.exptime, t)
  <1>1. r.val \in Value /\ r.exptime \in Nat
    BY DEF Request
  <1>2. Deadline(r.exptime, t) = r.exptime
    BY <1>1, FixedDeadlineKept
  <1>3. stored \in Item /\ Fresh(stored, t) /\ Absolute(stored)
    BY <1>1, StoreType, StoreFresh
  <1>4. CASE r.op \in Stores
    <2>1. at2 \in {Result(stored, "nil"), Result(i2, "KeyExists"), Result(i2, "KeyNotFound")}
      BY <1>2, <1>4 DEF AtL2, Stores, Set, Add, Replace
    <2>2. r.op = "Add" /\ at2.err = "nil" => i2 = None
      BY DEF AtL2, Add, Result
    <2> QED BY <1>3, <1>4, <2>1, <2>2
            DEF Halfway, Result, Stores, CommandResult, CommandErrors
  <1>5. CASE r.op \in Extends
    <2>1. at2 \in CommandResult
      BY <1>1, <1>5, ExtendsType DEF AtL2, Extends
    <2>2. /\ at2.err # "nil" => at2.item = i2
          /\ at2.err = "nil" => i2 # None /\ at2.item # None /\ at2.item.exp = i2.exp
          /\ at2 = Result(at2.item, at2.err)
      BY <1>1, <1>5, ExtendsKeepDeadline DEF AtL2, Extends
    <2>3. Fresh(at2.item, t) /\ Absolute(at2.item)
      BY <2>2 DEF Fresh, Absolute, Live
    <2>4. at2.err = "nil" => Halfway(c, r, i1, at2.item, t, doubted)
      BY <1>5, <2>2 DEF Halfway, AtL2, Extends, Stores
    <2> QED BY <2>1, <2>2, <2>3, <2>4
  <1>6. CASE r.op = "Delete"
    BY <1>6, DeleteType
    DEF AtL2, Delete, Result, Halfway, Stores, Fresh, Live, Absolute
  <1>7. CASE r.op = "Touch"
    <2>1. i2 # None => i2.val \in Value
      BY DEF Item, Entry
    <2>2. at2 = Touch(i2, r.exptime, t)
      BY <1>7 DEF AtL2
    <2>3. i2 # None => at2 = Result(Store(i2.val, r.exptime, t), "nil")
      BY <1>2, <2>2 DEF Touch
    <2>4. i2 = None => at2 = Result(None, "KeyNotFound")
      BY <2>2 DEF Touch
    <2>5. at2 \in CommandResult
      BY <1>1, <2>2, TouchType
    <2>6. i2 # None => Fresh(Store(i2.val, r.exptime, t), t)
                       /\ Absolute(Store(i2.val, r.exptime, t))
      BY <1>1, <2>1, StoreFresh
    <2>7. Fresh(at2.item, t) /\ Absolute(at2.item)
      BY <2>3, <2>4, <2>6 DEF Result
    <2>8. at2.err # "nil" => at2.item = i2
      BY <2>3, <2>4 DEF Result
    <2>9. at2.err = "nil" => Halfway(c, r, i1, at2.item, t, doubted)
      BY <1>7, <2>3, <2>4 DEF Result, Halfway, Stores
    <2> QED BY <2>5, <2>7, <2>8, <2>9
  <1> QED BY <1>4, <1>5, <1>6, <1>7 DEF Writes

\* The second half: when L1's answer counts as success, L1 holds what L2 holds
\* or nothing; and unless the key was in doubt, it does count as success.
LEMMA SecondHalf ==
  ASSUME NEW c \in Conns, NEW r \in Request, r.op \in Writes, FixedDeadline(r.exptime),
         NEW i1 \in Item, NEW i2 \in Item, NEW t \in Nat, NEW doubted,
         Halfway(c, r, i1, i2, t, doubted), Fresh(i1, t)
  PROVE  LET at1 == AtL1(c, r, i1, t)
             ok == at1.err = "nil" \/ at1.err \in Benign(c, r)
         IN
         /\ at1 \in CommandResult
         /\ Fresh(at1.item, t)
         /\ r.key \notin doubted => ok
         /\ ok /\ (r.key \notin doubted \/ r.op \in Overwrites) => at1.item = None \/ at1.item = i2
  <1> DEFINE at1 == AtL1(c, r, i1, t)
             ok == at1.err = "nil" \/ at1.err \in Benign(c, r)
             stored == Store(r.val, r.exptime, t)
  <1>1. r.val \in Value /\ r.exptime \in Nat
    BY DEF Request
  <1>2. Deadline(r.exptime, t) = r.exptime
    BY <1>1, FixedDeadlineKept
  <1>3. stored \in Item /\ Fresh(stored, t)
    BY <1>1, StoreType, StoreFresh
  <1>4. CASE r.op \in Stores
    <2>1. i2 = stored
      BY <1>4 DEF Halfway
    <2>2. \/ at1 = Result(stored, "nil")
          \/ at1 = Result(i1, "KeyNotFound") /\ i1 = None /\ "KeyNotFound" \in Benign(c, r)
          \/ /\ at1 = Result(i1, "KeyExists") /\ i1 # None
             /\ Benign(c, r) = {} /\ r.op = "Add" /\ c \in MainConns
      BY <1>2, <1>4 DEF AtL1, Stores, Set, Add, Replace, Benign, Extends
    <2>3. r.op = "Add" /\ c \in MainConns => r.key \in doubted \/ i1 = None
      BY DEF Halfway
    <2> QED BY <1>3, <2>1, <2>2, <2>3 DEF Result, CommandResult, CommandErrors
  <1>5. CASE r.op \in Extends
    <2>1. at1 \in CommandResult
      BY <1>1, <1>5, ExtendsType DEF AtL1, Extends
    <2>2. /\ at1.err # "nil" => at1.item = i1
          /\ at1.err = "nil" => i1 # None /\ at1.item # None /\ at1.item.exp = i1.exp
          /\ i1 = None => at1 = Result(None, "ItemNotStored")
      BY <1>1, <1>5, ExtendsKeepDeadline DEF AtL1, Extends
    <2>3. Fresh(at1.item, t)
      BY <2>2 DEF Fresh, Live
    <2>4. r.key \in doubted \/ i1 = None \/ at1 = Result(i2, "nil")
      BY <1>5 DEF Halfway, AtL1, Extends
    <2>5. "ItemNotStored" \in Benign(c, r) /\ r.op \notin Overwrites
      BY <1>5 DEF Benign, Extends, Overwrites
    <2> QED BY <2>1, <2>2, <2>3, <2>4, <2>5 DEF Result
  <1>6. CASE r.op = "Delete"
    BY <1>6, DeleteType
    DEF AtL1, Delete, Result, Benign, Extends, Fresh, Live
  <1>7. CASE r.op = "Touch"
    <2>1. i1 # None => i1.val \in Value
      BY DEF Item, Entry
    <2>2. at1 = Touch(i1, r.exptime, t)
      BY <1>7 DEF AtL1
    <2>3. i1 # None => at1 = Result(Store(i1.val, r.exptime, t), "nil")
      BY <1>2, <2>2 DEF Touch
    <2>4. i1 = None => at1 = Result(None, "KeyNotFound")
      BY <2>2 DEF Touch
    <2>5. at1 \in CommandResult
      BY <1>1, <2>2, TouchType
    <2>6. i1 # None => Fresh(Store(i1.val, r.exptime, t), t)
      BY <1>1, <2>1, StoreFresh
    <2>7. Fresh(at1.item, t)
      BY <2>3, <2>4, <2>6 DEF Result
    <2>8. "KeyNotFound" \in Benign(c, r) /\ r.op \notin Overwrites
      BY <1>7 DEF Benign, Extends, Overwrites
    <2>9. r.key \in doubted \/ i1 = None \/ i2 = Store(i1.val, r.exptime, t)
      BY <1>7 DEF Halfway
    <2> QED BY <2>3, <2>4, <2>5, <2>7, <2>8, <2>9 DEF Result
  <1> QED BY <1>4, <1>5, <1>6, <1>7 DEF Writes


-----------------------------------------------------------------------------
(***************************************************************************)
(* What a step of one connection has to show.                              *)
(***************************************************************************)

\* A connection that has taken no half step finds its key's levels in
\* agreement: nobody else can be midway on it.
LEMMA AgreeInside ==
  ASSUME TypeInv, LockExclusion, CoherenceInv, NEW c \in Conns, Inside(c), ~Midway(c)
  PROVE  LET k == req[c].key IN k \in torn \/ l1[k] = None \/ l1[k] = l2[k]
  <1> DEFINE k == req[c].key
  <1>1. k \in Keys
    BY AtWork DEF Inside
  <1>2. Settled(k)
    <2> SUFFICES ASSUME NEW d \in Conns, Midway(d), req[d].key = k PROVE FALSE
      BY DEF Settled
    <2>1. d # c /\ Inside(d) /\ Bucket(d) = Bucket(c)
      BY DEF Midway, Inside, Bucket
    <2>2. req[d].op \in Reads
      BY <2>1 DEF LockExclusion
    <2> QED BY <2>1, <2>2 DEF CoherenceInv, Sent, Reading, Midway
  <1> QED BY <1>1, <1>2 DEF CoherenceInv, Coherent, Agree

\* A handler call of c: it changes its own key at the two levels to i1 and i2.
LEMMA CallStep ==
  ASSUME TypeInv, TypeInv', LockExclusion, CoherenceInv,
         NEW c \in Conns, Inside(c), Inside(c)',
         UNCHANGED <<now, req>>,
         \A d \in Conns \ {c} : pc'[d] = pc[d] /\ got'[d] = got[d],
         NEW i1, NEW i2,
         l1' = [l1 EXCEPT ![req[c].key] = i1],
         l2' = [l2 EXCEPT ![req[c].key] = i2],
         \A j \in Keys : j # req[c].key => (j \in torn' <=> j \in torn),
         req[c].op \in Reads => i2 = l2[req[c].key] /\ pc'[c] \in Reading
                                /\ (req[c].key \in torn' <=> req[c].key \in torn),
         Fresh(i1, now), Fresh(i2, now), Absolute(i2),
         Known(c, pc'[c], req[c], got'[c], i1, i2, now, torn'),
         req[c].key \in torn' \/ Midway(c)' \/ i1 = None \/ i1 = i2,
         OnlyFailuresTear'
  PROVE  CoherenceInv'
  <1> DEFINE k == req[c].key
  <1>1. k \in Keys
    BY AtWork DEF Inside
  <1>2. l1 \in [Keys -> Item] /\ l2 \in [Keys -> Item]
    BY DEF TypeInv, TypeOK, OrcaTypeOK
  <1>3. /\ l1'[k] = i1 /\ l2'[k] = i2
        /\ \A j \in Keys : j # k => l1'[j] = l1[j] /\ l2'[j] = l2[j]
    BY <1>1, <1>2
  <1>4. \A j \in Keys : ServersOK(j)'
    BY <1>3 DEF CoherenceInv, ServersOK
  <1>5. ASSUME NEW d \in Conns PROVE Sent(d)'
    <2>1. CASE d = c
      BY <2>1 DEF CoherenceInv, Sent, Inside
    <2>2. CASE d # c
      BY <2>2 DEF CoherenceInv, Sent, Inside
    <2> QED BY <2>1, <2>2
  <1>6. ASSUME NEW d \in Conns PROVE KnownOf(d)'
    <2> SUFFICES ASSUME Inside(d)' PROVE KnownOf(d)'
      BY DEF KnownOf
    <2>1. CASE d = c
      BY <1>3, <2>1 DEF KnownOf
    <2>2. CASE d # c /\ req[d].key # k
      <3>1. req[d].key \in Keys /\ Inside(d)
        BY <2>2, AtWork DEF Inside
      <3>2. Known(d, pc[d], req[d], got[d], l1[req[d].key], l2[req[d].key], now, torn)
        BY <3>1 DEF CoherenceInv, KnownOf
      <3>3. Known(d, pc[d], req[d], got[d], l1[req[d].key], l2[req[d].key], now, torn')
        BY <2>2, <3>1, <3>2 DEF Known, Halfway
      <3> QED BY <1>3, <2>2, <3>1, <3>3 DEF KnownOf
    <2>3. CASE d # c /\ req[d].key = k
      <3>1. Inside(d) /\ Bucket(d) = Bucket(c)
        BY <2>3 DEF Inside, Bucket
      <3>2. req[c].op \in Reads /\ req[d].op \in Reads
        BY <2>3, <3>1 DEF LockExclusion
      <3>3. pc[d] \in Reading
        BY <3>1, <3>2 DEF CoherenceInv, Sent
      <3>4. Known(d, pc[d], req[d], got[d], l1[k], l2[k], now, torn)
        BY <2>3, <3>1 DEF CoherenceInv, KnownOf
      <3>5. Known(d, pc[d], req[d], got[d], i1, i2, now, torn')
        BY <3>2, <3>3, <3>4 DEF Known, Reading
      <3> QED BY <1>3, <2>3, <3>5 DEF KnownOf
    <2> QED BY <2>1, <2>2, <2>3
  <1>7. Coherent'
    <2> SUFFICES ASSUME NEW j \in Keys, j \notin torn', Settled(j)' PROVE Agree(j)'
      BY DEF Coherent
    <2>1. CASE j = k
      BY <1>3, <2>1 DEF Settled, Agree
    <2>2. CASE j # k
      <3>1. j \notin torn /\ Settled(j)
        BY <2>2 DEF Settled, Midway
      <3> QED BY <1>3, <2>2, <3>1 DEF CoherenceInv, Coherent, Agree
    <2> QED BY <2>1, <2>2
  <1> QED BY <1>4, <1>5, <1>6, <1>7 DEF CoherenceInv

\* A failed call of anything but a read leaves the key in doubt.
LEMMA FailedStep ==
  ASSUME TypeInv, TypeInv', LockExclusion, CoherenceInv,
         NEW c \in Conns, Inside(c), req[c].op \notin Reads,
         UNCHANGED <<now, req>>, NEW S1, NEW S2, Fails(c, S1, S2),
         \A item \in S1 : Fresh(item, now),
         \A item \in S2 : Fresh(item, now) /\ Absolute(item)
  PROVE  CoherenceInv'
  <1>1. PICK i1 \in S1, i2 \in S2, err \in FaultErrors :
          /\ l1' = [l1 EXCEPT ![req[c].key] = i1]
          /\ l2' = [l2 EXCEPT ![req[c].key] = i2]
          /\ Return(c, err, None)
    BY DEF Fails
  <1>2. /\ pc'[c] = "done" /\ Inside(c)'
        /\ \A d \in Conns \ {c} : pc'[d] = pc[d] /\ got'[d] = got[d]
    BY <1>1 DEF Return, Fails, Inside, TypeInv, TypeOK, OrcaTypeOK
  <1>3. torn' = torn \cup {req[c].key}
    BY DEF Fails, Reads
  <1>4. OnlyFailuresTear'
    BY DEF Fails, OnlyFailuresTear, TypeInv, TypeOK, OrcaTypeOK
  <1>5. Known(c, pc'[c], req[c], got'[c], i1, i2, now, torn')
    BY <1>2 DEF Known
  <1> QED BY <1>1, <1>2, <1>3, <1>4, <1>5, CallStep

\* A step that leaves the levels alone.
LEMMA OutsideStep ==
  ASSUME TypeInv, TypeInv', CoherenceInv, NEW c \in Conns,
         UNCHANGED <<l1, l2, now, faults, torn>>,
         \A d \in Conns \ {c} : pc'[d] = pc[d] /\ req'[d] = req[d] /\ got'[d] = got[d],
         ~Midway(c), ~Midway(c)', Sent(c)', KnownOf(c)'
  PROVE  CoherenceInv'
  <1>1. \A d \in Conns : Sent(d)' /\ KnownOf(d)'
    <2> SUFFICES ASSUME NEW d \in Conns, d # c PROVE Sent(d)' /\ KnownOf(d)'
      OBVIOUS
    <2> QED BY DEF CoherenceInv, Sent, KnownOf, Inside
  <1>2. Coherent'
    <2> SUFFICES ASSUME NEW j \in Keys, j \notin torn, Settled(j)' PROVE Agree(j)
      BY DEF Coherent, Agree
    <2>1. Settled(j)
      BY DEF Settled, Midway
    <2> QED BY <2>1 DEF CoherenceInv, Coherent
  <1> QED BY <1>1, <1>2 DEF CoherenceInv, ServersOK, OnlyFailuresTear


-----------------------------------------------------------------------------
(***************************************************************************)
(* One lemma per kind of step.                                             *)
(***************************************************************************)

\* The writes of both ports.
LEMMA WritesCohere ==
  ASSUME TypeInv, TypeInv', LockExclusion, CoherenceInv, NEW c \in Conns, WriteStep(c),
         Inside(c), Inside(c)', UNCHANGED lockVars
  PROVE  CoherenceInv'
  <1> DEFINE r == req[c]
             k == r.key
             at2 == AtL2(r, l2[k], now)
             at1 == AtL1(c, r, l1[k], now)
             err1 == IF at1.err \in Benign(c, r) THEN "nil" ELSE at1.err
  <1>1. /\ r \in Request /\ k \in Keys /\ l1[k] \in Item /\ l2[k] \in Item
        /\ now \in Nat
    BY AtWork DEF Inside
  <1>2. /\ l1 \in [Keys -> Item] /\ l2 \in [Keys -> Item] /\ torn \subseteq Keys
        /\ pc \in [Conns -> Labels] /\ faults \in Nat
    BY DEF TypeInv, TypeOK, OrcaTypeOK
  <1>3. r.op \in Writes /\ L2ThenL1(c, at2, at1, Benign(c, r))
    BY WriteForm
  <1>4. r.op \notin Reads /\ FixedDeadline(r.exptime)
    BY <1>3 DEF Writes, Stores, Extends, Reads, CoherenceInv, Sent, Inside
  <1>5. Fresh(l1[k], now) /\ Fresh(l2[k], now) /\ Absolute(l2[k])
    BY <1>1 DEF CoherenceInv, ServersOK
  <1>6. UNCHANGED <<now, req>>
    BY <1>3 DEF L2ThenL1
  <1>7. CASE pc[c] = "L2"
    <2>1. k \in torn \/ l1[k] = None \/ l1[k] = l2[k]
      BY <1>7, AgreeInside DEF Midway
    <2>2. /\ at2 \in CommandResult
          /\ Fresh(at2.item, now) /\ Absolute(at2.item)
          /\ at2.err # "nil" => at2.item = l2[k]
          /\ at2.err = "nil" => Halfway(c, r, l1[k], at2.item, now, torn)
      BY <1>1, <1>3, <1>4, <1>5, <2>1, FirstHalf
    <2>3. CASE L2Fails(c, at2.item)
      BY <1>4, <1>5, <1>6, <2>2, <2>3, FailedStep DEF L2Fails
    <2>4. CASE ~L2Fails(c, at2.item)
      <3>1. /\ SetL2(c, at2.item)
            /\ IF at2.err = "nil" THEN Goto(c, "L1") ELSE Return(c, at2.err, None)
            /\ UNCHANGED <<got, torn>>
        BY <1>3, <1>7, <2>4 DEF L2ThenL1
      <3>2. /\ l1' = [l1 EXCEPT ![k] = l1[k]] /\ l2' = [l2 EXCEPT ![k] = at2.item]
            /\ faults' = faults
        BY <1>1, <1>2, <3>1 DEF SetL2
      <3>3. /\ \A d \in Conns \ {c} : pc'[d] = pc[d] /\ got'[d] = got[d]
            /\ pc'[c] = IF at2.err = "nil" THEN "L1" ELSE "done"
        BY <1>2, <3>1 DEF Goto, Return
      <3>4. Known(c, pc'[c], r, got'[c], l1[k], at2.item, now, torn')
        BY <2>2, <3>1, <3>3 DEF Known
      <3>5. k \in torn' \/ Midway(c)' \/ l1[k] = None \/ l1[k] = at2.item
        BY <2>1, <2>2, <3>1, <3>3 DEF Midway
      <3>6. OnlyFailuresTear'
        BY <1>6, <3>1, <3>2 DEF CoherenceInv, OnlyFailuresTear
      <3> QED BY <1>4, <1>5, <1>6, <2>2, <3>1, <3>2, <3>3, <3>4, <3>5, <3>6, CallStep
    <2> QED BY <2>3, <2>4
  <1>8. CASE pc[c] = "L1"
    <2>1. Halfway(c, r, l1[k], l2[k], now, torn)
      BY <1>8 DEF CoherenceInv, KnownOf, Known
    <2>2. /\ at1 \in CommandResult
          /\ Fresh(at1.item, now)
          /\ k \notin torn => at1.err = "nil" \/ at1.err \in Benign(c, r)
          /\ /\ at1.err = "nil" \/ at1.err \in Benign(c, r)
             /\ k \notin torn \/ r.op \in Overwrites
             => at1.item = None \/ at1.item = l2[k]
      BY <1>1, <1>3, <1>4, <1>5, <2>1, SecondHalf
    <2>3. CASE L1Fails(c, at1.item)
      BY <1>4, <1>5, <1>6, <2>2, <2>3, FailedStep DEF L1Fails
    <2>4. CASE ~L1Fails(c, at1.item)
      <3>1. /\ SetL1(c, at1.item) /\ ReturnSecond(c, err1, None) /\ UNCHANGED got
        BY <1>3, <1>8, <2>4 DEF L2ThenL1
      <3>2. /\ l1' = [l1 EXCEPT ![k] = at1.item] /\ l2' = [l2 EXCEPT ![k] = l2[k]]
            /\ faults' = faults
        BY <1>1, <1>2, <3>1 DEF SetL1
      <3>3. /\ \A d \in Conns \ {c} : pc'[d] = pc[d] /\ got'[d] = got[d]
            /\ pc'[c] = "done"
        BY <1>2, <3>1 DEF ReturnSecond, Return
      <3>4. torn' = IF err1 # "nil" THEN torn \cup {k}
                    ELSE IF r.op \in Overwrites THEN torn \ {k} ELSE torn
        BY <3>1 DEF ReturnSecond
      <3>5. k \in torn' \/ at1.item = None \/ at1.item = l2[k]
        BY <2>2, <3>4
      <3>6. err1 # "nil" => k \in torn
        BY <2>2
      <3>7. OnlyFailuresTear'
        BY <1>6, <3>2, <3>4, <3>6 DEF CoherenceInv, OnlyFailuresTear
      <3>8. Known(c, pc'[c], r, got'[c], at1.item, l2[k], now, torn')
        BY <3>3 DEF Known
      <3>9. \A j \in Keys : j # k => (j \in torn' <=> j \in torn)
        BY <3>4
      <3> QED BY <1>4, <1>5, <1>6, <2>2, <3>2, <3>3, <3>5, <3>7, <3>8, <3>9, CallStep
    <2> QED BY <2>3, <2>4
  <1> QED BY <1>3, <1>7, <1>8 DEF L2ThenL1

\* A get: reading changes nothing, and a fill makes L1 hold what L2 holds,
\* since nobody can have changed L2 since it was read.
LEMMA GetsCohere ==
  ASSUME TypeInv, TypeInv', LockExclusion, CoherenceInv, NEW c \in Conns,
         L1L2Get(c) \/ L1L2GetE(c) \/ BatchGet(c) \/ BatchGetE(c),
         Inside(c), Inside(c)', UNCHANGED lockVars
  PROVE  CoherenceInv'
  <1> DEFINE k == req[c].key
  <1>1. /\ k \in Keys /\ l1[k] \in Item /\ l2[k] \in Item
        /\ now \in Nat
    BY AtWork DEF Inside
  <1>2. /\ l1 \in [Keys -> Item] /\ l2 \in [Keys -> Item] /\ torn \subseteq Keys
        /\ pc \in [Conns -> Labels] /\ faults \in Nat /\ got \in [Conns -> Item]
    BY DEF TypeInv, TypeOK, OrcaTypeOK
  <1>3. Fresh(l1[k], now) /\ Fresh(l2[k], now) /\ Absolute(l2[k])
    BY <1>1 DEF CoherenceInv, ServersOK
  <1>4. req[c].op \in Reads
    BY DEF L1L2Get, L1L2GetE, BatchGet, BatchGetE, Serving, BatchServing, Reads
  <1>5. ~Midway(c) /\ pc[c] \in Reading
    BY <1>4 DEF CoherenceInv, Sent, Reading, Midway
  <1>6. k \in torn \/ l1[k] = None \/ l1[k] = l2[k]
    BY <1>5, AgreeInside
  <1>7. GetFromL1(c) \/ L1L2GetFromL2(c) \/ BatchGetFromL2(c) \/ GetE(c)
    BY DEF L1L2Get, L1L2GetE, BatchGet, BatchGetE
  <1>8. GetE(c) \/ req[c].op = "Get"
    BY DEF L1L2Get, L1L2GetE, BatchGet, BatchGetE, Serving, BatchServing
  <1> DEFINE filled == Set(l1[k], got[c].val, got[c].exp, now).item
  <1>9. pc[c] = "Fill" => filled = l2[k]
    <2> SUFFICES ASSUME pc[c] = "Fill" PROVE filled = l2[k]
      OBVIOUS
    <2>1. l2[k] = Live(got[c], now) /\ Absolute(got[c]) /\ got[c] \in Entry
      BY DEF CoherenceInv, KnownOf, Known, TypeInv, Equipped, Holding
    <2>2. got[c].exp \in Nat /\ got[c] = [val |-> got[c].val, exp |-> got[c].exp]
          /\ got[c] # None
      BY <2>1, NoneAssumption DEF Entry
    <2>3. Deadline(got[c].exp, now) = got[c].exp
      BY <1>1, <2>1, <2>2, FixedDeadlineKept DEF Absolute
    <2> QED BY <2>1, <2>2, <2>3 DEF Set, Store, Result
  \* Whatever happens, L1 is left alone or is made to hold what L2 holds.
  <1>10. /\ UNCHANGED <<now, req, l2, torn>>
         /\ \E i1 \in {l1[k], l2[k]} :
              /\ l1' = [l1 EXCEPT ![k] = i1]
              /\ i1 = l2[k] \/ i1 = l1[k]
    <2>1. CASE GetE(c)
      BY <1>1, <1>2, <2>1 DEF GetE
    <2>2. CASE req[c].op = "Get" /\ GetFromL1(c)
      BY <1>1, <1>2, <2>2 DEF GetFromL1, L1Fails, Fails
    <2>3. CASE req[c].op = "Get" /\ BatchGetFromL2(c)
      BY <1>1, <1>2, <2>3 DEF BatchGetFromL2, L2Fails, Fails
    <2>4. CASE req[c].op = "Get" /\ L1L2GetFromL2(c) /\ pc[c] = "L2Get"
      BY <1>1, <1>2, <2>4 DEF L1L2GetFromL2, L2Fails, Fails
    <2>5. CASE req[c].op = "Get" /\ L1L2GetFromL2(c) /\ pc[c] = "Fill"
      BY <1>1, <1>2, <1>9, <2>5 DEF L1L2GetFromL2, L1Fails, Fails, SetL1
    <2> QED BY <1>7, <1>8, <2>1, <2>2, <2>3, <2>4, <2>5 DEF L1L2GetFromL2
  <1>11. PICK i1 \in {l1[k], l2[k]} : l1' = [l1 EXCEPT ![k] = i1]
    BY <1>10
  <1>12. /\ \A d \in Conns \ {c} : pc'[d] = pc[d] /\ got'[d] = got[d]
         /\ pc'[c] \in {"L2Get", "Fill", "done"}
         /\ pc'[c] = "Fill" => got'[c] = l2[k]
         /\ faults' >= faults
    <2>1. CASE GetE(c)
      BY <1>2, <2>1 DEF GetE, Return
    <2>2. CASE GetFromL1(c)
      BY <1>2, <2>2 DEF GetFromL1, L1Fails, Fails, Return, Goto
    <2>3. CASE BatchGetFromL2(c)
      BY <1>2, <2>3 DEF BatchGetFromL2, L2Fails, Fails, Return
    <2>4. CASE L1L2GetFromL2(c)
      BY <1>2, <2>4 DEF L1L2GetFromL2, L1Fails, L2Fails, Fails, Return, Goto, SetL1
    <2> QED BY <1>7, <2>1, <2>2, <2>3, <2>4
  <1>13. Known(c, pc'[c], req[c], got'[c], i1, l2[k], now, torn')
    BY <1>3, <1>12 DEF Known, Fresh
  <1>14. OnlyFailuresTear'
    BY <1>2, <1>10, <1>12 DEF CoherenceInv, OnlyFailuresTear, TypeInv, TypeOK, OrcaTypeOK
  <1>15. l2' = [l2 EXCEPT ![k] = l2[k]]
    BY <1>1, <1>2, <1>10
  <1>16. k \in torn' \/ i1 = None \/ i1 = l2[k]
    BY <1>6, <1>10
  <1>17. Fresh(i1, now) /\ pc'[c] \in Reading
    BY <1>3, <1>12 DEF Reading
  <1> QED BY <1>3, <1>4, <1>10, <1>11, <1>12, <1>13, <1>14, <1>15, <1>16, <1>17, CallStep


\* A gat on the main port.
LEMMA GatsCohere ==
  ASSUME TypeInv, TypeInv', LockExclusion, CoherenceInv, NEW c \in Conns,
         L1L2Gat(c), Inside(c), Inside(c)', UNCHANGED lockVars
  PROVE  CoherenceInv'
  <1> DEFINE r == req[c]
             k == r.key
             atL1 == GAT(l1[k], r.exptime, now)
             atL2 == GAT(l2[k], r.exptime, now)
             touched == Touch(l2[k], r.exptime, now)
             added == Add(l1[k], got[c].val, r.exptime, now)
  <1>1. /\ r \in Request /\ k \in Keys /\ l1[k] \in Item /\ l2[k] \in Item
        /\ now \in Nat /\ r.exptime \in Nat
    BY AtWork DEF Inside
  <1>2. /\ l1 \in [Keys -> Item] /\ l2 \in [Keys -> Item] /\ torn \subseteq Keys
        /\ pc \in [Conns -> Labels] /\ faults \in Nat /\ got \in [Conns -> Item]
    BY DEF TypeInv, TypeOK, OrcaTypeOK
  <1>3. Fresh(l1[k], now) /\ Fresh(l2[k], now) /\ Absolute(l2[k])
    BY <1>1 DEF CoherenceInv, ServersOK
  <1>4. /\ r.op = "Gat" /\ r.op \notin Reads /\ FixedDeadline(r.exptime)
        /\ UNCHANGED <<now, req>>
    BY DEF L1L2Gat, Serving, Reads, CoherenceInv, Sent, Inside
  <1>5. Deadline(r.exptime, now) = r.exptime
    BY <1>1, <1>4, FixedDeadlineKept
  <1>6. \A val \in Value : /\ Fresh(Store(val, r.exptime, now), now)
                           /\ Absolute(Store(val, r.exptime, now))
    BY <1>1, <1>4, StoreFresh
  <1>7. /\ l1[k] # None => l1[k].val \in Value /\ l1[k].exp \in Nat
        /\ l2[k] # None => l2[k].val \in Value /\ l2[k].exp \in Nat
    BY <1>1 DEF Item, Entry
  <1>8. pc[c] \in Holding => got[c].val \in Value
    BY DEF TypeInv, Equipped, Entry
  <1>9. /\ l1' = [l1 EXCEPT ![k] = l1[k]] <=> l1' = l1
        /\ l2' = [l2 EXCEPT ![k] = l2[k]] <=> l2' = l2
    BY <1>1, <1>2
  <1>10. CASE pc[c] = "L1Gat"
    <2>1. /\ l1[k] # None => atL1.item = Store(l1[k].val, r.exptime, now)
          /\ l1[k] = None => atL1.item = None
      BY <1>5 DEF GAT, Touch, Result
    <2>2. Fresh(atL1.item, now)
      BY <1>3, <1>6, <1>7, <2>1
    <2>3. k \in torn \/ l1[k] = None \/ l1[k] = l2[k]
      BY <1>10, AgreeInside DEF Midway
    <2>4. CASE L1Fails(c, atL1.item)
      BY <1>3, <1>4, <2>2, <2>4, FailedStep DEF L1Fails
    <2>5. CASE ~L1Fails(c, atL1.item)
      <3>1. /\ SetL1(c, atL1.item) /\ got' = [got EXCEPT ![c] = l1[k]]
            /\ Goto(c, IF l1[k] = None THEN "L2Gat" ELSE "L2Touch")
            /\ torn' = torn
        BY <1>10, <2>5 DEF L1L2Gat
      <3>2. /\ l1' = [l1 EXCEPT ![k] = atL1.item] /\ l2' = [l2 EXCEPT ![k] = l2[k]]
            /\ faults' = faults
        BY <1>9, <3>1 DEF SetL1
      <3>3. /\ \A d \in Conns \ {c} : pc'[d] = pc[d] /\ got'[d] = got[d]
            /\ pc'[c] = IF l1[k] = None THEN "L2Gat" ELSE "L2Touch"
            /\ got'[c] = l1[k]
        BY <1>2, <3>1 DEF Goto
      <3>4. l1[k] # None =>
              \/ atL1.item = None
              \/ atL1.item.exp = r.exptime /\ atL1.item.val = l1[k].val
        BY <2>1 DEF Store, Live
      <3>5. Known(c, pc'[c], r, got'[c], atL1.item, l2[k], now, torn')
        BY <2>1, <2>3, <3>1, <3>3, <3>4 DEF Known
      <3>6. k \in torn' \/ Midway(c)' \/ atL1.item = None
        BY <2>1, <3>3 DEF Midway
      <3>7. OnlyFailuresTear'
        BY <1>4, <3>1, <3>2 DEF CoherenceInv, OnlyFailuresTear
      <3> QED BY <1>3, <1>4, <2>2, <3>1, <3>2, <3>3, <3>5, <3>6, <3>7, CallStep
    <2> QED BY <2>4, <2>5
  <1>11. CASE pc[c] = "L2Gat"
    <2>1. /\ l2[k] # None => atL2.item = Store(l2[k].val, r.exptime, now)
          /\ l2[k] = None => atL2.item = None
      BY <1>5 DEF GAT, Touch, Result
    <2>2. Fresh(atL2.item, now) /\ Absolute(atL2.item)
      BY <1>3, <1>6, <1>7, <2>1
    <2>3. k \in torn \/ l1[k] = None
      BY <1>11 DEF CoherenceInv, KnownOf, Known, L1L2Gat, Serving
    <2>4. CASE L2Fails(c, atL2.item)
      BY <1>3, <1>4, <2>2, <2>4, FailedStep DEF L2Fails
    <2>5. CASE ~L2Fails(c, atL2.item)
      <3>1. /\ SetL2(c, atL2.item) /\ got' = [got EXCEPT ![c] = l2[k]]
            /\ IF l2[k] = None THEN Return(c, "nil", None) ELSE Goto(c, "L1Add")
            /\ torn' = torn
        BY <1>11, <2>5 DEF L1L2Gat
      <3>2. /\ l1' = [l1 EXCEPT ![k] = l1[k]] /\ l2' = [l2 EXCEPT ![k] = atL2.item]
            /\ faults' = faults
        BY <1>9, <3>1 DEF SetL2
      <3>3. /\ \A d \in Conns \ {c} : pc'[d] = pc[d] /\ got'[d] = got[d]
            /\ pc'[c] = IF l2[k] = None THEN "done" ELSE "L1Add"
            /\ got'[c] = l2[k]
        BY <1>2, <3>1 DEF Goto, Return
      <3>4. Known(c, pc'[c], r, got'[c], l1[k], atL2.item, now, torn')
        BY <2>1, <2>3, <3>1, <3>3 DEF Known
      <3>5. OnlyFailuresTear'
        BY <1>4, <3>1, <3>2 DEF CoherenceInv, OnlyFailuresTear
      <3> QED BY <1>3, <1>4, <2>2, <2>3, <3>1, <3>2, <3>3, <3>4, <3>5, CallStep
    <2> QED BY <2>4, <2>5
  <1>12. CASE pc[c] = "L1Add"
    <2>1. /\ k \in torn \/ l1[k] = None
          /\ l2[k] = Store(got[c].val, r.exptime, now)
      BY <1>12 DEF CoherenceInv, KnownOf, Known
    <2>2. added.item = l1[k] \/ (l1[k] = None /\ added.item = l2[k])
      BY <1>5, <2>1 DEF Add, Set, Result
    <2>3. l1[k] = None => added.item = l2[k]
      BY <1>5, <2>1 DEF Add, Set, Result
    <2>4. Fresh(added.item, now)
      BY <1>3, <2>2
    <2>5. CASE L1Fails(c, added.item)
      BY <1>3, <1>4, <2>4, <2>5, FailedStep DEF L1Fails
    <2>6. CASE ~L1Fails(c, added.item)
      <3>1. /\ SetL1(c, added.item) /\ ReturnSecond(c, "nil", got[c].val)
            /\ UNCHANGED got
        BY <1>12, <2>6 DEF L1L2Gat
      <3>2. /\ l1' = [l1 EXCEPT ![k] = added.item] /\ l2' = [l2 EXCEPT ![k] = l2[k]]
            /\ faults' = faults
        BY <1>9, <3>1 DEF SetL1
      <3>3. /\ \A d \in Conns \ {c} : pc'[d] = pc[d] /\ got'[d] = got[d]
            /\ pc'[c] = "done"
        BY <1>2, <3>1 DEF ReturnSecond, Return
      <3>4. torn' = torn
        BY <1>4, <3>1 DEF ReturnSecond, Overwrites
      <3>5. Known(c, pc'[c], r, got'[c], added.item, l2[k], now, torn')
        BY <3>3 DEF Known
      <3>6. OnlyFailuresTear'
        BY <1>4, <3>2, <3>4 DEF CoherenceInv, OnlyFailuresTear
      <3> QED BY <1>3, <1>4, <2>1, <2>3, <2>4, <3>2, <3>3, <3>4, <3>5, <3>6, CallStep
    <2> QED BY <2>5, <2>6
  <1>13. CASE pc[c] = "L2Touch"
    <2>1. /\ k \in torn \/ l2[k] # None \/ now > StartTime
          /\ \/ k \in torn \/ l1[k] = None
             \/ l1[k].exp = r.exptime /\ (l2[k] = None \/ l2[k].val = l1[k].val)
      BY <1>13 DEF CoherenceInv, KnownOf, Known
    <2>2. /\ l2[k] # None => touched = Result(Store(l2[k].val, r.exptime, now), "nil")
          /\ l2[k] = None => touched = Result(None, "KeyNotFound")
      BY <1>5 DEF Touch
    <2>3. Fresh(touched.item, now) /\ Absolute(touched.item)
      BY <1>3, <1>6, <1>7, <2>2 DEF Result
    <2>4. touched.err # "nil" \/ k \in torn \/ l1[k] = None \/ l1[k] = touched.item
      <3> SUFFICES ASSUME l2[k] # None, k \notin torn, l1[k] # None
                   PROVE  l1[k] = touched.item
        BY <2>2 DEF Result
      <3>1. l1[k] = [val |-> l2[k].val, exp |-> r.exptime]
        BY <1>1, <2>1 DEF Item, Entry
      <3>2. Live(l1[k], now) = l1[k]
        BY <1>3 DEF Fresh
      <3> QED BY <2>2, <3>1, <3>2 DEF Result, Store
    <2>5. CASE L2Fails(c, touched.item)
      BY <1>3, <1>4, <2>3, <2>5, FailedStep DEF L2Fails
    <2>6. CASE ~L2Fails(c, touched.item)
      <3>1. /\ SetL2(c, touched.item)
            /\ ReturnSecond(c, touched.err,
                            IF touched.err = "nil" THEN got[c].val ELSE None)
            /\ UNCHANGED got
        BY <1>13, <2>6 DEF L1L2Gat
      <3>2. /\ l1' = [l1 EXCEPT ![k] = l1[k]] /\ l2' = [l2 EXCEPT ![k] = touched.item]
            /\ faults' = faults
        BY <1>9, <3>1 DEF SetL2
      <3>3. /\ \A d \in Conns \ {c} : pc'[d] = pc[d] /\ got'[d] = got[d]
            /\ pc'[c] = "done"
        BY <1>2, <3>1 DEF ReturnSecond, Return
      <3>4. torn' = IF touched.err # "nil" THEN torn \cup {k} ELSE torn
        BY <1>4, <3>1 DEF ReturnSecond, Overwrites
      <3>5. Known(c, pc'[c], r, got'[c], l1[k], touched.item, now, torn')
        BY <3>3 DEF Known
      <3>6. touched.err # "nil" => k \in torn \/ now > StartTime
        BY <2>1, <2>2 DEF Result
      <3>7. OnlyFailuresTear'
        BY <1>1, <1>4, <3>2, <3>4, <3>6, TimeAssumption DEF CoherenceInv, OnlyFailuresTear
      <3>8. k \in torn' \/ l1[k] = None \/ l1[k] = touched.item
        BY <2>4, <3>4
      <3>9. \A j \in Keys : j # k => (j \in torn' <=> j \in torn)
        BY <3>4
      <3> QED BY <1>3, <1>4, <2>3, <3>2, <3>3, <3>5, <3>7, <3>8, <3>9, CallStep
    <2> QED BY <2>5, <2>6
  <1> QED BY <1>10, <1>11, <1>12, <1>13 DEF L1L2Gat


\* A gat on the batch port, for good: L2 and L1 both drop the deadline.
LEMMA BatchGatsCohere ==
  ASSUME TypeInv, TypeInv', LockExclusion, CoherenceInv, NEW c \in Conns,
         BatchGat(c), Inside(c), Inside(c)', UNCHANGED lockVars
  PROVE  CoherenceInv'
  <1> DEFINE r == req[c]
             k == r.key
             atL2 == GAT(l2[k], r.exptime, now)
             touched == Touch(l1[k], 0, now)
  <1>1. /\ r \in Request /\ k \in Keys /\ l1[k] \in Item /\ l2[k] \in Item
        /\ now \in Nat
    BY AtWork DEF Inside
  <1>2. /\ l1 \in [Keys -> Item] /\ l2 \in [Keys -> Item] /\ torn \subseteq Keys
        /\ pc \in [Conns -> Labels] /\ faults \in Nat /\ got \in [Conns -> Item]
    BY DEF TypeInv, TypeOK, OrcaTypeOK
  <1>3. Fresh(l1[k], now) /\ Fresh(l2[k], now) /\ Absolute(l2[k])
    BY <1>1 DEF CoherenceInv, ServersOK
  <1>4. /\ r.op = "Gat" /\ r.op \notin Reads /\ r.exptime = 0 /\ c \notin MainConns
        /\ UNCHANGED <<now, req>>
    BY ConnsAssumption DEF BatchGat, BatchServing, Reads, CoherenceInv, Sent, Inside
  <1>5. FixedDeadline(0) /\ Deadline(0, now) = 0
    BY DEF FixedDeadline, Deadline
  <1>6. \A val \in Value : Fresh(Store(val, 0, now), now) /\ Absolute(Store(val, 0, now))
    BY <1>1, <1>5, StoreFresh
  <1>7. /\ l1[k] # None => l1[k].val \in Value
        /\ l2[k] # None => l2[k].val \in Value
    BY <1>1 DEF Item, Entry
  <1>8. /\ l1' = [l1 EXCEPT ![k] = l1[k]] <=> l1' = l1
        /\ l2' = [l2 EXCEPT ![k] = l2[k]] <=> l2' = l2
    BY <1>1, <1>2
  <1>9. CASE pc[c] = "L2Gat"
    <2>1. /\ l2[k] # None => atL2.item = Store(l2[k].val, 0, now)
          /\ l2[k] = None => atL2.item = None
      BY <1>4, <1>5 DEF GAT, Touch, Result
    <2>2. Fresh(atL2.item, now) /\ Absolute(atL2.item)
      BY <1>3, <1>6, <1>7, <2>1
    <2>3. k \in torn \/ l1[k] = None \/ l1[k] = l2[k]
      BY <1>9, AgreeInside DEF Midway
    <2>4. CASE L2Fails(c, atL2.item)
      BY <1>3, <1>4, <2>2, <2>4, FailedStep DEF L2Fails
    <2>5. CASE ~L2Fails(c, atL2.item)
      <3>1. /\ SetL2(c, atL2.item) /\ got' = [got EXCEPT ![c] = l2[k]]
            /\ IF l2[k] = None THEN Return(c, "nil", None) ELSE Goto(c, "L1Touch")
            /\ torn' = torn
        BY <1>9, <2>5 DEF BatchGat
      <3>2. /\ l1' = [l1 EXCEPT ![k] = l1[k]] /\ l2' = [l2 EXCEPT ![k] = atL2.item]
            /\ faults' = faults
        BY <1>8, <3>1 DEF SetL2
      <3>3. /\ \A d \in Conns \ {c} : pc'[d] = pc[d] /\ got'[d] = got[d]
            /\ pc'[c] = IF l2[k] = None THEN "done" ELSE "L1Touch"
        BY <1>2, <3>1 DEF Goto, Return
      <3>4. Known(c, pc'[c], r, got'[c], l1[k], atL2.item, now, torn')
        BY <2>1, <2>3, <3>1, <3>3 DEF Known
      <3>5. k \in torn' \/ Midway(c)' \/ l1[k] = None \/ l1[k] = atL2.item
        BY <2>1, <2>3, <3>1, <3>3 DEF Midway
      <3>6. OnlyFailuresTear'
        BY <1>4, <3>1, <3>2 DEF CoherenceInv, OnlyFailuresTear
      <3> QED BY <1>3, <1>4, <2>2, <3>1, <3>2, <3>3, <3>4, <3>5, <3>6, CallStep
    <2> QED BY <2>4, <2>5
  <1>10. CASE pc[c] = "L1Touch"
    <2>1. k \in torn \/ l1[k] = None \/ l2[k] = Store(l1[k].val, 0, now)
      BY <1>10 DEF CoherenceInv, KnownOf, Known
    <2>2. /\ l1[k] # None => touched.item = Store(l1[k].val, 0, now)
          /\ l1[k] = None => touched.item = None
      BY <1>5 DEF Touch, Result
    <2>3. Fresh(touched.item, now)
      BY <1>3, <1>6, <1>7, <2>2
    <2>4. CASE L1Fails(c, touched.item)
      BY <1>3, <1>4, <2>3, <2>4, FailedStep DEF L1Fails
    <2>5. CASE ~L1Fails(c, touched.item)
      <3>1. /\ SetL1(c, touched.item) /\ ReturnSecond(c, "nil", got[c].val)
            /\ UNCHANGED got
        BY <1>10, <2>5 DEF BatchGat
      <3>2. /\ l1' = [l1 EXCEPT ![k] = touched.item] /\ l2' = [l2 EXCEPT ![k] = l2[k]]
            /\ faults' = faults
        BY <1>8, <3>1 DEF SetL1
      <3>3. /\ \A d \in Conns \ {c} : pc'[d] = pc[d] /\ got'[d] = got[d]
            /\ pc'[c] = "done"
        BY <1>2, <3>1 DEF ReturnSecond, Return
      <3>4. torn' = torn
        BY <1>4, <3>1 DEF ReturnSecond, Overwrites
      <3>5. Known(c, pc'[c], r, got'[c], touched.item, l2[k], now, torn')
        BY <3>3 DEF Known
      <3>6. OnlyFailuresTear'
        BY <1>4, <3>2, <3>4 DEF CoherenceInv, OnlyFailuresTear
      <3>7. k \in torn' \/ touched.item = None \/ touched.item = l2[k]
        BY <2>1, <2>2, <3>4
      <3> QED BY <1>3, <1>4, <2>3, <3>2, <3>3, <3>4, <3>5, <3>6, <3>7, CallStep
    <2> QED BY <2>4, <2>5
  <1> QED BY <1>9, <1>10 DEF BatchGat

\* What a connection relies on survives a second passing ...
LEMMA KnownLater ==
  ASSUME NEW c, NEW label, NEW r \in Request, NEW item \in Item,
         label \in Holding => item \in Entry,
         NEW i1 \in Item, NEW i2 \in Item, NEW t \in Nat, NEW doubted,
         t >= StartTime, Fresh(i1, t), Fresh(i2, t),
         Known(c, label, r, item, i1, i2, t, doubted)
  PROVE  Known(c, label, r, item, Live(i1, t + 1), Live(i2, t + 1), t + 1, doubted)
  <1> DEFINE j1 == Live(i1, t + 1)
             j2 == Live(i2, t + 1)
  <1>1. r.val \in Value /\ r.exptime \in Nat
    BY DEF Request
  <1>2. /\ j1 \in {None, i1} /\ j2 \in {None, i2}
        /\ \A val \in Value : Live(Store(val, r.exptime, t), t + 1) = Store(val, r.exptime, t + 1)
    BY <1>1, ASecondLater
  <1>3. i1 # None => i1.val \in Value
    BY DEF Item, Entry
  <1>4. label = "L1" => Halfway(c, r, j1, j2, t + 1, doubted)
    <2> SUFFICES ASSUME Halfway(c, r, i1, i2, t, doubted)
                 PROVE  Halfway(c, r, j1, j2, t + 1, doubted)
      BY DEF Known
    <2>1. r.op \in Stores => j2 = Store(r.val, r.exptime, t + 1)
      BY <1>1, <1>2 DEF Halfway
    <2>2. r.op = "Touch" => \/ r.key \in doubted \/ j1 = None
                            \/ j2 = Store(j1.val, r.exptime, t + 1)
      BY <1>2, <1>3 DEF Halfway
    <2>3. \A ext \in {AppendCmd(i1, r.val), PrependCmd(i1, r.val)} :
            ext = Result(i2, "nil") => j1 = None \/ j2 = i2
      <3> SUFFICES ASSUME NEW ext \in {AppendCmd(i1, r.val), PrependCmd(i1, r.val)},
                          ext = Result(i2, "nil"), j1 # None
                   PROVE  j2 = i2
        OBVIOUS
      <3>1. i1 # None /\ i2 # None /\ i2.exp = i1.exp
        BY <1>1, ExtendsKeepDeadline DEF Result
      <3> QED BY <3>1 DEF Live
    <2>4. r.op = "Append" => \/ r.key \in doubted \/ j1 = None
                             \/ AppendCmd(j1, r.val) = Result(j2, "nil")
      BY <1>2, <2>3 DEF Halfway
    <2>5. r.op = "Prepend" => \/ r.key \in doubted \/ j1 = None
                              \/ PrependCmd(j1, r.val) = Result(j2, "nil")
      BY <1>2, <2>3 DEF Halfway
    <2> QED BY <1>2, <2>1, <2>2, <2>4, <2>5 DEF Halfway
  <1>5. label = "L2Touch" =>
          /\ r.key \in doubted \/ j2 # None \/ t + 1 > StartTime
          /\ \/ r.key \in doubted \/ j1 = None
             \/ j1.exp = r.exptime /\ (j2 = None \/ j2.val = j1.val)
          /\ r.key \in doubted \/ j2 = None \/ j2.val = item.val
    <2>1. label = "L2Touch" =>
            /\ \/ r.key \in doubted \/ j1 = None
               \/ j1.exp = r.exptime /\ (j2 = None \/ j2.val = j1.val)
            /\ r.key \in doubted \/ j2 = None \/ j2.val = item.val
      BY <1>2 DEF Known
    <2>2. t + 1 > StartTime
      BY TimeAssumption
    <2> QED BY <2>1, <2>2
  <1>6. label = "L1Add" => /\ r.key \in doubted \/ j1 = None
                           /\ j2 = Store(item.val, r.exptime, t + 1)
    BY <1>2 DEF Known, Holding, Entry
  <1>7. label = "Fill" => j2 = Live(item, t + 1) /\ Absolute(item)
    BY ASecondLater DEF Known
  <1>8. (label = "L2Gat" /\ c \in MainConns) => r.key \in doubted \/ j1 = None
    BY <1>2 DEF Known
  <1>9. label = "L1Touch" => r.key \in doubted \/ j1 = None \/ j2 = Store(j1.val, 0, t + 1)
    <2>1. i1 # None => Live(Store(i1.val, 0, t), t + 1) = Store(i1.val, 0, t + 1)
      BY <1>3, ASecondLater
    <2> QED BY <1>2, <2>1 DEF Known
  <1> QED BY <1>4, <1>5, <1>6, <1>7, <1>8, <1>9 DEF Known

\* ... and L1 dropping the entry.
LEMMA KnownEvicted ==
  ASSUME NEW c, NEW label, NEW r, NEW item, NEW i1, NEW i2, NEW t, NEW doubted,
         Known(c, label, r, item, i1, i2, t, doubted)
  PROVE  Known(c, label, r, item, None, i2, t, doubted)
  BY DEF Known, Halfway

\* The invariant holds throughout, whatever the numbers of connections, keys
\* and failures.
LEMMA CoherenceInvariant ==
  ASSUME Locked, FixedDeadlines, BatchGatsForGood
  PROVE  Spec => []CoherenceInv
  <1>1. Init => CoherenceInv
    <2> SUFFICES ASSUME Init PROVE CoherenceInv
      OBVIOUS
    <2>1. /\ \A k \in Keys : l1[k] = None /\ l2[k] = None
          /\ \A c \in Conns : pc[c] = "idle"
          /\ now = StartTime /\ torn = {}
      BY DEF Init, OrcaInit
    <2> QED BY <2>1, TimeAssumption
            DEF CoherenceInv, ServersOK, Fresh, Absolute, Live, Sent, KnownOf, Inside,
                Coherent, Agree, OnlyFailuresTear
  <1>2. TypeInv /\ TypeInv' /\ LockExclusion /\ CoherenceInv /\ [Next]_vars => CoherenceInv'
    <2> SUFFICES ASSUME TypeInv, TypeInv', LockExclusion, CoherenceInv, [Next]_vars
                 PROVE  CoherenceInv'
      OBVIOUS
    <2>1. /\ pc \in [Conns -> Labels] /\ req \in [Conns -> Request \cup {None}]
          /\ got \in [Conns -> Item] /\ l1 \in [Keys -> Item] /\ l2 \in [Keys -> Item]
          /\ now \in Nat
      BY DEF TypeInv, TypeOK, OrcaTypeOK
    <2>2. ASSUME NEW c \in Conns, Receive(c) PROVE CoherenceInv'
      <3>1. PICK r \in Requests : r.op \in OpsOf[c] /\ req' = [req EXCEPT ![c] = r]
        BY <2>2 DEF Receive
      <3>2. FixedDeadline(r.exptime)
        BY DEF Requests, FixedDeadlines, FixedDeadline
      <3>3. pc'[c] = "lock" /\ pc[c] = "idle" /\ req'[c] = r
        BY <2>1, <2>2, <3>1 DEF Receive
      <3>5. (r.op = "Gat" /\ c \in BatchConns) => r.exptime = 0
        BY <3>1 DEF Requests, BatchGatsForGood
      <3>4. Sent(c)' /\ KnownOf(c)' /\ ~Midway(c) /\ ~Midway(c)'
        BY <3>1, <3>2, <3>3, <3>5 DEF Sent, KnownOf, Inside, Midway
      <3> QED BY <2>1, <2>2, <3>1, <3>4, OutsideStep DEF Receive
    <2>3. ASSUME NEW c \in Conns, Acquire(c) \/ Drain(c) PROVE CoherenceInv'
      <3>1. /\ pc[c] \in {"lock", "drain"} /\ pc'[c] \in {"drain", FirstCall(c)}
            /\ UNCHANGED <<l1, l2, now, req, got, reply, faults, torn>>
            /\ \A d \in Conns \ {c} : pc'[d] = pc[d]
        BY <2>1, <2>3 DEF Acquire, Drain
      <3>2. req[c].op \in OpsOf[c] /\ FixedDeadline(req[c].exptime)
        BY <3>1 DEF CoherenceInv, Sent
      <3>3. /\ FirstCall(c) \in {"L1Get", "GetE", "L1Gat", "L2Gat", "L2"}
            /\ FirstCall(c) = "L2Gat" => c \notin MainConns
            /\ (req[c].op = "Gat" /\ c \in BatchConns) => req[c].exptime = 0
        BY <3>1 DEF FirstCall, CoherenceInv, Sent
      <3>4. req[c].op \in Reads => FirstCall(c) \in {"L1Get", "GetE"}
        BY DEF FirstCall, Reads
      <3>5. Sent(c)' /\ KnownOf(c)' /\ ~Midway(c) /\ ~Midway(c)'
        BY <3>1, <3>2, <3>3, <3>4 DEF Sent, KnownOf, Known, Midway, Reading, Inside
      <3> QED BY <2>1, <3>1, <3>5, OutsideStep
    <2>4. ASSUME NEW c \in Conns, MainStep(c) \/ BatchPortStep(c) PROVE CoherenceInv'
      <3>1. Inside(c) /\ Inside(c)' /\ UNCHANGED lockVars
        BY <2>4, StepsStayInside DEF Inside, lockVars
      <3>2. \/ WriteStep(c) \/ L1L2Gat(c) \/ BatchGat(c)
            \/ L1L2Get(c) \/ L1L2GetE(c) \/ BatchGet(c) \/ BatchGetE(c)
        BY <2>4 DEF MainStep, BatchPortStep, L1L2Step, BatchStep, WriteStep
      <3> QED BY <3>1, <3>2, WritesCohere, GetsCohere, GatsCohere, BatchGatsCohere
    <2>5. ASSUME NEW c \in Conns, Finish(c) \/ Quit(c) \/ Connect(c) PROVE CoherenceInv'
      <3>1. pc[c] \in {"done", "idle", "closed"} /\ pc'[c] \in {"idle", "closed"}
        BY <2>1, <2>5 DEF Finish, Quit, Connect
      <3>2. Sent(c)' /\ KnownOf(c)' /\ ~Midway(c) /\ ~Midway(c)'
        BY <3>1 DEF Sent, KnownOf, Inside, Midway
      <3> QED BY <2>1, <2>5, <3>2, OutsideStep DEF Finish, Quit, Connect
    <2>6. ASSUME NEW k \in Keys, Evict(k) PROVE CoherenceInv'
      <3>1. /\ UNCHANGED <<l2, now, pc, req, got, faults, torn>>
            /\ \A j \in Keys : l1'[j] = IF j = k THEN None ELSE l1[j]
        BY <2>1, <2>6 DEF Evict, EvictL1
      <3>2. \A j \in Keys : ServersOK(j)'
        BY <3>1 DEF CoherenceInv, ServersOK, Fresh, Live
      <3>3. \A d \in Conns : Sent(d)'
        BY <3>1 DEF CoherenceInv, Sent, Inside
      <3>4. ASSUME NEW d \in Conns PROVE KnownOf(d)'
        <4> DEFINE j == req[d].key
        <4> SUFFICES ASSUME Inside(d) PROVE Known(d, pc[d], req[d], got[d], l1'[j], l2[j], now, torn)
          BY <3>1 DEF KnownOf, Inside
        <4>1. j \in Keys
          BY AtWork DEF Inside
        <4>2. Known(d, pc[d], req[d], got[d], l1[j], l2[j], now, torn)
          BY DEF CoherenceInv, KnownOf
        <4>3. Known(d, pc[d], req[d], got[d], None, l2[j], now, torn)
          BY <4>2, KnownEvicted
        <4>4. l1'[j] = None \/ l1'[j] = l1[j]
          BY <3>1, <4>1
        <4> QED BY <4>2, <4>3, <4>4
      <3>5. Coherent' /\ OnlyFailuresTear'
        BY <3>1 DEF CoherenceInv, Coherent, Agree, Settled, Midway, OnlyFailuresTear
      <3> QED BY <3>1, <3>2, <3>3, <3>4, <3>5 DEF CoherenceInv
    <2>7. CASE ClockTick
      <3>1. /\ UNCHANGED <<pc, req, got, faults, torn>> /\ now' = now + 1
            /\ \A j \in Keys : l1'[j] = Live(l1[j], now + 1) /\ l2'[j] = Live(l2[j], now + 1)
        BY <2>7 DEF ClockTick, Tick
      <3>2. \A j \in Keys : ServersOK(j)'
        BY <2>1, <3>1, ASecondLater DEF CoherenceInv, ServersOK
      <3>3. \A d \in Conns : Sent(d)'
        BY <3>1 DEF CoherenceInv, Sent, Inside
      <3>4. ASSUME NEW d \in Conns PROVE KnownOf(d)'
        <4> DEFINE j == req[d].key
        <4> SUFFICES ASSUME Inside(d)
                     PROVE  Known(d, pc[d], req[d], got[d], l1'[j], l2'[j], now + 1, torn)
          BY <3>1 DEF KnownOf, Inside
        <4>1. j \in Keys /\ req[d] \in Request /\ l1[j] \in Item /\ l2[j] \in Item
          BY AtWork DEF Inside
        <4>2. Known(d, pc[d], req[d], got[d], l1[j], l2[j], now, torn)
          BY DEF CoherenceInv, KnownOf
        <4>3. got[d] \in Item /\ (pc[d] \in Holding => got[d] \in Entry)
          BY <2>1 DEF TypeInv, Equipped
        <4>4. now >= StartTime /\ Fresh(l1[j], now) /\ Fresh(l2[j], now)
          BY <4>1 DEF CoherenceInv, ServersOK
        <4> QED BY <2>1, <3>1, <4>1, <4>2, <4>3, <4>4, KnownLater
      <3>5. Coherent'
        <4> SUFFICES ASSUME NEW j \in Keys, j \notin torn, Settled(j) PROVE Agree(j)'
          BY <3>1 DEF Coherent, Settled, Midway
        <4>1. l1[j] = None \/ l1[j] = l2[j]
          BY DEF CoherenceInv, Coherent, Agree
        <4> QED BY <3>1, <4>1 DEF Agree, Live
      <3>6. now' >= StartTime /\ OnlyFailuresTear'
        BY <2>1, <3>1, TimeAssumption DEF CoherenceInv, OnlyFailuresTear
      <3> QED BY <3>2, <3>3, <3>4, <3>5, <3>6 DEF CoherenceInv
    <2>8. CASE UNCHANGED vars
      BY <2>8 DEF vars, CoherenceInv, ServersOK, Sent, KnownOf, Inside, Coherent, Agree,
                  Settled, Midway, OnlyFailuresTear
    <2> QED BY <2>2, <2>3, <2>4, <2>5, <2>6, <2>7, <2>8 DEF Next
  <1> QED BY <1>1, <1>2, TypeInvariant, LocksExclude, PTL DEF Spec

\* Under the locks, with fixed deadlines and none asked for by a gat on the
\* batch port: between requests L1 holds what L2 holds, value and deadline, or
\* nothing, except for keys in doubt after a failed request (orcas/l1l2.go,
\* orcas/l1l2batch.go).
THEOREM LevelsCohere ==
  ASSUME Locked, FixedDeadlines, BatchGatsForGood
  PROVE  Spec => []Coherent
  <1>1. CoherenceInv => Coherent
    BY DEF CoherenceInv
  <1> QED BY <1>1, CoherenceInvariant, PTL

\* Under the same hypotheses no request tears its key's levels apart unless a
\* handler call fails or time passes: an add that L2 took is not refused by L1,
\* a touch inside a gat does not miss, an extension that fits L2 fits L1.
THEOREM RequestsDoNotTear ==
  ASSUME Locked, FixedDeadlines, BatchGatsForGood
  PROVE  Spec => []OnlyFailuresTear
  <1>1. CoherenceInv => OnlyFailuresTear
    BY DEF CoherenceInv
  <1> QED BY <1>1, CoherenceInvariant, PTL


=============================================================================
