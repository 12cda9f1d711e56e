----------------------------- MODULE OrcaProofs -----------------------------
(***************************************************************************)
(* Type correctness of the proxy, and the mutual exclusion of its locks,   *)
(* for every value of the constants.                                       *)
(***************************************************************************)
EXTENDS Coherence, SequenceTheorems, TLAPS

(***************************************************************************)
(* What the commands return.                                               *)
(***************************************************************************)

CommandResult == [item : Item, err : {"nil"} \cup CommandErrors]

\* A deadline is a clock reading.
LEMMA DeadlineType ==
  ASSUME NEW exptime \in Nat, NEW t \in Nat
  PROVE  Deadline(exptime, t) \in Nat
  BY BoundsAssumption DEF Deadline

\* What a server sees of an item, or stores, is an item.
LEMMA StoreType ==
  ASSUME NEW val \in Value, NEW exp \in Nat, NEW t \in Nat
  PROVE  Store(val, exp, t) \in Item
  BY DEF Store, Live, Item, Entry

\* Every command of the std handler maps items to items.
LEMMA SetType ==
  ASSUME NEW item \in Item, NEW val \in Value, NEW exptime \in Nat, NEW t \in Nat
  PROVE  Set(item, val, exptime, t) \in CommandResult
  BY DeadlineType, StoreType DEF Set, Result, CommandResult

LEMMA StoresType ==
  ASSUME NEW item \in Item, NEW val \in Value, NEW exptime \in Nat, NEW t \in Nat
  PROVE  /\ Add(item, val, exptime, t) \in CommandResult
         /\ Replace(item, val, exptime, t) \in CommandResult
  BY SetType DEF Add, Replace, Result, CommandResult, CommandErrors

LEMMA ExtendType ==
  ASSUME NEW item \in Entry, NEW val \in Seq(Data)
  PROVE  Extend(item, val) \in CommandResult
  <1>1. CASE Len(val) > MaxLen
    BY <1>1 DEF Extend, Result, CommandResult, CommandErrors, Item
  <1>2. CASE ~(Len(val) > MaxLen)
    <2>1. val \in Value
      BY <1>2, BoundsAssumption DEF Value
    <2>2. [item EXCEPT !.val = val] \in Entry
      BY <2>1 DEF Entry
    <2> QED BY <1>2, <2>2 DEF Extend, Result, CommandResult, Item
  <1> QED BY <1>1, <1>2

LEMMA ExtendsType ==
  ASSUME NEW item \in Item, NEW data \in Value
  PROVE  /\ AppendCmd(item, data) \in CommandResult
         /\ PrependCmd(item, data) \in CommandResult
  <1>1. CASE item = None
    BY <1>1 DEF AppendCmd, PrependCmd, Result, CommandResult, CommandErrors
  <1>2. CASE item # None
    <2>1. item \in Entry /\ item.val \in Seq(Data) /\ data \in Seq(Data)
      BY <1>2 DEF Item, Entry, Value
    <2>2. item.val \o data \in Seq(Data) /\ data \o item.val \in Seq(Data)
      BY <2>1
    <2> QED BY <1>2, <2>1, <2>2, ExtendType DEF AppendCmd, PrependCmd
  <1> QED BY <1>1, <1>2

LEMMA DeleteType ==
  ASSUME NEW item \in Item
  PROVE  Delete(item) \in CommandResult
  BY DEF Delete, Result, CommandResult, CommandErrors, Item

LEMMA TouchType ==
  ASSUME NEW item \in Item, NEW exptime \in Nat, NEW t \in Nat
  PROVE  /\ Touch(item, exptime, t) \in CommandResult
         /\ GAT(item, exptime, t) \in CommandResult
  <1>1. item # None => item.val \in Value
    BY DEF Item, Entry
  <1> QED BY <1>1, DeadlineType, StoreType
          DEF Touch, GAT, Result, CommandResult, CommandErrors

-----------------------------------------------------------------------------
(***************************************************************************)
(* The type invariant, strengthened to be inductive: a connection at work  *)
(* has a request, one that goes on after a read has an entry in hand, one  *)
(* that is done has an answer.                                             *)
(***************************************************************************)

Holding == {"Fill", "L1Add", "L2Touch", "L1Touch"}

Equipped(c) ==
  /\ pc[c] \notin {"closed", "idle"} => req[c] \in Request
  /\ pc[c] \in Holding => got[c] \in Entry
  /\ pc[c] = "done" => reply[c] \in Reply

TypeInv == TypeOK /\ \A c \in Conns : Equipped(c)

\* A connection that moves without touching the others' state.
LEMMA OthersEquipped ==
  ASSUME TypeInv, NEW c \in Conns,
         \A d \in Conns \ {c} :
           pc'[d] = pc[d] /\ req'[d] = req[d] /\ got'[d] = got[d] /\ reply'[d] = reply[d],
         Equipped(c)'
  PROVE  \A d \in Conns : Equipped(d)'
  <1> SUFFICES ASSUME NEW d \in Conns PROVE Equipped(d)'
    OBVIOUS
  <1>1. CASE d = c
    BY <1>1
  <1>2. CASE d # c
    BY <1>2 DEF TypeInv, Equipped
  <1> QED BY <1>1, <1>2

\* A failed call leaves items behind and a reply.
LEMMA FailsType ==
  ASSUME TypeInv, NEW c \in Conns, pc[c] \notin {"closed", "idle"},
         NEW items1 \in SUBSET Item, NEW items2 \in SUBSET Item,
         Fails(c, items1, items2), UNCHANGED <<now, req, writer, readers>>
  PROVE  TypeInv'
  <1>1. req[c] \in Request /\ req[c].key \in Keys
    BY DEF TypeInv, Equipped, Request
  <1>2. PICK err \in FaultErrors : Return(c, err, None)
    BY DEF Fails
  <1>3. [err |-> err, val |-> None] \in Reply
    BY <1>2 DEF Reply, Errors, FaultErrors
  <1>4. TypeOK'
    <2>1. l1' \in [Keys -> Item]
      BY <1>1 DEF TypeInv, TypeOK, OrcaTypeOK, Fails
    <2>2. l2' \in [Keys -> Item]
      BY <1>1 DEF TypeInv, TypeOK, OrcaTypeOK, Fails
    <2>3. pc' \in [Conns -> Labels] /\ reply' \in [Conns -> Reply \cup {None}]
      BY <1>2, <1>3 DEF TypeInv, TypeOK, OrcaTypeOK, Return, Labels
    <2>4. faults' \in Nat /\ torn' \subseteq Keys
      BY <1>1 DEF TypeInv, TypeOK, OrcaTypeOK, Fails
    <2> QED BY <2>1, <2>2, <2>3, <2>4 DEF TypeInv, TypeOK, OrcaTypeOK, Fails
  <1>5. Equipped(c)'
    BY <1>1, <1>2, <1>3 DEF TypeInv, TypeOK, OrcaTypeOK, Equipped, Return, Holding
  <1> QED BY <1>2, <1>4, <1>5, OthersEquipped
          DEF TypeInv, TypeOK, OrcaTypeOK, Fails, Return

LEMMA L2ThenL1Type ==
  ASSUME TypeInv, NEW c \in Conns, pc[c] \notin {"closed", "idle"},
         NEW at2 \in CommandResult, NEW at1 \in CommandResult, NEW benign,
         L2ThenL1(c, at2, at1, benign), UNCHANGED lockVars
  PROVE  TypeInv'
  <1>1. req[c] \in Request /\ req[c].key \in Keys
    BY DEF TypeInv, Equipped, Request
  <1>2. /\ at2.item \in Item /\ at1.item \in Item
        /\ at2.err \in Errors /\ at1.err \in Errors
    BY DEF CommandResult, Errors
  <1>3. l1[req[c].key] \in Item /\ l2[req[c].key] \in Item
    BY <1>1 DEF TypeInv, TypeOK, OrcaTypeOK
  <1>4. CASE L2Fails(c, at2.item)
    BY <1>2, <1>3, <1>4, FailsType DEF L2Fails, L2ThenL1, lockVars
  <1>5. CASE L1Fails(c, at1.item)
    BY <1>2, <1>3, <1>5, FailsType DEF L1Fails, L2ThenL1, lockVars
  <1>6. CASE /\ SetL2(c, at2.item)
             /\ IF at2.err = "nil" THEN Goto(c, "L1") ELSE Return(c, at2.err, None)
             /\ UNCHANGED <<got, torn>>
    <2>1. [err |-> at2.err, val |-> None] \in Reply
      BY <1>2 DEF Reply
    <2>2. TypeOK'
      BY <1>1, <1>2, <1>6, <2>1
      DEF TypeInv, TypeOK, OrcaTypeOK, SetL2, Goto, Return, Labels, L2ThenL1, lockVars
    <2>3. Equipped(c)'
      BY <1>1, <1>6, <2>1
      DEF TypeInv, TypeOK, OrcaTypeOK, Equipped, Goto, Return, Holding, L2ThenL1
    <2> QED BY <1>6, <2>2, <2>3, OthersEquipped
            DEF TypeInv, TypeOK, OrcaTypeOK, Goto, Return, L2ThenL1
  <1>7. CASE /\ SetL1(c, at1.item)
             /\ ReturnSecond(c, IF at1.err \in benign THEN "nil" ELSE at1.err, None)
             /\ UNCHANGED got
    <2>1. PICK err \in Errors : ReturnSecond(c, err, None)
      BY <1>2, <1>7 DEF Errors
    <2>2. [err |-> err, val |-> None] \in Reply
      BY DEF Reply
    <2>3. TypeOK'
      BY <1>1, <1>2, <1>7, <2>1, <2>2
      DEF TypeInv, TypeOK, OrcaTypeOK, SetL1, ReturnSecond, Return, Labels, L2ThenL1, lockVars
    <2>4. Equipped(c)'
      BY <1>1, <1>7, <2>1, <2>2
      DEF TypeInv, TypeOK, OrcaTypeOK, Equipped, ReturnSecond, Return, Holding, L2ThenL1
    <2> QED BY <1>7, <2>1, <2>3, <2>4, OthersEquipped
            DEF TypeInv, TypeOK, OrcaTypeOK, ReturnSecond, Return, L2ThenL1
  <1> QED BY <1>4, <1>5, <1>6, <1>7 DEF L2ThenL1

\* What a request at work is made of, and what it finds at the levels.
LEMMA AtWork ==
  ASSUME TypeInv, NEW c \in Conns, pc[c] \notin {"closed", "idle"}
  PROVE  /\ req[c] \in Request /\ req[c].key \in Keys
         /\ req[c].val \in Value /\ req[c].exptime \in Nat
         /\ l1[req[c].key] \in Item /\ l2[req[c].key] \in Item
         /\ now \in Nat
  <1>1. req[c] \in Request /\ req[c].key \in Keys
    BY DEF TypeInv, Equipped, Request
  <1> QED BY <1>1 DEF TypeInv, TypeOK, OrcaTypeOK, Request

\* A write of either port preserves the type invariant.
LEMMA WritesType ==
  ASSUME TypeInv, NEW c \in Conns, UNCHANGED lockVars,
         \/ L1L2Set(c) \/ L1L2Add(c) \/ L1L2Replace(c) \/ L1L2Append(c)
         \/ L1L2Prepend(c) \/ L1L2Delete(c) \/ L1L2Touch(c)
         \/ BatchSet(c) \/ BatchAdd(c) \/ BatchReplace(c) \/ BatchAppend(c)
         \/ BatchPrepend(c) \/ BatchDelete(c) \/ BatchTouch(c)
  PROVE  TypeInv'
  <1>1. pc[c] \notin {"closed", "idle"}
    BY DEF L1L2Set, L1L2Add, L1L2Replace, L1L2Append, L1L2Prepend, L1L2Delete,
           L1L2Touch, BatchSet, BatchAdd, BatchReplace, BatchAppend,
           BatchPrepend, BatchDelete, BatchTouch, Serving, BatchServing
  <1> USE <1>1, AtWork, L2ThenL1Type
  <1>2. CASE L1L2Set(c)      BY <1>2, SetType DEF L1L2Set
  <1>3. CASE L1L2Add(c)      BY <1>3, StoresType DEF L1L2Add
  <1>4. CASE L1L2Replace(c)  BY <1>4, StoresType DEF L1L2Replace
  <1>5. CASE L1L2Append(c)   BY <1>5, ExtendsType DEF L1L2Append
  <1>6. CASE L1L2Prepend(c)  BY <1>6, ExtendsType DEF L1L2Prepend
  <1>7. CASE L1L2Delete(c)   BY <1>7, DeleteType DEF L1L2Delete
  <1>8. CASE L1L2Touch(c)    BY <1>8, TouchType DEF L1L2Touch
  <1>9. CASE BatchSet(c)     BY <1>9, SetType, StoresType DEF BatchSet
  <1>10. CASE BatchAdd(c)     BY <1>10, StoresType DEF BatchAdd
  <1>11. CASE BatchReplace(c) BY <1>11, StoresType DEF BatchReplace
  <1>12. CASE BatchAppend(c)  BY <1>12, ExtendsType DEF BatchAppend
  <1>13. CASE BatchPrepend(c) BY <1>13, ExtendsType DEF BatchPrepend
  <1>14. CASE BatchDelete(c)  BY <1>14, DeleteType DEF BatchDelete
  <1>15. CASE BatchTouch(c)   BY <1>15, TouchType DEF BatchTouch
  <1> QED BY <1>2, <1>3, <1>4, <1>5, <1>6, <1>7, <1>8, <1>9, <1>10, <1>11,
             <1>12, <1>13, <1>14, <1>15

\* A step that reads, or ends, without a failed call: the connection goes to a
\* label with the item or the reply that label calls for.
LEMMA ReadStepType ==
  ASSUME TypeInv, NEW c \in Conns, pc[c] \notin {"closed", "idle"},
         l1' \in [Keys -> Item], l2' \in [Keys -> Item],
         torn' \subseteq Keys,
         UNCHANGED <<now, req, faults, writer, readers>>,
         NEW item \in Item, got' \in {got, [got EXCEPT ![c] = item]},
         \/ \E label \in Labels \ {"done"} :
              Goto(c, label) /\ (label \in Holding => got'[c] \in Entry)
         \/ \E err \in Errors, val \in Value \cup {None} : Return(c, err, val)
  PROVE  TypeInv'
  <1>1. \A err \in Errors, val \in Value \cup {None} :
          [err |-> err, val |-> val] \in Reply
    BY DEF Reply
  <1>2. TypeOK'
    BY <1>1 DEF TypeInv, TypeOK, OrcaTypeOK, Goto, Return, Labels
  <1>3. Equipped(c)'
    BY <1>1 DEF TypeInv, TypeOK, OrcaTypeOK, Equipped, Goto, Return, Holding, Labels
  <1> QED BY <1>2, <1>3, OthersEquipped
          DEF TypeInv, TypeOK, OrcaTypeOK, Goto, Return

\* Get and GetE of either port preserve the type invariant.
LEMMA ReadsType ==
  ASSUME TypeInv, NEW c \in Conns, UNCHANGED lockVars,
         L1L2Get(c) \/ L1L2GetE(c) \/ BatchGet(c) \/ BatchGetE(c)
  PROVE  TypeInv'
  <1> DEFINE k == req[c].key
  <1>1. pc[c] \notin {"closed", "idle"}
    BY DEF L1L2Get, L1L2GetE, BatchGet, BatchGetE, Serving, BatchServing
  <1>2. /\ req[c] \in Request /\ k \in Keys /\ l1[k] \in Item /\ l2[k] \in Item
        /\ now \in Nat /\ got \in [Conns -> Item]
    BY <1>1, AtWork DEF TypeInv, TypeOK, OrcaTypeOK
  <1>3. /\ l1[k] # None => l1[k].val \in Value
        /\ l2[k] # None => l2[k].val \in Value /\ l2[k] \in Entry
    BY <1>2 DEF Item, Entry
  <1>4. l1 \in [Keys -> Item] /\ l2 \in [Keys -> Item] /\ torn \subseteq Keys
    BY DEF TypeInv, TypeOK, OrcaTypeOK
  <1>5. "nil" \in Errors /\ "UnknownCmd" \in Errors
    BY DEF Errors
  <1>6. CASE GetFromL1(c)
    <2>1. CASE L1Fails(c, l1[k])
      BY <1>1, <1>2, <1>6, <2>1, FailsType DEF L1Fails, GetFromL1, lockVars
    <2>2. CASE ~L1Fails(c, l1[k])
      BY <1>1, <1>2, <1>3, <1>4, <1>5, <1>6, <2>2, ReadStepType
      DEF GetFromL1, lockVars, Labels, Holding
    <2> QED BY <2>1, <2>2
  <1>7. CASE BatchGetFromL2(c)
    <2>1. CASE L2Fails(c, l2[k])
      BY <1>1, <1>2, <1>7, <2>1, FailsType DEF L2Fails, BatchGetFromL2, lockVars
    <2>2. CASE ~L2Fails(c, l2[k])
      BY <1>1, <1>2, <1>3, <1>4, <1>5, <1>7, <2>2, ReadStepType
      DEF BatchGetFromL2, lockVars
    <2> QED BY <2>1, <2>2
  <1>8. CASE GetE(c)
    BY <1>1, <1>2, <1>4, <1>5, <1>8, ReadStepType DEF GetE, lockVars
  <1>9. CASE L1L2GetFromL2(c) /\ pc[c] = "L2Get"
    <2>1. CASE L2Fails(c, l2[k])
      BY <1>1, <1>2, <1>9, <2>1, FailsType DEF L2Fails, L1L2GetFromL2, lockVars
    <2>2. CASE ~L2Fails(c, l2[k])
      <3>1. /\ got' = [got EXCEPT ![c] = l2[k]]
            /\ IF l2[k] = None THEN Return(c, "nil", None) ELSE Goto(c, "Fill")
            /\ UNCHANGED <<l1, l2, faults, torn, now, req, writer, readers>>
        BY <1>9, <2>2 DEF L1L2GetFromL2, lockVars
      <3>2. got'[c] = l2[k]
        BY <1>2, <3>1
      <3> QED BY <1>1, <1>2, <1>3, <1>4, <1>5, <3>1, <3>2, ReadStepType
              DEF Labels
    <2> QED BY <2>1, <2>2
  <1>10. CASE L1L2GetFromL2(c) /\ pc[c] = "Fill"
    <2> DEFINE filled == Set(l1[k], got[c].val, got[c].exp, now)
    <2>1. got[c].val \in Value /\ got[c].exp \in Nat
      BY <1>10 DEF TypeInv, Equipped, Holding, Entry
    <2>2. filled.item \in Item
      BY <1>2, <2>1, SetType DEF CommandResult
    <2>3. CASE L1Fails(c, filled.item)
      BY <1>1, <1>2, <1>10, <2>2, <2>3, FailsType DEF L1Fails, L1L2GetFromL2, lockVars
    <2>4. CASE ~L1Fails(c, filled.item)
      <3>1. /\ SetL1(c, filled.item) /\ Return(c, "nil", got[c].val)
            /\ UNCHANGED <<got, torn, now, req, writer, readers>>
        BY <1>10, <2>4 DEF L1L2GetFromL2, lockVars
      <3>2. l1' \in [Keys -> Item] /\ UNCHANGED <<l2, faults>>
        BY <1>2, <1>4, <2>2, <3>1 DEF SetL1
      <3> QED BY <1>1, <1>2, <1>4, <1>5, <2>1, <3>1, <3>2, ReadStepType
    <2> QED BY <2>3, <2>4
  <1> QED BY <1>6, <1>7, <1>8, <1>9, <1>10
          DEF L1L2Get, L1L2GetE, BatchGet, BatchGetE, L1L2GetFromL2

\* Gat of either port preserves the type invariant.
LEMMA GatType ==
  ASSUME TypeInv, NEW c \in Conns, UNCHANGED lockVars, L1L2Gat(c) \/ BatchGat(c)
  PROVE  TypeInv'
  <1> DEFINE k == req[c].key
             exptime == req[c].exptime
             atL1 == GAT(l1[k], exptime, now)
             atL2 == GAT(l2[k], exptime, now)
             touched2 == Touch(l2[k], exptime, now)
             touched1 == Touch(l1[k], 0, now)
             added == Add(l1[k], got[c].val, exptime, now)
  <1>1. pc[c] \notin {"closed", "idle"}
    BY DEF L1L2Gat, BatchGat, Serving, BatchServing
  <1>2. /\ k \in Keys /\ l1[k] \in Item /\ l2[k] \in Item /\ exptime \in Nat
        /\ now \in Nat
        /\ got \in [Conns -> Item] /\ l1 \in [Keys -> Item] /\ l2 \in [Keys -> Item]
        /\ req[c].key \in Keys /\ torn \subseteq Keys
    BY <1>1, AtWork DEF TypeInv, TypeOK, OrcaTypeOK
  <1>3. /\ l1[k] # None => l1[k] \in Entry
        /\ l2[k] # None => l2[k] \in Entry
    BY <1>2 DEF Item
  <1>4. /\ atL1.item \in Item /\ atL2.item \in Item
        /\ touched2.item \in Item /\ touched2.err \in Errors
        /\ touched1.item \in Item
    BY <1>2, TouchType DEF CommandResult, Errors
  <1>5. pc[c] \in Holding => got[c].val \in Value
    BY DEF TypeInv, Equipped, Entry
  <1>6. "nil" \in Errors
    BY DEF Errors
  <1>7. \A err, val : ReturnSecond(c, err, val)
                        => Return(c, err, val) /\ torn' \subseteq Keys
    BY <1>2 DEF ReturnSecond
  <1>8. CASE L1L2Gat(c) /\ pc[c] = "L1Gat"
    <2>1. CASE L1Fails(c, atL1.item)
      BY <1>1, <1>2, <1>4, <1>8, <2>1, FailsType DEF L1Fails, L1L2Gat, lockVars
    <2>2. CASE ~L1Fails(c, atL1.item)
      <3>1. /\ SetL1(c, atL1.item) /\ got' = [got EXCEPT ![c] = l1[k]]
            /\ Goto(c, IF l1[k] = None THEN "L2Gat" ELSE "L2Touch")
            /\ UNCHANGED <<torn, now, req, writer, readers>>
        BY <1>8, <2>2 DEF L1L2Gat, lockVars
      <3>2. /\ l1' \in [Keys -> Item] /\ UNCHANGED <<l2, faults>>
            /\ got'[c] = l1[k]
        BY <1>2, <1>4, <3>1 DEF SetL1
      <3>3. PICK label \in {"L2Gat", "L2Touch"} :
              Goto(c, label) /\ (label = "L2Touch" => l1[k] # None)
        BY <3>1
      <3>4. label \in Labels \ {"done"} /\ (label \in Holding => got'[c] \in Entry)
        BY <1>3, <3>2, <3>3 DEF Labels, Holding
      <3>5. \E lab \in Labels \ {"done"} :
              Goto(c, lab) /\ (lab \in Holding => got'[c] \in Entry)
        BY <3>3, <3>4
      <3>6. UNCHANGED <<now, req, faults, writer, readers>> /\ torn' \subseteq Keys
        BY <1>2, <3>1, <3>2
      <3> QED BY <1>1, <1>2, <3>1, <3>2, <3>5, <3>6, ReadStepType
    <2> QED BY <2>1, <2>2
  <1>9. CASE (L1L2Gat(c) \/ BatchGat(c)) /\ pc[c] = "L2Gat"
    <2>1. CASE L2Fails(c, atL2.item)
      BY <1>1, <1>2, <1>4, <1>9, <2>1, FailsType
      DEF L2Fails, L1L2Gat, BatchGat, lockVars
    <2>2. CASE ~L2Fails(c, atL2.item)
      <3>1. /\ SetL2(c, atL2.item) /\ got' = [got EXCEPT ![c] = l2[k]]
            /\ IF l2[k] = None THEN Return(c, "nil", None)
               ELSE Goto(c, "L1Add") \/ Goto(c, "L1Touch")
            /\ UNCHANGED <<torn, now, req, writer, readers>>
        BY <1>9, <2>2 DEF L1L2Gat, BatchGat, lockVars
      <3>2. /\ l2' \in [Keys -> Item] /\ UNCHANGED <<l1, faults>>
            /\ got'[c] = l2[k]
        BY <1>2, <1>4, <3>1 DEF SetL2
      <3> QED BY <1>1, <1>2, <1>3, <1>6, <3>1, <3>2, ReadStepType DEF Labels
    <2> QED BY <2>1, <2>2
  <1>10. CASE L1L2Gat(c) /\ pc[c] = "L1Add"
    <2>1. added.item \in Item
      BY <1>2, <1>5, <1>10, StoresType DEF CommandResult, Holding
    <2>2. CASE L1Fails(c, added.item)
      BY <1>1, <1>2, <1>10, <2>1, <2>2, FailsType DEF L1Fails, L1L2Gat, lockVars
    <2>3. CASE ~L1Fails(c, added.item)
      <3>1. /\ SetL1(c, added.item) /\ ReturnSecond(c, "nil", got[c].val)
            /\ UNCHANGED <<got, now, req, writer, readers>>
        BY <1>10, <2>3 DEF L1L2Gat, lockVars
      <3>2. l1' \in [Keys -> Item] /\ UNCHANGED <<l2, faults>>
        BY <1>2, <2>1, <3>1 DEF SetL1
      <3> QED BY <1>1, <1>2, <1>5, <1>6, <1>7, <1>10, <3>1, <3>2, ReadStepType
              DEF Holding
    <2> QED BY <2>2, <2>3
  <1>11. CASE L1L2Gat(c) /\ pc[c] = "L2Touch"
    <2>1. CASE L2Fails(c, touched2.item)
      BY <1>1, <1>2, <1>4, <1>11, <2>1, FailsType DEF L2Fails, L1L2Gat, lockVars
    <2>2. CASE ~L2Fails(c, touched2.item)
      <3>1. /\ SetL2(c, touched2.item)
            /\ ReturnSecond(c, touched2.err,
                            IF touched2.err = "nil" THEN got[c].val ELSE None)
            /\ UNCHANGED <<got, now, req, writer, readers>>
        BY <1>11, <2>2 DEF L1L2Gat, lockVars
      <3>2. l2' \in [Keys -> Item] /\ UNCHANGED <<l1, faults>>
        BY <1>2, <1>4, <3>1 DEF SetL2
      <3> QED BY <1>1, <1>2, <1>4, <1>5, <1>7, <1>11, <3>1, <3>2, ReadStepType
              DEF Holding
    <2> QED BY <2>1, <2>2
  <1>12. CASE BatchGat(c) /\ pc[c] = "L1Touch"
    <2>1. CASE L1Fails(c, touched1.item)
      BY <1>1, <1>2, <1>4, <1>12, <2>1, FailsType DEF L1Fails, BatchGat, lockVars
    <2>2. CASE ~L1Fails(c, touched1.item)
      <3>1. /\ SetL1(c, touched1.item) /\ ReturnSecond(c, "nil", got[c].val)
            /\ UNCHANGED <<got, now, req, writer, readers>>
        BY <1>12, <2>2 DEF BatchGat, lockVars
      <3>2. l1' \in [Keys -> Item] /\ UNCHANGED <<l2, faults>>
        BY <1>2, <1>4, <3>1 DEF SetL1
      <3> QED BY <1>1, <1>2, <1>5, <1>6, <1>7, <1>12, <3>1, <3>2, ReadStepType
              DEF Holding
    <2> QED BY <2>1, <2>2
  <1> QED BY <1>8, <1>9, <1>10, <1>11, <1>12 DEF L1L2Gat, BatchGat

\* The parsers deliver well-formed requests.
LEMMA RequestsType == Requests \subseteq Request
  <1>1. \A d \in Data : <<d>> \in Value
    BY BoundsAssumption DEF Value
  <1>2. <<>> \in Value
    BY BoundsAssumption DEF Value
  <1>3. [op : Stores, key : Keys, val : {<<d>> : d \in Data}, exptime : Exptimes]
          \subseteq Request
    BY <1>1, TimeAssumption DEF Request, Stores, Ops
  <1>4. [op : Extends, key : Keys, val : {<<d>> : d \in Data}, exptime : {0}]
          \subseteq Request
    BY <1>1 DEF Request, Extends, Ops
  <1>5. [op : Expiring, key : Keys, val : {<<>>}, exptime : Exptimes] \subseteq Request
    BY <1>2, TimeAssumption DEF Request, Expiring, Ops
  <1>6. [op : Reads \cup {"Delete"}, key : Keys, val : {<<>>}, exptime : {0}]
          \subseteq Request
    BY <1>2 DEF Request, Reads, Ops
  <1> QED BY <1>3, <1>4, <1>5, <1>6 DEF Requests

\* The state of the whole proxy has the types the model declares, and a
\* connection at work always has what its next step reads.
LEMMA TypeInvariant == Spec => []TypeInv
  <1>1. Init => TypeInv
    BY TimeAssumption
    DEF Init, OrcaInit, TypeInv, TypeOK, OrcaTypeOK, Equipped, Item, Labels, Holding
  <1>2. TypeInv /\ [Next]_vars => TypeInv'
    <2> SUFFICES ASSUME TypeInv, [Next]_vars PROVE TypeInv'
      OBVIOUS
    <2>1. ASSUME NEW c \in Conns, Receive(c) PROVE TypeInv'
      <3>1. PICK r \in Requests : req' = [req EXCEPT ![c] = r]
        BY <2>1 DEF Receive
      <3>2. r \in Request
        BY RequestsType
      <3>3. TypeOK'
        BY <2>1, <3>1, <3>2 DEF Receive, TypeInv, TypeOK, OrcaTypeOK, Labels
      <3>4. Equipped(c)'
        BY <2>1, <3>1, <3>2 DEF Receive, TypeInv, TypeOK, OrcaTypeOK, Equipped, Holding
      <3> QED BY <2>1, <3>1, <3>3, <3>4, OthersEquipped
              DEF Receive, TypeInv, TypeOK, OrcaTypeOK
    <2>2. ASSUME NEW c \in Conns, Acquire(c) PROVE TypeInv'
      <3>1. req[c] \in Request /\ Bucket(c) \in Buckets
        BY <2>2, LockAssumption DEF Acquire, Bucket, TypeInv, Equipped, Request
      <3>2. FirstCall(c) \in {"L1Get", "GetE", "L1Gat", "L2Gat", "L2"}
        BY DEF FirstCall
      <3>3. TypeOK'
        BY <2>2, <3>1, <3>2 DEF Acquire, lockVars, TypeInv, TypeOK, OrcaTypeOK, Labels
      <3>4. Equipped(c)'
        BY <2>2, <3>1, <3>2
        DEF Acquire, TypeInv, TypeOK, OrcaTypeOK, Equipped, Holding
      <3> QED BY <2>2, <3>3, <3>4, OthersEquipped DEF Acquire, TypeInv, TypeOK, OrcaTypeOK
    <2>10. ASSUME NEW c \in Conns, Drain(c) PROVE TypeInv'
      <3>1. req[c] \in Request
        BY <2>10 DEF Drain, TypeInv, Equipped
      <3>2. FirstCall(c) \in {"L1Get", "GetE", "L1Gat", "L2Gat", "L2"}
        BY DEF FirstCall
      <3>3. TypeOK'
        BY <2>10, <3>2 DEF Drain, TypeInv, TypeOK, OrcaTypeOK, Labels
      <3>4. Equipped(c)'
        BY <2>10, <3>1, <3>2
        DEF Drain, TypeInv, TypeOK, OrcaTypeOK, Equipped, Holding
      <3> QED BY <2>10, <3>3, <3>4, OthersEquipped DEF Drain, TypeInv, TypeOK, OrcaTypeOK
    <2>3. ASSUME NEW c \in Conns, MainStep(c) PROVE TypeInv'
      BY <2>3, WritesType, ReadsType, GatType DEF MainStep, L1L2Step
    <2>4. ASSUME NEW c \in Conns, BatchPortStep(c) PROVE TypeInv'
      BY <2>4, WritesType, ReadsType, GatType DEF BatchPortStep, BatchStep
    <2>5. ASSUME NEW c \in Conns, Finish(c) PROVE TypeInv'
      <3>1. Bucket(c) \in Buckets
        BY <2>5, LockAssumption DEF Finish, Bucket, TypeInv, Equipped, Request
      <3>2. TypeOK'
        BY <2>5, <3>1
        DEF Finish, Unlock, TypeInv, TypeOK, OrcaTypeOK, Labels, Item
      <3>3. Equipped(c)'
        BY <2>5 DEF Finish, TypeInv, TypeOK, OrcaTypeOK, Equipped, Holding
      <3> QED BY <2>5, <3>2, <3>3, OthersEquipped DEF Finish, TypeInv, TypeOK, OrcaTypeOK
    <2>6. ASSUME NEW c \in Conns, Quit(c) \/ Connect(c) PROVE TypeInv'
      <3>1. TypeOK'
        BY <2>6 DEF Quit, Connect, TypeInv, TypeOK, OrcaTypeOK, Labels
      <3>2. Equipped(c)'
        BY <2>6 DEF Quit, Connect, TypeInv, TypeOK, OrcaTypeOK, Equipped, Holding
      <3> QED BY <2>6, <3>1, <3>2, OthersEquipped
              DEF Quit, Connect, TypeInv, TypeOK, OrcaTypeOK
    <2>7. ASSUME NEW k \in Keys, Evict(k) PROVE TypeInv'
      BY <2>7 DEF Evict, EvictL1, lockVars, TypeInv, TypeOK, OrcaTypeOK, Equipped, Item
    <2>8. CASE ClockTick
      <3>1. \A item \in Item : Live(item, now + 1) \in Item
        BY DEF Live, Item
      <3> QED BY <2>8, <3>1
              DEF ClockTick, Tick, lockVars, TypeInv, TypeOK, OrcaTypeOK, Equipped
    <2>9. CASE UNCHANGED vars
      BY <2>9 DEF vars, TypeInv, TypeOK, OrcaTypeOK, Equipped
    <2> QED BY <2>1, <2>2, <2>3, <2>4, <2>5, <2>6, <2>7, <2>8, <2>9, <2>10
            DEF Next
  <1> QED BY <1>1, <1>2, PTL DEF Spec

\* Every value the proxy keeps, at either level or on its way to a client, is
\* one the servers accept: in particular no sequence of appends grows an item
\* past the size limit (handlers/memcached/std, orcas/).
THEOREM TypeCorrect == Spec => []TypeOK
  <1>1. TypeInv => TypeOK
    BY DEF TypeInv
  <1> QED BY <1>1, TypeInvariant, PTL

(***************************************************************************)
(* The locking wrapper excludes: with the wrapper in use, requests on keys *)
(* of one bucket are in their orchestrators together only if all of them   *)
(* read and the lock set has read-write locks.                             *)
(***************************************************************************)

\* Who is inside holds its bucket's lock on the side it asked for, an exclusive
\* holder without readers beside it; who waits for readers to leave has the
\* place of the writer.
Holds(c) ==
  IF Exclusive(c)
  THEN writer[Bucket(c)] = {c} /\ readers[Bucket(c)] = {}
  ELSE c \in readers[Bucket(c)]

Waits(c) == Exclusive(c) /\ writer[Bucket(c)] = {c}

LockInv ==
  \A c \in Conns : /\ Inside(c) => Holds(c)
                   /\ pc[c] = "drain" => Waits(c)

\* A call of an orchestrator keeps its connection inside, and it leaves the
\* locks, the requests and the other connections alone.
LEMMA StepsStayInside ==
  ASSUME TypeInv, NEW c \in Conns, MainStep(c) \/ BatchPortStep(c)
  PROVE  /\ UNCHANGED <<now, req, writer, readers>>
         /\ pc[c] \notin {"closed", "idle", "lock", "drain", "done"}
         /\ pc'[c] \notin {"closed", "idle", "lock", "drain"}
         /\ \A d \in Conns \ {c} : pc'[d] = pc[d]
  <1>1. pc \in [Conns -> Labels]
    BY DEF TypeInv, TypeOK, OrcaTypeOK
  <1>2. \A at2, at1, benign : L2ThenL1(c, at2, at1, benign) =>
          /\ UNCHANGED <<now, req>> /\ pc[c] \in {"L2", "L1"}
          /\ \E label \in {"L1", "done"} : pc' = [pc EXCEPT ![c] = label]
    BY DEF L2ThenL1, L2Fails, L1Fails, Fails, ReturnSecond, Return, Goto
  <1>3. GetFromL1(c) \/ L1L2GetFromL2(c) \/ BatchGetFromL2(c) \/ GetE(c) =>
          /\ UNCHANGED <<now, req>> /\ pc[c] \in {"L1Get", "L2Get", "Fill", "GetE"}
          /\ \E label \in {"L2Get", "Fill", "done"} : pc' = [pc EXCEPT ![c] = label]
    BY DEF GetFromL1, L1L2GetFromL2, BatchGetFromL2, GetE, L2Fails, L1Fails, Fails,
           Return, Goto
  <1>4. L1L2Gat(c) \/ BatchGat(c) =>
          /\ UNCHANGED <<now, req>>
          /\ pc[c] \in {"L1Gat", "L2Gat", "L1Add", "L2Touch", "L1Touch"}
          /\ \E label \in {"L2Gat", "L1Add", "L2Touch", "L1Touch", "done"} :
               pc' = [pc EXCEPT ![c] = label]
    BY DEF L1L2Gat, BatchGat, L2Fails, L1Fails, Fails, ReturnSecond, Return, Goto
  <1>5. CASE L1L2Gat(c) \/ BatchGat(c)
    BY <1>1, <1>4, <1>5 DEF MainStep, BatchPortStep, lockVars
  <1>6. CASE L1L2Get(c) \/ L1L2GetE(c) \/ BatchGet(c) \/ BatchGetE(c)
    BY <1>1, <1>3, <1>6
    DEF L1L2Get, L1L2GetE, BatchGet, BatchGetE, MainStep, BatchPortStep, lockVars
  <1>7. CASE \E at2, at1, benign : L2ThenL1(c, at2, at1, benign)
    BY <1>1, <1>2, <1>7 DEF MainStep, BatchPortStep, lockVars
  <1>8. CASE \/ L1L2Set(c) \/ L1L2Add(c) \/ L1L2Replace(c) \/ L1L2Append(c)
             \/ L1L2Prepend(c) \/ L1L2Delete(c) \/ L1L2Touch(c)
             \/ BatchSet(c) \/ BatchAdd(c) \/ BatchReplace(c) \/ BatchAppend(c)
             \/ BatchPrepend(c) \/ BatchDelete(c) \/ BatchTouch(c)
    BY <1>7, <1>8
    DEF L1L2Set, L1L2Add, L1L2Replace, L1L2Append, L1L2Prepend, L1L2Delete,
        L1L2Touch, BatchSet, BatchAdd, BatchReplace, BatchAppend, BatchPrepend,
        BatchDelete, BatchTouch
  <1> QED BY <1>5, <1>6, <1>8 DEF MainStep, BatchPortStep, L1L2Step, BatchStep

\* Between the locks, the invariant of the lock set says what the wrapper is for.
LEMMA HoldersExclude ==
  ASSUME TypeInv, LockInv
  PROVE  LockExclusion
  <1> SUFFICES ASSUME NEW c \in Conns, NEW d \in Conns, c # d, Inside(c), Inside(d),
                      Bucket(c) = Bucket(d)
               PROVE  ~Exclusive(c) /\ ~Exclusive(d)
    BY DEF LockExclusion, Exclusive
  <1>1. Bucket(c) \in Buckets
    BY LockAssumption DEF Inside, Bucket, TypeInv, Equipped, Request
  <1>2. Holds(c) /\ Holds(d)
    BY DEF LockInv
  <1> QED BY <1>1, <1>2 DEF LockInv, Holds

\* The lock invariant is inductive.
LEMMA LockInvariant ==
  ASSUME Locked
  PROVE  Spec => []LockInv
  <1>1. Init => LockInv
    BY DEF Init, OrcaInit, LockInv, Inside
  <1>2. TypeInv /\ LockInv /\ [Next]_vars => LockInv'
    <2> SUFFICES ASSUME TypeInv, LockInv, [Next]_vars PROVE LockInv'
      OBVIOUS
    <2>1. /\ writer \in [Buckets -> SUBSET Conns] /\ readers \in [Buckets -> SUBSET Conns]
          /\ pc \in [Conns -> Labels] /\ req \in [Conns -> Request \cup {None}]
      BY DEF TypeInv, TypeOK, OrcaTypeOK
    <2>2. CASE /\ UNCHANGED <<writer, readers, req>>
               /\ \A d \in Conns : (Inside(d)' => Inside(d)) /\ (pc'[d] = "drain" => pc[d] = "drain")
      BY <2>2 DEF LockInv, Holds, Waits, Exclusive, Bucket
    <2>3. ASSUME NEW c \in Conns, Receive(c) PROVE LockInv'
      <3>1. \A d \in Conns :
              /\ Inside(d)' => Inside(d) /\ d # c /\ req'[d] = req[d]
              /\ pc'[d] = "drain" => pc[d] = "drain" /\ req'[d] = req[d]
        BY <2>1, <2>3 DEF Receive, Inside
      <3> QED BY <2>3, <3>1 DEF Receive, LockInv, Holds, Waits, Exclusive, Bucket
    <2>4. ASSUME NEW c \in Conns, Acquire(c) PROVE LockInv'
      <3> DEFINE b == Bucket(c)
      <3>1. b \in Buckets
        BY <2>4, LockAssumption DEF Acquire, Bucket, TypeInv, Equipped, Request
      <3>2. /\ writer[b] = {}
            /\ \A d \in Conns \ {c} : pc'[d] = pc[d]
            /\ \A d \in Conns : /\ Bucket(d)' = Bucket(d)
                                /\ Exclusive(d)' = Exclusive(d)
        BY <2>1, <2>4 DEF Acquire, Bucket, Exclusive
      <3>3. \A d \in Conns : Inside(d) \/ pc[d] = "drain" => Bucket(d) \in Buckets
        BY LockAssumption DEF Inside, Bucket, TypeInv, Equipped, Request
      <3>4. CASE Exclusive(c)
        <4>1. /\ writer' = [writer EXCEPT ![b] = {c}] /\ readers' = readers
              /\ Inside(c)' => readers[b] = {}
          BY <2>1, <2>4, <3>4 DEF Acquire, Inside
        <4>2. Waits(c)' /\ (Inside(c)' => Holds(c)')
          BY <2>1, <3>1, <3>2, <3>4, <4>1 DEF Holds, Waits
        <4>3. ASSUME NEW d \in Conns \ {c}
              PROVE  (Inside(d)' => Holds(d)') /\ (pc'[d] = "drain" => Waits(d)')
          <5>1. Inside(d) \/ pc[d] = "drain" =>
                  /\ writer'[Bucket(d)] = IF Bucket(d) = b THEN {c} ELSE writer[Bucket(d)]
                  /\ readers'[Bucket(d)] = readers[Bucket(d)]
            BY <2>1, <3>1, <3>3, <4>1
          <5>2. Bucket(d)' = Bucket(d) /\ Exclusive(d)' = Exclusive(d)
            BY <3>2
          <5>3. Inside(d)' => Holds(d)'
            BY <3>2, <5>1, <5>2 DEF LockInv, Holds, Inside
          <5>4. pc'[d] = "drain" => Waits(d)'
            BY <3>2, <5>1, <5>2 DEF LockInv, Waits
          <5> QED BY <5>3, <5>4
        <4> QED BY <4>2, <4>3 DEF LockInv
      <3>5. CASE ~Exclusive(c)
        <4>1. /\ writer' = writer /\ readers' = [readers EXCEPT ![b] = @ \cup {c}]
              /\ pc'[c] = FirstCall(c)
          BY <2>1, <2>4, <3>5 DEF Acquire
        <4>2. Holds(c)' /\ pc'[c] # "drain"
          BY <2>1, <3>1, <3>2, <3>5, <4>1 DEF Holds, FirstCall
        <4>3. ASSUME NEW d \in Conns \ {c}
              PROVE  (Inside(d)' => Holds(d)') /\ (pc'[d] = "drain" => Waits(d)')
          <5>1. Inside(d) \/ pc[d] = "drain" =>
                  /\ writer'[Bucket(d)] = writer[Bucket(d)]
                  /\ readers'[Bucket(d)] = IF Bucket(d) = b THEN readers[b] \cup {c}
                                           ELSE readers[Bucket(d)]
            BY <2>1, <3>1, <3>3, <4>1
          <5>2. Bucket(d)' = Bucket(d) /\ Exclusive(d)' = Exclusive(d)
            BY <3>2
          <5>3. Inside(d)' => Holds(d)'
            BY <3>2, <5>1, <5>2 DEF LockInv, Holds, Inside
          <5>4. pc'[d] = "drain" => Waits(d)'
            BY <3>2, <5>1, <5>2 DEF LockInv, Waits
          <5> QED BY <5>3, <5>4
        <4> QED BY <4>2, <4>3 DEF LockInv
      <3> QED BY <3>4, <3>5
    <2>9. ASSUME NEW c \in Conns, Drain(c) PROVE LockInv'
      <3>1. /\ UNCHANGED <<writer, readers, req>> /\ Waits(c)
            /\ readers[Bucket(c)] = {} /\ pc'[c] = FirstCall(c)
            /\ \A d \in Conns \ {c} : pc'[d] = pc[d]
        BY <2>1, <2>9 DEF Drain, LockInv
      <3>2. Holds(c)' /\ pc'[c] # "drain"
        BY <3>1 DEF Holds, Waits, Bucket, Exclusive, FirstCall
      <3> QED BY <3>1, <3>2 DEF LockInv, Holds, Waits, Bucket, Exclusive, Inside
    <2>5. ASSUME NEW c \in Conns, MainStep(c) \/ BatchPortStep(c) PROVE LockInv'
      <3>1. \A d \in Conns : (Inside(d)' => Inside(d)) /\ (pc'[d] = "drain" => pc[d] = "drain")
        BY <2>5, StepsStayInside DEF Inside
      <3> QED BY <2>2, <2>5, <3>1, StepsStayInside
    <2>6. ASSUME NEW c \in Conns, Finish(c) PROVE LockInv'
      <3> DEFINE b == Bucket(c)
      <3>1. b \in Buckets
        BY <2>6, LockAssumption DEF Finish, Bucket, TypeInv, Equipped, Request
      <3>2. /\ writer' = [writer EXCEPT ![b] = @ \ {c}]
            /\ readers' = [readers EXCEPT ![b] = @ \ {c}]
        BY <2>6 DEF Finish, Unlock
      <3>3. \A d \in Conns :
              Inside(d)' \/ pc'[d] = "drain" =>
                /\ Inside(d)' => Inside(d)
                /\ pc'[d] = pc[d] /\ d # c /\ req'[d] = req[d]
                /\ Bucket(d)' = Bucket(d) /\ Exclusive(d)' = Exclusive(d)
        BY <2>1, <2>6 DEF Finish, Inside, Bucket, Exclusive
      <3>4. \A d \in Conns : Inside(d)' => Holds(d)'
        BY <2>1, <3>1, <3>2, <3>3 DEF LockInv, Holds
      <3>5. \A d \in Conns : pc'[d] = "drain" => Waits(d)'
        BY <2>1, <3>1, <3>2, <3>3 DEF LockInv, Waits
      <3> QED BY <3>4, <3>5 DEF LockInv
    <2>7. ASSUME NEW c \in Conns, Quit(c) \/ Connect(c) PROVE LockInv'
      BY <2>1, <2>2, <2>7 DEF Quit, Connect, Inside
    <2>8. CASE (\E k \in Keys : Evict(k)) \/ ClockTick \/ UNCHANGED vars
      BY <2>2, <2>8 DEF Evict, EvictL1, ClockTick, Tick, vars, lockVars, Inside
    <2> QED BY <2>3, <2>4, <2>5, <2>6, <2>7, <2>8, <2>9 DEF Next
  <1> QED BY <1>1, <1>2, TypeInvariant, PTL DEF Spec

\* For any number of connections, keys and lock buckets: two requests that are
\* in orchestrators together on keys of one bucket are both reads, under
\* read-write locks (locked.go: Lock before and Unlock after every call).
THEOREM LocksExclude ==
  ASSUME Locked
  PROVE  Spec => []LockExclusion
  <1>1. TypeInv /\ LockInv => LockExclusion
    BY HoldersExclude
  <1> QED BY <1>1, TypeInvariant, LockInvariant, PTL

=============================================================================
