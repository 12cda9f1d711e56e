------------------------- MODULE LinearizableProofs -------------------------
(***************************************************************************)
(* The locked proxy implements AtomicCache: the refinement of              *)
(* Linearizable, for every number of connections, keys, buckets and        *)
(* values.                                                                 *)
(*                                                                         *)
(* To the hypotheses of CoherenceProofs come two more.  No handler call    *)
(* fails: after a failed call the levels may differ and the client has     *)
(* been told so.  And no item can expire inside a gat on the main port,    *)
(* whose touch of L2 then misses what its hit in L1 found, an error that a *)
(* single cache never gives: the clock stands still, or nobody sends one.  *)
(***************************************************************************)
EXTENDS Linearizable, CoherenceProofs

NoFailures == MaxFaults = 0

ClockStands == MaxNow <= StartTime

NoMainGats == \A c \in MainConns : "Gat" \notin OpsOf[c]

NothingExpiresInGats == ClockStands \/ NoMainGats

(***************************************************************************)
(* The invariant: no key is ever in doubt and nobody is cut off.           *)
(***************************************************************************)

Clean ==
  /\ torn = {}
  /\ ClockStands => now = StartTime
  /\ \A c \in Conns : pc[c] = "done" => reply[c].err # "IOError"

RefinementInv == TypeInv /\ LockExclusion /\ CoherenceInv /\ Clean

(***************************************************************************)
(* The refinement mapping, for one connection.                             *)
(***************************************************************************)

DecidedAt == {"L1", "Fill", "L1Add", "L1Touch"}

StateOf(label) ==
  CASE label \in {"closed", "idle"}               -> label
    [] label = "done" \/ label \in DecidedAt -> "answered"
    [] OTHER                                 -> "pending"

AnswerOf(label, item, rep) ==
  IF label \notin DecidedAt THEN rep
  ELSE [err |-> "nil", val |-> IF label = "L1" THEN None ELSE item.val]

LEMMA MappingOf ==
  /\ absState = [c \in Conns |-> StateOf(pc[c])]
  /\ absAnswer = [c \in Conns |-> AnswerOf(pc[c], got[c], reply[c])]
  BY DEF absState, absAnswer, Decided, DecidedAt, StateOf, AnswerOf

LEMMA MappingOfNext ==
  /\ absState' = [c \in Conns |-> StateOf(pc'[c])]
  /\ absAnswer' = [c \in Conns |-> AnswerOf(pc'[c], got'[c], reply'[c])]
  BY DEF absState, absAnswer, Decided, DecidedAt, StateOf, AnswerOf

\* The abstract cache's commands are those of the std handler.
LEMMA SameCommands ==
  ASSUME NEW item, NEW r, NEW t
  PROVE  /\ Atomic!Effect(item, r, t) = Effect(item, r, t)
         /\ Atomic!Found(item, r) = Found(item, r)
         /\ Atomic!Live(item, t) = Live(item, t)
  BY DEF Atomic!Effect, Atomic!Set, Atomic!Add, Atomic!Replace, Atomic!AppendCmd,
         Atomic!PrependCmd, Atomic!Delete, Atomic!Touch, Atomic!GAT, Atomic!Extend,
         Atomic!Store, Atomic!Live, Atomic!Deadline, Atomic!Result, Atomic!Found,
         Effect, Set, Add, Replace, AppendCmd, PrependCmd, Delete, Touch, GAT, Extend,
         Store, Live, Deadline, Result, Found

-----------------------------------------------------------------------------
(***************************************************************************)
(* What a handler call of one connection can be to the abstract cache.     *)
(***************************************************************************)

\* Only c's part of the state changes, besides the levels.
OwnStep(c) ==
  /\ UNCHANGED <<now, req>>
  /\ \A d \in Conns \ {c} : pc'[d] = pc[d] /\ got'[d] = got[d] /\ reply'[d] = reply[d]

\* Nothing: L2 and the answer, if there is one, stay.
LEMMA Unseen ==
  ASSUME NEW c \in Conns, OwnStep(c), l2' = l2,
         StateOf(pc'[c]) = StateOf(pc[c]),
         AnswerOf(pc'[c], got'[c], reply'[c]) = AnswerOf(pc[c], got[c], reply[c])
  PROVE  UNCHANGED Atomic!absVars
  <1>1. absState' = absState
    BY MappingOf, MappingOfNext DEF OwnStep
  <1>2. absAnswer' = absAnswer
    BY MappingOf, MappingOfNext DEF OwnStep
  <1> QED BY <1>1, <1>2 DEF OwnStep, Atomic!absVars

\* The instant at which the request takes effect.
LEMMA Takes ==
  ASSUME NEW c \in Conns, OwnStep(c),
         NEW effect, effect = Effect(l2[req[c].key], req[c], now),
         l2' = [l2 EXCEPT ![req[c].key] = effect.item],
         StateOf(pc[c]) = "pending", StateOf(pc'[c]) = "answered",
         AnswerOf(pc'[c], got'[c], reply'[c])
           = [err |-> effect.err, val |-> Found(l2[req[c].key], req[c])]
  PROVE  Atomic!TakeEffect(c)
  <1>1. absState[c] = "pending" /\ absState' = [absState EXCEPT ![c] = "answered"]
    BY MappingOf, MappingOfNext DEF OwnStep
  <1>2. absAnswer' = [absAnswer EXCEPT ![c] =
          [err |-> effect.err, val |-> Found(l2[req[c].key], req[c])]]
    BY MappingOf, MappingOfNext DEF OwnStep
  <1>3. /\ Atomic!Effect(l2[req[c].key], req[c], now) = effect
        /\ Atomic!Found(l2[req[c].key], req[c]) = Found(l2[req[c].key], req[c])
    BY SameCommands
  <1> QED BY <1>1, <1>2, <1>3 DEF OwnStep, Atomic!TakeEffect, Atomic!Answer

-----------------------------------------------------------------------------
(***************************************************************************)
(* One lemma per kind of step: it keeps the invariant, and it is a step of *)
(* the abstract cache or none.                                             *)
(***************************************************************************)

\* With no failures to come a call does not fail.
LEMMA NoneFails ==
  ASSUME NoFailures, TypeInv, NEW c, NEW S1, NEW S2
  PROVE  ~Fails(c, S1, S2)
  BY DEF NoFailures, Fails, TypeInv, TypeOK, OrcaTypeOK

\* How a call of c moves c alone.
LEMMA ReturnsOwn ==
  ASSUME NEW c \in Conns, TypeInv
  PROVE  /\ \A err, val : Return(c, err, val) =>
              /\ pc'[c] = "done" /\ reply'[c] = [err |-> err, val |-> val]
              /\ \A d \in Conns \ {c} : pc'[d] = pc[d] /\ reply'[d] = reply[d]
         /\ \A label : Goto(c, label) =>
              /\ pc'[c] = label /\ reply'[c] = reply[c]
              /\ \A d \in Conns \ {c} : pc'[d] = pc[d] /\ reply'[d] = reply[d]
  BY DEF Return, Goto, TypeInv, TypeOK, OrcaTypeOK

\* What c's step has to show for the invariant.
LEMMA CleanAfter ==
  ASSUME Clean, NEW c \in Conns, OwnStep(c), torn' \subseteq torn,
         pc'[c] = "done" => reply'[c].err # "IOError"
  PROVE  Clean'
  BY DEF Clean, OwnStep

\* A write takes effect at L2; what follows at L1 succeeds and goes unseen.
LEMMA WritesRefine ==
  ASSUME NoFailures, RefinementInv, NEW c \in Conns, WriteStep(c), Inside(c)
  PROVE  Clean' /\ (Atomic!TakeEffect(c) \/ UNCHANGED Atomic!absVars)
  <1> DEFINE r == req[c]
             k == r.key
             at2 == AtL2(r, l2[k], now)
             at1 == AtL1(c, r, l1[k], now)
             err1 == IF at1.err \in Benign(c, r) THEN "nil" ELSE at1.err
  <1> USE DEF RefinementInv
  <1>1. /\ r \in Request /\ k \in Keys /\ l1[k] \in Item /\ l2[k] \in Item
        /\ now \in Nat
    BY AtWork DEF Inside
  <1>2. r.op \in Writes /\ L2ThenL1(c, at2, at1, Benign(c, r))
    BY WriteForm
  <1>3. FixedDeadline(r.exptime)
    BY DEF CoherenceInv, Sent, Inside
  <1>4. Fresh(l1[k], now) /\ Fresh(l2[k], now) /\ Absolute(l2[k])
    BY <1>1 DEF CoherenceInv, ServersOK
  <1>5. UNCHANGED <<now, req>> /\ torn = {}
    BY <1>2 DEF L2ThenL1, Clean
  <1>6. Effect(l2[k], r, now) = at2 /\ Found(l2[k], r) = None
    BY <1>2 DEF Effect, Found, AtL2, Writes, Stores, Extends
  <1>7. CASE pc[c] = "L2"
    <2>1. k \in torn \/ l1[k] = None \/ l1[k] = l2[k]
      BY <1>7, AgreeInside DEF Midway
    <2>2. at2 \in CommandResult
      BY <1>1, <1>2, <1>3, <1>4, <2>1, FirstHalf
    <2>3. /\ SetL2(c, at2.item)
          /\ IF at2.err = "nil" THEN Goto(c, "L1") ELSE Return(c, at2.err, None)
          /\ UNCHANGED <<got, torn>>
      BY <1>2, <1>7, NoneFails DEF L2ThenL1, L2Fails
    <2>4. OwnStep(c)
      BY <1>5, <2>3, ReturnsOwn DEF OwnStep
    <2>5. /\ at2.err = "nil" => pc'[c] = "L1"
          /\ at2.err # "nil" => pc'[c] = "done" /\ reply'[c] = [err |-> at2.err, val |-> None]
      BY <2>3, ReturnsOwn
    <2>6. Clean'
      BY <2>2, <2>3, <2>4, <2>5, CleanAfter DEF CommandResult, CommandErrors
    <2>7. /\ StateOf(pc[c]) = "pending" /\ StateOf(pc'[c]) = "answered"
          /\ AnswerOf(pc'[c], got'[c], reply'[c]) = [err |-> at2.err, val |-> None]
      BY <1>7, <2>5 DEF StateOf, AnswerOf, DecidedAt
    <2>8. l2' = [l2 EXCEPT ![k] = at2.item]
      BY <2>3 DEF SetL2
    <2> QED BY <1>6, <2>4, <2>6, <2>7, <2>8, Takes
  <1>8. CASE pc[c] = "L1"
    <2>1. Halfway(c, r, l1[k], l2[k], now, torn)
      BY <1>8 DEF CoherenceInv, KnownOf, Known
    <2>2. at1.err = "nil" \/ at1.err \in Benign(c, r)
      BY <1>1, <1>2, <1>3, <1>4, <1>5, <2>1, SecondHalf
    <2>3. err1 = "nil"
      BY <2>2
    <2>4. SetL1(c, at1.item) /\ ReturnSecond(c, err1, None) /\ UNCHANGED got
      BY <1>2, <1>8, NoneFails DEF L2ThenL1, L1Fails
    <2>5. l2' = l2 /\ Return(c, "nil", None) /\ torn' \subseteq torn
      BY <2>3, <2>4 DEF SetL1, ReturnSecond
    <2>6. OwnStep(c) /\ pc'[c] = "done" /\ reply'[c] = [err |-> "nil", val |-> None]
      BY <1>5, <2>4, <2>5, ReturnsOwn DEF OwnStep
    <2>7. /\ StateOf(pc'[c]) = StateOf(pc[c])
          /\ AnswerOf(pc'[c], got'[c], reply'[c]) = AnswerOf(pc[c], got[c], reply[c])
      BY <1>8, <2>6 DEF StateOf, AnswerOf, DecidedAt
    <2> QED BY <2>5, <2>6, <2>7, Unseen, CleanAfter
  <1> QED BY <1>2, <1>7, <1>8 DEF L2ThenL1

\* A get takes effect where it finds out: a hit in L1 is what L2 holds.
LEMMA GetsRefine ==
  ASSUME NoFailures, RefinementInv, NEW c \in Conns, Inside(c),
         L1L2Get(c) \/ L1L2GetE(c) \/ BatchGet(c) \/ BatchGetE(c)
  PROVE  Clean' /\ (Atomic!TakeEffect(c) \/ UNCHANGED Atomic!absVars)
  <1> DEFINE r == req[c]
             k == r.key
  <1> USE DEF RefinementInv
  <1>1. /\ k \in Keys /\ l1[k] \in Item /\ l2[k] \in Item /\ torn = {}
        /\ l2 \in [Keys -> Item] /\ got \in [Conns -> Item]
    BY AtWork DEF Inside, Clean, TypeInv, TypeOK, OrcaTypeOK
  <1>2. \/ r.op = "GetE" /\ GetE(c)
        \/ r.op = "Get" /\ (GetFromL1(c) \/ L1L2GetFromL2(c) \/ BatchGetFromL2(c))
    BY DEF L1L2Get, L1L2GetE, BatchGet, BatchGetE, Serving, BatchServing
  <1>3. l2' = l2 => l2' = [l2 EXCEPT ![k] = l2[k]]
    BY <1>1
  <1>4. r.op = "Get" => /\ Effect(l2[k], r, now) = Result(l2[k], "nil")
                        /\ Found(l2[k], r) = IF l2[k] = None THEN None ELSE l2[k].val
    BY DEF Effect, Found
  \* A step that leaves the levels alone and answers what L2 holds.
  <1>5. ASSUME r.op = "Get", OwnStep(c), UNCHANGED <<l2, torn>>,
               StateOf(pc[c]) = "pending", StateOf(pc'[c]) = "answered",
               pc'[c] = "done" => reply'[c].err # "IOError",
               AnswerOf(pc'[c], got'[c], reply'[c])
                 = [err |-> "nil", val |-> IF l2[k] = None THEN None ELSE l2[k].val]
        PROVE  Clean' /\ Atomic!TakeEffect(c)
    BY <1>3, <1>4, <1>5, Takes, CleanAfter DEF Result
  <1>6. CASE r.op = "GetE" /\ GetE(c)
    <2>1. /\ Effect(l2[k], r, now) = Result(l2[k], "UnknownCmd")
          /\ Found(l2[k], r) = None
      BY <1>6 DEF Effect, Found
    <2>2. /\ OwnStep(c) /\ UNCHANGED <<l2, torn>> /\ pc[c] = "GetE" /\ pc'[c] = "done"
          /\ reply'[c] = [err |-> "UnknownCmd", val |-> None]
      BY <1>6, ReturnsOwn DEF GetE, OwnStep
    <2>3. /\ StateOf(pc[c]) = "pending" /\ StateOf(pc'[c]) = "answered"
          /\ AnswerOf(pc'[c], got'[c], reply'[c]) = [err |-> "UnknownCmd", val |-> None]
      BY <2>2 DEF StateOf, AnswerOf, DecidedAt
    <2> QED BY <1>3, <2>1, <2>2, <2>3, Takes, CleanAfter DEF Result
  <1>7. CASE r.op = "Get" /\ GetFromL1(c)
    <2>1. /\ pc[c] = "L1Get" /\ UNCHANGED <<l1, l2, got, torn, now, req>>
          /\ IF l1[k] # None THEN Return(c, "nil", l1[k].val) ELSE Goto(c, "L2Get")
      BY <1>7, NoneFails DEF GetFromL1, L1Fails
    <2>2. OwnStep(c)
      BY <2>1, ReturnsOwn DEF OwnStep
    <2>3. CASE l1[k] = None
      <3>1. pc'[c] = "L2Get" /\ reply'[c] = reply[c]
        BY <2>1, <2>3, ReturnsOwn
      <3>2. /\ StateOf(pc'[c]) = StateOf(pc[c])
            /\ AnswerOf(pc'[c], got'[c], reply'[c]) = AnswerOf(pc[c], got[c], reply[c])
        BY <2>1, <3>1 DEF StateOf, AnswerOf, DecidedAt
      <3> QED BY <2>1, <2>2, <3>1, <3>2, Unseen, CleanAfter
    <2>4. CASE l1[k] # None
      <3>1. l1[k] = l2[k]
        BY <1>1, <2>1, <2>4, AgreeInside DEF Midway
      <3>2. pc'[c] = "done" /\ reply'[c] = [err |-> "nil", val |-> l2[k].val]
        BY <2>1, <2>4, <3>1, ReturnsOwn
      <3>3. /\ StateOf(pc[c]) = "pending" /\ StateOf(pc'[c]) = "answered"
            /\ AnswerOf(pc'[c], got'[c], reply'[c]) = [err |-> "nil", val |-> l2[k].val]
        BY <2>1, <3>2 DEF StateOf, AnswerOf, DecidedAt
      <3> QED BY <1>5, <1>7, <2>1, <2>2, <2>4, <3>1, <3>2, <3>3
    <2> QED BY <2>3, <2>4
  <1>8. CASE r.op = "Get" /\ BatchGetFromL2(c)
    <2>1. /\ pc[c] = "L2Get" /\ UNCHANGED <<l1, l2, got, torn, now, req>>
          /\ Return(c, "nil", IF l2[k] = None THEN None ELSE l2[k].val)
      BY <1>8, NoneFails DEF BatchGetFromL2, L2Fails
    <2>2. /\ OwnStep(c) /\ pc'[c] = "done"
          /\ reply'[c] = [err |-> "nil", val |-> IF l2[k] = None THEN None ELSE l2[k].val]
      BY <2>1, ReturnsOwn DEF OwnStep
    <2>3. /\ StateOf(pc[c]) = "pending" /\ StateOf(pc'[c]) = "answered"
          /\ AnswerOf(pc'[c], got'[c], reply'[c]) = reply'[c]
      BY <2>1, <2>2 DEF StateOf, AnswerOf, DecidedAt
    <2> QED BY <1>5, <1>8, <2>1, <2>2, <2>3
  <1>9. CASE r.op = "Get" /\ L1L2GetFromL2(c) /\ pc[c] = "L2Get"
    <2>1. /\ got' = [got EXCEPT ![c] = l2[k]] /\ UNCHANGED <<l1, l2, torn, now, req>>
          /\ IF l2[k] = None THEN Return(c, "nil", None) ELSE Goto(c, "Fill")
      BY <1>9, NoneFails DEF L1L2GetFromL2, L2Fails
    <2>2. /\ OwnStep(c) /\ got'[c] = l2[k]
          /\ l2[k] = None => pc'[c] = "done" /\ reply'[c] = [err |-> "nil", val |-> None]
          /\ l2[k] # None => pc'[c] = "Fill"
      BY <1>1, <2>1, ReturnsOwn DEF OwnStep
    <2>3. /\ StateOf(pc[c]) = "pending" /\ StateOf(pc'[c]) = "answered"
          /\ AnswerOf(pc'[c], got'[c], reply'[c])
               = [err |-> "nil", val |-> IF l2[k] = None THEN None ELSE l2[k].val]
      BY <1>9, <2>2 DEF StateOf, AnswerOf, DecidedAt
    <2> QED BY <1>5, <1>9, <2>1, <2>2, <2>3
  <1>10. CASE r.op = "Get" /\ L1L2GetFromL2(c) /\ pc[c] = "Fill"
    <2>1. /\ UNCHANGED <<l2, got, torn, now, req>> /\ Return(c, "nil", got[c].val)
      BY <1>10, NoneFails DEF L1L2GetFromL2, L1Fails, SetL1
    <2>2. /\ OwnStep(c) /\ pc'[c] = "done"
          /\ reply'[c] = [err |-> "nil", val |-> got[c].val]
      BY <2>1, ReturnsOwn DEF OwnStep
    <2>3. /\ StateOf(pc'[c]) = StateOf(pc[c])
          /\ AnswerOf(pc'[c], got'[c], reply'[c]) = AnswerOf(pc[c], got[c], reply[c])
      BY <1>10, <2>2 DEF StateOf, AnswerOf, DecidedAt
    <2> QED BY <2>1, <2>2, <2>3, Unseen, CleanAfter
  <1> QED BY <1>2, <1>6, <1>7, <1>8, <1>9, <1>10 DEF L1L2GetFromL2

\* A gat takes effect at L2, whether it hit in L1 before or not.  While it is
\* inside, nobody takes the entry away from L2.
LEMMA GatsRefine ==
  ASSUME NoFailures, NothingExpiresInGats, RefinementInv, NEW c \in Conns, L1L2Gat(c),
         Inside(c)
  PROVE  Clean' /\ (Atomic!TakeEffect(c) \/ UNCHANGED Atomic!absVars)
  <1> DEFINE r == req[c]
             k == r.key
             effect == GAT(l2[k], r.exptime, now)
  <1> USE DEF RefinementInv
  <1>1. /\ k \in Keys /\ l1[k] \in Item /\ l2[k] \in Item /\ torn = {} /\ now \in Nat
        /\ l2 \in [Keys -> Item] /\ got \in [Conns -> Item]
    BY AtWork DEF Inside, Clean, TypeInv, TypeOK, OrcaTypeOK
  <1>2. r.op = "Gat" /\ UNCHANGED <<now, req>>
    BY DEF L1L2Gat, Serving
  <1>3. now = StartTime
    <2>1. r.op \in OpsOf[c] /\ c \in MainConns
      BY DEF CoherenceInv, Sent, Inside, L1L2Gat, Serving
    <2> QED BY <1>2, <2>1 DEF NothingExpiresInGats, NoMainGats, Clean
  <1>4. /\ Effect(l2[k], r, now) = effect
        /\ Found(l2[k], r) = IF l2[k] = None THEN None ELSE l2[k].val
        /\ effect.err = "nil"
    BY <1>2 DEF Effect, Found, GAT, Touch, Result
  <1>5. CASE pc[c] = "L1Gat"
    <2>1. /\ l2' = l2 /\ got' = [got EXCEPT ![c] = l1[k]] /\ torn' = torn
          /\ \E label \in {"L2Gat", "L2Touch"} : Goto(c, label)
      BY <1>5, NoneFails DEF L1L2Gat, L1Fails, SetL1
    <2>2. OwnStep(c) /\ pc'[c] \in {"L2Gat", "L2Touch"} /\ reply'[c] = reply[c]
      BY <1>1, <1>2, <2>1, ReturnsOwn DEF OwnStep
    <2>3. /\ StateOf(pc'[c]) = StateOf(pc[c])
          /\ AnswerOf(pc'[c], got'[c], reply'[c]) = AnswerOf(pc[c], got[c], reply[c])
      BY <1>5, <2>2 DEF StateOf, AnswerOf, DecidedAt
    <2> QED BY <2>1, <2>2, <2>3, Unseen, CleanAfter
  <1>6. CASE pc[c] = "L2Gat"
    <2>1. /\ l2' = [l2 EXCEPT ![k] = effect.item]
          /\ got' = [got EXCEPT ![c] = l2[k]] /\ torn' = torn
          /\ IF l2[k] = None THEN Return(c, "nil", None) ELSE Goto(c, "L1Add")
      BY <1>6, NoneFails DEF L1L2Gat, L2Fails, SetL2
    <2>2. /\ OwnStep(c) /\ got'[c] = l2[k]
          /\ l2[k] = None => pc'[c] = "done" /\ reply'[c] = [err |-> "nil", val |-> None]
          /\ l2[k] # None => pc'[c] = "L1Add"
      BY <1>1, <1>2, <2>1, ReturnsOwn DEF OwnStep
    <2>3. /\ StateOf(pc[c]) = "pending" /\ StateOf(pc'[c]) = "answered"
          /\ AnswerOf(pc'[c], got'[c], reply'[c])
               = [err |-> "nil", val |-> IF l2[k] = None THEN None ELSE l2[k].val]
      BY <1>6, <2>2 DEF StateOf, AnswerOf, DecidedAt
    <2>4. AnswerOf(pc'[c], got'[c], reply'[c])
            = [err |-> effect.err, val |-> Found(l2[k], r)]
      BY <1>4, <2>3
    <2>5. Clean'
      BY <2>1, <2>2, CleanAfter
    <2> HIDE DEF effect
    <2>6. Atomic!TakeEffect(c)
      BY <1>4, <2>1, <2>2, <2>3, <2>4, Takes
    <2> QED BY <2>5, <2>6
  <1>7. CASE pc[c] = "L1Add"
    <2>1. UNCHANGED <<l2, got>> /\ ReturnSecond(c, "nil", got[c].val)
      BY <1>7, NoneFails DEF L1L2Gat, L1Fails, SetL1
    <2>2. Return(c, "nil", got[c].val) /\ torn' \subseteq torn
      BY <2>1 DEF ReturnSecond
    <2>3. /\ OwnStep(c) /\ pc'[c] = "done"
          /\ reply'[c] = [err |-> "nil", val |-> got[c].val]
      BY <1>2, <2>1, <2>2, ReturnsOwn DEF OwnStep
    <2>4. /\ StateOf(pc'[c]) = StateOf(pc[c])
          /\ AnswerOf(pc'[c], got'[c], reply'[c]) = AnswerOf(pc[c], got[c], reply[c])
      BY <1>7, <2>3 DEF StateOf, AnswerOf, DecidedAt
    <2> QED BY <2>1, <2>2, <2>3, <2>4, Unseen, CleanAfter
  <1>8. CASE pc[c] = "L2Touch"
    <2> DEFINE touched == Touch(l2[k], r.exptime, now)
    <2>1. l2[k] # None /\ l2[k].val = got[c].val
      BY <1>1, <1>3, <1>8, TimeAssumption DEF CoherenceInv, KnownOf, Known
    <2>2. touched = effect /\ touched.err = "nil"
      BY <2>1 DEF GAT, Touch, Result
    <2>3. /\ l2' = [l2 EXCEPT ![k] = touched.item] /\ got' = got
          /\ ReturnSecond(c, touched.err, IF touched.err = "nil" THEN got[c].val ELSE None)
      BY <1>8, NoneFails DEF L1L2Gat, L2Fails, SetL2
    <2>4. Return(c, "nil", got[c].val) /\ torn' \subseteq torn
      BY <2>2, <2>3 DEF ReturnSecond
    <2>5. /\ OwnStep(c) /\ pc'[c] = "done"
          /\ reply'[c] = [err |-> "nil", val |-> l2[k].val]
      BY <1>2, <2>1, <2>3, <2>4, ReturnsOwn DEF OwnStep
    <2>6. /\ StateOf(pc[c]) = "pending" /\ StateOf(pc'[c]) = "answered"
          /\ AnswerOf(pc'[c], got'[c], reply'[c]) = [err |-> "nil", val |-> l2[k].val]
      BY <1>8, <2>5 DEF StateOf, AnswerOf, DecidedAt
    <2>7. /\ AnswerOf(pc'[c], got'[c], reply'[c])
               = [err |-> effect.err, val |-> Found(l2[k], r)]
          /\ l2' = [l2 EXCEPT ![k] = effect.item]
      BY <1>4, <2>1, <2>2, <2>3, <2>6
    <2>8. Clean'
      BY <2>4, <2>5, CleanAfter
    <2> HIDE DEF effect
    <2>9. Atomic!TakeEffect(c)
      BY <1>4, <2>5, <2>6, <2>7, Takes
    <2> QED BY <2>8, <2>9
  <1> QED BY <1>5, <1>6, <1>7, <1>8 DEF L1L2Gat

\* A gat on the batch port takes effect at L2; its touch of L1 goes unseen.
LEMMA BatchGatsRefine ==
  ASSUME NoFailures, RefinementInv, NEW c \in Conns, BatchGat(c), Inside(c)
  PROVE  Clean' /\ (Atomic!TakeEffect(c) \/ UNCHANGED Atomic!absVars)
  <1> DEFINE r == req[c]
             k == r.key
             effect == GAT(l2[k], r.exptime, now)
  <1> USE DEF RefinementInv
  <1>1. got \in [Conns -> Item]
    BY DEF TypeInv, TypeOK, OrcaTypeOK
  <1>2. r.op = "Gat" /\ UNCHANGED <<now, req>>
    BY DEF BatchGat, BatchServing
  <1>3. /\ Effect(l2[k], r, now) = effect
        /\ Found(l2[k], r) = IF l2[k] = None THEN None ELSE l2[k].val
        /\ effect.err = "nil"
    BY <1>2 DEF Effect, Found, GAT, Touch, Result
  <1>4. CASE pc[c] = "L2Gat"
    <2>1. /\ l2' = [l2 EXCEPT ![k] = effect.item]
          /\ got' = [got EXCEPT ![c] = l2[k]] /\ torn' = torn
          /\ IF l2[k] = None THEN Return(c, "nil", None) ELSE Goto(c, "L1Touch")
      BY <1>4, NoneFails DEF BatchGat, L2Fails, SetL2
    <2>2. /\ OwnStep(c) /\ got'[c] = l2[k]
          /\ l2[k] = None => pc'[c] = "done" /\ reply'[c] = [err |-> "nil", val |-> None]
          /\ l2[k] # None => pc'[c] = "L1Touch"
      BY <1>1, <1>2, <2>1, ReturnsOwn DEF OwnStep
    <2>3. /\ StateOf(pc[c]) = "pending" /\ StateOf(pc'[c]) = "answered"
          /\ AnswerOf(pc'[c], got'[c], reply'[c])
               = [err |-> "nil", val |-> IF l2[k] = None THEN None ELSE l2[k].val]
      BY <1>4, <2>2 DEF StateOf, AnswerOf, DecidedAt
    <2>4. AnswerOf(pc'[c], got'[c], reply'[c])
            = [err |-> effect.err, val |-> Found(l2[k], r)]
      BY <1>3, <2>3
    <2>5. Clean'
      BY <2>1, <2>2, CleanAfter
    <2> HIDE DEF effect
    <2>6. Atomic!TakeEffect(c)
      BY <1>3, <2>1, <2>2, <2>3, <2>4, Takes
    <2> QED BY <2>5, <2>6
  <1>5. CASE pc[c] = "L1Touch"
    <2>1. UNCHANGED <<l2, got>> /\ ReturnSecond(c, "nil", got[c].val)
      BY <1>5, NoneFails DEF BatchGat, L1Fails, SetL1
    <2>2. Return(c, "nil", got[c].val) /\ torn' \subseteq torn
      BY <2>1 DEF ReturnSecond
    <2>3. /\ OwnStep(c) /\ pc'[c] = "done"
          /\ reply'[c] = [err |-> "nil", val |-> got[c].val]
      BY <1>2, <2>1, <2>2, ReturnsOwn DEF OwnStep
    <2>4. /\ StateOf(pc'[c]) = StateOf(pc[c])
          /\ AnswerOf(pc'[c], got'[c], reply'[c]) = AnswerOf(pc[c], got[c], reply[c])
      BY <1>5, <2>3 DEF StateOf, AnswerOf, DecidedAt
    <2> QED BY <2>1, <2>2, <2>3, <2>4, Unseen, CleanAfter
  <1> QED BY <1>4, <1>5 DEF BatchGat

\* The steps around the handler calls: a request arrives and waits for its
\* lock, its answer is delivered, connections come and go.
LEMMA LoopRefines ==
  ASSUME RefinementInv, NEW c \in Conns,
         \/ Receive(c) \/ Acquire(c) \/ Drain(c) \/ Finish(c) \/ Quit(c) \/ Connect(c)
  PROVE  /\ Clean'
         /\ \/ Atomic!Ask(c) \/ Atomic!Deliver(c) \/ Atomic!Leave(c) \/ Atomic!Join(c)
            \/ UNCHANGED Atomic!absVars
  <1> USE DEF RefinementInv
  <1>1. /\ pc \in [Conns -> Labels] /\ got \in [Conns -> Item]
        /\ reply \in [Conns -> Reply \cup {None}]
    BY DEF TypeInv, TypeOK, OrcaTypeOK
  <1>2. CASE Receive(c)
    <2>1. /\ pc[c] = "idle" /\ pc' = [pc EXCEPT ![c] = "lock"]
          /\ UNCHANGED <<l2, now, got, reply, torn>>
      BY <1>2 DEF Receive
    <2>2. absState[c] = "idle" /\ absState' = [absState EXCEPT ![c] = "pending"]
      BY <1>1, <2>1, MappingOf, MappingOfNext DEF StateOf, DecidedAt
    <2>3. absAnswer' = absAnswer
      BY <1>1, <2>1, MappingOf, MappingOfNext DEF AnswerOf, DecidedAt
    <2>4. \E r \in Requests : req' = [req EXCEPT ![c] = r]
      BY <1>2 DEF Receive
    <2>5. Clean'
      BY <1>1, <2>1 DEF Clean
    <2> QED BY <2>1, <2>2, <2>3, <2>4, <2>5 DEF Atomic!Ask
  <1>3. CASE Acquire(c) \/ Drain(c)
    <2>1. /\ pc[c] \in {"lock", "drain"}
          /\ \E label \in {"drain", FirstCall(c)} : pc' = [pc EXCEPT ![c] = label]
          /\ UNCHANGED <<l2, now, req, got, reply, torn>>
      BY <1>3 DEF Acquire, Drain
    <2>2. pc'[c] \in {"drain", "L1Get", "GetE", "L1Gat", "L2Gat", "L2"}
      BY <1>1, <2>1 DEF FirstCall
    <2>3. OwnStep(c)
      BY <1>1, <2>1 DEF OwnStep
    <2>4. /\ StateOf(pc'[c]) = StateOf(pc[c])
          /\ AnswerOf(pc'[c], got'[c], reply'[c]) = AnswerOf(pc[c], got[c], reply[c])
      BY <2>1, <2>2 DEF StateOf, AnswerOf, DecidedAt
    <2> QED BY <2>1, <2>2, <2>3, <2>4, Unseen, CleanAfter
  <1>4. CASE Finish(c)
    <2>1. /\ pc[c] = "done" /\ reply[c].err # "IOError"
          /\ pc' = [pc EXCEPT ![c] = "idle"]
          /\ req' = [req EXCEPT ![c] = None]
          /\ got' = [got EXCEPT ![c] = None]
          /\ reply' = [reply EXCEPT ![c] = None]
          /\ UNCHANGED <<l2, now, torn>>
      BY <1>4 DEF Finish, IsAppError, Clean
    <2>2. absState[c] = "answered" /\ absState' = [absState EXCEPT ![c] = "idle"]
      BY <1>1, <2>1, MappingOf, MappingOfNext DEF StateOf, DecidedAt
    <2>3. absAnswer' = [absAnswer EXCEPT ![c] = None]
      BY <1>1, <2>1, MappingOf, MappingOfNext DEF AnswerOf, DecidedAt
    <2>4. Clean'
      BY <1>1, <2>1 DEF Clean
    <2> QED BY <2>1, <2>2, <2>3, <2>4 DEF Atomic!Deliver
  <1>5. CASE Quit(c) \/ Connect(c)
    <2>1. /\ \/ pc[c] = "idle" /\ pc' = [pc EXCEPT ![c] = "closed"]
             \/ pc[c] = "closed" /\ pc' = [pc EXCEPT ![c] = "idle"]
          /\ UNCHANGED <<l2, now, req, got, reply, torn>>
      BY <1>5 DEF Quit, Connect
    <2>2. \/ absState[c] = "idle" /\ absState' = [absState EXCEPT ![c] = "closed"]
          \/ absState[c] = "closed" /\ absState' = [absState EXCEPT ![c] = "idle"]
      BY <1>1, <2>1, MappingOf, MappingOfNext DEF StateOf, DecidedAt
    <2>3. absAnswer' = absAnswer
      BY <1>1, <2>1, MappingOf, MappingOfNext DEF AnswerOf, DecidedAt
    <2>4. Clean'
      BY <1>1, <2>1 DEF Clean
    <2> QED BY <2>1, <2>2, <2>3, <2>4 DEF Atomic!Leave, Atomic!Join
  <1> QED BY <1>2, <1>3, <1>4, <1>5

\* The servers on their own: what L1 drops goes unseen, what expires expires.
LEMMA ServersRefine ==
  ASSUME RefinementInv, ClockTick \/ \E k \in Keys : Evict(k)
  PROVE  Clean' /\ (Atomic!Expire \/ UNCHANGED Atomic!absVars)
  <1> USE DEF RefinementInv
  <1>1. UNCHANGED <<pc, req, got, reply, torn>>
    BY DEF ClockTick, Tick, Evict, EvictL1
  <1>2. absState' = absState /\ absAnswer' = absAnswer
    BY <1>1, MappingOf, MappingOfNext
  <1>3. CASE ClockTick
    <2>1. /\ now < MaxNow /\ now' = now + 1 /\ l2' = [k \in Keys |-> Live(l2[k], now + 1)]
      BY <1>3 DEF ClockTick, Tick
    <2>2. \A k \in Keys : Atomic!Live(l2[k], now + 1) = Live(l2[k], now + 1)
      BY SameCommands
    <2>3. Clean'
      <3>1. ~ClockStands
        BY <2>1, TimeAssumption DEF CoherenceInv, TypeInv, TypeOK, OrcaTypeOK, ClockStands
      <3> QED BY <1>1, <3>1 DEF Clean
    <2> QED BY <1>1, <1>2, <2>1, <2>2, <2>3 DEF Atomic!Expire
  <1>4. CASE \E k \in Keys : Evict(k)
    <2>1. UNCHANGED <<l2, now>>
      BY <1>4 DEF Evict, EvictL1
    <2> QED BY <1>1, <1>2, <2>1 DEF Atomic!absVars, Clean
  <1> QED BY <1>3, <1>4

\* Every step of the proxy is a step of the abstract cache or none.
LEMMA StepsRefine ==
  ASSUME NoFailures, NothingExpiresInGats, RefinementInv, [Next]_vars
  PROVE  Clean' /\ [Atomic!Next]_Atomic!absVars
  <1>1. ASSUME NEW c \in Conns, MainStep(c) \/ BatchPortStep(c)
        PROVE  Clean' /\ (Atomic!TakeEffect(c) \/ UNCHANGED Atomic!absVars)
    <2>1. Inside(c)
      BY <1>1, StepsStayInside DEF Inside, RefinementInv
    <2>2. \/ WriteStep(c) \/ L1L2Gat(c) \/ BatchGat(c)
          \/ L1L2Get(c) \/ L1L2GetE(c) \/ BatchGet(c) \/ BatchGetE(c)
      BY <1>1 DEF MainStep, BatchPortStep, L1L2Step, BatchStep, WriteStep
    <2> QED BY <2>1, <2>2, WritesRefine, GetsRefine, GatsRefine, BatchGatsRefine
  <1>2. ASSUME NEW c \in Conns,
               \/ Receive(c) \/ Acquire(c) \/ Drain(c) \/ Finish(c) \/ Quit(c) \/ Connect(c)
        PROVE  Clean' /\ [Atomic!Next]_Atomic!absVars
    BY <1>2, LoopRefines DEF Atomic!Next
  <1>3. CASE ClockTick \/ \E k \in Keys : Evict(k)
    BY <1>3, ServersRefine DEF Atomic!Next
  <1>4. CASE UNCHANGED vars
    <2>1. absState' = absState /\ absAnswer' = absAnswer
      BY <1>4, MappingOf, MappingOfNext DEF vars
    <2> QED BY <1>4, <2>1 DEF vars, RefinementInv, Clean, Atomic!absVars
  <1>5. ASSUME NEW c \in Conns, MainStep(c) \/ BatchPortStep(c)
        PROVE  Clean' /\ [Atomic!Next]_Atomic!absVars
    BY <1>1, <1>5 DEF Atomic!Next
  <1> QED BY <1>2, <1>3, <1>4, <1>5 DEF Next

\* With the locks, absolute deadlines, none asked for by a gat on the batch
\* port, no failed call and no expiry inside a gat on the main port: every
\* behaviour of the two ports over the two levels is one of a single cache in
\* which each request takes effect at one instant between its arrival and its
\* answer (orcas/locked.go over orcas/l1l2.go and orcas/l1l2batch.go), for any
\* number of connections, keys and lock buckets.
THEOREM LockedProxyIsAtomic ==
  ASSUME Locked, FixedDeadlines, BatchGatsForGood, NoFailures, NothingExpiresInGats
  PROVE  Spec => ImplementsAtomicCache
  <1>1. Init => Atomic!Init /\ Clean
    <2> SUFFICES ASSUME Init PROVE Atomic!Init /\ Clean
      OBVIOUS
    <2>1. /\ l2 = [k \in Keys |-> None] /\ now = StartTime /\ torn = {}
          /\ pc = [c \in Conns |-> "idle"] /\ req = [c \in Conns |-> None]
          /\ got = [c \in Conns |-> None] /\ reply = [c \in Conns |-> None]
      BY DEF Init, OrcaInit
    <2>2. absState = [c \in Conns |-> "idle"] /\ absAnswer = [c \in Conns |-> None]
      BY <2>1, MappingOf DEF StateOf, AnswerOf, DecidedAt
    <2> QED BY <2>1, <2>2 DEF Atomic!Init, Clean
  <1>2. TypeInv /\ LockExclusion /\ CoherenceInv /\ Clean /\ [Next]_vars
          => Clean' /\ [Atomic!Next]_Atomic!absVars
    BY StepsRefine DEF RefinementInv
  <1> QED BY <1>1, <1>2, TypeInvariant, LocksExclude, CoherenceInvariant, PTL
          DEF Spec, ImplementsAtomicCache, Atomic!Spec

=============================================================================
