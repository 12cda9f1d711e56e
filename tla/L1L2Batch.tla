------------------------------ MODULE L1L2Batch ------------------------------
(***************************************************************************)
(* L1L2BatchOrca (orcas/l1l2batch.go), the orchestrator of the batch port: *)
(* bulk traffic that must not push hot data out of L1.  Writes go to L2    *)
(* and only replace or extend what L1 already holds; reads do not fill L1. *)
(***************************************************************************)
EXTENDS Orca

BatchServing(c, op) == c \in BatchConns /\ pc[c] \notin {"closed", "idle"} /\ req[c].op = op

\* Mutant: hot data is left in L1 as it is.
BatchSetL2Only(c) ==
  LET r == req[c] IN
  /\ BatchServing(c, "Set")
  /\ L2ThenL1(c, Set(l2[r.key], r.val, r.exptime, now),
                 Result(l1[r.key], "nil"), {"KeyNotFound"})

BatchSet(c) ==
  LET r == req[c] IN
  /\ BatchServing(c, "Set")
  /\ L2ThenL1(c, Set(l2[r.key], r.val, r.exptime, now),
                 Replace(l1[r.key], r.val, r.exptime, now), {"KeyNotFound"})

BatchAdd(c) ==
  LET r == req[c] IN
  /\ BatchServing(c, "Add")
  /\ L2ThenL1(c, Add(l2[r.key], r.val, r.exptime, now),
                 Replace(l1[r.key], r.val, r.exptime, now), {"KeyNotFound"})

BatchReplace(c) ==
  LET r == req[c] IN
  /\ BatchServing(c, "Replace")
  /\ L2ThenL1(c, Replace(l2[r.key], r.val, r.exptime, now),
                 Replace(l1[r.key], r.val, r.exptime, now), {"KeyNotFound"})

BatchAppend(c) ==
  LET r == req[c] IN
  /\ BatchServing(c, "Append")
  /\ L2ThenL1(c, AppendCmd(l2[r.key], r.val), AppendCmd(l1[r.key], r.val),
              {"ItemNotStored", "KeyNotFound"})

BatchPrepend(c) ==
  LET r == req[c] IN
  /\ BatchServing(c, "Prepend")
  /\ L2ThenL1(c, PrependCmd(l2[r.key], r.val), PrependCmd(l1[r.key], r.val),
              {"ItemNotStored", "KeyNotFound"})

BatchDelete(c) ==
  LET k == req[c].key IN
  /\ BatchServing(c, "Delete")
  /\ L2ThenL1(c, Delete(l2[k]), Delete(l1[k]), {"KeyNotFound"})

BatchTouch(c) ==
  LET r == req[c] IN
  /\ BatchServing(c, "Touch")
  /\ L2ThenL1(c, Touch(l2[r.key], r.exptime, now),
                 Touch(l1[r.key], r.exptime, now), {"KeyNotFound"})

\* A plain get on L2, and no fill.
BatchGetFromL2(c) ==
  LET item == l2[req[c].key] IN
  /\ pc[c] = "L2Get"
  /\ \/ L2Fails(c, item)
     \/ /\ Return(c, "nil", IF item = None THEN None ELSE item.val)
        /\ UNCHANGED <<l1, l2, got, faults, torn>>
  /\ UNCHANGED <<now, req>>

BatchGet(c) ==
  /\ BatchServing(c, "Get")
  /\ GetFromL1(c) \/ BatchGetFromL2(c)

BatchGetE(c) == BatchServing(c, "GetE") /\ GetE(c)

\* GAT on L2; a hit is followed by a touch of L1 whose request leaves its
\* expiry time unset, which is the expiry time 0.
BatchGat(c) ==
  LET k == req[c].key
      atL2 == GAT(l2[k], req[c].exptime, now)
      touched == Touch(l1[k], 0, now)
  IN
  /\ BatchServing(c, "Gat")
  /\ \/ /\ pc[c] = "L2Gat"
        /\ \/ L2Fails(c, atL2.item)
           \/ /\ SetL2(c, atL2.item)
              /\ got' = [got EXCEPT ![c] = l2[k]]
              /\ IF l2[k] = None THEN Return(c, "nil", None)
                                 ELSE Goto(c, "L1Touch")
              /\ UNCHANGED torn
     \/ /\ pc[c] = "L1Touch"
        /\ \/ L1Fails(c, touched.item)
           \/ /\ SetL1(c, touched.item)
              /\ ReturnSecond(c, "nil", got[c].val)
              /\ UNCHANGED got
  /\ UNCHANGED <<now, req>>

BatchStep(c) ==
  \/ BatchSet(c) \/ BatchAdd(c) \/ BatchReplace(c) \/ BatchAppend(c)
  \/ BatchPrepend(c) \/ BatchDelete(c) \/ BatchTouch(c)
  \/ BatchGet(c) \/ BatchGetE(c) \/ BatchGat(c)

=============================================================================
