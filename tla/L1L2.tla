-------------------------------- MODULE L1L2 --------------------------------
(***************************************************************************)
(* L1L2Orca (orcas/l1l2.go), the orchestrator of the main port: writes go  *)
(* to L2 and then to L1, reads try L1 and bring what they find in L2 back  *)
(* into L1.  One action per request type; its disjuncts are the handler    *)
(* calls of that method in the order the method makes them.                *)
(***************************************************************************)
EXTENDS Orca

Serving(c, op) == c \in MainConns /\ pc[c] \notin {"closed", "idle"} /\ req[c].op = op

L1L2Set(c) ==
  LET r == req[c] IN
  /\ Serving(c, "Set")
  /\ L2ThenL1(c, Set(l2[r.key], r.val, r.exptime, now),
                 Set(l1[r.key], r.val, r.exptime, now), {})

\* Add at both levels, so that L1 refuses when somebody else got there first.
L1L2Add(c) ==
  LET r == req[c] IN
  /\ Serving(c, "Add")
  /\ L2ThenL1(c, Add(l2[r.key], r.val, r.exptime, now),
                 Add(l1[r.key], r.val, r.exptime, now), {})

\* Mutant: a miss in L1 fails the request.
L1L2ReplaceStrict(c) ==
  LET r == req[c] IN
  /\ Serving(c, "Replace")
  /\ L2ThenL1(c, Replace(l2[r.key], r.val, r.exptime, now),
                 Replace(l1[r.key], r.val, r.exptime, now), {})

L1L2Replace(c) ==
  LET r == req[c] IN
  /\ Serving(c, "Replace")
  /\ L2ThenL1(c, Replace(l2[r.key], r.val, r.exptime, now),
                 Replace(l1[r.key], r.val, r.exptime, now), {"KeyNotFound"})

L1L2Append(c) ==
  LET r == req[c] IN
  /\ Serving(c, "Append")
  /\ L2ThenL1(c, AppendCmd(l2[r.key], r.val), AppendCmd(l1[r.key], r.val),
              {"ItemNotStored", "KeyNotFound"})

L1L2Prepend(c) ==
  LET r == req[c] IN
  /\ Serving(c, "Prepend")
  /\ L2ThenL1(c, PrependCmd(l2[r.key], r.val), PrependCmd(l1[r.key], r.val),
              {"ItemNotStored", "KeyNotFound"})

L1L2Delete(c) ==
  LET k == req[c].key IN
  /\ Serving(c, "Delete")
  /\ L2ThenL1(c, Delete(l2[k]), Delete(l1[k]), {"KeyNotFound"})

\* Mutant: the request for L1 is built without its expiry time.
L1L2TouchForever(c) ==
  LET r == req[c] IN
  /\ Serving(c, "Touch")
  /\ L2ThenL1(c, Touch(l2[r.key], r.exptime, now),
                 Touch(l1[r.key], 0, now), {"KeyNotFound"})

L1L2Touch(c) ==
  LET r == req[c] IN
  /\ Serving(c, "Touch")
  /\ L2ThenL1(c, Touch(l2[r.key], r.exptime, now),
                 Touch(l1[r.key], r.exptime, now), {"KeyNotFound"})

\* The second half of Get after a miss in L1: GetE on L2 fetches the item with
\* its expiry time, and a hit is set in L1 before it is answered.
L1L2GetFromL2(c) ==
  LET k == req[c].key IN
  /\ \/ /\ pc[c] = "L2Get"
        /\ \/ L2Fails(c, l2[k])
           \/ /\ got' = [got EXCEPT ![c] = l2[k]]
              /\ IF l2[k] = None THEN Return(c, "nil", None) ELSE Goto(c, "Fill")
              /\ UNCHANGED <<l1, l2, faults, torn>>
     \/ /\ pc[c] = "Fill"
        /\ LET filled == Set(l1[k], got[c].val, got[c].exp, now) IN
           \/ L1Fails(c, filled.item)
           \/ /\ SetL1(c, filled.item)
              /\ Return(c, "nil", got[c].val)
              /\ UNCHANGED <<got, torn>>
  /\ UNCHANGED <<now, req>>

L1L2Get(c) ==
  /\ Serving(c, "Get")
  /\ GetFromL1(c) \/ L1L2GetFromL2(c)

L1L2GetE(c) == Serving(c, "GetE") /\ GetE(c)

\* A hit in L1 is followed by a touch of L2, whose miss fails the request; a
\* miss in L1 by a GAT on L2, whose hit is added to L1 with the new expiry.
\* Someone else's entry already in L1 is left alone.
L1L2Gat(c) ==
  LET k == req[c].key
      exptime == req[c].exptime
      atL1 == GAT(l1[k], exptime, now)
      atL2 == GAT(l2[k], exptime, now)
      touched == Touch(l2[k], exptime, now)
      added == Add(l1[k], got[c].val, exptime, now)
  IN
  /\ Serving(c, "Gat")
  /\ \/ /\ pc[c] = "L1Gat"
        /\ \/ L1Fails(c, atL1.item)
           \/ /\ SetL1(c, atL1.item)
              /\ got' = [got EXCEPT ![c] = l1[k]]
              /\ Goto(c, IF l1[k] = None THEN "L2Gat" ELSE "L2Touch")
              /\ UNCHANGED torn
     \/ /\ pc[c] = "L2Gat"
        /\ \/ L2Fails(c, atL2.item)
           \/ /\ SetL2(c, atL2.item)
              /\ got' = [got EXCEPT ![c] = l2[k]]
              /\ IF l2[k] = None THEN Return(c, "nil", None) ELSE Goto(c, "L1Add")
              /\ UNCHANGED torn
     \/ /\ pc[c] = "L1Add"
        /\ \/ L1Fails(c, added.item)
           \/ /\ SetL1(c, added.item)
              /\ ReturnSecond(c, "nil", got[c].val)
              /\ UNCHANGED got
     \/ /\ pc[c] = "L2Touch"
        /\ \/ L2Fails(c, touched.item)
           \/ /\ SetL2(c, touched.item)
              /\ ReturnSecond(c, touched.err,
                              IF touched.err = "nil" THEN got[c].val ELSE None)
              /\ UNCHANGED got
  /\ UNCHANGED <<now, req>>

L1L2Step(c) ==
  \/ L1L2Set(c) \/ L1L2Add(c) \/ L1L2Replace(c) \/ L1L2Append(c)
  \/ L1L2Prepend(c) \/ L1L2Delete(c) \/ L1L2Touch(c)
  \/ L1L2Get(c) \/ L1L2GetE(c) \/ L1L2Gat(c)

=============================================================================
