------------------------------- MODULE MCOrca -------------------------------
(***************************************************************************)
(* Instances of the proxy for TLC: which connection sends what, run by     *)
(* run.  The remaining constants are in the cfg files.                     *)
(***************************************************************************)
EXTENDS Linearizable, TLC

CONSTANTS m1, m2, b1

\* All keys collide: the hardest case for the locks.
OneBucket == [k \in Keys |-> 1]

DataSymmetry == Permutations(Data)

\* locked: between them m1 and the batch connection send everything but gete,
\* whose calls are those of a get; no gat on the batch port, whose defect is
\* the run batch_gat.  m2 reads beside them.
LockedOps ==
  [c \in Conns |-> CASE c = m1 -> Ops \ {"GetE", "Prepend"}
                     [] c = m2 -> {"Get"}
                     [] OTHER  -> Ops \ {"Gat", "GetE", "Append"}]

\* linearizable: a connection of each port sends everything, m2 reads beside
\* them.
LinearizableOps == [c \in Conns |-> IF c = m2 THEN {"Get"} ELSE Ops]

\* batch_gat: a client of each port.
BatchGatOps ==
  [c \in Conns |-> IF c \in BatchConns THEN {"Gat"} ELSE {"Set"}]
=============================================================================
