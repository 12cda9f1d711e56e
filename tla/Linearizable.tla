---------------------------- MODULE Linearizable ----------------------------
(***************************************************************************)
(* Under the locks, and as long as no handler call fails, the two-level    *)
(* cache implements AtomicCache.  The cache the clients see is L2.  A      *)
(* write takes effect at its call on L2, a gat likewise, a get where it    *)
(* finds out: at its hit in L1, or at its call on L2.                      *)
(***************************************************************************)
EXTENDS Coherence

\* Calls a connection makes after its request has taken effect, with the
\* answer already certain.
Decided(c) == pc[c] \in {"L1", "Fill", "L1Add", "L1Touch"}

absState ==
  [c \in Conns |->
     CASE pc[c] \in {"closed", "idle"} -> pc[c]
       [] pc[c] = "done" \/ Decided(c) -> "answered"
       [] OTHER                        -> "pending"]

absAnswer ==
  [c \in Conns |->
     IF ~Decided(c) THEN reply[c]
     ELSE [err |-> "nil", val |-> IF pc[c] = "L1" THEN None ELSE got[c].val]]

Atomic == INSTANCE AtomicCache
  WITH store <- l2, time <- now, state <- absState, asked <- req,
       answer <- absAnswer

\* Every behaviour of the locked proxy is one of a single cache in which each
\* request is one atomic step: no client ever reads a value that was
\* overwritten or deleted before it asked, and every answer tells what the
\* request did (orcas/locked.go over orcas/l1l2.go and orcas/l1l2batch.go).
ImplementsAtomicCache == Atomic!Spec

=============================================================================
