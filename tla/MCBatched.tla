----------------------------- MODULE MCBatched -----------------------------
(***************************************************************************)
(* Instances of the batched handler for TLC: what the clients call, run by *)
(* run.  The other constants are in the cfg files.                         *)
(***************************************************************************)
EXTENDS Batched, TLC

CONSTANTS c1, c2

\* batched: a get that meets a single command and another get.
BatchedScript ==
  [c \in Clients |-> IF c = c1 THEN <<"Get", "One">> ELSE <<"Get">>]
=============================================================================
