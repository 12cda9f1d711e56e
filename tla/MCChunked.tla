----------------------------- MODULE MCChunked -----------------------------
(***************************************************************************)
(* Instances of the chunked handler for TLC: what the clients send, run by *)
(* run.  The other constants are in the cfg files.                         *)
(***************************************************************************)
EXTENDS Chunked, TLC

CONSTANTS c1, c2, a, b

\* chunked: the first client sends everything, with a value of two chunks, for
\* ever, to a deadline and to one that has passed.  The second one disturbs it,
\* with a value of one chunk and the empty value, which has none, over
\* the text protocol.
ChunkedOps == [c \in Conns |-> IF c = c1 THEN Ops ELSE {"Set", "Get"}]

ChunkedPayloads ==
  [c \in Conns |-> IF c = c1 THEN {<<b, a>>} ELSE {<<>>, <<a>>}]

ChunkedExptimes == [c \in Conns |-> IF c = c1 THEN {0, 9, 11} ELSE {0}]

TwoChunks == [c \in Conns |-> {<<a, b>>}]

Forever == [c \in Conns |-> {0}]

\* chunked_touch: one client, which stores and touches.
TouchOps == [c \in Conns |-> {"Set", "Touch", "Get"}]

AnyExptime == [c \in Conns |-> {0, 11}]

\* chunked_get: a writer and a reader.
GetOps == [c \in Conns |-> IF c = c1 THEN {"Set"} ELSE {"Get"}]
=============================================================================
