------------------------------- MODULE MCConn -------------------------------
(***************************************************************************)
(* Workloads for TLC: every command of each protocol through one           *)
(* connection, longer pipelines of gets, with and without the locking      *)
(* wrapper, and two connections that read and write the same keys as time  *)
(* passes.                                                                 *)
(***************************************************************************)
EXTENDS Conn, TLC

CONSTANTS c1, c2, k1, k2

Frame(op, key, exptime) ==
  <<[op |-> op, key |-> key, val |-> <<"x">>, exptime |-> exptime, opaque |-> 0]>>

Line(cmd, keys, exptime, err) ==
  [cmd |-> cmd, keys |-> keys, val |-> <<"x">>, exptime |-> exptime, err |-> err]

Block == Line("data", <<>>, 0, "nil")

Gets == {"Get", "GetQ", "GetE", "GetEQ"}

BinaryPieces == {Frame(op, k1, 0) : op \in Bin!Opcodes}

PipelinedPieces ==
  {Frame(op, k1, 0) : op \in Gets \cup {"SetQ", "Noop", "Append"}}

TextPieces ==
  {<<Line(cmd, <<k1>>, 0, "nil"), Block>> : cmd \in Text!TextStorage} \cup
  {<<Line("set", <<k1>>, 0, err), Block>> : err \in Text!LineErrors} \cup
  {<<Line(cmd, <<k1>>, 0, err)>> :
     cmd \in {"delete", "touch"}, err \in {"nil", "BadRequest"}} \cup
  {<<Line("get", <<k1>>, 0, "nil")>>, <<Line("get", <<k1, k2>>, 0, "nil")>>} \cup
  {<<Line(cmd, <<>>, 0, "nil")>> : cmd \in {"noop", "quit", "version", "flush"}}

One(ps, most, locked) ==
  [pieces |-> c1 :> ps @@ c2 :> {}, most |-> c1 :> most @@ c2 :> 0,
   leave |-> {c1}, maxNow |-> 1, locked |-> locked]

Shared ==
  [pieces |-> c1 :> {Frame(op, k1, 1) : op \in {"Set", "Add", "Touch", "GetE"}} @@
              c2 :> {<<Line("get", <<k1, k2>>, 0, "nil")>>,
                     <<Line("delete", <<k1>>, 0, "nil")>>},
   most |-> c1 :> 2 @@ c2 :> 2, leave |-> {}, maxNow |-> 3, locked |-> FALSE]

WrappedText ==
  {<<Line("get", <<k1, k2>>, 0, "nil")>>, <<Line("set", <<k1>>, 0, "nil"), Block>>}

MCWorkloads ==
  {One(BinaryPieces, 2, FALSE), One(TextPieces, 2, FALSE), Shared,
   One(PipelinedPieces, 4, FALSE), One(PipelinedPieces, 3, TRUE),
   One(WrappedText, 2, TRUE)}

\* conn_add: one client, which stores, adds and reads.
AddPieces == {Frame(op, k1, 0) : op \in {"Set", "Add", "Get"}}

AddWorkloads == {One(AddPieces, 3, FALSE)}

=============================================================================
