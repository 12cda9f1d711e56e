------------------------------- MODULE BinProt -------------------------------
(***************************************************************************)
(* The binary protocol of package protocol/binprot: what the parser makes  *)
(* of the bytes a client has sent, and what the responder writes.          *)
(*                                                                         *)
(* The bytes are a sequence of frames, one per command: the header, with   *)
(* the opcode and the opaque, and the body.  A frame whose op is "junk" is *)
(* a body without its header, which the parser leaves behind; it is taken  *)
(* to be shorter than a header.  Parsing is a function: the parser blocks  *)
(* until it has what it needs, so that it does not matter when the bytes   *)
(* arrive.                                                                 *)
(***************************************************************************)
EXTENDS Naturals, SequencesExt

CONSTANTS None     \* no key

\* The storage commands, and the quiet form of each.
Storage == {"Set", "Add", "Replace", "Append", "Prepend"}

QuietForm == [SetQ |-> "Set", AddQ |-> "Add", ReplaceQ |-> "Replace",
              AppendQ |-> "Append", PrependQ |-> "Prepend"]

\* Opcodes with nothing after the header.
Bare == {"Noop", "Quit", "QuitQ", "Version"}

\* "DeleteQ" stands for the opcodes of memcached that Parse does not know.
Opcodes == Storage \cup DOMAIN QuietForm \cup Bare \cup
           {"Get", "GetQ", "GetE", "GetEQ", "Gat", "Delete", "Touch", "DeleteQ"}

\* The opcodes the protocol answers only with what the client must know.
Quiet == DOMAIN QuietForm \cup {"GetQ", "GetEQ", "QuitQ"}

Junk == [op |-> "junk", key |-> None, val |-> <<>>, exptime |-> 0, opaque |-> 0]

(***************************************************************************)
(* BinaryParser.Parse.                                                     *)
(***************************************************************************)

\* A request as the orchestrators see it; keys, opaques and quiet have one
\* member for each key.
Request(op, fs, quiet) ==
  [op |-> op,
   keys |-> [i \in DOMAIN fs |-> fs[i].key],
   opaques |-> [i \in DOMAIN fs |-> fs[i].opaque],
   quiet |-> quiet,
   noopEnd |-> FALSE, noopOpaque |-> 0,
   val |-> fs[1].val, exptime |-> fs[1].exptime]

Parsed(req, rest) == [err |-> "nil", req |-> req, rest |-> rest]

ParseError(err) == [err |-> err, req |-> None, rest |-> <<>>]

\* The parser needs more bytes.
Blocked == [err |-> "blocked", req |-> None, rest |-> <<>>]

\* Mutant: the key of the final get is marked quiet like those before it.
readBatchGetAllQuiet(in, quietOp, op) ==
  LET n == SelectInSeq(in, LAMBDA f : f.op # quietOp) IN
  IF n = 0 THEN Blocked
  ELSE LET keyed == IF in[n].op = op THEN SubSeq(in, 1, n)
                                     ELSE SubSeq(in, 1, n - 1)
           req == Request(op, keyed, [i \in DOMAIN keyed |-> TRUE])
           rest == SubSeq(in, n + 1, Len(in))
       IN CASE in[n].op = op -> Parsed(req, rest)
            [] in[n].op = "Noop" -> Parsed([req EXCEPT !.noopEnd = TRUE,
                                            !.noopOpaque = in[n].opaque], rest)
            [] OTHER -> Parsed(req, <<Junk>> \o rest)

\* readBatchGet and readBatchGetE: quiet gets up to a get or a noop.  Any other
\* opcode ends the batch too, and only its header has been read.
readBatchGet(in, quietOp, op) ==
  LET n == SelectInSeq(in, LAMBDA f : f.op # quietOp) IN
  IF n = 0 THEN Blocked
  ELSE LET last == in[n]
           keyed == IF last.op = op THEN SubSeq(in, 1, n) ELSE SubSeq(in, 1, n - 1)
           req == Request(op, keyed, [i \in DOMAIN keyed |-> i < n])
           rest == SubSeq(in, n + 1, Len(in))
       IN CASE last.op = op     -> Parsed(req, rest)
            [] last.op = "Noop" -> Parsed([req EXCEPT !.noopEnd = TRUE,
                                           !.noopOpaque = last.opaque], rest)
            [] last.op \in Bare \ {"Noop"} -> Parsed(req, rest)
            [] OTHER            -> Parsed(req, <<Junk>> \o rest)

Single(f, op, quiet, rest) == Parsed(Request(op, <<f>>, <<quiet>>), rest)

\* A body where a header should be does not begin with the magic number, which
\* is seen once there are as many bytes as a header has.
Parse(in) ==
  IF in = <<>> THEN Blocked
  ELSE LET f == in[1]
           rest == Tail(in)
       IN CASE f.op = "junk"  -> IF rest = <<>> THEN Blocked
                                               ELSE ParseError("BadMagic")
            [] f.op = "GetQ"  -> readBatchGet(in, "GetQ", "Get")
            [] f.op = "GetEQ" -> readBatchGet(in, "GetEQ", "GetE")
            [] f.op = "QuitQ" -> Single(f, "Quit", TRUE, rest)
            [] f.op \in DOMAIN QuietForm -> Single(f, QuietForm[f.op], TRUE, rest)
            [] f.op = "DeleteQ" -> ParseError("UnknownCmd")
            [] OTHER -> Single(f, f.op, FALSE, rest)

(***************************************************************************)
(* BinaryResponder.  Each method is the sequence of responses it writes.   *)
(***************************************************************************)

Reply(op, status, opaque) == <<[op |-> op, status |-> status, opaque |-> opaque]>>

\* Errors are written for quiet commands too.
Error(op, err, opaque) == Reply(op, err, opaque)

\* Set, Add, Replace, Append, Prepend and Quit; the others are never quiet.
Success(op, opaque, quiet) == IF quiet THEN <<>> ELSE Reply(op, "nil", opaque)

\* Get, GetE and GAT.
Value(op, hit, opaque, quiet) ==
  IF hit THEN Reply(op, "nil", opaque)
  ELSE IF quiet THEN <<>> ELSE Error(op, "KeyNotFound", opaque)

GetEnd(opaque, noopEnd) == IF noopEnd THEN Reply("Noop", "nil", opaque) ELSE <<>>

=============================================================================
