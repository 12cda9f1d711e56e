------------------------------ MODULE TextProt ------------------------------
(***************************************************************************)
(* The text protocol of package protocol/textprot: what the parser makes   *)
(* of the lines a client has sent, and what the responder writes.          *)
(*                                                                         *)
(* A line is its command, its keys and the error the parser finds in it,   *)
(* nil if none.  A storage command is followed by a data block, which is a *)
(* line whose command is "data": no command, if it is read as one.         *)
(***************************************************************************)
EXTENDS Naturals, Sequences

CONSTANTS None

TextStorage == {"set", "add", "replace", "append", "prepend"}

RequestType ==
  [set |-> "Set", add |-> "Add", replace |-> "Replace", append |-> "Append",
   prepend |-> "Prepend", get |-> "Get", delete |-> "Delete",
   touch |-> "Touch", noop |-> "Noop", quit |-> "Quit", version |-> "Version"]

\* Errors in a line that are answered, after which the loop reads on.
LineErrors == {"BadRequest", "BadLength", "BadFlags", "BadExptime"}

(***************************************************************************)
(* TextParser.Parse.                                                       *)
(***************************************************************************)

\* There is no opaque and nothing is quiet.
Request(op, line) ==
  [op |-> op, keys |-> line.keys,
   opaques |-> [i \in DOMAIN line.keys |-> 0],
   quiet |-> [i \in DOMAIN line.keys |-> FALSE],
   noopEnd |-> FALSE, noopOpaque |-> 0,
   val |-> line.val, exptime |-> line.exptime]

Parsed(err, req, rest) == [err |-> err, req |-> req, rest |-> rest]

Blocked == [err |-> "blocked", req |-> None, rest |-> <<>>]

\* Mutant: the data block is left for the next call.
setRequestNoData(in) ==
  LET line == in[1] IN
  IF line.err # "nil" THEN Parsed(line.err, None, Tail(in))
  ELSE Parsed("nil", Request(RequestType[line.cmd], line), Tail(in))

\* The data block is read only once the line has been found good.
setRequest(in) ==
  LET line == in[1] IN
  IF line.err # "nil" THEN Parsed(line.err, None, Tail(in))
  ELSE IF Len(in) = 1 THEN Blocked
  ELSE Parsed("nil", Request(RequestType[line.cmd], line), SubSeq(in, 3, Len(in)))

\* A command it does not know is a request of its own type and no error.
Parse(in) ==
  IF in = <<>> THEN Blocked
  ELSE LET line == in[1] IN
       CASE line.cmd \in TextStorage -> setRequest(in)
         [] line.cmd \in DOMAIN RequestType \ TextStorage ->
              IF line.err # "nil" THEN Parsed(line.err, None, Tail(in))
              ELSE Parsed("nil", Request(RequestType[line.cmd], line), Tail(in))
         [] OTHER -> Parsed("nil", Request("Unknown", line), Tail(in))

(***************************************************************************)
(* TextResponder.  A reply that ends the answer to a command is final; the *)
(* values of a get come before its END.                                    *)
(***************************************************************************)

Final(word) == <<[word |-> word, final |-> TRUE]>>

Stored == {"Set", "Add", "Replace", "Append", "Prepend"}

Success(op) == Final(IF op \in Stored THEN "STORED" ELSE op)

Value(key, hit) ==
  IF hit THEN <<[word |-> key, final |-> FALSE]>> ELSE <<>>

GetEnd == Final("END")

\* Error: the words for the errors that have one, the error's own otherwise.
ErrorWords == [KeyNotFound |-> "NOT_FOUND", KeyExists |-> "NOT_STORED"]

Error(err) == Final(IF err \in DOMAIN ErrorWords THEN ErrorWords[err] ELSE err)

=============================================================================
