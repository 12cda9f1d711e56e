-------------------------------- MODULE Conn --------------------------------
(***************************************************************************)
(* Connections from the first byte to the last: the client and what it     *)
(* sends, the choice of the protocol, the server loop, the parser and the  *)
(* responder of the protocol, the L1-only orchestrator, which the locking  *)
(* wrapper may be around, and the in-memory handler all connections share. *)
(*                                                                         *)
(* What clients send is a workload: for each connection the pieces it is   *)
(* put together from, a piece being a binary frame, a line, or a line and  *)
(* its data block, with a bound on their number.                           *)
(***************************************************************************)
EXTENDS InMem, SequencesExt

Bin == INSTANCE BinProt

Text == INSTANCE TextProt

\* What the parsers find: binary frames, a key in those that need one, and
\* lines, which the parser finds bad if the key they need is missing.
Frames ==
  {f \in [op : Bin!Opcodes \cup {"junk"}, key : Keys \cup {None}, val : Seq(Data),
          exptime : Nat, opaque : Nat] :
     f.op \notin Bin!Bare \cup {"junk"} => f.key \in Keys}

\* A client sends a body with its header.
ClientFrames == {f \in Frames : f.op # "junk"}

Lines ==
  {l \in [cmd : STRING, keys : Seq(Keys), val : Seq(Data), exptime : Nat,
          err : Text!LineErrors \cup {"nil"}] :
     (l.cmd \in Text!TextStorage \cup {"get", "delete", "touch"} /\ l.err = "nil") =>
       l.keys # <<>>}

\* A workload has, by connection, the pieces and how many there may be at
\* most, the connections whose client may hang up, the time at which the
\* behaviours explored end, and whether the locking wrapper is used.
CONSTANTS Workloads

\* A storage line in which the parser finds nothing wrong.
Opens(line) == line.cmd \in Text!TextStorage /\ line.err = "nil"

\* Such a line is sent with its data block.
HasBlocks(piece) ==
  \A i \in DOMAIN piece : Opens(piece[i]) => i < Len(piece) /\ piece[i + 1].cmd = "data"

\* A client speaks one protocol.  The locks of the wrapper are not modelled
\* here: a connection that goes through it is the only one.
ASSUME WorkloadsAssumption ==
  \A w \in Workloads :
    /\ \A c \in Conns :
         /\ w.most[c] \in Nat
         /\ \/ w.pieces[c] \subseteq Seq(ClientFrames)
            \/ w.pieces[c] \subseteq {piece \in Seq(Lines) : HasBlocks(piece)}
         /\ <<>> \notin w.pieces[c]
    /\ w.leave \subseteq Conns /\ w.maxNow \in Nat
    /\ w.locked => \A c, d \in Conns : c # d => w.most[c] = 0 \/ w.most[d] = 0

VARIABLES load,     \* the workload
          pieces,   \* the pieces each client has begun to send
          unsent,   \* the rest of the last one
          log,      \* history: what each client has sent
          eof,      \* the clients that have gone
          in,       \* what has arrived and is not parsed
          proto,    \* the connection's protocol, once it is known
          pc,       \* where the server loop is
          todo,     \* the requests to the orchestrator that are still to do
          out       \* what has been written to the client

clientVars == <<load, pieces, unsent, log, eof>>

vars == <<clientVars, in, proto, pc, todo, out, inmemVars>>

\* Types: every variable has the shape its counterpart in the code has.
TypeOK ==
  /\ InMemTypeOK
  /\ load \in Workloads
  /\ \A c \in Conns : pieces[c] \in 0..load.most[c]
  /\ eof \subseteq Conns
  /\ proto \in [Conns -> {"none", "binary", "text"}]
  /\ pc \in [Conns -> {"new", "parse", "handler", "closed"}]
  /\ \A c \in Conns :
       /\ pc[c] = "handler" => todo[c] # <<>> /\ at[c] # "out"
       /\ Len(in[c]) <= Len(log[c])

Init ==
  /\ load \in Workloads
  /\ pieces = [c \in Conns |-> 0]
  /\ unsent = [c \in Conns |-> <<>>]
  /\ log = [c \in Conns |-> <<>>]
  /\ eof = {}
  /\ in = [c \in Conns |-> <<>>]
  /\ proto = [c \in Conns |-> "none"]
  /\ pc = [c \in Conns |-> "new"]
  /\ todo = [c \in Conns |-> <<>>]
  /\ out = [c \in Conns |-> <<>>]
  /\ InMemInit

(***************************************************************************)
(* The client.                                                             *)
(***************************************************************************)

IsFrame(f) == "opaque" \in DOMAIN f

\* The opaque of a frame is its place in what the client sends.
Numbered(c, f) == IF IsFrame(f) THEN [f EXCEPT !.opaque = Len(log[c]) + 1] ELSE f

Send(c) ==
  /\ c \notin eof /\ pc[c] # "closed"
  /\ \E piece \in IF unsent[c] # <<>> THEN {unsent[c]} ELSE load.pieces[c] :
       /\ unsent[c] = <<>> => pieces[c] < load.most[c]
       /\ pieces' = [pieces EXCEPT ![c] = @ + (IF unsent[c] = <<>> THEN 1 ELSE 0)]
       /\ unsent' = [unsent EXCEPT ![c] = Tail(piece)]
       /\ log' = [log EXCEPT ![c] = Append(@, Numbered(c, Head(piece)))]
       /\ in' = [in EXCEPT ![c] = Append(@, Numbered(c, Head(piece)))]
  /\ UNCHANGED <<load, eof, proto, pc, todo, out, inmemVars>>

HangUp(c) ==
  /\ c \in load.leave \ eof /\ pc[c] # "closed"
  /\ eof' = eof \cup {c}
  /\ UNCHANGED <<load, pieces, unsent, log, in, proto, pc, todo, out, inmemVars>>

(***************************************************************************)
(* ListenAndServe: the first byte tells the protocol.                      *)
(***************************************************************************)

Goto(c, label) == pc' = [pc EXCEPT ![c] = label]

Write(c, replies) == out' = [out EXCEPT ![c] = @ \o replies]

Disambiguate(c) ==
  /\ pc[c] = "new"
  /\ \/ /\ in[c] # <<>>
        /\ proto' = [proto EXCEPT ![c] = IF IsFrame(in[c][1]) THEN "binary"
                                                              ELSE "text"]
        /\ Goto(c, "parse")
     \/ /\ in[c] = <<>> /\ c \in eof
        /\ Goto(c, "closed")
        /\ UNCHANGED proto
  /\ UNCHANGED <<clientVars, in, todo, out, inmemVars>>

(***************************************************************************)
(* The responder of the connection's protocol.                             *)
(***************************************************************************)

Success(c, r) ==
  IF proto[c] = "binary"
  THEN Bin!Success(r.op, r.opaques[1], r.quiet[1]) ELSE Text!Success(r.op)

\* The opaque of a get that fails is 0.
ErrorReply(c, r, err) ==
  IF proto[c] = "binary"
  THEN Bin!Error(r.op, err, IF r.op \in ReadMethods THEN 0 ELSE r.opaques[1])
  ELSE Text!Error(err)

\* What a get or a gat writes for one response.
ValueReply(c, r, i) ==
  LET hit == got[c][i].item # None IN
  IF proto[c] = "binary" THEN Bin!Value(r.op, hit, r.opaques[i], r.quiet[i])
                         ELSE Text!Value(r.keys[i], hit)

EndReply(c, r) ==
  IF proto[c] = "binary" THEN Bin!GetEnd(r.noopOpaque, r.noopEnd) ELSE Text!GetEnd

(***************************************************************************)
(* DefaultServer.Loop.                                                     *)
(***************************************************************************)

\* Mutant: a bad length is taken for a failure of the connection.
SurvivableFew == {"BadRequest", "BadFlags", "BadExptime"}

\* Parse errors after which the loop goes on.
Survivable == {"BadRequest", "BadLength", "BadFlags", "BadExptime"}

\* LockedOrca.Get and GetE: one request for each key, the last of which has
\* the noop at its end.
Split(r) ==
  [i \in DOMAIN r.keys |->
     [r EXCEPT !.keys = <<r.keys[i]>>, !.opaques = <<r.opaques[i]>>,
               !.quiet = <<r.quiet[i]>>,
               !.noopEnd = r.noopEnd /\ i = Len(r.keys),
               !.noopOpaque = IF i = Len(r.keys) THEN r.noopOpaque ELSE 0]]

Requests(r) ==
  IF load.locked /\ r.op \in ReadMethods THEN Split(r) ELSE <<r>>

ParseIn(c) == IF proto[c] = "binary" THEN Bin!Parse(in[c]) ELSE Text!Parse(in[c])

\* Once the client has gone a write may fail.  The error closes the connection
\* if the orchestrator returns what the responder's method returned.
WriteMayFail(c, r) ==
  c \in eof /\ r.op \in {"Set", "Add", "Replace", "Append", "Prepend", "Noop",
                         "Version"}

\* A request that no handler has a part in.
Served(c, r) ==
  \/ /\ r.op \in {"Noop", "Version"}
     /\ Write(c, Success(c, r))
     /\ Goto(c, "parse")
  \/ /\ WriteMayFail(c, r) /\ r.op \in {"Noop", "Version"}
     /\ Goto(c, "closed") /\ UNCHANGED out
  \/ /\ r.op = "Quit"
     /\ Write(c, Success(c, r))
     /\ Goto(c, "closed")
  \/ /\ r.op = "Unknown"
     /\ Write(c, ErrorReply(c, r, "UnknownCmd"))
     /\ Goto(c, "parse")

\* One turn of the loop, up to the call of the orchestrator.
ParseRequest(c) ==
  LET p == ParseIn(c) IN
  /\ pc[c] = "parse"
  /\ \/ /\ p.err = "blocked" /\ c \in eof
        /\ Goto(c, "closed")
        /\ UNCHANGED <<in, todo, out, inmemVars>>
     \/ /\ p.err \in Survivable
        /\ in' = [in EXCEPT ![c] = p.rest]
        /\ Write(c, Text!Error(p.err))
        /\ UNCHANGED <<pc, todo, inmemVars>>
     \/ /\ p.err \notin Survivable \cup {"nil", "blocked"}
        /\ Goto(c, "closed")
        /\ UNCHANGED <<in, todo, out, inmemVars>>
     \/ /\ p.err = "nil" /\ p.req.op \notin Methods
        /\ in' = [in EXCEPT ![c] = p.rest]
        /\ Served(c, p.req)
        /\ UNCHANGED <<todo, inmemVars>>
     \/ /\ p.err = "nil" /\ p.req.op \in Methods
        /\ in' = [in EXCEPT ![c] = p.rest]
        /\ todo' = [todo EXCEPT ![c] = Requests(p.req)]
        /\ Enter(c, Requests(p.req)[1])
        /\ Goto(c, "handler")
        /\ UNCHANGED <<out, data, now, fatal, clash>>
  /\ UNCHANGED <<clientVars, proto>>

\* What L1OnlyOrca writes, or the loop in its place, when the handler returns.
Replies(c, r) ==
  CASE r.op \in ReadMethods ->
         FlattenSeq([i \in DOMAIN r.keys |-> ValueReply(c, r, i)]) \o EndReply(c, r)
    [] r.op = "Gat" -> ValueReply(c, r, 1)
    [] OTHER ->
         IF got[c][1].err = "nil" THEN Success(c, r)
                                  ELSE ErrorReply(c, r, got[c][1].err)

\* The handler returns: the response is written, and the wrapper goes on with
\* the next key, or the loop with the next request.
Finish(c) ==
  LET r == call[c] IN
  /\ pc[c] = "handler" /\ at[c] = "ret"
  /\ todo' = [todo EXCEPT ![c] = Tail(@)]
  /\ \/ /\ Write(c, Replies(c, r))
        /\ IF Len(todo[c]) > 1
           THEN Enter(c, todo[c][2]) /\ UNCHANGED pc
           ELSE /\ Goto(c, "parse") /\ MoveTo(c, "out")
                /\ call' = [call EXCEPT ![c] = None]
                /\ got' = [got EXCEPT ![c] = <<>>]
     \/ /\ WriteMayFail(c, r) /\ Replies(c, r) # <<>> /\ got[c][1].err = "nil"
        /\ Goto(c, "closed") /\ MoveTo(c, "out")
        /\ UNCHANGED <<out, call, got>>
  /\ UNCHANGED <<clientVars, in, proto, data, now, fatal, clash>>

(***************************************************************************)
(* The specification.                                                      *)
(***************************************************************************)

InHandler(c) ==
  InMemStep(c) /\ UNCHANGED <<clientVars, in, proto, pc, todo, out>>

Clock ==
  /\ now < load.maxNow
  /\ Tick
  /\ UNCHANGED <<clientVars, in, proto, pc, todo, out>>

ServerStep(c) ==
  Disambiguate(c) \/ ParseRequest(c) \/ InHandler(c) \/ Finish(c)

Next ==
  /\ ~fatal
  /\ \/ \E c \in Conns : Send(c) \/ HangUp(c) \/ ServerStep(c)
     \/ Clock

\* Goroutines run and sync.RWMutex is fair; clients need not do anything.
Fairness == \A c \in Conns : WF_vars(~fatal /\ ServerStep(c))

Spec == Init /\ [][Next]_vars /\ Fairness

(***************************************************************************)
(* Properties: the stream of requests and responses.                       *)
(***************************************************************************)

\* What of the client's stream has been served.
Consumed(c) == SubSeq(log[c], 1, Len(log[c]) - Len(in[c]))

\* A quiet get is followed by something that neither continues nor ends it.
StrayAt(s, i) ==
  /\ i < Len(s)
  /\ \/ s[i].op = "GetQ"  /\ s[i + 1].op \notin {"GetQ", "Get", "Noop"}
     \/ s[i].op = "GetEQ" /\ s[i + 1].op \notin {"GetEQ", "GetE", "Noop"}

HasStray(s) == \E i \in DOMAIN s : StrayAt(s, i)

\* Binary responses come in the order of the commands, at most one for each
\* and with its opaque: a command that is not quiet has its response once it
\* has been parsed and served, also when it is a key of a pipelined get or the
\* noop that ends it, and a quiet get is never told of a miss.  After an
\* opcode that may not follow a quiet get the parser drops its header, and
\* nothing is claimed.
BinaryReplies ==
  \A c \in Conns :
    (proto[c] = "binary" /\ pc[c] = "parse" /\ ~HasStray(log[c])) =>
      LET served == Consumed(c)
          opaques == [i \in DOMAIN out[c] |-> out[c][i].opaque]
      IN
      /\ \A i, j \in DOMAIN opaques : i < j => opaques[i] < opaques[j]
      /\ Range(opaques) \subseteq DOMAIN served
      /\ \A i \in DOMAIN served :
           served[i].op \notin Bin!Quiet => i \in Range(opaques)
      /\ \A i \in DOMAIN out[c] :
           served[opaques[i]].op \in {"GetQ", "GetEQ"} =>
             out[c][i].status # "KeyNotFound"

\* A line that the text parser takes for a command: not the data block of a
\* storage command whose line it found good.
CommandAt(s, i) == ~(i > 1 /\ s[i].cmd = "data" /\ Opens(s[i - 1]))

Finals(s) == {i \in DOMAIN s : s[i].final}

\* What a client of the text protocol counts on: every command line it has
\* sent is answered by values, if it is a get, and one final line.  The
\* comment in TextResponder.Get gives the form: VALUE lines, then END.
TextAnswersOnce ==
  \A c \in Conns :
    (proto[c] = "text" /\ pc[c] = "parse") =>
      LET served == Consumed(c) IN
      Cardinality(Finals(out[c])) =
        Cardinality({i \in DOMAIN served : CommandAt(served, i)})

\* The same where the locking wrapper is not in use.  The data block of a line
\* that was refused is a command to the parser, and is answered as one.
TextReplies == ~load.locked => TextAnswersOnce

\* The server closes a connection only when the client has gone or has asked
\* for it, or, in the binary protocol, after an opcode it does not know or one
\* that may not follow a quiet get, whose body it then takes for a header.  Bad
\* lines do not close it.
ClosedForCause ==
  \A c \in Conns :
    pc[c] = "closed" =>
      \/ c \in eof
      \/ /\ proto[c] = "binary"
         /\ \/ \E i \in DOMAIN log[c] :
                 log[c][i].op \in {"Quit", "QuitQ", "DeleteQ"}
            \/ HasStray(log[c])
      \/ proto[c] = "text" /\ \E i \in DOMAIN log[c] : log[c][i].cmd = "quit"

\* Everything a client sends is served, also while other connections wait for
\* the same lock, unless the process is ended.
EveryRequestIsServed ==
  \A c \in Conns :
    (pc[c] = "handler" \/ (pc[c] = "parse" /\ ParseIn(c).err # "blocked")) ~>
      (fatal \/ pc[c] = "closed" \/ (pc[c] = "parse" /\ ParseIn(c).err = "blocked"))

(***************************************************************************)
(* Properties: the map all connections share.                              *)
(***************************************************************************)

\* The responses of a get are a snapshot: until it gives the read lock up, what
\* it has found is what the map holds, but for entries that have expired since.
SnapshotGets ==
  \A c \in Reading : \A i \in DOMAIN got[c] :
    LET r == got[c][i] IN
    IF r.item # None
    THEN data[r.key] = r.item \/ (isExpired(r.item) /\ data[r.key] = None)
    ELSE Absent(data[r.key])

\* The runtime ends the process only because two gets were in the map, one of
\* them in the delete() it does with the read lock; no writer is ever in the
\* map beside another method.
OnlyGetsClash == clash \subseteq ReadMethods

\* What a client of a cache counts on: a live entry leaves the map only when a
\* client deletes it.  RequestAdd "will perform the same operations as set, but
\* only if the key does not exist" (common), so that an add of a key that does
\* leaves it alone.
KeptUnlessAsked ==
  [][\A k \in Keys :
       (~Absent(data[k]) /\ data'[k] = None) =>
         \E c \in Conns :
           at[c] = "write" /\ call[c].keys[1] = k /\ call[c].op = "Delete"]_vars

=============================================================================
