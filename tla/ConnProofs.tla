----------------------------- MODULE ConnProofs -----------------------------
(***************************************************************************)
(* The in-memory handler under any number of connections, whatever their   *)
(* clients send: types, the exclusion its lock gives, and what a get may   *)
(* rely on while it holds the read side.                                   *)
(***************************************************************************)
EXTENDS Conn, FiniteSetTheorems, SequenceTheorems, WellFoundedInduction, TLAPS

(***************************************************************************)
(* Types the parsers establish.                                            *)
(***************************************************************************)

\* What the orchestrator passes to the handler.
Calls ==
  {r \in [op : Methods, keys : Seq(Keys), opaques : Seq(Nat), quiet : Seq(BOOLEAN),
          noopEnd : BOOLEAN, noopOpaque : Nat, val : Seq(Data), exptime : Nat] :
     /\ r.keys # <<>>
     /\ Len(r.opaques) = Len(r.keys) /\ Len(r.quiet) = Len(r.keys)}

\* What is on a connection's wire, and with it the protocol.
Binary(c) == load.pieces[c] \subseteq Seq(Frames)

Wire(c) == IF Binary(c) THEN Frames ELSE Lines

(***************************************************************************)
(* The inductive invariant.                                                *)
(***************************************************************************)

StreamsOK ==
  /\ load \in Workloads
  /\ pieces \in [Conns -> Nat]
  /\ unsent \in [Conns -> Seq(Frames \cup Lines)]
  /\ in \in [Conns -> Seq(Frames \cup Lines)]
  /\ log \in [Conns -> Seq(Frames \cup Lines)]
  /\ eof \subseteq Conns
  /\ proto \in [Conns -> {"none", "binary", "text"}]
  /\ \A c \in Conns :
       /\ pieces[c] <= load.most[c]
       /\ unsent[c] \in Seq(Wire(c)) /\ in[c] \in Seq(Wire(c))
       /\ Len(in[c]) <= Len(log[c])
       /\ proto[c] = "binary" => Binary(c)
       /\ proto[c] = "text" => ~Binary(c)
       /\ pc[c] \in {"parse", "handler"} => proto[c] # "none"

HandlerOK ==
  /\ data \in [Keys -> Entry \cup {None}]
  /\ now \in Nat
  /\ at \in [Conns -> Places]
  /\ call \in [Conns -> Calls \cup {None}]
  /\ got \in [Conns -> Seq(Response)]
  /\ pc \in [Conns -> {"new", "parse", "handler", "closed"}]
  /\ todo \in [Conns -> Seq(Calls)]
  /\ fatal \in BOOLEAN

\* Where a goroutine is says what it was called with and what it has.
InMethod(c) ==
  /\ pc[c] = "handler" => todo[c] # <<>> /\ at[c] # "out"
  /\ pc[c] # "handler" => at[c] = "out"
  /\ at[c] # "out" => call[c] \in Calls
  /\ at[c] \in {"rwant", "look", "del", "rdone"} => call[c].op \in ReadMethods
  /\ at[c] \in {"want", "write"} => call[c].op \notin ReadMethods
  /\ at[c] \in {"want", "rwant"} => got[c] = <<>>
  /\ at[c] \in {"look", "del"} => Len(got[c]) < Len(call[c].keys)
  /\ at[c] = "del" => Absent(data[NextKey(c)])

InMap == {"look", "del", "rdone", "write"}

\* The lock: who writes is alone in the map.
Exclusion == \A c, d \in Conns : (c # d /\ at[c] = "write") => at[d] \notin InMap

ConnInv ==
  /\ StreamsOK
  /\ HandlerOK
  /\ \A c \in Conns : InMethod(c)
  /\ Exclusion
  /\ SnapshotGets
  /\ OnlyGetsClash

-----------------------------------------------------------------------------
(***************************************************************************)
(* The parsers.                                                            *)
(***************************************************************************)

\* A set of naturals has a least member.
LEMMA MinOfNats ==
  ASSUME NEW I \in SUBSET Nat, I # {}
  PROVE  \E x \in I : \A y \in I : x <= y
  <1> DEFINE R == {ss \in Nat \X Nat : ss[1] < ss[2]}
  <1>1. IsWellFoundedOn(R, Nat)
    BY NatLessThanWellFounded DEF OpToRel
  <1> HIDE DEF R
  <1>2. PICK x \in I : \A y \in I : ~(<<y, x>> \in R)
    BY <1>1, WFMin
  <1>3. ASSUME NEW y \in I PROVE x <= y
    <2>1. x \in Nat /\ y \in Nat /\ <<y, x>> \in Nat \X Nat
      OBVIOUS
    <2>2. ~(y < x)
      BY <1>2, <2>1 DEF R
    <2> QED BY <2>1, <2>2
  <1> QED BY <1>3

\* The place of the first frame with another opcode, 0 if there is none.
FirstOther(s, q) ==
  LET I == {i \in 1..Len(s) : s[i].op # q}
  IN  IF I # {} THEN CHOOSE i \in I : \A j \in I : i <= j ELSE 0

LEMMA FirstOtherIs ==
  ASSUME NEW s \in Seq(Frames), NEW q
  PROVE  /\ FirstOther(s, q) \in 0..Len(s)
         /\ FirstOther(s, q) # 0 => /\ s[FirstOther(s, q)].op # q
                                    /\ \A i \in 1..(FirstOther(s, q) - 1) : s[i].op = q
  <1> DEFINE I == {i \in 1..Len(s) : s[i].op # q}
             n == CHOOSE i \in I : \A j \in I : i <= j
  <1>1. CASE I = {}
    BY <1>1 DEF FirstOther
  <1>2. CASE I # {}
    <2>1. \E i \in I : \A j \in I : i <= j
      <3>1. I \in SUBSET Nat
        OBVIOUS
      <3> HIDE DEF I
      <3> QED BY <1>2, <3>1, MinOfNats
    <2>2. n \in I /\ \A j \in I : n <= j
      BY <2>1
    <2>3. FirstOther(s, q) = n
      BY <1>2 DEF FirstOther
    <2>4. \A i \in 1..(n - 1) : s[i].op = q
      BY <2>2
    <2> QED BY <2>2, <2>3, <2>4
  <1> QED BY <1>1, <1>2

LEMMA ReadBatchGetIs ==
  ASSUME NEW s, NEW q, NEW op
  PROVE  Bin!readBatchGet(s, q, op) =
           LET n == FirstOther(s, q) IN
           IF n = 0 THEN Bin!Blocked
           ELSE LET last == s[n]
                    keyed == IF last.op = op THEN SubSeq(s, 1, n) ELSE SubSeq(s, 1, n - 1)
                    req == Bin!Request(op, keyed, [i \in DOMAIN keyed |-> i < n])
                    rest == SubSeq(s, n + 1, Len(s))
                IN CASE last.op = op     -> Bin!Parsed(req, rest)
                     [] last.op = "Noop" -> Bin!Parsed([req EXCEPT !.noopEnd = TRUE,
                                                        !.noopOpaque = last.opaque], rest)
                     [] last.op \in Bin!Bare \ {"Noop"} -> Bin!Parsed(req, rest)
                     [] OTHER            -> Bin!Parsed(req, <<Bin!Junk>> \o rest)
  BY DEF Bin!readBatchGet, Bin!SelectInSeq, Bin!Min, FirstOther

\* A request made of frames that have keys is one for the handler.
LEMMA FramesCall ==
  ASSUME NEW op \in Methods, NEW fs \in Seq(Frames), fs # <<>>,
         \A i \in 1..Len(fs) : fs[i].key \in Keys,
         NEW quiet \in Seq(BOOLEAN), Len(quiet) = Len(fs)
  PROVE  Bin!Request(op, fs, quiet) \in Calls
  <1> DEFINE keys == [i \in DOMAIN fs |-> fs[i].key]
             opaques == [i \in DOMAIN fs |-> fs[i].opaque]
  <1>1. Len(fs) \in Nat /\ DOMAIN fs = 1..Len(fs) /\ Len(fs) # 0
    OBVIOUS
  <1>2. \A i \in 1..Len(fs) : fs[i] \in Frames
    OBVIOUS
  <1>3. keys \in [1..Len(fs) -> Keys] /\ opaques \in [1..Len(fs) -> Nat]
    BY <1>1, <1>2 DEF Frames
  <1>4. /\ keys \in Seq(Keys) /\ Len(keys) = Len(fs)
        /\ opaques \in Seq(Nat) /\ Len(opaques) = Len(fs)
    BY <1>1, <1>3
  <1>5. fs[1].val \in Seq(Data) /\ fs[1].exptime \in Nat
    BY <1>1, <1>2 DEF Frames
  <1>6. keys # <<>>
    BY <1>1, <1>4
  <1> HIDE DEF keys, opaques
  <1>7. [op |-> op, keys |-> keys, opaques |-> opaques, quiet |-> quiet,
         noopEnd |-> FALSE, noopOpaque |-> 0, val |-> fs[1].val,
         exptime |-> fs[1].exptime] \in Calls
    BY <1>4, <1>5, <1>6 DEF Calls
  <1> QED BY <1>7 DEF Bin!Request, keys, opaques

\* Parse, as far as the loop depends on it: a request for the handler is a call,
\* and what is left are frames, no more than there were.
GoodParse(p, s, Piece) ==
  /\ (p.err = "nil" /\ p.req.op \in Methods) => p.req \in Calls
  /\ p.rest \in Seq(Piece) /\ Len(p.rest) <= Len(s)

LEMMA BatchParses ==
  ASSUME NEW s \in Seq(Frames), s # <<>>, NEW q \in {"GetQ", "GetEQ"},
         NEW op \in ReadMethods, s[1].op = q
  PROVE  GoodParse(Bin!readBatchGet(s, q, op), s, Frames)
  <1> DEFINE n == FirstOther(s, q)
             last == s[n]
             keyed == IF last.op = op THEN SubSeq(s, 1, n) ELSE SubSeq(s, 1, n - 1)
             quiet == [i \in DOMAIN keyed |-> i < n]
             req == Bin!Request(op, keyed, quiet)
             rest == SubSeq(s, n + 1, Len(s))
  <1>1. CASE n = 0
    <2>1. Bin!readBatchGet(s, q, op) = Bin!Blocked
      BY <1>1, ReadBatchGetIs
    <2> QED BY <2>1 DEF GoodParse, Bin!Blocked
  <1>2. CASE n # 0
    <2>0. /\ Len(s) \in Nat /\ n \in 1..Len(s) /\ s[n].op # q
          /\ \A i \in 1..(n - 1) : s[i].op = q
      <3>1. n \in 0..Len(s) /\ s[n].op # q /\ \A i \in 1..(n - 1) : s[i].op = q
        BY <1>2, FirstOtherIs
      <3> QED BY <1>2, <3>1
    <2>1. n > 1
      BY <2>0
    <2> HIDE DEF n
    <2>2. \A i \in 1..Len(s) : s[i] \in Frames
      OBVIOUS
    <2>3. op \notin Bin!Bare \cup {"junk"} /\ q \notin Bin!Bare \cup {"junk"}
          /\ op \in Methods
      BY DEF ReadMethods, Bin!Bare, Methods
    <2>4. \A m \in 1..Len(s) : /\ SubSeq(s, 1, m) \in Seq(Frames) /\ Len(SubSeq(s, 1, m)) = m
                               /\ \A i \in 1..m : SubSeq(s, 1, m)[i] = s[i]
      BY <2>0
    <2>5. /\ keyed \in Seq(Frames) /\ keyed # <<>>
          /\ \A i \in 1..Len(keyed) : keyed[i].key \in Keys
      <3>0. \A i \in 1..Len(s) : s[i].op \in {q, op} => s[i].key \in Keys
        BY <2>2, <2>3 DEF Frames
      <3>1. CASE last.op = op
        <4>1. ASSUME NEW i \in 1..n PROVE s[i].key \in Keys
          <5>1. i \in 1..Len(s) /\ (i = n \/ i \in 1..(n - 1))
            BY <2>0
          <5> QED BY <2>0, <3>0, <3>1, <5>1
        <4> QED BY <2>0, <2>4, <3>1, <4>1
      <3>2. CASE last.op # op
        <4>1. \A i \in 1..(n - 1) : s[i].key \in Keys
          BY <2>0, <3>0
        <4>2. n - 1 \in 1..Len(s)
          BY <2>0, <2>1
        <4> QED BY <2>4, <3>2, <4>1, <4>2
      <3> QED BY <3>1, <3>2
    <2> HIDE DEF keyed
    <2>6. quiet \in Seq(BOOLEAN) /\ Len(quiet) = Len(keyed)
      <3>1. DOMAIN keyed = 1..Len(keyed) /\ Len(keyed) \in Nat
        BY <2>5
      <3>2. quiet \in [1..Len(keyed) -> BOOLEAN]
        BY <3>1
      <3> QED BY <3>1, <3>2
    <2> HIDE DEF quiet
    <2>7. req \in Calls
      BY <2>3, <2>5, <2>6, FramesCall
    <2> HIDE DEF req
    <2>8. last \in Frames /\ last.opaque \in Nat
      BY <2>0, <2>2 DEF Frames
    <2>9. [req EXCEPT !.noopEnd = TRUE, !.noopOpaque = last.opaque] \in Calls
      BY <2>7, <2>8 DEF Calls
    <2>10. rest \in Seq(Frames) /\ Len(rest) < Len(s)
      BY <2>0
    <2> HIDE DEF rest
    <2>11. Bin!Junk \in Frames
      BY DEF Frames, Bin!Junk
    <2>12. <<Bin!Junk>> \o rest \in Seq(Frames) /\ Len(<<Bin!Junk>> \o rest) <= Len(s)
      BY <2>10, <2>11
    <2> HIDE DEF last
    <2> DEFINE withNoop == [req EXCEPT !.noopEnd = TRUE, !.noopOpaque = last.opaque]
               junked == <<Bin!Junk>> \o rest
    <2>13. Bin!readBatchGet(s, q, op) =
             CASE last.op = op     -> Bin!Parsed(req, rest)
               [] last.op = "Noop" -> Bin!Parsed(withNoop, rest)
               [] last.op \in Bin!Bare \ {"Noop"} -> Bin!Parsed(req, rest)
               [] OTHER            -> Bin!Parsed(req, junked)
      BY <1>2, ReadBatchGetIs, Zenon DEF n, last, keyed, quiet, req, rest
    <2> DEFINE parse == Bin!readBatchGet(s, q, op)
    <2> HIDE DEF withNoop, junked, parse
    <2>14. \/ parse = Bin!Parsed(req, rest) \/ parse = Bin!Parsed(withNoop, rest)
           \/ parse = Bin!Parsed(req, junked)
      BY <2>13 DEF parse
    <2>15. <<>> \in Seq(Frames) /\ Len(<<>>) <= Len(s)
      BY <2>0
    <2>16. withNoop \in Calls /\ junked \in Seq(Frames) /\ Len(junked) <= Len(s)
           /\ Len(rest) <= Len(s)
      BY <2>0, <2>9, <2>10, <2>12 DEF withNoop, junked
    <2>17. GoodParse(parse, s, Frames)
      <3>1. parse.rest \in {rest, junked, <<>>} /\ (parse.err = "nil" => parse.req \in {req, withNoop})
        BY <2>14 DEF Bin!Parsed
      <3> QED BY <2>7, <2>10, <2>16, <2>15, <3>1 DEF GoodParse
    <2> QED BY <2>17 DEF parse
  <1> QED BY <1>1, <1>2

LEMMA SingleParses ==
  ASSUME NEW s \in Seq(Frames), s # <<>>, NEW op, NEW quiet \in BOOLEAN,
         op \in Methods => s[1].key \in Keys
  PROVE  GoodParse(Bin!Single(s[1], op, quiet, Tail(s)), s, Frames)
  <1> DEFINE req == Bin!Request(op, <<s[1]>>, <<quiet>>)
  <1>1. s[1] \in Frames /\ Tail(s) \in Seq(Frames) /\ Len(Tail(s)) <= Len(s)
    OBVIOUS
  <1>2. req.op = op
    BY DEF Bin!Request
  <1>3. ASSUME op \in Methods PROVE req \in Calls
    <2> DEFINE fs == <<s[1]>>
               qs == <<quiet>>
    <2>1. /\ fs \in Seq(Frames) /\ fs # <<>> /\ Len(fs) = 1 /\ fs[1] = s[1]
          /\ qs \in Seq(BOOLEAN) /\ Len(qs) = 1
      BY <1>1
    <2>2. \A i \in 1..Len(fs) : fs[i].key \in Keys
      BY <1>3, <2>1
    <2> HIDE DEF fs, qs
    <2>3. Bin!Request(op, fs, qs) \in Calls
      BY <1>3, <2>1, <2>2, FramesCall
    <2> QED BY <2>3 DEF fs, qs
  <1> HIDE DEF req
  <1>4. Bin!Single(s[1], op, quiet, Tail(s)) = [err |-> "nil", req |-> req, rest |-> Tail(s)]
    BY DEF Bin!Single, Bin!Parsed, req
  <1> QED BY <1>1, <1>2, <1>3, <1>4 DEF GoodParse

\* BinaryParser.Parse on frames.
LEMMA BinParses ==
  ASSUME NEW s \in Seq(Frames)
  PROVE  GoodParse(Bin!Parse(s), s, Frames)
  <1>0. Len(s) \in Nat /\ <<>> \in Seq(Frames) /\ Len(<<>>) <= Len(s)
    OBVIOUS
  <1>1. CASE s = <<>>
    BY <1>0, <1>1 DEF Bin!Parse, Bin!Blocked, GoodParse
  <1>2. CASE s # <<>>
    <2> DEFINE f == s[1]
    <2>0. f \in Frames /\ f.op \in Bin!Opcodes \cup {"junk"}
      BY <1>2 DEF Frames
    <2>1. CASE f.op \in {"junk", "DeleteQ"}
      <3>1. \/ Bin!Parse(s) = Bin!ParseError("BadMagic") \/ Bin!Parse(s) = Bin!Blocked
            \/ Bin!Parse(s) = Bin!ParseError("UnknownCmd")
        BY <1>2, <2>1 DEF Bin!Parse, Bin!QuietForm
      <3>2. Bin!Parse(s).err # "nil" /\ Bin!Parse(s).rest = <<>>
        BY <3>1 DEF Bin!ParseError, Bin!Blocked
      <3> QED BY <1>0, <3>2 DEF GoodParse
    <2>2. CASE f.op = "GetQ"
      <3>1. Bin!Parse(s) = Bin!readBatchGet(s, "GetQ", "Get")
        BY <1>2, <2>2 DEF Bin!Parse, Bin!QuietForm
      <3>2. "Get" \in ReadMethods
        BY DEF ReadMethods
      <3> QED BY <1>2, <2>2, <3>1, <3>2, BatchParses
    <2>3. CASE f.op = "GetEQ"
      <3>1. Bin!Parse(s) = Bin!readBatchGet(s, "GetEQ", "GetE")
        BY <1>2, <2>3 DEF Bin!Parse, Bin!QuietForm
      <3>2. "GetE" \in ReadMethods
        BY DEF ReadMethods
      <3> QED BY <1>2, <2>3, <3>1, <3>2, BatchParses
    <2>4. CASE f.op = "QuitQ"
      <3>1. Bin!Parse(s) = Bin!Single(f, "Quit", TRUE, Tail(s))
        BY <1>2, <2>4 DEF Bin!Parse, Bin!QuietForm
      <3>2. "Quit" \notin Methods
        BY DEF Methods, ReadMethods
      <3> QED BY <1>2, <3>1, <3>2, SingleParses
    <2>5. CASE f.op \in DOMAIN Bin!QuietForm
      <3>0. f.op \in {"SetQ", "AddQ", "ReplaceQ", "AppendQ", "PrependQ"}
        BY <2>5 DEF Bin!QuietForm
      <3>1. Bin!Parse(s) = Bin!Single(f, Bin!QuietForm[f.op], TRUE, Tail(s))
        BY <1>2, <2>5, <3>0 DEF Bin!Parse
      <3>2. f.key \in Keys
        BY <2>0, <3>0 DEF Frames, Bin!Bare
      <3> QED BY <1>2, <3>1, <3>2, SingleParses
    <2>6. CASE f.op \notin {"junk", "DeleteQ", "GetQ", "GetEQ", "QuitQ"} \cup DOMAIN Bin!QuietForm
      <3>1. Bin!Parse(s) = Bin!Single(f, f.op, FALSE, Tail(s))
        BY <1>2, <2>6 DEF Bin!Parse
      <3>2. f.op \in Methods => f.key \in Keys
        BY <2>0 DEF Frames, Bin!Bare, Methods, ReadMethods
      <3> QED BY <1>2, <3>1, <3>2, SingleParses
    <2> QED BY <2>1, <2>2, <2>3, <2>4, <2>5, <2>6
  <1> QED BY <1>1, <1>2

\* A request made of a good line is one for the handler.
LEMMA LineCall ==
  ASSUME NEW line \in Lines, line.keys # <<>>, NEW op \in Methods
  PROVE  Text!Request(op, line) \in Calls
  <1> DEFINE opaques == [i \in DOMAIN line.keys |-> 0]
             quiet == [i \in DOMAIN line.keys |-> FALSE]
  <1>1. line.keys \in Seq(Keys) /\ line.val \in Seq(Data) /\ line.exptime \in Nat
    BY DEF Lines
  <1>2. Len(line.keys) \in Nat /\ DOMAIN line.keys = 1..Len(line.keys)
    BY <1>1
  <1>3. opaques \in [1..Len(line.keys) -> Nat] /\ quiet \in [1..Len(line.keys) -> BOOLEAN]
    BY <1>2
  <1>4. /\ opaques \in Seq(Nat) /\ Len(opaques) = Len(line.keys)
        /\ quiet \in Seq(BOOLEAN) /\ Len(quiet) = Len(line.keys)
    BY <1>2, <1>3
  <1> HIDE DEF opaques, quiet
  <1>5. [op |-> op, keys |-> line.keys, opaques |-> opaques, quiet |-> quiet,
         noopEnd |-> FALSE, noopOpaque |-> 0, val |-> line.val,
         exptime |-> line.exptime] \in Calls
    BY <1>1, <1>4 DEF Calls
  <1> QED BY <1>5 DEF Text!Request, opaques, quiet

\* TextParser.Parse on lines.
LEMMA TextParses ==
  ASSUME NEW s \in Seq(Lines)
  PROVE  GoodParse(Text!Parse(s), s, Lines)
  <1>0. Len(s) \in Nat /\ <<>> \in Seq(Lines) /\ Len(<<>>) <= Len(s)
    OBVIOUS
  <1>1. CASE s = <<>>
    BY <1>0, <1>1 DEF Text!Parse, Text!Blocked, GoodParse
  <1>2. CASE s # <<>>
    <2> DEFINE line == s[1]
               op == Text!RequestType[line.cmd]
               req == Text!Request(op, line)
    <2>0. /\ line \in Lines /\ Tail(s) \in Seq(Lines) /\ Len(Tail(s)) <= Len(s)
          /\ Len(s) # 1 => /\ SubSeq(s, 3, Len(s)) \in Seq(Lines)
                           /\ Len(SubSeq(s, 3, Len(s))) <= Len(s)
      BY <1>2
    <2>1. req.op = op
      BY DEF Text!Request
    <2>2. ASSUME line.cmd \in DOMAIN Text!RequestType, line.err = "nil", op \in Methods
          PROVE  req \in Calls
      <3>1. line.cmd \in Text!TextStorage \cup {"get", "delete", "touch"}
        BY <2>2 DEF Text!RequestType, Text!TextStorage, Methods, ReadMethods
      <3>2. line.keys # <<>>
        BY <2>0, <2>2, <3>1 DEF Lines
      <3> HIDE DEF line, op
      <3> QED BY <2>0, <2>2, <3>2, LineCall
    <2>3. Text!TextStorage \subseteq DOMAIN Text!RequestType
      BY DEF Text!TextStorage, Text!RequestType
    <2> HIDE DEF req, op
    <2>4. CASE line.cmd \in Text!TextStorage
      <3>1. Text!Parse(s) = IF line.err # "nil" THEN Text!Parsed(line.err, None, Tail(s))
                            ELSE IF Len(s) = 1 THEN Text!Blocked
                            ELSE Text!Parsed("nil", req, SubSeq(s, 3, Len(s)))
        BY <1>2, <2>4 DEF Text!Parse, Text!setRequest, req, op
      <3>2. Text!Parse(s).rest \in {Tail(s), <<>>} \/
              (Len(s) # 1 /\ Text!Parse(s).rest = SubSeq(s, 3, Len(s)))
        BY <3>1 DEF Text!Parsed, Text!Blocked
      <3>3. Text!Parse(s).err = "nil" => Text!Parse(s).req = req /\ line.err = "nil"
        BY <3>1 DEF Text!Parsed, Text!Blocked
      <3> QED BY <1>0, <2>0, <2>1, <2>2, <2>3, <2>4, <3>2, <3>3 DEF GoodParse
    <2>5. CASE line.cmd \in DOMAIN Text!RequestType \ Text!TextStorage
      <3>1. Text!Parse(s) = IF line.err # "nil" THEN Text!Parsed(line.err, None, Tail(s))
                            ELSE Text!Parsed("nil", req, Tail(s))
        BY <1>2, <2>5 DEF Text!Parse, req, op
      <3>2. /\ Text!Parse(s).rest = Tail(s)
            /\ Text!Parse(s).err = "nil" => Text!Parse(s).req = req /\ line.err = "nil"
        BY <3>1 DEF Text!Parsed
      <3> QED BY <2>0, <2>1, <2>2, <2>5, <3>2 DEF GoodParse
    <2>6. CASE line.cmd \notin DOMAIN Text!RequestType
      <3>1. Text!Parse(s) = Text!Parsed("nil", Text!Request("Unknown", line), Tail(s))
        BY <1>2, <2>3, <2>6 DEF Text!Parse
      <3>2. Text!Parse(s).rest = Tail(s) /\ Text!Parse(s).req.op = "Unknown"
        BY <3>1 DEF Text!Parsed, Text!Request
      <3> QED BY <2>0, <3>2 DEF GoodParse, Methods, ReadMethods
    <2> QED BY <2>4, <2>5, <2>6
  <1> QED BY <1>1, <1>2

\* What the loop makes of a request are calls, one at least.
LEMMA RequestsAreCalls ==
  ASSUME NEW r \in Calls
  PROVE  Requests(r) \in Seq(Calls) /\ Requests(r) # <<>>
  <1> DEFINE part(i) == [r EXCEPT !.keys = <<r.keys[i]>>, !.opaques = <<r.opaques[i]>>,
                                  !.quiet = <<r.quiet[i]>>,
                                  !.noopEnd = r.noopEnd /\ i = Len(r.keys),
                                  !.noopOpaque = IF i = Len(r.keys) THEN r.noopOpaque ELSE 0]
  <1>1. /\ r.keys \in Seq(Keys) /\ r.opaques \in Seq(Nat) /\ r.quiet \in Seq(BOOLEAN)
        /\ Len(r.keys) \in Nat \ {0} /\ DOMAIN r.keys = 1..Len(r.keys)
        /\ Len(r.opaques) = Len(r.keys) /\ Len(r.quiet) = Len(r.keys)
        /\ r.noopEnd \in BOOLEAN /\ r.noopOpaque \in Nat
    BY DEF Calls
  <1>2. ASSUME NEW i \in 1..Len(r.keys) PROVE part(i) \in Calls
    <2> DEFINE ks == <<r.keys[i]>>
               os == <<r.opaques[i]>>
               qs == <<r.quiet[i]>>
               e == r.noopEnd /\ i = Len(r.keys)
               o == IF i = Len(r.keys) THEN r.noopOpaque ELSE 0
    <2>1. /\ ks \in Seq(Keys) /\ os \in Seq(Nat) /\ qs \in Seq(BOOLEAN)
          /\ Len(ks) = 1 /\ Len(os) = 1 /\ Len(qs) = 1 /\ ks # <<>>
      BY <1>1
    <2>2. e \in BOOLEAN /\ o \in Nat
      BY <1>1
    <2> HIDE DEF ks, os, qs, e, o
    <2>3. [r EXCEPT !.keys = ks, !.opaques = os, !.quiet = qs, !.noopEnd = e,
                    !.noopOpaque = o] \in Calls
      BY <2>1, <2>2 DEF Calls
    <2> QED BY <2>3 DEF ks, os, qs, e, o
  <1> HIDE DEF part
  <1>3. [i \in DOMAIN r.keys |-> part(i)] \in Seq(Calls)
    BY <1>1, <1>2
  <1>4. Len([i \in DOMAIN r.keys |-> part(i)]) # 0
    BY <1>1
  <1>5. Split(r) \in Seq(Calls) /\ Split(r) # <<>>
    <2>1. Split(r) = [i \in DOMAIN r.keys |-> part(i)]
      BY DEF Split, part
    <2> HIDE DEF part
    <2> QED BY <1>3, <1>4, <2>1
  <1> QED BY <1>5 DEF Requests

-----------------------------------------------------------------------------
(***************************************************************************)
(* The map.                                                                *)
(***************************************************************************)

\* The body of a method with the write lock keeps the types, and only a delete
\* or a refused add takes an entry out that has not expired.
LEMMA WrittenIs ==
  ASSUME NEW item \in Entry \cup {None}, NEW r \in Calls, r.op \notin ReadMethods,
         now \in Nat
  PROVE  /\ Written(item, r).item \in Entry \cup {None}
         /\ Written(item, r).err \in {"nil", "KeyNotFound", "KeyExists"}
         /\ (~Absent(item) /\ Written(item, r).item = None) => r.op \in {"Delete", "Add"}
  <1> USE NoneAssumption
  <1>1. r.val \in Seq(Data) /\ r.exptime \in Nat /\ r.op \in Methods
    BY DEF Calls
  <1>2. Exptime(r.exptime) \in Nat
    BY <1>1 DEF Exptime
  <1>3. Stored(r).item \in Entry /\ Stored(r).err = "nil"
    BY <1>1, <1>2 DEF Stored, Result, Entry
  <1>4. NotFound.item = None /\ NotFound.err = "KeyNotFound"
    BY DEF NotFound, Result
  <1>5. ASSUME item \in Entry
        PROVE  /\ [item EXCEPT !.val = @ \o r.val] \in Entry
               /\ [item EXCEPT !.val = r.val \o @] \in Entry
               /\ [item EXCEPT !.exp = Exptime(r.exptime)] \in Entry
    <2>1. item.val \o r.val \in Seq(Data) /\ r.val \o item.val \in Seq(Data)
      BY <1>1, <1>5 DEF Entry
    <2> QED BY <1>2, <1>5, <2>1 DEF Entry
  <1>6. ~Absent(item) => item \in Entry
    BY DEF Absent
  <1>7. CASE r.op = "Set"
    BY <1>3, <1>7 DEF Written
  <1>8. CASE r.op = "Add"
    BY <1>3, <1>8 DEF Written, Add, Result
  <1>9. CASE r.op = "Replace"
    BY <1>3, <1>4, <1>9 DEF Written, Replace
  <1>10. CASE r.op = "Append"
    <2>1. Written(item, r) = AppendTo(item, r)
      BY <1>10 DEF Written
    <2> DEFINE e == [item EXCEPT !.val = @ \o r.val]
    <2>2. AppendTo(item, r) = IF Absent(item) THEN NotFound ELSE Result(e, "nil")
      BY DEF AppendTo
    <2>3. item \in Entry => e \in Entry
      BY <1>5
    <2> HIDE DEF e
    <2> QED BY <1>4, <1>6, <1>10, <2>1, <2>2, <2>3 DEF Result
  <1>11. CASE r.op = "Prepend"
    <2>1. Written(item, r) = PrependTo(item, r)
      BY <1>11 DEF Written
    <2> DEFINE e == [item EXCEPT !.val = r.val \o @]
    <2>2. PrependTo(item, r) = IF Absent(item) THEN NotFound ELSE Result(e, "nil")
      BY DEF PrependTo
    <2>3. item \in Entry => e \in Entry
      BY <1>5
    <2> HIDE DEF e
    <2> QED BY <1>4, <1>6, <1>11, <2>1, <2>2, <2>3 DEF Result
  <1>12. CASE r.op = "Delete"
    BY <1>12 DEF Written, Result
  <1>13. CASE r.op = "Touch"
    <2>1. Written(item, r) = Touch(item, r)
      BY <1>13 DEF Written
    <2> QED BY <1>4, <1>5, <1>6, <1>13, <2>1 DEF Touch, Result
  <1>14. CASE r.op = "Gat"
    <2>1. Written(item, r) = Result(Touch(item, r).item, "nil")
      BY <1>14 DEF Written
    <2> QED BY <1>4, <1>5, <1>6, <1>14, <2>1 DEF Touch, Result
  <1> QED BY <1>1, <1>7, <1>8, <1>9, <1>10, <1>11, <1>12, <1>13, <1>14
          DEF Methods, ReadMethods

-----------------------------------------------------------------------------
(***************************************************************************)
(* Steps.                                                                  *)
(***************************************************************************)

LEMMA ClientsSendFrames == Seq(ClientFrames) \subseteq Seq(Frames)
  <1>1. ClientFrames \subseteq Frames
    BY DEF ClientFrames
  <1> QED BY <1>1

LEMMA WorkloadOf ==
  ASSUME load \in Workloads, NEW c \in Conns
  PROVE  /\ load.most[c] \in Nat
         /\ load.pieces[c] \subseteq Seq(Wire(c)) /\ <<>> \notin load.pieces[c]
  BY WorkloadsAssumption, ClientsSendFrames DEF Wire, Binary

LEMMA InitConn ==
  ASSUME Init
  PROVE  ConnInv
  <1> USE DEF Init, InMemInit
  <1>1. StreamsOK
    <2>1. \A T : <<>> \in Seq(T)
      OBVIOUS
    <2>2. Len(<<>>) = 0
      OBVIOUS
    <2> QED BY <2>1, <2>2, WorkloadOf DEF StreamsOK
  <1>2. HandlerOK
    <2>1. <<>> \in Seq(Response) /\ <<>> \in Seq(Calls)
      OBVIOUS
    <2>2. got \in [Conns -> Seq(Response)] /\ todo \in [Conns -> Seq(Calls)]
      BY <2>1
    <2>3. /\ data \in [Keys -> Entry \cup {None}] /\ now \in Nat
          /\ at \in [Conns -> Places] /\ call \in [Conns -> Calls \cup {None}]
          /\ pc \in [Conns -> {"new", "parse", "handler", "closed"}]
      BY DEF Places
    <2>4. fatal \in BOOLEAN
      OBVIOUS
    <2> QED BY <2>2, <2>3, <2>4 DEF HandlerOK
  <1>3. \A c \in Conns : InMethod(c)
    BY DEF InMethod
  <1>4. Exclusion /\ SnapshotGets /\ OnlyGetsClash
    BY DEF Exclusion, SnapshotGets, OnlyGetsClash, Reading
  <1> QED BY <1>1, <1>2, <1>3, <1>4 DEF ConnInv

\* Steps that leave the handler alone leave its part of the invariant alone.
LEMMA HandlerSame ==
  ASSUME ConnInv, UNCHANGED <<pc, todo, inmemVars>>
  PROVE  /\ HandlerOK' /\ (\A c \in Conns : InMethod(c))'
         /\ Exclusion' /\ SnapshotGets' /\ OnlyGetsClash'
  <1>1. UNCHANGED <<pc, todo, data, now, at, call, got, fatal, clash>>
    BY DEF inmemVars
  <1>2. HandlerOK'
    BY <1>1 DEF ConnInv, HandlerOK
  <1>3. (\A c \in Conns : InMethod(c))'
    BY <1>1 DEF ConnInv, InMethod, Absent, isExpired, NextKey
  <1>4. Exclusion' /\ OnlyGetsClash'
    BY <1>1 DEF ConnInv, Exclusion, OnlyGetsClash
  <1>5. SnapshotGets'
    BY <1>1 DEF ConnInv, SnapshotGets, Reading, Absent, isExpired
  <1> QED BY <1>2, <1>3, <1>4, <1>5

LEMMA NumberedIs ==
  ASSUME NEW c \in Conns, log[c] \in Seq(Frames \cup Lines), NEW f \in Wire(c)
  PROVE  Numbered(c, f) \in Wire(c)
  <1>1. Len(log[c]) + 1 \in Nat
    OBVIOUS
  <1>2. CASE IsFrame(f)
    <2>1. f \in Frames
      BY <1>2 DEF Wire, IsFrame, Lines
    <2>2. [f EXCEPT !.opaque = Len(log[c]) + 1] \in Frames
      BY <1>1, <2>1 DEF Frames
    <2> QED BY <1>2, <2>1, <2>2 DEF Numbered, Wire, IsFrame, Lines
  <1>3. CASE ~IsFrame(f)
    BY <1>3 DEF Numbered
  <1> QED BY <1>2, <1>3

LEMMA SendStep ==
  ASSUME ConnInv, NEW c \in Conns, Send(c)
  PROVE  ConnInv'
  <1>1. PICK piece \in IF unsent[c] # <<>> THEN {unsent[c]} ELSE load.pieces[c] :
          /\ unsent[c] = <<>> => pieces[c] < load.most[c]
          /\ pieces' = [pieces EXCEPT ![c] = @ + (IF unsent[c] = <<>> THEN 1 ELSE 0)]
          /\ unsent' = [unsent EXCEPT ![c] = Tail(piece)]
          /\ log' = [log EXCEPT ![c] = Append(@, Numbered(c, Head(piece)))]
          /\ in' = [in EXCEPT ![c] = Append(@, Numbered(c, Head(piece)))]
    BY DEF Send
  <1>2. StreamsOK
    BY DEF ConnInv
  <1>3. piece \in Seq(Wire(c)) /\ piece # <<>>
    BY <1>1, <1>2, WorkloadOf DEF StreamsOK
  <1>4. Head(piece) \in Wire(c) /\ Tail(piece) \in Seq(Wire(c))
    BY <1>3
  <1> DEFINE f == Numbered(c, Head(piece))
  <1>5. f \in Wire(c)
    BY <1>2, <1>4, NumberedIs DEF StreamsOK
  <1> HIDE DEF f
  <1>6. \A d \in Conns : Wire(d) \subseteq Frames \cup Lines
    BY DEF Wire
  <1>7. UNCHANGED <<load, eof, proto, pc, todo, out, inmemVars>>
    BY DEF Send
  <1>8. \A d \in Conns : Wire(d)' = Wire(d) /\ Binary(d)' = Binary(d)
    BY <1>7 DEF Wire, Binary
  <1>9. /\ Append(in[c], f) \in Seq(Wire(c)) /\ Len(Append(in[c], f)) = Len(in[c]) + 1
        /\ Append(in[c], f) \in Seq(Frames \cup Lines)
        /\ Append(log[c], f) \in Seq(Frames \cup Lines)
        /\ Len(Append(log[c], f)) = Len(log[c]) + 1
        /\ Len(in[c]) \in Nat /\ Len(log[c]) \in Nat /\ Len(in[c]) <= Len(log[c])
        /\ Tail(piece) \in Seq(Frames \cup Lines)
    <2>1. in[c] \in Seq(Wire(c)) /\ in[c] \in Seq(Frames \cup Lines)
          /\ log[c] \in Seq(Frames \cup Lines) /\ Len(in[c]) <= Len(log[c])
      BY <1>2 DEF StreamsOK
    <2>2. f \in Frames \cup Lines
      BY <1>5, <1>6
    <2>3. Tail(piece) \in Seq(Frames \cup Lines)
      BY <1>4, <1>6
    <2> QED BY <1>5, <2>1, <2>2, <2>3
  <1>10. StreamsOK'
    <2>1. /\ load' \in Workloads /\ eof' \subseteq Conns
          /\ proto' \in [Conns -> {"none", "binary", "text"}]
      BY <1>2, <1>7 DEF StreamsOK
    <2>2. pieces' \in [Conns -> Nat] /\ \A d \in Conns : pieces'[d] <= load'.most[d]
      <3>1. \A d \in Conns : load.most[d] \in Nat
        BY <1>2, WorkloadOf DEF StreamsOK
      <3> QED BY <1>1, <1>2, <1>7, <3>1 DEF StreamsOK
    <2>3. /\ unsent' \in [Conns -> Seq(Frames \cup Lines)]
          /\ in' \in [Conns -> Seq(Frames \cup Lines)]
          /\ log' \in [Conns -> Seq(Frames \cup Lines)]
      BY <1>1, <1>2, <1>9 DEF StreamsOK, f
    <2>4. ASSUME NEW d \in Conns
          PROVE  /\ unsent'[d] \in Seq(Wire(d)) /\ in'[d] \in Seq(Wire(d))
                 /\ Len(in'[d]) <= Len(log'[d])
      <3>1. CASE d = c
        BY <1>1, <1>2, <1>4, <1>9, <3>1 DEF StreamsOK, f
      <3>2. CASE d # c
        BY <1>1, <1>2, <3>2 DEF StreamsOK
      <3> QED BY <3>1, <3>2
    <2>5. \A d \in Conns : /\ proto'[d] = "binary" => Binary(d)
                           /\ proto'[d] = "text" => ~Binary(d)
                           /\ pc'[d] \in {"parse", "handler"} => proto'[d] # "none"
      BY <1>2, <1>7 DEF StreamsOK
    <2> QED BY <1>8, <2>1, <2>2, <2>3, <2>4, <2>5 DEF StreamsOK
  <1> QED BY <1>7, <1>10, HandlerSame DEF ConnInv

LEMMA HangUpStep ==
  ASSUME ConnInv, NEW c \in Conns, HangUp(c)
  PROVE  ConnInv'
  <1>1. UNCHANGED <<load, pieces, unsent, log, in, proto, pc, todo, inmemVars>>
        /\ eof' = eof \cup {c}
    BY DEF HangUp
  <1>2. StreamsOK'
    BY <1>1 DEF ConnInv, StreamsOK, Wire, Binary
  <1> QED BY <1>1, <1>2, HandlerSame DEF ConnInv

\* A step that touches, of the streams, the input of one connection at most.
LEMMA StreamsAfter ==
  ASSUME ConnInv, UNCHANGED clientVars, NEW c \in Conns, NEW rest \in Seq(Wire(c)),
         Len(rest) <= Len(in[c]), in' = [in EXCEPT ![c] = rest], UNCHANGED proto,
         \A d \in Conns : pc'[d] \in {"parse", "handler"} =>
           pc[d] \in {"parse", "handler"}
  PROVE  StreamsOK'
  <1>1. StreamsOK /\ UNCHANGED <<load, pieces, unsent, log, eof>>
    BY DEF ConnInv, clientVars
  <1>2. \A d \in Conns : Wire(d)' = Wire(d) /\ Binary(d)' = Binary(d)
    BY <1>1 DEF Wire, Binary
  <1>3. rest \in Seq(Frames \cup Lines)
    BY DEF Wire
  <1>4. in' \in [Conns -> Seq(Frames \cup Lines)]
    BY <1>1, <1>3 DEF StreamsOK
  <1>5. ASSUME NEW d \in Conns
        PROVE  in'[d] \in Seq(Wire(d)) /\ Len(in'[d]) <= Len(log[d])
    <2>1. CASE d = c
      <3>1. in[c] \in Seq(Frames \cup Lines) /\ log[c] \in Seq(Frames \cup Lines)
            /\ Len(in[c]) <= Len(log[c]) /\ in'[c] = rest
        BY <1>1 DEF StreamsOK
      <3>2. Len(in[c]) \in Nat /\ Len(log[c]) \in Nat /\ Len(rest) \in Nat
        BY <3>1
      <3> QED BY <2>1, <3>1, <3>2
    <2>2. CASE d # c
      BY <1>1, <2>2 DEF StreamsOK
    <2> QED BY <2>1, <2>2
  <1> QED BY <1>1, <1>2, <1>4, <1>5 DEF StreamsOK

\* A step that moves one connection between the loop and the outside of the
\* handler leaves the handler's part of the invariant alone.
LEMMA LoopSame ==
  ASSUME ConnInv, NEW c \in Conns, pc[c] # "handler",
         NEW label \in {"new", "parse", "closed"}, pc' = [pc EXCEPT ![c] = label],
         UNCHANGED <<todo, inmemVars>>
  PROVE  /\ HandlerOK' /\ (\A d \in Conns : InMethod(d))'
         /\ Exclusion' /\ SnapshotGets' /\ OnlyGetsClash'
  <1>1. UNCHANGED <<todo, data, now, at, call, got, fatal, clash>>
    BY DEF inmemVars
  <1>2. HandlerOK'
    BY <1>1 DEF ConnInv, HandlerOK
  <1>3. (\A d \in Conns : InMethod(d))'
    <2>1. \A d \in Conns : pc'[d] = "handler" <=> pc[d] = "handler"
      BY DEF ConnInv, HandlerOK
    <2> QED BY <1>1, <2>1 DEF ConnInv, InMethod, Absent, isExpired, NextKey
  <1>4. Exclusion' /\ OnlyGetsClash'
    BY <1>1 DEF ConnInv, Exclusion, OnlyGetsClash
  <1>5. SnapshotGets'
    BY <1>1 DEF ConnInv, SnapshotGets, Reading, Absent, isExpired
  <1> QED BY <1>2, <1>3, <1>4, <1>5

LEMMA DisambiguateStep ==
  ASSUME ConnInv, NEW c \in Conns, Disambiguate(c)
  PROVE  ConnInv'
  <1>1. /\ pc[c] = "new" /\ UNCHANGED <<load, pieces, unsent, log, eof, in>>
        /\ UNCHANGED <<todo, inmemVars>>
    BY DEF Disambiguate, clientVars
  <1>2. StreamsOK /\ pc \in [Conns -> {"new", "parse", "handler", "closed"}]
    BY DEF ConnInv, HandlerOK
  <1>3. \A d \in Conns : Wire(d)' = Wire(d) /\ Binary(d)' = Binary(d)
    BY <1>1 DEF Wire, Binary
  <1>4. CASE in[c] # <<>> /\ Goto(c, "parse") /\
             proto' = [proto EXCEPT ![c] = IF IsFrame(in[c][1]) THEN "binary" ELSE "text"]
    <2>1. in[c][1] \in Wire(c)
      BY <1>2, <1>4 DEF StreamsOK
    <2>2. IsFrame(in[c][1]) <=> Binary(c)
      BY <2>1 DEF Wire, IsFrame, Frames, Lines
    <2>3. /\ proto' \in [Conns -> {"none", "binary", "text"}]
          /\ \A d \in Conns : /\ proto'[d] = "binary" => Binary(d)
                              /\ proto'[d] = "text" => ~Binary(d)
                              /\ pc'[d] \in {"parse", "handler"} => proto'[d] # "none"
      BY <1>2, <1>4, <2>2 DEF StreamsOK, Goto
    <2>4. StreamsOK'
      BY <1>1, <1>2, <1>3, <2>3 DEF StreamsOK
    <2> QED BY <1>1, <1>4, <2>4, LoopSame DEF ConnInv, Goto
  <1>5. CASE Goto(c, "closed") /\ UNCHANGED proto
    <2>1. StreamsOK'
      BY <1>1, <1>2, <1>3, <1>5 DEF StreamsOK, Goto
    <2> QED BY <1>1, <1>5, <2>1, LoopSame DEF ConnInv, Goto
  <1> QED BY <1>4, <1>5 DEF Disambiguate

\* A goroutine that enters a method joins those that wait for the lock.
LEMMA EnterStep ==
  ASSUME ConnInv, NEW c \in Conns, at[c] \in {"out", "ret"}, NEW r \in Calls, Enter(c, r),
         todo' \in [Conns -> Seq(Calls)], todo'[c] # <<>>,
         \A d \in Conns \ {c} : todo'[d] = todo[d],
         pc' = [pc EXCEPT ![c] = "handler"], UNCHANGED <<data, now, fatal, clash>>
  PROVE  /\ HandlerOK' /\ (\A d \in Conns : InMethod(d))'
         /\ Exclusion' /\ SnapshotGets' /\ OnlyGetsClash'
  <1> DEFINE place == IF r.op \in ReadMethods THEN "rwant" ELSE "want"
  <1>1. /\ call' = [call EXCEPT ![c] = r] /\ got' = [got EXCEPT ![c] = <<>>]
        /\ at' = [at EXCEPT ![c] = place]
    BY DEF Enter, MoveTo
  <1>2. place \in {"rwant", "want"} /\ place \in Places
    BY DEF Places
  <1>0. place = "rwant" <=> r.op \in ReadMethods
    OBVIOUS
  <1> HIDE DEF place
  <1>3. HandlerOK
    BY DEF ConnInv
  <1>4. HandlerOK'
    <2>1. <<>> \in Seq(Response)
      OBVIOUS
    <2>2. /\ data' \in [Keys -> Entry \cup {None}] /\ now' \in Nat
          /\ at' \in [Conns -> Places] /\ call' \in [Conns -> Calls \cup {None}]
          /\ got' \in [Conns -> Seq(Response)]
          /\ pc' \in [Conns -> {"new", "parse", "handler", "closed"}]
      BY <1>1, <1>2, <1>3, <2>1 DEF HandlerOK
    <2>3. fatal' \in BOOLEAN
      BY <1>3 DEF HandlerOK
    <2> QED BY <2>2, <2>3 DEF HandlerOK
  <1>5. ASSUME NEW d \in Conns PROVE InMethod(d)'
    <2>1. CASE d = c
      <3>1. pc'[c] = "handler" /\ call'[c] = r /\ got'[c] = <<>> /\ at'[c] = place
        BY <1>1, <1>3 DEF HandlerOK
      <3> QED BY <1>0, <1>2, <2>1, <3>1 DEF InMethod
    <2>2. CASE d # c
      <3>1. /\ pc'[d] = pc[d] /\ call'[d] = call[d] /\ got'[d] = got[d] /\ at'[d] = at[d]
            /\ todo'[d] = todo[d] /\ data' = data /\ now' = now
        BY <1>1, <1>3, <2>2 DEF HandlerOK
      <3> QED BY <3>1 DEF ConnInv, InMethod, Absent, isExpired, NextKey
    <2> QED BY <2>1, <2>2
  <1>6. Exclusion'
    BY <1>1, <1>2, <1>3 DEF ConnInv, Exclusion, HandlerOK, InMap
  <1>7. SnapshotGets'
    <2>1. \A d \in Reading' : d # c /\ d \in Reading /\ got'[d] = got[d]
      BY <1>1, <1>2, <1>3 DEF Reading, HandlerOK
    <2> QED BY <2>1 DEF ConnInv, SnapshotGets, Absent, isExpired
  <1> QED BY <1>4, <1>5, <1>6, <1>7 DEF ConnInv, OnlyGetsClash

LEMMA ParseStep ==
  ASSUME ConnInv, NEW c \in Conns, ParseRequest(c)
  PROVE  ConnInv'
  <1> DEFINE p == ParseIn(c)
  <1>1. StreamsOK /\ HandlerOK /\ pc[c] = "parse" /\ UNCHANGED clientVars /\ UNCHANGED proto
    BY DEF ConnInv, ParseRequest
  <1>2. at[c] = "out"
    BY <1>1 DEF ConnInv, InMethod
  <1>3. in[c] \in Seq(Wire(c)) /\ in \in [Conns -> Seq(Frames \cup Lines)]
    BY <1>1 DEF StreamsOK
  <1>4. GoodParse(p, in[c], Wire(c))
    <2>1. CASE proto[c] = "binary"
      <3>1. Wire(c) = Frames /\ p = Bin!Parse(in[c])
        BY <1>1, <2>1 DEF StreamsOK, Wire, ParseIn
      <3> QED BY <1>3, <3>1, BinParses
    <2>2. CASE proto[c] # "binary"
      <3>1. Wire(c) = Lines /\ p = Text!Parse(in[c])
        BY <1>1, <2>2 DEF StreamsOK, Wire, ParseIn
      <3> QED BY <1>3, <3>1, TextParses
    <2> QED BY <2>1, <2>2
  <1> HIDE DEF p
  <1>5. /\ p.rest \in Seq(Wire(c)) /\ Len(p.rest) <= Len(in[c])
        /\ (p.err = "nil" /\ p.req.op \in Methods) => p.req \in Calls
    BY <1>4 DEF GoodParse
  <1>6. in' \in {in, [in EXCEPT ![c] = p.rest]} /\ in' = [in EXCEPT ![c] = in'[c]]
        /\ in'[c] \in {in[c], p.rest}
    BY <1>3 DEF ParseRequest, p
  <1>7. pc' = pc \/ \E label \in {"parse", "handler", "closed"} : Goto(c, label)
    BY DEF ParseRequest, Served
  <1>8. StreamsOK'
    <2>1. \A d \in Conns : pc'[d] \in {"parse", "handler"} => pc[d] \in {"parse", "handler"}
      BY <1>1, <1>7 DEF Goto, HandlerOK
    <2>2. in'[c] \in Seq(Wire(c)) /\ Len(in'[c]) <= Len(in[c])
      <3>1. Len(in[c]) \in Nat
        BY <1>3
      <3> QED BY <1>3, <1>5, <1>6, <3>1
    <2> QED BY <1>1, <1>6, <2>1, <2>2, StreamsAfter
  <1>9. CASE UNCHANGED <<pc, todo, inmemVars>>
    BY <1>8, <1>9, HandlerSame DEF ConnInv
  <1>10. CASE UNCHANGED <<todo, inmemVars>> /\ \E label \in {"parse", "closed"} : Goto(c, label)
    BY <1>1, <1>8, <1>10, LoopSame DEF ConnInv, Goto
  <1>11. CASE /\ p.err = "nil" /\ p.req.op \in Methods
              /\ todo' = [todo EXCEPT ![c] = Requests(p.req)]
              /\ Enter(c, Requests(p.req)[1])
              /\ Goto(c, "handler")
              /\ UNCHANGED <<out, data, now, fatal, clash>>
    <2> DEFINE rs == Requests(p.req)
    <2>1. rs \in Seq(Calls) /\ rs # <<>>
      BY <1>5, <1>11, RequestsAreCalls
    <2> HIDE DEF rs
    <2>2. rs[1] \in Calls
      BY <2>1
    <2>3. /\ todo' \in [Conns -> Seq(Calls)] /\ todo'[c] # <<>>
          /\ \A d \in Conns \ {c} : todo'[d] = todo[d]
      BY <1>1, <1>11, <2>1 DEF HandlerOK, rs
    <2>4. Enter(c, rs[1]) /\ pc' = [pc EXCEPT ![c] = "handler"]
          /\ UNCHANGED <<data, now, fatal, clash>>
      BY <1>11 DEF Goto, rs
    <2>5. /\ HandlerOK' /\ (\A d \in Conns : InMethod(d))'
          /\ Exclusion' /\ SnapshotGets' /\ OnlyGetsClash'
      BY <1>2, <2>2, <2>3, <2>4, EnterStep
    <2> QED BY <1>8, <2>5 DEF ConnInv
  <1> QED BY <1>9, <1>10, <1>11 DEF ParseRequest, Served, p

LEMMA FinishStep ==
  ASSUME ConnInv, NEW c \in Conns, Finish(c)
  PROVE  ConnInv'
  <1>1. /\ StreamsOK /\ HandlerOK /\ InMethod(c) /\ pc[c] = "handler" /\ at[c] = "ret"
        /\ UNCHANGED clientVars /\ UNCHANGED <<in, proto, data, now, fatal, clash>>
        /\ todo' = [todo EXCEPT ![c] = Tail(@)]
    BY DEF ConnInv, Finish
  <1>2. todo[c] # <<>> /\ todo[c] \in Seq(Calls)
    BY <1>1 DEF InMethod, HandlerOK
  <1>3. /\ todo' \in [Conns -> Seq(Calls)] /\ todo'[c] = Tail(todo[c])
        /\ \A d \in Conns \ {c} : todo'[d] = todo[d]
    BY <1>1, <1>2 DEF HandlerOK
  <1>4. ASSUME pc' = pc \/ \E label \in {"parse", "closed"} : Goto(c, label)
        PROVE  StreamsOK'
    <2>1. in[c] \in Seq(Wire(c)) /\ in' = [in EXCEPT ![c] = in[c]] /\ Len(in[c]) <= Len(in[c])
      BY <1>1 DEF StreamsOK
    <2>2. \A d \in Conns : pc'[d] \in {"parse", "handler"} => pc[d] \in {"parse", "handler"}
      BY <1>1, <1>4 DEF Goto, HandlerOK
    <2> QED BY <1>1, <2>1, <2>2, StreamsAfter
  <1>5. CASE Len(todo[c]) > 1 /\ Enter(c, todo[c][2]) /\ UNCHANGED pc
    <2>1. todo[c][2] \in Calls /\ todo'[c] # <<>>
      BY <1>2, <1>3, <1>5
    <2>2. pc' = [pc EXCEPT ![c] = "handler"]
      BY <1>1, <1>5 DEF HandlerOK
    <2>3. /\ HandlerOK' /\ (\A d \in Conns : InMethod(d))'
          /\ Exclusion' /\ SnapshotGets' /\ OnlyGetsClash'
      BY <1>1, <1>3, <1>5, <2>1, <2>2, EnterStep
    <2> QED BY <1>4, <1>5, <2>3 DEF ConnInv
  <1>6. CASE /\ \E label \in {"parse", "closed"} : Goto(c, label)
             /\ MoveTo(c, "out")
             /\ call' = call \/ call' = [call EXCEPT ![c] = None]
             /\ got' = got \/ got' = [got EXCEPT ![c] = <<>>]
    <2>1. HandlerOK'
      <3>1. <<>> \in Seq(Response) /\ "out" \in Places
        BY DEF Places
      <3>2. /\ at' \in [Conns -> Places] /\ call' \in [Conns -> Calls \cup {None}]
            /\ got' \in [Conns -> Seq(Response)]
            /\ pc' \in [Conns -> {"new", "parse", "handler", "closed"}]
        BY <1>1, <1>6, <3>1 DEF HandlerOK, MoveTo, Goto
      <3>3. data' \in [Keys -> Entry \cup {None}] /\ now' \in Nat
        BY <1>1 DEF HandlerOK
      <3>4. fatal' \in BOOLEAN
        BY <1>1 DEF HandlerOK
      <3> QED BY <1>3, <3>2, <3>3, <3>4 DEF HandlerOK
    <2>2. ASSUME NEW d \in Conns PROVE InMethod(d)'
      <3>1. CASE d = c
        <4>1. at'[c] = "out" /\ pc'[c] # "handler"
          BY <1>1, <1>6 DEF HandlerOK, MoveTo, Goto
        <4> QED BY <3>1, <4>1 DEF InMethod
      <3>2. CASE d # c
        <4>1. /\ pc'[d] = pc[d] /\ call'[d] = call[d] /\ got'[d] = got[d] /\ at'[d] = at[d]
              /\ todo'[d] = todo[d] /\ data' = data /\ now' = now
          BY <1>1, <1>3, <1>6, <3>2 DEF HandlerOK, MoveTo, Goto
        <4> QED BY <4>1 DEF ConnInv, InMethod, Absent, isExpired, NextKey
      <3> QED BY <3>1, <3>2
    <2>3. Exclusion'
      BY <1>1, <1>6 DEF ConnInv, Exclusion, HandlerOK, InMap, MoveTo
    <2>4. SnapshotGets'
      <3>1. \A d \in Reading' : d # c /\ d \in Reading /\ got'[d] = got[d]
        BY <1>1, <1>6 DEF Reading, HandlerOK, MoveTo
      <3> QED BY <1>1, <3>1 DEF ConnInv, SnapshotGets, Absent, isExpired
    <2> QED BY <1>1, <1>4, <1>6, <2>1, <2>2, <2>3, <2>4 DEF ConnInv, OnlyGetsClash
  <1> QED BY <1>5, <1>6 DEF Finish

\* A step in the handler changes nothing of the streams.
LEMMA StreamsSame ==
  ASSUME ConnInv, UNCHANGED <<clientVars, in, proto, pc>>
  PROVE  StreamsOK'
  <1>1. StreamsOK /\ UNCHANGED <<load, pieces, unsent, log, eof, in, proto, pc>>
    BY DEF ConnInv, clientVars
  <1> QED BY <1>1 DEF StreamsOK, Wire, Binary

\* A goroutine moves on in its method, with the map and its responses as they
\* were.
LEMMA MoveStep ==
  ASSUME ConnInv, NEW c \in Conns, at[c] # "out", NEW place \in Places \ {"out"},
         MoveTo(c, place), UNCHANGED <<data, now, call, got, fatal, clash, pc, todo>>,
         StreamsOK', InMethod(c)',
         place \in InMap => at[c] \in InMap \/ \A d \in Conns : at[d] # "write",
         place = "write" => \A d \in Conns : at[d] \notin InMap,
         place \in {"look", "del", "rdone"} => got[c] = <<>> \/ c \in Reading
  PROVE  ConnInv'
  <1>1. HandlerOK /\ at' = [at EXCEPT ![c] = place]
    BY DEF ConnInv, MoveTo
  <1>2. HandlerOK'
    BY <1>1 DEF HandlerOK
  <1>3. ASSUME NEW d \in Conns PROVE InMethod(d)'
    <2>1. CASE d # c
      <3>1. at'[d] = at[d]
        BY <1>1, <2>1 DEF HandlerOK
      <3> QED BY <3>1 DEF ConnInv, InMethod, Absent, isExpired, NextKey
    <2> QED BY <2>1
  <1>4. Exclusion'
    <2>1. ASSUME NEW d \in Conns, NEW e \in Conns, d # e, at'[d] = "write"
          PROVE  at'[e] \notin InMap
      <3>1. CASE d = c
        BY <1>1, <2>1, <3>1 DEF HandlerOK
      <3>2. CASE d # c /\ e = c
        <4>1. at[d] = "write" /\ at'[e] = place
          BY <1>1, <2>1, <3>2 DEF HandlerOK
        <4> QED BY <2>1, <3>2, <4>1 DEF ConnInv, Exclusion
      <3>3. CASE d # c /\ e # c
        <4>1. at[d] = "write" /\ at'[e] = at[e]
          BY <1>1, <2>1, <3>3 DEF HandlerOK
        <4> QED BY <2>1, <4>1 DEF ConnInv, Exclusion
      <3> QED BY <3>1, <3>2, <3>3
    <2> QED BY <2>1 DEF Exclusion
  <1>5. SnapshotGets'
    <2>1. \A d \in Reading' : d \in Reading \/ (d = c /\ got[c] = <<>>)
      BY <1>1 DEF Reading, HandlerOK
    <2>2. DOMAIN <<>> = {}
      OBVIOUS
    <2> QED BY <2>1, <2>2 DEF ConnInv, SnapshotGets, Absent, isExpired
  <1> QED BY <1>2, <1>3, <1>4, <1>5 DEF ConnInv, OnlyGetsClash

\* What the next key of a get is.
LEMMA NextKeyIs ==
  ASSUME ConnInv, NEW c \in Conns, at[c] \in {"look", "del"}
  PROVE  /\ NextKey(c) \in Keys /\ call[c] \in Calls /\ call[c].op \in ReadMethods
         /\ got[c] \in Seq(Response) /\ Len(got[c]) < Len(call[c].keys)
         /\ Len(call[c].keys) \in Nat
  <1>1. /\ call[c] \in Calls /\ Len(got[c]) < Len(call[c].keys)
        /\ call[c].op \in ReadMethods /\ got[c] \in Seq(Response)
    BY DEF ConnInv, InMethod, HandlerOK
  <1>2. call[c].keys \in Seq(Keys) /\ Len(got[c]) + 1 \in 1..Len(call[c].keys)
    BY <1>1 DEF Calls
  <1> QED BY <1>1, <1>2 DEF NextKey

LEMMA LockStep ==
  ASSUME ConnInv, NEW c \in Conns, Lock(c), StreamsOK', UNCHANGED <<pc, todo>>
  PROVE  ConnInv'
  <1>1. /\ at[c] = "want" /\ Writing = {} /\ Reading = {} /\ MoveTo(c, "write")
        /\ UNCHANGED <<data, now, call, got, fatal, clash>>
    BY DEF Lock
  <1>2. at'[c] = "write"
    BY <1>1 DEF MoveTo, ConnInv, HandlerOK
  <1>3. InMethod(c)'
    BY <1>1, <1>2 DEF ConnInv, InMethod
  <1>4. \A d \in Conns : at[d] \notin InMap
    BY <1>1 DEF Writing, Reading, InMap
  <1>5. "write" \in Places \ {"out"}
    BY DEF Places
  <1>6. \A d \in Conns : at[d] # "write"
    BY <1>4 DEF InMap
  <1> QED BY <1>1, <1>3, <1>4, <1>5, <1>6, MoveStep

LEMMA RLockStep ==
  ASSUME ConnInv, NEW c \in Conns, RLock(c), StreamsOK', UNCHANGED <<pc, todo>>
  PROVE  ConnInv'
  <1>1. /\ at[c] = "rwant" /\ Writing = {} /\ MoveTo(c, "look")
        /\ UNCHANGED <<data, now, call, got, fatal, clash>>
    BY DEF RLock
  <1>2. at'[c] = "look"
    BY <1>1 DEF MoveTo, ConnInv, HandlerOK
  <1>3. /\ got[c] = <<>> /\ call[c] \in Calls /\ InMethod(c) /\ call[c].op \in ReadMethods
    BY <1>1 DEF ConnInv, InMethod
  <1>4. Len(got[c]) < Len(call[c].keys)
    <2>1. call[c].keys \in Seq(Keys) /\ call[c].keys # <<>>
      BY <1>3 DEF Calls
    <2> QED BY <1>3, <2>1
  <1>5. InMethod(c)'
    BY <1>1, <1>2, <1>3, <1>4 DEF InMethod
  <1>6. \A d \in Conns : at[d] # "write"
    BY <1>1 DEF Writing
  <1>7. "look" \in Places \ {"out"}
    BY DEF Places
  <1> QED BY <1>1, <1>3, <1>5, <1>6, <1>7, MoveStep

LEMMA RUnlockStep ==
  ASSUME ConnInv, NEW c \in Conns, RUnlock(c), StreamsOK', UNCHANGED <<pc, todo>>
  PROVE  ConnInv'
  <1>1. /\ at[c] = "rdone" /\ MoveTo(c, "ret")
        /\ UNCHANGED <<data, now, call, got, fatal, clash>>
    BY DEF RUnlock
  <1>2. at'[c] = "ret"
    BY <1>1 DEF MoveTo, ConnInv, HandlerOK
  <1>3. InMethod(c)'
    BY <1>1, <1>2 DEF ConnInv, InMethod
  <1>4. "ret" \in Places \ {"out"} /\ "ret" \notin InMap
    BY DEF Places, InMap
  <1> QED BY <1>1, <1>3, <1>4, MoveStep

\* A get takes down a response for its next key: what the map holds, or, once it
\* has deleted the entry, that there is none.  What other gets have found stays
\* true: only an entry that has expired leaves the map.
LEMMA RespondStep ==
  ASSUME ConnInv, NEW c \in Conns, at[c] \in {"look", "del"},
         NEW item \in Entry \cup {None}, Respond(c, NextKey(c), item, "nil"),
         MoveTo(c, AfterKey(c)),
         \/ item # None /\ data[NextKey(c)] = item /\ data' = data
         \/ /\ item = None /\ Absent(data[NextKey(c)])
            /\ data' = [data EXCEPT ![NextKey(c)] = None],
         UNCHANGED <<now, call, fatal, clash, pc, todo>>, StreamsOK'
  PROVE  ConnInv'
  <1> DEFINE k == NextKey(c)
             resp == [key |-> k, item |-> item, err |-> "nil"]
             rs == Append(got[c], resp)
             place == IF Len(rs) < Len(call[c].keys) THEN "look" ELSE "rdone"
  <1>1. /\ k \in Keys /\ call[c] \in Calls /\ call[c].op \in ReadMethods
        /\ got[c] \in Seq(Response) /\ Len(got[c]) < Len(call[c].keys)
        /\ Len(call[c].keys) \in Nat
    BY NextKeyIs
  <1> HIDE DEF k
  <1>2. HandlerOK
    BY DEF ConnInv
  <1>3. resp \in Response /\ resp.key = k /\ resp.item = item
    BY <1>1 DEF Response
  <1> HIDE DEF resp
  <1>4. /\ rs \in Seq(Response) /\ Len(rs) = Len(got[c]) + 1 /\ rs[Len(got[c]) + 1] = resp
        /\ \A i \in 1..Len(got[c]) : rs[i] = got[c][i]
        /\ DOMAIN rs = 1..(Len(got[c]) + 1) /\ DOMAIN got[c] = 1..Len(got[c])
        /\ Len(got[c]) \in Nat
    BY <1>1, <1>3
  <1>5. got' = [got EXCEPT ![c] = rs]
    BY DEF Respond, rs, resp, k
  <1> HIDE DEF rs
  <1>6. got'[c] = rs /\ \A d \in Conns \ {c} : got'[d] = got[d]
    BY <1>2, <1>5 DEF HandlerOK
  <1>7. at' = [at EXCEPT ![c] = place] /\ place \in {"look", "rdone"}
    BY <1>6 DEF MoveTo, AfterKey
  <1>8. place = "look" => Len(rs) < Len(call[c].keys)
    OBVIOUS
  <1> HIDE DEF place
  <1>9. at'[c] = place /\ \A d \in Conns \ {c} : at'[d] = at[d]
    BY <1>2, <1>7 DEF HandlerOK
  <1>10. /\ data' \in [Keys -> Entry \cup {None}]
         /\ \A m \in Keys : data'[m] = data[m] \/ (data'[m] = None /\ Absent(data[m]))
    <2>1. data \in [Keys -> Entry \cup {None}]
      BY <1>2 DEF HandlerOK
    <2>2. data' = data \/ (data' = [data EXCEPT ![k] = None] /\ Absent(data[k]))
      BY DEF k
    <2> QED BY <1>1, <2>1, <2>2
  <1>11. HandlerOK'
    <2>1. at' \in [Conns -> Places] /\ got' \in [Conns -> Seq(Response)]
      BY <1>2, <1>4, <1>5, <1>7 DEF HandlerOK, Places
    <2>2. now' \in Nat /\ call' \in [Conns -> Calls \cup {None}]
          /\ pc' \in [Conns -> {"new", "parse", "handler", "closed"}]
          /\ todo' \in [Conns -> Seq(Calls)]
      BY <1>2 DEF HandlerOK
    <2>3. fatal' \in BOOLEAN
      BY <1>2 DEF HandlerOK
    <2> QED BY <1>10, <2>1, <2>2, <2>3 DEF HandlerOK
  <1>12. ASSUME NEW d \in Conns PROVE InMethod(d)'
    <2>1. CASE d = c
      <3>1. pc[c] = "handler" /\ todo[c] # <<>>
        BY <1>2 DEF ConnInv, InMethod
      <3> QED BY <1>1, <1>6, <1>7, <1>8, <1>9, <2>1, <3>1 DEF InMethod
    <2>2. CASE d # c
      <3>1. at'[d] = at[d] /\ got'[d] = got[d]
        BY <1>6, <1>9, <2>2
      <3>2. InMethod(d)
        BY DEF ConnInv
      <3>3. at[d] = "del" => NextKey(d) \in Keys
        BY NextKeyIs
      <3>4. (at[d] = "del" => Absent(data[NextKey(d)]))'
        BY <1>10, <3>1, <3>2, <3>3 DEF InMethod, Absent, isExpired, NextKey
      <3> QED BY <3>1, <3>2, <3>4 DEF InMethod
    <2> QED BY <2>1, <2>2
  <1>13. Exclusion'
    <2>1. at[c] \in InMap
      BY DEF InMap
    <2> QED BY <1>7, <1>9, <2>1 DEF ConnInv, Exclusion, InMap
  <1>14. SnapshotGets'
    <2> DEFINE ok(r) == IF r.item # None
                        THEN data[r.key] = r.item \/ (isExpired(r.item) /\ data[r.key] = None)
                        ELSE Absent(data[r.key])
               after(r) == IF r.item # None
                           THEN \/ data'[r.key] = r.item
                                \/ isExpired(r.item) /\ data'[r.key] = None
                           ELSE Absent(data'[r.key])
    <2>1. ASSUME NEW r \in Response, ok(r) PROVE after(r)
      <3>1. r.key \in Keys
        BY DEF Response
      <3>2. data'[r.key] = data[r.key] \/ (data'[r.key] = None /\ Absent(data[r.key]))
        BY <1>10, <3>1
      <3> QED BY <2>1, <3>2 DEF Absent, isExpired
    <2>2. after(resp)
      <3>1. data \in [Keys -> Entry \cup {None}]
        BY <1>2 DEF HandlerOK
      <3>2. CASE item # None /\ data[k] = item /\ data' = data
        BY <1>3, <3>2
      <3>3. CASE item = None /\ data' = [data EXCEPT ![k] = None]
        <4>1. data'[k] = None
          BY <1>1, <3>1, <3>3
        <4> QED BY <1>3, <3>3, <4>1 DEF Absent
      <3> QED BY <3>2, <3>3 DEF k
    <2>3. ASSUME NEW d \in Reading', NEW i \in DOMAIN got'[d] PROVE after(got'[d][i])
      <3>1. d \in Reading
        BY <1>9, <2>3 DEF Reading
      <3>2. got[d] \in Seq(Response) /\ \A j \in DOMAIN got[d] : got[d][j] \in Response
        BY <1>2, <3>1 DEF HandlerOK, Reading
      <3>3. \A j \in DOMAIN got[d] : ok(got[d][j])
        BY <3>1 DEF ConnInv, SnapshotGets
      <3> HIDE DEF ok, after
      <3>4. \A j \in DOMAIN got[d] : after(got[d][j])
        <4>1. ASSUME NEW j \in DOMAIN got[d], NEW r, r = got[d][j] PROVE after(r)
          BY <2>1, <3>2, <3>3, <4>1
        <4> QED BY <4>1
      <3>5. got'[d][i] = resp \/ \E j \in DOMAIN got[d] : got'[d][i] = got[d][j]
        <4>1. CASE d = c
          <5>1. i \in 1..(Len(got[c]) + 1)
            BY <1>4, <1>6, <2>3, <4>1
          <5> QED BY <1>4, <1>6, <4>1, <5>1
        <4>2. CASE d # c
          BY <1>6, <2>3, <3>1, <4>2 DEF Reading
        <4> QED BY <4>1, <4>2
      <3> QED BY <2>2, <3>4, <3>5
    <2> QED BY <2>3 DEF SnapshotGets, Reading, Absent, isExpired
  <1> QED BY <1>11, <1>12, <1>13, <1>14 DEF ConnInv, OnlyGetsClash

LEMMA LookStep ==
  ASSUME ConnInv, NEW c \in Conns, Look(c), StreamsOK', UNCHANGED <<pc, todo>>
  PROVE  ConnInv'
  <1>1. at[c] = "look" /\ UNCHANGED <<data, now, call, fatal, clash>>
    BY DEF Look
  <1>2. /\ NextKey(c) \in Keys /\ data[NextKey(c)] \in Entry \cup {None}
        /\ Len(got[c]) < Len(call[c].keys) /\ InMethod(c)
    BY <1>1, NextKeyIs DEF ConnInv, HandlerOK
  <1>3. CASE Absent(data[NextKey(c)])
    <2>1. MoveTo(c, "del") /\ UNCHANGED got
      BY <1>3 DEF Look
    <2>2. at'[c] = "del"
      BY <2>1 DEF MoveTo, ConnInv, HandlerOK
    <2>3. InMethod(c)'
      BY <1>1, <1>2, <1>3, <2>1, <2>2 DEF InMethod, Absent, isExpired, NextKey
    <2>4. "del" \in Places \ {"out"} /\ at[c] \in InMap /\ c \in Reading
      BY <1>1 DEF Places, InMap, Reading
    <2> QED BY <1>1, <2>1, <2>3, <2>4, MoveStep
  <1>4. CASE ~Absent(data[NextKey(c)])
    <2>1. Respond(c, NextKey(c), data[NextKey(c)], "nil") /\ MoveTo(c, AfterKey(c))
      BY <1>4 DEF Look
    <2>2. data[NextKey(c)] # None
      BY <1>4 DEF Absent
    <2> QED BY <1>1, <1>2, <2>1, <2>2, RespondStep
  <1> QED BY <1>3, <1>4

LEMMA DeleteAbsentStep ==
  ASSUME ConnInv, NEW c \in Conns, DeleteAbsent(c), StreamsOK', UNCHANGED <<pc, todo>>
  PROVE  ConnInv'
  <1>1. /\ at[c] = "del" /\ data' = [data EXCEPT ![NextKey(c)] = None]
        /\ Respond(c, NextKey(c), None, "nil") /\ MoveTo(c, AfterKey(c))
        /\ UNCHANGED <<now, call, fatal, clash>>
    BY DEF DeleteAbsent
  <1>2. Absent(data[NextKey(c)])
    BY <1>1 DEF ConnInv, InMethod
  <1> QED BY <1>1, <1>2, RespondStep

\* A method that writes: no get is in the map to see it.
LEMMA UnlockStep ==
  ASSUME ConnInv, NEW c \in Conns, Unlock(c), StreamsOK', UNCHANGED <<pc, todo>>
  PROVE  ConnInv'
  <1> DEFINE r == call[c]
             key == r.keys[1]
             w == Written(data[key], r)
             resp == [key |-> key, item |-> w.item, err |-> w.err]
  <1>1. /\ at[c] = "write" /\ data' = [data EXCEPT ![key] = w.item]
        /\ got' = [got EXCEPT ![c] = Append(@, resp)]
        /\ at' = [at EXCEPT ![c] = "ret"] /\ UNCHANGED <<now, call, fatal, clash>>
    BY DEF Unlock, Respond, MoveTo
  <1>2. HandlerOK /\ InMethod(c)
    BY DEF ConnInv
  <1>3. r \in Calls /\ r.op \notin ReadMethods /\ pc[c] = "handler" /\ todo[c] # <<>>
    BY <1>1, <1>2 DEF InMethod
  <1>4. key \in Keys
    BY <1>3 DEF Calls
  <1>5. data[key] \in Entry \cup {None} /\ now \in Nat
    BY <1>2, <1>4 DEF HandlerOK
  <1>6. w.item \in Entry \cup {None} /\ w.err \in {"nil", "KeyNotFound", "KeyExists"}
    <2> HIDE DEF key, r
    <2> QED BY <1>3, <1>5, WrittenIs
  <1> HIDE DEF w, r, key
  <1>7. resp \in Response
    BY <1>4, <1>6 DEF Response
  <1> HIDE DEF resp
  <1>8. \A d \in Conns : at'[d] \in InMap => d # c /\ at[d] \in InMap
    BY <1>1, <1>2 DEF HandlerOK, InMap
  <1>9. \A d \in Conns : at'[d] \notin InMap
    BY <1>1, <1>8 DEF ConnInv, Exclusion
  <1>10. HandlerOK'
    <2>1. Append(got[c], resp) \in Seq(Response)
      BY <1>2, <1>7 DEF HandlerOK
    <2>2. /\ at' \in [Conns -> Places] /\ got' \in [Conns -> Seq(Response)]
          /\ data' \in [Keys -> Entry \cup {None}]
      BY <1>1, <1>2, <1>4, <1>6, <2>1 DEF HandlerOK, Places
    <2>3. now' \in Nat /\ call' \in [Conns -> Calls \cup {None}]
          /\ pc' \in [Conns -> {"new", "parse", "handler", "closed"}]
          /\ todo' \in [Conns -> Seq(Calls)]
      BY <1>1, <1>2 DEF HandlerOK
    <2>4. fatal' \in BOOLEAN
      BY <1>1, <1>2 DEF HandlerOK
    <2> QED BY <2>2, <2>3, <2>4 DEF HandlerOK
  <1>11. ASSUME NEW d \in Conns PROVE InMethod(d)'
    <2>1. CASE d = c
      <3>1. at'[c] = "ret" /\ call'[c] \in Calls
        BY <1>1, <1>2, <1>3 DEF HandlerOK, r
      <3> QED BY <1>3, <2>1, <3>1 DEF InMethod
    <2>2. CASE d # c
      <3>1. /\ at'[d] = at[d] /\ got'[d] = got[d] /\ call'[d] = call[d]
            /\ at'[d] \notin InMap
        BY <1>1, <1>2, <1>9, <2>2 DEF HandlerOK
      <3> QED BY <3>1 DEF ConnInv, InMethod, InMap
    <2> QED BY <2>1, <2>2
  <1>12. Exclusion' /\ Reading' = {}
    BY <1>9 DEF Exclusion, Reading, InMap
  <1> QED BY <1>1, <1>10, <1>11, <1>12 DEF ConnInv, SnapshotGets, OnlyGetsClash

\* The runtime notices two methods in the map: both are gets.
LEMMA ThrowStep ==
  ASSUME ConnInv, NEW c \in Conns, Throw(c), StreamsOK', UNCHANGED <<pc, todo>>
  PROVE  ConnInv'
  <1>1. PICK d \in Conns \ {c} : at[d] \in {"del", "write"} /\ clash' = {call[c].op, call[d].op}
    BY DEF Throw
  <1>2. at[c] \in {"look", "del", "write"} /\ UNCHANGED <<data, now, at, call, got>>
    BY DEF Throw
  <1>3. at[c] # "write" /\ at[d] # "write"
    BY <1>1, <1>2 DEF ConnInv, Exclusion, InMap
  <1>4. call[c].op \in ReadMethods /\ call[d].op \in ReadMethods
    BY <1>1, <1>2, <1>3 DEF ConnInv, InMethod
  <1>5. OnlyGetsClash'
    BY <1>1, <1>4 DEF OnlyGetsClash
  <1>6. HandlerOK'
    <2>1. fatal' \in BOOLEAN
      BY DEF Throw
    <2> QED BY <1>2, <2>1 DEF ConnInv, HandlerOK
  <1>7. (\A e \in Conns : InMethod(e))'
    BY <1>2 DEF ConnInv, InMethod, Absent, isExpired, NextKey
  <1>8. Exclusion' /\ SnapshotGets'
    BY <1>2 DEF ConnInv, Exclusion, SnapshotGets, Reading, Absent, isExpired
  <1> QED BY <1>5, <1>6, <1>7, <1>8 DEF ConnInv

\* Time makes entries expire and none come back.
LEMMA ClockStep ==
  ASSUME ConnInv, Clock
  PROVE  ConnInv'
  <1>1. /\ now' = now + 1 /\ UNCHANGED <<data, at, call, got, fatal, clash>>
        /\ UNCHANGED <<clientVars, in, proto, pc, todo>>
    BY DEF Clock, Tick
  <1>2. HandlerOK /\ StreamsOK'
    BY <1>1, StreamsSame DEF ConnInv
  <1>3. HandlerOK'
    <2>1. now' \in Nat
      BY <1>1, <1>2 DEF HandlerOK
    <2> QED BY <1>1, <1>2, <2>1 DEF HandlerOK
  <1>4. \A e \in Entry : isExpired(e) => e.exp # 0 /\ e.exp < now'
    <2>1. now \in Nat
      BY <1>2 DEF HandlerOK
    <2> QED BY <1>1, <2>1 DEF isExpired, Entry
  <1>5. \A k \in Keys : data[k] \in Entry \cup {None}
    BY <1>2 DEF HandlerOK
  <1>6. ASSUME NEW d \in Conns PROVE InMethod(d)'
    <2>1. InMethod(d)
      BY DEF ConnInv
    <2>2. at[d] = "del" => NextKey(d) \in Keys
      BY NextKeyIs
    <2>3. (at[d] = "del" => Absent(data[NextKey(d)]))'
      BY <1>1, <1>4, <1>5, <2>1, <2>2 DEF InMethod, Absent, isExpired, NextKey
    <2> QED BY <1>1, <2>1, <2>3 DEF InMethod
  <1>7. Exclusion' /\ OnlyGetsClash' /\ Reading' = Reading
    BY <1>1 DEF ConnInv, Exclusion, OnlyGetsClash, Reading
  <1>8. SnapshotGets'
    <2>1. ASSUME NEW d \in Reading, NEW i \in DOMAIN got[d]
          PROVE  LET r == got[d][i] IN
                 IF r.item # None
                 THEN \/ data[r.key] = r.item
                      \/ r.item.exp # 0 /\ r.item.exp < now' /\ data[r.key] = None
                 ELSE \/ data[r.key] = None
                      \/ data[r.key].exp # 0 /\ data[r.key].exp < now'
      <3>1. got[d][i] \in Response
        BY <1>2 DEF HandlerOK, Reading
      <3>2. got[d][i].key \in Keys /\ got[d][i].item \in Entry \cup {None}
        BY <3>1 DEF Response
      <3> QED BY <1>4, <1>5, <3>2 DEF ConnInv, SnapshotGets, Absent
    <2> QED BY <1>1, <1>7, <2>1 DEF SnapshotGets, Absent, isExpired
  <1> QED BY <1>2, <1>3, <1>6, <1>7, <1>8 DEF ConnInv

\* Nothing but a step of the map changes it, and a live entry goes only when a
\* writer was asked to delete it, or to add over it.
KeptInStep ==
  \A k \in Keys :
    (~Absent(data[k]) /\ data'[k] = None) =>
      \E c \in Conns :
        /\ at[c] = "write" /\ call[c].keys[1] = k
        /\ call[c].op \in {"Delete", "Add"}

LEMMA NextStep ==
  ASSUME ConnInv, [Next]_vars
  PROVE  ConnInv'
  <1>1. CASE UNCHANGED vars
    <2>1. UNCHANGED <<clientVars, in, proto, pc, todo, inmemVars>>
      BY <1>1 DEF vars
    <2> QED BY <2>1, StreamsSame, HandlerSame DEF ConnInv
  <1>2. ASSUME NEW c \in Conns, Send(c) PROVE ConnInv'
    BY <1>2, SendStep
  <1>3. ASSUME NEW c \in Conns, HangUp(c) PROVE ConnInv'
    BY <1>3, HangUpStep
  <1>4. ASSUME NEW c \in Conns, Disambiguate(c) PROVE ConnInv'
    BY <1>4, DisambiguateStep
  <1>5. ASSUME NEW c \in Conns, ParseRequest(c) PROVE ConnInv'
    BY <1>5, ParseStep
  <1>6. ASSUME NEW c \in Conns, Finish(c) PROVE ConnInv'
    BY <1>6, FinishStep
  <1>7. ASSUME NEW c \in Conns, InHandler(c) PROVE ConnInv'
    <2>1. InMemStep(c) /\ UNCHANGED <<clientVars, in, proto, pc, todo>>
      BY <1>7 DEF InHandler
    <2>2. StreamsOK' /\ UNCHANGED <<pc, todo>>
      BY <2>1, StreamsSame
    <2> QED BY <2>1, <2>2, LockStep, UnlockStep, RLockStep, LookStep, DeleteAbsentStep,
               RUnlockStep, ThrowStep DEF InMemStep
  <1> QED BY <1>1, <1>2, <1>3, <1>4, <1>5, <1>6, <1>7, ClockStep DEF Next, ServerStep

LEMMA KeptStep ==
  ASSUME ConnInv, [Next]_vars
  PROVE  KeptInStep \/ UNCHANGED vars
  <1>1. HandlerOK
    BY DEF ConnInv
  <1>2. ASSUME NEW c \in Conns, Unlock(c) PROVE KeptInStep
    <2> DEFINE r == call[c]
               key == r.keys[1]
    <2>1. at[c] = "write" /\ data' = [data EXCEPT ![key] = Written(data[key], r).item]
      BY <1>2 DEF Unlock
    <2>2. r \in Calls /\ r.op \notin ReadMethods
      BY <2>1 DEF ConnInv, InMethod
    <2>3. key \in Keys
      BY <2>2 DEF Calls
    <2>4. data[key] \in Entry \cup {None} /\ now \in Nat
      BY <1>1, <2>3 DEF HandlerOK
    <2>5. (~Absent(data[key]) /\ Written(data[key], r).item = None) => r.op \in {"Delete", "Add"}
      <3> HIDE DEF key, r
      <3> QED BY <2>2, <2>4, WrittenIs
    <2>6. \A k \in Keys : data'[k] = IF k = key THEN Written(data[key], r).item ELSE data[k]
      BY <1>1, <2>1, <2>3 DEF HandlerOK
    <2>7. ASSUME NEW k \in Keys, ~Absent(data[k]), data'[k] = None
          PROVE  k = key /\ r.op \in {"Delete", "Add"}
      <3>1. data[k] # None
        BY <2>7 DEF Absent
      <3> HIDE DEF key, r
      <3> QED BY <2>5, <2>6, <2>7, <3>1
    <2> QED BY <2>1, <2>7 DEF KeptInStep
  <1>3. ASSUME NEW c \in Conns, DeleteAbsent(c) PROVE KeptInStep
    <2>1. at[c] = "del" /\ data' = [data EXCEPT ![NextKey(c)] = None]
      BY <1>3 DEF DeleteAbsent
    <2>2. Absent(data[NextKey(c)])
      BY <2>1 DEF ConnInv, InMethod
    <2>3. \A k \in Keys : ~Absent(data[k]) => data'[k] = data[k]
      BY <1>1, <2>1, <2>2 DEF HandlerOK
    <2> QED BY <2>3 DEF KeptInStep, Absent
  <1>4. CASE data' = data
    BY <1>4 DEF KeptInStep, Absent
  <1>5. CASE \E c \in Conns : InHandler(c)
    <2>1. PICK c \in Conns : InMemStep(c)
      BY <1>5 DEF InHandler
    <2>2. data' = data \/ Unlock(c) \/ DeleteAbsent(c)
      BY <2>1 DEF InMemStep, Lock, RLock, Look, RUnlock, Throw
    <2> QED BY <1>2, <1>3, <1>4, <2>2
  <1>6. CASE \E c \in Conns : Send(c) \/ HangUp(c) \/ Disambiguate(c)
    <2>1. data' = data
      BY <1>6 DEF Send, HangUp, Disambiguate, inmemVars
    <2> QED BY <1>4, <2>1
  <1>7. CASE \E c \in Conns : ParseRequest(c)
    <2>1. data' = data
      BY <1>7 DEF ParseRequest, inmemVars
    <2> QED BY <1>4, <2>1
  <1>8. CASE \E c \in Conns : Finish(c)
    <2>1. data' = data
      BY <1>8 DEF Finish
    <2> QED BY <1>4, <2>1
  <1>9. CASE Clock
    <2>1. data' = data
      BY <1>9 DEF Clock, Tick
    <2> QED BY <1>4, <2>1
  <1> QED BY <1>5, <1>6, <1>7, <1>8, <1>9 DEF Next, ServerStep

-----------------------------------------------------------------------------
(***************************************************************************)
(* Why a connection is closed.  What is left to parse is the end of what   *)
(* the client has sent; only after a stray opcode there may be a body      *)
(* without its header in front.                                            *)
(***************************************************************************)

IsEnd(s, l, protocol) ==
  \A i \in 1..Len(s) :
    \/ s[i] = l[Len(l) - Len(s) + i]
    \/ i = 1 /\ protocol = "binary" /\ s[1].op = "junk" /\ HasStray(l)

Follows(c) == IsEnd(in[c], log[c], proto[c])

\* Clients send no body without its header.
IsWhole(f) == IsFrame(f) => f.op # "junk"

SentWhole(c) ==
  /\ \A i \in DOMAIN log[c] : IsWhole(log[c][i])
  /\ \A i \in DOMAIN unsent[c] : IsWhole(unsent[c][i])

\* The cause, by connection: what was sent, or that the client has gone.
Ending(l, protocol) ==
  \/ /\ protocol = "binary"
     /\ \/ \E i \in DOMAIN l : l[i].op \in {"Quit", "QuitQ", "DeleteQ"}
        \/ HasStray(l)
  \/ protocol = "text" /\ \E i \in DOMAIN l : l[i].cmd = "quit"

Cause(c) == c \in eof \/ Ending(log[c], proto[c])

CauseInv ==
  /\ ConnInv
  /\ \A c \in Conns : Follows(c)
  /\ \A c \in Conns : SentWhole(c)
  /\ ClosedForCause

\* A parser takes what it reads from the front.
EndOf(rest, s) == \A i \in 1..Len(rest) : rest[i] = s[Len(s) - Len(rest) + i]

\* The header of the frame after a quiet get is taken and its body is left.
BodyLeft(rest, s) ==
  \E n \in 2..Len(s) :
    /\ StrayAt(s, n - 1) /\ s[1].op # "junk"
    /\ Len(rest) = Len(s) - n + 1 /\ rest[1].op = "junk"
    /\ \A i \in 2..Len(rest) : rest[i] = s[Len(s) - Len(rest) + i]

\* The errors of the binary parser, a quit, and what it leaves.
BinTaken(p, s) ==
  /\ p.err \in {"nil", "blocked", "BadMagic", "UnknownCmd"}
  /\ p.err = "BadMagic" => s # <<>> /\ s[1].op = "junk"
  /\ p.err = "UnknownCmd" => s # <<>> /\ s[1].op = "DeleteQ"
  /\ (p.err = "nil" /\ p.req.op = "Quit") => s # <<>> /\ s[1].op \in {"Quit", "QuitQ"}
  /\ p.err = "nil" => EndOf(p.rest, s) \/ BodyLeft(p.rest, s)

\* The same of the text parser, whose errors are all in the line.
TextTaken(p, s) ==
  /\ p.err \in Text!LineErrors \cup {"nil", "blocked"}
  /\ (p.err = "nil" /\ p.req.op = "Quit") => s # <<>> /\ s[1].cmd = "quit"
  /\ p.err # "blocked" => EndOf(p.rest, s)

LEMMA TailIsEnd ==
  ASSUME NEW T, NEW s \in Seq(T), s # <<>>
  PROVE  EndOf(Tail(s), s)
  <1>1. Len(s) \in Nat /\ Len(Tail(s)) = Len(s) - 1
    OBVIOUS
  <1>2. \A i \in 1..(Len(s) - 1) : Tail(s)[i] = s[i + 1]
    OBVIOUS
  <1> QED BY <1>1, <1>2 DEF EndOf

LEMMA SubSeqIsEnd ==
  ASSUME NEW T, NEW s \in Seq(T), NEW m \in 1..(Len(s) + 1)
  PROVE  /\ EndOf(SubSeq(s, m, Len(s)), s)
         /\ SubSeq(s, m, Len(s)) \in Seq(T)
         /\ Len(SubSeq(s, m, Len(s))) = Len(s) - m + 1
  <1>0. Len(s) \in Nat
    OBVIOUS
  <1>1. SubSeq(s, m, Len(s)) \in Seq(T) /\ Len(SubSeq(s, m, Len(s))) = Len(s) - m + 1
    BY <1>0
  <1>2. \A i \in 1..(Len(s) - m + 1) : SubSeq(s, m, Len(s))[i] = s[m + i - 1]
    BY <1>0
  <1> QED BY <1>0, <1>1, <1>2 DEF EndOf

LEMMA BatchTakes ==
  ASSUME NEW s \in Seq(Frames), s # <<>>,
         NEW q, NEW op, <<q, op>> \in {<<"GetQ", "Get">>, <<"GetEQ", "GetE">>},
         s[1].op = q
  PROVE  BinTaken(Bin!readBatchGet(s, q, op), s)
  <1> DEFINE n == FirstOther(s, q)
             last == s[n]
             keyed == IF last.op = op THEN SubSeq(s, 1, n) ELSE SubSeq(s, 1, n - 1)
             quiet == [i \in DOMAIN keyed |-> i < n]
             req == Bin!Request(op, keyed, quiet)
             rest == SubSeq(s, n + 1, Len(s))
             withNoop == [req EXCEPT !.noopEnd = TRUE, !.noopOpaque = last.opaque]
             junked == <<Bin!Junk>> \o rest
             parse == Bin!readBatchGet(s, q, op)
  <1>0. q \in {"GetQ", "GetEQ"} /\ op \in {"Get", "GetE"}
        /\ (q = "GetQ" <=> op = "Get")
    OBVIOUS
  <1>1. CASE n = 0
    <2>1. parse = Bin!Blocked
      BY <1>1, ReadBatchGetIs
    <2>2. parse.err = "blocked"
      BY <2>1 DEF Bin!Blocked
    <2> HIDE DEF parse
    <2> QED BY <2>2 DEF BinTaken, parse
  <1>2. CASE n # 0
    <2>0. /\ Len(s) \in Nat /\ n \in 1..Len(s) /\ s[n].op # q
          /\ \A i \in 1..(n - 1) : s[i].op = q
      <3>1. n \in 0..Len(s) /\ s[n].op # q /\ \A i \in 1..(n - 1) : s[i].op = q
        BY <1>2, FirstOtherIs
      <3> QED BY <1>2, <3>1
    <2>1. n \in 2..Len(s) /\ s[n - 1].op = q
      BY <2>0
    <2>2. req.op = op /\ withNoop.op = op
      BY DEF Bin!Request
    <2> HIDE DEF n
    <2>3. /\ EndOf(rest, s) /\ rest \in Seq(Frames) /\ Len(rest) = Len(s) - n
      <3>1. n + 1 \in 1..(Len(s) + 1)
        BY <2>1
      <3> QED BY <2>0, <3>1, SubSeqIsEnd
    <2>4. parse =
             CASE last.op = op     -> Bin!Parsed(req, rest)
               [] last.op = "Noop" -> Bin!Parsed(withNoop, rest)
               [] last.op \in Bin!Bare \ {"Noop"} -> Bin!Parsed(req, rest)
               [] OTHER            -> Bin!Parsed(req, junked)
      BY <1>2, ReadBatchGetIs, Zenon DEF n
    <2> HIDE DEF parse, withNoop, req, rest, keyed
    <2>5. op # "Quit" /\ s[1].op # "junk"
      BY <1>0
    <2>6. CASE parse = Bin!Parsed(req, rest) \/ parse = Bin!Parsed(withNoop, rest)
      <3>1. parse.err = "nil" /\ parse.rest = rest /\ parse.req.op = op
        BY <2>2, <2>6 DEF Bin!Parsed
      <3> QED BY <2>3, <2>5, <3>1 DEF BinTaken, parse
    <2>7. CASE last.op \notin {op, "Noop"} /\ parse = Bin!Parsed(req, junked)
      <3>1. parse.err = "nil" /\ parse.rest = junked /\ parse.req.op = op
        BY <2>2, <2>7 DEF Bin!Parsed
      <3>2. StrayAt(s, n - 1)
        BY <1>0, <2>0, <2>1, <2>7 DEF StrayAt
      <3>3. /\ Len(junked) = Len(s) - n + 1 /\ junked[1] = Bin!Junk
            /\ \A i \in 2..Len(junked) : junked[i] = rest[i - 1]
        BY <2>0, <2>3
      <3>4. junked[1].op = "junk"
        BY <3>3 DEF Bin!Junk
      <3> HIDE DEF junked
      <3>5. ASSUME NEW i \in 2..Len(junked)
            PROVE  junked[i] = s[Len(s) - Len(junked) + i]
        <4>1. i - 1 \in 1..Len(rest) /\ Len(s) - Len(rest) + (i - 1) = Len(s) - Len(junked) + i
          BY <2>0, <2>3, <3>3
        <4>2. rest[i - 1] = s[Len(s) - Len(rest) + (i - 1)]
          BY <2>3, <4>1 DEF EndOf
        <4> QED BY <3>3, <4>1, <4>2
      <3>6. BodyLeft(junked, s)
        BY <2>1, <2>5, <3>2, <3>3, <3>4, <3>5 DEF BodyLeft
      <3> QED BY <2>5, <3>1, <3>6 DEF BinTaken, parse
    <2> QED BY <2>4, <2>6, <2>7
  <1> QED BY <1>1, <1>2

LEMMA SingleTakes ==
  ASSUME NEW s \in Seq(Frames), s # <<>>, NEW op, NEW quiet,
         op = "Quit" => s[1].op \in {"Quit", "QuitQ"}
  PROVE  BinTaken(Bin!Single(s[1], op, quiet, Tail(s)), s)
  <1> DEFINE p == Bin!Single(s[1], op, quiet, Tail(s))
  <1>1. p.err = "nil" /\ p.req.op = op /\ p.rest = Tail(s)
    BY DEF Bin!Single, Bin!Parsed, Bin!Request
  <1> HIDE DEF p
  <1>2. BinTaken(p, s)
    BY <1>1, TailIsEnd DEF BinTaken
  <1> QED BY <1>2 DEF p

LEMMA BinTakes ==
  ASSUME NEW s \in Seq(Frames)
  PROVE  BinTaken(Bin!Parse(s), s)
  <1>1. CASE s = <<>>
    <2>1. Bin!Parse(s).err = "blocked"
      BY <1>1 DEF Bin!Parse, Bin!Blocked
    <2> QED BY <2>1 DEF BinTaken
  <1>2. CASE s # <<>>
    <2> DEFINE f == s[1]
    <2>0. 1 \in 1..Len(s)
      BY <1>2
    <2>1. CASE f.op \in {"junk", "DeleteQ"}
      <3>1. \/ Bin!Parse(s) = Bin!Blocked
            \/ Bin!Parse(s) = Bin!ParseError(IF f.op = "junk" THEN "BadMagic" ELSE "UnknownCmd")
        BY <1>2, <2>1 DEF Bin!Parse, Bin!QuietForm
      <3>2. \/ Bin!Parse(s).err = "blocked"
            \/ Bin!Parse(s).err = IF f.op = "junk" THEN "BadMagic" ELSE "UnknownCmd"
        BY <3>1 DEF Bin!ParseError, Bin!Blocked
      <3> QED BY <1>2, <2>0, <2>1, <3>2 DEF BinTaken
    <2>2. CASE f.op = "GetQ"
      <3>1. Bin!Parse(s) = Bin!readBatchGet(s, "GetQ", "Get")
        BY <1>2, <2>2 DEF Bin!Parse, Bin!QuietForm
      <3> QED BY <1>2, <2>2, <3>1, BatchTakes
    <2>3. CASE f.op = "GetEQ"
      <3>1. Bin!Parse(s) = Bin!readBatchGet(s, "GetEQ", "GetE")
        BY <1>2, <2>3 DEF Bin!Parse, Bin!QuietForm
      <3> QED BY <1>2, <2>3, <3>1, BatchTakes
    <2>4. CASE f.op = "QuitQ"
      <3>1. Bin!Parse(s) = Bin!Single(f, "Quit", TRUE, Tail(s))
        BY <1>2, <2>4 DEF Bin!Parse, Bin!QuietForm
      <3> QED BY <1>2, <2>4, <3>1, SingleTakes
    <2>5. CASE f.op \in DOMAIN Bin!QuietForm
      <3>0. f.op \in {"SetQ", "AddQ", "ReplaceQ", "AppendQ", "PrependQ"}
        BY <2>5 DEF Bin!QuietForm
      <3>1. Bin!Parse(s) = Bin!Single(f, Bin!QuietForm[f.op], TRUE, Tail(s))
        BY <1>2, <2>5, <3>0 DEF Bin!Parse
      <3>2. Bin!QuietForm[f.op] # "Quit"
        BY <3>0 DEF Bin!QuietForm
      <3> QED BY <1>2, <3>1, <3>2, SingleTakes
    <2>6. CASE f.op \notin {"junk", "DeleteQ", "GetQ", "GetEQ", "QuitQ"} \cup DOMAIN Bin!QuietForm
      <3>1. Bin!Parse(s) = Bin!Single(f, f.op, FALSE, Tail(s))
        BY <1>2, <2>6 DEF Bin!Parse
      <3> QED BY <1>2, <3>1, SingleTakes
    <2> QED BY <2>1, <2>2, <2>3, <2>4, <2>5, <2>6
  <1> QED BY <1>1, <1>2

LEMMA TextTakes ==
  ASSUME NEW s \in Seq(Lines)
  PROVE  TextTaken(Text!Parse(s), s)
  <1> DEFINE p == Text!Parse(s)
  <1>1. CASE s = <<>>
    <2>1. p.err = "blocked"
      BY <1>1 DEF Text!Parse, Text!Blocked
    <2> HIDE DEF p
    <2> QED BY <2>1 DEF TextTaken, p
  <1>2. CASE s # <<>>
    <2> DEFINE line == s[1]
    <2>0. /\ line \in Lines /\ line.err \in Text!LineErrors \cup {"nil"}
          /\ EndOf(Tail(s), s)
          /\ Len(s) # 1 => EndOf(SubSeq(s, 3, Len(s)), s)
      <3>1. Len(s) \in Nat /\ Len(s) # 0 /\ line \in Lines
        BY <1>2
      <3>2. Len(s) # 1 => 3 \in 1..(Len(s) + 1)
        <4>1. \A m \in Nat : m # 0 /\ m # 1 => 3 \in 1..(m + 1)
          OBVIOUS
        <4> QED BY <3>1, <4>1
      <3>3. line.err \in Text!LineErrors \cup {"nil"}
        BY <3>1 DEF Lines
      <3>4. EndOf(Tail(s), s)
        BY <1>2, TailIsEnd
      <3>5. Len(s) # 1 => EndOf(SubSeq(s, 3, Len(s)), s)
        BY <3>2, SubSeqIsEnd
      <3> QED BY <3>1, <3>3, <3>4, <3>5
    <2>1. ASSUME line.cmd \in DOMAIN Text!RequestType, Text!RequestType[line.cmd] = "Quit"
          PROVE  line.cmd = "quit"
      BY <2>1 DEF Text!RequestType
    <2>2. \A op : Text!Request(op, line).op = op
      BY DEF Text!Request
    <2>3. Text!TextStorage \subseteq DOMAIN Text!RequestType
      BY DEF Text!TextStorage, Text!RequestType
    <2>4. CASE line.cmd \in Text!TextStorage
      <3> DEFINE req == Text!Request(Text!RequestType[line.cmd], line)
      <3>1. p = IF line.err # "nil" THEN Text!Parsed(line.err, None, Tail(s))
                ELSE IF Len(s) = 1 THEN Text!Blocked
                ELSE Text!Parsed("nil", req, SubSeq(s, 3, Len(s)))
        BY <1>2, <2>4 DEF Text!Parse, Text!setRequest
      <3>2. req.op = Text!RequestType[line.cmd]
        BY <2>2
      <3> HIDE DEF req, p
      <3>3. \/ p.err = line.err /\ line.err # "nil" /\ p.rest = Tail(s)
            \/ p.err = "blocked"
            \/ p.err = "nil" /\ p.req = req /\ Len(s) # 1 /\ p.rest = SubSeq(s, 3, Len(s))
        BY <3>1 DEF Text!Parsed, Text!Blocked
      <3> QED BY <1>2, <2>0, <2>1, <2>3, <2>4, <3>2, <3>3 DEF TextTaken, p
    <2>5. CASE line.cmd \in DOMAIN Text!RequestType \ Text!TextStorage
      <3> DEFINE req == Text!Request(Text!RequestType[line.cmd], line)
      <3>1. p = IF line.err # "nil" THEN Text!Parsed(line.err, None, Tail(s))
                ELSE Text!Parsed("nil", req, Tail(s))
        BY <1>2, <2>5 DEF Text!Parse
      <3>2. req.op = Text!RequestType[line.cmd]
        BY <2>2
      <3> HIDE DEF req, p
      <3>3. /\ p.rest = Tail(s)
            /\ p.err = line.err /\ (line.err = "nil" => p.req = req)
        BY <3>1 DEF Text!Parsed
      <3> QED BY <1>2, <2>0, <2>1, <2>5, <3>2, <3>3 DEF TextTaken, p
    <2>6. CASE line.cmd \notin DOMAIN Text!RequestType
      <3>1. p = Text!Parsed("nil", Text!Request("Unknown", line), Tail(s))
        BY <1>2, <2>3, <2>6 DEF Text!Parse
      <3>2. p.err = "nil" /\ p.rest = Tail(s) /\ p.req.op = "Unknown"
        BY <2>2, <3>1 DEF Text!Parsed
      <3> HIDE DEF p
      <3> QED BY <2>0, <3>2 DEF TextTaken, p
    <2> QED BY <2>4, <2>5, <2>6
  <1> QED BY <1>1, <1>2

\* Places in the rest of a stream are places in the stream.
LEMMA Shift ==
  ASSUME NEW a \in Nat, NEW b \in Nat, a <= b, NEW i \in 1..a
  PROVE  /\ b - a + i \in 1..b
         /\ b - a + i = 1 => i = 1
         /\ (b + 1) - (a + 1) + i = b - a + i
  OBVIOUS

LEMMA ShiftTwice ==
  ASSUME NEW a \in Nat, NEW b \in Nat, NEW d \in Nat, NEW i \in 1..a
  PROVE  d - b + (b - a + i) = d - a + i
  OBVIOUS

\* A frame that is no body without its header is one the client has sent.
LEMMA InIsSent ==
  ASSUME NEW T, NEW s \in Seq(T), NEW l \in Seq(T), Len(s) <= Len(l), NEW protocol,
         IsEnd(s, l, protocol), NEW i \in 1..Len(s),
         i = 1 => protocol # "binary" \/ s[1].op # "junk"
  PROVE  /\ Len(l) - Len(s) + i \in DOMAIN l
         /\ s[i] = l[Len(l) - Len(s) + i]
  <1>1. Len(s) \in Nat /\ Len(l) \in Nat /\ DOMAIN l = 1..Len(l)
    OBVIOUS
  <1>2. Len(l) - Len(s) + i \in 1..Len(l)
    BY <1>1, Shift
  <1>3. s[i] = l[Len(l) - Len(s) + i]
    BY DEF IsEnd
  <1> QED BY <1>1, <1>2, <1>3

\* What was stray stays so as more is sent.
LEMMA StrayStays ==
  ASSUME NEW T, NEW s \in Seq(T), NEW f, HasStray(s)
  PROVE  HasStray(Append(s, f))
  <1>1. PICK i \in DOMAIN s : StrayAt(s, i)
    BY DEF HasStray
  <1> DEFINE t == Append(s, f)
  <1>2. i \in 1..Len(s) /\ i < Len(s) /\ Len(s) \in Nat
    BY <1>1 DEF StrayAt
  <1>3. Len(t) = Len(s) + 1 /\ t[i] = s[i] /\ t[i + 1] = s[i + 1] /\ i \in DOMAIN t
    BY <1>2
  <1> HIDE DEF t
  <1>4. StrayAt(t, i)
    BY <1>1, <1>2, <1>3 DEF StrayAt
  <1> QED BY <1>3, <1>4 DEF HasStray, t

\* Two frames in a row that have not been parsed are two in a row in the log.
LEMMA StrayIsSent ==
  ASSUME NEW T, NEW s \in Seq(T), NEW l \in Seq(T), Len(s) <= Len(l), NEW protocol,
         IsEnd(s, l, protocol), NEW n \in 2..Len(s), StrayAt(s, n - 1), s[1].op # "junk"
  PROVE  HasStray(l)
  <1> DEFINE m == Len(l) - Len(s) + (n - 1)
  <1>1. Len(s) \in Nat /\ Len(l) \in Nat /\ n - 1 \in 1..Len(s) /\ n \in 1..Len(s)
    OBVIOUS
  <1>2. m \in DOMAIN l /\ s[n - 1] = l[m]
    BY <1>1, InIsSent
  <1>3. Len(l) - Len(s) + n \in DOMAIN l /\ s[n] = l[Len(l) - Len(s) + n]
    BY <1>1, InIsSent
  <1>4. m + 1 = Len(l) - Len(s) + n /\ m < Len(l) /\ (n - 1) + 1 = n
    <2>1. ASSUME NEW a \in Nat, NEW b \in Nat, a <= b, NEW k \in 1..a
          PROVE  (b - a + (k - 1)) + 1 = b - a + k /\ b - a + (k - 1) < b /\ (k - 1) + 1 = k
      BY <2>1
    <2> QED BY <1>1, <2>1
  <1> HIDE DEF m
  <1>5. s[n] = l[m + 1]
    BY <1>3, <1>4
  <1>6. \/ s[n - 1].op = "GetQ"  /\ s[n].op \notin {"GetQ", "Get", "Noop"}
        \/ s[n - 1].op = "GetEQ" /\ s[n].op \notin {"GetEQ", "GetE", "Noop"}
    BY <1>4 DEF StrayAt
  <1>7. StrayAt(l, m)
    BY <1>2, <1>4, <1>5, <1>6 DEF StrayAt
  <1> QED BY <1>2, <1>7 DEF HasStray

\* What arrives comes after what has not been parsed.
LEMMA AppendIsEnd ==
  ASSUME NEW T, NEW s \in Seq(T), NEW l \in Seq(T), Len(s) <= Len(l), NEW protocol,
         IsEnd(s, l, protocol), NEW f
  PROVE  IsEnd(Append(s, f), Append(l, f), protocol)
  <1> DEFINE s1 == Append(s, f)
             l1 == Append(l, f)
  <1>1. Len(s) \in Nat /\ Len(l) \in Nat /\ Len(s1) = Len(s) + 1 /\ Len(l1) = Len(l) + 1
    OBVIOUS
  <1>2. /\ \A i \in 1..Len(s) : s1[i] = s[i]
        /\ \A i \in 1..Len(l) : l1[i] = l[i]
        /\ s1[Len(s) + 1] = f /\ l1[Len(l) + 1] = f
    BY <1>1
  <1>3. HasStray(l) => HasStray(l1)
    BY StrayStays
  <1> HIDE DEF s1, l1
  <1>4. ASSUME NEW i \in 1..Len(s1)
        PROVE  \/ s1[i] = l1[Len(l1) - Len(s1) + i]
               \/ i = 1 /\ protocol = "binary" /\ s1[1].op = "junk" /\ HasStray(l1)
    <2>1. CASE i = Len(s) + 1
      <3>1. ASSUME NEW a \in Nat, NEW b \in Nat PROVE (b + 1) - (a + 1) + (a + 1) = b + 1
        BY <3>1
      <3>2. Len(l1) - Len(s1) + i = Len(l) + 1
        BY <1>1, <2>1, <3>1
      <3> QED BY <1>2, <2>1, <3>2
    <2>2. CASE i # Len(s) + 1
      <3>0. i \in 1..Len(s)
        BY <1>1, <2>2
      <3>1. /\ Len(l1) - Len(s1) + i = Len(l) - Len(s) + i
            /\ Len(l) - Len(s) + i \in 1..Len(l)
        BY <1>1, <3>0, Shift
      <3>2. s1[i] = s[i] /\ l1[Len(l) - Len(s) + i] = l[Len(l) - Len(s) + i]
        BY <1>2, <3>0, <3>1
      <3>3. \/ s[i] = l[Len(l) - Len(s) + i]
            \/ i = 1 /\ protocol = "binary" /\ s[1].op = "junk" /\ HasStray(l)
        BY <3>0 DEF IsEnd
      <3> QED BY <1>3, <3>1, <3>2, <3>3
    <2> QED BY <2>1, <2>2
  <1>5. IsEnd(s1, l1, protocol)
    BY <1>4 DEF IsEnd
  <1> QED BY <1>5 DEF s1, l1

\* What a parser leaves is the end of what was sent if what it got was.
LEMMA RestIsEnd ==
  ASSUME NEW T, NEW s \in Seq(T), NEW l \in Seq(T), Len(s) <= Len(l), NEW protocol,
         IsEnd(s, l, protocol), NEW rest \in Seq(T), Len(rest) <= Len(s),
         EndOf(rest, s) \/ (protocol = "binary" /\ BodyLeft(rest, s))
  PROVE  IsEnd(rest, l, protocol)
  <1>1. Len(s) \in Nat /\ Len(l) \in Nat /\ Len(rest) \in Nat
    OBVIOUS
  <1>2. ASSUME NEW i \in 1..Len(rest)
        PROVE  \/ rest[i] = l[Len(l) - Len(rest) + i]
               \/ i = 1 /\ protocol = "binary" /\ rest[1].op = "junk" /\ HasStray(l)
    <2> DEFINE j == Len(s) - Len(rest) + i
    <2>1. j \in 1..Len(s) /\ (j = 1 => i = 1)
      BY <1>1, Shift
    <2>2. Len(l) - Len(s) + j = Len(l) - Len(rest) + i
      BY <1>1, ShiftTwice
    <2>3. CASE EndOf(rest, s)
      <3>1. rest[i] = s[j]
        BY <2>3 DEF EndOf
      <3> HIDE DEF j
      <3>2. \/ s[j] = l[Len(l) - Len(s) + j]
            \/ j = 1 /\ protocol = "binary" /\ s[1].op = "junk" /\ HasStray(l)
        BY <2>1 DEF IsEnd
      <3> QED BY <2>1, <2>2, <3>1, <3>2
    <2>4. CASE protocol = "binary" /\ BodyLeft(rest, s)
      <3>1. PICK n \in 2..Len(s) :
              /\ StrayAt(s, n - 1) /\ s[1].op # "junk"
              /\ Len(rest) = Len(s) - n + 1 /\ rest[1].op = "junk"
              /\ \A k \in 2..Len(rest) : rest[k] = s[Len(s) - Len(rest) + k]
        BY <2>4 DEF BodyLeft
      <3>2. CASE i = 1
        <4>1. HasStray(l)
          BY <3>1, StrayIsSent
        <4> QED BY <2>4, <3>1, <3>2, <4>1
      <3>3. CASE i # 1
        <4>1. i \in 2..Len(rest)
          BY <1>1, <3>3
        <4>2. rest[i] = s[j]
          BY <3>1, <4>1
        <4> HIDE DEF j
        <4>3. s[j] = l[Len(l) - Len(s) + j]
          BY <2>1, <3>3 DEF IsEnd
        <4> QED BY <2>2, <4>2, <4>3
      <3> QED BY <3>2, <3>3
    <2> QED BY <2>3, <2>4
  <1> QED BY <1>2 DEF IsEnd

\* A cause stays one, and what was sent stays sent.
LEMMA CauseSame ==
  ASSUME NEW c \in Conns, Cause(c), log'[c] = log[c], proto'[c] = proto[c],
         eof \subseteq eof'
  PROVE  Cause(c)'
  BY DEF Cause

LEMMA FollowsSame ==
  ASSUME NEW c \in Conns, Follows(c), in'[c] = in[c], log'[c] = log[c],
         proto'[c] = proto[c]
  PROVE  Follows(c)'
  BY DEF Follows

LEMMA CauseIs == ClosedForCause <=> \A c \in Conns : pc[c] = "closed" => Cause(c)
  BY DEF ClosedForCause, Cause, Ending

\* A step that closes no connection and leaves the streams alone.
LEMMA CauseQuiet ==
  ASSUME CauseInv, UNCHANGED <<log, in, proto>>, eof \subseteq eof',
         \A c \in Conns : pc'[c] = "closed" => pc[c] = "closed" \/ c \in eof'
  PROVE  (\A c \in Conns : Follows(c))' /\ ClosedForCause'
  <1>1. \A c \in Conns : Follows(c)'
    BY FollowsSame DEF CauseInv
  <1>2. ASSUME NEW c \in Conns, pc'[c] = "closed" PROVE Cause(c)'
    <2>1. CASE pc[c] = "closed"
      <3>1. Cause(c)
        BY <2>1, CauseIs DEF CauseInv
      <3> QED BY <3>1, CauseSame
    <2>2. CASE c \in eof'
      BY <2>2 DEF Cause
    <2> QED BY <1>2, <2>1, <2>2
  <1>3. (ClosedForCause <=> \A c \in Conns : pc[c] = "closed" => Cause(c))'
    BY DEF ClosedForCause, Cause, Ending
  <1> QED BY <1>1, <1>2, <1>3

LEMMA SentSame ==
  ASSUME \A c \in Conns : SentWhole(c), UNCHANGED <<log, unsent>>
  PROVE  (\A c \in Conns : SentWhole(c))'
  BY DEF SentWhole

LEMMA SendSent ==
  ASSUME CauseInv, NEW c \in Conns, Send(c)
  PROVE  (\A d \in Conns : SentWhole(d))'
  <1>1. StreamsOK /\ \A d \in Conns : SentWhole(d)
    BY DEF CauseInv, ConnInv
  <1>2. PICK piece \in IF unsent[c] # <<>> THEN {unsent[c]} ELSE load.pieces[c] :
          /\ unsent' = [unsent EXCEPT ![c] = Tail(piece)]
          /\ log' = [log EXCEPT ![c] = Append(@, Numbered(c, Head(piece)))]
    BY DEF Send
  <1>3. piece \in Seq(Wire(c)) /\ piece # <<>>
    BY <1>1, <1>2, WorkloadOf DEF StreamsOK
  <1>4. \A i \in 1..Len(piece) : IsWhole(piece[i])
    <2>1. CASE unsent[c] # <<>>
      BY <1>1, <1>2, <1>3, <2>1 DEF SentWhole
    <2>2. CASE unsent[c] = <<>>
      <3>1. piece \in load.pieces[c]
        BY <1>2, <2>2
      <3>2. piece \in Seq(ClientFrames) \/ piece \in Seq(Lines)
        BY <1>1, <3>1, WorkloadsAssumption DEF StreamsOK
      <3>3. \A i \in 1..Len(piece) : piece[i] \in ClientFrames \cup Lines
        BY <3>2
      <3> QED BY <3>3 DEF IsWhole, IsFrame, ClientFrames, Lines
    <2> QED BY <2>1, <2>2
  <1> DEFINE f == Numbered(c, Head(piece))
  <1>5. IsWhole(f)
    <2>1. Head(piece) = piece[1] /\ 1 \in 1..Len(piece) /\ piece[1] \in Wire(c)
      BY <1>3
    <2>2. IsWhole(piece[1])
      BY <1>4, <2>1
    <2>3. CASE IsFrame(piece[1])
      <3>1. piece[1] \in Frames
        BY <2>1, <2>3 DEF Wire, Lines, IsFrame
      <3>2. f = [piece[1] EXCEPT !.opaque = Len(log[c]) + 1]
        BY <2>1, <2>3 DEF Numbered
      <3>3. f.op = piece[1].op
        BY <3>1, <3>2 DEF Frames
      <3> QED BY <2>2, <2>3, <3>3 DEF IsWhole
    <2>4. CASE ~IsFrame(piece[1])
      BY <2>1, <2>2, <2>4 DEF Numbered
    <2> QED BY <2>3, <2>4
  <1> HIDE DEF f
  <1>6. ASSUME NEW d \in Conns PROVE SentWhole(d)'
    <2>1. CASE d # c
      <3>1. log'[d] = log[d] /\ unsent'[d] = unsent[d]
        BY <1>1, <1>2, <2>1 DEF StreamsOK
      <3> QED BY <1>1, <3>1 DEF SentWhole
    <2>2. CASE d = c
      <3>1. log'[c] = Append(log[c], f) /\ unsent'[c] = Tail(piece)
            /\ log[c] \in Seq(Frames \cup Lines)
        BY <1>1, <1>2 DEF StreamsOK, f
      <3>2. \A i \in DOMAIN Append(log[c], f) : IsWhole(Append(log[c], f)[i])
        <4>1. \A i \in 1..Len(log[c]) : IsWhole(log[c][i])
          BY <1>1, <3>1 DEF SentWhole
        <4>2. /\ DOMAIN Append(log[c], f) = 1..(Len(log[c]) + 1)
              /\ \A i \in 1..(Len(log[c]) + 1) :
                   Append(log[c], f)[i] = IF i = Len(log[c]) + 1 THEN f ELSE log[c][i]
          BY <3>1, AppendProperties
        <4>3. Len(log[c]) \in Nat
          BY <3>1
        <4> QED BY <1>5, <4>1, <4>2, <4>3
      <3>3. \A i \in DOMAIN Tail(piece) : IsWhole(Tail(piece)[i])
        <4>1. /\ Len(piece) \in Nat /\ DOMAIN Tail(piece) = 1..(Len(piece) - 1)
              /\ \A i \in 1..(Len(piece) - 1) : Tail(piece)[i] = piece[i + 1]
          BY <1>3
        <4> QED BY <1>4, <4>1
      <3> QED BY <2>2, <3>1, <3>2, <3>3 DEF SentWhole
    <2> QED BY <2>1, <2>2
  <1> QED BY <1>6

LEMMA SendCause ==
  ASSUME CauseInv, NEW c \in Conns, Send(c)
  PROVE  (\A d \in Conns : Follows(d))' /\ ClosedForCause'
  <1>1. PICK f : /\ log' = [log EXCEPT ![c] = Append(@, f)]
                 /\ in' = [in EXCEPT ![c] = Append(@, f)]
    BY DEF Send
  <1>2. pc[c] # "closed" /\ UNCHANGED <<eof, proto, pc>> /\ StreamsOK
    BY DEF Send, CauseInv, ConnInv
  <1>3. /\ log \in [Conns -> Seq(Frames \cup Lines)]
        /\ in \in [Conns -> Seq(Frames \cup Lines)]
        /\ Len(in[c]) <= Len(log[c])
    BY <1>2 DEF StreamsOK
  <1>4. ASSUME NEW d \in Conns PROVE Follows(d)'
    <2>1. CASE d # c
      <3>1. in'[d] = in[d] /\ log'[d] = log[d] /\ proto'[d] = proto[d]
        BY <1>1, <1>2, <1>3, <2>1
      <3> QED BY <3>1, FollowsSame DEF CauseInv
    <2>2. CASE d = c
      <3>1. /\ in'[c] = Append(in[c], f) /\ log'[c] = Append(log[c], f)
            /\ proto'[c] = proto[c]
        BY <1>1, <1>2, <1>3
      <3>2. in[c] \in Seq(Frames \cup Lines) /\ log[c] \in Seq(Frames \cup Lines)
        BY <1>3
      <3>3. IsEnd(in[c], log[c], proto[c])
        BY DEF CauseInv, Follows
      <3>4. IsEnd(Append(in[c], f), Append(log[c], f), proto[c])
        BY <1>3, <3>2, <3>3, AppendIsEnd
      <3> QED BY <2>2, <3>1, <3>4 DEF Follows
    <2> QED BY <2>1, <2>2
  <1>5. ASSUME NEW d \in Conns, pc'[d] = "closed" PROVE Cause(d)'
    <2>1. d # c /\ pc[d] = "closed"
      BY <1>2, <1>5
    <2>2. Cause(d)
      BY <2>1, CauseIs DEF CauseInv
    <2>3. log'[d] = log[d] /\ proto'[d] = proto[d]
      BY <1>1, <1>2, <1>3, <2>1
    <2> QED BY <1>2, <2>2, <2>3, CauseSame
  <1>6. (ClosedForCause <=> \A d \in Conns : pc[d] = "closed" => Cause(d))'
    BY DEF ClosedForCause, Cause, Ending
  <1> QED BY <1>4, <1>5, <1>6

LEMMA DisambiguateCause ==
  ASSUME CauseInv, NEW c \in Conns, Disambiguate(c)
  PROVE  (\A d \in Conns : Follows(d))' /\ ClosedForCause'
  <1>1. /\ pc[c] = "new" /\ UNCHANGED <<log, eof, in>> /\ StreamsOK /\ HandlerOK
    BY DEF Disambiguate, clientVars, CauseInv, ConnInv
  <1>2. CASE UNCHANGED proto /\ Goto(c, "closed") /\ c \in eof
    <2>1. \A d \in Conns : pc'[d] = "closed" => pc[d] = "closed" \/ d \in eof'
      BY <1>1, <1>2 DEF Goto, HandlerOK
    <2> QED BY <1>1, <1>2, <2>1, CauseQuiet
  <1>3. CASE /\ in[c] # <<>> /\ Goto(c, "parse")
             /\ proto' = [proto EXCEPT ![c] = IF IsFrame(in[c][1]) THEN "binary" ELSE "text"]
    <2>1. \A d \in Conns : d # c => proto'[d] = proto[d] /\ pc'[d] = pc[d]
      BY <1>1, <1>3 DEF Goto, HandlerOK, StreamsOK
    <2>2. pc'[c] = "parse" /\ (proto[c] = "binary" => proto'[c] = "binary")
      <3>1. proto[c] = "binary" => in[c][1] \in Frames
        BY <1>1, <1>3 DEF StreamsOK, Wire
      <3> QED BY <1>1, <1>3, <3>1 DEF Goto, HandlerOK, StreamsOK, IsFrame, Frames
    <2>3. ASSUME NEW d \in Conns PROVE Follows(d)'
      <3>1. CASE d # c
        BY <1>1, <2>1, <3>1, FollowsSame DEF CauseInv
      <3>2. CASE d = c
        <4>1. IsEnd(in[c], log[c], proto[c])
          BY DEF CauseInv, Follows
        <4>2. IsEnd(in[c], log[c], proto'[c])
          BY <2>2, <4>1 DEF IsEnd
        <4> QED BY <1>1, <3>2, <4>2 DEF Follows
      <3> QED BY <3>1, <3>2
    <2>4. ASSUME NEW d \in Conns, pc'[d] = "closed" PROVE Cause(d)'
      <3>1. d # c /\ pc[d] = "closed"
        BY <2>1, <2>2, <2>4
      <3>2. Cause(d)
        BY <3>1, CauseIs DEF CauseInv
      <3> QED BY <1>1, <2>1, <3>1, <3>2, CauseSame
    <2>5. (ClosedForCause <=> \A d \in Conns : pc[d] = "closed" => Cause(d))'
      BY DEF ClosedForCause, Cause, Ending
    <2> QED BY <2>3, <2>4, <2>5
  <1> QED BY <1>2, <1>3 DEF Disambiguate

\* What is left after a parse still follows what was sent.
LEMMA RestFollows ==
  ASSUME CauseInv, NEW c \in Conns, NEW rest \in Seq(Wire(c)), Len(rest) <= Len(in[c]),
         in' = [in EXCEPT ![c] = rest], UNCHANGED <<log, proto>>,
         EndOf(rest, in[c]) \/ (proto[c] = "binary" /\ BodyLeft(rest, in[c]))
  PROVE  (\A d \in Conns : Follows(d))'
  <1>1. StreamsOK /\ IsEnd(in[c], log[c], proto[c])
    BY DEF CauseInv, ConnInv, Follows
  <1>2. /\ in[c] \in Seq(Frames \cup Lines) /\ log[c] \in Seq(Frames \cup Lines)
        /\ rest \in Seq(Frames \cup Lines) /\ Len(in[c]) <= Len(log[c]) /\ in'[c] = rest
    BY <1>1 DEF StreamsOK, Wire
  <1>3. IsEnd(rest, log[c], proto[c])
    BY <1>1, <1>2, RestIsEnd
  <1>4. Follows(c)'
    BY <1>2, <1>3 DEF Follows
  <1>5. ASSUME NEW d \in Conns, d # c PROVE Follows(d)'
    <2>1. in'[d] = in[d]
      BY <1>1, <1>5 DEF StreamsOK
    <2> QED BY <2>1, FollowsSame DEF CauseInv
  <1> QED BY <1>4, <1>5

\* The parser of either protocol asks for the connection to be closed only for
\* a cause, and what it leaves is in order.
LEMMA ParseIsFor ==
  ASSUME CauseInv, NEW c \in Conns, pc[c] = "parse"
  PROVE  LET p == ParseIn(c) IN
         /\ p.err \notin Survivable \cup {"nil", "blocked"} => Cause(c)
         /\ (p.err = "nil" /\ p.req.op = "Quit") => Cause(c)
         /\ p.err \in Survivable \cup {"nil"} =>
              EndOf(p.rest, in[c]) \/ (proto[c] = "binary" /\ BodyLeft(p.rest, in[c]))
         /\ p.rest \in Seq(Wire(c)) /\ Len(p.rest) <= Len(in[c])
  <1> DEFINE p == ParseIn(c)
             s == in[c]
  <1>1. StreamsOK /\ Follows(c) /\ s \in Seq(Wire(c)) /\ proto[c] \in {"binary", "text"}
    BY DEF CauseInv, ConnInv, StreamsOK
  <1>2. s # <<>> => 1 \in 1..Len(s)
    BY <1>1
  <1>3. CASE proto[c] = "binary"
    <2>1. s \in Seq(Frames) /\ Wire(c) = Frames /\ p = Bin!Parse(s)
      BY <1>1, <1>3 DEF StreamsOK, Wire, ParseIn
    <2>2. BinTaken(p, s) /\ GoodParse(p, s, Frames)
      BY <2>1, BinTakes, BinParses
    <2> HIDE DEF p
    <2>0. ASSUME s # <<>>, ~(s[1].op = "junk" /\ HasStray(log[c]))
          PROVE  \E i \in DOMAIN log[c] : s[1] = log[c][i]
      <3>1. /\ Len(s) \in Nat /\ Len(log[c]) \in Nat /\ Len(s) <= Len(log[c])
            /\ DOMAIN log[c] = 1..Len(log[c])
        BY <1>1 DEF StreamsOK
      <3>2. Len(log[c]) - Len(s) + 1 \in DOMAIN log[c]
        BY <1>2, <2>0, <3>1, Shift
      <3>3. s[1] = log[c][Len(log[c]) - Len(s) + 1]
        BY <1>1, <1>2, <2>0 DEF Follows, IsEnd
      <3> QED BY <3>2, <3>3
    <2>3. ASSUME s # <<>>, s[1].op \in {"Quit", "QuitQ", "DeleteQ"}
          PROVE  Cause(c)
      BY <1>3, <2>0, <2>3 DEF Cause, Ending
    <2>4. p.err \notin Survivable \cup {"nil", "blocked"} => Cause(c)
      <3>1. CASE p.err = "BadMagic"
        <4>1. s # <<>> /\ s[1].op = "junk"
          BY <2>2, <3>1 DEF BinTaken
        <4>2. s[1] \in Frames
          BY <2>1, <4>1
        <4>3. ~ IsWhole(s[1])
          BY <4>1, <4>2 DEF IsWhole, IsFrame, Frames
        <4>4. SentWhole(c)
          BY DEF CauseInv
        <4>5. HasStray(log[c])
          BY <2>0, <4>1, <4>3, <4>4 DEF SentWhole
        <4> QED BY <1>3, <4>5 DEF Cause, Ending
      <3>2. CASE p.err = "UnknownCmd"
        BY <2>2, <2>3, <3>2 DEF BinTaken
      <3> QED BY <2>2, <3>1, <3>2 DEF BinTaken
    <2>5. (p.err = "nil" /\ p.req.op = "Quit") => Cause(c)
      BY <2>2, <2>3 DEF BinTaken
    <2>6. p.err \notin Survivable
      BY <2>2 DEF BinTaken, Survivable
    <2>7. p.err = "nil" => EndOf(p.rest, s) \/ BodyLeft(p.rest, s)
      BY <2>2 DEF BinTaken
    <2> QED BY <1>3, <2>1, <2>2, <2>4, <2>5, <2>6, <2>7 DEF GoodParse, p
  <1>4. CASE proto[c] = "text"
    <2>1. s \in Seq(Lines) /\ Wire(c) = Lines /\ p = Text!Parse(s)
      BY <1>1, <1>4 DEF StreamsOK, Wire, ParseIn
    <2>2. TextTaken(p, s) /\ GoodParse(p, s, Lines)
      BY <2>1, TextTakes, TextParses
    <2> HIDE DEF p
    <2>3. p.err \in Survivable \cup {"nil", "blocked"}
      BY <2>2 DEF TextTaken, Survivable, Text!LineErrors
    <2>4. (p.err = "nil" /\ p.req.op = "Quit") => Cause(c)
      <3> SUFFICES ASSUME p.err = "nil", p.req.op = "Quit" PROVE Cause(c)
        OBVIOUS
      <3>1. s # <<>> /\ s[1].cmd = "quit"
        BY <2>2 DEF TextTaken
      <3>2. /\ Len(log[c]) - Len(s) + 1 \in DOMAIN log[c]
            /\ s[1] = log[c][Len(log[c]) - Len(s) + 1]
        <4>1. /\ s \in Seq(Frames \cup Lines) /\ log[c] \in Seq(Frames \cup Lines)
              /\ Len(s) <= Len(log[c]) /\ IsEnd(s, log[c], proto[c])
          BY <1>1 DEF StreamsOK, Follows
        <4> QED BY <1>2, <1>4, <3>1, <4>1, InIsSent
      <3> QED BY <1>4, <3>1, <3>2 DEF Cause, Ending
    <2>5. p.err \in Survivable \cup {"nil"} => EndOf(p.rest, s)
      BY <2>2 DEF TextTaken, Survivable
    <2> QED BY <2>1, <2>2, <2>3, <2>4, <2>5 DEF GoodParse, p
  <1> QED BY <1>1, <1>3, <1>4

LEMMA ParseCause ==
  ASSUME CauseInv, NEW c \in Conns, ParseRequest(c)
  PROVE  (\A d \in Conns : Follows(d))' /\ ClosedForCause'
  <1> DEFINE p == ParseIn(c)
  <1>1. /\ pc[c] = "parse" /\ UNCHANGED <<log, eof, proto>> /\ HandlerOK
    BY DEF ParseRequest, clientVars, CauseInv, ConnInv
  <1>2. /\ p.err \notin Survivable \cup {"nil", "blocked"} => Cause(c)
        /\ (p.err = "nil" /\ p.req.op = "Quit") => Cause(c)
        /\ p.err \in Survivable \cup {"nil"} =>
             EndOf(p.rest, in[c]) \/ (proto[c] = "binary" /\ BodyLeft(p.rest, in[c]))
        /\ p.rest \in Seq(Wire(c)) /\ Len(p.rest) <= Len(in[c])
    BY <1>1, ParseIsFor
  <1>3. \/ in' = in
        \/ p.err \in Survivable \cup {"nil"} /\ in' = [in EXCEPT ![c] = p.rest]
    BY DEF ParseRequest
  <1>4. \/ pc' = pc \/ Goto(c, "parse") \/ Goto(c, "handler")
        \/ /\ Goto(c, "closed")
           /\ \/ c \in eof \/ p.err \notin Survivable \cup {"nil", "blocked"}
              \/ p.err = "nil" /\ p.req.op = "Quit"
    BY DEF ParseRequest, Served, WriteMayFail
  <1> HIDE DEF p
  <1>5. \A d \in Conns : pc'[d] = "closed" => pc[d] = "closed" \/ (d = c /\ Cause(c))
    <2>1. c \in eof => Cause(c)
      BY DEF Cause
    <2> QED BY <1>1, <1>2, <1>4, <2>1 DEF Goto, HandlerOK
  <1>6. (\A d \in Conns : Follows(d))'
    <2>1. CASE in' = in
      BY <1>1, <2>1, FollowsSame DEF CauseInv
    <2>2. CASE p.err \in Survivable \cup {"nil"} /\ in' = [in EXCEPT ![c] = p.rest]
      BY <1>1, <1>2, <2>2, RestFollows
    <2> QED BY <1>3, <2>1, <2>2
  <1>7. ASSUME NEW d \in Conns, pc'[d] = "closed" PROVE Cause(d)'
    <2>1. Cause(d)
      BY <1>5, <1>7, CauseIs DEF CauseInv
    <2> QED BY <1>1, <2>1, CauseSame
  <1>8. (ClosedForCause <=> \A d \in Conns : pc[d] = "closed" => Cause(d))'
    BY DEF ClosedForCause, Cause, Ending
  <1> QED BY <1>6, <1>7, <1>8

LEMMA InitCause ==
  ASSUME Init
  PROVE  CauseInv
  <1>1. ASSUME NEW c \in Conns PROVE Follows(c)
    <2>1. in[c] = <<>> /\ Len(<<>>) = 0
      BY DEF Init
    <2>2. 1..Len(in[c]) = {}
      BY <2>1
    <2> QED BY <2>2 DEF Follows, IsEnd
  <1>2. ClosedForCause
    BY DEF Init, ClosedForCause
  <1>3. ASSUME NEW c \in Conns PROVE SentWhole(c)
    <2>1. log[c] = <<>> /\ unsent[c] = <<>> /\ DOMAIN <<>> = {}
      BY DEF Init
    <2> QED BY <2>1 DEF SentWhole
  <1> QED BY <1>1, <1>2, <1>3, InitConn DEF CauseInv

LEMMA CauseStep ==
  ASSUME CauseInv, [Next]_vars
  PROVE  CauseInv'
  <1>0. ConnInv' /\ HandlerOK
    BY NextStep DEF CauseInv, ConnInv
  <1>6. (\A c \in Conns : SentWhole(c))'
    <2>1. CASE UNCHANGED <<log, unsent>>
      BY <2>1, SentSame DEF CauseInv
    <2>2. UNCHANGED <<log, unsent>> \/ \E c \in Conns : Send(c)
      BY DEF Next, ServerStep, HangUp, Disambiguate, ParseRequest, InHandler, Finish, Clock,
             vars, clientVars
    <2> QED BY <2>1, <2>2, SendSent
  <1> SUFFICES (\A c \in Conns : Follows(c))' /\ ClosedForCause'
    BY <1>0, <1>6 DEF CauseInv
  <1>1. CASE UNCHANGED <<log, in, proto, eof, pc>>
    BY <1>1, CauseQuiet
  <1>2. ASSUME NEW c \in Conns, HangUp(c)
        PROVE  (\A d \in Conns : Follows(d))' /\ ClosedForCause'
    <2>1. UNCHANGED <<log, in, proto, pc>> /\ eof \subseteq eof'
      BY <1>2 DEF HangUp
    <2> QED BY <2>1, CauseQuiet
  <1>3. ASSUME NEW c \in Conns, Finish(c)
        PROVE  (\A d \in Conns : Follows(d))' /\ ClosedForCause'
    <2>1. UNCHANGED <<log, in, proto, eof>>
      BY <1>3 DEF Finish, clientVars
    <2>2. pc' = pc \/ Goto(c, "parse") \/ (Goto(c, "closed") /\ c \in eof)
      BY <1>3 DEF Finish, WriteMayFail
    <2>3. \A d \in Conns : pc'[d] = "closed" => pc[d] = "closed" \/ d \in eof'
      BY <1>0, <2>1, <2>2 DEF Goto, HandlerOK
    <2> QED BY <2>1, <2>3, CauseQuiet
  <1>4. CASE UNCHANGED vars
    BY <1>1, <1>4 DEF vars, clientVars
  <1>5. CASE Clock \/ \E c \in Conns : InHandler(c)
    BY <1>1, <1>5 DEF Clock, InHandler, clientVars
  <1> QED BY <1>2, <1>3, <1>4, <1>5, SendCause, DisambiguateCause, ParseCause
          DEF Next, ServerStep

-----------------------------------------------------------------------------
(***************************************************************************)
(* What is written to a client of the binary protocol.  The frames of a    *)
(* request are a stretch of the log, and its replies the answers to them.  *)
(***************************************************************************)

IsSeq(s) == \E T : s \in Seq(T)

\* The replies o answer the frames of l after the m-th up to the n-th: in their
\* order, at most one for each, one for each that is not quiet, and a quiet get
\* is not told of a miss.
Answers(o, l, m, n) ==
  /\ IsSeq(o)
  /\ \A j \in 1..Len(o) :
       /\ o[j].opaque \in (m + 1)..n
       /\ l[o[j].opaque].op \in {"GetQ", "GetEQ"} => o[j].status # "KeyNotFound"
  /\ \A j, k \in 1..Len(o) : j < k => o[j].opaque < o[k].opaque
  /\ \A i \in (m + 1)..n :
       l[i].op \notin Bin!Quiet => \E j \in 1..Len(o) : o[j].opaque = i

\* The request r was made of the frames of l after the m-th up to the n-th.
Covers(r, l, m, n) ==
  LET k == Len(r.keys) IN
  /\ k \in Nat /\ k # 0 /\ DOMAIN r.keys = 1..k
  /\ \A i \in 1..k :
       /\ r.opaques[i] = l[m + i].opaque
       /\ r.quiet[i] => l[m + i].op \in Bin!Quiet
       /\ l[m + i].op \in {"GetQ", "GetEQ"} => r.quiet[i] /\ r.op \in ReadMethods
  /\ r.op \notin ReadMethods => k = 1 /\ ~r.noopEnd
  /\ r.noopEnd => n = m + k + 1 /\ r.noopOpaque = l[n].opaque /\ l[n].op = "Noop"
  /\ ~r.noopEnd => n = m + k

\* The requests rs are for the frames after the m-th up to the n-th, all but
\* the last for one frame each.
Due(rs, l, m, n) ==
  \A i \in 1..Len(rs) :
    Covers(rs[i], l, m + i - 1, IF i = Len(rs) THEN n ELSE m + i)

\* The opaque of a frame is its place.
Counted(l) == \A i \in 1..Len(l) : l[i].opaque = i

LEMMA FunctionIsSeq ==
  ASSUME NEW k \in Nat, NEW T, NEW g \in [1..k -> T]
  PROVE  g \in Seq(T) /\ Len(g) = k
  OBVIOUS

LEMMA ConcatIs ==
  ASSUME NEW a, NEW b, IsSeq(a), IsSeq(b)
  PROVE  /\ IsSeq(a \o b) /\ Len(a) \in Nat /\ Len(b) \in Nat
         /\ Len(a \o b) = Len(a) + Len(b)
         /\ \A i \in 1..Len(a) : (a \o b)[i] = a[i]
         /\ \A i \in 1..Len(b) : (a \o b)[Len(a) + i] = b[i]
  <1>1. PICK S, T : a \in Seq(S) /\ b \in Seq(T)
    BY DEF IsSeq
  <1>2. a \in Seq(S \cup T) /\ b \in Seq(S \cup T)
    BY <1>1
  <1>3. a \o b \in Seq(S \cup T)
    BY <1>2
  <1>4. /\ Len(a) \in Nat /\ Len(b) \in Nat
        /\ Len(a \o b) = Len(a) + Len(b)
        /\ \A i \in 1..Len(a) : (a \o b)[i] = a[i]
        /\ \A i \in 1..Len(b) : (a \o b)[Len(a) + i] = b[i]
    BY <1>2
  <1> QED BY <1>3, <1>4 DEF IsSeq

\* Answers to two stretches, one after the other, answer both.
LEMMA AnswersJoin ==
  ASSUME NEW a, NEW b, NEW l, NEW k \in Nat, NEW m \in Nat, NEW n \in Nat,
         k <= m, m <= n, Answers(a, l, k, m), Answers(b, l, m, n)
  PROVE  Answers(a \o b, l, k, n)
  <1> DEFINE o == a \o b
             x == Len(a)
             y == Len(b)
  <1>1. /\ IsSeq(o) /\ x \in Nat /\ y \in Nat /\ Len(o) = x + y
        /\ \A i \in 1..x : o[i] = a[i]
        /\ \A i \in 1..y : o[x + i] = b[i]
    BY ConcatIs DEF Answers
  <1> HIDE DEF o, x, y
  <1>2. \A j \in 1..(x + y) : j \in 1..x \/ \E i \in 1..y : j = x + i
    <2> SUFFICES ASSUME NEW j \in 1..(x + y), j \notin 1..x PROVE \E i \in 1..y : j = x + i
      OBVIOUS
    <2>1. j - x \in 1..y /\ j = x + (j - x)
      BY <1>1
    <2> QED BY <2>1
  <1>3. \A j \in 1..(x + y) :
          \/ j \in 1..x /\ o[j] = a[j]
          \/ \E i \in 1..y : j = x + i /\ o[j] = b[i]
    BY <1>1, <1>2
  <1>4. /\ \A j \in 1..x : a[j].opaque \in (k + 1)..m
        /\ \A j \in 1..y : b[j].opaque \in (m + 1)..n
    BY DEF Answers, x, y
  <1>5. (k + 1)..m \subseteq (k + 1)..n /\ (m + 1)..n \subseteq (k + 1)..n
    OBVIOUS
  <1>6. ASSUME NEW j \in 1..Len(o)
        PROVE  /\ o[j].opaque \in (k + 1)..n
               /\ l[o[j].opaque].op \in {"GetQ", "GetEQ"} => o[j].status # "KeyNotFound"
    <2>1. CASE j \in 1..x /\ o[j] = a[j]
      BY <1>4, <1>5, <2>1 DEF Answers, x
    <2>2. CASE \E i \in 1..y : j = x + i /\ o[j] = b[i]
      BY <1>4, <1>5, <2>2 DEF Answers, y
    <2> QED BY <1>1, <1>3, <2>1, <2>2
  <1>7. ASSUME NEW j \in 1..Len(o), NEW j2 \in 1..Len(o), j < j2
        PROVE  o[j].opaque < o[j2].opaque
    <2>1. CASE j2 \in 1..x
      <3>1. j \in 1..x
        BY <1>1, <1>7, <2>1
      <3> QED BY <1>1, <1>7, <2>1, <3>1 DEF Answers, x
    <2>2. CASE j \in 1..x /\ j2 \notin 1..x
      <3>1. PICK i \in 1..y : o[j2] = b[i]
        BY <1>1, <1>3, <2>2
      <3>2. o[j].opaque \in (k + 1)..m /\ o[j2].opaque \in (m + 1)..n
        BY <1>1, <1>4, <2>2, <3>1
      <3> QED BY <3>2
    <2>3. CASE j \notin 1..x /\ j2 \notin 1..x
      <3>1. PICK i \in 1..y, i2 \in 1..y : j = x + i /\ j2 = x + i2 /\ o[j] = b[i] /\ o[j2] = b[i2]
        BY <1>1, <1>3, <2>3
      <3>2. i < i2
        BY <1>1, <1>7, <3>1
      <3> QED BY <3>1, <3>2 DEF Answers, y
    <2> QED BY <2>1, <2>2, <2>3
  <1>8. ASSUME NEW i \in (k + 1)..n, l[i].op \notin Bin!Quiet
        PROVE  \E j \in 1..Len(o) : o[j].opaque = i
    <2>1. CASE i <= m
      <3>1. i \in (k + 1)..m
        BY <2>1
      <3>2. PICK j \in 1..x : a[j].opaque = i
        BY <1>8, <3>1 DEF Answers, x
      <3>3. j \in 1..(x + y)
        BY <1>1
      <3> QED BY <1>1, <3>2, <3>3
    <2>2. CASE ~(i <= m)
      <3>1. i \in (m + 1)..n
        BY <2>2
      <3>2. PICK j \in 1..y : b[j].opaque = i
        BY <1>8, <3>1 DEF Answers, y
      <3>3. x + j \in 1..(x + y)
        BY <1>1
      <3> QED BY <1>1, <3>2, <3>3
    <2> QED BY <2>1, <2>2
  <1>9. Answers(o, l, k, n)
    BY <1>1, <1>6, <1>7, <1>8 DEF Answers
  <1> QED BY <1>9 DEF o

\* Nothing is due for nothing.
LEMMA AnswersNone ==
  ASSUME NEW l, NEW m \in Nat
  PROVE  Answers(<<>>, l, m, m)
  <1>1. IsSeq(<<>>) /\ Len(<<>>) = 0 /\ 1..0 = {} /\ (m + 1)..m = {}
    BY DEF IsSeq
  <1> QED BY <1>1 DEF Answers

\* A quiet frame needs no reply.
LEMMA AnswersQuiet ==
  ASSUME NEW l, NEW m \in Nat, l[m + 1].op \in Bin!Quiet
  PROVE  Answers(<<>>, l, m, m + 1)
  <1>1. IsSeq(<<>>) /\ Len(<<>>) = 0 /\ 1..0 = {} /\ (m + 1)..(m + 1) = {m + 1}
    BY DEF IsSeq
  <1> QED BY <1>1 DEF Answers

\* One reply with the opaque of the frame.
LEMMA AnswersOne ==
  ASSUME NEW l, NEW m \in Nat, NEW op, NEW status,
         l[m + 1].op \in {"GetQ", "GetEQ"} => status # "KeyNotFound"
  PROVE  Answers(Bin!Reply(op, status, m + 1), l, m, m + 1)
  <1> DEFINE x == [op |-> op, status |-> status, opaque |-> m + 1]
             o == <<x>>
  <1>1. x.opaque = m + 1 /\ x.status = status
    OBVIOUS
  <1> HIDE DEF x
  <1>2. o \in Seq({x}) /\ Len(o) = 1 /\ 1..1 = {1} /\ o[1] = x /\ (m + 1)..(m + 1) = {m + 1}
    OBVIOUS
  <1> HIDE DEF o
  <1>3. Answers(o, l, m, m + 1)
    <2>1. IsSeq(o)
      BY <1>2 DEF IsSeq
    <2> QED BY <1>1, <1>2, <2>1 DEF Answers
  <1> QED BY <1>3 DEF Bin!Reply, o, x

\* More on the wire changes neither what is answered nor what is due.
LEMMA AnswersLater ==
  ASSUME NEW T, NEW l \in Seq(T), NEW f, NEW o, NEW m \in Nat, NEW n \in Nat,
         n <= Len(l), Answers(o, l, m, n)
  PROVE  Answers(o, Append(l, f), m, n)
  <1> DEFINE l1 == Append(l, f)
  <1>1. \A i \in 1..Len(l) : l1[i] = l[i]
    OBVIOUS
  <1>2. \A i \in (m + 1)..n : i \in 1..Len(l)
    OBVIOUS
  <1> HIDE DEF l1
  <1>3. Answers(o, l1, m, n)
    BY <1>1, <1>2 DEF Answers
  <1> QED BY <1>3 DEF l1

\* FlattenSeq, one sequence at a time.
IsFlatten(g, seqs, n) ==
  /\ g = [i \in 1..n |-> IF i = 1 THEN seqs[i] ELSE g[i - 1] \o seqs[i]]
  /\ \A i \in 1..n : IsSeq(g[i])

LEMMA FlattenExists ==
  ASSUME NEW seqs, NEW k \in Nat, \A i \in 1..k : IsSeq(seqs[i])
  PROVE  \E g : IsFlatten(g, seqs, k)
  <1> DEFINE I == {n \in 0..k : ~ \E g : IsFlatten(g, seqs, n)}
  <1>1. ASSUME I # {} PROVE FALSE
    <2>1. I \in SUBSET Nat
      OBVIOUS
    <2>2. PICK n \in I : \A y \in I : n <= y
      <3> HIDE DEF I
      <3> QED BY <1>1, <2>1, MinOfNats
    <2>3. n \in 0..k /\ ~ \E g : IsFlatten(g, seqs, n)
      BY <2>2
    <2>4. CASE n = 0
      <3> DEFINE g == [i \in 1..0 |-> seqs]
      <3>1. 1..0 = {}
        OBVIOUS
      <3>2. IsFlatten(g, seqs, 0)
        BY <3>1 DEF IsFlatten
      <3> QED BY <2>3, <2>4, <3>2
    <2>5. CASE n # 0
      <3>1. n - 1 \in 0..k /\ n - 1 \notin I /\ n \in 1..k
        <4>1. n - 1 \in Nat /\ ~(n <= n - 1) /\ n - 1 \in 0..k /\ n \in 1..k
          BY <2>3, <2>5
        <4> QED BY <2>2, <4>1
      <3>2. PICK g : IsFlatten(g, seqs, n - 1)
        BY <3>1
      <3> DEFINE new == IF n = 1 THEN seqs[1] ELSE g[n - 1] \o seqs[n]
                 h == [i \in 1..n |-> IF i = n THEN new ELSE g[i]]
      <3>3. IsSeq(new)
        <4>1. CASE n = 1
          BY <3>1, <4>1
        <4>2. CASE n # 1
          <5>1. n - 1 \in 1..(n - 1)
            BY <3>1, <4>2
          <5>2. IsSeq(g[n - 1]) /\ IsSeq(seqs[n])
            BY <3>1, <3>2, <5>1 DEF IsFlatten
          <5> QED BY <4>2, <5>2, ConcatIs
        <4> QED BY <4>1, <4>2
      <3>4. \A i \in 1..(n - 1) : g[i] = IF i = 1 THEN seqs[i] ELSE g[i - 1] \o seqs[i]
        BY <3>2 DEF IsFlatten
      <3>5. \A i \in 1..n : h[i] = IF i = n THEN new ELSE g[i]
        OBVIOUS
      <3>6. ASSUME NEW i \in 1..n
            PROVE  h[i] = IF i = 1 THEN seqs[i] ELSE h[i - 1] \o seqs[i]
        <4>1. CASE i = 1
          <5>1. n # 1 => 1 \in 1..(n - 1)
            BY <3>1
          <5>2. h[1] = seqs[1]
            BY <3>4, <3>5, <4>1, <5>1
          <5> QED BY <4>1, <5>2
        <4>2. CASE i # 1
          <5>1. i - 1 \in 1..n /\ i - 1 # n /\ n # 1
            BY <3>1, <4>2
          <5>2. h[i - 1] = g[i - 1]
            BY <3>5, <5>1
          <5>3. CASE i = n
            BY <3>5, <4>2, <5>1, <5>2, <5>3
          <5>4. CASE i # n
            <6>1. i \in 1..(n - 1)
              BY <3>1, <5>4
            <6> QED BY <3>4, <3>5, <4>2, <5>2, <5>4, <6>1
          <5> QED BY <5>3, <5>4
        <4> QED BY <4>1, <4>2
      <3>7. \A i \in 1..n : IsSeq(h[i])
        <4>1. ASSUME NEW i \in 1..n, i # n PROVE IsSeq(g[i])
          <5>1. i \in 1..(n - 1)
            BY <3>1, <4>1
          <5> QED BY <3>2, <5>1 DEF IsFlatten
        <4> QED BY <3>3, <3>5, <4>1
      <3>8. h = [i \in 1..n |-> h[i]]
        OBVIOUS
      <3> HIDE DEF h, new
      <3>9. h = [i \in 1..n |-> IF i = 1 THEN seqs[i] ELSE h[i - 1] \o seqs[i]]
        BY <3>6, <3>8
      <3>10. IsFlatten(h, seqs, n)
        BY <3>7, <3>9 DEF IsFlatten
      <3> QED BY <2>3, <3>10
    <2> QED BY <2>4, <2>5
  <1>2. k \in 0..k
    OBVIOUS
  <1> QED BY <1>1, <1>2

Flattens(g, seqs, k) ==
  \A i \in 1..k : g[i] = IF i = 1 THEN seqs[i] ELSE g[i - 1] \o seqs[i]

LEMMA FlattenIs ==
  ASSUME NEW k \in Nat, k # 0, NEW seqs, Len(seqs) = k, \A i \in 1..k : IsSeq(seqs[i])
  PROVE  \E g : FlattenSeq(seqs) = g[k] /\ Flattens(g, seqs, k)
  <1> DEFINE flatten == CHOOSE g : g = [i \in 1..k |-> IF i = 1 THEN seqs[i]
                                                       ELSE g[i - 1] \o seqs[i]]
  <1>1. FlattenSeq(seqs) = flatten[k]
    BY DEF FlattenSeq
  <1>2. flatten = [i \in 1..k |-> IF i = 1 THEN seqs[i] ELSE flatten[i - 1] \o seqs[i]]
    <2>1. \E g : g = [i \in 1..k |-> IF i = 1 THEN seqs[i] ELSE g[i - 1] \o seqs[i]]
      <3>1. PICK g : IsFlatten(g, seqs, k)
        BY FlattenExists
      <3>2. g = [i \in 1..k |-> IF i = 1 THEN seqs[i] ELSE g[i - 1] \o seqs[i]]
        BY <3>1 DEF IsFlatten
      <3> QED BY <3>2
    <2> QED BY <2>1
  <1> HIDE DEF flatten
  <1>3. Flattens(flatten, seqs, k)
    BY <1>2 DEF Flattens
  <1> QED BY <1>1, <1>3

\* A get's values: the answers to each key, one after the other, answer all.
LEMMA AnswersFlatten ==
  ASSUME NEW l, NEW m \in Nat, NEW k \in Nat, k # 0, NEW seqs, Len(seqs) = k,
         \A i \in 1..k : Answers(seqs[i], l, m + i - 1, m + i)
  PROVE  Answers(FlattenSeq(seqs), l, m, m + k)
  <1>2. \A i \in 1..k : IsSeq(seqs[i])
    BY DEF Answers
  <1>3. PICK flatten : FlattenSeq(seqs) = flatten[k] /\ Flattens(flatten, seqs, k)
    BY <1>2, FlattenIs
  <1>4. \A i \in 1..k : flatten[i] = IF i = 1 THEN seqs[i] ELSE flatten[i - 1] \o seqs[i]
    BY <1>3 DEF Flattens
  <1> DEFINE I == {i \in 1..k : ~Answers(flatten[i], l, m, m + i)}
  <1>5. ASSUME I # {} PROVE FALSE
    <2>1. I \in SUBSET Nat
      OBVIOUS
    <2>2. PICK n \in I : \A y \in I : n <= y
      <3> HIDE DEF I
      <3> QED BY <1>5, <2>1, MinOfNats
    <2>3. n \in 1..k /\ ~Answers(flatten[n], l, m, m + n)
      BY <2>2
    <2>4. CASE n = 1
      <3>1. flatten[n] = seqs[n] /\ m + n - 1 = m
        BY <1>4, <2>3, <2>4
      <3>2. Answers(seqs[n], l, m + n - 1, m + n)
        BY <2>3
      <3> QED BY <2>3, <3>1, <3>2
    <2>5. CASE n # 1
      <3>1. n - 1 \in 1..k /\ n - 1 \notin I
        <4>1. n - 1 \in 1..k /\ ~(n <= n - 1)
          BY <2>3, <2>5
        <4> QED BY <2>2, <4>1
      <3>2. Answers(flatten[n - 1], l, m, m + (n - 1))
        BY <3>1
      <3>3. /\ m + (n - 1) \in Nat /\ m + n \in Nat /\ m <= m + (n - 1)
            /\ m + (n - 1) <= m + n /\ m + n - 1 = m + (n - 1)
        BY <2>3, <3>1
      <3>4. Answers(seqs[n], l, m + (n - 1), m + n)
        BY <2>3, <3>3
      <3>5. Answers(flatten[n - 1] \o seqs[n], l, m, m + n)
        BY <3>2, <3>3, <3>4, AnswersJoin
      <3> QED BY <1>4, <2>3, <2>5, <3>5
    <2> QED BY <2>4, <2>5
  <1>6. k \in 1..k
    OBVIOUS
  <1>7. Answers(flatten[k], l, m, m + k)
    BY <1>5, <1>6
  <1> QED BY <1>3, <1>7

\* What is written for one key of a get answers its frame.
LEMMA ValueAnswers ==
  ASSUME NEW c \in Conns, proto[c] = "binary", NEW r, NEW l, NEW m \in Nat, NEW n \in Nat,
         n <= Len(l), Counted(l), Len(l) \in Nat, Covers(r, l, m, n), NEW i \in 1..Len(r.keys)
  PROVE  Answers(ValueReply(c, r, i), l, m + i - 1, m + i)
  <1> DEFINE hit == got[c][i].item # None
             k == Len(r.keys)
  <1>1. /\ k \in Nat /\ k # 0 /\ m + k <= n
        /\ r.opaques[i] = l[m + i].opaque
        /\ r.quiet[i] => l[m + i].op \in Bin!Quiet
        /\ l[m + i].op \in {"GetQ", "GetEQ"} => r.quiet[i]
    BY DEF Covers
  <1>2. m + i \in 1..Len(l) /\ m + i - 1 \in Nat /\ (m + i - 1) + 1 = m + i
    BY <1>1
  <1>3. r.opaques[i] = m + i
    BY <1>1, <1>2 DEF Counted
  <1>4. ValueReply(c, r, i) =
          IF hit THEN Bin!Reply(r.op, "nil", m + i)
          ELSE IF r.quiet[i] THEN <<>> ELSE Bin!Reply(r.op, "KeyNotFound", m + i)
    BY <1>3 DEF ValueReply, Bin!Value, Bin!Error
  <1> HIDE DEF hit
  <1> DEFINE b == m + i - 1
  <1>5. b \in Nat /\ b + 1 = m + i
    BY <1>2
  <1> HIDE DEF b
  <1>6. CASE hit
    <2>1. Answers(Bin!Reply(r.op, "nil", b + 1), l, b, b + 1)
      BY <1>5, AnswersOne
    <2> QED BY <1>4, <1>5, <1>6, <2>1 DEF b
  <1>7. CASE ~hit /\ r.quiet[i]
    <2>1. Answers(<<>>, l, b, b + 1)
      BY <1>1, <1>5, <1>7, AnswersQuiet
    <2> QED BY <1>4, <1>5, <1>7, <2>1 DEF b
  <1>8. CASE ~hit /\ ~r.quiet[i]
    <2>1. Answers(Bin!Reply(r.op, "KeyNotFound", b + 1), l, b, b + 1)
      BY <1>1, <1>5, <1>8, AnswersOne
    <2> QED BY <1>4, <1>5, <1>8, <2>1 DEF b
  <1> QED BY <1>6, <1>7, <1>8

\* The success or the error of any other request answers its frame.
LEMMA SingleAnswers ==
  ASSUME NEW c \in Conns, proto[c] = "binary", NEW r, NEW l, NEW m \in Nat, NEW n \in Nat,
         n <= Len(l), Counted(l), Len(l) \in Nat, Covers(r, l, m, n), r.op \notin ReadMethods
  PROVE  /\ Answers(Success(c, r), l, m, n)
         /\ \A err : Answers(ErrorReply(c, r, err), l, m, n)
  <1>1. /\ n = m + 1 /\ r.opaques[1] = l[m + 1].opaque
        /\ r.quiet[1] => l[m + 1].op \in Bin!Quiet
        /\ l[m + 1].op \notin {"GetQ", "GetEQ"}
    <2>1. Len(r.keys) = 1 /\ ~r.noopEnd
      BY DEF Covers
    <2>2. n = m + 1
      BY <2>1 DEF Covers
    <2>3. 1 \in 1..Len(r.keys)
      BY <2>1
    <2> QED BY <2>2, <2>3 DEF Covers
  <1>2. m + 1 \in 1..Len(l)
    BY <1>1
  <1>3. r.opaques[1] = m + 1
    BY <1>1, <1>2 DEF Counted
  <1>4. Success(c, r) = IF r.quiet[1] THEN <<>> ELSE Bin!Reply(r.op, "nil", m + 1)
    BY <1>3 DEF Success, Bin!Success
  <1>5. \A err : ErrorReply(c, r, err) = Bin!Reply(r.op, err, m + 1)
    BY <1>3 DEF ErrorReply, Bin!Error
  <1>6. \A err : Answers(Bin!Reply(r.op, err, m + 1), l, m, m + 1)
    BY <1>1, AnswersOne
  <1>7. r.quiet[1] => Answers(<<>>, l, m, m + 1)
    BY <1>1, AnswersQuiet
  <1> QED BY <1>1, <1>4, <1>5, <1>6, <1>7

\* What is written when the handler returns answers the frames of the request.
LEMMA RepliesAnswer ==
  ASSUME NEW c \in Conns, proto[c] = "binary", NEW r, NEW l, NEW m \in Nat, NEW n \in Nat,
         n <= Len(l), Counted(l), Len(l) \in Nat, Covers(r, l, m, n)
  PROVE  Answers(Replies(c, r), l, m, n)
  <1>1. CASE r.op \in ReadMethods
    <2> DEFINE k == Len(r.keys)
               values == [i \in DOMAIN r.keys |-> ValueReply(c, r, i)]
    <2>1. k \in Nat /\ k # 0 /\ DOMAIN r.keys = 1..k
      BY DEF Covers
    <2>2. DOMAIN values = 1..k /\ Len(values) = k
          /\ \A i \in 1..k : values[i] = ValueReply(c, r, i)
      <3> DEFINE T == {ValueReply(c, r, i) : i \in 1..k}
      <3>1. values \in [1..k -> T]
        BY <2>1
      <3>2. values \in Seq(T) /\ Len(values) = k
        <4> HIDE DEF T, values
        <4> QED BY <2>1, <3>1
      <3> QED BY <2>1, <3>2
    <2>3. Replies(c, r) = FlattenSeq(values) \o EndReply(c, r)
      <3>1. r.op # "Gat"
        BY <1>1 DEF ReadMethods
      <3> QED BY <1>1, <3>1, Zenon DEF Replies
    <2>4. \A i \in 1..k : Answers(values[i], l, m + i - 1, m + i)
      BY <2>2, ValueAnswers
    <2> HIDE DEF values
    <2>5. Answers(FlattenSeq(values), l, m, m + k)
      BY <2>1, <2>2, <2>4, AnswersFlatten
    <2>6. Answers(EndReply(c, r), l, m + k, n) /\ m + k <= n /\ m + k \in Nat
      <3>1. CASE r.noopEnd
        <4>1. n = (m + k) + 1 /\ r.noopOpaque = l[n].opaque /\ l[n].op = "Noop" /\ m + k \in Nat
          BY <2>1, <3>1 DEF Covers
        <4>2. r.noopOpaque = n
          BY <4>1 DEF Counted
        <4>3. EndReply(c, r) = Bin!Reply("Noop", "nil", (m + k) + 1)
          BY <3>1, <4>1, <4>2 DEF EndReply, Bin!GetEnd
        <4>4. Answers(EndReply(c, r), l, m + k, (m + k) + 1)
          <5> HIDE DEF k
          <5> QED BY <4>1, <4>3, AnswersOne
        <4> QED BY <4>1, <4>4
      <3>2. CASE ~r.noopEnd
        <4>1. n = m + k /\ m + k \in Nat
          BY <2>1, <3>2 DEF Covers
        <4>2. EndReply(c, r) = <<>>
          BY <3>2 DEF EndReply, Bin!GetEnd
        <4> QED BY <4>1, <4>2, AnswersNone
      <3> QED BY <3>1, <3>2
    <2>7. m <= m + k
      BY <2>1
    <2> HIDE DEF k
    <2>8. Answers(FlattenSeq(values) \o EndReply(c, r), l, m, n)
      BY <2>5, <2>6, <2>7, AnswersJoin
    <2> QED BY <2>3, <2>8
  <1>2. CASE r.op \notin ReadMethods
    <2>1. n = m + 1 /\ Len(r.keys) = 1
      BY <1>2 DEF Covers
    <2>2. CASE r.op = "Gat"
      <3>1. Replies(c, r) = ValueReply(c, r, 1)
        BY <1>2, <2>2 DEF Replies
      <3>2. 1 \in 1..Len(r.keys) /\ m + 1 - 1 = m
        BY <2>1
      <3>3. Answers(ValueReply(c, r, 1), l, m + 1 - 1, m + 1)
        BY <3>2, ValueAnswers
      <3> QED BY <2>1, <3>1, <3>2, <3>3
    <2>3. CASE r.op # "Gat"
      <3>1. Replies(c, r) = Success(c, r) \/ \E err : Replies(c, r) = ErrorReply(c, r, err)
        BY <1>2, <2>3 DEF Replies
      <3> QED BY <1>2, <3>1, SingleAnswers
    <2> QED BY <2>2, <2>3
  <1> QED BY <1>1, <1>2

\* What BinaryParser.Parse makes of frames is a request for the ones it takes,
\* unless one follows a quiet get that may not.
Makes(p, s) ==
  \/ \E n \in 2..Len(s) : StrayAt(s, n - 1) /\ s[1].op # "junk"
  \/ /\ p.req.op \in Methods \cup {"Noop", "Version", "Quit"}
     /\ \E n \in 1..Len(s) : Len(p.rest) = Len(s) - n /\ Covers(p.req, s, 0, n)

LEMMA SingleMakes ==
  ASSUME NEW s \in Seq(Frames), s # <<>>,
         NEW op \in Methods \cup {"Noop", "Version", "Quit"}, NEW quiet \in BOOLEAN,
         quiet => s[1].op \in Bin!Quiet, s[1].op \notin {"GetQ", "GetEQ"}
  PROVE  Makes(Bin!Single(s[1], op, quiet, Tail(s)), s)
  <1> DEFINE p == Bin!Single(s[1], op, quiet, Tail(s))
             fs == <<s[1]>>
             keys == [i \in DOMAIN fs |-> fs[i].key]
             opaques == [i \in DOMAIN fs |-> fs[i].opaque]
  <1>1. /\ p.req.op = op /\ p.req.keys = keys /\ p.req.opaques = opaques
        /\ p.req.quiet = <<quiet>> /\ p.req.noopEnd = FALSE /\ p.rest = Tail(s)
    BY DEF Bin!Single, Bin!Parsed, Bin!Request
  <1>2. DOMAIN fs = 1..1 /\ fs[1] = s[1] /\ 1 \in 1..1
    OBVIOUS
  <1> HIDE DEF fs
  <1>3. DOMAIN keys = 1..1 /\ opaques[1] = s[1].opaque
    BY <1>2
  <1>4. keys \in Seq({s[1].key}) /\ Len(keys) = 1
    <2>1. keys \in [1..1 -> {s[1].key}]
      BY <1>2
    <2> HIDE DEF keys
    <2>2. 1 \in Nat
      OBVIOUS
    <2> QED BY <2>1, <2>2, FunctionIsSeq
  <1>5. <<quiet>>[1] = quiet
    OBVIOUS
  <1> HIDE DEF p, keys, opaques
  <1>6. 0 + 1 = 1 /\ 1..1 = {1} /\ 1 \in Nat /\ 1 # 0
    OBVIOUS
  <1>7. Covers(p.req, s, 0, 1)
    <2>1. p.req.quiet[1] = quiet
      BY <1>1, <1>5
    <2>2. /\ Len(p.req.keys) = 1 /\ DOMAIN p.req.keys = 1..1
          /\ p.req.opaques[1] = s[1].opaque
      BY <1>1, <1>3, <1>4
    <2> QED BY <1>1, <1>6, <2>1, <2>2 DEF Covers
  <1>8. 1 \in 1..Len(s) /\ Len(p.rest) = Len(s) - 1
    BY <1>1
  <1>9. Makes(p, s)
    BY <1>1, <1>7, <1>8 DEF Makes
  <1> QED BY <1>9 DEF p

LEMMA BatchMakes ==
  ASSUME NEW s \in Seq(Frames), s # <<>>,
         NEW q, NEW op, <<q, op>> \in {<<"GetQ", "Get">>, <<"GetEQ", "GetE">>},
         s[1].op = q, Bin!readBatchGet(s, q, op).err = "nil"
  PROVE  Makes(Bin!readBatchGet(s, q, op), s)
  <1> DEFINE n == FirstOther(s, q)
             last == s[n]
             keyed == IF last.op = op THEN SubSeq(s, 1, n) ELSE SubSeq(s, 1, n - 1)
             quiet == [i \in DOMAIN keyed |-> i < n]
             req == Bin!Request(op, keyed, quiet)
             rest == SubSeq(s, n + 1, Len(s))
             withNoop == [req EXCEPT !.noopEnd = TRUE, !.noopOpaque = last.opaque]
             junked == <<Bin!Junk>> \o rest
             parse == Bin!readBatchGet(s, q, op)
             w == IF last.op = op THEN n ELSE n - 1
  <1>0. /\ q \in {"GetQ", "GetEQ"} /\ op \in {"Get", "GetE"} /\ (q = "GetQ" <=> op = "Get")
        /\ op \in ReadMethods /\ op \in Methods
    BY DEF ReadMethods, Methods
  <1>1. n # 0
    <2>1. ASSUME n = 0 PROVE FALSE
      <3>1. parse = Bin!Blocked
        BY <2>1, ReadBatchGetIs
      <3>2. parse.err = "blocked"
        BY <3>1 DEF Bin!Blocked
      <3> QED BY <3>2
    <2> QED BY <2>1
  <1>2. /\ Len(s) \in Nat /\ n \in 1..Len(s) /\ s[n].op # q
        /\ \A i \in 1..(n - 1) : s[i].op = q
    <2>1. n \in 0..Len(s) /\ s[n].op # q /\ \A i \in 1..(n - 1) : s[i].op = q
      BY <1>1, FirstOtherIs
    <2> QED BY <1>1, <2>1
  <1>3. n \in 2..Len(s) /\ s[n - 1].op = q
    BY <1>2
  <1> HIDE DEF n
  <1>4. parse =
             CASE last.op = op     -> Bin!Parsed(req, rest)
               [] last.op = "Noop" -> Bin!Parsed(withNoop, rest)
               [] last.op \in Bin!Bare \ {"Noop"} -> Bin!Parsed(req, rest)
               [] OTHER            -> Bin!Parsed(req, junked)
    BY <1>1, ReadBatchGetIs, Zenon DEF n
  <1>5. CASE last.op \notin {op, "Noop"}
    <2>1. StrayAt(s, n - 1)
      BY <1>0, <1>2, <1>3, <1>5 DEF StrayAt
    <2>2. s[1].op # "junk"
      BY <1>0
    <2> QED BY <1>3, <2>1, <2>2 DEF Makes
  <1>6. CASE last.op \in {op, "Noop"}
    <2>1. w \in 1..Len(s) /\ w \in Nat /\ w # 0 /\ w <= n /\ n - 1 <= w
      BY <1>2, <1>3
    <2>2. /\ keyed \in Seq(Frames) /\ Len(keyed) = w /\ DOMAIN keyed = 1..w
          /\ \A i \in 1..w : keyed[i] = s[i]
      <3>1. \A m \in 1..Len(s) : /\ SubSeq(s, 1, m) \in Seq(Frames) /\ Len(SubSeq(s, 1, m)) = m
                                 /\ DOMAIN SubSeq(s, 1, m) = 1..m
                                 /\ \A i \in 1..m : SubSeq(s, 1, m)[i] = s[i]
        BY <1>2
      <3>2. keyed = SubSeq(s, 1, w)
        OBVIOUS
      <3> HIDE DEF keyed, w
      <3> QED BY <2>1, <3>1, <3>2
    <2> HIDE DEF keyed
    <2> DEFINE keys == [i \in DOMAIN keyed |-> keyed[i].key]
               opaques == [i \in DOMAIN keyed |-> keyed[i].opaque]
    <2>3. /\ DOMAIN keys = 1..w /\ Len(keys) = w
          /\ \A i \in 1..w : opaques[i] = s[i].opaque /\ (quiet[i] <=> i < n)
      <3>1. keys \in [1..w -> {keyed[i].key : i \in 1..w}]
        BY <2>2
      <3>2. Len(keys) = w
        <4> HIDE DEF keys, w
        <4> QED BY <2>1, <3>1
      <3> HIDE DEF w
      <3> QED BY <2>2, <3>1, <3>2
    <2>4. /\ req.op = op /\ req.keys = keys /\ req.opaques = opaques /\ req.quiet = quiet
          /\ req.noopEnd = FALSE
          /\ withNoop.op = op /\ withNoop.keys = keys /\ withNoop.opaques = opaques
          /\ withNoop.quiet = quiet /\ withNoop.noopEnd = TRUE
          /\ withNoop.noopOpaque = last.opaque
      BY DEF Bin!Request
    <2>5. rest \in Seq(Frames) /\ Len(rest) = Len(s) - n
      <3>1. n + 1 \in 1..(Len(s) + 1)
        BY <1>3
      <3> QED BY <1>2, <3>1, SubSeqIsEnd
    <2> HIDE DEF parse, withNoop, req, rest, keys, opaques, quiet, last
    <2>6. \A i \in 1..w : 0 + i = i /\ (i < n => s[i].op = q) /\ (~(i < n) => i = n)
      BY <1>2, <2>1
    <2>7. q \in Bin!Quiet
      BY <1>0 DEF Bin!Quiet
    <2>8. CASE last.op = op
      <3>1. parse = Bin!Parsed(req, rest) /\ w = n
        BY <1>4, <2>8
      <3>2. parse.req = req /\ parse.rest = rest
        BY <3>1 DEF Bin!Parsed
      <3>3. ASSUME NEW i \in 1..w
            PROVE  /\ req.opaques[i] = s[0 + i].opaque
                   /\ req.quiet[i] => s[0 + i].op \in Bin!Quiet
                   /\ s[0 + i].op \in {"GetQ", "GetEQ"} => req.quiet[i] /\ req.op \in ReadMethods
        <4>1. CASE i < n
          BY <1>0, <2>3, <2>4, <2>6, <2>7, <4>1
        <4>2. CASE ~(i < n)
          <5>1. s[0 + i].op = op /\ ~req.quiet[i]
            BY <2>3, <2>4, <2>6, <2>8, <4>2 DEF last
          <5> QED BY <1>0, <2>3, <2>4, <2>6, <5>1
        <4> QED BY <4>1, <4>2
      <3>4. n = 0 + w
        BY <1>2, <3>1
      <3>5. Covers(req, s, 0, n)
        <4>1. Len(req.keys) = w /\ DOMAIN req.keys = 1..w
          BY <2>3, <2>4
        <4> HIDE DEF w
        <4> QED BY <1>0, <2>1, <2>4, <3>3, <3>4, <4>1 DEF Covers
      <3> QED BY <1>0, <1>2, <2>4, <2>5, <3>2, <3>5 DEF Makes, parse
    <2>9. CASE last.op = "Noop"
      <3>0. last.op # op
        BY <1>0, <2>9
      <3>1. parse = Bin!Parsed(withNoop, rest) /\ w = n - 1
        BY <1>4, <2>9, <3>0
      <3>2. parse.req = withNoop /\ parse.rest = rest
        BY <3>1 DEF Bin!Parsed
      <3>3. ASSUME NEW i \in 1..w
            PROVE  /\ withNoop.opaques[i] = s[0 + i].opaque
                   /\ withNoop.quiet[i] => s[0 + i].op \in Bin!Quiet
                   /\ s[0 + i].op \in {"GetQ", "GetEQ"} =>
                        withNoop.quiet[i] /\ withNoop.op \in ReadMethods
        <4>1. i < n
          BY <1>2, <3>1
        <4> QED BY <1>0, <2>3, <2>4, <2>6, <2>7, <4>1
      <3>4. n = 0 + w + 1
        BY <1>2, <3>1
      <3>5. Covers(withNoop, s, 0, n)
        <4>1. Len(withNoop.keys) = w /\ DOMAIN withNoop.keys = 1..w
          BY <2>3, <2>4
        <4>2. withNoop.noopOpaque = s[n].opaque /\ s[n].op = "Noop"
          BY <2>4, <2>9 DEF last
        <4> HIDE DEF w
        <4> QED BY <1>0, <2>1, <2>4, <3>3, <3>4, <4>1, <4>2 DEF Covers
      <3> QED BY <1>0, <1>2, <2>4, <2>5, <3>2, <3>5 DEF Makes, parse
    <2> QED BY <1>6, <2>8, <2>9 DEF last
  <1> QED BY <1>5, <1>6

LEMMA BinMakes ==
  ASSUME NEW s \in Seq(Frames), Bin!Parse(s).err = "nil"
  PROVE  s # <<>> /\ Makes(Bin!Parse(s), s)
  <1>1. s # <<>>
    <2>1. ASSUME s = <<>> PROVE FALSE
      <3>1. Bin!Parse(s).err = "blocked"
        BY <2>1 DEF Bin!Parse, Bin!Blocked
      <3> QED BY <3>1
    <2> QED BY <2>1
  <1> DEFINE f == s[1]
  <1>2. f \in Frames /\ f.op \in Bin!Opcodes \cup {"junk"}
    BY <1>1 DEF Frames
  <1>3. f.op \notin {"junk", "DeleteQ"}
    <2>1. ASSUME f.op \in {"junk", "DeleteQ"} PROVE FALSE
      <3>1. \/ Bin!Parse(s) = Bin!Blocked
            \/ Bin!Parse(s) = Bin!ParseError(IF f.op = "junk" THEN "BadMagic" ELSE "UnknownCmd")
        BY <1>1, <2>1 DEF Bin!Parse, Bin!QuietForm
      <3>2. Bin!Parse(s).err # "nil"
        BY <3>1 DEF Bin!ParseError, Bin!Blocked
      <3> QED BY <3>2
    <2> QED BY <2>1
  <1>4. CASE f.op = "GetQ"
    <2>1. Bin!Parse(s) = Bin!readBatchGet(s, "GetQ", "Get")
      BY <1>1, <1>4 DEF Bin!Parse, Bin!QuietForm
    <2> QED BY <1>1, <1>4, <2>1, BatchMakes
  <1>5. CASE f.op = "GetEQ"
    <2>1. Bin!Parse(s) = Bin!readBatchGet(s, "GetEQ", "GetE")
      BY <1>1, <1>5 DEF Bin!Parse, Bin!QuietForm
    <2> QED BY <1>1, <1>5, <2>1, BatchMakes
  <1>6. CASE f.op = "QuitQ"
    <2>1. Bin!Parse(s) = Bin!Single(f, "Quit", TRUE, Tail(s))
      BY <1>1, <1>6 DEF Bin!Parse, Bin!QuietForm
    <2>2. f.op \in Bin!Quiet
      BY <1>6 DEF Bin!Quiet
    <2> QED BY <1>1, <1>6, <2>1, <2>2, SingleMakes
  <1>7. CASE f.op \in DOMAIN Bin!QuietForm
    <2>0. f.op \in {"SetQ", "AddQ", "ReplaceQ", "AppendQ", "PrependQ"}
      BY <1>7 DEF Bin!QuietForm
    <2>1. Bin!Parse(s) = Bin!Single(f, Bin!QuietForm[f.op], TRUE, Tail(s))
      BY <1>1, <1>7, <2>0 DEF Bin!Parse
    <2>2. Bin!QuietForm[f.op] \in Methods
      BY <2>0 DEF Bin!QuietForm, Methods
    <2>3. f.op \in Bin!Quiet
      BY <1>7 DEF Bin!Quiet
    <2> QED BY <1>1, <2>0, <2>1, <2>2, <2>3, SingleMakes
  <1>8. CASE f.op \notin {"GetQ", "GetEQ", "QuitQ"} \cup DOMAIN Bin!QuietForm
    <2>1. Bin!Parse(s) = Bin!Single(f, f.op, FALSE, Tail(s))
      BY <1>1, <1>3, <1>8 DEF Bin!Parse
    <2>2. f.op \in Methods \cup {"Noop", "Version", "Quit"}
      <3>1. f.op \notin {"SetQ", "AddQ", "ReplaceQ", "AppendQ", "PrependQ"}
        BY <1>8 DEF Bin!QuietForm
      <3>2. DOMAIN Bin!QuietForm = {"SetQ", "AddQ", "ReplaceQ", "AppendQ", "PrependQ"}
        BY DEF Bin!QuietForm
      <3> QED BY <1>2, <1>3, <1>8, <3>1, <3>2
              DEF Bin!Opcodes, Bin!Storage, Bin!Bare, Methods, ReadMethods
    <2> QED BY <1>1, <1>8, <2>1, <2>2, SingleMakes
  <1> QED BY <1>1, <1>4, <1>5, <1>6, <1>7, <1>8

\* The frames left to parse are those at the end of the log.
LEMMA CoversShift ==
  ASSUME NEW s, NEW l, NEW d \in Nat, Len(s) \in Nat,
         \A i \in 1..Len(s) : s[i] = l[d + i],
         NEW r, NEW n \in 1..Len(s), Covers(r, s, 0, n)
  PROVE  Covers(r, l, d, d + n)
  <1> DEFINE k == Len(r.keys)
  <1>1. /\ k \in Nat /\ k # 0 /\ DOMAIN r.keys = 1..k
        /\ r.op \notin ReadMethods => k = 1 /\ ~r.noopEnd
    BY DEF Covers
  <1>2. /\ r.noopEnd => n = 0 + k + 1 /\ r.noopOpaque = s[n].opaque /\ s[n].op = "Noop"
        /\ ~r.noopEnd => n = 0 + k
    BY DEF Covers
  <1>3. \A i \in 1..k : i \in 1..Len(s) /\ 0 + i = i
    BY <1>1, <1>2
  <1>4. \A i \in 1..k : s[0 + i] = l[d + i]
    BY <1>3
  <1>5. \A i \in 1..k :
          /\ r.opaques[i] = s[0 + i].opaque
          /\ r.quiet[i] => s[0 + i].op \in Bin!Quiet
          /\ s[0 + i].op \in {"GetQ", "GetEQ"} => r.quiet[i] /\ r.op \in ReadMethods
    BY DEF Covers
  <1>6. \A i \in 1..k :
          /\ r.opaques[i] = l[d + i].opaque
          /\ r.quiet[i] => l[d + i].op \in Bin!Quiet
          /\ l[d + i].op \in {"GetQ", "GetEQ"} => r.quiet[i] /\ r.op \in ReadMethods
    BY <1>4, <1>5
  <1>7. s[n] = l[d + n]
    OBVIOUS
  <1>8. /\ r.noopEnd => d + n = d + k + 1 /\ r.noopOpaque = l[d + n].opaque
                        /\ l[d + n].op = "Noop"
        /\ ~r.noopEnd => d + n = d + k
    <2>1. \A a \in Nat : /\ n = 0 + a + 1 => d + n = d + a + 1
                        /\ n = 0 + a => d + n = d + a
      OBVIOUS
    <2> HIDE DEF k
    <2>2. CASE r.noopEnd
      <3>1. n = 0 + k + 1 /\ r.noopOpaque = s[n].opaque /\ s[n].op = "Noop"
        BY <1>2, <2>2
      <3>2. d + n = d + k + 1
        BY <1>1, <2>1, <3>1
      <3> QED BY <1>7, <2>2, <3>1, <3>2
    <2>3. CASE ~r.noopEnd
      <3>1. d + n = d + k
        BY <1>1, <1>2, <2>1, <2>3
      <3> QED BY <2>3, <3>1
    <2> QED BY <2>2, <2>3
  <1> HIDE DEF k
  <1> QED BY <1>1, <1>6, <1>8 DEF Covers, k

LEMMA CoversLater ==
  ASSUME NEW T, NEW l \in Seq(T), NEW f, NEW r, NEW m \in Nat, NEW n \in Nat,
         n <= Len(l), Covers(r, l, m, n)
  PROVE  Covers(r, Append(l, f), m, n)
  <1> DEFINE k == Len(r.keys)
             l1 == Append(l, f)
  <1>1. \A i \in 1..Len(l) : l1[i] = l[i]
    OBVIOUS
  <1>2. k \in Nat /\ k # 0 /\ m + k <= n
    BY DEF Covers
  <1>3. \A i \in 1..k : m + i \in 1..Len(l)
    BY <1>2
  <1>4. n \in 1..Len(l)
    BY <1>2
  <1> HIDE DEF l1
  <1>5. Covers(r, l1, m, n)
    BY <1>1, <1>3, <1>4 DEF Covers
  <1> QED BY <1>5 DEF l1

\* Where the frames of the requests that are due end.
LEMMA DueEnds ==
  ASSUME NEW rs, IsSeq(rs), rs # <<>>, NEW l, NEW m \in Nat, NEW n \in Nat, Due(rs, l, m, n),
         NEW i \in 1..Len(rs)
  PROVE  /\ Covers(rs[i], l, m + i - 1, IF i = Len(rs) THEN n ELSE m + i)
         /\ m + Len(rs) <= n
  <1>1. Len(rs) \in Nat /\ Len(rs) # 0
    BY DEF IsSeq
  <1>2. Len(rs) \in 1..Len(rs)
    BY <1>1
  <1>3. Covers(rs[Len(rs)], l, m + Len(rs) - 1, n)
    BY <1>2 DEF Due
  <1> DEFINE k == Len(rs[Len(rs)].keys)
  <1>4. /\ k \in Nat /\ k # 0
        /\ n = m + Len(rs) - 1 + k + 1 \/ n = m + Len(rs) - 1 + k
    BY <1>3 DEF Covers
  <1> HIDE DEF k
  <1>5. m + Len(rs) <= n
    <2>1. \A a, b \in Nat : (b # 0 /\ (n = m + a - 1 + b + 1 \/ n = m + a - 1 + b)) => m + a <= n
      OBVIOUS
    <2> QED BY <1>1, <1>4, <2>1
  <1> QED BY <1>5 DEF Due

LEMMA DueLater ==
  ASSUME NEW T, NEW l \in Seq(T), NEW f, NEW rs, IsSeq(rs), rs # <<>>,
         NEW m \in Nat, NEW n \in Nat, n <= Len(l), Due(rs, l, m, n)
  PROVE  Due(rs, Append(l, f), m, n)
  <1>1. ASSUME NEW i \in 1..Len(rs)
        PROVE  Covers(rs[i], Append(l, f), m + i - 1, IF i = Len(rs) THEN n ELSE m + i)
    <2> DEFINE e == IF i = Len(rs) THEN n ELSE m + i
    <2>1. Covers(rs[i], l, m + i - 1, e) /\ m + Len(rs) <= n
      BY DueEnds
    <2>2. Len(rs) \in Nat /\ Len(l) \in Nat
      BY DEF IsSeq
    <2>3. e \in Nat /\ e <= Len(l) /\ m + i - 1 \in Nat
      BY <2>1, <2>2
    <2> HIDE DEF e
    <2>4. Covers(rs[i], Append(l, f), m + i - 1, e)
      BY <2>1, <2>3, CoversLater
    <2> QED BY <2>4 DEF e
  <1> QED BY <1>1 DEF Due

LEMMA DueTail ==
  ASSUME NEW T, NEW rs \in Seq(T), Len(rs) > 1, NEW l, NEW m \in Nat, NEW n \in Nat,
         Due(rs, l, m, n)
  PROVE  Due(Tail(rs), l, m + 1, n)
  <1>1. Len(rs) \in Nat /\ Len(Tail(rs)) = Len(rs) - 1
    OBVIOUS
  <1>2. ASSUME NEW i \in 1..Len(Tail(rs))
        PROVE  Covers(Tail(rs)[i], l, (m + 1) + i - 1, IF i = Len(Tail(rs)) THEN n ELSE (m + 1) + i)
    <2>1. i + 1 \in 1..Len(rs) /\ Tail(rs)[i] = rs[i + 1]
      BY <1>1
    <2>2. Covers(rs[i + 1], l, m + (i + 1) - 1, IF i + 1 = Len(rs) THEN n ELSE m + (i + 1))
      BY <2>1 DEF Due
    <2>3. /\ (i + 1 = Len(rs)) <=> (i = Len(Tail(rs)))
          /\ m + (i + 1) - 1 = (m + 1) + i - 1 /\ m + (i + 1) = (m + 1) + i
      BY <1>1, <2>1
    <2> QED BY <2>1, <2>2, <2>3
  <1> QED BY <1>2 DEF Due

\* LockedOrca.Get: the requests for each key are for its frame, and the last
\* for the noop too.
LEMMA DueRequests ==
  ASSUME NEW r \in Calls, NEW l, NEW m \in Nat, NEW n \in Nat, Covers(r, l, m, n)
  PROVE  Due(Requests(r), l, m, n)
  <1> DEFINE k == Len(r.keys)
  <1>1. /\ k \in Nat /\ k # 0 /\ DOMAIN r.keys = 1..k /\ r.keys \in Seq(Keys)
        /\ r \in [op : Methods, keys : Seq(Keys), opaques : Seq(Nat), quiet : Seq(BOOLEAN),
                  noopEnd : BOOLEAN, noopOpaque : Nat, val : Seq(Data), exptime : Nat]
    BY DEF Covers, Calls
  <1>2. CASE ~(load.locked /\ r.op \in ReadMethods)
    <2>1. Requests(r) = <<r>>
      BY <1>2 DEF Requests
    <2>2. Len(<<r>>) = 1 /\ <<r>>[1] = r /\ 1..1 = {1} /\ m + 1 - 1 = m
      OBVIOUS
    <2> QED BY <2>1, <2>2 DEF Due
  <1>3. CASE load.locked /\ r.op \in ReadMethods
    <2> DEFINE part(i) == [r EXCEPT !.keys = <<r.keys[i]>>, !.opaques = <<r.opaques[i]>>,
                                    !.quiet = <<r.quiet[i]>>,
                                    !.noopEnd = r.noopEnd /\ i = Len(r.keys),
                                    !.noopOpaque = IF i = Len(r.keys) THEN r.noopOpaque ELSE 0]
               rs == [i \in DOMAIN r.keys |-> part(i)]
    <2>1. Requests(r) = rs
      BY <1>3 DEF Requests, Split
    <2>2. ASSUME NEW i \in 1..k
          PROVE  /\ part(i).op = r.op /\ Len(part(i).keys) = 1 /\ DOMAIN part(i).keys = 1..1
                 /\ part(i).opaques[1] = r.opaques[i] /\ part(i).quiet[1] = r.quiet[i]
                 /\ part(i).noopEnd = (r.noopEnd /\ i = k)
                 /\ i = k => part(i).noopOpaque = r.noopOpaque
      BY <1>1
    <2> HIDE DEF part
    <2>3. Len(rs) = k /\ \A i \in 1..k : rs[i] = part(i)
      <3>1. rs \in [1..k -> {part(i) : i \in 1..k}]
        BY <1>1
      <3> HIDE DEF rs, k
      <3>2. Len(rs) = k
        BY <1>1, <3>1, FunctionIsSeq
      <3> QED BY <1>1, <3>2 DEF rs
    <2> HIDE DEF rs
    <2>4. ASSUME NEW i \in 1..k
          PROVE  Covers(part(i), l, m + i - 1, IF i = k THEN n ELSE m + i)
      <3> DEFINE b == m + i - 1
                 e == IF i = k THEN n ELSE m + i
                 x == part(i)
      <3>1. b + 1 = m + i /\ 1 \in Nat /\ 1 # 0 /\ 1..1 = {1}
        BY <1>1
      <3>2. /\ r.opaques[i] = l[m + i].opaque
            /\ r.quiet[i] => l[m + i].op \in Bin!Quiet
            /\ l[m + i].op \in {"GetQ", "GetEQ"} => r.quiet[i]
        BY DEF Covers
      <3>3. /\ x.op = r.op /\ Len(x.keys) = 1 /\ DOMAIN x.keys = 1..1
            /\ x.opaques[1] = r.opaques[i] /\ x.quiet[1] = r.quiet[i]
            /\ x.noopEnd = (r.noopEnd /\ i = k)
            /\ i = k => x.noopOpaque = r.noopOpaque
        BY <2>2
      <3>4. /\ x.noopEnd => e = b + 1 + 1 /\ x.noopOpaque = l[e].opaque /\ l[e].op = "Noop"
            /\ ~x.noopEnd => e = b + 1
        <4>1. CASE r.noopEnd /\ i = k
          <5>1. n = m + k + 1 /\ r.noopOpaque = l[n].opaque /\ l[n].op = "Noop"
            BY <4>1 DEF Covers
          <5>2. e = n /\ n = b + 1 + 1
            BY <1>1, <3>1, <4>1, <5>1
          <5> QED BY <3>3, <4>1, <5>1, <5>2
        <4>2. CASE ~(r.noopEnd /\ i = k)
          <5>1. ~x.noopEnd
            BY <3>3, <4>2
          <5>2. i = k => n = m + k
            BY <4>2 DEF Covers
          <5>3. e = b + 1
            BY <3>1, <5>2
          <5> QED BY <5>1, <5>3
        <4> QED BY <4>1, <4>2
      <3> HIDE DEF x, b, e
      <3>5. Covers(x, l, b, e)
        BY <1>3, <3>1, <3>2, <3>3, <3>4 DEF Covers
      <3> QED BY <3>5 DEF x, b, e
    <2>5. Due(rs, l, m, n)
      BY <2>3, <2>4 DEF Due
    <2> QED BY <2>1, <2>5
  <1> QED BY <1>2, <1>3

\* What has been written when the loop is at a place: before a parse the answers
\* to what has been parsed, in a handler those to all but what is still due.
Done(place, o, l, n, rs) ==
  /\ place = "parse" => Answers(o, l, 0, n)
  /\ place = "handler" => \E m \in 0..n : Answers(o, l, 0, m) /\ Due(rs, l, m, n)

\* A new connection has nothing written or parsed; the handler is at the first
\* of the requests; and what has been written answers what was sent.
Exchange(place, protocol, o, l, s, rs, r) ==
  /\ place = "new" => o = <<>> /\ Len(s) = Len(l)
  /\ place = "handler" => r = rs[1]
  /\ (protocol = "binary" /\ ~HasStray(l)) => Done(place, o, l, Len(l) - Len(s), rs)

Answered(c) == Exchange(pc[c], proto[c], out[c], log[c], in[c], todo[c], call[c])

ReplyInv ==
  /\ CauseInv
  /\ out = [c \in Conns |-> out[c]]
  /\ \A c \in Conns : Answered(c) /\ (Binary(c) => Counted(log[c]))

LEMMA AnsweredSame ==
  ASSUME NEW c \in Conns, Answered(c), pc'[c] = pc[c], proto'[c] = proto[c],
         out'[c] = out[c], log'[c] = log[c], in'[c] = in[c], todo'[c] = todo[c],
         call'[c] = call[c]
  PROVE  Answered(c)'
  BY DEF Answered

LEMMA CountedSame ==
  ASSUME NEW c \in Conns, Binary(c) => Counted(log[c]), load' = load, log'[c] = log[c]
  PROVE  (Binary(c) => Counted(log[c]))'
  BY DEF Binary

LEMMA ExchangeLater ==
  ASSUME NEW T, NEW l \in Seq(T), NEW s \in Seq(T), Len(s) <= Len(l), NEW f,
         NEW place, NEW protocol, NEW o, NEW rs, NEW r,
         place = "handler" => IsSeq(rs) /\ rs # <<>>,
         Exchange(place, protocol, o, l, s, rs, r)
  PROVE  Exchange(place, protocol, o, Append(l, f), Append(s, f), rs, r)
  <1> DEFINE l1 == Append(l, f)
             s1 == Append(s, f)
             n == Len(l) - Len(s)
  <1>1. /\ n \in Nat /\ n <= Len(l) /\ Len(l1) - Len(s1) = n
        /\ Len(s) = Len(l) => Len(s1) = Len(l1)
    <2>1. Len(l) \in Nat /\ Len(s) \in Nat /\ Len(l1) = Len(l) + 1 /\ Len(s1) = Len(s) + 1
      OBVIOUS
    <2>2. \A a, b \in Nat : a <= b => b - a \in Nat /\ b - a <= b /\ (b + 1) - (a + 1) = b - a
      OBVIOUS
    <2> QED BY <2>1, <2>2
  <1>2. HasStray(l) => HasStray(l1)
    BY StrayStays
  <1>3. Done(place, o, l, n, rs) => Done(place, o, l1, n, rs)
    <2> SUFFICES ASSUME Done(place, o, l, n, rs) PROVE Done(place, o, l1, n, rs)
      OBVIOUS
    <2> HIDE DEF n
    <2>1. place = "parse" => Answers(o, l1, 0, n)
      BY <1>1, AnswersLater DEF Done
    <2>2. ASSUME place = "handler"
          PROVE  \E m \in 0..n : Answers(o, l1, 0, m) /\ Due(rs, l1, m, n)
      <3>1. PICK m \in 0..n : Answers(o, l, 0, m) /\ Due(rs, l, m, n)
        BY <2>2 DEF Done
      <3>2. m \in Nat /\ m <= Len(l) /\ Len(l) \in Nat
        BY <1>1
      <3>3. Answers(o, l1, 0, m)
        BY <3>1, <3>2, AnswersLater
      <3>4. Due(rs, l1, m, n)
        BY <1>1, <2>2, <3>1, <3>2, DueLater
      <3> QED BY <3>3, <3>4
    <2> QED BY <2>1, <2>2 DEF Done
  <1> HIDE DEF l1, s1
  <1>4. Exchange(place, protocol, o, l1, s1, rs, r)
    BY <1>1, <1>2, <1>3 DEF Exchange
  <1> QED BY <1>4 DEF l1, s1

LEMMA CountedLater ==
  ASSUME NEW T, NEW l \in Seq(T), Counted(l), NEW f, f.opaque = Len(l) + 1
  PROVE  Counted(Append(l, f))
  <1> DEFINE l1 == Append(l, f)
  <1>1. /\ Len(l) \in Nat /\ Len(l1) = Len(l) + 1 /\ l1[Len(l) + 1] = f
        /\ \A i \in 1..Len(l) : l1[i] = l[i]
    OBVIOUS
  <1>2. ASSUME NEW i \in 1..Len(l1) PROVE l1[i].opaque = i
    <2>1. CASE i = Len(l) + 1
      BY <1>1, <2>1
    <2>2. CASE i # Len(l) + 1
      <3>1. i \in 1..Len(l)
        BY <1>1, <2>2
      <3> QED BY <1>1, <3>1 DEF Counted
    <2> QED BY <2>1, <2>2
  <1> QED BY <1>2 DEF Counted

LEMMA SendAnswered ==
  ASSUME ReplyInv, NEW c \in Conns, Send(c), NEW d \in Conns
  PROVE  Answered(d)' /\ (Binary(d) => Counted(log[d]))'
  <1>1. PICK piece \in IF unsent[c] # <<>> THEN {unsent[c]} ELSE load.pieces[c] :
          /\ log' = [log EXCEPT ![c] = Append(@, Numbered(c, Head(piece)))]
          /\ in' = [in EXCEPT ![c] = Append(@, Numbered(c, Head(piece)))]
    BY DEF Send
  <1>2. /\ StreamsOK /\ HandlerOK /\ InMethod(c)
        /\ UNCHANGED <<load, proto, pc, todo, out, call>>
        /\ Answered(d) /\ (Binary(d) => Counted(log[d]))
    BY DEF Send, inmemVars, ReplyInv, CauseInv, ConnInv
  <1> DEFINE f == Numbered(c, Head(piece))
  <1>3. /\ log[c] \in Seq(Frames \cup Lines) /\ in[c] \in Seq(Frames \cup Lines)
        /\ Len(in[c]) <= Len(log[c])
        /\ log'[c] = Append(log[c], f) /\ in'[c] = Append(in[c], f)
        /\ d # c => log'[d] = log[d] /\ in'[d] = in[d]
    BY <1>1, <1>2 DEF StreamsOK
  <1>4. CASE d # c
    BY <1>2, <1>3, <1>4, AnsweredSame, CountedSame
  <1>5. CASE d = c
    <2>1. pc[c] = "handler" => IsSeq(todo[c]) /\ todo[c] # <<>>
      BY <1>2 DEF IsSeq, HandlerOK, InMethod
    <2>2. Exchange(pc[c], proto[c], out[c], log[c], in[c], todo[c], call[c])
      BY <1>2, <1>5 DEF Answered
    <2>3. Exchange(pc[c], proto[c], out[c], Append(log[c], f), Append(in[c], f), todo[c], call[c])
      <3> HIDE DEF f
      <3> QED BY <1>3, <2>1, <2>2, ExchangeLater
    <2>4. Answered(c)'
      BY <1>2, <1>3, <2>3 DEF Answered
    <2>5. ASSUME Binary(c) PROVE Counted(log'[c])
      <3>1. piece \in Seq(Frames) /\ piece # <<>>
        BY <1>1, <1>2, <2>5, WorkloadOf DEF StreamsOK, Wire
      <3>2. Head(piece) \in Frames
        BY <3>1
      <3>3. f.opaque = Len(log[c]) + 1
        BY <3>2 DEF Numbered, IsFrame, Frames
      <3> HIDE DEF f
      <3> QED BY <1>2, <1>3, <1>5, <2>5, <3>3, CountedLater
    <2> QED BY <1>2, <1>5, <2>4, <2>5 DEF Binary
  <1> QED BY <1>4, <1>5

LEMMA DisambiguateAnswered ==
  ASSUME ReplyInv, NEW c \in Conns, Disambiguate(c), NEW d \in Conns
  PROVE  Answered(d)' /\ (Binary(d) => Counted(log[d]))'
  <1>1. /\ StreamsOK /\ HandlerOK /\ pc[c] = "new"
        /\ UNCHANGED <<load, log, in, todo, out, call>>
        /\ \A e \in Conns : Answered(e) /\ (Binary(e) => Counted(log[e]))
    BY DEF Disambiguate, clientVars, inmemVars, ReplyInv, CauseInv, ConnInv
  <1>2. /\ \A e \in Conns : e # c => pc'[e] = pc[e] /\ proto'[e] = proto[e]
        /\ pc'[c] \in {"parse", "closed"}
    BY <1>1 DEF Disambiguate, Goto, HandlerOK, StreamsOK
  <1>3. CASE d # c
    BY <1>1, <1>2, <1>3, AnsweredSame, CountedSame
  <1>4. CASE d = c
    <2>1. out[c] = <<>> /\ Len(in[c]) = Len(log[c]) /\ Len(log[c]) \in Nat
      BY <1>1 DEF Answered, Exchange, StreamsOK
    <2>2. Len(log[c]) - Len(in[c]) = 0
      BY <2>1
    <2>3. Answers(out[c], log[c], 0, 0)
      BY <2>1, AnswersNone
    <2>4. Done(pc'[c], out[c], log[c], Len(log[c]) - Len(in[c]), todo[c])
      BY <1>2, <2>2, <2>3 DEF Done
    <2>5. Exchange(pc'[c], proto'[c], out[c], log[c], in[c], todo[c], call[c])
      BY <1>2, <2>4 DEF Exchange
    <2>6. Answered(c)'
      BY <1>1, <2>5 DEF Answered
    <2> QED BY <1>1, <1>4, <2>6, CountedSame
  <1> QED BY <1>3, <1>4

\* What a parse that succeeds takes of a stream in which nothing is stray.
LEMMA ParseCovers ==
  ASSUME ReplyInv, NEW c \in Conns, pc[c] = "parse", proto[c] = "binary",
         ~HasStray(log[c]), ParseIn(c).err = "nil"
  PROVE  LET p == ParseIn(c)
             n == Len(log[c]) - Len(in[c])
             e == Len(log[c]) - Len(p.rest)
         IN /\ p.req.op \in Methods \cup {"Noop", "Version", "Quit"}
            /\ n \in Nat /\ e \in Nat /\ n <= e /\ e <= Len(log[c])
            /\ Len(log[c]) \in Nat /\ Counted(log[c])
            /\ Answers(out[c], log[c], 0, n)
            /\ Covers(p.req, log[c], n, e)
  <1> DEFINE p == ParseIn(c)
             l == log[c]
             s == in[c]
             d == Len(l) - Len(s)
             e == Len(l) - Len(p.rest)
  <1>1. /\ StreamsOK /\ Follows(c) /\ Answered(c) /\ (Binary(c) => Counted(l))
    BY DEF ReplyInv, CauseInv, ConnInv
  <1>2. /\ s \in Seq(Frames) /\ p = Bin!Parse(s) /\ Counted(l)
        /\ s \in Seq(Frames \cup Lines) /\ l \in Seq(Frames \cup Lines) /\ Len(s) <= Len(l)
    BY <1>1 DEF StreamsOK, Wire, ParseIn
  <1>3. s # <<>> /\ Makes(p, s)
    BY <1>2, BinMakes
  <1>4. Answers(out[c], l, 0, d)
    BY <1>1 DEF Answered, Exchange, Done
  <1>5. \A i \in 1..Len(s) : s[i] = l[d + i]
    BY <1>1 DEF Follows, IsEnd
  <1>6. Len(s) \in Nat /\ Len(l) \in Nat /\ d \in Nat
    BY <1>2
  <1>7. ~ \E n \in 2..Len(s) : StrayAt(s, n - 1) /\ s[1].op # "junk"
    <2>1. IsEnd(s, l, proto[c])
      BY <1>1 DEF Follows
    <2> QED BY <1>2, <2>1, StrayIsSent
  <1> HIDE DEF p, l, s
  <1>8. /\ p.req.op \in Methods \cup {"Noop", "Version", "Quit"}
        /\ \E n \in 1..Len(s) : Len(p.rest) = Len(s) - n /\ Covers(p.req, s, 0, n)
    BY <1>3, <1>7 DEF Makes
  <1>9. PICK n \in 1..Len(s) : Len(p.rest) = Len(s) - n /\ Covers(p.req, s, 0, n)
    BY <1>8
  <1>10. Covers(p.req, l, d, d + n)
    <2> HIDE DEF d
    <2> QED BY <1>5, <1>6, <1>9, CoversShift
  <1>11. e = d + n /\ e \in Nat /\ d <= e /\ e <= Len(l)
    <2>1. \A a, b \in Nat : (n <= a /\ a <= b) =>
             /\ b - (a - n) = (b - a) + n /\ b - (a - n) \in Nat
             /\ b - a <= b - (a - n) /\ b - (a - n) <= b
      OBVIOUS
    <2>2. n <= Len(s) /\ Len(s) <= Len(l)
      BY <1>2, <1>6
    <2> QED BY <1>6, <1>9, <2>1, <2>2
  <1>12. Covers(p.req, l, d, e)
    BY <1>10, <1>11
  <1> QED BY <1>2, <1>4, <1>6, <1>8, <1>11, <1>12 DEF p, l, s

LEMMA ParseAnswered ==
  ASSUME ReplyInv, NEW c \in Conns, ParseRequest(c), NEW d \in Conns
  PROVE  Answered(d)' /\ (Binary(d) => Counted(log[d]))'
  <1> DEFINE p == ParseIn(c)
             l == log[c]
             n == Len(l) - Len(in[c])
             e == Len(l) - Len(p.rest)
             rs == Requests(p.req)
  <1>1. /\ StreamsOK /\ HandlerOK /\ pc[c] = "parse" /\ UNCHANGED <<load, log, proto>>
        /\ out = [x \in Conns |-> out[x]]
        /\ \A x \in Conns : Answered(x) /\ (Binary(x) => Counted(log[x]))
    BY DEF ParseRequest, clientVars, ReplyInv, CauseInv, ConnInv
  <1>2. CASE d # c
    <2>1. /\ pc'[d] = pc[d] /\ in'[d] = in[d] /\ todo'[d] = todo[d] /\ call'[d] = call[d]
          /\ out'[d] = out[d]
      BY <1>1, <1>2 DEF ParseRequest, Served, Goto, Write, Enter, inmemVars, HandlerOK, StreamsOK
    <2> QED BY <1>1, <1>2, <2>1, AnsweredSame, CountedSame
  <1>3. CASE d = c
    <2>0. (Binary(c) => Counted(log[c]))'
      BY <1>1, CountedSame
    <2>1. CASE Goto(c, "closed")
      <3>1. pc'[c] = "closed"
        BY <1>1, <2>1 DEF Goto, HandlerOK
      <3> QED BY <1>3, <2>0, <3>1 DEF Answered, Exchange, Done
    <2>2. CASE proto[c] # "binary" \/ HasStray(log[c])
      <3>1. pc'[c] # "new" /\ (pc'[c] = "handler" => call'[c] = todo'[c][1])
        BY <1>1 DEF ParseRequest, Served, Goto, Enter, HandlerOK
      <3> QED BY <1>1, <1>3, <2>0, <2>2, <3>1 DEF Answered, Exchange
    <2>3. CASE proto[c] = "binary" /\ ~HasStray(log[c]) /\ ~Goto(c, "closed")
      <3>1. p.err \in {"nil", "blocked", "BadMagic", "UnknownCmd"}
        <4>1. in[c] \in Seq(Frames) /\ p = Bin!Parse(in[c])
          BY <1>1, <2>3 DEF StreamsOK, Wire, ParseIn
        <4> QED BY <4>1, BinTakes DEF BinTaken
      <3>2. p.err = "nil" /\ in'[c] = p.rest /\ in' = [in EXCEPT ![c] = p.rest]
        BY <1>1, <2>3, <3>1 DEF ParseRequest, Survivable, StreamsOK
      <3>3. /\ p.req.op \in Methods \cup {"Noop", "Version", "Quit"}
            /\ n \in Nat /\ e \in Nat /\ n <= e /\ e <= Len(l)
            /\ Len(l) \in Nat /\ Counted(l)
            /\ Answers(out[c], l, 0, n)
            /\ Covers(p.req, l, n, e)
        BY <1>1, <2>3, <3>2, ParseCovers
      <3>4. CASE p.req.op \notin Methods
        <4>1. p.req.op # "Unknown" /\ p.req.op \notin ReadMethods
          BY <3>3, <3>4 DEF Methods
        <4>2. Served(c, p.req)
          BY <3>2, <3>4 DEF ParseRequest, Survivable
        <4>3. Write(c, Success(c, p.req)) /\ Goto(c, "parse")
          BY <2>3, <4>1, <4>2 DEF Served
        <4>4. out'[c] = out[c] \o Success(c, p.req) /\ pc'[c] = "parse"
          BY <1>1, <4>3 DEF Write, Goto, HandlerOK
        <4> HIDE DEF p, l, n, e
        <4>5. Answers(Success(c, p.req), l, n, e)
          BY <2>3, <3>3, <4>1, SingleAnswers
        <4>6. Answers(out'[c], l, 0, e)
          BY <3>3, <4>4, <4>5, AnswersJoin
        <4>7. Exchange(pc'[c], proto[c], out'[c], l, p.rest, todo'[c], call'[c])
          BY <4>4, <4>6 DEF Exchange, Done, e
        <4> QED BY <1>1, <1>3, <2>0, <3>2, <4>7 DEF Answered, l
      <3>5. CASE p.req.op \in Methods
        <4>1. /\ todo' = [todo EXCEPT ![c] = rs] /\ Enter(c, rs[1]) /\ Goto(c, "handler")
              /\ out' = out
          BY <3>2, <3>5 DEF ParseRequest, Survivable
        <4>2. todo'[c] = rs /\ call'[c] = rs[1] /\ pc'[c] = "handler" /\ out'[c] = out[c]
          BY <1>1, <4>1 DEF Enter, Goto, HandlerOK
        <4>3. p.req \in Calls
          <5>1. in[c] \in Seq(Frames) /\ p = Bin!Parse(in[c])
            BY <1>1, <2>3 DEF StreamsOK, Wire, ParseIn
          <5> QED BY <3>2, <3>5, <5>1, BinParses DEF GoodParse
        <4> HIDE DEF p, l, n, e
        <4>4. Due(rs, l, n, e)
          BY <3>3, <4>3, DueRequests
        <4>5. n \in 0..e
          BY <3>3
        <4> HIDE DEF rs
        <4>6. Done("handler", out[c], l, e, rs)
          BY <3>3, <4>4, <4>5 DEF Done
        <4>7. Exchange(pc'[c], proto[c], out'[c], l, p.rest, todo'[c], call'[c])
          BY <4>2, <4>6 DEF Exchange, e
        <4> QED BY <1>1, <1>3, <2>0, <3>2, <4>7 DEF Answered, l
      <3> QED BY <3>4, <3>5
    <2> QED BY <2>1, <2>2, <2>3
  <1> QED BY <1>2, <1>3

LEMMA FinishAnswered ==
  ASSUME ReplyInv, NEW c \in Conns, Finish(c), NEW d \in Conns
  PROVE  Answered(d)' /\ (Binary(d) => Counted(log[d]))'
  <1> DEFINE r == call[c]
             rs == todo[c]
             l == log[c]
             n == Len(l) - Len(in[c])
  <1>1. /\ StreamsOK /\ HandlerOK /\ InMethod(c) /\ pc[c] = "handler"
        /\ UNCHANGED <<load, log, in, proto>>
        /\ todo' = [todo EXCEPT ![c] = Tail(@)]
        /\ out = [x \in Conns |-> out[x]]
        /\ \A x \in Conns : Answered(x) /\ (Binary(x) => Counted(log[x]))
    BY DEF Finish, clientVars, ReplyInv, CauseInv, ConnInv
  <1>2. CASE d # c
    <2>1. /\ pc'[d] = pc[d] /\ todo'[d] = todo[d] /\ call'[d] = call[d] /\ out'[d] = out[d]
      BY <1>1, <1>2 DEF Finish, Goto, Write, Enter, HandlerOK
    <2> QED BY <1>1, <1>2, <2>1, AnsweredSame, CountedSame
  <1>3. CASE d = c
    <2>0. (Binary(c) => Counted(log[c]))'
      BY <1>1, CountedSame
    <2>1. rs \in Seq(Calls) /\ rs # <<>> /\ todo'[c] = Tail(rs) /\ r = rs[1]
      BY <1>1 DEF HandlerOK, InMethod, Answered, Exchange
    <2>2. CASE Goto(c, "closed")
      <3>1. pc'[c] = "closed"
        BY <1>1, <2>2 DEF Goto, HandlerOK
      <3> QED BY <1>3, <2>0, <3>1 DEF Answered, Exchange, Done
    <2>3. CASE ~Goto(c, "closed")
      <3>1. /\ Write(c, Replies(c, r))
            /\ IF Len(rs) > 1 THEN Enter(c, rs[2]) /\ UNCHANGED pc ELSE Goto(c, "parse")
        BY <2>3 DEF Finish
      <3>2. out'[c] = out[c] \o Replies(c, r)
        BY <1>1, <3>1 DEF Write
      <3>3. IF Len(rs) > 1 THEN call'[c] = Tail(rs)[1] /\ pc'[c] = "handler" ELSE pc'[c] = "parse"
        <4>1. Len(rs) > 1 => Tail(rs)[1] = rs[2]
          BY <2>1
        <4> QED BY <1>1, <3>1, <4>1 DEF Enter, Goto, HandlerOK
      <3>4. ASSUME proto[c] = "binary", ~HasStray(l)
            PROVE  Done(pc'[c], out'[c], l, n, Tail(rs))
        <4>1. PICK m \in 0..n : Answers(out[c], l, 0, m) /\ Due(rs, l, m, n)
          BY <1>1, <3>4 DEF Answered, Exchange, Done
        <4>2. Counted(l) /\ Len(l) \in Nat /\ n \in Nat /\ n <= Len(l) /\ m \in Nat /\ m <= n
          BY <1>1, <3>4 DEF StreamsOK
        <4>3. Len(rs) \in Nat /\ 1 \in 1..Len(rs) /\ IsSeq(rs)
          BY <2>1 DEF IsSeq
        <4> DEFINE e == IF 1 = Len(rs) THEN n ELSE m + 1
        <4> HIDE DEF l, n, rs
        <4>4. Covers(rs[1], l, m + 1 - 1, e) /\ m + Len(rs) <= n
          BY <2>1, <4>1, <4>2, <4>3, DueEnds
        <4>5. e \in Nat /\ e <= Len(l) /\ e <= n /\ m <= e /\ m + 1 - 1 = m
          BY <4>2, <4>3, <4>4
        <4> HIDE DEF e
        <4>6. Answers(Replies(c, r), l, m, e)
          BY <2>1, <3>4, <4>2, <4>4, <4>5, RepliesAnswer
        <4>7. Answers(out'[c], l, 0, e)
          BY <3>2, <4>1, <4>2, <4>5, <4>6, AnswersJoin
        <4>8. CASE Len(rs) > 1
          <5>0. 1 # Len(rs)
            <6>1. \A k \in Nat : k > 1 => 1 # k
              OBVIOUS
            <6> QED BY <4>3, <4>8, <6>1
          <5>1. e = m + 1 /\ e \in 0..n
            <6>1. e = m + 1
              BY <5>0 DEF e
            <6> QED BY <4>2, <4>5, <6>1
          <5>2. Due(Tail(rs), l, m + 1, n)
            BY <2>1, <4>1, <4>2, <4>8, DueTail DEF rs
          <5> QED BY <3>3, <4>7, <4>8, <5>1, <5>2 DEF Done, rs
        <4>9. CASE ~(Len(rs) > 1)
          <5>0. 1 = Len(rs)
            <6>1. \A k \in Nat : 1 \in 1..k /\ ~(k > 1) => 1 = k
              OBVIOUS
            <6> QED BY <4>3, <4>9, <6>1
          <5>1. e = n
            BY <5>0 DEF e
          <5> QED BY <3>3, <4>7, <4>9, <5>1 DEF Done, rs
        <4> QED BY <4>8, <4>9
      <3>5. Exchange(pc'[c], proto[c], out'[c], l, in[c], todo'[c], call'[c])
        BY <2>1, <3>3, <3>4 DEF Exchange
      <3> QED BY <1>1, <1>3, <2>0, <3>5 DEF Answered
    <2> QED BY <2>2, <2>3
  <1> QED BY <1>2, <1>3

LEMMA InitReply ==
  ASSUME Init
  PROVE  ReplyInv
  <1>1. ASSUME NEW c \in Conns PROVE Answered(c) /\ (Binary(c) => Counted(log[c]))
    <2>1. /\ pc[c] = "new" /\ out[c] = <<>> /\ in[c] = <<>> /\ log[c] = <<>>
          /\ Len(<<>>) = 0 /\ 1..0 = {}
      BY DEF Init
    <2>2. Counted(log[c])
      BY <2>1 DEF Counted
    <2> QED BY <2>1, <2>2 DEF Answered, Exchange, Done
  <1>2. out = [c \in Conns |-> out[c]]
    BY DEF Init
  <1> QED BY <1>1, <1>2, InitCause DEF ReplyInv

LEMMA ReplyStep ==
  ASSUME ReplyInv, [Next]_vars
  PROVE  ReplyInv'
  <1>1. CauseInv'
    BY CauseStep DEF ReplyInv
  <1>2. (out = [c \in Conns |-> out[c]])'
    BY DEF Next, ServerStep, Send, HangUp, Disambiguate, ParseRequest, Served, Finish, InHandler,
           Clock, Write, vars, ReplyInv
  <1>3. CASE UNCHANGED <<load, log, in, proto, pc, todo, out, call>>
    BY <1>1, <1>2, <1>3, AnsweredSame, CountedSame DEF ReplyInv
  <1>4. CASE UNCHANGED vars
    BY <1>3, <1>4 DEF vars, clientVars, inmemVars
  <1>5. CASE Clock
    BY <1>3, <1>5 DEF Clock, clientVars, Tick
  <1>6. ASSUME NEW c \in Conns, InHandler(c) PROVE ReplyInv'
    <2>1. UNCHANGED call
      BY <1>6 DEF InHandler, InMemStep, Lock, Unlock, RLock, Look, DeleteAbsent, RUnlock, Throw
    <2> QED BY <1>3, <1>6, <2>1 DEF InHandler, clientVars
  <1>7. ASSUME NEW c \in Conns, HangUp(c) PROVE ReplyInv'
    BY <1>3, <1>7 DEF HangUp, inmemVars
  <1>8. ASSUME NEW c \in Conns, Send(c) \/ Disambiguate(c) \/ ParseRequest(c) \/ Finish(c)
        PROVE  ReplyInv'
    BY <1>1, <1>2, <1>8, SendAnswered, DisambiguateAnswered, ParseAnswered, FinishAnswered
       DEF ReplyInv
  <1> QED BY <1>4, <1>5, <1>6, <1>7, <1>8 DEF Next, ServerStep

-----------------------------------------------------------------------------
(***************************************************************************)
(* What is written to a client of the text protocol.  A parse takes one    *)
(* command, with its data block if there is one, and what is then written  *)
(* has one final line.                                                     *)
(***************************************************************************)

\* The commands among the first n lines.
Commands(l, n) == {i \in 1..n : CommandAt(l, i)}

\* Replies that end with their only final one.
EndsOnce(b) ==
  /\ IsSeq(b) /\ b # <<>> /\ b[Len(b)].final
  /\ \A i \in 1..(Len(b) - 1) : ~b[i].final

\* Values, none of them final.
NoneFinal(b) == IsSeq(b) /\ \A i \in 1..Len(b) : ~b[i].final

LEMMA OneFinal ==
  ASSUME NEW a, NEW b, IsSeq(a), EndsOnce(b)
  PROVE  /\ IsSeq(a \o b)
         /\ Cardinality(Finals(a)) \in Nat
         /\ Cardinality(Finals(a \o b)) = Cardinality(Finals(a)) + 1
  <1> DEFINE o == a \o b
             x == Len(a)
             y == Len(b)
  <1>1. /\ IsSeq(o) /\ x \in Nat /\ y \in Nat /\ Len(o) = x + y
        /\ \A i \in 1..x : o[i] = a[i]
        /\ \A i \in 1..y : o[x + i] = b[i]
    BY ConcatIs DEF EndsOnce
  <1>2. DOMAIN a = 1..x /\ DOMAIN o = 1..(x + y) /\ y # 0
    BY <1>1 DEF IsSeq, EndsOnce
  <1> HIDE DEF o, x, y
  <1>3. \A i \in 1..y : b[i].final <=> i = y
    <2>1. b[y].final /\ \A i \in 1..(y - 1) : ~b[i].final
      BY DEF EndsOnce, y
    <2>2. \A i \in 1..y : i = y \/ i \in 1..(y - 1)
      BY <1>1
    <2> QED BY <2>1, <2>2
  <1>4. ASSUME NEW j \in 1..(x + y)
        PROVE  o[j].final <=> j \in Finals(a) \/ j = x + y
    <2>1. CASE j \in 1..x
      <3>1. o[j] = a[j] /\ j # x + y
        BY <1>1, <1>2, <2>1
      <3> QED BY <1>2, <2>1, <3>1 DEF Finals
    <2>2. CASE j \notin 1..x
      <3>1. j - x \in 1..y /\ x + (j - x) = j
        BY <1>1, <2>2
      <3>2. o[j] = b[j - x]
        BY <1>1, <3>1
      <3>3. o[j].final <=> j - x = y
        BY <1>3, <3>1, <3>2
      <3>4. j - x = y <=> j = x + y
        BY <1>1
      <3> QED BY <1>2, <2>2, <3>3, <3>4 DEF Finals
    <2> QED BY <2>1, <2>2
  <1>5. Finals(o) = Finals(a) \cup {x + y} /\ x + y \notin Finals(a)
    <2>1. x + y \in 1..(x + y) /\ x + y \notin 1..x /\ 1..x \subseteq 1..(x + y)
      BY <1>1, <1>2
    <2>2. Finals(a) \subseteq 1..x /\ Finals(o) = {j \in 1..(x + y) : o[j].final}
      BY <1>2 DEF Finals
    <2> QED BY <1>4, <2>1, <2>2
  <1>6. IsFiniteSet(Finals(a)) /\ Cardinality(Finals(a)) \in Nat
    <2>1. IsFiniteSet(1..x) /\ Finals(a) \subseteq 1..x
      BY <1>1, <1>2, FS_Interval DEF Finals
    <2> QED BY <2>1, FS_Subset, FS_CardinalityType
  <1>7. Cardinality(Finals(o)) = Cardinality(Finals(a)) + 1
    BY <1>5, <1>6, FS_AddElement
  <1> QED BY <1>1, <1>6, <1>7 DEF o

\* A command and, if it opens one, its data block.
LEMMA OneCommand ==
  ASSUME NEW l, NEW n \in Nat, n > 0 => ~Opens(l[n]), NEW e,
         IF Opens(l[n + 1]) THEN e = n + 2 /\ l[n + 2].cmd = "data" ELSE e = n + 1
  PROVE  /\ Cardinality(Commands(l, n)) \in Nat
         /\ Cardinality(Commands(l, e)) = Cardinality(Commands(l, n)) + 1
         /\ e \in Nat /\ e > 0 /\ ~Opens(l[e])
  <1>1. IsFiniteSet(Commands(l, n)) /\ Cardinality(Commands(l, n)) \in Nat
    <2>1. IsFiniteSet(1..n) /\ Commands(l, n) \subseteq 1..n
      BY FS_Interval DEF Commands
    <2> QED BY <2>1, FS_Subset, FS_CardinalityType
  <1>2. CommandAt(l, n + 1)
    <2>1. (n + 1) - 1 = n /\ (n + 1 > 1 => n > 0)
      OBVIOUS
    <2> QED BY <2>1 DEF CommandAt
  <1>3. n + 1 \notin Commands(l, n)
    BY DEF Commands
  <1>4. Commands(l, n + 1) = Commands(l, n) \cup {n + 1}
    <2>1. 1..(n + 1) = (1..n) \cup {n + 1}
      OBVIOUS
    <2> QED BY <1>2, <2>1 DEF Commands
  <1>5. Cardinality(Commands(l, n + 1)) = Cardinality(Commands(l, n)) + 1
    BY <1>1, <1>3, <1>4, FS_AddElement
  <1>6. CASE ~Opens(l[n + 1])
    BY <1>1, <1>5, <1>6
  <1>7. CASE Opens(l[n + 1])
    <2>1. e = n + 2 /\ l[n + 2].cmd = "data" /\ (n + 2) - 1 = n + 1 /\ n + 2 > 1
      BY <1>7
    <2>2. ~CommandAt(l, n + 2)
      BY <1>7, <2>1 DEF CommandAt
    <2>3. Commands(l, n + 2) = Commands(l, n + 1)
      <3>1. 1..(n + 2) = (1..(n + 1)) \cup {n + 2}
        OBVIOUS
      <3> QED BY <2>2, <3>1 DEF Commands
    <2>4. ~Opens(l[n + 2])
      BY <2>1 DEF Opens, Text!TextStorage
    <2> QED BY <1>1, <1>5, <2>1, <2>3, <2>4
  <1> QED BY <1>6, <1>7

\* What is written for a value is not final, and one line ends the answer.
LEMMA FinalEnds ==
  ASSUME NEW word
  PROVE  EndsOnce(Text!Final(word))
  <1> DEFINE x == [word |-> word, final |-> TRUE]
             o == <<x>>
  <1>1. x.final
    OBVIOUS
  <1> HIDE DEF x
  <1>2. o \in Seq({x}) /\ Len(o) = 1 /\ o[1] = x /\ 1..(1 - 1) = {} /\ o # <<>>
    OBVIOUS
  <1> HIDE DEF o
  <1>3. EndsOnce(o)
    BY <1>1, <1>2 DEF EndsOnce, IsSeq
  <1> QED BY <1>3 DEF Text!Final, o, x

LEMMA ValueNotFinal ==
  ASSUME NEW key, NEW hit
  PROVE  NoneFinal(Text!Value(key, hit))
  <1> DEFINE x == [word |-> key, final |-> FALSE]
             o == <<x>>
  <1>1. ~x.final
    OBVIOUS
  <1> HIDE DEF x
  <1>2. o \in Seq({x}) /\ Len(o) = 1 /\ o[1] = x /\ 1..1 = {1}
    OBVIOUS
  <1> HIDE DEF o
  <1>3. NoneFinal(o)
    BY <1>1, <1>2 DEF NoneFinal, IsSeq
  <1>4. NoneFinal(<<>>)
    <2>1. IsSeq(<<>>) /\ Len(<<>>) = 0 /\ 1..0 = {}
      BY DEF IsSeq
    <2> QED BY <2>1 DEF NoneFinal
  <1> QED BY <1>3, <1>4 DEF Text!Value, o, x

LEMMA NoneFinalJoin ==
  ASSUME NEW a, NEW b, NoneFinal(a)
  PROVE  /\ NoneFinal(b) => NoneFinal(a \o b)
         /\ EndsOnce(b) => EndsOnce(a \o b)
  <1> DEFINE o == a \o b
             x == Len(a)
             y == Len(b)
  <1>0. SUFFICES ASSUME IsSeq(b)
                 PROVE  /\ NoneFinal(b) => NoneFinal(o)
                        /\ EndsOnce(b) => EndsOnce(o)
    BY DEF NoneFinal, EndsOnce
  <1>1. /\ IsSeq(o) /\ x \in Nat /\ y \in Nat /\ Len(o) = x + y
        /\ \A i \in 1..x : o[i] = a[i]
        /\ \A i \in 1..y : o[x + i] = b[i]
    BY <1>0, ConcatIs DEF NoneFinal
  <1>2. \A i \in 1..x : ~a[i].final
    BY DEF NoneFinal
  <1> HIDE DEF o, x
  <1>3. ASSUME NEW i \in 1..(x + y), i \notin 1..x
        PROVE  i - x \in 1..y /\ o[i] = b[i - x]
    <2>1. i - x \in 1..y /\ x + (i - x) = i
      BY <1>1, <1>3
    <2> QED BY <1>1, <2>1
  <1>4. NoneFinal(b) => NoneFinal(o)
    BY <1>1, <1>2, <1>3 DEF NoneFinal
  <1>5. ASSUME EndsOnce(b) PROVE EndsOnce(o)
    <2>1. y # 0 /\ b[y].final /\ \A i \in 1..(y - 1) : ~b[i].final
      BY <1>0, <1>5 DEF EndsOnce, IsSeq
    <2> HIDE DEF y
    <2>2. o[x + y].final /\ Len(o) # 0
      <3>1. y \in 1..y
        BY <1>1, <2>1
      <3> QED BY <1>1, <2>1, <3>1
    <2>3. ASSUME NEW i \in 1..(Len(o) - 1) PROVE ~o[i].final
      <3>1. CASE i \in 1..x
        BY <1>1, <1>2, <3>1
      <3>2. CASE i \notin 1..x
        <4>1. i \in 1..(x + y) /\ i - x \in 1..(y - 1)
          BY <1>1, <3>2
        <4> QED BY <1>3, <2>1, <3>2, <4>1
      <3> QED BY <3>1, <3>2
    <2>4. o # <<>>
      BY <2>2
    <2> QED BY <1>1, <2>2, <2>3, <2>4 DEF EndsOnce
  <1> QED BY <1>4, <1>5

LEMMA NoneFinalFlatten ==
  ASSUME NEW k \in Nat, k # 0, NEW seqs, Len(seqs) = k, \A i \in 1..k : NoneFinal(seqs[i])
  PROVE  NoneFinal(FlattenSeq(seqs))
  <1>1. \A i \in 1..k : IsSeq(seqs[i])
    BY DEF NoneFinal
  <1>2. PICK flatten : FlattenSeq(seqs) = flatten[k] /\ Flattens(flatten, seqs, k)
    BY <1>1, FlattenIs
  <1>3. \A i \in 1..k : flatten[i] = IF i = 1 THEN seqs[i] ELSE flatten[i - 1] \o seqs[i]
    BY <1>2 DEF Flattens
  <1> DEFINE I == {i \in 1..k : ~NoneFinal(flatten[i])}
  <1>4. ASSUME I # {} PROVE FALSE
    <2>1. I \in SUBSET Nat
      OBVIOUS
    <2>2. PICK n \in I : \A y \in I : n <= y
      <3> HIDE DEF I
      <3> QED BY <1>4, <2>1, MinOfNats
    <2>3. n \in 1..k /\ ~NoneFinal(flatten[n])
      BY <2>2
    <2>4. CASE n = 1
      <3>1. flatten[n] = seqs[n]
        BY <1>3, <2>3, <2>4
      <3> QED BY <2>3, <3>1
    <2>5. CASE n # 1
      <3>1. n - 1 \in 1..k /\ ~(n <= n - 1)
        BY <2>3, <2>5
      <3>2. n - 1 \notin I
        BY <2>2, <3>1
      <3>3. NoneFinal(flatten[n - 1]) /\ NoneFinal(seqs[n])
        BY <2>3, <3>1, <3>2
      <3>4. NoneFinal(flatten[n - 1] \o seqs[n])
        BY <3>3, NoneFinalJoin
      <3> QED BY <1>3, <2>3, <2>5, <3>4
    <2> QED BY <2>4, <2>5
  <1>5. k \in 1..k
    OBVIOUS
  <1> QED BY <1>2, <1>4, <1>5

\* Whatever the handler returns, one final line is written.
LEMMA RepliesEnd ==
  ASSUME NEW c \in Conns, proto[c] = "text", NEW r \in Calls, r.op # "Gat"
  PROVE  EndsOnce(Replies(c, r))
  <1>1. CASE r.op \in ReadMethods
    <2> DEFINE k == Len(r.keys)
               values == [i \in DOMAIN r.keys |-> ValueReply(c, r, i)]
    <2>1. k \in Nat /\ k # 0 /\ DOMAIN r.keys = 1..k
      BY DEF Calls
    <2>2. Len(values) = k /\ \A i \in 1..k : values[i] = ValueReply(c, r, i)
      <3> DEFINE T == {ValueReply(c, r, i) : i \in 1..k}
      <3>1. values \in [1..k -> T]
        BY <2>1
      <3>2. values \in Seq(T) /\ Len(values) = k
        <4> HIDE DEF T, values
        <4> QED BY <2>1, <3>1
      <3> QED BY <2>1, <3>2
    <2>3. Replies(c, r) = FlattenSeq(values) \o EndReply(c, r)
      BY <1>1, Zenon DEF Replies
    <2>4. \A i \in 1..k : NoneFinal(values[i])
      <3>1. \A i \in 1..k : \E key, hit : ValueReply(c, r, i) = Text!Value(key, hit)
        BY DEF ValueReply
      <3> QED BY <2>2, <3>1, ValueNotFinal
    <2> HIDE DEF values
    <2>5. NoneFinal(FlattenSeq(values))
      BY <2>1, <2>2, <2>4, NoneFinalFlatten
    <2>6. EndsOnce(EndReply(c, r))
      <3>1. EndReply(c, r) = Text!Final("END")
        BY DEF EndReply, Text!GetEnd
      <3> QED BY <3>1, FinalEnds
    <2> QED BY <2>3, <2>5, <2>6, NoneFinalJoin
  <1>2. CASE r.op \notin ReadMethods
    <2>1. Replies(c, r) = Success(c, r) \/ \E err : Replies(c, r) = ErrorReply(c, r, err)
      BY <1>2 DEF Replies
    <2>2. \E word : Replies(c, r) = Text!Final(word)
      BY <2>1 DEF Success, ErrorReply, Text!Success, Text!Error
    <2> QED BY <2>2, FinalEnds
  <1> QED BY <1>1, <1>2

\* What TextParser.Parse takes: a line, and a second one if the first opens a
\* data block.
TextMakes(p, s) ==
  p.err # "blocked" =>
    /\ s # <<>>
    /\ IF Opens(s[1]) THEN Len(s) > 1 /\ Len(p.rest) = Len(s) - 2 ELSE Len(p.rest) = Len(s) - 1
    /\ p.err = "nil" => p.req.op # "Gat"

LEMMA TextParseMakes ==
  ASSUME NEW s \in Seq(Lines)
  PROVE  TextMakes(Text!Parse(s), s)
  <1> DEFINE p == Text!Parse(s)
  <1>1. CASE s = <<>>
    <2>1. p.err = "blocked"
      BY <1>1 DEF Text!Parse, Text!Blocked
    <2> HIDE DEF p
    <2> QED BY <2>1 DEF TextMakes, p
  <1>2. CASE s # <<>>
    <2> DEFINE line == s[1]
    <2>0. /\ Len(Tail(s)) = Len(s) - 1
          /\ Len(s) # 1 => Len(s) > 1 /\ Len(SubSeq(s, 3, Len(s))) = Len(s) - 2
      <3>1. Len(s) \in Nat /\ Len(s) # 0 /\ Len(Tail(s)) = Len(s) - 1
        BY <1>2
      <3>2. \A m \in Nat : m # 0 /\ m # 1 => m > 1 /\ 3 \in 1..(m + 1) /\ m - 3 + 1 = m - 2
        OBVIOUS
      <3>3. ASSUME Len(s) # 1 PROVE Len(s) > 1 /\ Len(SubSeq(s, 3, Len(s))) = Len(s) - 2
        <4>1. Len(s) > 1 /\ 3 \in 1..(Len(s) + 1) /\ Len(s) - 3 + 1 = Len(s) - 2
          BY <3>1, <3>2, <3>3
        <4>2. Len(SubSeq(s, 3, Len(s))) = Len(s) - 3 + 1
          BY <4>1, SubSeqIsEnd
        <4> QED BY <4>1, <4>2
      <3> QED BY <3>1, <3>3
    <2>1. \A cmd \in DOMAIN Text!RequestType : Text!RequestType[cmd] # "Gat"
      BY DEF Text!RequestType
    <2>2. \A op : Text!Request(op, line).op = op
      BY DEF Text!Request
    <2>3. Text!TextStorage \subseteq DOMAIN Text!RequestType
      BY DEF Text!TextStorage, Text!RequestType
    <2>4. CASE line.cmd \in Text!TextStorage
      <3> DEFINE req == Text!Request(Text!RequestType[line.cmd], line)
      <3>1. p = IF line.err # "nil" THEN Text!Parsed(line.err, None, Tail(s))
                ELSE IF Len(s) = 1 THEN Text!Blocked
                ELSE Text!Parsed("nil", req, SubSeq(s, 3, Len(s)))
        BY <1>2, <2>4 DEF Text!Parse, Text!setRequest
      <3>2. req.op # "Gat"
        BY <2>1, <2>2, <2>3, <2>4
      <3> HIDE DEF req, p
      <3>3. \/ p.err = line.err /\ line.err # "nil" /\ p.rest = Tail(s)
            \/ p.err = "blocked"
            \/ /\ p.err = "nil" /\ p.req = req /\ line.err = "nil" /\ Len(s) # 1
               /\ p.rest = SubSeq(s, 3, Len(s))
        BY <3>1 DEF Text!Parsed, Text!Blocked
      <3> QED BY <1>2, <2>0, <2>4, <3>2, <3>3 DEF TextMakes, Opens, p
    <2>5. CASE line.cmd \in DOMAIN Text!RequestType \ Text!TextStorage
      <3> DEFINE req == Text!Request(Text!RequestType[line.cmd], line)
      <3>1. p = IF line.err # "nil" THEN Text!Parsed(line.err, None, Tail(s))
                ELSE Text!Parsed("nil", req, Tail(s))
        BY <1>2, <2>5 DEF Text!Parse
      <3>2. req.op # "Gat"
        BY <2>1, <2>2, <2>5
      <3> HIDE DEF req, p
      <3>3. /\ p.rest = Tail(s)
            /\ p.err = line.err /\ (line.err = "nil" => p.req = req)
        BY <3>1 DEF Text!Parsed
      <3> QED BY <1>2, <2>0, <2>5, <3>2, <3>3 DEF TextMakes, Opens, p
    <2>6. CASE line.cmd \notin DOMAIN Text!RequestType
      <3>1. p = Text!Parsed("nil", Text!Request("Unknown", line), Tail(s))
        BY <1>2, <2>3, <2>6 DEF Text!Parse
      <3>2. p.err = "nil" /\ p.rest = Tail(s) /\ p.req.op = "Unknown"
        BY <2>2, <3>1 DEF Text!Parsed
      <3> HIDE DEF p
      <3> QED BY <1>2, <2>0, <2>3, <2>6, <3>2 DEF TextMakes, Opens, p
    <2> QED BY <2>4, <2>5, <2>6
  <1> QED BY <1>1, <1>2

\* What has been written when n lines have been parsed: a final line for each
\* command, but for the one that is in the handler.
Told(place, o, l, n, rs) ==
  /\ place \in {"parse", "handler"} => IsSeq(o) /\ (n > 0 => ~Opens(l[n]))
  /\ place = "parse" => Cardinality(Finals(o)) = Cardinality(Commands(l, n))
  /\ place = "handler" =>
       /\ Cardinality(Finals(o)) + 1 = Cardinality(Commands(l, n))
       /\ Len(rs) = 1 /\ rs[1].op # "Gat"

\* A data block follows every line that opens one, in what has been sent and
\* what is to come.
WellCut(l, u) ==
  /\ \A i \in 1..Len(l) :
       Opens(l[i]) => IF i < Len(l) THEN l[i + 1].cmd = "data"
                                    ELSE u # <<>> /\ u[1].cmd = "data"
  /\ HasBlocks(u)

InTurn(c) ==
  /\ (proto[c] = "text" /\ ~load.locked) =>
       Told(pc[c], out[c], log[c], Len(log[c]) - Len(in[c]), todo[c])
  /\ ~Binary(c) => WellCut(log[c], unsent[c])

TextInv == ReplyInv /\ \A c \in Conns : InTurn(c)

LEMMA InTurnSame ==
  ASSUME NEW c \in Conns, InTurn(c), pc'[c] = pc[c], proto'[c] = proto[c], load' = load,
         out'[c] = out[c], log'[c] = log[c], in'[c] = in[c], todo'[c] = todo[c],
         unsent'[c] = unsent[c]
  PROVE  InTurn(c)'
  BY DEF InTurn, Binary

\* A step that leaves the streams of a client alone leaves what is cut alone.
LEMMA InTurnIs ==
  ASSUME NEW c \in Conns, InTurn(c), load' = load, log'[c] = log[c], unsent'[c] = unsent[c],
         proto'[c] = "text" /\ ~load.locked =>
           Told(pc'[c], out'[c], log[c], Len(log[c]) - Len(in'[c]), todo'[c])
  PROVE  InTurn(c)'
  BY DEF InTurn, Binary

LEMMA CommandLater ==
  ASSUME NEW T, NEW l \in Seq(T), NEW f, NEW n \in Nat, n <= Len(l)
  PROVE  /\ Commands(Append(l, f), n) = Commands(l, n)
         /\ n > 0 => Append(l, f)[n] = l[n]
  <1> DEFINE l1 == Append(l, f)
  <1>1. \A i \in 1..Len(l) : l1[i] = l[i]
    OBVIOUS
  <1>2. \A i \in 1..n : i \in 1..Len(l) /\ (i > 1 => i - 1 \in 1..Len(l))
    OBVIOUS
  <1> HIDE DEF l1
  <1>3. \A i \in 1..n : CommandAt(l1, i) <=> CommandAt(l, i)
    BY <1>1, <1>2 DEF CommandAt
  <1>4. Commands(l1, n) = Commands(l, n)
    BY <1>3 DEF Commands
  <1>5. n > 0 => l1[n] = l[n]
    BY <1>1, <1>2
  <1> QED BY <1>4, <1>5 DEF l1

LEMMA CutLater ==
  ASSUME NEW T, NEW l \in Seq(T), NEW u \in Seq(T), WellCut(l, u),
         NEW piece \in Seq(T), piece # <<>>, HasBlocks(piece), u # <<>> => piece = u
  PROVE  WellCut(Append(l, Head(piece)), Tail(piece))
  <1> DEFINE f == piece[1]
             l1 == Append(l, f)
             u1 == Tail(piece)
  <1>1. /\ Len(l) \in Nat /\ Len(l1) = Len(l) + 1 /\ l1[Len(l) + 1] = f
        /\ \A i \in 1..Len(l) : l1[i] = l[i]
        /\ Head(piece) = f
    OBVIOUS
  <1>2. /\ Len(piece) \in Nat /\ Len(piece) # 0 /\ DOMAIN piece = 1..Len(piece)
        /\ Len(u1) = Len(piece) - 1 /\ DOMAIN u1 = 1..Len(u1)
        /\ \A i \in 1..Len(u1) : u1[i] = piece[i + 1]
    OBVIOUS
  <1>3. \A i \in 1..Len(piece) : Opens(piece[i]) => i < Len(piece) /\ piece[i + 1].cmd = "data"
    BY <1>2 DEF HasBlocks
  <1> HIDE DEF l1, u1, f
  <1>4. HasBlocks(u1)
    <2> SUFFICES ASSUME NEW i \in 1..Len(u1), Opens(u1[i])
                 PROVE  i < Len(u1) /\ u1[i + 1].cmd = "data"
      BY <1>2 DEF HasBlocks
    <2>1. i + 1 \in 1..Len(piece) /\ Opens(piece[i + 1])
      BY <1>2
    <2>2. i + 1 < Len(piece) /\ piece[(i + 1) + 1].cmd = "data"
      BY <1>3, <2>1
    <2>3. i < Len(u1) /\ i + 1 \in 1..Len(u1)
      BY <1>2, <2>2
    <2> QED BY <1>2, <2>2, <2>3
  <1>5. ASSUME NEW i \in 1..Len(l1), Opens(l1[i])
        PROVE  IF i < Len(l1) THEN l1[i + 1].cmd = "data" ELSE u1 # <<>> /\ u1[1].cmd = "data"
    <2>1. CASE i = Len(l) + 1
      <3>1. Opens(f) /\ ~(i < Len(l1))
        BY <1>1, <1>5, <2>1
      <3>2. 1 < Len(piece) /\ piece[1 + 1].cmd = "data"
        BY <1>2, <1>3, <3>1 DEF f
      <3>3. 1 \in 1..Len(u1) /\ u1 # <<>>
        BY <1>2, <3>2
      <3> QED BY <1>2, <3>1, <3>2, <3>3
    <2>2. CASE i \in 1..Len(l) /\ i < Len(l)
      <3>1. i + 1 \in 1..Len(l) /\ i < Len(l1)
        BY <1>1, <2>2
      <3>2. Opens(l[i])
        BY <1>1, <1>5, <2>2
      <3>3. l[i + 1].cmd = "data"
        BY <2>2, <3>2 DEF WellCut
      <3> QED BY <1>1, <3>1, <3>3
    <2>3. CASE i \in 1..Len(l) /\ ~(i < Len(l))
      <3>1. i = Len(l) /\ i < Len(l1) /\ i + 1 = Len(l) + 1
        BY <1>1, <2>3
      <3>2. Opens(l[i])
        BY <1>1, <1>5, <2>3
      <3>3. u # <<>> /\ u[1].cmd = "data"
        BY <2>3, <3>2 DEF WellCut
      <3>4. f.cmd = "data"
        BY <3>3 DEF f
      <3> QED BY <1>1, <3>1, <3>4
    <2>4. i \in 1..Len(l) \/ i = Len(l) + 1
      BY <1>1
    <2> QED BY <2>1, <2>2, <2>3, <2>4
  <1>6. WellCut(l1, u1)
    BY <1>4, <1>5 DEF WellCut
  <1> QED BY <1>1, <1>6 DEF l1, u1

LEMMA SendInTurn ==
  ASSUME TextInv, NEW c \in Conns, Send(c), NEW d \in Conns
  PROVE  InTurn(d)'
  <1>1. PICK piece \in IF unsent[c] # <<>> THEN {unsent[c]} ELSE load.pieces[c] :
          /\ unsent' = [unsent EXCEPT ![c] = Tail(piece)]
          /\ log' = [log EXCEPT ![c] = Append(@, Numbered(c, Head(piece)))]
          /\ in' = [in EXCEPT ![c] = Append(@, Numbered(c, Head(piece)))]
    BY DEF Send
  <1>2. /\ StreamsOK /\ UNCHANGED <<load, proto, pc, todo, out>> /\ InTurn(c) /\ InTurn(d)
    BY DEF Send, TextInv, ReplyInv, CauseInv, ConnInv
  <1> DEFINE f == Numbered(c, Head(piece))
             l == log[c]
             s == in[c]
             n == Len(l) - Len(s)
  <1>3. /\ l \in Seq(Frames \cup Lines) /\ s \in Seq(Frames \cup Lines) /\ Len(s) <= Len(l)
        /\ log'[c] = Append(l, f) /\ in'[c] = Append(s, f) /\ unsent'[c] = Tail(piece)
        /\ d # c => log'[d] = log[d] /\ in'[d] = in[d] /\ unsent'[d] = unsent[d]
    BY <1>1, <1>2 DEF StreamsOK
  <1>4. CASE d # c
    BY <1>2, <1>3, <1>4, InTurnSame
  <1>5. CASE d = c
    <2>1. n \in Nat /\ n <= Len(l) /\ Len(Append(l, f)) - Len(Append(s, f)) = n
      <3>1. /\ Len(l) \in Nat /\ Len(s) \in Nat
            /\ Len(Append(l, f)) = Len(l) + 1 /\ Len(Append(s, f)) = Len(s) + 1
        BY <1>3
      <3>2. \A a, b \in Nat : a <= b => b - a \in Nat /\ b - a <= b /\ (b + 1) - (a + 1) = b - a
        OBVIOUS
      <3> QED BY <1>3, <3>1, <3>2
    <2>2. ASSUME proto[c] = "text", ~load.locked
          PROVE  Told(pc[c], out[c], Append(l, f), n, todo[c])
      <3>1. Told(pc[c], out[c], l, n, todo[c])
        BY <1>2, <2>2 DEF InTurn
      <3> HIDE DEF n, f, l
      <3>2. Commands(Append(l, f), n) = Commands(l, n) /\ (n > 0 => Append(l, f)[n] = l[n])
        BY <1>3, <2>1, CommandLater
      <3> QED BY <3>1, <3>2 DEF Told
    <2>3. ASSUME ~Binary(c) PROVE WellCut(Append(l, f), Tail(piece))
      <3>1. WellCut(l, unsent[c])
        BY <1>2, <2>3 DEF InTurn
      <3>2. /\ load.pieces[c] \subseteq {x \in Seq(Lines) : HasBlocks(x)}
            /\ <<>> \notin load.pieces[c]
        BY <1>2, <2>3, WorkloadsAssumption, ClientsSendFrames DEF StreamsOK, Binary
      <3>3. unsent[c] \in Seq(Lines)
        BY <1>2, <2>3 DEF StreamsOK, Wire
      <3>4. /\ piece \in Seq(Lines) /\ piece # <<>> /\ HasBlocks(piece)
            /\ unsent[c] # <<>> => piece = unsent[c]
        BY <1>1, <3>1, <3>2, <3>3 DEF WellCut
      <3>5. f = Head(piece)
        <4>1. Head(piece) \in Lines
          BY <3>4
        <4>2. ~IsFrame(Head(piece))
          BY <4>1 DEF Lines, IsFrame
        <4> QED BY <4>2 DEF Numbered
      <3>6. piece \in Seq(Frames \cup Lines) /\ unsent[c] \in Seq(Frames \cup Lines)
        BY <3>3, <3>4
      <3> HIDE DEF f
      <3>7. WellCut(Append(l, Head(piece)), Tail(piece))
        BY <1>3, <3>1, <3>4, <3>6, CutLater
      <3> QED BY <3>5, <3>7
    <2> QED BY <1>2, <1>3, <1>5, <2>1, <2>2, <2>3 DEF InTurn, Binary
  <1> QED BY <1>4, <1>5

LEMMA DisambiguateInTurn ==
  ASSUME TextInv, NEW c \in Conns, Disambiguate(c), NEW d \in Conns
  PROVE  InTurn(d)'
  <1>1. /\ StreamsOK /\ HandlerOK /\ pc[c] = "new" /\ Answered(c) /\ InTurn(c) /\ InTurn(d)
        /\ UNCHANGED <<load, log, unsent, in, todo, out>>
    BY DEF Disambiguate, clientVars, TextInv, ReplyInv, CauseInv, ConnInv
  <1>2. /\ d # c => pc'[d] = pc[d] /\ proto'[d] = proto[d]
        /\ pc'[c] \in {"parse", "closed"}
    BY <1>1 DEF Disambiguate, Goto, HandlerOK, StreamsOK
  <1>3. CASE d # c
    BY <1>1, <1>2, <1>3, InTurnSame
  <1>4. CASE d = c
    <2>1. out[c] = <<>> /\ Len(in[c]) = Len(log[c]) /\ Len(log[c]) \in Nat
      BY <1>1 DEF Answered, Exchange, StreamsOK
    <2>2. Len(log[c]) - Len(in[c]) = 0
      BY <2>1
    <2>3. /\ Finals(out[c]) = {} /\ Commands(log[c], 0) = {} /\ IsSeq(out[c])
      <3>1. DOMAIN <<>> = {} /\ 1..0 = {}
        OBVIOUS
      <3> QED BY <2>1, <3>1 DEF Finals, Commands, IsSeq
    <2>4. Told(pc'[c], out[c], log[c], 0, todo[c])
      BY <1>2, <2>3 DEF Told
    <2> QED BY <1>1, <1>4, <2>2, <2>4, InTurnIs
  <1> QED BY <1>3, <1>4

\* A parse that succeeds, or finds an error in the line, takes one command.
LEMMA ParseTakesCommand ==
  ASSUME TextInv, NEW c \in Conns, pc[c] = "parse", proto[c] = "text", ~load.locked,
         ParseIn(c).err # "blocked"
  PROVE  LET p == ParseIn(c)
             l == log[c]
             n == Len(l) - Len(in[c])
             e == Len(l) - Len(p.rest)
         IN /\ IsSeq(out[c]) /\ e \in Nat /\ (e > 0 => ~Opens(l[e]))
            /\ Cardinality(Finals(out[c])) + 1 = Cardinality(Commands(l, e))
            /\ p.err = "nil" => p.req.op # "Gat"
  <1> DEFINE p == ParseIn(c)
             l == log[c]
             s == in[c]
             n == Len(l) - Len(s)
             e == Len(l) - Len(p.rest)
  <1>1. StreamsOK /\ Follows(c) /\ InTurn(c)
    BY DEF TextInv, ReplyInv, CauseInv, ConnInv
  <1>2. /\ s \in Seq(Lines) /\ p = Text!Parse(s) /\ ~Binary(c)
        /\ l \in Seq(Frames \cup Lines) /\ Len(s) <= Len(l)
    BY <1>1 DEF StreamsOK, Wire, ParseIn
  <1>3. TextMakes(p, s)
    BY <1>2, TextParseMakes
  <1>4. Told("parse", out[c], l, n, todo[c]) /\ WellCut(l, unsent[c])
    BY <1>1, <1>2 DEF InTurn
  <1>5. \A i \in 1..Len(s) : s[i] = l[n + i]
    BY <1>1 DEF Follows, IsEnd
  <1>6. Len(s) \in Nat /\ Len(l) \in Nat /\ n \in Nat
    BY <1>2
  <1> HIDE DEF p, l, s
  <1>7. /\ s # <<>> /\ (p.err = "nil" => p.req.op # "Gat")
        /\ IF Opens(s[1]) THEN Len(s) > 1 /\ Len(p.rest) = Len(s) - 2
                          ELSE Len(p.rest) = Len(s) - 1
    BY <1>3 DEF TextMakes, p
  <1>8. s[1] = l[n + 1]
    <2>1. 1 \in 1..Len(s)
      BY <1>2, <1>6, <1>7
    <2> QED BY <1>5, <2>1
  <1>9. IF Opens(l[n + 1]) THEN e = n + 2 /\ l[n + 2].cmd = "data" ELSE e = n + 1
    <2>0. \A a, b, k \in Nat : b - (a - k) = (b - a) + k
      OBVIOUS
    <2>1. CASE Opens(l[n + 1])
      <3>1. Len(s) > 1 /\ Len(p.rest) = Len(s) - 2
        BY <1>7, <1>8, <2>1
      <3>2. e = n + 2
        BY <1>6, <2>0, <3>1
      <3>3. n + 1 \in 1..Len(l) /\ n + 1 < Len(l)
        <4>1. \A a, b \in Nat : a > 1 /\ a <= b => (b - a) + 1 \in 1..b /\ (b - a) + 1 < b
          OBVIOUS
        <4> QED BY <1>2, <1>6, <3>1, <4>1
      <3>4. l[(n + 1) + 1].cmd = "data"
        BY <1>4, <2>1, <3>3 DEF WellCut
      <3>5. (n + 1) + 1 = n + 2
        BY <1>6
      <3> QED BY <2>1, <3>2, <3>4, <3>5
    <2>2. CASE ~Opens(l[n + 1])
      <3>1. Len(p.rest) = Len(s) - 1
        BY <1>7, <1>8, <2>2
      <3>2. e = n + 1
        BY <1>6, <2>0, <3>1
      <3> QED BY <2>2, <3>2
    <2> QED BY <2>1, <2>2
  <1> HIDE DEF n, e
  <1>10. /\ Cardinality(Commands(l, e)) = Cardinality(Commands(l, n)) + 1
         /\ e \in Nat /\ e > 0 /\ ~Opens(l[e])
    BY <1>4, <1>6, <1>9, OneCommand DEF Told
  <1>11. IsSeq(out[c]) /\ Cardinality(Finals(out[c])) = Cardinality(Commands(l, n))
    BY <1>4 DEF Told
  <1> QED BY <1>7, <1>10, <1>11 DEF p, l, s, n, e

LEMMA ParseInTurn ==
  ASSUME TextInv, NEW c \in Conns, ParseRequest(c), NEW d \in Conns
  PROVE  InTurn(d)'
  <1> DEFINE p == ParseIn(c)
             l == log[c]
             e == Len(l) - Len(p.rest)
  <1>1. /\ StreamsOK /\ HandlerOK /\ pc[c] = "parse" /\ UNCHANGED <<load, log, unsent, proto>>
        /\ out = [x \in Conns |-> out[x]] /\ InTurn(c) /\ InTurn(d)
    BY DEF ParseRequest, clientVars, TextInv, ReplyInv, CauseInv, ConnInv
  <1>2. CASE d # c
    <2>1. pc'[d] = pc[d] /\ in'[d] = in[d] /\ todo'[d] = todo[d] /\ out'[d] = out[d]
      BY <1>1, <1>2 DEF ParseRequest, Served, Goto, Write, HandlerOK, StreamsOK
    <2> QED BY <1>1, <1>2, <2>1, InTurnSame
  <1>3. CASE d = c /\ (proto[c] # "text" \/ load.locked \/ Goto(c, "closed"))
    <2>1. Goto(c, "closed") => pc'[c] = "closed"
      BY <1>1 DEF Goto, HandlerOK
    <2> QED BY <1>1, <1>3, <2>1, InTurnIs DEF Told
  <1>4. CASE d = c /\ proto[c] = "text" /\ ~load.locked /\ ~Goto(c, "closed")
    <2>1. p.err # "blocked" /\ in'[c] = p.rest
      BY <1>1, <1>4 DEF ParseRequest, Survivable, StreamsOK
    <2>2. /\ IsSeq(out[c]) /\ e \in Nat /\ (e > 0 => ~Opens(l[e]))
          /\ Cardinality(Finals(out[c])) + 1 = Cardinality(Commands(l, e))
          /\ p.err = "nil" => p.req.op # "Gat"
      BY <1>1, <1>4, <2>1, ParseTakesCommand
    <2>3. ASSUME NEW word, out'[c] = out[c] \o Text!Final(word), pc'[c] = "parse"
          PROVE  InTurn(c)'
      <3>1. EndsOnce(Text!Final(word))
        BY FinalEnds
      <3>2. /\ IsSeq(out'[c])
            /\ Cardinality(Finals(out'[c])) = Cardinality(Finals(out[c])) + 1
        BY <2>2, <2>3, <3>1, OneFinal
      <3>3. Told(pc'[c], out'[c], l, e, todo'[c])
        BY <2>2, <2>3, <3>2 DEF Told
      <3> QED BY <1>1, <2>1, <3>3, InTurnIs
    <2>4. CASE p.err \in Survivable
      <3>1. Write(c, Text!Error(p.err)) /\ pc' = pc
        BY <2>4 DEF ParseRequest, Survivable
      <3>2. \E word : Text!Error(p.err) = Text!Final(word)
        BY DEF Text!Error
      <3>3. out'[c] = out[c] \o Text!Error(p.err) /\ pc'[c] = "parse"
        BY <1>1, <3>1 DEF Write
      <3> QED BY <1>4, <2>3, <3>2, <3>3
    <2>5. CASE p.err = "nil" /\ p.req.op \notin Methods
      <3>1. Served(c, p.req)
        BY <2>5 DEF ParseRequest, Survivable
      <3>2. \/ Write(c, Success(c, p.req)) /\ Goto(c, "parse")
            \/ Write(c, ErrorReply(c, p.req, "UnknownCmd")) /\ Goto(c, "parse")
        BY <1>4, <3>1 DEF Served
      <3>3. \E reply : /\ out'[c] = out[c] \o reply /\ pc'[c] = "parse"
                       /\ reply \in {Success(c, p.req), ErrorReply(c, p.req, "UnknownCmd")}
        BY <1>1, <3>2 DEF Write, Goto, HandlerOK
      <3>4. /\ \E word : Success(c, p.req) = Text!Final(word)
            /\ \E word : ErrorReply(c, p.req, "UnknownCmd") = Text!Final(word)
        BY <1>4 DEF Success, ErrorReply, Text!Success, Text!Error
      <3> QED BY <1>4, <2>3, <3>3, <3>4
    <2>6. CASE p.err = "nil" /\ p.req.op \in Methods
      <3>1. todo' = [todo EXCEPT ![c] = Requests(p.req)] /\ Goto(c, "handler") /\ out' = out
        BY <2>6 DEF ParseRequest, Survivable
      <3>2. Requests(p.req) = <<p.req>>
        BY <1>4 DEF Requests
      <3>3. todo'[c] = <<p.req>> /\ pc'[c] = "handler" /\ out'[c] = out[c]
        BY <1>1, <3>1, <3>2 DEF Goto, HandlerOK
      <3>4. Len(<<p.req>>) = 1 /\ <<p.req>>[1] = p.req
        OBVIOUS
      <3> HIDE DEF p, l, e
      <3>5. Told(pc'[c], out'[c], l, e, todo'[c])
        BY <2>2, <2>6, <3>3, <3>4 DEF Told
      <3> QED BY <1>1, <1>4, <2>1, <3>5, InTurnIs DEF l, e
    <2> QED BY <1>4, <2>1, <2>4, <2>5, <2>6 DEF ParseRequest
  <1> QED BY <1>2, <1>3, <1>4

LEMMA FinishInTurn ==
  ASSUME TextInv, NEW c \in Conns, Finish(c), NEW d \in Conns
  PROVE  InTurn(d)'
  <1> DEFINE l == log[c]
             n == Len(l) - Len(in[c])
             r == call[c]
  <1>1. /\ StreamsOK /\ HandlerOK /\ InMethod(c) /\ pc[c] = "handler"
        /\ UNCHANGED <<load, log, unsent, in, proto>>
        /\ todo' = [todo EXCEPT ![c] = Tail(@)]
        /\ out = [x \in Conns |-> out[x]] /\ InTurn(c) /\ InTurn(d) /\ Answered(c)
    BY DEF Finish, clientVars, TextInv, ReplyInv, CauseInv, ConnInv
  <1>2. CASE d # c
    <2>1. pc'[d] = pc[d] /\ todo'[d] = todo[d] /\ out'[d] = out[d]
      BY <1>1, <1>2 DEF Finish, Goto, Write, HandlerOK
    <2> QED BY <1>1, <1>2, <2>1, InTurnSame
  <1>3. CASE d = c /\ (proto[c] # "text" \/ load.locked \/ Goto(c, "closed"))
    <2>1. Goto(c, "closed") => pc'[c] = "closed"
      BY <1>1 DEF Goto, HandlerOK
    <2> QED BY <1>1, <1>3, <2>1, InTurnIs DEF Told
  <1>4. CASE d = c /\ proto[c] = "text" /\ ~load.locked /\ ~Goto(c, "closed")
    <2>1. Told("handler", out[c], l, n, todo[c])
      BY <1>1, <1>4 DEF InTurn
    <2>2. /\ Len(todo[c]) = 1 /\ todo[c][1].op # "Gat" /\ IsSeq(out[c])
          /\ Cardinality(Finals(out[c])) + 1 = Cardinality(Commands(l, n))
          /\ (n > 0 => ~Opens(l[n]))
      BY <2>1 DEF Told
    <2>3. r \in Calls /\ r.op # "Gat"
      BY <1>1, <2>2 DEF InMethod, Answered, Exchange
    <2>4. Write(c, Replies(c, r)) /\ Goto(c, "parse")
      BY <1>4, <2>2 DEF Finish
    <2>5. out'[c] = out[c] \o Replies(c, r) /\ pc'[c] = "parse"
      BY <1>1, <2>4 DEF Write, Goto, HandlerOK
    <2> HIDE DEF r
    <2>6. EndsOnce(Replies(c, r))
      BY <1>4, <2>3, RepliesEnd
    <2>7. IsSeq(out'[c]) /\ Cardinality(Finals(out'[c])) = Cardinality(Finals(out[c])) + 1
      BY <2>2, <2>5, <2>6, OneFinal
    <2>8. Told(pc'[c], out'[c], l, n, todo'[c])
      BY <2>2, <2>5, <2>7 DEF Told
    <2> QED BY <1>1, <1>4, <2>8, InTurnIs
  <1> QED BY <1>2, <1>3, <1>4

LEMMA TextStep ==
  ASSUME TextInv, [Next]_vars
  PROVE  TextInv'
  <1>1. ReplyInv'
    BY ReplyStep DEF TextInv
  <1>2. CASE UNCHANGED <<load, log, unsent, in, proto, pc, todo, out>>
    BY <1>1, <1>2, InTurnSame DEF TextInv
  <1>3. CASE UNCHANGED vars
    BY <1>2, <1>3 DEF vars, clientVars
  <1>4. CASE Clock \/ \E c \in Conns : InHandler(c) \/ HangUp(c)
    BY <1>2, <1>4 DEF Clock, InHandler, HangUp, clientVars
  <1>5. ASSUME NEW c \in Conns, Send(c) \/ Disambiguate(c) \/ ParseRequest(c) \/ Finish(c)
        PROVE  TextInv'
    BY <1>1, <1>5, SendInTurn, DisambiguateInTurn, ParseInTurn, FinishInTurn DEF TextInv
  <1> QED BY <1>3, <1>4, <1>5 DEF Next, ServerStep

-----------------------------------------------------------------------------
(***************************************************************************)
(* Theorems.                                                               *)
(***************************************************************************)

\* The invariant holds.
LEMMA ConnInvariant == Spec => []ConnInv
  <1>1. Init => ConnInv
    BY InitConn
  <1>2. ConnInv /\ [Next]_vars => ConnInv'
    BY NextStep
  <1> QED BY <1>1, <1>2, PTL DEF Spec

\* Whatever clients send, in either protocol and cut where they like, every
\* variable keeps its type: the parsers make well-formed requests of it, the
\* loop is in a handler only with one to serve, and never has more to parse
\* than was sent.
THEOREM ConnTypes == Spec => []TypeOK
  <1>1. ConnInv => TypeOK
    <2> SUFFICES ASSUME ConnInv PROVE TypeOK
      OBVIOUS
    <2>1. HandlerOK /\ StreamsOK /\ OnlyGetsClash /\ \A c \in Conns : InMethod(c)
      BY DEF ConnInv
    <2>2. InMemTypeOK
      <3>1. clash \subseteq Methods
        BY <2>1 DEF OnlyGetsClash, Methods
      <3>2. /\ data \in [Keys -> Entry \cup {None}] /\ now \in Nat
            /\ at \in [Conns -> Places] /\ got \in [Conns -> Seq(Response)]
        BY <2>1 DEF HandlerOK
      <3>3. fatal \in BOOLEAN
        BY <2>1 DEF HandlerOK
      <3> QED BY <3>1, <3>2, <3>3 DEF InMemTypeOK
    <2>3. \A c \in Conns : pieces[c] \in 0..load.most[c]
      <3> SUFFICES ASSUME NEW c \in Conns PROVE pieces[c] \in 0..load.most[c]
        OBVIOUS
      <3>1. load.most[c] \in Nat
        BY <2>1, WorkloadOf DEF StreamsOK
      <3>2. pieces[c] \in Nat /\ pieces[c] <= load.most[c]
        BY <2>1 DEF StreamsOK
      <3> QED BY <3>1, <3>2
    <2>4. /\ load \in Workloads /\ eof \subseteq Conns
          /\ proto \in [Conns -> {"none", "binary", "text"}]
          /\ pc \in [Conns -> {"new", "parse", "handler", "closed"}]
      BY <2>1 DEF StreamsOK, HandlerOK
    <2>5. \A c \in Conns : /\ pc[c] = "handler" => todo[c] # <<>> /\ at[c] # "out"
                           /\ Len(in[c]) <= Len(log[c])
      BY <2>1 DEF StreamsOK, InMethod
    <2> QED BY <2>2, <2>3, <2>4, <2>5 DEF TypeOK
  <1> QED BY <1>1, ConnInvariant, PTL

\* The responses of a get of the in-memory handler are a snapshot of the map,
\* for any number of keys, connections and concurrent gets, though each of them
\* deletes what has expired with the read lock only.
THEOREM GetsAreSnapshots == Spec => []SnapshotGets
  <1>1. ConnInv => SnapshotGets
    BY DEF ConnInv
  <1> QED BY <1>1, ConnInvariant, PTL

\* If the runtime ends the process because of a concurrent access to the map,
\* the two that were in it are gets.
THEOREM OnlyGetsThrow == Spec => []OnlyGetsClash
  <1>1. ConnInv => OnlyGetsClash
    BY DEF ConnInv
  <1> QED BY <1>1, ConnInvariant, PTL

\* A live entry leaves the map only in a delete of its key, or in an add, which
\* Add of the in-memory handler refuses because of it.
THEOREM EntriesAreKept == Spec => [][KeptInStep]_vars
  <1>1. ConnInv /\ [Next]_vars => [KeptInStep]_vars
    BY KeptStep
  <1> QED BY <1>1, ConnInvariant, PTL DEF Spec

\* Whatever clients send, and however their connections interleave, the server
\* closes one only for a cause the client gave: it has gone, it asked, or, in
\* the binary protocol, it sent what the parser cannot go on after.
THEOREM ClosesForCause == Spec => []ClosedForCause
  <1>1. Init => CauseInv
    BY InitCause
  <1>2. CauseInv /\ [Next]_vars => CauseInv'
    BY CauseStep
  <1>3. CauseInv => ClosedForCause
    BY DEF CauseInv
  <1> QED BY <1>1, <1>2, <1>3, PTL DEF Spec

\* A client of the binary protocol can tell from the opaques what was answered:
\* however its frames are cut, pipelined and interleaved with other connections,
\* with and without the locking wrapper, the responses are in the order of the
\* commands, one at most for each and one for each that is not quiet.
THEOREM BinaryClientsAreAnswered == Spec => []BinaryReplies
  <1>1. Init => ReplyInv
    BY InitReply
  <1>2. ReplyInv /\ [Next]_vars => ReplyInv'
    BY ReplyStep
  <1>3. ReplyInv => BinaryReplies
    <2> SUFFICES ASSUME ReplyInv, NEW c \in Conns, proto[c] = "binary", pc[c] = "parse",
                        ~HasStray(log[c])
                 PROVE  LET served == Consumed(c)
                            opaques == [i \in DOMAIN out[c] |-> out[c][i].opaque]
                        IN
                        /\ \A i, j \in DOMAIN opaques : i < j => opaques[i] < opaques[j]
                        /\ Range(opaques) \subseteq DOMAIN served
                        /\ \A i \in DOMAIN served :
                             served[i].op \notin Bin!Quiet => i \in Range(opaques)
                        /\ \A i \in DOMAIN out[c] :
                             served[opaques[i]].op \in {"GetQ", "GetEQ"} =>
                               out[c][i].status # "KeyNotFound"
      BY DEF BinaryReplies
    <2> DEFINE l == log[c]
               o == out[c]
               n == Len(l) - Len(in[c])
               served == SubSeq(l, 1, n)
               opaques == [i \in DOMAIN o |-> o[i].opaque]
    <2>1. StreamsOK /\ Answered(c)
      BY DEF ReplyInv, CauseInv, ConnInv
    <2>2. l \in Seq(Frames \cup Lines) /\ n \in Nat /\ n <= Len(l) /\ Answers(o, l, 0, n)
      BY <2>1 DEF StreamsOK, Answered, Exchange, Done
    <2>3. DOMAIN o = 1..Len(o) /\ 0 + 1 = 1
      BY <2>2 DEF Answers, IsSeq
    <2> HIDE DEF l, o, n
    <2>4. DOMAIN served = 1..n /\ \A i \in 1..n : served[i] = l[i]
      BY <2>2
    <2>5. Consumed(c) = served
      BY DEF Consumed, l, n
    <2> HIDE DEF served
    <2>6. /\ DOMAIN opaques = 1..Len(o)
          /\ \A j \in 1..Len(o) : opaques[j] = o[j].opaque
          /\ Range(opaques) = {o[j].opaque : j \in 1..Len(o)}
      BY <2>3 DEF Range
    <2> HIDE DEF opaques
    <2>7. /\ \A j \in 1..Len(o) : o[j].opaque \in 1..n
          /\ \A j \in 1..Len(o) :
               l[o[j].opaque].op \in {"GetQ", "GetEQ"} => o[j].status # "KeyNotFound"
          /\ \A j, k \in 1..Len(o) : j < k => o[j].opaque < o[k].opaque
          /\ \A i \in 1..n :
               l[i].op \notin Bin!Quiet => \E j \in 1..Len(o) : o[j].opaque = i
      BY <2>2, <2>3 DEF Answers
    <2>8. \A i, j \in DOMAIN opaques : i < j => opaques[i] < opaques[j]
      BY <2>6, <2>7
    <2>9. Range(opaques) \subseteq DOMAIN served
      BY <2>4, <2>6, <2>7
    <2>10. \A i \in DOMAIN served : served[i].op \notin Bin!Quiet => i \in Range(opaques)
      BY <2>4, <2>6, <2>7
    <2>11. \A i \in DOMAIN o :
             served[opaques[i]].op \in {"GetQ", "GetEQ"} => o[i].status # "KeyNotFound"
      BY <2>3, <2>4, <2>6, <2>7
    <2> QED BY <2>5, <2>8, <2>9, <2>10, <2>11 DEF opaques, o
  <1> QED BY <1>1, <1>2, <1>3, PTL DEF Spec

\* Without the locking wrapper, a client of the text protocol can count on one
\* final line for each command line it sends, bad lines and unknown commands
\* included, for any number of keys in a get and however lines and data blocks
\* are cut and interleaved with other connections.
THEOREM TextClientsAreAnswered == Spec => []TextReplies
  <1>1. Init => TextInv
    <2> SUFFICES ASSUME Init PROVE TextInv
      OBVIOUS
    <2>1. ASSUME NEW c \in Conns PROVE InTurn(c)
      <3>1. /\ pc[c] = "new" /\ proto[c] = "none" /\ log[c] = <<>> /\ unsent[c] = <<>>
            /\ Len(<<>>) = 0 /\ 1..0 = {} /\ DOMAIN <<>> = {}
        BY DEF Init
      <3>2. WellCut(log[c], unsent[c])
        BY <3>1 DEF WellCut, HasBlocks
      <3> QED BY <3>1, <3>2 DEF InTurn
    <2> QED BY <2>1, InitReply DEF TextInv
  <1>2. TextInv /\ [Next]_vars => TextInv'
    BY TextStep
  <1>3. TextInv => TextReplies
    <2> SUFFICES ASSUME TextInv, ~load.locked, NEW c \in Conns, proto[c] = "text", pc[c] = "parse"
                 PROVE  Cardinality(Finals(out[c])) =
                          Cardinality({i \in DOMAIN Consumed(c) : CommandAt(Consumed(c), i)})
      BY DEF TextReplies, TextAnswersOnce
    <2> DEFINE l == log[c]
               n == Len(l) - Len(in[c])
               served == SubSeq(l, 1, n)
    <2>1. StreamsOK /\ InTurn(c)
      BY DEF TextInv, ReplyInv, CauseInv, ConnInv
    <2>2. /\ l \in Seq(Frames \cup Lines) /\ n \in Nat /\ n <= Len(l)
          /\ Cardinality(Finals(out[c])) = Cardinality(Commands(l, n))
      BY <2>1 DEF StreamsOK, InTurn, Told
    <2>3. Consumed(c) = served
      BY DEF Consumed
    <2> HIDE DEF l, n
    <2>4. DOMAIN served = 1..n /\ \A i \in 1..n : served[i] = l[i]
      BY <2>2
    <2> HIDE DEF served
    <2>5. \A i \in 1..n : i > 1 => i - 1 \in 1..n
      BY <2>2
    <2>6. \A i \in 1..n : CommandAt(served, i) <=> CommandAt(l, i)
      BY <2>4, <2>5 DEF CommandAt
    <2>7. Commands(l, n) = {i \in DOMAIN served : CommandAt(served, i)}
      BY <2>4, <2>6 DEF Commands
    <2> QED BY <2>2, <2>3, <2>7
  <1> QED BY <1>1, <1>2, <1>3, PTL DEF Spec

=============================================================================
