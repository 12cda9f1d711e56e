--------------------------- MODULE MultiGetProofs ---------------------------
(***************************************************************************)
(* A get of several keys, for any number of keys, requests and failures:   *)
(* whose turn it is on each handler, that a call reads its own answer, and *)
(* that the answers are true and, at the end, complete.                    *)
(***************************************************************************)
EXTENDS MultiGet, FiniteSetTheorems, SequenceTheorems, TLAPS

(***************************************************************************)
(* The inductive invariant.                                                *)
(***************************************************************************)

\* A goroutine that has keys to ask for, or something to send.
Busy == {"write", "read", "send", "sendErr"}

Closing == {"close", "closeErr", "done"}

Getting == pc \in {"L1Get", "L2Get", "Fill"}

\* A goroutine is busy only in its turn, or when it has been left behind.
TurnOf(g) ==
  \/ g = <<1, n>> /\ pc = "L1Get"
  \/ g = <<2, n>> /\ pc \in {"L2Get", "Fill"}
  \/ g \in left

TurnsOK ==
  /\ \A g \in Goroutines : gos[g].at \in Busy => TurnOf(g)
  /\ \A g \in left : /\ g[1] = 2 /\ g[2] <= n
                     /\ pc \notin {"idle", "closed"} => g[2] < n
  /\ left # {} => orca = "L1L2"
  /\ pc = "Fill" => orca = "L1L2"
  /\ pc = "L2Get" => orca # "L1Only"
  /\ lost => orca = "L1L2"
  /\ pc \notin {"idle", "closed"} => n # 0 /\ req # None /\ ended = "none"
  /\ Getting => req.op = "Get"
  /\ pc \in {"Set1", "Set2"} => req.op = "Set"
  /\ sent => Calling
  /\ pc = "closed" => broken = Levels
  /\ crossed => left # {}

\* The commands on a working socket are those of the calls under way, at most
\* one of each, and nobody but a goroutine asks for a key.
SocksOK ==
  ~crossed =>
    /\ \A lv \in Levels \ broken :
         /\ \A i \in DOMAIN sock[lv] : sock[lv][i].by \in InCall(lv)
         /\ \A i, j \in DOMAIN sock[lv] : sock[lv][i].by = sock[lv][j].by => i = j
         /\ \A i \in DOMAIN sock[lv] :
              sock[lv][i].by \in Goroutines => sock[lv][i].ans \in {"hit", "miss", "Busy"}
    /\ \A g \in Goroutines : gos[g].at = "sendErr" => gos[g].ans \in {"Busy", "IOError"}

\* What the goroutine whose turn it is has been told, or is about to be.
CurrentKey == gos[Current].keys[gos[Current].idx]

TruthOK ==
  (Getting /\ ~crossed) =>
    /\ gos[Current].at = "send" =>
         /\ gos[Current].ans \in {"hit", "miss"}
         /\ gos[Current].ans = "hit" <=> CurrentKey \in holds[Level]
    /\ (gos[Current].at = "read" /\ Level \notin broken) =>
         \A i \in DOMAIN sock[Level] :
           sock[Level][i].by = Current =>
             /\ sock[Level][i].ans = "hit" => CurrentKey \in holds[Level]
             /\ sock[Level][i].ans = "miss" => CurrentKey \notin holds[Level]

\* The keys on their way to L2, and the one on its way back.
MissesOK ==
  Getting =>
    /\ \A i \in DOMAIN l2keys : l2keys[i] \in holds[1] => l2keys[i] \in holds[2]
    /\ pc = "Fill" => hand \in Keys /\ hand \in holds[2]

\* How far the get has come.
AnsweredKeys == {answered[i].key : i \in DOMAIN answered}

Handed == IF pc = "Fill" THEN {hand} ELSE {}

Count == Len(answered) + IF pc = "Fill" THEN 1 ELSE 0

KeysOf(s) == {s[i] : i \in DOMAIN s}

L1Progress ==
  LET go == gos[<<1, n>>] IN
  pc = "L1Get" =>
    /\ go.keys = req.keys /\ go.at # "none"
    /\ AnsweredKeys \cup KeysOf(l2keys) \subseteq KeysOf(req.keys)
    /\ orca = "L1Only" => l2keys = <<>>
    /\ go.at \in Busy =>
         /\ go.idx \in 1..Len(req.keys)
         /\ Len(answered) + Len(l2keys) = go.idx - 1
         /\ \A i \in 1..(go.idx - 1) : req.keys[i] \in AnsweredKeys \cup KeysOf(l2keys)
    /\ go.at \in Closing =>
         /\ Len(answered) + Len(l2keys) <= Len(req.keys)
         /\ err = "nil" =>
              /\ Len(answered) + Len(l2keys) = Len(req.keys)
              /\ KeysOf(req.keys) \subseteq AnsweredKeys \cup KeysOf(l2keys)

L2Progress ==
  LET go == gos[<<2, n>>] IN
  pc \in {"L2Get", "Fill"} =>
    /\ go.keys = l2keys /\ go.at # "none" /\ Len(l2keys) <= Len(req.keys)
    /\ AnsweredKeys \cup Handed \cup KeysOf(l2keys) \subseteq KeysOf(req.keys)
    /\ go.at \in Busy =>
         /\ go.idx \in 1..Len(l2keys)
         /\ Count + Len(l2keys) - (go.idx - 1) <= Len(req.keys)
         /\ \A i \in 1..(go.idx - 1) : l2keys[i] \in AnsweredKeys \cup Handed
         /\ (err = "nil" /\ ~lost) =>
              /\ Count + Len(l2keys) - (go.idx - 1) = Len(req.keys)
              /\ KeysOf(req.keys) \subseteq AnsweredKeys \cup Handed \cup KeysOf(l2keys)
    /\ go.at \in Closing =>
         /\ Count <= Len(req.keys)
         /\ (err = "nil" /\ ~lost) =>
              /\ Count = Len(req.keys)
              /\ KeysOf(req.keys) \subseteq AnsweredKeys \cup Handed

MultiGetInv ==
  /\ TypeOK
  /\ TurnsOK
  /\ SocksOK
  /\ TruthOK
  /\ MissesOK
  /\ L1Progress
  /\ L2Progress
  /\ EndIsComplete
  /\ TrueAnswers

-----------------------------------------------------------------------------
(***************************************************************************)
(* Types.                                                                  *)
(***************************************************************************)

\* What is on a socket.
Commands == [by : Callers, ans : Answers]

LEMMA SocksAre ==
  ASSUME TypeOK
  PROVE  sock \in [Levels -> Seq(Commands)]
  BY DEF TypeOK, Commands

LEMMA KeyListIs ==
  ASSUME NEW keys \in KeyLists
  PROVE  keys \in Seq(Keys) /\ Len(keys) \in 1..MaxKeys /\ DOMAIN keys = 1..Len(keys)
  <1>1. PICK i \in 1..MaxKeys : keys \in [1..i -> Keys]
    BY DEF KeyLists
  <1>2. i \in Nat
    BY <1>1, MultiGetAssumption
  <1> QED BY <1>1, <1>2

LEMMA RequestIs ==
  ASSUME TypeOK, req # None
  PROVE  req.op \in {"Get", "Set"} /\ req.keys \in Seq(Keys) /\ Len(req.keys) \in 1..MaxKeys
         /\ DOMAIN req.keys = 1..Len(req.keys)
  <1>1. req \in Requests
    BY DEF TypeOK
  <1>2. req.op \in {"Get", "Set"} /\ req.keys \in KeyLists
    BY <1>1 DEF Requests
  <1> QED BY <1>2, KeyListIs

\* The loop's calls and the goroutines of the request have names.
LEMMA NamesAre ==
  ASSUME TypeOK, TurnsOK, pc \notin {"idle", "closed"}
  PROVE  /\ n \in 1..MaxReqs /\ <<1, n>> \in Goroutines /\ <<2, n>> \in Goroutines
         /\ <<0, n>> \in Callers /\ <<0, n>> \notin Goroutines
         /\ Level \in Levels /\ Current \in Goroutines /\ Current = <<Level, n>>
         /\ Current \in {<<1, n>>, <<2, n>>} /\ CallLevel \in Levels
  <1>1. n \in 1..MaxReqs
    BY MultiGetAssumption DEF TypeOK, TurnsOK
  <1> QED BY <1>1 DEF Goroutines, Levels, Callers, Level, Current, CallLevel

LEMMA GoIs ==
  ASSUME TypeOK, NEW g \in Goroutines, NEW at \in GoStates,
         NEW ans \in Answers \cup Errors, Go(g, at, ans)
  PROVE  /\ gos' \in [Goroutines -> Goroutine]
         /\ gos'[g].at = at /\ gos'[g].ans = ans
         /\ gos'[g].keys = gos[g].keys /\ gos'[g].idx = gos[g].idx
         /\ \A h \in Goroutines : h # g => gos'[h] = gos[h]
  <1>1. gos \in [Goroutines -> Goroutine] /\ gos[g] \in Goroutine
    BY DEF TypeOK
  <1>2. gos' = [gos EXCEPT ![g] = [[gos[g] EXCEPT !.at = at] EXCEPT !.ans = ans]]
    BY <1>1 DEF Go
  <1>3. [[gos[g] EXCEPT !.at = at] EXCEPT !.ans = ans] \in Goroutine
    BY <1>1 DEF Goroutine
  <1>4. gos'[g] = [[gos[g] EXCEPT !.at = at] EXCEPT !.ans = ans]
    BY <1>1, <1>2
  <1> QED BY <1>1, <1>2, <1>3, <1>4 DEF Goroutine

LEMMA GoroutineIs ==
  ASSUME TypeOK, NEW g \in Goroutines
  PROVE  /\ gos[g].at \in GoStates /\ gos[g].keys \in Seq(Keys)
         /\ gos[g].idx \in 0..MaxKeys /\ gos[g].idx \in Nat
         /\ gos[g].ans \in Answers \cup Errors
         /\ g[1] \in Levels /\ g \in Callers /\ g[2] \in 1..MaxReqs
  <1>1. gos[g] \in Goroutine
    BY DEF TypeOK
  <1> QED BY <1>1 DEF Goroutine, Goroutines, Callers

\* Write and Read, as the invariant sees them.
LEMMA WriteIs ==
  ASSUME TypeOK, NEW lv \in Levels, NEW who \in Callers, NEW ans \in Answers,
         Write(lv, who, ans)
  PROVE  /\ sock' \in [Levels -> Seq(Commands)]
         /\ faults' \in 0..MaxFaults
         /\ \E e \in {ans, "Busy"} :
              sock' = [sock EXCEPT ![lv] = Append(sock[lv], [by |-> who, ans |-> e])]
  <1>1. PICK refused \in BOOLEAN :
          /\ refused => faults < MaxFaults
          /\ faults' = faults + (IF refused THEN 1 ELSE 0)
          /\ sock' = [sock EXCEPT
               ![lv] = Append(@, [by |-> who, ans |-> IF refused THEN "Busy" ELSE ans])]
    BY DEF Write
  <1> DEFINE e == IF refused THEN "Busy" ELSE ans
             cmd == [by |-> who, ans |-> e]
  <1>2. e \in {ans, "Busy"} /\ e \in Answers
    BY DEF Answers
  <1>3. sock' = [sock EXCEPT ![lv] = Append(sock[lv], cmd)]
    BY <1>1
  <1>4. faults' \in 0..MaxFaults
    <2>1. faults \in 0..MaxFaults
      BY DEF TypeOK
    <2>2. faults' = faults \/ (faults < MaxFaults /\ faults' = faults + 1)
      BY <1>1, <2>1
    <2> QED BY <2>1, <2>2, MultiGetAssumption
  <1> HIDE DEF e
  <1>5. cmd \in Commands
    BY <1>2 DEF Commands
  <1> HIDE DEF cmd
  <1>6. sock \in [Levels -> Seq(Commands)]
    BY SocksAre
  <1>7. Append(sock[lv], cmd) \in Seq(Commands)
    BY <1>5, <1>6
  <1>8. sock' \in [Levels -> Seq(Commands)]
    BY <1>3, <1>6, <1>7
  <1> QED BY <1>2, <1>3, <1>4, <1>8 DEF cmd

LEMMA ReadIs ==
  ASSUME TypeOK, NEW lv \in Levels, NEW who, NEW ans, NEW brk, Read(lv, who, ans, brk)
  PROVE  /\ sock' \in [Levels -> Seq(Commands)]
         /\ faults' \in 0..MaxFaults /\ crossed' \in BOOLEAN
         /\ ans \in Answers \cup {"IOError"} /\ brk \subseteq Levels /\ broken \subseteq brk
         /\ \/ /\ lv \notin broken /\ sock[lv] # <<>> /\ ans = Head(sock[lv]).ans
               /\ brk = broken /\ crossed' = (Head(sock[lv]).by # who)
               /\ sock' = [sock EXCEPT ![lv] = Tail(sock[lv])]
            \/ lv \in brk /\ ans = "IOError" /\ sock' = sock /\ crossed' = crossed
  <1>0. /\ sock \in [Levels -> Seq(Commands)] /\ broken \subseteq Levels
        /\ faults \in 0..MaxFaults /\ crossed \in BOOLEAN
    BY SocksAre DEF TypeOK
  <1>1. CASE /\ lv \notin broken /\ sock[lv] # <<>>
             /\ ans = Head(sock[lv]).ans /\ brk = broken
             /\ crossed' = (Head(sock[lv]).by # who)
             /\ sock' = [sock EXCEPT ![lv] = Tail(@)]
             /\ UNCHANGED faults
    <2>1. Head(sock[lv]) \in Commands
          /\ Tail(sock[lv]) \in Seq(Commands)
      BY <1>0, <1>1
    <2>2. ans \in Answers
      BY <1>1, <2>1 DEF Commands
    <2>3. sock' \in [Levels -> Seq(Commands)]
      BY <1>0, <1>1, <2>1
    <2>4. crossed' \in BOOLEAN
      BY <1>1
    <2> QED BY <1>0, <1>1, <2>2, <2>3, <2>4
  <1>2. CASE /\ lv \notin broken /\ faults < MaxFaults
             /\ ans = "IOError" /\ brk = broken \cup {lv}
             /\ faults' = faults + 1
             /\ UNCHANGED <<sock, crossed>>
    <2>1. faults' \in 0..MaxFaults
      BY <1>0, <1>2, MultiGetAssumption
    <2> QED BY <1>0, <1>2, <2>1
  <1>3. CASE /\ lv \in broken
             /\ ans = "IOError" /\ brk = broken
             /\ UNCHANGED <<sock, faults, crossed>>
    BY <1>0, <1>3
  <1> QED BY <1>1, <1>2, <1>3 DEF Read

-----------------------------------------------------------------------------
(***************************************************************************)
(* Whose call it is.                                                       *)
(***************************************************************************)

\* On L1, and as long as none has been left behind on L2 too, the goroutines in
\* a call and the loop take turns.
LEMMA OneInCall ==
  ASSUME TypeOK, TurnsOK, NEW lv \in Levels, lv = 1 \/ left = {},
         NEW a \in InCall(lv), NEW b \in InCall(lv)
  PROVE  a = b
  <1> DEFINE Own == IF lv = 1 THEN "L1Get" ELSE "L2Get"
  <1>1. \A g \in Goroutines :
          (g[1] = lv /\ gos[g].at = "read") =>
            g = <<lv, n>> /\ (lv = 1 => pc = "L1Get") /\ (lv = 2 => pc \in {"L2Get", "Fill"})
    BY DEF TurnsOK, TurnOf, Busy, Levels
  <1>2. Calling /\ CallLevel = lv =>
          (lv = 1 => pc # "L1Get") /\ (lv = 2 => pc \notin {"L2Get", "Fill"})
    BY DEF Calling, CallLevel, Levels
  <1>3. a \in {<<lv, n>>, <<0, n>>} /\ b \in {<<lv, n>>, <<0, n>>}
    BY <1>1 DEF InCall
  <1>4. CASE Calling /\ sent /\ CallLevel = lv
    <2>1. \A g \in Goroutines : ~(g[1] = lv /\ gos[g].at = "read")
      BY <1>1, <1>2, <1>4 DEF Levels
    <2> QED BY <1>4, <2>1 DEF InCall
  <1>5. CASE ~(Calling /\ sent /\ CallLevel = lv)
    BY <1>1, <1>5 DEF InCall
  <1> QED BY <1>4, <1>5

\* A call that reads a response, and may, reads its own.
LEMMA ReadsOwn ==
  ASSUME MultiGetInv, ~crossed, NEW lv \in Levels, NEW who \in InCall(lv), NEW ans, NEW brk,
         Read(lv, who, ans, brk)
  PROVE  crossed' => lv = 2 /\ left # {}
  <1>1. TypeOK /\ TurnsOK /\ SocksOK
    BY DEF MultiGetInv
  <1>2. CASE /\ lv \notin broken /\ sock[lv] # <<>>
             /\ crossed' = (Head(sock[lv]).by # who)
    <2>1. sock[lv] \in Seq(Commands)
      BY <1>1, SocksAre
    <2>2. 1 \in DOMAIN sock[lv] /\ Head(sock[lv]) = sock[lv][1]
      BY <1>2, <2>1
    <2>3. sock[lv][1].by \in InCall(lv)
      BY <1>1, <1>2, <2>2 DEF SocksOK
    <2>4. lv = 1 \/ left = {} => sock[lv][1].by = who
      BY <1>1, <2>3, OneInCall
    <2> QED BY <1>2, <2>2, <2>4 DEF Levels
  <1>3. CASE crossed' = crossed
    BY <1>3
  <1> QED BY <1>1, <1>2, <1>3, ReadIs

\* A command is written by a call that has none on the socket.
LEMMA SocksAfterWrite ==
  ASSUME TypeOK, SocksOK, ~crossed, NEW lv \in Levels, NEW who \in Callers, NEW e \in Answers,
         sock' = [sock EXCEPT ![lv] = Append(sock[lv], [by |-> who, ans |-> e])],
         who \in Goroutines => e \in {"hit", "miss", "Busy"},
         who \notin InCall(lv), who \in InCall(lv)',
         \A l \in Levels : InCall(l) \subseteq InCall(l)', UNCHANGED broken,
         \A g \in Goroutines : gos'[g].at = "sendErr" => gos'[g].ans \in {"Busy", "IOError"}
  PROVE  SocksOK'
  <1> DEFINE cmd == [by |-> who, ans |-> e]
  <1>1. sock \in [Levels -> Seq(Commands)]
    BY SocksAre
  <1>2. cmd \in Commands /\ cmd.by = who /\ cmd.ans = e
    BY DEF Commands
  <1> HIDE DEF cmd
  <1>3. sock'[lv] = Append(sock[lv], cmd) /\ \A l \in Levels : l # lv => sock'[l] = sock[l]
    BY <1>1 DEF cmd
  <1>4. /\ DOMAIN sock'[lv] = 1..(Len(sock[lv]) + 1) /\ DOMAIN sock[lv] = 1..Len(sock[lv])
        /\ Len(sock[lv]) \in Nat
        /\ sock'[lv][Len(sock[lv]) + 1] = cmd
        /\ \A i \in 1..Len(sock[lv]) : sock'[lv][i] = sock[lv][i]
    BY <1>1, <1>2, <1>3
  <1>5. ASSUME NEW l \in Levels \ broken
        PROVE  /\ \A i \in DOMAIN sock'[l] : sock'[l][i].by \in InCall(l)'
               /\ \A i, j \in DOMAIN sock'[l] : sock'[l][i].by = sock'[l][j].by => i = j
               /\ \A i \in DOMAIN sock'[l] :
                    sock'[l][i].by \in Goroutines =>
                      sock'[l][i].ans \in {"hit", "miss", "Busy"}
    <2>1. /\ \A i \in DOMAIN sock[l] : sock[l][i].by \in InCall(l)
          /\ \A i, j \in DOMAIN sock[l] : sock[l][i].by = sock[l][j].by => i = j
          /\ \A i \in DOMAIN sock[l] :
               sock[l][i].by \in Goroutines => sock[l][i].ans \in {"hit", "miss", "Busy"}
      BY DEF SocksOK
    <2>2. CASE l # lv
      BY <1>3, <2>1, <2>2
    <2>3. CASE l = lv
      <3>1. \A i \in DOMAIN sock[lv] : sock[lv][i].by # who
        BY <2>1, <2>3
      <3>2. \A i \in DOMAIN sock'[lv] :
              \/ i \in DOMAIN sock[lv] /\ sock'[lv][i] = sock[lv][i]
              \/ i = Len(sock[lv]) + 1 /\ sock'[lv][i] = cmd
        BY <1>4
      <3> QED BY <1>2, <2>1, <2>3, <3>1, <3>2
    <2> QED BY <2>2, <2>3
  <1> QED BY <1>5 DEF SocksOK

LEMMA TailIs ==
  ASSUME NEW S, NEW s \in Seq(S), s # <<>>
  PROVE  /\ DOMAIN s = 1..Len(s) /\ Len(s) \in Nat /\ Head(s) = s[1]
         /\ DOMAIN Tail(s) = 1..(Len(s) - 1)
         /\ \A i \in 1..(Len(s) - 1) : Tail(s)[i] = s[i + 1]
  OBVIOUS

\* A response is read by a call that thereby ends.
LEMMA SocksAfterRead ==
  ASSUME TypeOK, SocksOK, ~crossed, NEW lv \in Levels, NEW who, NEW ans, NEW brk,
         Read(lv, who, ans, brk), brk \subseteq broken',
         \A l \in Levels : InCall(l) \ {who} \subseteq InCall(l)',
         \A l \in Levels \ {lv} : InCall(l) \subseteq InCall(l)',
         \A g \in Goroutines : gos'[g].at = "sendErr" =>
           gos'[g].ans \in {"Busy", "IOError"} \/ crossed'
  PROVE  SocksOK'
  <1>1. sock \in [Levels -> Seq(Commands)]
    BY SocksAre
  <1>2. SUFFICES ASSUME ~crossed', NEW l \in Levels \ broken'
        PROVE  /\ \A i \in DOMAIN sock'[l] : sock'[l][i].by \in InCall(l)'
               /\ \A i, j \in DOMAIN sock'[l] : sock'[l][i].by = sock'[l][j].by => i = j
               /\ \A i \in DOMAIN sock'[l] :
                    sock'[l][i].by \in Goroutines =>
                      sock'[l][i].ans \in {"hit", "miss", "Busy"}
    BY DEF SocksOK
  <1>3. l \notin broken /\ broken \subseteq brk
    BY ReadIs
  <1>4. /\ \A i \in DOMAIN sock[l] : sock[l][i].by \in InCall(l)
        /\ \A i, j \in DOMAIN sock[l] : sock[l][i].by = sock[l][j].by => i = j
        /\ \A i \in DOMAIN sock[l] :
             sock[l][i].by \in Goroutines => sock[l][i].ans \in {"hit", "miss", "Busy"}
    BY <1>3 DEF SocksOK
  <1>5. CASE l # lv
    <2>1. sock'[l] = sock[l]
      BY <1>1, <1>5, ReadIs
    <2> QED BY <1>4, <1>5, <2>1
  <1>6. CASE l = lv
    <2>1. /\ sock[lv] # <<>> /\ Head(sock[lv]).by = who
          /\ sock' = [sock EXCEPT ![lv] = Tail(sock[lv])]
      BY <1>2, <1>6, ReadIs
    <2>2. sock'[lv] = Tail(sock[lv]) /\ sock[lv] \in Seq(Commands)
      BY <1>1, <2>1
    <2>3. /\ DOMAIN sock[lv] = 1..Len(sock[lv]) /\ Len(sock[lv]) \in Nat /\ sock[lv][1].by = who
          /\ DOMAIN sock'[lv] = 1..(Len(sock[lv]) - 1)
          /\ \A i \in 1..(Len(sock[lv]) - 1) : sock'[lv][i] = sock[lv][i + 1]
      BY <2>1, <2>2, TailIs
    <2>4. \A i \in DOMAIN sock'[lv] :
            i + 1 \in DOMAIN sock[lv] /\ sock'[lv][i] = sock[lv][i + 1] /\ i + 1 # 1 /\ i \in Nat
      BY <2>3
    <2>5. 1 \in DOMAIN sock[lv]
      BY <2>1, <2>2
    <2>6. \A i \in DOMAIN sock'[lv] : sock'[lv][i].by # who
      BY <1>4, <1>6, <2>3, <2>4, <2>5
    <2>7. \A i \in DOMAIN sock'[lv] : sock'[lv][i].by \in InCall(lv)
      BY <1>4, <1>6, <2>4
    <2>8. \A i, j \in DOMAIN sock'[lv] : sock'[lv][i].by = sock'[lv][j].by => i = j
      <3> SUFFICES ASSUME NEW i \in DOMAIN sock'[lv], NEW j \in DOMAIN sock'[lv],
                          sock'[lv][i].by = sock'[lv][j].by
                   PROVE  i = j
        OBVIOUS
      <3>1. i + 1 = j + 1
        BY <1>4, <1>6, <2>4
      <3> QED BY <2>4, <3>1
    <2> QED BY <1>4, <1>6, <2>4, <2>6, <2>7, <2>8
  <1> QED BY <1>5, <1>6

-----------------------------------------------------------------------------
(***************************************************************************)
(* Steps of the goroutines.                                                *)
(***************************************************************************)

\* Such a step changes neither the loop nor how many keys have been served.
LEMMA GoKeeps ==
  ASSUME MultiGetInv, NEW g \in Goroutines, NEW at \in GoStates,
         NEW ans \in Answers \cup Errors, Go(g, at, ans), UNCHANGED loopVars,
         \/ gos[g].at \in Busy /\ at \in Busy
         \/ gos[g].at \in Closing /\ at \in Closing,
         sock' \in [Levels -> Seq(Commands)], faults' \in 0..MaxFaults,
         broken \subseteq broken', broken' \subseteq Levels,
         crossed' \in BOOLEAN, crossed' => left # {}
  PROVE  /\ TypeOK' /\ TurnsOK' /\ MissesOK' /\ L1Progress' /\ L2Progress'
         /\ EndIsComplete' /\ TrueAnswers'
  <1>1. /\ TypeOK /\ TurnsOK /\ MissesOK /\ L1Progress /\ L2Progress
        /\ EndIsComplete /\ TrueAnswers
    BY DEF MultiGetInv
  <1>2. /\ gos' \in [Goroutines -> Goroutine]
        /\ gos'[g].at = at /\ gos'[g].keys = gos[g].keys /\ gos'[g].idx = gos[g].idx
        /\ \A h \in Goroutines : h # g => gos'[h] = gos[h]
    BY <1>1, GoIs
  <1>3. /\ orca' = orca /\ holds' = holds /\ pc' = pc /\ sent' = sent /\ req' = req /\ n' = n
        /\ wait' = wait /\ l2keys' = l2keys /\ hand' = hand /\ err' = err
        /\ answered' = answered /\ ended' = ended /\ lost' = lost /\ left' = left
    BY DEF loopVars
  <1>4. \A h \in Goroutines :
          /\ gos'[h].keys = gos[h].keys /\ gos'[h].idx = gos[h].idx
          /\ gos'[h].at \in Busy <=> gos[h].at \in Busy
          /\ gos'[h].at \in Closing <=> gos[h].at \in Closing
          /\ gos'[h].at = "none" <=> gos[h].at = "none"
    BY <1>2 DEF Busy, Closing
  <1>5. TypeOK'
    <2>1. sock' \in [Levels -> Seq([by : Callers, ans : Answers])]
      BY DEF Commands
    <2> QED BY <1>1, <1>2, <1>3, <2>1 DEF TypeOK
  <1>6. TurnsOK'
    BY <1>1, <1>3, <1>4 DEF TurnsOK, TurnOf, Getting, Calling
  <1>7. MissesOK' /\ EndIsComplete' /\ TrueAnswers'
    BY <1>1, <1>3 DEF MissesOK, Getting, EndIsComplete, TrueAnswers
  <1>8. L1Progress'
    <2>1. SUFFICES ASSUME pc = "L1Get" PROVE L1Progress'
      BY <1>3 DEF L1Progress
    <2>2. <<1, n>> \in Goroutines
      BY <1>1, <2>1, NamesAre
    <2>3. /\ AnsweredKeys' = AnsweredKeys /\ KeysOf(l2keys)' = KeysOf(l2keys)
          /\ KeysOf(req.keys)' = KeysOf(req.keys)
      BY <1>3 DEF AnsweredKeys, KeysOf
    <2>4. /\ gos'[<<1, n>>].keys = gos[<<1, n>>].keys /\ gos'[<<1, n>>].idx = gos[<<1, n>>].idx
          /\ gos'[<<1, n>>].at \in Busy <=> gos[<<1, n>>].at \in Busy
          /\ gos'[<<1, n>>].at \in Closing <=> gos[<<1, n>>].at \in Closing
          /\ gos'[<<1, n>>].at = "none" <=> gos[<<1, n>>].at = "none"
      BY <1>4, <2>2
    <2> QED BY <1>1, <1>3, <2>1, <2>3, <2>4 DEF L1Progress
  <1>9. L2Progress'
    <2>1. SUFFICES ASSUME pc \in {"L2Get", "Fill"} PROVE L2Progress'
      BY <1>3 DEF L2Progress
    <2>2. <<2, n>> \in Goroutines
      BY <1>1, <2>1, NamesAre
    <2>3. /\ AnsweredKeys' = AnsweredKeys /\ KeysOf(l2keys)' = KeysOf(l2keys)
          /\ KeysOf(req.keys)' = KeysOf(req.keys) /\ Count' = Count /\ Handed' = Handed
      BY <1>3 DEF AnsweredKeys, KeysOf, Count, Handed
    <2>4. /\ gos'[<<2, n>>].keys = gos[<<2, n>>].keys /\ gos'[<<2, n>>].idx = gos[<<2, n>>].idx
          /\ gos'[<<2, n>>].at \in Busy <=> gos[<<2, n>>].at \in Busy
          /\ gos'[<<2, n>>].at \in Closing <=> gos[<<2, n>>].at \in Closing
          /\ gos'[<<2, n>>].at = "none" <=> gos[<<2, n>>].at = "none"
      BY <1>4, <2>2
    <2> QED BY <1>1, <1>3, <2>1, <2>3, <2>4 DEF L2Progress
  <1> QED BY <1>5, <1>6, <1>7, <1>8, <1>9

LEMMA AskKeyStep ==
  ASSUME MultiGetInv, ~crossed, NEW g \in Goroutines, AskKey(g)
  PROVE  MultiGetInv'
  <1>1. TypeOK /\ TurnsOK /\ SocksOK /\ TruthOK
    BY DEF MultiGetInv
  <1>2. gos[g].at = "write" /\ UNCHANGED loopVars /\ UNCHANGED broken /\ UNCHANGED crossed
    BY DEF AskKey
  <1>3. /\ orca' = orca /\ holds' = holds /\ pc' = pc /\ sent' = sent /\ req' = req /\ n' = n
        /\ l2keys' = l2keys /\ left' = left /\ crossed' = FALSE /\ broken' = broken
    BY <1>2 DEF loopVars, MultiGetInv, TypeOK
  <1>4. g[1] \in Levels /\ g \in Callers
    BY <1>1, GoroutineIs
  <1>5. "read" \in GoStates /\ "sendErr" \in GoStates /\ gos[g].at \in Busy
        /\ "read" \in Busy /\ "sendErr" \in Busy
        /\ "nil" \in Answers \cup Errors /\ "IOError" \in Answers \cup Errors
    BY <1>2 DEF GoStates, Busy, Answers, Errors
  <1>6. broken \subseteq Levels /\ sock \in [Levels -> Seq(Commands)] /\ faults \in 0..MaxFaults
    BY <1>1, SocksAre DEF TypeOK
  <1>7. CASE g[1] \in broken
    <2>1. Go(g, "sendErr", "IOError") /\ sock' = sock /\ faults' = faults
      BY <1>7 DEF AskKey
    <2>2. /\ TypeOK' /\ TurnsOK' /\ MissesOK' /\ L1Progress' /\ L2Progress'
          /\ EndIsComplete' /\ TrueAnswers'
      BY <1>2, <1>3, <1>5, <1>6, <2>1, GoKeeps
    <2>3. /\ gos'[g].at = "sendErr" /\ gos'[g].ans = "IOError"
          /\ \A h \in Goroutines : h # g => gos'[h] = gos[h]
      BY <1>1, <1>5, <2>1, GoIs
    <2>4. \A l \in Levels : InCall(l) \subseteq InCall(l)'
      BY <1>2, <1>3, <2>3 DEF InCall, Calling, CallLevel
    <2>5. SocksOK'
      BY <1>1, <1>3, <2>1, <2>3, <2>4 DEF SocksOK
    <2>6. TruthOK'
      <3>1. SUFFICES ASSUME Getting PROVE TruthOK'
        BY <1>3 DEF TruthOK, Getting
      <3>2. Current \in Goroutines /\ Current' = Current /\ Level' = Level
        BY <1>1, <1>3, <3>1, NamesAre DEF Getting, Current, Level
      <3> QED BY <1>1, <1>3, <2>1, <2>3, <3>2 DEF TruthOK, CurrentKey, Getting
    <2> QED BY <2>2, <2>5, <2>6 DEF MultiGetInv
  <1>8. CASE g[1] \notin broken
    <2> DEFINE lv == g[1]
               key == gos[g].keys[gos[g].idx]
               told == IF key \in holds[lv] THEN "hit" ELSE "miss"
    <2>1. Write(lv, g, told) /\ Go(g, "read", "nil")
      BY <1>8 DEF AskKey
    <2>2. told \in Answers
      BY DEF Answers
    <2>3. /\ sock' \in [Levels -> Seq(Commands)] /\ faults' \in 0..MaxFaults
          /\ \E e \in {told, "Busy"} :
               sock' = [sock EXCEPT ![lv] = Append(sock[lv], [by |-> g, ans |-> e])]
      BY <1>1, <1>4, <2>1, <2>2, WriteIs
    <2>4. PICK e \in {told, "Busy"} :
            sock' = [sock EXCEPT ![lv] = Append(sock[lv], [by |-> g, ans |-> e])]
      BY <2>3
    <2>5. e \in {"hit", "miss", "Busy"} /\ e \in Answers
          /\ (e = "hit" => key \in holds[lv]) /\ (e = "miss" => key \notin holds[lv])
      BY <2>4 DEF Answers
    <2>6. /\ TypeOK' /\ TurnsOK' /\ MissesOK' /\ L1Progress' /\ L2Progress'
          /\ EndIsComplete' /\ TrueAnswers'
      BY <1>2, <1>3, <1>5, <1>6, <2>1, <2>3, GoKeeps
    <2>7. /\ gos'[g].at = "read" /\ gos'[g].keys = gos[g].keys /\ gos'[g].idx = gos[g].idx
          /\ \A h \in Goroutines : h # g => gos'[h] = gos[h]
      BY <1>1, <1>5, <2>1, GoIs
    <2>8. g # <<0, n>>
      BY DEF Goroutines, Levels
    <2>9. g \notin InCall(lv) /\ g \in InCall(lv)' /\ \A l \in Levels : InCall(l) \subseteq InCall(l)'
      BY <1>2, <1>3, <2>7, <2>8 DEF InCall, Calling, CallLevel
    <2>10. \A h \in Goroutines : gos'[h].at = "sendErr" => gos'[h].ans \in {"Busy", "IOError"}
      BY <1>1, <2>7 DEF SocksOK
    <2>11. SocksOK'
      <3> HIDE DEF lv
      <3> QED BY <1>1, <1>3, <1>4, <2>4, <2>5, <2>9, <2>10, SocksAfterWrite DEF lv
    <2>12. TruthOK'
      <3>1. SUFFICES ASSUME Getting PROVE TruthOK'
        BY <1>3 DEF TruthOK, Getting
      <3>2. Current \in Goroutines /\ Current' = Current /\ Level' = Level /\ Level \in Levels
            /\ Current[1] = Level
        BY <1>1, <1>3, <3>1, NamesAre DEF Getting, Current, Level
      <3>3. CASE Current = g
        <4>1. CurrentKey' = key /\ Level = lv
          BY <1>3, <2>7, <3>2, <3>3 DEF CurrentKey
        <4>2. \A i \in DOMAIN sock[lv] : sock[lv][i].by # g
          BY <1>1, <1>4, <1>8, <2>9 DEF SocksOK
        <4>3. \A i \in DOMAIN sock'[lv] :
                sock'[lv][i].by = g => sock'[lv][i].ans = e
          <5> DEFINE cmd == [by |-> g, ans |-> e]
          <5>1. sock[lv] \in Seq(Commands) /\ sock'[lv] = Append(sock[lv], cmd)
            BY <1>4, <1>6, <2>4
          <5>2. \A i \in DOMAIN sock'[lv] :
                  (i \in DOMAIN sock[lv] /\ sock'[lv][i] = sock[lv][i]) \/ sock'[lv][i] = cmd
            <6> HIDE DEF cmd, lv
            <6> QED BY <5>1
          <5> QED BY <4>2, <5>2
        <4> QED BY <1>3, <2>5, <2>7, <3>2, <3>3, <4>1, <4>3 DEF TruthOK, Getting
      <3>4. CASE Current # g
        <4>1. gos'[Current] = gos[Current] /\ CurrentKey' = CurrentKey
          BY <2>7, <3>2, <3>4 DEF CurrentKey
        <4>2. \A i \in DOMAIN sock'[Level] : sock'[Level][i].by = Current =>
                i \in DOMAIN sock[Level] /\ sock'[Level][i] = sock[Level][i]
          <5> DEFINE cmd == [by |-> g, ans |-> e]
          <5>1. sock[lv] \in Seq(Commands) /\ sock'[lv] = Append(sock[lv], cmd)
                /\ cmd.by = g /\ \A l \in Levels : l # lv => sock'[l] = sock[l]
            BY <1>4, <1>6, <2>4
          <5>2. \A i \in DOMAIN sock'[lv] :
                  (i \in DOMAIN sock[lv] /\ sock'[lv][i] = sock[lv][i]) \/ sock'[lv][i] = cmd
            <6> HIDE DEF cmd, lv
            <6> QED BY <5>1
          <5> QED BY <3>2, <3>4, <5>1, <5>2
        <4> QED BY <1>1, <1>3, <3>1, <3>2, <4>1, <4>2 DEF TruthOK, Getting
      <3> QED BY <3>3, <3>4
    <2> QED BY <2>6, <2>11, <2>12 DEF MultiGetInv
  <1> QED BY <1>7, <1>8

LEMMA ReadKeyStep ==
  ASSUME MultiGetInv, ~crossed, NEW g \in Goroutines, ReadKey(g)
  PROVE  MultiGetInv'
  <1> DEFINE lv == g[1]
  <1>1. TypeOK /\ TurnsOK /\ SocksOK /\ TruthOK
    BY DEF MultiGetInv
  <1>2. gos[g].at = "read" /\ UNCHANGED loopVars
    BY DEF ReadKey
  <1>3. PICK ans \in Answers \cup Errors, brk \in SUBSET Levels :
          /\ Read(lv, g, ans, brk)
          /\ broken' = brk
          /\ Go(g, IF ans \in {"hit", "miss"} THEN "send" ELSE "sendErr", ans)
    BY DEF ReadKey
  <1> DEFINE at == IF ans \in {"hit", "miss"} THEN "send" ELSE "sendErr"
  <1>4. lv \in Levels /\ g \in Callers /\ g \in InCall(lv)
    BY <1>1, <1>2, GoroutineIs DEF InCall
  <1>5. at \in GoStates /\ at \in Busy /\ gos[g].at \in Busy
    BY <1>2 DEF GoStates, Busy
  <1>6. /\ orca' = orca /\ holds' = holds /\ pc' = pc /\ sent' = sent /\ req' = req /\ n' = n
        /\ l2keys' = l2keys /\ left' = left
    BY <1>2 DEF loopVars
  <1> HIDE DEF lv
  <1>7. /\ sock' \in [Levels -> Seq(Commands)]
        /\ faults' \in 0..MaxFaults /\ crossed' \in BOOLEAN
        /\ ans \in Answers \cup {"IOError"} /\ brk \subseteq Levels /\ broken \subseteq brk
        /\ \/ /\ lv \notin broken /\ sock[lv] # <<>> /\ ans = Head(sock[lv]).ans
              /\ brk = broken /\ crossed' = (Head(sock[lv]).by # g)
              /\ sock' = [sock EXCEPT ![lv] = Tail(sock[lv])]
           \/ lv \in brk /\ ans = "IOError" /\ sock' = sock /\ crossed' = crossed
    BY <1>1, <1>3, <1>4, ReadIs
  <1>8. crossed' => left # {}
    BY <1>3, <1>4, ReadsOwn
  <1> HIDE DEF at
  <1>9. /\ TypeOK' /\ TurnsOK' /\ MissesOK' /\ L1Progress' /\ L2Progress'
        /\ EndIsComplete' /\ TrueAnswers'
    BY <1>2, <1>3, <1>5, <1>7, <1>8, GoKeeps DEF at
  <1>10. /\ gos'[g].at = at /\ gos'[g].ans = ans
         /\ gos'[g].keys = gos[g].keys /\ gos'[g].idx = gos[g].idx
         /\ \A h \in Goroutines : h # g => gos'[h] = gos[h]
    BY <1>1, <1>3, <1>5, GoIs DEF at
  <1>11. sock \in [Levels -> Seq(Commands)]
    BY <1>1, SocksAre
  \* The response is the one the goroutine asked for.
  <1>12. ASSUME ~crossed', ans # "IOError"
         PROVE  /\ lv \notin broken /\ 1 \in DOMAIN sock[lv]
                /\ sock[lv][1].by = g /\ ans = sock[lv][1].ans
                /\ ans \in {"hit", "miss", "Busy"} /\ sock' = [sock EXCEPT ![lv] = Tail(sock[lv])]
    <2>1. /\ lv \notin broken /\ sock[lv] # <<>> /\ ans = Head(sock[lv]).ans
          /\ Head(sock[lv]).by = g /\ sock' = [sock EXCEPT ![lv] = Tail(sock[lv])]
      BY <1>7, <1>12
    <2>2. sock[lv] \in Seq(Commands)
      BY <1>4, <1>11
    <2>3. 1 \in DOMAIN sock[lv] /\ Head(sock[lv]) = sock[lv][1]
      BY <2>1, <2>2
    <2> QED BY <1>1, <1>4, <2>1, <2>3 DEF SocksOK
  <1>13. at = "send" <=> ans \in {"hit", "miss"}
    BY DEF at
  <1>14. SocksOK'
    <2>1. \A l \in Levels : InCall(l) \ {g} \subseteq InCall(l)'
      BY <1>6, <1>10 DEF InCall, Calling, CallLevel
    <2>2. \A l \in Levels \ {lv} : InCall(l) \subseteq InCall(l)'
      BY <1>6, <1>10 DEF InCall, Calling, CallLevel, lv
    <2>3. \A h \in Goroutines : gos'[h].at = "sendErr" =>
            gos'[h].ans \in {"Busy", "IOError"} \/ crossed'
      BY <1>1, <1>10, <1>12, <1>13 DEF SocksOK
    <2> QED BY <1>1, <1>3, <1>4, <2>1, <2>2, <2>3, SocksAfterRead
  <1>15. TruthOK'
    <2>1. SUFFICES ASSUME Getting, ~crossed' PROVE TruthOK'
      BY <1>6 DEF TruthOK, Getting
    <2>2. Current \in Goroutines /\ Current' = Current /\ Level' = Level /\ Level \in Levels
          /\ Current[1] = Level
      BY <1>1, <1>6, <2>1, NamesAre DEF Getting, Current, Level
    <2>3. CASE Current = g
      <3>1. CurrentKey' = CurrentKey /\ Level = lv
        BY <1>10, <2>2, <2>3 DEF CurrentKey, lv
      <3>2. ans \in {"hit", "miss"} => (ans = "hit" <=> CurrentKey \in holds[lv])
        BY <1>1, <1>2, <1>12, <2>1, <2>3, <3>1 DEF TruthOK
      <3>3. gos'[Current].at # "read"
        BY <1>10, <2>3 DEF at
      <3> QED BY <1>6, <1>10, <1>13, <2>2, <2>3, <3>1, <3>2, <3>3 DEF TruthOK
    <2>4. CASE Current # g
      <3>1. gos'[Current] = gos[Current] /\ CurrentKey' = CurrentKey
        BY <1>10, <2>2, <2>4 DEF CurrentKey
      <3>2. Level \notin broken' => Level \notin broken
        BY <1>3, <1>7
      <3>3. \A i \in DOMAIN sock'[Level] :
              \E j \in DOMAIN sock[Level] : sock'[Level][i] = sock[Level][j]
        <4>1. CASE sock'[Level] = sock[Level]
          BY <4>1
        <4>2. CASE Level = lv /\ sock' = [sock EXCEPT ![lv] = Tail(sock[lv])] /\ sock[lv] # <<>>
          <5>1. sock'[lv] = Tail(sock[lv]) /\ sock[lv] \in Seq(Commands)
            BY <1>4, <1>11, <4>2
          <5>2. \A i \in DOMAIN Tail(sock[lv]) :
                  i + 1 \in DOMAIN sock[lv] /\ Tail(sock[lv])[i] = sock[lv][i + 1]
            BY <4>2, <5>1, TailIs
          <5> QED BY <4>2, <5>1, <5>2
        <4> QED BY <1>4, <1>7, <1>11, <2>2, <4>1, <4>2
      <3> QED BY <1>1, <1>6, <2>1, <2>2, <3>1, <3>2, <3>3 DEF TruthOK
    <2> QED BY <2>3, <2>4
  <1> QED BY <1>9, <1>14, <1>15 DEF MultiGetInv

LEMMA CloseStep ==
  ASSUME MultiGetInv, ~crossed, NEW g \in Goroutines, Close(g)
  PROVE  MultiGetInv'
  <1> DEFINE at == IF gos[g].at = "close" THEN "closeErr" ELSE "done"
  <1>1. TypeOK /\ TurnsOK /\ SocksOK /\ TruthOK
    BY DEF MultiGetInv
  <1>2. /\ gos[g].at \in {"close", "closeErr"} /\ UNCHANGED loopVars /\ Go(g, at, "nil")
        /\ sock' = sock /\ broken' = broken /\ faults' = faults /\ crossed' = crossed
    BY DEF Close
  <1>3. /\ at \in GoStates /\ at \in Closing /\ gos[g].at \in Closing /\ "nil" \in Answers \cup Errors
        /\ at \in {"closeErr", "done"}
    BY <1>2 DEF GoStates, Closing, Errors
  <1> HIDE DEF at
  <1>4. /\ sock \in [Levels -> Seq(Commands)] /\ broken \subseteq Levels /\ faults \in 0..MaxFaults
    BY <1>1, SocksAre DEF TypeOK
  <1>5. /\ TypeOK' /\ TurnsOK' /\ MissesOK' /\ L1Progress' /\ L2Progress'
        /\ EndIsComplete' /\ TrueAnswers'
    <2>1. crossed' \in BOOLEAN
      BY <1>1, <1>2 DEF TypeOK
    <2> QED BY <1>2, <1>3, <1>4, <2>1, GoKeeps
  <1>6. gos'[g].at = at /\ \A h \in Goroutines : h # g => gos'[h] = gos[h]
    BY <1>1, <1>2, <1>3, GoIs
  <1>7. holds' = holds /\ pc' = pc /\ sent' = sent /\ n' = n
    BY <1>2 DEF loopVars
  <1>8. \A l \in Levels : InCall(l)' = InCall(l)
    BY <1>2, <1>3, <1>6, <1>7 DEF InCall, Calling, CallLevel
  <1>9. SocksOK'
    BY <1>1, <1>2, <1>3, <1>6, <1>8 DEF SocksOK
  <1>10. TruthOK'
    <2>1. SUFFICES ASSUME Getting PROVE TruthOK'
      BY <1>7 DEF TruthOK, Getting
    <2>2. Current \in Goroutines /\ Current' = Current /\ Level' = Level
      BY <1>1, <1>7, <2>1, NamesAre DEF Getting, Current, Level
    <2> QED BY <1>1, <1>2, <1>3, <1>6, <1>7, <2>2 DEF TruthOK, CurrentKey, Getting
  <1> QED BY <1>5, <1>9, <1>10 DEF MultiGetInv

-----------------------------------------------------------------------------
(***************************************************************************)
(* Steps of the loop.                                                      *)
(***************************************************************************)

LEMMA InitMultiGet ==
  ASSUME Init
  PROVE  MultiGetInv
  <1> USE DEF Init
  <1>0. <<>> \in Seq(Keys) /\ <<>> \in Seq([key : Keys, hit : BOOLEAN])
        /\ <<>> \in Seq([by : Callers, ans : Answers])
    OBVIOUS
  <1>1. \A g \in Goroutines : gos[g] = [at |-> "none", keys |-> <<>>, idx |-> 0, ans |-> "nil"]
    OBVIOUS
  <1>2. TypeOK
    <2>1. gos \in [Goroutines -> Goroutine]
      BY <1>0, MultiGetAssumption DEF Goroutine, GoStates, Errors
    <2>2. faults \in 0..MaxFaults /\ n \in 0..MaxReqs
      BY MultiGetAssumption
    <2>3. sock \in [Levels -> Seq([by : Callers, ans : Answers])]
      BY <1>0
    <2>4. sent \in BOOLEAN /\ lost \in BOOLEAN /\ crossed \in BOOLEAN
      OBVIOUS
    <2> QED BY <1>0, <2>1, <2>2, <2>3, <2>4 DEF TypeOK, Errors
  <1>3. TurnsOK
    BY <1>1 DEF TurnsOK, Busy, Getting
  <1>4. SocksOK
    BY <1>1 DEF SocksOK
  <1>5. TruthOK /\ MissesOK /\ L1Progress /\ L2Progress /\ EndIsComplete /\ TrueAnswers
    BY DEF TruthOK, MissesOK, L1Progress, L2Progress, EndIsComplete, TrueAnswers, Getting
  <1> QED BY <1>2, <1>3, <1>4, <1>5 DEF MultiGetInv

\* A step that leaves the sockets alone and ends no call.
LEMMA SocksKept ==
  ASSUME SocksOK, UNCHANGED <<sock, crossed>>, broken \subseteq broken',
         \A l \in Levels : InCall(l) \subseteq InCall(l)',
         ~crossed => \A g \in Goroutines : gos'[g].at = "sendErr" =>
           gos'[g].ans \in {"Busy", "IOError"}
  PROVE  SocksOK'
  <1>1. \A l \in Levels \ broken' : l \in Levels \ broken
    OBVIOUS
  <1> QED BY <1>1 DEF SocksOK

LEMMA StartIs ==
  ASSUME TypeOK, NEW g \in Goroutines, NEW keys \in Seq(Keys), MaxKeys # 0, Start(g, keys)
  PROVE  /\ gos' \in [Goroutines -> Goroutine]
         /\ gos'[g].at = "write" /\ gos'[g].keys = keys /\ gos'[g].idx = 1
         /\ \A h \in Goroutines : h # g => gos'[h] = gos[h]
  <1> DEFINE go == [at |-> "write", keys |-> keys, idx |-> 1, ans |-> "nil"]
  <1>1. gos \in [Goroutines -> Goroutine] /\ gos' = [gos EXCEPT ![g] = go]
    BY DEF TypeOK, Start
  <1>2. 1 \in 0..MaxKeys
    BY MultiGetAssumption
  <1>3. go \in Goroutine
    BY <1>2 DEF Goroutine, GoStates, Errors
  <1>4. gos'[g] = go
    BY <1>1
  <1> QED BY <1>1, <1>3, <1>4

LEMMA HangupStep ==
  ASSUME MultiGetInv, Hangup
  PROVE  MultiGetInv'
  <1>1. /\ pc = "idle" /\ pc' = "closed" /\ broken' = Levels
        /\ UNCHANGED <<orca, holds, sock, sent, req, n, gos, wait, l2keys, hand, err,
                 answered, ended, faults, lost, left, crossed>>
    BY DEF Hangup
  <1>2. TypeOK /\ TurnsOK /\ SocksOK /\ EndIsComplete /\ TrueAnswers
    BY DEF MultiGetInv
  <1>3. TypeOK'
    BY <1>1, <1>2 DEF TypeOK
  <1>4. TurnsOK'
    BY <1>1, <1>2 DEF TurnsOK, TurnOf, Getting, Calling
  <1>5. SocksOK'
    BY <1>1, <1>2 DEF SocksOK
  <1>6. TruthOK' /\ MissesOK' /\ L1Progress' /\ L2Progress'
    BY <1>1 DEF TruthOK, MissesOK, L1Progress, L2Progress, Getting
  <1>7. EndIsComplete' /\ TrueAnswers'
    BY <1>1, <1>2 DEF EndIsComplete, TrueAnswers
  <1> QED BY <1>3, <1>4, <1>5, <1>6, <1>7 DEF MultiGetInv

LEMMA ReceiveStep ==
  ASSUME MultiGetInv, ~crossed, Receive
  PROVE  MultiGetInv'
  <1>1. /\ pc = "idle" /\ n < MaxReqs /\ n' = n + 1
        /\ answered' = <<>> /\ ended' = "none" /\ err' = "nil" /\ lost' = FALSE
        /\ l2keys' = <<>>
        /\ UNCHANGED <<orca, holds, sock, broken, sent, hand, faults, left, crossed>>
    BY DEF Receive
  <1>2. TypeOK /\ TurnsOK /\ SocksOK
    BY DEF MultiGetInv
  <1>3. n \in Nat /\ MaxReqs \in Nat /\ n' \in 1..MaxReqs /\ n' \in 0..MaxReqs
    <2>1. n \in 0..MaxReqs
      BY <1>2 DEF TypeOK
    <2> QED BY <1>1, <2>1, MultiGetAssumption
  <1>4. ~sent /\ ~sent'
    BY <1>1, <1>2 DEF TurnsOK, Calling
  <1>5. \A g \in left : g \in Goroutines /\ g[1] = 2 /\ g[2] <= n /\ g[2] < n' /\ g[2] <= n'
    BY <1>1, <1>2, <1>3 DEF TurnsOK, TypeOK, Goroutines
  <1>6. \A g \in Goroutines : gos[g].at \in Busy => g \in left
    BY <1>1, <1>2 DEF TurnsOK, TurnOf
  <1>7. <<>> \in Seq(Keys) /\ <<>> \in Seq([key : Keys, hit : BOOLEAN])
        /\ DOMAIN <<>> = {} /\ Len(<<>>) = 0
    OBVIOUS
  <1>8. CASE \E keys \in KeyLists :
               /\ req' = [op |-> "Get", keys |-> keys]
               /\ pc' = "L1Get"
               /\ Start(<<1, n + 1>>, keys)
               /\ wait' = {"data", "err"}
    <2>1. PICK keys \in KeyLists :
               /\ req' = [op |-> "Get", keys |-> keys]
               /\ pc' = "L1Get"
               /\ Start(<<1, n + 1>>, keys)
               /\ wait' = {"data", "err"}
      BY <1>8
    <2>2. keys \in Seq(Keys) /\ Len(keys) \in 1..MaxKeys /\ DOMAIN keys = 1..Len(keys)
      BY KeyListIs
    <2> DEFINE g == <<1, n + 1>>
    <2>3. g \in Goroutines /\ g = <<1, n'>> /\ MaxKeys # 0
      BY <1>1, <1>3, <2>2, MultiGetAssumption DEF Goroutines, Levels
    <2>4. /\ gos' \in [Goroutines -> Goroutine]
          /\ gos'[g].at = "write" /\ gos'[g].keys = keys /\ gos'[g].idx = 1
          /\ \A h \in Goroutines : h # g => gos'[h] = gos[h]
      BY <1>2, <2>1, <2>2, <2>3, StartIs
    <2>5. g \notin left
      BY <1>5
    <2> HIDE DEF g
    <2>6. TypeOK'
      <3>1. req' \in Requests \cup {None}
        BY <2>1 DEF Requests
      <3>2. lost' \in BOOLEAN /\ sent' \in BOOLEAN /\ crossed' \in BOOLEAN
        BY <1>1, <1>2 DEF TypeOK
      <3> QED BY <1>1, <1>2, <1>3, <1>7, <2>1, <2>4, <3>1, <3>2 DEF TypeOK, Errors
    <2>7. TurnsOK'
      <3>1. \A h \in Goroutines : gos'[h].at \in Busy => h = g \/ h \in left
        BY <1>6, <2>4
      <3>2. req' # None /\ req'.op = "Get"
        <4>1. req' \in Requests
          BY <2>1 DEF Requests
        <4> QED BY <2>1, <4>1, MultiGetAssumption
      <3> QED BY <1>1, <1>2, <1>3, <1>4, <1>5, <2>1, <2>3, <3>1, <3>2
              DEF TurnsOK, TurnOf, Getting
    <2>8. \A l \in Levels : InCall(l) \subseteq InCall(l)'
      <3>1. gos[g].at # "read"
        BY <1>6, <2>3, <2>5 DEF Busy
      <3> QED BY <1>4, <2>3, <2>4, <3>1 DEF InCall
    <2>9. SocksOK'
      <3>1. \A h \in Goroutines : gos'[h].at = "sendErr" => gos'[h].ans \in {"Busy", "IOError"}
        BY <1>2, <2>3, <2>4 DEF SocksOK
      <3> QED BY <1>1, <1>2, <2>8, <3>1, SocksKept
    <2>10. TruthOK'
      <3>1. Current' = g
        BY <2>1, <2>3 DEF Current, Level
      <3> QED BY <2>4, <3>1 DEF TruthOK
    <2>11. MissesOK'
      BY <1>1, <1>7, <2>1 DEF MissesOK
    <2>12. L1Progress'
      <3>1. AnsweredKeys' = {} /\ KeysOf(l2keys)' = {} /\ req'.keys = keys
        BY <1>1, <1>7, <2>1 DEF AnsweredKeys, KeysOf
      <3>2. 1 \in 1..Len(keys) /\ 1..(1 - 1) = {}
        BY <2>2
      <3> QED BY <1>1, <1>7, <2>2, <2>3, <2>4, <3>1, <3>2 DEF L1Progress, Closing
    <2>13. L2Progress' /\ EndIsComplete'
      BY <1>1, <2>1 DEF L2Progress, EndIsComplete
    <2>14. TrueAnswers'
      <3>1. Range(answered') = {} /\ Len(answered') = 0
        BY <1>1, <1>7 DEF Range
      <3> QED BY <2>1, <2>2, <3>1 DEF TrueAnswers
    <2> QED BY <2>6, <2>7, <2>9, <2>10, <2>11, <2>12, <2>13, <2>14 DEF MultiGetInv
  <1>9. CASE \E k \in Keys :
               /\ req' = [op |-> "Set", keys |-> <<k>>]
               /\ pc' = IF orca = "L1Only" THEN "Set1" ELSE "Set2"
               /\ UNCHANGED <<gos, wait>>
    <2>1. PICK k \in Keys : req' = [op |-> "Set", keys |-> <<k>>]
      BY <1>9
    <2>2. pc' \in {"Set1", "Set2"} /\ gos' = gos /\ wait' = wait
      BY <1>9
    <2>3. <<k>> \in KeyLists
      <3>1. <<k>> \in [1..1 -> Keys] /\ 1 \in 1..MaxKeys
        BY MultiGetAssumption
      <3> QED BY <3>1 DEF KeyLists
    <2>4. req' \in Requests /\ req' # None /\ req'.op = "Set"
      <3>1. req' \in Requests
        BY <2>1, <2>3 DEF Requests
      <3> QED BY <2>1, <3>1, MultiGetAssumption
    <2>5. TypeOK'
      <3>1. lost' \in BOOLEAN /\ sent' \in BOOLEAN /\ crossed' \in BOOLEAN
        BY <1>1, <1>2 DEF TypeOK
      <3> QED BY <1>1, <1>2, <1>3, <1>7, <2>2, <2>4, <3>1 DEF TypeOK, Errors
    <2>6. TurnsOK'
      BY <1>1, <1>2, <1>3, <1>4, <1>5, <1>6, <2>2, <2>4 DEF TurnsOK, TurnOf, Getting
    <2>7. \A l \in Levels : InCall(l) \subseteq InCall(l)'
      BY <1>4, <2>2 DEF InCall
    <2>8. SocksOK'
      <3>1. \A h \in Goroutines : gos'[h].at = "sendErr" => gos'[h].ans \in {"Busy", "IOError"}
        BY <1>2, <2>2 DEF SocksOK
      <3> QED BY <1>1, <1>2, <2>7, <3>1, SocksKept
    <2>9. TruthOK' /\ MissesOK' /\ L1Progress' /\ L2Progress'
      BY <2>2 DEF TruthOK, MissesOK, L1Progress, L2Progress, Getting
    <2>10. EndIsComplete' /\ TrueAnswers'
      BY <2>4 DEF EndIsComplete, TrueAnswers
    <2> QED BY <2>5, <2>6, <2>8, <2>9, <2>10 DEF MultiGetInv
  <1> QED BY <1>8, <1>9 DEF Receive

\* What a loop that takes from the channels leaves alone.
LEMMA SockVarsAre ==
  ASSUME UNCHANGED sockVars
  PROVE  /\ orca' = orca /\ holds' = holds /\ sock' = sock /\ faults' = faults
         /\ crossed' = crossed /\ req' = req /\ n' = n /\ sent' = sent /\ left' = left
  BY DEF sockVars

\* The goroutine whose turn it is, as the loops see it.
LEMMA CurrentIs ==
  ASSUME MultiGetInv, Looping
  PROVE  /\ Current \in Goroutines /\ Current = <<Level, n>> /\ Level \in Levels /\ Getting
         /\ pc = "L1Get" => Current = <<1, n>> /\ Level = 1
         /\ pc = "L2Get" => Current = <<2, n>> /\ Level = 2
         /\ gos[Current].keys \in Seq(Keys) /\ Len(gos[Current].keys) <= Len(req.keys)
         /\ gos[Current].at \in Busy => gos[Current].idx \in 1..Len(gos[Current].keys)
         /\ req \in Requests /\ req.op = "Get" /\ Len(req.keys) \in 1..MaxKeys
         /\ req.keys \in Seq(Keys) /\ ended = "none" /\ ~Calling /\ ~sent
  <1>1. TypeOK /\ TurnsOK /\ L1Progress /\ L2Progress
    BY DEF MultiGetInv
  <1>2. pc \in {"L1Get", "L2Get"} /\ Getting /\ ~Calling /\ ~sent
    BY <1>1 DEF Looping, Getting, Calling, TurnsOK
  <1>3. /\ Current \in Goroutines /\ Current = <<Level, n>> /\ Level \in Levels
        /\ pc = "L1Get" => Current = <<1, n>> /\ Level = 1
        /\ pc = "L2Get" => Current = <<2, n>> /\ Level = 2
    BY <1>1, <1>2, NamesAre DEF Level, Current
  <1>4. req # None /\ ended = "none" /\ req.op = "Get"
    BY <1>1, <1>2 DEF TurnsOK
  <1>5. req \in Requests /\ Len(req.keys) \in 1..MaxKeys /\ req.keys \in Seq(Keys)
    BY <1>1, <1>4, RequestIs DEF TypeOK
  <1>6. gos[Current].keys \in Seq(Keys)
    BY <1>1, <1>3, GoroutineIs
  <1>7. /\ Len(gos[Current].keys) <= Len(req.keys)
        /\ gos[Current].at \in Busy => gos[Current].idx \in 1..Len(gos[Current].keys)
    <2>1. CASE pc = "L1Get"
      <3>1. gos[Current].keys = req.keys
        BY <1>1, <1>3, <2>1 DEF L1Progress
      <3>2. Len(req.keys) <= Len(req.keys)
        BY <1>5
      <3> QED BY <1>1, <1>3, <2>1, <3>1, <3>2 DEF L1Progress
    <2>2. CASE pc = "L2Get"
      BY <1>1, <1>3, <2>2 DEF L2Progress
    <2> QED BY <1>2, <2>1, <2>2
  <1> QED BY <1>2, <1>3, <1>4, <1>5, <1>6, <1>7

\* AfterSend, for a goroutine that has sent the response for its key.
LEMMA AfterSendIs ==
  ASSUME NEW go \in Goroutine, Len(go.keys) \in 1..MaxKeys, go.idx \in 1..Len(go.keys)
  PROVE  /\ AfterSend(go) \in Goroutine /\ AfterSend(go).keys = go.keys
         /\ AfterSend(go).at \in {"write", "close"}
         /\ AfterSend(go).at = "write" =>
              AfterSend(go).idx = go.idx + 1 /\ go.idx + 1 \in 1..Len(go.keys)
         /\ AfterSend(go).at = "close" => go.idx = Len(go.keys)
  <1>1. MaxKeys \in Nat
    BY MultiGetAssumption
  <1>2. "nil" \in Answers \cup Errors /\ "write" \in GoStates /\ "close" \in GoStates
    BY DEF Errors, GoStates
  <1>3. CASE go.idx < Len(go.keys)
    <2>1. go.idx + 1 \in 0..MaxKeys /\ go.idx + 1 \in 1..Len(go.keys)
      BY <1>1, <1>3
    <2>2. AfterSend(go) = [go EXCEPT !.at = "write", !.idx = go.idx + 1, !.ans = "nil"]
      BY <1>3 DEF AfterSend
    <2> QED BY <1>2, <2>1, <2>2 DEF Goroutine
  <1>4. CASE ~(go.idx < Len(go.keys))
    <2>1. go.idx = Len(go.keys)
      BY <1>1, <1>4
    <2>2. AfterSend(go) = [go EXCEPT !.at = "close", !.ans = "nil"]
      BY <1>4 DEF AfterSend
    <2> QED BY <1>2, <2>1, <2>2 DEF Goroutine
  <1> QED BY <1>3, <1>4

\* An answer is added.
LEMMA AnswerIs ==
  ASSUME TypeOK, NEW key \in Keys, NEW hit \in BOOLEAN, Answer(key, hit)
  PROVE  /\ answered' \in Seq([key : Keys, hit : BOOLEAN])
         /\ Len(answered) \in Nat /\ Len(answered') = Len(answered) + 1
         /\ AnsweredKeys' = AnsweredKeys \cup {key}
         /\ Range(answered') = Range(answered) \cup {[key |-> key, hit |-> hit]}
  <1> DEFINE A == [key : Keys, hit : BOOLEAN]
             a == [key |-> key, hit |-> hit]
  <1>1. a \in A /\ answered \in Seq(A) /\ answered' = Append(answered, a) /\ a.key = key
    BY DEF TypeOK, Answer
  <1> HIDE DEF A, a
  <1>2. /\ answered' \in Seq(A) /\ Len(answered) \in Nat /\ Len(answered') = Len(answered) + 1
        /\ DOMAIN answered' = 1..(Len(answered) + 1) /\ DOMAIN answered = 1..Len(answered)
        /\ answered'[Len(answered) + 1] = a
        /\ \A i \in 1..Len(answered) : answered'[i] = answered[i]
    BY <1>1
  <1>3. \A i \in DOMAIN answered' : answered'[i] = a \/ (i \in DOMAIN answered /\ answered'[i] = answered[i])
    BY <1>2
  <1>4. AnsweredKeys' = AnsweredKeys \cup {key}
    BY <1>1, <1>2, <1>3 DEF AnsweredKeys
  <1>5. Range(answered') = Range(answered) \cup {a}
    BY <1>1, <1>2, <1>3 DEF Range
  <1> QED BY <1>2, <1>4, <1>5 DEF A, a

LEMMA TakeResponseStep ==
  ASSUME MultiGetInv, ~crossed, TakeResponse
  PROVE  MultiGetInv'
  <1> DEFINE go == gos[Current]
             key == go.keys[go.idx]
             hit == (go.ans = "hit")
             next == AfterSend(go)
  <1>1. /\ Looping /\ go.at = "send" /\ gos' = [gos EXCEPT ![Current] = next]
        /\ UNCHANGED sockVars /\ UNCHANGED <<broken, wait, err, ended, lost>>
    BY DEF TakeResponse
  <1>2. /\ TypeOK /\ TurnsOK /\ SocksOK /\ TruthOK /\ MissesOK /\ L1Progress /\ L2Progress
        /\ TrueAnswers
    BY DEF MultiGetInv
  <1>3. /\ Current \in Goroutines /\ Current = <<Level, n>> /\ Level \in Levels /\ Getting
        /\ pc = "L1Get" => Current = <<1, n>> /\ Level = 1
        /\ pc = "L2Get" => Current = <<2, n>> /\ Level = 2
        /\ go.keys \in Seq(Keys) /\ Len(go.keys) <= Len(req.keys)
        /\ go.at \in Busy => go.idx \in 1..Len(go.keys)
        /\ req \in Requests /\ req.op = "Get" /\ Len(req.keys) \in 1..MaxKeys
        /\ req.keys \in Seq(Keys) /\ ended = "none" /\ ~Calling /\ ~sent
    BY <1>1, CurrentIs
  <1>4. go.idx \in 1..Len(go.keys) /\ Len(go.keys) \in 1..MaxKeys /\ key \in Keys /\ MaxKeys \in Nat
        /\ go.idx \in Nat /\ Len(go.keys) \in Nat
    BY <1>1, <1>3, MultiGetAssumption DEF Busy
  <1>5. /\ orca' = orca /\ holds' = holds /\ sock' = sock /\ faults' = faults
        /\ crossed' = FALSE /\ crossed' = crossed /\ req' = req /\ n' = n /\ sent' = sent
        /\ left' = left /\ broken' = broken /\ wait' = wait /\ err' = err /\ ended' = ended
        /\ lost' = lost
    <2>1. crossed = FALSE
      BY <1>2 DEF TypeOK
    <2> QED BY <1>1, <2>1, SockVarsAre
  <1>6. hit <=> key \in holds[Level]
    BY <1>1, <1>2, <1>3 DEF TruthOK, CurrentKey
  <1>7. hit \in BOOLEAN
    OBVIOUS
  <1>8. go \in Goroutine /\ gos \in [Goroutines -> Goroutine]
    BY <1>2, <1>3 DEF TypeOK
  <1> HIDE DEF go
  <1>9. /\ next \in Goroutine /\ next.keys = go.keys /\ next.at \in {"write", "close"}
        /\ next.at = "write" => next.idx = go.idx + 1 /\ go.idx + 1 \in 1..Len(go.keys)
        /\ next.at = "close" => go.idx = Len(go.keys)
    BY <1>4, <1>8, AfterSendIs
  <1> HIDE DEF next, key, hit
  <1>10. /\ gos' \in [Goroutines -> Goroutine] /\ gos'[Current] = next
         /\ \A h \in Goroutines : h # Current => gos'[h] = gos[h]
    BY <1>1, <1>3, <1>8, <1>9
  <1>11. \/ /\ pc = "L1Get" /\ ~hit /\ orca # "L1Only"
            /\ l2keys' = Append(l2keys, key)
            /\ UNCHANGED <<pc, hand, answered>>
         \/ /\ pc = "L2Get" /\ hit /\ orca = "L1L2"
            /\ pc' = "Fill" /\ hand' = key
            /\ UNCHANGED <<l2keys, answered>>
         \/ /\ \/ pc = "L1Get" /\ (hit \/ orca = "L1Only")
               \/ pc = "L2Get" /\ (~hit \/ orca # "L1L2")
            /\ Answer(key, hit)
            /\ UNCHANGED <<pc, hand, l2keys>>
    BY DEF TakeResponse, go, key, hit
  <1>12. /\ pc \in {"L1Get", "L2Get"} /\ pc' \in {pc, "Fill"} /\ (pc' = "Fill" => pc = "L2Get")
         /\ pc' = "Fill" => orca = "L1L2"
    BY <1>1, <1>11 DEF Looping
  <1>13. /\ Len(l2keys) \in Nat /\ Len(answered) \in Nat /\ l2keys \in Seq(Keys)
         /\ answered \in Seq([key : Keys, hit : BOOLEAN]) /\ DOMAIN l2keys = 1..Len(l2keys)
    BY <1>2 DEF TypeOK
  <1>14. /\ Append(l2keys, key) \in Seq(Keys) /\ Len(Append(l2keys, key)) = Len(l2keys) + 1
         /\ KeysOf(Append(l2keys, key)) = KeysOf(l2keys) \cup {key}
         /\ \A i \in DOMAIN Append(l2keys, key) :
              Append(l2keys, key)[i] = key \/ \E j \in DOMAIN l2keys : Append(l2keys, key)[i] = l2keys[j]
    <2>1. /\ Append(l2keys, key) \in Seq(Keys) /\ Len(Append(l2keys, key)) = Len(l2keys) + 1
          /\ DOMAIN Append(l2keys, key) = 1..(Len(l2keys) + 1)
          /\ Append(l2keys, key)[Len(l2keys) + 1] = key
          /\ \A i \in 1..Len(l2keys) : Append(l2keys, key)[i] = l2keys[i]
      BY <1>4, <1>13
    <2>2. \A i \in DOMAIN Append(l2keys, key) :
            Append(l2keys, key)[i] = key \/
              (i \in DOMAIN l2keys /\ Append(l2keys, key)[i] = l2keys[i])
      BY <1>13, <2>1
    <2>3. KeysOf(Append(l2keys, key)) = KeysOf(l2keys) \cup {key}
      BY <1>13, <2>1, <2>2 DEF KeysOf
    <2> QED BY <2>1, <2>2, <2>3
  <1>15. Answer(key, hit) =>
           /\ answered' \in Seq([key : Keys, hit : BOOLEAN])
           /\ Len(answered') = Len(answered) + 1
           /\ AnsweredKeys' = AnsweredKeys \cup {key}
           /\ Range(answered') = Range(answered) \cup {[key |-> key, hit |-> hit]}
    BY <1>2, <1>4, <1>7, AnswerIs
  <1>16. TypeOK'
    <2>1. l2keys' \in Seq(Keys) /\ hand' \in Keys \cup {None}
          /\ answered' \in Seq([key : Keys, hit : BOOLEAN])
      BY <1>2, <1>4, <1>11, <1>14, <1>15 DEF TypeOK
    <2> QED BY <1>2, <1>5, <1>10, <1>12, <2>1 DEF TypeOK
  <1>17. TurnsOK'
    <2>1. \A h \in Goroutines : gos'[h].at \in Busy => h = Current \/ gos[h].at \in Busy
      BY <1>10
    <2> QED BY <1>2, <1>3, <1>5, <1>12, <2>1 DEF TurnsOK, TurnOf, Getting, Calling
  <1>18. \A l \in Levels : InCall(l) \subseteq InCall(l)'
    BY <1>1, <1>3, <1>5, <1>9, <1>10 DEF InCall, go
  <1>19. SocksOK'
    <2>1. \A g \in Goroutines : gos'[g].at = "sendErr" => gos'[g].ans \in {"Busy", "IOError"}
      BY <1>2, <1>3, <1>9, <1>10 DEF SocksOK
    <2> QED BY <1>2, <1>5, <1>18, <2>1, SocksKept
  <1>20. TruthOK'
    <2>1. Current' = Current
      BY <1>3, <1>5, <1>12 DEF Current, Level
    <2> QED BY <1>9, <1>10, <2>1 DEF TruthOK
  <1>21. MissesOK'
    <2>1. pc = "L1Get" /\ ~hit => key \notin holds[1]
      BY <1>3, <1>6
    <2>2. pc = "L2Get" /\ hit => key \in holds[2]
      BY <1>3, <1>6
    <2>3. /\ \A i \in DOMAIN l2keys : l2keys[i] \in holds[1] => l2keys[i] \in holds[2]
      BY <1>2, <1>3 DEF MissesOK
    <2>4. \A i \in DOMAIN l2keys' : l2keys'[i] \in holds[1] => l2keys'[i] \in holds[2]
      BY <1>11, <1>14, <2>1, <2>3
    <2> QED BY <1>4, <1>5, <1>11, <1>12, <2>2, <2>4 DEF MissesOK
  <1>22. EndIsComplete'
    BY <1>3, <1>5 DEF EndIsComplete
  <1>23. KeysOf(req.keys) = {req.keys[i] : i \in 1..Len(req.keys)} /\ KeysOf(req.keys)' = KeysOf(req.keys)
    BY <1>3, <1>5 DEF KeysOf
  <1>24. go.at \in Busy /\ go.at \notin Closing /\ "write" \in Busy /\ "write" \notin Closing
         /\ "close" \in Closing /\ "close" \notin Busy
    BY <1>1 DEF Busy, Closing, go
  <1>25. CASE pc = "L1Get"
    <2>1. /\ go.keys = req.keys
          /\ AnsweredKeys \cup KeysOf(l2keys) \subseteq KeysOf(req.keys)
          /\ orca = "L1Only" => l2keys = <<>>
          /\ Len(answered) + Len(l2keys) = go.idx - 1
          /\ \A i \in 1..(go.idx - 1) : req.keys[i] \in AnsweredKeys \cup KeysOf(l2keys)
      BY <1>2, <1>3, <1>24, <1>25 DEF L1Progress, go
    <2>2. pc' = "L1Get" /\ Current = <<1, n>> /\ Level = 1
      BY <1>3, <1>11, <1>25
    <2>3. /\ Len(answered') + Len(l2keys') = go.idx
          /\ AnsweredKeys' \cup KeysOf(l2keys') = AnsweredKeys \cup KeysOf(l2keys) \cup {key}
          /\ orca = "L1Only" => l2keys' = <<>>
          /\ Len(answered') \in Nat /\ Len(l2keys') \in Nat
      <3>1. CASE l2keys' = Append(l2keys, key) /\ answered' = answered /\ orca # "L1Only"
        <4>1. AnsweredKeys' = AnsweredKeys
          BY <3>1 DEF AnsweredKeys
        <4> QED BY <1>4, <1>13, <1>14, <2>1, <3>1, <4>1
      <3>2. CASE Answer(key, hit) /\ l2keys' = l2keys
        <4>1. Len(answered') = Len(answered) + 1 /\ AnsweredKeys' = AnsweredKeys \cup {key}
          BY <1>15, <3>2
        <4>2. Len(answered') + Len(l2keys') = go.idx /\ Len(answered') \in Nat
          <5>1. Len(answered) + Len(l2keys) = go.idx - 1
            BY <2>1
          <5>2. Len(l2keys') = Len(l2keys) /\ Len(answered') = Len(answered) + 1
            BY <3>2, <4>1
          <5>3. go.idx \in Nat /\ Len(answered) \in Nat /\ Len(l2keys) \in Nat
            BY <1>4, <1>13
          <5> QED BY <5>1, <5>2, <5>3
        <4> QED BY <1>13, <2>1, <3>2, <4>1, <4>2
      <3> QED BY <1>11, <1>25, <3>1, <3>2
    <2>4. key = req.keys[go.idx] /\ key \in KeysOf(req.keys)
      BY <1>4, <1>23, <2>1 DEF key
    <2>5. \A i \in 1..go.idx : req.keys[i] \in AnsweredKeys' \cup KeysOf(l2keys')
      <3>1. \A i \in 1..go.idx : i \in 1..(go.idx - 1) \/ i = go.idx
        BY <1>4
      <3> QED BY <2>1, <2>3, <2>4, <3>1
    <2>6. L1Progress'
      <3> DEFINE K == AnsweredKeys' \cup KeysOf(l2keys')
                 total == Len(answered') + Len(l2keys')
                 Q == KeysOf(req.keys)
      <3>1. K \subseteq Q /\ total = go.idx /\ \A i \in 1..go.idx : req.keys[i] \in K
        BY <2>1, <2>3, <2>4, <2>5
      <3>2. KeysOf(l2keys)' = KeysOf(l2keys')
        BY DEF KeysOf
      <3>3. CASE next.at = "write"
        <4>1. next.idx \in 1..Len(req.keys) /\ next.idx - 1 = go.idx
          BY <1>4, <1>9, <2>1, <3>3
        <4> HIDE DEF K, total, Q
        <4>2. /\ K \subseteq Q /\ next.keys = req.keys /\ next.at # "none"
              /\ total = next.idx - 1
              /\ \A i \in 1..(next.idx - 1) : req.keys[i] \in K
          BY <1>9, <2>1, <3>1, <3>3, <4>1
        <4> QED BY <1>5, <1>10, <1>23, <1>24, <2>2, <2>3, <3>2, <3>3, <4>1, <4>2
                DEF L1Progress, K, total, Q
      <3>4. CASE next.at = "close"
        <4>1. total = Len(req.keys) /\ Q \subseteq K
          BY <1>9, <1>23, <2>1, <3>1, <3>4
        <4>2. total <= Len(req.keys)
          BY <1>3, <4>1
        <4> HIDE DEF K, total, Q
        <4> QED BY <1>5, <1>9, <1>10, <1>23, <1>24, <2>1, <2>2, <2>3, <3>1, <3>2, <3>4, <4>1, <4>2
                DEF L1Progress, K, total, Q
      <3> QED BY <1>9, <3>3, <3>4
    <2>7. L2Progress'
      BY <2>2 DEF L2Progress
    <2>8. TrueAnswers'
      <3>1. /\ Len(answered) <= Len(req.keys)
            /\ \A a \in Range(answered) :
                 a.hit <=> a.key \in holds[1] \/ (orca # "L1Only" /\ a.key \in holds[2])
        BY <1>2, <1>3, MultiGetAssumption DEF TrueAnswers
      <3>2. CASE answered' = answered
        BY <1>5, <3>1, <3>2 DEF TrueAnswers
      <3>3. CASE Answer(key, hit) /\ (hit \/ orca = "L1Only")
        <4>1. Len(answered') <= Len(req.keys)
          BY <1>3, <1>4, <2>1, <2>3
        <4>2. \A a \in Range(answered') : a \in Range(answered) \/ (a.key = key /\ a.hit = hit)
          BY <1>15, <3>3
        <4>3. hit <=> key \in holds[1] \/ (orca # "L1Only" /\ key \in holds[2])
          BY <1>6, <2>2, <3>3
        <4>4. \A a \in Range(answered') :
                a.hit <=> a.key \in holds[1] \/ (orca # "L1Only" /\ a.key \in holds[2])
          BY <3>1, <4>2, <4>3
        <4> QED BY <1>5, <4>1, <4>4 DEF TrueAnswers
      <3> QED BY <1>11, <1>25, <3>2, <3>3
    <2> QED BY <1>16, <1>17, <1>19, <1>20, <1>21, <1>22, <2>6, <2>7, <2>8 DEF MultiGetInv
  <1>26. CASE pc = "L2Get"
    <2>1. /\ go.keys = l2keys /\ Len(l2keys) <= Len(req.keys)
          /\ AnsweredKeys \cup KeysOf(l2keys) \subseteq KeysOf(req.keys)
          /\ Len(answered) + Len(l2keys) - (go.idx - 1) <= Len(req.keys)
          /\ \A i \in 1..(go.idx - 1) : l2keys[i] \in AnsweredKeys
          /\ (err = "nil" /\ ~lost) =>
               /\ Len(answered) + Len(l2keys) - (go.idx - 1) = Len(req.keys)
               /\ KeysOf(req.keys) \subseteq AnsweredKeys \cup KeysOf(l2keys)
      <3>1. Count = Len(answered) /\ Handed = {}
        BY <1>13, <1>26 DEF Count, Handed
      <3> QED BY <1>2, <1>3, <1>24, <1>26, <3>1 DEF L2Progress, go
    <2>2. pc' \in {"L2Get", "Fill"} /\ Current = <<2, n>> /\ Level = 2 /\ orca # "L1Only"
      BY <1>2, <1>3, <1>11, <1>26 DEF TurnsOK
    <2>3. /\ Count' = Len(answered) + 1 /\ l2keys' = l2keys
          /\ AnsweredKeys' \cup Handed' = AnsweredKeys \cup {key}
      <3>1. CASE pc' = "Fill" /\ hand' = key /\ UNCHANGED <<l2keys, answered>>
        BY <3>1 DEF Count, Handed, AnsweredKeys
      <3>2. CASE Answer(key, hit) /\ UNCHANGED <<pc, hand, l2keys>>
        <4>1. Handed' = {} /\ Count' = Len(answered')
          BY <1>13, <1>15, <1>26, <3>2 DEF Handed, Count
        <4> QED BY <1>15, <3>2, <4>1
      <3> QED BY <1>11, <1>26, <3>1, <3>2
    <2>4. key = l2keys[go.idx] /\ key \in KeysOf(l2keys)
      BY <1>4, <1>13, <2>1 DEF key, KeysOf
    <2>5. \A i \in 1..go.idx : l2keys[i] \in AnsweredKeys' \cup Handed'
      <3>1. \A i \in 1..go.idx : i \in 1..(go.idx - 1) \/ i = go.idx
        BY <1>4
      <3> QED BY <2>1, <2>3, <2>4, <3>1
    <2>6. L2Progress'
      <3> DEFINE K == AnsweredKeys' \cup Handed'
                 Q == KeysOf(req.keys)
                 L == KeysOf(l2keys)
      <3>1. /\ KeysOf(l2keys)' = L /\ K \cup L \subseteq Q
            /\ (err = "nil" /\ ~lost) => Q \subseteq K \cup L
        BY <2>1, <2>3, <2>4 DEF KeysOf
      <3>2. CASE next.at = "write"
        <4>1. /\ next.idx \in 1..Len(l2keys) /\ next.idx - 1 = go.idx
              /\ Count' + Len(l2keys) - (next.idx - 1) <= Len(req.keys)
              /\ (err = "nil" /\ ~lost) => Count' + Len(l2keys) - (next.idx - 1) = Len(req.keys)
          <5>1. next.idx = go.idx + 1 /\ next.idx \in 1..Len(l2keys)
            BY <1>9, <2>1, <3>2
          <5>2. next.idx - 1 = go.idx
            BY <1>4, <5>1
          <5>3. Count' + Len(l2keys) - go.idx = Len(answered) + Len(l2keys) - (go.idx - 1)
            <6>1. go.idx \in Nat /\ Len(answered) \in Nat /\ Len(l2keys) \in Nat
              BY <1>4, <1>13
            <6>2. Count' = Len(answered) + 1
              BY <2>3
            <6> QED BY <6>1, <6>2
          <5> QED BY <2>1, <5>1, <5>2, <5>3
        <4>2. \A i \in 1..(next.idx - 1) : l2keys[i] \in K
          BY <2>5, <4>1
        <4> HIDE DEF K, Q, L
        <4>3. next.keys = l2keys /\ next.at # "none" /\ next.at \in Busy /\ next.at \notin Closing
          BY <1>9, <1>24, <2>1, <3>2
        <4> QED BY <1>5, <1>10, <1>23, <2>1, <2>2, <2>3, <3>1, <4>1, <4>2, <4>3
                DEF L2Progress, K, Q, L
      <3>3. CASE next.at = "close"
        <4>1. /\ Count' <= Len(req.keys)
              /\ (err = "nil" /\ ~lost) => Count' = Len(req.keys)
          BY <1>3, <1>4, <1>9, <1>13, <2>1, <2>3, <3>3
        <4>2. L \subseteq K
          BY <1>9, <1>13, <2>1, <2>5, <3>3 DEF KeysOf
        <4> HIDE DEF K, Q, L
        <4>3. next.keys = l2keys /\ next.at # "none" /\ next.at \notin Busy /\ next.at \in Closing
          BY <1>9, <1>24, <2>1, <3>3
        <4>4. (err = "nil" /\ ~lost) => Q \subseteq K
          BY <3>1, <4>2
        <4> QED BY <1>5, <1>10, <1>23, <2>1, <2>2, <2>3, <3>1, <4>1, <4>3, <4>4
                DEF L2Progress, K, Q, L
      <3> QED BY <1>9, <3>2, <3>3
    <2>7. L1Progress'
      BY <2>2 DEF L1Progress
    <2>8. TrueAnswers'
      <3>1. /\ Len(answered) <= Len(req.keys)
            /\ \A a \in Range(answered) :
                 a.hit <=> a.key \in holds[1] \/ (orca # "L1Only" /\ a.key \in holds[2])
        BY <1>2, <1>3, MultiGetAssumption DEF TrueAnswers
      <3>2. CASE answered' = answered
        BY <1>5, <3>1, <3>2 DEF TrueAnswers
      <3>3. CASE Answer(key, hit)
        <4>1. Len(answered') <= Len(req.keys)
          BY <1>3, <1>4, <1>13, <1>15, <2>1, <3>3
        <4>2. \A a \in Range(answered') : a \in Range(answered) \/ (a.key = key /\ a.hit = hit)
          BY <1>15, <3>3
        <4>3. hit <=> key \in holds[1] \/ (orca # "L1Only" /\ key \in holds[2])
          <5>1. key \in holds[1] => key \in holds[2]
            BY <1>2, <1>3, <1>4, <1>13, <2>1, <2>4 DEF MissesOK
          <5> QED BY <1>6, <2>2, <5>1
        <4>4. \A a \in Range(answered') :
                a.hit <=> a.key \in holds[1] \/ (orca # "L1Only" /\ a.key \in holds[2])
          BY <3>1, <4>2, <4>3
        <4> QED BY <1>5, <4>1, <4>4 DEF TrueAnswers
      <3> QED BY <1>11, <1>26, <3>2, <3>3
    <2> QED BY <1>16, <1>17, <1>19, <1>20, <1>21, <1>22, <2>6, <2>7, <2>8 DEF MultiGetInv
  <1> QED BY <1>12, <1>25, <1>26

LEMMA TakeErrorStep ==
  ASSUME MultiGetInv, ~crossed, TakeError
  PROVE  MultiGetInv'
  <1> DEFINE go == gos[Current]
  <1>1. /\ Looping /\ go.at = "sendErr" /\ Go(Current, "close", "nil") /\ err' = go.ans
        /\ UNCHANGED sockVars
        /\ UNCHANGED <<broken, pc, wait, hand, l2keys, answered, ended, lost>>
    BY DEF TakeError, Go
  <1>2. /\ TypeOK /\ TurnsOK /\ SocksOK /\ TruthOK /\ MissesOK /\ L1Progress /\ L2Progress
        /\ TrueAnswers
    BY DEF MultiGetInv
  <1>3. /\ Current \in Goroutines /\ Current = <<Level, n>> /\ Level \in Levels /\ Getting
        /\ pc = "L1Get" => Current = <<1, n>> /\ Level = 1
        /\ pc = "L2Get" => Current = <<2, n>> /\ Level = 2
        /\ go.at \in Busy => go.idx \in 1..Len(go.keys)
        /\ Len(req.keys) \in 1..MaxKeys /\ ended = "none" /\ ~sent /\ go.keys \in Seq(Keys)
    BY <1>1, CurrentIs
  <1>4. go.at \in Busy /\ go.idx \in 1..Len(go.keys) /\ Len(go.keys) \in Nat /\ go.idx \in Nat
        /\ Len(req.keys) \in Nat
    BY <1>1, <1>3, MultiGetAssumption DEF Busy
  <1>5. /\ orca' = orca /\ holds' = holds /\ sock' = sock /\ faults' = faults
        /\ crossed' = crossed /\ req' = req /\ n' = n /\ sent' = sent /\ left' = left
        /\ broken' = broken /\ pc' = pc /\ wait' = wait /\ hand' = hand /\ l2keys' = l2keys
        /\ answered' = answered /\ ended' = ended /\ lost' = lost
    BY <1>1, SockVarsAre
  <1>6. err' \in {"Busy", "IOError"} /\ err' # "nil" /\ err' \in Errors
    BY <1>1, <1>2, <1>3 DEF SocksOK, Errors
  <1>7. /\ gos' \in [Goroutines -> Goroutine] /\ gos'[Current].at = "close"
        /\ gos'[Current].keys = go.keys
        /\ \A h \in Goroutines : h # Current => gos'[h] = gos[h]
    <2>1. "close" \in GoStates /\ "nil" \in Answers \cup Errors
      BY DEF GoStates, Errors
    <2> QED BY <1>1, <1>2, <1>3, <2>1, GoIs
  <1>8. "close" \in Closing /\ "close" \notin Busy
    BY DEF Closing, Busy
  <1>9. TypeOK'
    BY <1>2, <1>5, <1>6, <1>7 DEF TypeOK
  <1>10. TurnsOK'
    <2>1. \A h \in Goroutines : gos'[h].at \in Busy => gos[h].at \in Busy
      BY <1>3, <1>7, <1>8
    <2> QED BY <1>2, <1>5, <2>1 DEF TurnsOK, TurnOf, Getting, Calling
  <1>11. SocksOK'
    <2>1. \A l \in Levels : InCall(l) \subseteq InCall(l)'
      BY <1>1, <1>3, <1>5, <1>7 DEF InCall, Calling, CallLevel
    <2>2. \A g \in Goroutines : gos'[g].at = "sendErr" => gos'[g].ans \in {"Busy", "IOError"}
      BY <1>2, <1>3, <1>7 DEF SocksOK
    <2> QED BY <1>2, <1>5, <2>1, <2>2, SocksKept
  <1>12. TruthOK'
    <2>1. Current' = Current
      BY <1>5 DEF Current, Level
    <2> QED BY <1>7, <2>1 DEF TruthOK
  <1>13. MissesOK' /\ TrueAnswers'
    BY <1>2, <1>5 DEF MissesOK, TrueAnswers, Getting
  <1>14. EndIsComplete'
    BY <1>3, <1>5 DEF EndIsComplete
  <1>15. /\ AnsweredKeys' = AnsweredKeys /\ KeysOf(l2keys)' = KeysOf(l2keys)
         /\ KeysOf(req.keys)' = KeysOf(req.keys) /\ Count' = Count /\ Handed' = Handed
    BY <1>5 DEF AnsweredKeys, KeysOf, Count, Handed
  <1>16. Len(answered) \in Nat /\ Len(l2keys) \in Nat
    BY <1>2 DEF TypeOK
  <1>17. L1Progress'
    <2>1. SUFFICES ASSUME pc = "L1Get" PROVE L1Progress'
      BY <1>5 DEF L1Progress
    <2>2. /\ go.keys = req.keys
          /\ AnsweredKeys \cup KeysOf(l2keys) \subseteq KeysOf(req.keys)
          /\ orca = "L1Only" => l2keys = <<>>
          /\ go.idx \in 1..Len(req.keys)
          /\ Len(answered) + Len(l2keys) = go.idx - 1
      BY <1>2, <1>3, <1>4, <2>1 DEF L1Progress
    <2> HIDE DEF go
    <2>3. Len(answered) + Len(l2keys) <= Len(req.keys)
      <3>1. go.idx \in 1..Len(req.keys) /\ Len(answered) + Len(l2keys) = go.idx - 1
        BY <2>2
      <3> QED BY <1>4, <1>16, <3>1
    <2> QED BY <1>3, <1>5, <1>6, <1>7, <1>8, <1>15, <2>1, <2>2, <2>3 DEF L1Progress
  <1>18. L2Progress'
    <2>1. SUFFICES ASSUME pc = "L2Get" PROVE L2Progress'
      BY <1>1, <1>5 DEF L2Progress, Looping
    <2>2. /\ go.keys = l2keys /\ Len(l2keys) <= Len(req.keys)
          /\ AnsweredKeys \cup Handed \cup KeysOf(l2keys) \subseteq KeysOf(req.keys)
          /\ go.idx \in 1..Len(l2keys)
          /\ Count + Len(l2keys) - (go.idx - 1) <= Len(req.keys)
      BY <1>2, <1>3, <1>4, <2>1 DEF L2Progress
    <2> HIDE DEF go
    <2>3. Count <= Len(req.keys)
      <3>1. go.idx \in 1..Len(l2keys) /\ Count + Len(l2keys) - (go.idx - 1) <= Len(req.keys)
        BY <2>2
      <3>2. Count \in Nat
        BY <1>16, <2>1 DEF Count
      <3> QED BY <1>4, <1>16, <3>1, <3>2
    <2> QED BY <1>3, <1>5, <1>6, <1>7, <1>8, <1>15, <2>1, <2>2, <2>3 DEF L2Progress
  <1> QED BY <1>9, <1>10, <1>11, <1>12, <1>13, <1>14, <1>17, <1>18 DEF MultiGetInv

\* The keys of the answers, in the words of EndIsComplete.
LEMMA RangesAre ==
  /\ {a.key : a \in Range(answered)} = AnsweredKeys
  /\ Range(req.keys) = KeysOf(req.keys)
  BY DEF Range, AnsweredKeys, KeysOf

LEMMA TakeClosedStep ==
  ASSUME MultiGetInv, ~crossed, TakeClosed
  PROVE  MultiGetInv'
  <1> DEFINE at == gos[Current].at
  <1>1. Looping /\ UNCHANGED sockVars /\ UNCHANGED <<l2keys, answered, lost>>
    BY DEF TakeClosed
  <1>2. PICK ch \in wait \cap ClosedBy(at) :
       \/ /\ wait # {ch}
          /\ wait' = wait \ {ch}
          /\ UNCHANGED <<broken, pc, gos, hand, err, ended>>
       \/ /\ wait = {ch} /\ pc = "L1Get" /\ l2keys # <<>>
          /\ pc' = "L2Get"
          /\ Start(<<2, n>>, l2keys)
          /\ wait' = {"data", "err"}
          /\ UNCHANGED <<broken, hand, err, ended>>
       \/ /\ wait = {ch} /\ (pc = "L2Get" \/ l2keys = <<>>)
          /\ Return(err, broken)
          /\ wait' = {}
          /\ UNCHANGED gos
    BY DEF TakeClosed
  <1>3. at \in Closing /\ at \notin Busy
    BY <1>2 DEF ClosedBy, Closing, Busy
  <1>4. /\ TypeOK /\ TurnsOK /\ SocksOK /\ TruthOK /\ MissesOK /\ L1Progress /\ L2Progress
        /\ TrueAnswers
    BY DEF MultiGetInv
  <1>5. /\ Current \in Goroutines /\ Current = <<Level, n>> /\ Level \in Levels /\ Getting
        /\ pc = "L1Get" => Current = <<1, n>> /\ Level = 1
        /\ pc = "L2Get" => Current = <<2, n>> /\ Level = 2
        /\ Len(req.keys) \in 1..MaxKeys /\ ended = "none" /\ ~sent /\ ~Calling
    BY <1>1, CurrentIs
  <1>6. /\ orca' = orca /\ holds' = holds /\ sock' = sock /\ faults' = faults
        /\ crossed' = crossed /\ req' = req /\ n' = n /\ sent' = sent /\ left' = left
        /\ l2keys' = l2keys /\ answered' = answered /\ lost' = lost
    BY <1>1, SockVarsAre
  <1>7. /\ Len(answered) \in Nat /\ Len(l2keys) \in Nat /\ l2keys \in Seq(Keys)
        /\ Len(req.keys) \in Nat /\ pc \in {"L1Get", "L2Get"}
    BY <1>1, <1>4, <1>5, MultiGetAssumption DEF TypeOK, Looping
  <1>8. TrueAnswers'
    BY <1>4, <1>6 DEF TrueAnswers
  <1>9. CASE wait' = wait \ {ch} /\ UNCHANGED <<broken, pc, gos, hand, err, ended>>
    <2>1. TypeOK'
      BY <1>4, <1>6, <1>9 DEF TypeOK
    <2>2. TurnsOK' /\ MissesOK'
      BY <1>4, <1>6, <1>9 DEF TurnsOK, TurnOf, MissesOK, Getting, Calling
    <2>3. SocksOK'
      BY <1>4, <1>6, <1>9 DEF SocksOK, InCall, Calling, CallLevel
    <2>4. TruthOK'
      BY <1>4, <1>6, <1>9 DEF TruthOK, Getting, Current, CurrentKey, Level
    <2>5. /\ AnsweredKeys' = AnsweredKeys /\ KeysOf(l2keys)' = KeysOf(l2keys)
          /\ KeysOf(req.keys)' = KeysOf(req.keys) /\ Count' = Count /\ Handed' = Handed
          /\ gos'[<<1, n'>>] = gos[<<1, n>>] /\ gos'[<<2, n'>>] = gos[<<2, n>>]
          /\ pc' = pc /\ err' = err
      BY <1>6, <1>9 DEF AnsweredKeys, KeysOf, Count, Handed
    <2>6. L1Progress' /\ L2Progress'
      <3> HIDE DEF at
      <3>1. L1Progress'
        BY <1>4, <1>6, <2>5 DEF L1Progress
      <3>2. L2Progress'
        BY <1>4, <1>6, <2>5 DEF L2Progress
      <3> QED BY <3>1, <3>2
    <2>7. EndIsComplete'
      BY <1>5, <1>9 DEF EndIsComplete
    <2> QED BY <1>8, <2>1, <2>2, <2>3, <2>4, <2>6, <2>7 DEF MultiGetInv
  <1>10. CASE /\ pc = "L1Get" /\ l2keys # <<>> /\ pc' = "L2Get"
              /\ Start(<<2, n>>, l2keys) /\ wait' = {"data", "err"}
              /\ UNCHANGED <<broken, hand, err, ended>>
    <2> DEFINE g == <<2, n>>
    <2>1. g \in Goroutines /\ MaxKeys # 0
      BY <1>4, <1>10, NamesAre, MultiGetAssumption
    <2>2. /\ gos' \in [Goroutines -> Goroutine]
          /\ gos'[g].at = "write" /\ gos'[g].keys = l2keys /\ gos'[g].idx = 1
          /\ \A h \in Goroutines : h # g => gos'[h] = gos[h]
      BY <1>4, <1>7, <1>10, <2>1, StartIs
    <2>3. gos[g].at \notin Busy
      <3>1. g # <<1, n>> /\ (g \in left => g[2] < n) /\ ~(n < n)
        BY <1>4, <1>10 DEF TurnsOK, TypeOK
      <3> QED BY <1>4, <1>10, <2>1, <3>1 DEF TurnsOK, TurnOf
    <2>4. "write" \in Busy /\ "write" \notin Closing /\ gos[g].at # "read"
      BY <2>3 DEF Busy, Closing
    <2>5. /\ orca # "L1Only" /\ Len(l2keys) # 0
          /\ AnsweredKeys \cup KeysOf(l2keys) \subseteq KeysOf(req.keys)
          /\ Len(answered) + Len(l2keys) <= Len(req.keys)
          /\ err = "nil" =>
               /\ Len(answered) + Len(l2keys) = Len(req.keys)
               /\ KeysOf(req.keys) \subseteq AnsweredKeys \cup KeysOf(l2keys)
      <3>1. Len(l2keys) # 0
        BY <1>7, <1>10
      <3> QED BY <1>3, <1>4, <1>5, <1>10, <3>1 DEF L1Progress
    <2> HIDE DEF g
    <2>6. TypeOK'
      BY <1>4, <1>6, <1>10, <2>2 DEF TypeOK
    <2>7. TurnsOK'
      <3>1. \A h \in Goroutines : gos'[h].at \in Busy => h = g \/ h \in left
        <4>1. \A h \in Goroutines : gos[h].at \in Busy => h = <<1, n>> \/ h \in left
          BY <1>4, <1>10 DEF TurnsOK, TurnOf
        <4> QED BY <1>3, <1>5, <1>10, <2>2, <4>1
      <3> QED BY <1>4, <1>5, <1>6, <1>10, <2>5, <3>1 DEF TurnsOK, TurnOf, Getting, Calling, g
    <2>8. SocksOK'
      <3>1. \A l \in Levels : InCall(l) \subseteq InCall(l)'
        BY <1>5, <1>6, <2>1, <2>2, <2>4 DEF InCall
      <3>2. \A h \in Goroutines : gos'[h].at = "sendErr" => gos'[h].ans \in {"Busy", "IOError"}
        BY <1>4, <2>1, <2>2 DEF SocksOK
      <3> QED BY <1>4, <1>6, <1>10, <3>1, <3>2, SocksKept
    <2>9. TruthOK'
      <3>1. Current' = g
        BY <1>6, <1>10 DEF Current, Level, g
      <3> QED BY <2>2, <3>1 DEF TruthOK
    <2>10. MissesOK'
      BY <1>4, <1>5, <1>6, <1>10 DEF MissesOK
    <2>11. L1Progress' /\ EndIsComplete'
      BY <1>5, <1>10 DEF L1Progress, EndIsComplete
    <2>12. L2Progress'
      <3>1. /\ AnsweredKeys' = AnsweredKeys /\ KeysOf(l2keys)' = KeysOf(l2keys)
            /\ KeysOf(req.keys)' = KeysOf(req.keys) /\ Count' = Len(answered) /\ Handed' = {}
        BY <1>6, <1>7, <1>10 DEF AnsweredKeys, KeysOf, Count, Handed
      <3>2. /\ Len(l2keys) <= Len(req.keys) /\ 1 \in 1..Len(l2keys)
            /\ Len(answered) + Len(l2keys) - (1 - 1) = Len(answered) + Len(l2keys)
        <4>1. Len(l2keys) # 0 /\ Len(answered) + Len(l2keys) <= Len(req.keys)
          BY <2>5
        <4> QED BY <1>7, <4>1
      <3>3. 1..(1 - 1) = {}
        OBVIOUS
      <3>4. gos'[<<2, n'>>] = gos'[g]
        BY <1>6 DEF g
      <3> HIDE DEF at
      <3> QED BY <1>6, <1>10, <2>2, <2>4, <2>5, <3>1, <3>2, <3>3, <3>4 DEF L2Progress
    <2> QED BY <1>8, <2>6, <2>7, <2>8, <2>9, <2>10, <2>11, <2>12 DEF MultiGetInv
  <1>11. CASE /\ pc = "L2Get" \/ l2keys = <<>>
              /\ Return(err, broken) /\ wait' = {} /\ gos' = gos
    <2>1. /\ ended' = IF err = "nil" THEN "end" ELSE "error"
          /\ err' = err /\ hand' = None
          /\ pc' = IF err = "IOError" THEN "closed" ELSE "idle"
          /\ broken' = IF err = "IOError" THEN Levels ELSE broken
      BY <1>11 DEF Return
    <2>2. /\ pc' \in {"idle", "closed"} /\ broken \subseteq broken' /\ broken' \subseteq Levels
          /\ ended' \in {"end", "error"} /\ (ended' = "end" => err = "nil")
          /\ pc' = "closed" => broken' = Levels
      BY <1>4, <2>1 DEF TypeOK
    <2>3. TypeOK'
      BY <1>4, <1>6, <1>11, <2>1, <2>2 DEF TypeOK
    <2>4. TurnsOK'
      <3>1. \A h \in Goroutines : gos[h].at \in Busy => h \in left
        BY <1>3, <1>4, <1>5, <1>7 DEF TurnsOK, TurnOf
      <3> QED BY <1>4, <1>5, <1>6, <1>11, <2>2, <3>1 DEF TurnsOK, TurnOf, Getting, Calling
    <2>5. SocksOK'
      <3>1. \A l \in Levels : InCall(l) \subseteq InCall(l)'
        BY <1>5, <1>6, <1>11 DEF InCall
      <3> QED BY <1>4, <1>6, <1>11, <2>2, <3>1, SocksKept DEF SocksOK
    <2>6. TruthOK' /\ MissesOK' /\ L1Progress' /\ L2Progress'
      BY <2>2 DEF TruthOK, MissesOK, L1Progress, L2Progress, Getting
    <2>7. EndIsComplete'
      <3>1. ASSUME err = "nil", ~lost
            PROVE  Len(answered) = Len(req.keys) /\ AnsweredKeys = KeysOf(req.keys)
        <4>1. CASE pc = "L1Get"
          <5>1. l2keys = <<>> /\ Len(l2keys) = 0 /\ KeysOf(l2keys) = {}
            BY <1>11, <4>1 DEF KeysOf
          <5>2. /\ AnsweredKeys \cup KeysOf(l2keys) \subseteq KeysOf(req.keys)
                /\ Len(answered) + Len(l2keys) = Len(req.keys)
                /\ KeysOf(req.keys) \subseteq AnsweredKeys \cup KeysOf(l2keys)
            BY <1>3, <1>4, <1>5, <3>1, <4>1 DEF L1Progress
          <5>3. Len(answered) = Len(req.keys)
            BY <1>7, <5>1, <5>2
          <5> QED BY <5>1, <5>2, <5>3
        <4>2. CASE pc = "L2Get"
          <5>1. Count = Len(answered) /\ Handed = {}
            BY <1>7, <4>2 DEF Count, Handed
          <5> QED BY <1>3, <1>4, <1>5, <3>1, <4>2, <5>1 DEF L2Progress
        <4> QED BY <1>7, <4>1, <4>2
      <3>2. lost => orca = "L1L2"
        BY <1>4 DEF TurnsOK
      <3>3. ended' = "end" =>
              \/ /\ Len(answered) = Len(req.keys)
                 /\ {a.key : a \in Range(answered)} = Range(req.keys)
              \/ orca = "L1L2" /\ lost
        BY <2>2, <3>1, <3>2, RangesAre
      <3> QED BY <1>6, <3>3 DEF EndIsComplete
    <2> QED BY <1>8, <2>3, <2>4, <2>5, <2>6, <2>7 DEF MultiGetInv
  <1> QED BY <1>2, <1>9, <1>10, <1>11

\* What follows one of the loop's own calls.
LEMMA AfterCallKeeps ==
  ASSUME MultiGetInv, ~crossed, Calling, NEW e \in Errors, NEW brk \in SUBSET Levels,
         broken \subseteq brk, AfterCall(e, brk), sent' = FALSE,
         UNCHANGED <<orca, holds, req, n, gos, l2keys>>,
         sock' \in [Levels -> Seq(Commands)], \A l \in Levels : l # CallLevel => sock'[l] = sock[l],
         faults' \in 0..MaxFaults, crossed' \in BOOLEAN, crossed' => left # {}
  PROVE  /\ TypeOK' /\ TurnsOK' /\ TruthOK' /\ MissesOK' /\ L1Progress' /\ L2Progress'
         /\ EndIsComplete' /\ TrueAnswers'
         /\ brk \subseteq broken'
  <1>1. /\ TypeOK /\ TurnsOK /\ TruthOK /\ MissesOK /\ L2Progress /\ TrueAnswers
    BY DEF MultiGetInv
  <1>2. /\ orca' = orca /\ holds' = holds /\ req' = req /\ n' = n /\ gos' = gos
        /\ l2keys' = l2keys
    OBVIOUS
  <1>3. pc \in {"Fill", "Set1", "Set2"} /\ n # 0 /\ req # None /\ ended = "none"
        /\ <<2, n>> \in Goroutines
    <2>1. pc \in {"Fill", "Set1", "Set2"}
      BY DEF Calling
    <2> QED BY <1>1, <2>1, NamesAre DEF TurnsOK
  <1>4. sock' \in [Levels -> Seq([by : Callers, ans : Answers])]
    BY DEF Commands
  <1>5. \A g \in Goroutines : gos[g].at \in Busy =>
          g \in left \/ (pc = "Fill" /\ g = <<2, n>>)
    BY <1>1, <1>3 DEF TurnsOK, TurnOf
  <1>6. \A g \in left : g[1] = 2 /\ g[2] <= n /\ g[2] < n
    BY <1>1, <1>3 DEF TurnsOK
  <1>7. CASE pc = "Fill" /\ e = "nil"
    <2>1. /\ err' = "nil" /\ lost' = (lost \/ err # "nil") /\ Answer(hand, TRUE)
          /\ pc' = "L2Get" /\ hand' = None /\ broken' = brk
          /\ left' = left /\ ended' = ended /\ wait' = wait
      BY <1>7 DEF AfterCall
    <2>2. hand \in Keys /\ hand \in holds[2] /\ orca = "L1L2" /\ req.op = "Get"
      BY <1>1, <1>7 DEF MissesOK, TurnsOK, Getting
    <2>3. /\ answered' \in Seq([key : Keys, hit : BOOLEAN])
          /\ Len(answered) \in Nat /\ Len(answered') = Len(answered) + 1
          /\ AnsweredKeys' = AnsweredKeys \cup {hand}
          /\ Range(answered') = Range(answered) \cup {[key |-> hand, hit |-> TRUE]}
      BY <1>1, <2>1, <2>2, AnswerIs
    <2>4. lost' \in BOOLEAN /\ (~lost' => ~lost /\ err = "nil")
      BY <1>1, <2>1 DEF TypeOK
    <2>5. TypeOK'
      <3>1. sent' \in BOOLEAN
        OBVIOUS
      <3>2. orca' \in Orcas /\ holds' \in [Levels -> SUBSET Keys] /\ req' \in Requests \cup {None}
            /\ n' \in 0..MaxReqs /\ gos' \in [Goroutines -> Goroutine] /\ wait' \subseteq {"data", "err"}
            /\ l2keys' \in Seq(Keys) /\ ended' \in {"none", "end", "error"} /\ left' \subseteq Goroutines
        BY <1>1, <1>2, <2>1 DEF TypeOK
      <3> QED BY <1>4, <2>1, <2>3, <2>4, <3>1, <3>2 DEF TypeOK, Errors
    <2>6. TurnsOK'
      BY <1>1, <1>2, <1>3, <1>5, <1>6, <2>1, <2>2 DEF TurnsOK, TurnOf, Getting, Calling
    <2>7. TruthOK'
      <3>1. /\ Current' = <<2, n>> /\ Level' = 2 /\ Current = <<2, n>> /\ Level = 2 /\ Getting
            /\ CallLevel = 1 /\ 2 \in Levels
        BY <1>2, <1>7, <2>1 DEF Current, Level, Getting, CallLevel, Levels
      <3>2. CurrentKey' = CurrentKey
        BY <1>2, <3>1 DEF CurrentKey
      <3>3. sock'[2] = sock[2] /\ (2 \notin broken' => 2 \notin broken)
        BY <2>1, <3>1
      <3> QED BY <1>1, <1>2, <3>1, <3>2, <3>3 DEF TruthOK
    <2>8. MissesOK'
      BY <1>1, <1>2, <1>7, <2>1 DEF MissesOK, Getting
    <2>9. L1Progress' /\ EndIsComplete'
      BY <1>3, <2>1 DEF L1Progress, EndIsComplete
    <2>10. /\ Handed = {hand} /\ Handed' = {} /\ Count = Len(answered) + 1 /\ Count' = Count
           /\ AnsweredKeys' \cup Handed' = AnsweredKeys \cup Handed
           /\ KeysOf(l2keys)' = KeysOf(l2keys) /\ KeysOf(req.keys)' = KeysOf(req.keys)
      <3>1. Handed = {hand} /\ Handed' = {}
        BY <1>7, <2>1 DEF Handed
      <3>2. Count = Len(answered) + 1 /\ Count' = Len(answered') + 0
        BY <1>7, <2>1 DEF Count
      <3>3. Count' = Count
        BY <2>3, <3>2
      <3> QED BY <1>2, <2>3, <3>1, <3>2, <3>3 DEF KeysOf
    <2>11. L2Progress'
      <3> DEFINE K == AnsweredKeys \cup Handed
                 L == KeysOf(l2keys)
                 Q == KeysOf(req.keys)
                 go == gos[<<2, n>>]
      <3>1. /\ go.keys = l2keys /\ go.at # "none" /\ Len(l2keys) <= Len(req.keys)
            /\ K \cup L \subseteq Q
            /\ go.at \in Busy =>
                 /\ go.idx \in 1..Len(l2keys)
                 /\ Count + Len(l2keys) - (go.idx - 1) <= Len(req.keys)
                 /\ \A i \in 1..(go.idx - 1) : l2keys[i] \in K
                 /\ (err = "nil" /\ ~lost) =>
                      /\ Count + Len(l2keys) - (go.idx - 1) = Len(req.keys)
                      /\ Q \subseteq K \cup L
            /\ go.at \in Closing =>
                 /\ Count <= Len(req.keys)
                 /\ (err = "nil" /\ ~lost) =>
                      /\ Count = Len(req.keys)
                      /\ Q \subseteq K
        BY <1>1, <1>7 DEF L2Progress
      <3>2. AnsweredKeys' \cup Handed' = K /\ KeysOf(l2keys)' = L /\ KeysOf(req.keys)' = Q
            /\ gos'[<<2, n'>>] = go
        BY <1>2, <2>10
      <3> HIDE DEF K, L, Q, go
      <3> QED BY <1>2, <2>4, <2>10, <3>1, <3>2 DEF L2Progress
    <2>12. TrueAnswers'
      <3>1. /\ Len(answered) <= Len(req.keys)
            /\ \A a \in Range(answered) :
                 a.hit <=> a.key \in holds[1] \/ (orca # "L1Only" /\ a.key \in holds[2])
        BY <1>1, <1>3, <2>2 DEF TrueAnswers
      <3>2. Len(answered') <= Len(req.keys)
        <4> DEFINE go == gos[<<2, n>>]
        <4>1. go.at \in GoStates /\ go.idx \in Nat /\ Len(req.keys) \in 1..MaxKeys
              /\ Len(l2keys) \in Nat
          <5>1. l2keys \in Seq(Keys)
            BY <1>1 DEF TypeOK
          <5> QED BY <1>1, <1>3, <5>1, GoroutineIs, RequestIs
        <4>2. go.at \in Busy \/ go.at \in Closing
          BY <1>1, <1>7, <4>1 DEF L2Progress, GoStates, Busy, Closing
        <4>3. \/ Count <= Len(req.keys)
              \/ /\ go.idx \in 1..Len(l2keys)
                 /\ Count + Len(l2keys) - (go.idx - 1) <= Len(req.keys)
          BY <1>1, <1>7, <4>2 DEF L2Progress
        <4> HIDE DEF go
        <4>4. Count \in Nat /\ Len(answered') = Count /\ Len(req.keys) \in Nat
          BY <2>3, <2>10, <4>1, MultiGetAssumption
        <4> QED BY <4>1, <4>3, <4>4
      <3>3. \A a \in Range(answered') : a \in Range(answered) \/ (a.key = hand /\ a.hit = TRUE)
        BY <2>3
      <3>4. \A a \in Range(answered') :
              a.hit <=> a.key \in holds[1] \/ (orca # "L1Only" /\ a.key \in holds[2])
        BY <2>2, <3>1, <3>3
      <3> QED BY <1>2, <3>2, <3>4 DEF TrueAnswers
    <2> QED BY <2>1, <2>5, <2>6, <2>7, <2>8, <2>9, <2>11, <2>12
  <1>8. CASE Return(e, brk) /\ (pc = "Fill" => e # "nil" /\ left' = left \cup {<<2, n>>} /\ wait' = {})
             /\ (pc # "Fill" => left' = left /\ wait' = wait)
             /\ lost' = lost /\ answered' = answered
    <2>1. /\ pc' \in {"idle", "closed"} /\ brk \subseteq broken' /\ broken' \subseteq Levels
          /\ pc' = "closed" => broken' = Levels
          /\ ended' \in {"end", "error"} /\ (e # "nil" => ended' = "error")
          /\ err' = e /\ hand' = None
      BY <1>8 DEF Return
    <2>2. /\ left \subseteq left' /\ left' \subseteq Goroutines
          /\ \A g \in left' : g[1] = 2 /\ g[2] <= n
          /\ left' # {} => orca = "L1L2"
          /\ wait' \subseteq {"data", "err"}
      <3>1. left \subseteq Goroutines /\ wait \subseteq {"data", "err"} /\ n \in Nat
            /\ (left # {} => orca = "L1L2") /\ (pc = "Fill" => orca = "L1L2")
        BY <1>1 DEF TypeOK, TurnsOK
      <3>2. CASE pc = "Fill"
        <4>1. \A g \in left' : g \in left \/ g = <<2, n>>
          BY <1>8, <3>2
        <4>2. n <= n
          BY <3>1
        <4> QED BY <1>3, <1>6, <1>8, <3>1, <3>2, <4>1, <4>2
      <3>3. CASE pc # "Fill"
        BY <1>6, <1>8, <3>1, <3>3
      <3> QED BY <3>2, <3>3
    <2>3. TypeOK'
      <3>1. sent' \in BOOLEAN /\ lost' \in BOOLEAN
        BY <1>1, <1>8 DEF TypeOK
      <3>2. orca' \in Orcas /\ holds' \in [Levels -> SUBSET Keys] /\ req' \in Requests \cup {None}
            /\ n' \in 0..MaxReqs /\ gos' \in [Goroutines -> Goroutine]
            /\ l2keys' \in Seq(Keys) /\ answered' \in Seq([key : Keys, hit : BOOLEAN])
        BY <1>1, <1>2, <1>8 DEF TypeOK
      <3> QED BY <1>4, <2>1, <2>2, <3>1, <3>2 DEF TypeOK
    <2>4. TurnsOK'
      <3>1. \A g \in Goroutines : gos'[g].at \in Busy => g \in left'
        BY <1>2, <1>5, <1>8, <2>2
      <3>2. lost' => orca' = "L1L2"
        BY <1>1, <1>2, <1>8 DEF TurnsOK
      <3>3. crossed' => left' # {}
        BY <2>2
      <3> QED BY <1>2, <2>1, <2>2, <3>1, <3>2, <3>3 DEF TurnsOK, TurnOf, Getting, Calling
    <2>5. TruthOK' /\ MissesOK' /\ L1Progress' /\ L2Progress'
      BY <2>1 DEF TruthOK, MissesOK, L1Progress, L2Progress, Getting
    <2>6. EndIsComplete'
      <3>1. pc # "Fill" => req.op = "Set"
        BY <1>1, <1>3 DEF TurnsOK
      <3> QED BY <1>2, <1>8, <2>1, <3>1 DEF EndIsComplete
    <2>7. TrueAnswers'
      BY <1>1, <1>2, <1>8 DEF TrueAnswers
    <2> QED BY <2>1, <2>3, <2>4, <2>5, <2>6, <2>7
  <1>9. CASE pc = "Set2" /\ e = "nil" /\ ~Return(e, brk)
    <2>1. /\ pc' = "Set1" /\ broken' = brk /\ left' = left /\ lost' = lost
          /\ answered' = answered /\ ended' = ended /\ err' = err /\ hand' = hand /\ wait' = wait
      BY <1>9 DEF AfterCall
    <2>2. TypeOK'
      <3>1. sent' \in BOOLEAN /\ lost' \in BOOLEAN
        BY <1>1, <2>1 DEF TypeOK
      <3> QED BY <1>1, <1>2, <1>4, <2>1, <3>1 DEF TypeOK
    <2>3. TurnsOK'
      BY <1>1, <1>2, <1>3, <1>5, <1>6, <1>9, <2>1 DEF TurnsOK, TurnOf, Getting, Calling
    <2>4. TruthOK' /\ MissesOK' /\ L1Progress' /\ L2Progress'
      BY <2>1 DEF TruthOK, MissesOK, L1Progress, L2Progress, Getting
    <2>5. EndIsComplete' /\ TrueAnswers'
      BY <1>1, <1>2, <1>3, <2>1 DEF EndIsComplete, TrueAnswers
    <2> QED BY <2>1, <2>2, <2>3, <2>4, <2>5
  <1>10. \/ pc = "Fill" /\ e = "nil"
         \/ /\ Return(e, brk) /\ (pc = "Fill" => e # "nil" /\ left' = left \cup {<<2, n>>} /\ wait' = {})
            /\ (pc # "Fill" => left' = left /\ wait' = wait)
            /\ lost' = lost /\ answered' = answered
         \/ pc = "Set2" /\ e = "nil" /\ ~Return(e, brk)
    BY <1>3 DEF AfterCall
  <1> QED BY <1>7, <1>8, <1>9, <1>10

\* The loop's call ends, and nobody else's.
LEMMA LoopCallEnds ==
  ASSUME TypeOK, UNCHANGED <<gos, n>>
  PROVE  /\ \A l \in Levels : InCall(l) \ {<<0, n>>} \subseteq InCall(l)'
         /\ \A l \in Levels : l # CallLevel \/ ~sent => InCall(l) \subseteq InCall(l)'
  BY DEF InCall

LEMMA CallWriteStep ==
  ASSUME MultiGetInv, ~crossed, CallWrite
  PROVE  MultiGetInv'
  <1>1. /\ Calling /\ ~sent /\ UNCHANGED <<orca, req, n, gos, l2keys, crossed>>
    BY DEF CallWrite
  <1>2. /\ TypeOK /\ TurnsOK /\ SocksOK /\ TruthOK /\ MissesOK /\ L1Progress /\ L2Progress
        /\ EndIsComplete /\ TrueAnswers
    BY DEF MultiGetInv
  <1>3. pc \in {"Fill", "Set1", "Set2"} /\ sent = FALSE
    BY <1>1, <1>2 DEF Calling, TypeOK
  <1>4. /\ n \in 1..MaxReqs /\ <<0, n>> \in Callers /\ <<0, n>> \notin Goroutines
        /\ Current \in Goroutines /\ CallLevel \in Levels
    BY <1>2, <1>3, NamesAre
  <1>5. broken \subseteq Levels /\ sock \in [Levels -> Seq(Commands)] /\ faults \in 0..MaxFaults
    BY <1>2, SocksAre DEF TypeOK
  <1>6. orca' = orca /\ req' = req /\ n' = n /\ gos' = gos /\ l2keys' = l2keys
        /\ crossed' = crossed /\ crossed' = FALSE
    BY <1>1, <1>2 DEF TypeOK
  <1>7. \A g \in Goroutines : gos'[g].at = "sendErr" => gos'[g].ans \in {"Busy", "IOError"}
    BY <1>2, <1>6 DEF SocksOK
  <1>8. CASE CallLevel \in broken
    <2>1. AfterCall("IOError", broken) /\ UNCHANGED <<sock, faults, holds, sent>>
      BY <1>8 DEF CallWrite
    <2>2. /\ "IOError" \in Errors /\ broken \in SUBSET Levels /\ broken \subseteq broken
          /\ sent' = FALSE /\ sock' \in [Levels -> Seq(Commands)] /\ faults' \in 0..MaxFaults
          /\ \A l \in Levels : l # CallLevel => sock'[l] = sock[l]
      BY <1>3, <1>5, <2>1 DEF Errors
    <2>3. /\ TypeOK' /\ TurnsOK' /\ TruthOK' /\ MissesOK' /\ L1Progress' /\ L2Progress'
          /\ EndIsComplete' /\ TrueAnswers' /\ broken \subseteq broken'
      BY <1>1, <1>6, <2>1, <2>2, AfterCallKeeps
    <2>4. \A l \in Levels : InCall(l) \subseteq InCall(l)'
      BY <1>1, <1>2, LoopCallEnds
    <2>5. SocksOK'
      BY <1>2, <1>6, <1>7, <2>1, <2>3, <2>4, SocksKept
    <2> QED BY <2>3, <2>5 DEF MultiGetInv
  <1>9. CASE CallLevel \notin broken
    <2>1. /\ Write(CallLevel, <<0, n>>, "ok") /\ sent' = TRUE
          /\ holds' = IF faults' = faults
                      THEN [holds EXCEPT ![CallLevel] = @ \cup Stores] ELSE holds
          /\ UNCHANGED <<broken, pc, wait, hand, err, answered, ended, lost, left>>
      BY <1>9 DEF CallWrite
    <2>2. "ok" \in Answers
      BY DEF Answers
    <2>3. /\ sock' \in [Levels -> Seq(Commands)] /\ faults' \in 0..MaxFaults
          /\ \E e \in {"ok", "Busy"} :
               sock' = [sock EXCEPT ![CallLevel] = Append(sock[CallLevel], [by |-> <<0, n>>, ans |-> e])]
      BY <1>2, <1>4, <2>1, <2>2, WriteIs
    <2>4. PICK e \in {"ok", "Busy"} :
            sock' = [sock EXCEPT ![CallLevel] = Append(sock[CallLevel], [by |-> <<0, n>>, ans |-> e])]
      BY <2>3
    <2>5. req # None /\ req.keys \in Seq(Keys) /\ req.keys[1] \in Keys
      <3>1. req # None
        BY <1>2, <1>3 DEF TurnsOK
      <3>2. req.keys \in Seq(Keys) /\ Len(req.keys) \in 1..MaxKeys /\ DOMAIN req.keys = 1..Len(req.keys)
        BY <1>2, <3>1, RequestIs
      <3>3. 1 \in DOMAIN req.keys
        BY <3>2, MultiGetAssumption
      <3> QED BY <3>1, <3>2, <3>3
    <2>6. CallKey \in Keys /\ (pc = "Fill" => CallKey = hand /\ hand \in holds[2] /\ orca = "L1L2")
      BY <1>2, <1>3, <2>5 DEF CallKey, MissesOK, TurnsOK, Getting
    <2>7. /\ holds' \in [Levels -> SUBSET Keys]
          /\ \A l \in Levels : l # CallLevel => holds'[l] = holds[l]
          /\ \A k \in Keys : k \in holds'[CallLevel] => k \in holds[CallLevel] \/ k = CallKey
          /\ holds[CallLevel] \subseteq holds'[CallLevel]
      <3>1. holds \in [Levels -> SUBSET Keys] /\ Stores \subseteq {CallKey}
        BY <1>2 DEF TypeOK, Stores
      <3>2. CASE holds' = holds
        BY <3>1, <3>2
      <3>3. CASE holds' = [holds EXCEPT ![CallLevel] = holds[CallLevel] \cup Stores]
        <4>1. holds'[CallLevel] = holds[CallLevel] \cup Stores
          BY <1>4, <3>1, <3>3
        <4> QED BY <1>4, <2>6, <3>1, <3>3, <4>1
      <3> QED BY <2>1, <3>2, <3>3
    <2>8. pc = "Fill" => CallLevel = 1 /\ Current = <<2, n>> /\ Level = 2 /\ 1 \in Levels /\ 2 \in Levels
      BY DEF CallLevel, Current, Level, Levels
    <2>9. TypeOK'
      <3>1. sent' \in BOOLEAN /\ lost' \in BOOLEAN /\ crossed' \in BOOLEAN
        BY <1>2, <1>6, <2>1 DEF TypeOK
      <3>2. sock' \in [Levels -> Seq([by : Callers, ans : Answers])]
        BY <2>3 DEF Commands
      <3> QED BY <1>2, <1>6, <2>1, <2>3, <2>7, <3>1, <3>2 DEF TypeOK
    <2>10. TurnsOK'
      BY <1>1, <1>2, <1>6, <2>1 DEF TurnsOK, TurnOf, Getting, Calling
    <2>11. SocksOK'
      <3> DEFINE lv == CallLevel
                 who == <<0, n>>
      <3>1. who \notin InCall(lv) /\ who \in InCall(lv)'
        BY <1>1, <1>4, <1>6, <2>1 DEF InCall, Calling, CallLevel
      <3>2. \A l \in Levels : InCall(l) \subseteq InCall(l)'
        BY <1>1, <1>2, LoopCallEnds
      <3>3. e \in Answers /\ (who \in Goroutines => e \in {"hit", "miss", "Busy"})
        BY <1>4 DEF Answers
      <3>4. lv \in Levels /\ who \in Callers /\ broken' = broken
            /\ sock' = [sock EXCEPT ![lv] = Append(sock[lv], [by |-> who, ans |-> e])]
        BY <1>4, <2>1, <2>4
      <3>5. lv' = lv /\ who' = who
        BY <1>6, <2>1 DEF CallLevel
      <3> SUFFICES ASSUME NEW m \in Levels, m = lv PROVE SocksOK'
        BY <3>4
      <3>6. who \notin InCall(m) /\ who \in InCall(m)'
        BY <3>1, <3>5
      <3>7. sock' = [sock EXCEPT ![m] = Append(sock[m], [by |-> who, ans |-> e])]
        BY <3>4
      <3> HIDE DEF who, lv
      <3> QED BY <1>2, <1>7, <3>2, <3>3, <3>4, <3>6, <3>7, SocksAfterWrite
    <2>12. TruthOK'
      <3>1. SUFFICES ASSUME pc = "Fill" PROVE TruthOK'
        BY <1>3, <2>1 DEF TruthOK, Getting
      <3>2. /\ Current' = Current /\ Level' = Level /\ Level = 2 /\ CurrentKey' = CurrentKey
            /\ Getting
        BY <1>6, <2>1, <2>8, <3>1 DEF Current, Level, CurrentKey, Getting
      <3>3. sock'[2] = sock[2] /\ holds'[2] = holds[2]
        BY <1>5, <2>4, <2>7, <2>8, <3>1
      <3> QED BY <1>2, <1>6, <2>1, <3>2, <3>3 DEF TruthOK
    <2>13. MissesOK'
      <3>1. SUFFICES ASSUME pc = "Fill" PROVE MissesOK'
        BY <1>3, <2>1 DEF MissesOK, Getting
      <3>2. holds'[2] = holds[2] /\ \A k \in Keys : k \in holds'[1] => k \in holds[1] \/ k = hand
        BY <2>6, <2>7, <2>8, <3>1
      <3>3. \A i \in DOMAIN l2keys : l2keys[i] \in Keys
        BY <1>2 DEF TypeOK
      <3> QED BY <1>2, <1>6, <2>1, <2>6, <3>1, <3>2, <3>3 DEF MissesOK, Getting
    <2>14. /\ AnsweredKeys' = AnsweredKeys /\ KeysOf(l2keys)' = KeysOf(l2keys)
           /\ KeysOf(req.keys)' = KeysOf(req.keys) /\ Count' = Count /\ Handed' = Handed
      BY <1>6, <2>1 DEF AnsweredKeys, KeysOf, Count, Handed
    <2>15. L1Progress'
      BY <1>3, <2>1 DEF L1Progress
    <2>16. L2Progress'
      <3>1. gos'[<<2, n'>>] = gos[<<2, n>>]
        BY <1>6
      <3> QED BY <1>2, <1>6, <2>1, <2>14, <3>1 DEF L2Progress
    <2>17. EndIsComplete'
      BY <1>2, <1>6, <2>1 DEF EndIsComplete
    <2>18. TrueAnswers'
      <3>1. SUFFICES ASSUME pc = "Fill" PROVE TrueAnswers'
        BY <1>2, <1>3, <1>6 DEF TrueAnswers, TurnsOK
      <3>2. /\ holds'[2] = holds[2] /\ holds[1] \subseteq holds'[1]
            /\ \A k \in Keys : k \in holds'[1] => k \in holds[1] \/ k = hand
        BY <2>6, <2>7, <2>8, <3>1
      <3>3. \A a \in Range(answered) : a.key \in Keys
        <4> DEFINE A == [key : Keys, hit : BOOLEAN]
        <4>1. answered \in Seq(A) /\ \A a \in A : a.key \in Keys
          BY <1>2 DEF TypeOK
        <4> HIDE DEF A
        <4>2. \A i \in DOMAIN answered : answered[i] \in A
          BY <4>1
        <4> QED BY <4>1, <4>2 DEF Range
      <3>4. \A a \in Range(answered) :
              a.key \in holds'[1] \/ a.key \in holds'[2] <=> a.key \in holds[1] \/ a.key \in holds[2]
        BY <2>6, <3>1, <3>2, <3>3
      <3> QED BY <1>2, <1>6, <2>1, <2>6, <3>1, <3>4 DEF TrueAnswers
    <2> QED BY <2>9, <2>10, <2>11, <2>12, <2>13, <2>15, <2>16, <2>17, <2>18 DEF MultiGetInv
  <1> QED BY <1>8, <1>9

LEMMA CallReadStep ==
  ASSUME MultiGetInv, ~crossed, CallRead
  PROVE  MultiGetInv'
  <1> DEFINE lv == CallLevel
             who == <<0, n>>
  <1>1. Calling /\ sent /\ sent' = FALSE /\ UNCHANGED <<orca, holds, req, n, gos, l2keys>>
    BY DEF CallRead
  <1>2. PICK ans \in Answers \cup Errors, brk \in SUBSET Levels :
          /\ Read(lv, who, ans, brk)
          /\ AfterCall(IF ans \in {"Busy", "IOError"} THEN ans ELSE "nil", brk)
    BY DEF CallRead
  <1> DEFINE e == IF ans \in {"Busy", "IOError"} THEN ans ELSE "nil"
  <1>3. TypeOK /\ TurnsOK /\ SocksOK
    BY DEF MultiGetInv
  <1>4. e \in Errors
    BY DEF Errors
  <1>5. lv \in Levels /\ who \in Callers
    BY <1>1, <1>3, NamesAre DEF Calling
  <1>6. who \in InCall(lv)
    BY <1>1 DEF InCall
  <1>7. /\ \A l \in Levels : InCall(l) \ {who} \subseteq InCall(l)'
        /\ \A l \in Levels \ {lv} : InCall(l) \subseteq InCall(l)'
    BY <1>1, <1>3, LoopCallEnds
  <1> HIDE DEF lv, who, e
  <1>8. /\ sock' \in [Levels -> Seq(Commands)]
        /\ faults' \in 0..MaxFaults /\ crossed' \in BOOLEAN
        /\ brk \subseteq Levels /\ broken \subseteq brk
        /\ \/ sock' = [sock EXCEPT ![lv] = Tail(sock[lv])]
           \/ sock' = sock
    BY <1>2, <1>3, <1>5, ReadIs
  <1>9. crossed' => left # {}
    BY <1>2, <1>5, <1>6, ReadsOwn
  <1>10. \A l \in Levels : l # CallLevel => sock'[l] = sock[l]
    <2>1. sock \in [Levels -> Seq(Commands)]
      BY <1>3, SocksAre
    <2> QED BY <1>8, <2>1 DEF lv
  <1>11. /\ TypeOK' /\ TurnsOK' /\ TruthOK' /\ MissesOK' /\ L1Progress' /\ L2Progress'
         /\ EndIsComplete' /\ TrueAnswers' /\ brk \subseteq broken'
    <2>1. AfterCall(e, brk)
      BY <1>2 DEF e
    <2> QED BY <1>1, <1>2, <1>4, <1>8, <1>9, <1>10, <2>1, AfterCallKeeps
  <1>12. SocksOK'
    <2>1. \A g \in Goroutines : gos'[g].at = "sendErr" =>
            gos'[g].ans \in {"Busy", "IOError"} \/ crossed'
      BY <1>1, <1>3 DEF SocksOK
    <2> QED BY <1>2, <1>3, <1>5, <1>7, <1>11, <2>1, SocksAfterRead
  <1> QED BY <1>11, <1>12 DEF MultiGetInv

-----------------------------------------------------------------------------
(***************************************************************************)
(* The theorems.                                                           *)
(***************************************************************************)

LEMMA NextStep ==
  ASSUME MultiGetInv, [Next]_vars
  PROVE  MultiGetInv'
  <1>1. CASE UNCHANGED vars
    <2>1. /\ TypeOK /\ TurnsOK /\ SocksOK /\ TruthOK /\ MissesOK /\ L1Progress /\ L2Progress
          /\ EndIsComplete /\ TrueAnswers
      BY DEF MultiGetInv
    <2>2. /\ AnsweredKeys' = AnsweredKeys /\ KeysOf(l2keys)' = KeysOf(l2keys)
          /\ KeysOf(req.keys)' = KeysOf(req.keys) /\ Count' = Count /\ Handed' = Handed
          /\ gos'[<<1, n'>>] = gos[<<1, n>>] /\ gos'[<<2, n'>>] = gos[<<2, n>>]
      BY <1>1 DEF vars, AnsweredKeys, KeysOf, Count, Handed
    <2>3. TypeOK' /\ TurnsOK' /\ MissesOK'
      BY <1>1, <2>1 DEF vars, TypeOK, TurnsOK, TurnOf, MissesOK, Getting, Calling
    <2>4. SocksOK'
      BY <1>1, <2>1 DEF vars, SocksOK, InCall, Calling, CallLevel
    <2>5. TruthOK'
      BY <1>1, <2>1 DEF vars, TruthOK, Getting, Current, CurrentKey, Level
    <2>6. L1Progress'
      BY <1>1, <2>1, <2>2 DEF vars, L1Progress
    <2>7. L2Progress'
      BY <1>1, <2>1, <2>2 DEF vars, L2Progress
    <2>8. EndIsComplete' /\ TrueAnswers'
      BY <1>1, <2>1 DEF vars, EndIsComplete, TrueAnswers
    <2> QED BY <2>3, <2>4, <2>5, <2>6, <2>7, <2>8 DEF MultiGetInv
  <1>2. CASE ~crossed /\ Receive
    BY <1>2, ReceiveStep
  <1>3. CASE Hangup
    BY <1>3, HangupStep
  <1>4. CASE ~crossed /\ LoopStep
    BY <1>4, TakeResponseStep, TakeErrorStep, TakeClosedStep, CallWriteStep, CallReadStep
       DEF LoopStep
  <1>5. CASE ~crossed /\ \E g \in Goroutines : GoStep(g)
    BY <1>5, AskKeyStep, ReadKeyStep, CloseStep DEF GoStep
  <1>6. CASE Done
    BY <1>1, <1>6 DEF Done
  <1> QED BY <1>1, <1>2, <1>3, <1>4, <1>5, <1>6 DEF Next

LEMMA MultiGetInvariant == Spec => []MultiGetInv
  <1>1. Init => MultiGetInv
    BY InitMultiGet
  <1>2. MultiGetInv /\ [Next]_vars => MultiGetInv'
    BY NextStep
  <1> QED BY <1>1, <1>2, PTL DEF Spec

\* The variables of the server loop, of the select loops and of the handlers'
\* goroutines always hold what their types say, within the bounds.
THEOREM MultiGetTypes == Spec => []TypeOK
  <1>1. MultiGetInv => TypeOK
    BY DEF MultiGetInv
  <1> QED BY <1>1, MultiGetInvariant, PTL

\* The callers of a std handler take turns on its socket, and read the answers
\* to their own commands, for any number of keys, requests and failures: unless
\* L1L2Orca.Get has returned early and left a goroutine behind on L2.
THEOREM CallersTakeTurns == Spec => []OneCallPerHandler
  <1>1. ASSUME TypeOK, TurnsOK PROVE OneCallPerHandler
    <2>1. ASSUME NEW lv \in Levels, lv = 1 \/ left = {}
          PROVE  ~(Cardinality(InCall(lv)) > 1)
      <3>1. CASE InCall(lv) = {}
        <4>1. Cardinality(InCall(lv)) = 0
          BY <3>1, FS_EmptySet
        <4> QED BY <4>1
      <3>2. CASE InCall(lv) # {}
        <4>1. PICK a : a \in InCall(lv)
          BY <3>2
        <4>2. InCall(lv) = {a}
          BY <1>1, <2>1, <4>1, OneInCall
        <4>3. Cardinality(InCall(lv)) = 1
          BY <4>2, FS_Singleton
        <4> QED BY <4>3
      <3> QED BY <3>1, <3>2
    <2>2. \A lv \in Levels : Cardinality(InCall(lv)) > 1 => lv = 2 /\ left # {}
      BY <2>1 DEF Levels
    <2> QED BY <1>1, <2>2 DEF OneCallPerHandler, TurnsOK
  <1>2. MultiGetInv => OneCallPerHandler
    BY <1>1 DEF MultiGetInv
  <1> QED BY <1>2, MultiGetInvariant, PTL

\* Whatever fails on the way, a get that ends with GetEnd has answered each of
\* its keys once, but for the error that L1L2Orca.Get's write to L1 overwrites.
THEOREM GetsEndComplete == Spec => []EndIsComplete
  <1>1. MultiGetInv => EndIsComplete
    BY DEF MultiGetInv
  <1> QED BY <1>1, MultiGetInvariant, PTL

\* Every answer of a get is true of the two servers together, although the get
\* asks them one after the other and itself writes L2's hits to L1.
THEOREM AnswersAreTrue == Spec => []TrueAnswers
  <1>1. MultiGetInv => TrueAnswers
    BY DEF MultiGetInv
  <1> QED BY <1>1, MultiGetInvariant, PTL

=============================================================================
