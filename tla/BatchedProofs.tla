--------------------------- MODULE BatchedProofs ---------------------------
(***************************************************************************)
(* The batched handler, for any calls of any number of clients, any pool   *)
(* and any batch size: what a caller receives answers its own commands,    *)
(* each of them once and all of them, and a batch never gets out of sync.  *)
(***************************************************************************)
EXTENDS Batched, FiniteSetTheorems, FunctionTheorems, SequenceTheorems, WellFoundedInduction, TLAPS

(***************************************************************************)
(* What the state is made of.                                              *)
(***************************************************************************)

Ops == {"One", "Get"}

Handles == [client : Clients, call : Nat, key : Nat]

Requests == [client : Clients, call : Nat, op : Ops]

Commands == [opaque : Nat, handle : Handles]

Answers == [handle : Handles, of : Handles]

ResponseMaps == UNION {[O -> Handles] : O \in SUBSET Nat}

Batches == [responses : ResponseMaps, channels : SUBSET Handles]

(***************************************************************************)
(* Induction on the naturals, by sets.                                     *)
(***************************************************************************)

\* A set of naturals has a least member.
LEMMA LeastNat ==
  ASSUME NEW I \in SUBSET Nat, I # {}
  PROVE  \E x \in I : \A y \in I : x <= y
  <1> DEFINE R == {ss \in Nat \X Nat : ss[1] < ss[2]}
  <1>1. IsWellFoundedOn(R, Nat)
    BY NatLessThanWellFounded DEF OpToRel
  <1> HIDE DEF R
  <1>2. PICK x \in I : \A y \in I : ~(<<y, x>> \in R)
    BY <1>1, WFMin
  <1>3. ASSUME NEW y \in I PROVE x <= y
    <2>1. x \in Nat /\ y \in Nat /\ <<y, x>> \in Nat \X Nat
      OBVIOUS
    <2>2. ~(y < x)
      BY <1>2, <2>1 DEF R
    <2> QED BY <2>1, <2>2
  <1> QED BY <1>3

\* A set with 0 and the successors of its members has every natural.
LEMMA AllNaturals ==
  ASSUME NEW I \in SUBSET Nat, 0 \in I, \A n \in I : n + 1 \in I
  PROVE  I = Nat
  <1>1. SUFFICES ASSUME Nat \ I # {} PROVE FALSE
    OBVIOUS
  <1>2. PICK x \in Nat \ I : \A y \in Nat \ I : x <= y
    BY <1>1, LeastNat
  <1>3. x \in Nat /\ x # 0
    BY <1>2
  <1>4. x - 1 \in Nat /\ ~(x <= x - 1) /\ (x - 1) + 1 = x
    BY <1>3
  <1>5. x - 1 \in I
    BY <1>2, <1>4
  <1> QED BY <1>2, <1>4, <1>5

(***************************************************************************)
(* The commands of a batch: batchIntoBuffer.                               *)
(***************************************************************************)

\* No two of the requests are of one call.
CallsDiffer(p) ==
  \A i, j \in DOMAIN p : Handle(p[i], 0) = Handle(p[j], 0) => i = j

\* No two of the commands have one opaque value, or one handle.
OpaquesDiffer(s) == \A m, j \in DOMAIN s : s[m].opaque = s[j].opaque => m = j

HandlesDiffer(s) == \A m, j \in DOMAIN s : s[m].handle = s[j].handle => m = j

\* The commands are those of the requests up to n, a command for every key.
CommandsOf(s, p, n) ==
  /\ \A m \in DOMAIN s : \E i \in 1..n : \E key \in 1..Keys(p[i]) :
       s[m].handle = Handle(p[i], key)
  /\ \A i \in 1..n : \A key \in 1..Keys(p[i]) : \E m \in DOMAIN s :
       s[m].handle = Handle(p[i], key)

\* What the loop has come to after n of the requests.
Numbered(acc, p, n) ==
  /\ acc.opaque \in Nat /\ acc.cmds \in Seq(Commands)
  /\ \A m \in DOMAIN acc.cmds : acc.cmds[m].opaque <= acc.opaque
  /\ OpaquesDiffer(acc.cmds) /\ HandlesDiffer(acc.cmds)
  /\ CommandsOf(acc.cmds, p, n)

LEMMA KeysType ==
  ASSUME NEW r \in Requests
  PROVE  Keys(r) \in Nat /\ 1 <= Keys(r)
  BY BatchedAssumption DEF Keys, Requests, Ops

\* A function on an interval from 1 is a sequence.
LEMMA SequenceOf ==
  ASSUME NEW S, NEW n \in Nat, NEW f \in [1..n -> S]
  PROVE  f \in Seq(S) /\ Len(f) = n /\ DOMAIN f = 1..n
  <1>1. f \in Seq(S)
    BY SeqDef, Zenon
  <1> QED BY <1>1, LenProperties

\* The commands of one call.
CallCommands(opaque, r) ==
  [n \in 1..Keys(r) |-> [opaque |-> opaque + n, handle |-> Handle(r, n)]]

LEMMA CallCommandsType ==
  ASSUME NEW opaque \in Nat, NEW r \in Requests
  PROVE  /\ CallCommands(opaque, r) \in Seq(Commands)
         /\ Len(CallCommands(opaque, r)) = Keys(r)
         /\ DOMAIN CallCommands(opaque, r) = 1..Keys(r)
         /\ \A n \in 1..Keys(r) :
              /\ CallCommands(opaque, r)[n].opaque = opaque + n
              /\ CallCommands(opaque, r)[n].handle = Handle(r, n)
         /\ \A n \in 1..Keys(r) : opaque + n <= OpaqueAfter(opaque, r)
         /\ OpaqueAfter(opaque, r) \in Nat
         /\ opaque <= OpaqueAfter(opaque, r)
  <1>1. Keys(r) \in Nat
    BY KeysType
  <1>2. \A n \in 1..Keys(r) : [opaque |-> opaque + n, handle |-> Handle(r, n)] \in Commands
    BY <1>1 DEF Commands, Handles, Handle, Requests
  <1>3. CallCommands(opaque, r) \in [1..Keys(r) -> Commands]
    BY <1>2 DEF CallCommands
  <1>4. /\ \A n \in 1..Keys(r) : opaque + n <= OpaqueAfter(opaque, r)
        /\ OpaqueAfter(opaque, r) \in Nat
        /\ opaque <= OpaqueAfter(opaque, r)
    BY <1>1 DEF OpaqueAfter, Keys
  <1>5. \A n \in 1..Keys(r) :
          CallCommands(opaque, r)[n] = [opaque |-> opaque + n, handle |-> Handle(r, n)]
    BY DEF CallCommands
  <1> QED BY <1>1, <1>3, <1>4, <1>5, SequenceOf

\* One more call.
LEMMA AddCallNumbers ==
  ASSUME NEW p \in Seq(Requests), CallsDiffer(p), NEW n \in Nat, n + 1 <= Len(p),
         NEW acc, Numbered(acc, p, n)
  PROVE  Numbered(AddCall(acc, p[n + 1]), p, n + 1)
  <1> DEFINE r == p[n + 1]
             old == acc.cmds
             add == CallCommands(acc.opaque, r)
             new == AddCall(acc, r)
  <1>1. r \in Requests /\ n + 1 \in DOMAIN p /\ \A i \in 1..n : i \in DOMAIN p /\ p[i] \in Requests
    <2>1. Len(p) \in Nat /\ DOMAIN p = 1..Len(p)
      BY LenProperties
    <2> QED BY <2>1, ElementOfSeq
  <1>2. acc.opaque \in Nat /\ old \in Seq(Commands)
    BY DEF Numbered
  <1>3. new.opaque = OpaqueAfter(acc.opaque, r) /\ new.cmds = old \o add
    BY DEF AddCall, CallCommands
  <1>4. /\ add \in Seq(Commands) /\ Len(add) = Keys(r) /\ DOMAIN add = 1..Keys(r)
        /\ \A k \in 1..Keys(r) : add[k].opaque = acc.opaque + k /\ add[k].handle = Handle(r, k)
        /\ \A k \in 1..Keys(r) : acc.opaque + k <= new.opaque
        /\ new.opaque \in Nat /\ acc.opaque <= new.opaque
    BY <1>1, <1>2, <1>3, CallCommandsType
  <1>5. Keys(r) \in Nat /\ Len(old) \in Nat /\ DOMAIN old = 1..Len(old)
    BY <1>1, <1>2, KeysType, LenProperties
  <1> DEFINE L == Len(old)
             cmds == new.cmds
  <1> HIDE DEF r, old, add, new
  <1>6. /\ cmds \in Seq(Commands) /\ Len(cmds) = L + Keys(r)
        /\ DOMAIN cmds = 1..(L + Keys(r))
        /\ \A m \in 1..L : cmds[m] = old[m]
        /\ \A k \in 1..Keys(r) : cmds[L + k] = add[k]
    <2>1. /\ old \o add \in Seq(Commands) /\ Len(old \o add) = L + Keys(r)
          /\ \A m \in 1..(L + Keys(r)) : (old \o add)[m] = IF m <= L THEN old[m] ELSE add[m - L]
      <3>1. /\ old \o add \in Seq(Commands) /\ Len(old \o add) = Len(old) + Len(add)
            /\ \A m \in 1..(Len(old) + Len(add)) :
                 (old \o add)[m] = IF m <= Len(old) THEN old[m] ELSE add[m - Len(old)]
        BY <1>2, <1>4, ConcatProperties
      <3> QED BY <1>4, <3>1
    <2>2. \A m \in 1..L : m \in 1..(L + Keys(r)) /\ m <= L
      BY <1>5
    <2>3. \A k \in 1..Keys(r) : L + k \in 1..(L + Keys(r)) /\ ~(L + k <= L) /\ (L + k) - L = k
      BY <1>5
    <2>4. DOMAIN (old \o add) = 1..(L + Keys(r))
      BY <2>1, LenProperties
    <2> HIDE DEF L
    <2> QED BY <1>3, <2>1, <2>2, <2>3, <2>4
  <1> HIDE DEF L, cmds
  \* a command is one of the old or one of the new ones
  <1>7. \A m \in DOMAIN cmds : \/ m \in 1..L
                               \/ \E k \in 1..Keys(r) : m = L + k
    <2>1. ASSUME NEW m \in DOMAIN cmds, m \notin 1..L PROVE m - L \in 1..Keys(r) /\ m = L + (m - L)
      BY <1>5, <1>6, <2>1 DEF L
    <2> QED BY <2>1
  <1>8. /\ \A m \in 1..L : m \in DOMAIN cmds /\ m \in DOMAIN old
        /\ \A k \in 1..Keys(r) : L + k \in DOMAIN cmds
    BY <1>5, <1>6 DEF L
  <1>9. \A m \in DOMAIN cmds : cmds[m].opaque <= new.opaque
    <2>1. ASSUME NEW m \in 1..L PROVE cmds[m].opaque <= new.opaque
      <3>1. old[m].opaque \in Nat /\ old[m].opaque <= acc.opaque
        <4>1. old[m] \in Commands
          BY <1>2, <1>8, <2>1, ElementOfSeq, LenProperties
        <4> QED BY <1>8, <2>1, <4>1 DEF Commands, Numbered, old
      <3> QED BY <1>2, <1>4, <1>6, <2>1, <3>1
    <2>2. ASSUME NEW k \in 1..Keys(r) PROVE cmds[L + k].opaque <= new.opaque
      BY <1>4, <1>6
    <2> QED BY <1>7, <2>1, <2>2
  <1>10. OpaquesDiffer(cmds)
    <2>1. ASSUME NEW m \in 1..L, NEW k \in 1..Keys(r) PROVE cmds[m].opaque # cmds[L + k].opaque
      <3>1. old[m].opaque \in Nat /\ old[m].opaque <= acc.opaque
        <4>1. old[m] \in Commands
          BY <1>2, <1>8, <2>1, ElementOfSeq, LenProperties
        <4> QED BY <1>8, <2>1, <4>1 DEF Commands, Numbered, old
      <3>2. add[k].opaque = acc.opaque + k /\ k \in Nat /\ k > 0
        BY <1>4, <1>5
      <3> QED BY <1>2, <1>6, <3>1, <3>2
    <2>2. ASSUME NEW k \in 1..Keys(r), NEW i \in 1..Keys(r), cmds[L + i].opaque = cmds[L + k].opaque
          PROVE  i = k
      <3>1. acc.opaque + i = acc.opaque + k /\ i \in Nat /\ k \in Nat
        BY <1>4, <1>5, <1>6, <2>2
      <3> QED BY <1>2, <3>1
    <2>3. ASSUME NEW m \in 1..L, NEW j \in 1..L, cmds[m].opaque = cmds[j].opaque PROVE m = j
      <3>1. OpaquesDiffer(old)
        BY DEF Numbered, old
      <3> QED BY <1>6, <1>8, <2>3, <3>1 DEF OpaquesDiffer
    <2> QED BY <1>7, <2>1, <2>2, <2>3 DEF OpaquesDiffer
  <1>11. ASSUME NEW m \in 1..L
         PROVE  \E i \in 1..n : \E key \in 1..Keys(p[i]) : cmds[m].handle = Handle(p[i], key)
    BY <1>6, <1>8, <1>11 DEF Numbered, CommandsOf, old
  <1>12. HandlesDiffer(cmds)
    <2>1. ASSUME NEW m \in 1..L, NEW k \in 1..Keys(r) PROVE cmds[m].handle # cmds[L + k].handle
      <3>1. PICK i \in 1..n : \E key \in 1..Keys(p[i]) : cmds[m].handle = Handle(p[i], key)
        BY <1>11
      <3>2. PICK key \in 1..Keys(p[i]) : cmds[m].handle = Handle(p[i], key)
        BY <3>1
      <3>3. cmds[L + k].handle = Handle(r, k)
        BY <1>4, <1>6
      <3>4. Handle(p[i], 0) # Handle(r, 0)
        <4>1. i # n + 1 /\ i \in DOMAIN p /\ n + 1 \in DOMAIN p
          BY <1>1
        <4> QED BY <4>1 DEF CallsDiffer, r
      <3> QED BY <3>2, <3>3, <3>4 DEF Handle
    <2>2. ASSUME NEW k \in 1..Keys(r), NEW i \in 1..Keys(r), cmds[L + i].handle = cmds[L + k].handle
          PROVE  i = k
      <3>1. Handle(r, i) = Handle(r, k)
        BY <1>4, <1>6, <2>2
      <3> QED BY <3>1 DEF Handle
    <2>3. ASSUME NEW m \in 1..L, NEW j \in 1..L, cmds[m].handle = cmds[j].handle PROVE m = j
      <3>1. HandlesDiffer(old)
        BY DEF Numbered, old
      <3> QED BY <1>6, <1>8, <2>3, <3>1 DEF HandlesDiffer
    <2> QED BY <1>7, <2>1, <2>2, <2>3 DEF HandlesDiffer
  <1>13. CommandsOf(cmds, p, n + 1)
    <2>1. /\ n + 1 \in 1..(n + 1) /\ \A i \in 1..n : i \in 1..(n + 1)
          /\ \A i \in 1..(n + 1) : i \in 1..n \/ i = n + 1
      OBVIOUS
    <2>2. ASSUME NEW m \in DOMAIN cmds
          PROVE  \E i \in 1..(n + 1) : \E key \in 1..Keys(p[i]) : cmds[m].handle = Handle(p[i], key)
      <3>1. CASE m \in 1..L
        BY <1>11, <2>1, <3>1
      <3>2. CASE \E k \in 1..Keys(r) : m = L + k
        BY <1>4, <1>6, <2>1, <3>2 DEF r
      <3> QED BY <1>7, <3>1, <3>2
    <2>3. ASSUME NEW i \in 1..(n + 1), NEW key \in 1..Keys(p[i])
          PROVE  \E m \in DOMAIN cmds : cmds[m].handle = Handle(p[i], key)
      <3>1. CASE i \in 1..n
        <4>1. PICK m \in DOMAIN old : old[m].handle = Handle(p[i], key)
          BY <3>1 DEF Numbered, CommandsOf, old
        <4>2. m \in 1..L
          BY <1>5, <4>1 DEF L
        <4> QED BY <1>6, <1>8, <4>1, <4>2
      <3>2. CASE i = n + 1
        BY <1>4, <1>6, <1>8, <3>2 DEF r
      <3> QED BY <2>1, <3>1, <3>2
    <2> QED BY <2>2, <2>3 DEF CommandsOf
  <1> QED BY <1>4, <1>6, <1>9, <1>10, <1>12, <1>13 DEF Numbered, cmds, new, r

\* What the loop adds to, by the number of requests.
Loop(f, p, first, n) ==
  [m \in 0..n |-> IF m = 0 THEN first ELSE AddCall(f[m - 1], p[m])]

\* That recursion has a solution.
LEMMA BatchExists ==
  ASSUME NEW p, NEW first, NEW n \in Nat
  PROVE  \E f : f = Loop(f, p, first, n)
  <1> USE DEF Loop
  <1> DEFINE I == {l \in Nat : \E f : f = Loop(f, p, first, l)}
  <1>1. 0 \in I
    <2> DEFINE f == [m \in 0..0 |-> first]
    <2>1. f = Loop(f, p, first, 0)
      <3>1. \A m \in 0..0 : m = 0
        OBVIOUS
      <3> QED BY <3>1
    <2> QED BY <2>1
  <1>2. ASSUME NEW l \in I PROVE l + 1 \in I
    <2>1. l \in Nat
      BY <1>2
    <2>2. PICK f : f = Loop(f, p, first, l)
      BY <1>2
    <2> DEFINE g == [m \in 0..(l + 1) |-> IF m = l + 1 THEN AddCall(f[l], p[l + 1]) ELSE f[m]]
    <2>3. ASSUME NEW m \in 0..(l + 1)
          PROVE  g[m] = IF m = 0 THEN first ELSE AddCall(g[m - 1], p[m])
      <3>1. CASE m = l + 1
        <4>1. m # 0 /\ m - 1 = l /\ l \in 0..(l + 1) /\ l # l + 1
          BY <2>1, <3>1
        <4>2. g[l] = f[l] /\ g[m] = AddCall(f[l], p[l + 1])
          BY <3>1, <4>1
        <4> HIDE DEF g
        <4> QED BY <3>1, <4>1, <4>2
      <3>2. CASE m = 0
        <4>1. m # l + 1 /\ m \in 0..l
          BY <2>1, <3>2
        <4>2. g[m] = f[m] /\ f[m] = first
          BY <2>2, <3>2, <4>1
        <4> HIDE DEF g
        <4> QED BY <3>2, <4>2
      <3>3. CASE m # l + 1 /\ m # 0
        <4>1. m \in 0..l /\ m - 1 \in 0..(l + 1) /\ m - 1 # l + 1
          BY <2>1, <3>3
        <4>2. g[m] = f[m] /\ g[m - 1] = f[m - 1]
          BY <3>3, <4>1
        <4>3. f[m] = AddCall(f[m - 1], p[m])
          BY <2>2, <3>3, <4>1
        <4> HIDE DEF g
        <4> QED BY <3>3, <4>2, <4>3
      <3> QED BY <3>1, <3>2, <3>3
    <2>4. g = Loop(g, p, first, l + 1)
      BY <2>3
    <2> HIDE DEF g
    <2> QED BY <2>1, <2>4
  <1>3. I = Nat
    <2> HIDE DEF Loop
    <2>1. I \in SUBSET Nat
      OBVIOUS
    <2> HIDE DEF I
    <2> QED BY <1>1, <1>2, <2>1, AllNaturals
  <1> QED BY <1>3

\* The commands of a batch are numbered apart, and they are the commands of its
\* calls.
LEMMA BatchNumbered ==
  ASSUME NEW p \in Seq(Requests), CallsDiffer(p), NEW base \in Nat
  PROVE  LET cmds == BatchIntoBuffer(p, base) IN
         /\ cmds \in Seq(Commands) /\ OpaquesDiffer(cmds) /\ HandlesDiffer(cmds)
         /\ CommandsOf(cmds, p, Len(p))
  <1> DEFINE N == Len(p)
             first == [opaque |-> base, cmds |-> <<>>]
             it == CHOOSE f : f = Loop(f, p, first, N)
             I == {m \in Nat : m <= N => Numbered(it[m], p, m)}
  <1>1. BatchIntoBuffer(p, base) = it[N].cmds
    BY DEF BatchIntoBuffer, Loop
  <1>2. N \in Nat
    BY LenProperties
  <1>3. it = [m \in 0..N |-> IF m = 0 THEN first ELSE AddCall(it[m - 1], p[m])]
    <2> HIDE DEF first, N
    <2>1. \E f : f = Loop(f, p, first, N)
      BY <1>2, BatchExists
    <2>2. it = Loop(it, p, first, N)
      BY <2>1
    <2> HIDE DEF it
    <2> QED BY <2>2 DEF Loop
  <1>4. Numbered(first, p, 0)
    <2>1. <<>> \in Seq(Commands) /\ DOMAIN <<>> = {} /\ 1..0 = {}
      BY EmptySeq
    <2> QED BY <2>1 DEF Numbered, OpaquesDiffer, HandlesDiffer, CommandsOf
  <1> HIDE DEF it, first, N
  <1>5. 0 \in I
    <2>1. it[0] = first
      BY <1>2, <1>3
    <2> QED BY <1>4, <2>1
  <1>6. ASSUME NEW m \in I PROVE m + 1 \in I
    <2>1. m \in Nat /\ (m <= N => Numbered(it[m], p, m))
      BY <1>6
    <2>2. SUFFICES ASSUME m + 1 <= N PROVE Numbered(it[m + 1], p, m + 1)
      BY <2>1
    <2>3. m <= N /\ m + 1 \in 0..N /\ m + 1 # 0 /\ (m + 1) - 1 = m
      BY <1>2, <2>1, <2>2
    <2>4. it[m + 1] = AddCall(it[m], p[m + 1])
      BY <1>3, <2>3
    <2>5. Numbered(AddCall(it[m], p[m + 1]), p, m + 1)
      BY <2>1, <2>2, <2>3, AddCallNumbers DEF N
    <2> QED BY <2>4, <2>5
  <1>7. I = Nat
    <2>1. I \in SUBSET Nat
      OBVIOUS
    <2> HIDE DEF I
    <2> QED BY <1>5, <1>6, <2>1, AllNaturals
  <1>8. Numbered(it[N], p, N)
    BY <1>2, <1>7
  <1> QED BY <1>1, <1>8 DEF Numbered, N

(***************************************************************************)
(* The map of a batch, and the responses it is there for.                  *)
(***************************************************************************)

\* The map is that of the commands: their opaque values stand for their handles,
\* each for its own.
Matches(s, f) ==
  /\ OpaquesDiffer(s)
  /\ DOMAIN f = {s[m].opaque : m \in DOMAIN s}
  /\ \A m \in DOMAIN s : f[s[m].opaque] = s[m].handle

LEMMA ResponsesMatch ==
  ASSUME NEW s \in Seq(Commands), OpaquesDiffer(s)
  PROVE  Matches(s, Responses(s)) /\ Responses(s) \in ResponseMaps
  <1>1. DOMAIN s = 1..Len(s) /\ Len(s) \in Nat
    BY LenProperties
  <1>2. \A m \in DOMAIN s : s[m] \in Commands /\ m \in Nat
    BY <1>1, ElementOfSeq
  <1> DEFINE O == {s[m].opaque : m \in DOMAIN s}
             last(o) == CHOOSE n \in DOMAIN s :
                          /\ s[n].opaque = o
                          /\ \A m \in DOMAIN s : s[m].opaque = o => m <= n
  <1>3. ASSUME NEW m \in DOMAIN s PROVE last(s[m].opaque) = m
    <2>1. s[m].opaque = s[m].opaque /\ \A j \in DOMAIN s : s[j].opaque = s[m].opaque => j <= m
      BY <1>2 DEF OpaquesDiffer
    <2>2. last(s[m].opaque) \in DOMAIN s /\ s[last(s[m].opaque)].opaque = s[m].opaque
      BY <2>1
    <2> HIDE DEF last
    <2> QED BY <2>2 DEF OpaquesDiffer
  <1>4. Responses(s) = [o \in O |-> s[last(o)].handle]
    BY DEF Responses
  <1> HIDE DEF last
  <1>5. \A m \in DOMAIN s : Responses(s)[s[m].opaque] = s[m].handle
    BY <1>3, <1>4
  <1>6. Responses(s) \in [O -> Handles]
    <2>1. ASSUME NEW o \in O PROVE s[last(o)].handle \in Handles
      <3>1. PICK m \in DOMAIN s : o = s[m].opaque
        OBVIOUS
      <3>2. s[last(o)] \in Commands
        BY <1>2, <1>3, <3>1
      <3> QED BY <3>2 DEF Commands
    <2> QED BY <1>4, <2>1
  <1>7. O \in SUBSET Nat
    BY <1>2 DEF Commands
  <1>8. DOMAIN Responses(s) = O
    BY <1>6
  <1> QED BY <1>5, <1>6, <1>7, <1>8 DEF Matches, ResponseMaps

\* Nothing is waited for in the map of no commands, and in no other.
LEMMA EmptyMatch ==
  /\ Matches(<<>>, <<>>) /\ <<>> \in ResponseMaps /\ <<>> \in Seq(Commands)
  /\ \A f \in ResponseMaps : Matches(<<>>, f) => f = <<>>
  /\ \A s \in Seq(Commands) : Matches(s, <<>>) => s = <<>>
  <1>1. DOMAIN <<>> = {} /\ <<>> \in Seq(Commands) /\ <<>> \in Seq(Handles) /\ 1..0 = {} /\ Len(<<>>) = 0
    BY EmptySeq
  <1>2. Matches(<<>>, <<>>)
    BY <1>1 DEF Matches, OpaquesDiffer
  <1>3. <<>> \in ResponseMaps
    <2>1. <<>> \in [{} -> Handles]
      BY <1>1, LenProperties
    <2> QED BY <2>1 DEF ResponseMaps
  <1>4. ASSUME NEW f \in ResponseMaps, Matches(<<>>, f) PROVE f = <<>>
    <2>1. DOMAIN f = {}
      BY <1>1, <1>4 DEF Matches
    <2>2. f \in [1..0 -> Handles]
      BY <1>1, <2>1 DEF ResponseMaps
    <2>3. f \in Seq(Handles) /\ Len(f) = 0
      BY <2>2, SequenceOf
    <2> QED BY <2>3, EmptySeq
  <1>5. ASSUME NEW s \in Seq(Commands), Matches(s, <<>>) PROVE s = <<>>
    <2>1. DOMAIN s = {}
      BY <1>1, <1>5 DEF Matches
    <2>2. Len(s) = 0
      BY <2>1, LenProperties
    <2> QED BY <2>2, EmptySeq
  <1> QED BY <1>1, <1>2, <1>3, <1>4, <1>5

\* The first response is taken off.
LEMMA MatchTail ==
  ASSUME NEW s \in Seq(Commands), s # <<>>, NEW f \in ResponseMaps, Matches(s, f)
  PROVE  /\ Head(s).opaque \in DOMAIN f /\ f[Head(s).opaque] = Head(s).handle
         /\ Matches(Tail(s), Without(f, Head(s).opaque))
         /\ Without(f, Head(s).opaque) \in ResponseMaps
  <1> DEFINE o == Head(s).opaque
             t == Tail(s)
             g == Without(f, o)
  <1>1. /\ DOMAIN s = 1..Len(s) /\ Len(s) \in Nat /\ Len(s) # 0 /\ Head(s) = s[1]
    BY LenProperties, EmptySeq
  <1>2. /\ t \in Seq(Commands) /\ Len(t) = Len(s) - 1 /\ \A i \in 1..Len(t) : t[i] = s[i + 1]
    BY HeadTailProperties
  <1>3. DOMAIN t = 1..Len(t)
    BY <1>2, LenProperties
  <1>4. 1 \in DOMAIN s
    BY <1>1
  <1>5. Head(s).opaque \in DOMAIN f /\ f[Head(s).opaque] = Head(s).handle
    BY <1>1, <1>4 DEF Matches
  <1>6. \A i \in DOMAIN t : i \in Nat /\ i + 1 \in DOMAIN s /\ t[i] = s[i + 1] /\ i + 1 # 1
    BY <1>1, <1>2, <1>3
  <1>7. \A m \in DOMAIN s : m = 1 \/ (m - 1 \in DOMAIN t /\ t[m - 1] = s[m] /\ m # 1)
    <2>1. \A m \in DOMAIN s : m = 1 \/ (m - 1 \in DOMAIN t /\ (m - 1) + 1 = m)
      BY <1>1, <1>2, <1>3
    <2> QED BY <1>6, <2>1
  <1> HIDE DEF t
  <1>8. OpaquesDiffer(t)
    <2>1. ASSUME NEW i \in DOMAIN t, NEW j \in DOMAIN t, t[i].opaque = t[j].opaque PROVE i = j
      <3>1. i + 1 = j + 1
        BY <1>6, <2>1 DEF Matches, OpaquesDiffer
      <3> QED BY <1>6, <3>1
    <2> QED BY <2>1 DEF OpaquesDiffer
  <1>9. \A m \in DOMAIN s : m # 1 => s[m].opaque # o
    BY <1>1, <1>4 DEF Matches, OpaquesDiffer
  <1>10. DOMAIN g = DOMAIN f \ {o} /\ \A y \in DOMAIN g : g[y] = f[y]
    BY DEF Without
  <1>11. \A i \in DOMAIN t : t[i].opaque \in DOMAIN f /\ t[i].opaque # o /\ f[t[i].opaque] = t[i].handle
    BY <1>6, <1>9 DEF Matches
  <1>12. \A y \in DOMAIN f \ {o} : \E i \in DOMAIN t : y = t[i].opaque
    <2>1. ASSUME NEW y \in DOMAIN f \ {o} PROVE \E i \in DOMAIN t : y = t[i].opaque
      <3>1. PICK m \in DOMAIN s : y = s[m].opaque
        BY DEF Matches
      <3>2. m # 1
        BY <1>1, <3>1
      <3> QED BY <1>7, <3>1, <3>2
    <2> QED BY <2>1
  <1>13. g \in ResponseMaps
    <2>1. DOMAIN f \in SUBSET Nat /\ f \in [DOMAIN f -> Handles]
      BY DEF ResponseMaps
    <2>2. g \in [DOMAIN f \ {o} -> Handles]
      BY <2>1 DEF Without
    <2> QED BY <2>1, <2>2 DEF ResponseMaps
  <1> HIDE DEF g, o
  <1>14. Matches(t, g)
    <2>1. DOMAIN g = {t[i].opaque : i \in DOMAIN t}
      BY <1>10, <1>11, <1>12
    <2>2. \A i \in DOMAIN t : g[t[i].opaque] = t[i].handle
      BY <1>10, <1>11
    <2> QED BY <1>8, <2>1, <2>2 DEF Matches
  <1> QED BY <1>5, <1>13, <1>14 DEF t, g, o

\* There are as many commands as handles.
LEMMA MatchCount ==
  ASSUME NEW s \in Seq(Commands), NEW f, Matches(s, f)
  PROVE  IsFiniteSet(DOMAIN f) /\ Cardinality(DOMAIN f) = Len(s)
  <1>1. DOMAIN s = 1..Len(s) /\ Len(s) \in Nat
    BY LenProperties
  <1> DEFINE b == [m \in 1..Len(s) |-> s[m].opaque]
  <1>2. b \in Bijection(1..Len(s), DOMAIN f)
    <2>1. b \in [1..Len(s) -> DOMAIN f]
      BY <1>1 DEF Matches
    <2>2. \A m, j \in 1..Len(s) : b[m] = b[j] => m = j
      BY <1>1 DEF Matches, OpaquesDiffer
    <2>3. \A o \in DOMAIN f : \E m \in 1..Len(s) : b[m] = o
      BY <1>1 DEF Matches
    <2> HIDE DEF b
    <2> QED BY <2>1, <2>2, <2>3, Fun_IsBij
  <1> HIDE DEF b
  <1>3. ExistsBijection(1..Len(s), DOMAIN f)
    BY <1>2 DEF ExistsBijection
  <1>4. IsFiniteSet(1..Len(s)) /\ Cardinality(1..Len(s)) = Len(s)
    <2>1. IsFiniteSet(1..Len(s)) /\ Cardinality(1..Len(s)) = IF 1 > Len(s) THEN 0 ELSE Len(s) - 1 + 1
      BY <1>1, FS_Interval
    <2> QED BY <1>1, <2>1
  <1> QED BY <1>3, <1>4, FS_Bijection

\* The calls of the requests.
CallsOf(p) == {Handle(p[i], 0) : i \in DOMAIN p}

\* The handles of the map are of these calls, and there is no handle twice.
Belongs(f, calls) ==
  /\ \A o \in DOMAIN f : Handle(f[o], 0) \in calls /\ f[o].key \in 1..KeysPerGet
  /\ \A o, u \in DOMAIN f : f[o] = f[u] => o = u

\* The map of a batch has a handle for every command of its calls and no other.
LEMMA BatchMap ==
  ASSUME NEW p \in Seq(Requests), CallsDiffer(p), NEW s \in Seq(Commands),
         OpaquesDiffer(s), HandlesDiffer(s), CommandsOf(s, p, Len(p))
  PROVE  /\ Belongs(Responses(s), CallsOf(p)) /\ CallsOf(p) \in SUBSET Handles
         /\ \A i \in DOMAIN p : \A key \in 1..Keys(p[i]) :
              Handle(p[i], key) \in HandlesOf(Responses(s))
  <1> DEFINE f == Responses(s)
  <1>1. DOMAIN p = 1..Len(p) /\ \A i \in DOMAIN p : p[i] \in Requests
    BY LenProperties, ElementOfSeq
  <1>2. Matches(s, f)
    BY ResponsesMatch
  <1> HIDE DEF f
  <1>3. \A o \in DOMAIN f : \E m \in DOMAIN s : o = s[m].opaque /\ f[o] = s[m].handle
    BY <1>2 DEF Matches
  <1>4. CallsOf(p) \in SUBSET Handles
    BY <1>1 DEF CallsOf, Handle, Handles, Requests
  <1>5. ASSUME NEW o \in DOMAIN f PROVE Handle(f[o], 0) \in CallsOf(p) /\ f[o].key \in 1..KeysPerGet
    <2>0. PICK m \in DOMAIN s : f[o] = s[m].handle
      BY <1>3
    <2>1. PICK i \in DOMAIN p : \E key \in 1..Keys(p[i]) : f[o] = Handle(p[i], key)
      <3>1. \E i \in 1..Len(p) : \E key \in 1..Keys(p[i]) : s[m].handle = Handle(p[i], key)
        BY DEF CommandsOf
      <3> QED BY <1>1, <2>0, <3>1
    <2>2. PICK key \in 1..Keys(p[i]) : f[o] = Handle(p[i], key)
      BY <2>1
    <2>3. f[o].key = key /\ Handle(f[o], 0) = Handle(p[i], 0)
      BY <2>2 DEF Handle
    <2>4. key \in 1..KeysPerGet
      BY BatchedAssumption DEF Keys
    <2> QED BY <2>3, <2>4 DEF CallsOf
  <1>6. \A o, u \in DOMAIN f : f[o] = f[u] => o = u
    BY <1>3 DEF HandlesDiffer
  <1>7. ASSUME NEW i \in DOMAIN p, NEW key \in 1..Keys(p[i]) PROVE Handle(p[i], key) \in HandlesOf(f)
    <2>1. PICK m \in DOMAIN s : s[m].handle = Handle(p[i], key)
      BY <1>1 DEF CommandsOf
    <2>2. s[m].opaque \in DOMAIN f /\ f[s[m].opaque] = Handle(p[i], key)
      BY <1>2, <2>1 DEF Matches
    <2> QED BY <2>2 DEF HandlesOf
  <1> QED BY <1>4, <1>5, <1>6, <1>7 DEF Belongs, f

(***************************************************************************)
(* Sequences.                                                              *)
(***************************************************************************)

\* What is taken from the front of one and put at the end of the other.
LEMMA Moved ==
  ASSUME NEW S, NEW a \in Seq(S), NEW b \in Seq(S), b # <<>>
  PROVE  Append(a, Head(b)) \o Tail(b) = a \o b
  <1> DEFINE l == Append(a, Head(b)) \o Tail(b)
             r == a \o b
  <1>1. /\ Head(b) \in S /\ Tail(b) \in Seq(S) /\ Len(Tail(b)) = Len(b) - 1
        /\ \A i \in 1..Len(Tail(b)) : Tail(b)[i] = b[i + 1]
    BY HeadTailProperties
  <1>2. Len(a) \in Nat /\ Len(b) \in Nat /\ Len(b) # 0 /\ Head(b) = b[1]
    BY LenProperties, EmptySeq
  <1>3. /\ Append(a, Head(b)) \in Seq(S) /\ Len(Append(a, Head(b))) = Len(a) + 1
        /\ \A i \in 1..Len(a) : Append(a, Head(b))[i] = a[i]
        /\ Append(a, Head(b))[Len(a) + 1] = b[1]
    BY <1>1, <1>2, AppendProperties
  <1>4. /\ l \in Seq(S) /\ Len(l) = Len(a) + Len(b)
        /\ \A i \in 1..(Len(a) + Len(b)) :
             l[i] = IF i <= Len(a) + 1 THEN Append(a, Head(b))[i] ELSE Tail(b)[i - (Len(a) + 1)]
    <2>1. /\ l \in Seq(S) /\ Len(l) = Len(Append(a, Head(b))) + Len(Tail(b))
          /\ \A i \in 1..(Len(Append(a, Head(b))) + Len(Tail(b))) :
               l[i] = IF i <= Len(Append(a, Head(b))) THEN Append(a, Head(b))[i]
                                              ELSE Tail(b)[i - Len(Append(a, Head(b)))]
      BY <1>1, <1>3, ConcatProperties
    <2>2. (Len(a) + 1) + (Len(b) - 1) = Len(a) + Len(b)
      BY <1>2
    <2> HIDE DEF l
    <2> QED BY <1>1, <1>3, <2>1, <2>2
  <1>5. /\ r \in Seq(S) /\ Len(r) = Len(a) + Len(b)
        /\ \A i \in 1..(Len(a) + Len(b)) : r[i] = IF i <= Len(a) THEN a[i] ELSE b[i - Len(a)]
    BY ConcatProperties
  <1> HIDE DEF l, r
  <1>6. ASSUME NEW i \in 1..Len(l) PROVE l[i] = r[i]
    <2>1. CASE i <= Len(a)
      <3>1. i \in 1..Len(a) /\ i <= Len(a) + 1
        BY <1>2, <1>4, <2>1
      <3> QED BY <1>3, <1>4, <1>5, <2>1, <3>1
    <2>2. CASE i = Len(a) + 1
      <3>1. i - Len(a) = 1 /\ ~(i <= Len(a)) /\ i <= Len(a) + 1
        BY <1>2, <2>2
      <3>2. l[i] = b[1] /\ r[i] = b[i - Len(a)]
        BY <1>3, <1>4, <1>5, <2>2, <3>1
      <3> QED BY <3>1, <3>2
    <2>3. CASE ~(i <= Len(a) + 1)
      <3>1. /\ i - (Len(a) + 1) \in 1..Len(Tail(b)) /\ ~(i <= Len(a))
            /\ (i - (Len(a) + 1)) + 1 = i - Len(a)
        BY <1>1, <1>2, <1>4, <2>3
      <3>2. l[i] = b[(i - (Len(a) + 1)) + 1] /\ r[i] = b[i - Len(a)]
        BY <1>1, <1>4, <1>5, <2>3, <3>1
      <3> QED BY <3>1, <3>2
    <2> QED BY <1>2, <1>4, <2>1, <2>2, <2>3
  <1>7. l = r
    BY <1>4, <1>5, <1>6, SeqEqual
  <1> QED BY <1>7 DEF l, r

\* The first of two sequences is shortened.
LEMMA TailOfConcat ==
  ASSUME NEW S, NEW a \in Seq(S), NEW b \in Seq(S), a # <<>>
  PROVE  /\ a \o b # <<>> /\ Head(a \o b) = Head(a) /\ Tail(a \o b) = Tail(a) \o b
  <1> DEFINE s == a \o b
             l == Tail(s)
             r == Tail(a) \o b
  <1>1. /\ Tail(a) \in Seq(S) /\ Len(Tail(a)) = Len(a) - 1
        /\ \A i \in 1..Len(Tail(a)) : Tail(a)[i] = a[i + 1]
    BY HeadTailProperties
  <1>2. Len(a) \in Nat /\ Len(b) \in Nat /\ Len(a) # 0 /\ Head(a) = a[1]
    BY LenProperties, EmptySeq
  <1>3. /\ s \in Seq(S) /\ Len(s) = Len(a) + Len(b)
        /\ \A i \in 1..(Len(a) + Len(b)) : s[i] = IF i <= Len(a) THEN a[i] ELSE b[i - Len(a)]
    BY ConcatProperties
  <1> HIDE DEF s
  <1>4. s # <<>> /\ Head(s) = s[1]
    BY <1>2, <1>3, EmptySeq
  <1>5. /\ l \in Seq(S) /\ Len(l) = Len(a) + Len(b) - 1
        /\ \A i \in 1..Len(l) : l[i] = s[i + 1]
    BY <1>3, <1>4, HeadTailProperties
  <1>6. /\ r \in Seq(S) /\ Len(r) = Len(a) + Len(b) - 1
        /\ \A i \in 1..Len(r) : r[i] = IF i <= Len(a) - 1 THEN Tail(a)[i] ELSE b[i - (Len(a) - 1)]
    <2>1. /\ r \in Seq(S) /\ Len(r) = Len(Tail(a)) + Len(b)
          /\ \A i \in 1..(Len(Tail(a)) + Len(b)) :
               r[i] = IF i <= Len(Tail(a)) THEN Tail(a)[i] ELSE b[i - Len(Tail(a))]
      BY <1>1, ConcatProperties
    <2>2. (Len(a) - 1) + Len(b) = Len(a) + Len(b) - 1
      BY <1>2
    <2> HIDE DEF r
    <2> QED BY <1>1, <2>1, <2>2
  <1> HIDE DEF l, r
  <1>7. ASSUME NEW i \in 1..Len(l) PROVE l[i] = r[i]
    <2>1. i \in Nat /\ i + 1 \in 1..(Len(a) + Len(b)) /\ i \in 1..Len(r)
      BY <1>2, <1>5, <1>6
    <2>2. CASE i <= Len(a) - 1
      <3>1. i + 1 <= Len(a) /\ i \in 1..Len(Tail(a))
        BY <1>1, <1>2, <2>1, <2>2
      <3>2. l[i] = a[i + 1]
        BY <1>3, <1>5, <2>1, <3>1
      <3> QED BY <1>1, <1>6, <2>1, <2>2, <3>1, <3>2
    <2>3. CASE ~(i <= Len(a) - 1)
      <3>1. ~(i + 1 <= Len(a)) /\ (i + 1) - Len(a) = i - (Len(a) - 1)
        BY <1>2, <2>1, <2>3
      <3>2. l[i] = b[(i + 1) - Len(a)] /\ r[i] = b[i - (Len(a) - 1)]
        BY <1>3, <1>5, <1>6, <2>1, <2>3, <3>1
      <3> QED BY <3>1, <3>2
    <2> QED BY <2>2, <2>3
  <1>8. l = r
    BY <1>5, <1>6, <1>7, SeqEqual
  <1>9. Head(s) = Head(a)
    <2>1. 1 \in 1..(Len(a) + Len(b)) /\ 1 <= Len(a)
      BY <1>2
    <2> QED BY <1>2, <1>3, <1>4, <2>1
  <1> QED BY <1>4, <1>8, <1>9 DEF s, l, r

(***************************************************************************)
(* Types.                                                                  *)
(***************************************************************************)

ClientStates ==
  [pc : {"new", "idle", "submit", "wait", "done", "closed"}, call : Nat,
   op : Ops \cup {"none"}, conn : Nat, got : Seq(Answers), err : BOOLEAN]

BatcherStates ==
  [pc : {"select", "block", "do", "write", "oops", "dead"}, timedout : BOOLEAN,
   reqs : Seq(Requests), out : Seq(Commands), todo : SUBSET Handles,
   sending : SUBSET Handles]

ReaderStates ==
  [pc : {"take", "read", "oops", "dead"}, responses : ResponseMaps,
   channels : SUBSET Handles, failed : 0..2, todo : SUBSET Handles,
   sending : SUBSET Handles]

LinkStates == [up : BOOLEAN, toServer : Seq(Commands), toProxy : Seq(Commands)]

\* Where a client may be in its script, and with which connection.
ClientBounds(r, c, size) ==
  /\ r.call <= Len(Script[c]) /\ r.conn <= size
  /\ r.pc \in {"submit", "wait"} => r.op \in Ops /\ 1 <= r.conn

Typed ==
  /\ relay \in [made : BOOLEAN, batchSize : Nat] /\ pool \in 0..MaxPool /\ faults \in Nat
  /\ relay.made \/ pool = 0
  /\ client \in [Clients -> ClientStates]
  /\ \A c \in Clients : ClientBounds(client[c], c, pool)
  /\ reqchan \in [Pool -> Seq(Requests)]
  /\ batcher \in [Pool -> BatcherStates]
  /\ batchchan \in [Pool -> Seq(Batches)]
  /\ reader \in [Pool -> ReaderStates]
  /\ link \in [Pool -> LinkStates]

\* The fields of a state.
LEMMA ClientFields ==
  ASSUME NEW r \in ClientStates
  PROVE  /\ r.pc \in {"new", "idle", "submit", "wait", "done", "closed"}
         /\ r.call \in Nat /\ r.op \in Ops \cup {"none"} /\ r.conn \in Nat
         /\ r.got \in Seq(Answers)
  BY DEF ClientStates

LEMMA BatcherFields ==
  ASSUME NEW b \in BatcherStates
  PROVE  /\ b.pc \in {"select", "block", "do", "write", "oops", "dead"}
         /\ b.reqs \in Seq(Requests) /\ b.out \in Seq(Commands)
         /\ b.todo \in SUBSET Handles /\ b.sending \in SUBSET Handles
  BY DEF BatcherStates

LEMMA ReaderFields ==
  ASSUME NEW r \in ReaderStates
  PROVE  /\ r.pc \in {"take", "read", "oops", "dead"} /\ r.failed \in 0..2
         /\ r.responses \in ResponseMaps /\ r.channels \in SUBSET Handles
         /\ r.todo \in SUBSET Handles /\ r.sending \in SUBSET Handles
  BY DEF ReaderStates

LEMMA LinkFields ==
  ASSUME NEW l \in LinkStates
  PROVE  l.toServer \in Seq(Commands) /\ l.toProxy \in Seq(Commands)
  BY DEF LinkStates

LEMMA BatchFields ==
  ASSUME NEW b \in Batches
  PROVE  b.responses \in ResponseMaps /\ b.channels \in SUBSET Handles
  BY DEF Batches

LEMMA HandleFields ==
  ASSUME NEW h \in Handles
  PROVE  /\ h.client \in Clients /\ h.call \in Nat /\ h.key \in Nat
         /\ h = [client |-> h.client, call |-> h.call, key |-> h.key]
  BY DEF Handles

LEMMA HandlesOfType ==
  ASSUME NEW f \in ResponseMaps
  PROVE  HandlesOf(f) \in SUBSET Handles
  <1>1. PICK O \in SUBSET Nat : f \in [O -> Handles]
    BY DEF ResponseMaps
  <1>2. \A o \in DOMAIN f : f[o] \in Handles
    BY <1>1
  <1> QED BY <1>2 DEF HandlesOf

(***************************************************************************)
(* What the steps do to a client.                                          *)
(***************************************************************************)

LEMMA IdleState ==
  ASSUME NEW n \in Nat
  PROVE  /\ Idle(n) \in ClientStates
         /\ Idle(n).pc = "idle" /\ Idle(n).call = n /\ Idle(n).conn = 0
         /\ Idle(n).op = "none" /\ Idle(n).got = <<>>
  <1>1. <<>> \in Seq(Answers)
    BY EmptySeq
  <1> QED BY <1>1 DEF Idle, ClientStates

\* A call with its connection.
Calling(n, op, k) == [Idle(n) EXCEPT !.pc = "submit", !.op = op, !.conn = k]

LEMMA CallingState ==
  ASSUME NEW n \in Nat, NEW op \in Ops, NEW k \in Nat
  PROVE  /\ Calling(n, op, k) \in ClientStates
         /\ Calling(n, op, k).pc = "submit" /\ Calling(n, op, k).call = n
         /\ Calling(n, op, k).op = op /\ Calling(n, op, k).conn = k
         /\ Calling(n, op, k).got = <<>>
  <1>1. <<>> \in Seq(Answers)
    BY EmptySeq
  <1>2. Idle(n) \in ClientStates /\ Idle(n).call = n /\ Idle(n).got = <<>>
    BY IdleState
  <1> QED BY <1>1, <1>2 DEF Calling, ClientStates

\* A client goes on, and nothing else of it changes.
GoesTo(r, pc) == [r EXCEPT !.pc = pc]

LEMMA GoesToState ==
  ASSUME NEW r \in ClientStates,
         NEW pc \in {"new", "idle", "submit", "wait", "done", "closed"}
  PROVE  /\ GoesTo(r, pc) \in ClientStates /\ GoesTo(r, pc).pc = pc
         /\ GoesTo(r, pc).call = r.call /\ GoesTo(r, pc).conn = r.conn
         /\ GoesTo(r, pc).op = r.op /\ GoesTo(r, pc).got = r.got
         /\ GoesTo(r, pc).err = r.err
  BY DEF GoesTo, ClientStates

\* Where a client is after what it has received.
PcAfter(r) == IF r.op = "Get" THEN "wait" ELSE "done"

Answered(r, a) == [r EXCEPT !.got = Append(@, a), !.pc = PcAfter(r)]

LEMMA AnsweredState ==
  ASSUME NEW r \in ClientStates, NEW a \in Answers
  PROVE  /\ Answered(r, a) \in ClientStates /\ Answered(r, a).pc = PcAfter(r)
         /\ Answered(r, a).call = r.call /\ Answered(r, a).conn = r.conn
         /\ Answered(r, a).op = r.op /\ Answered(r, a).got = Append(r.got, a)
         /\ Answered(r, a).err = r.err
  <1>1. Append(r.got, a) \in Seq(Answers)
    BY ClientFields, AppendProperties
  <1>2. PcAfter(r) \in {"wait", "done"}
    BY DEF PcAfter
  <1> HIDE DEF PcAfter
  <1> QED BY <1>1, <1>2 DEF Answered, ClientStates

Erred(r) == [r EXCEPT !.err = TRUE, !.pc = PcAfter(r)]

LEMMA ErredState ==
  ASSUME NEW r \in ClientStates
  PROVE  /\ Erred(r) \in ClientStates /\ Erred(r).pc = PcAfter(r)
         /\ Erred(r).call = r.call /\ Erred(r).conn = r.conn
         /\ Erred(r).op = r.op /\ Erred(r).got = r.got
         /\ Erred(r).err
  <1>1. PcAfter(r) \in {"wait", "done"}
    BY DEF PcAfter
  <1> HIDE DEF PcAfter
  <1> QED BY <1>1 DEF Erred, ClientStates

\* Client c is now as r says, and the others are as they were.
Becomes(c, r) ==
  /\ client' \in [Clients -> ClientStates]
  /\ client'[c] = r /\ \A d \in Clients \ {c} : client'[d] = client[d]

LEMMA ClientBecomes ==
  ASSUME Typed, NEW c \in Clients, NEW r \in ClientStates,
         client' = [client EXCEPT ![c] = r]
  PROVE  Becomes(c, r)
  BY DEF Typed, Becomes

LEMMA ReceivesEffect ==
  ASSUME Typed, NEW h \in Handles, NEW of \in Handles, Receives(h, of)
  PROVE  Becomes(h.client, Answered(client[h.client], [handle |-> h, of |-> of]))
  <1> DEFINE c == h.client
             a == [handle |-> h, of |-> of]
  <1>1. c \in Clients /\ a \in Answers /\ client[c] \in ClientStates
    BY HandleFields DEF Answers, Typed
  <1>2. client' = [client EXCEPT ![c] = Answered(client[c], a)]
    BY DEF Receives, Answered, PcAfter
  <1>3. Answered(client[c], a) \in ClientStates
    BY <1>1, AnsweredState
  <1> HIDE DEF c, a
  <1>4. Becomes(c, Answered(client[c], a))
    BY <1>1, <1>2, <1>3, ClientBecomes
  <1> QED BY <1>4 DEF c, a

LEMMA ReceivesErrorEffect ==
  ASSUME Typed, NEW h \in Handles, ReceivesError(h)
  PROVE  Becomes(h.client, Erred(client[h.client]))
  <1> DEFINE c == h.client
  <1>1. c \in Clients /\ client[c] \in ClientStates
    BY HandleFields DEF Typed
  <1>2. client' = [client EXCEPT ![c] = Erred(client[c])]
    BY DEF ReceivesError, Erred, PcAfter
  <1>3. Erred(client[c]) \in ClientStates
    BY <1>1, ErredState
  <1> HIDE DEF c
  <1>4. Becomes(c, Erred(client[c]))
    BY <1>1, <1>2, <1>3, ClientBecomes
  <1> QED BY <1>4 DEF c

\* A panic leaves every call and every batch where it is.
LEMMA PanicEffect ==
  ASSUME Typed, Panic
  PROVE  /\ client' \in [Clients -> ClientStates]
         /\ \A c \in Clients : client'[c] = GoesTo(client[c], "closed")
         /\ batcher' \in [Pool -> BatcherStates] /\ reader' \in [Pool -> ReaderStates]
         /\ \A k \in Pool :
              /\ batcher'[k].pc = "dead" /\ batcher'[k].reqs = batcher[k].reqs
              /\ batcher'[k].out = batcher[k].out
              /\ reader'[k].pc = "dead" /\ reader'[k].responses = reader[k].responses
              /\ reader'[k].channels = reader[k].channels
  <1>1. client' = [c \in Clients |-> GoesTo(client[c], "closed")]
    BY DEF Panic, GoesTo
  <1>2. \A c \in Clients : GoesTo(client[c], "closed") \in ClientStates
    BY GoesToState DEF Typed
  <1>3. ASSUME NEW k \in Pool
        PROVE  /\ batcher'[k].pc = "dead" /\ batcher'[k].reqs = batcher[k].reqs
               /\ batcher'[k].out = batcher[k].out /\ batcher'[k] \in BatcherStates
    <2>1. batcher'[k] = [batcher[k] EXCEPT !.pc = "dead"] /\ batcher[k] \in BatcherStates
      BY DEF Panic, Typed
    <2> QED BY <2>1 DEF BatcherStates
  <1>4. ASSUME NEW k \in Pool
        PROVE  /\ reader'[k].pc = "dead" /\ reader'[k].responses = reader[k].responses
               /\ reader'[k].channels = reader[k].channels /\ reader'[k] \in ReaderStates
    <2>1. reader'[k] = [reader[k] EXCEPT !.pc = "dead"] /\ reader[k] \in ReaderStates
      BY DEF Panic, Typed
    <2> QED BY <2>1 DEF ReaderStates
  <1>5. batcher' \in [Pool -> BatcherStates] /\ reader' \in [Pool -> ReaderStates]
    <2>1. batcher' = [k \in Pool |-> batcher'[k]] /\ reader' = [k \in Pool |-> reader'[k]]
      BY DEF Panic
    <2> QED BY <1>3, <1>4, <2>1
  <1> QED BY <1>1, <1>2, <1>3, <1>4, <1>5

(***************************************************************************)
(* What the steps do to a connection.                                      *)
(***************************************************************************)

\* Batcher k is now as b says, and the others are as they were; the same of a
\* reader and of a link.
NowBatcher(k, b) ==
  /\ batcher' \in [Pool -> BatcherStates]
  /\ batcher'[k] = b /\ \A j \in Pool \ {k} : batcher'[j] = batcher[j]

NowReader(k, r) ==
  /\ reader' \in [Pool -> ReaderStates]
  /\ reader'[k] = r /\ \A j \in Pool \ {k} : reader'[j] = reader[j]

NowLink(k, l) ==
  /\ link' \in [Pool -> LinkStates]
  /\ link'[k] = l /\ \A j \in Pool \ {k} : link'[j] = link[j]

LEMMA NowStates ==
  ASSUME Typed, NEW k \in Pool
  PROVE  /\ \A b \in BatcherStates : SetBatcher(k, b) => NowBatcher(k, b)
         /\ \A r \in ReaderStates : reader' = [reader EXCEPT ![k] = r] => NowReader(k, r)
         /\ \A l \in LinkStates : link' = [link EXCEPT ![k] = l] => NowLink(k, l)
  BY DEF Typed, SetBatcher, NowBatcher, NowReader, NowLink

\* A batcher with nothing collected.
Fresh(timedout, pc) == [IdleBatcher EXCEPT !.timedout = timedout, !.pc = pc]

LEMMA FreshState ==
  ASSUME NEW timedout \in BOOLEAN, NEW pc \in {"select", "block"}
  PROVE  /\ Fresh(timedout, pc) \in BatcherStates /\ Fresh(timedout, pc).pc = pc
         /\ Fresh(timedout, pc).reqs = <<>> /\ Fresh(timedout, pc).out = <<>>
  <1>1. <<>> \in Seq(Requests) /\ <<>> \in Seq(Commands)
    BY EmptySeq
  <1>2. IdleBatcher \in BatcherStates /\ IdleBatcher.reqs = <<>> /\ IdleBatcher.out = <<>>
    BY <1>1 DEF IdleBatcher, BatcherStates
  <1>3. Fresh(timedout, pc) \in BatcherStates
    BY <1>2 DEF Fresh, BatcherStates
  <1> QED BY <1>2, <1>3 DEF Fresh, BatcherStates

LEMMA AfterBatchState ==
  ASSUME NEW b \in BatcherStates
  PROVE  /\ AfterBatch(b) \in BatcherStates /\ AfterBatch(b).pc \in {"select", "block"}
         /\ AfterBatch(b).reqs = <<>> /\ AfterBatch(b).out = <<>>
  <1> DEFINE pc == IF b.timedout THEN "block" ELSE "select"
  <1>1. AfterBatch(b) = Fresh(b.timedout, pc)
    BY Zenon DEF AfterBatch, Fresh
  <1>2. pc \in {"select", "block"}
    OBVIOUS
  <1>3. b.timedout \in BOOLEAN
    BY DEF BatcherStates
  <1> HIDE DEF pc
  <1> QED BY <1>1, <1>2, <1>3, FreshState

\* The states that the batcher goes through.
Collected(b, reqs, pc) == [b EXCEPT !.reqs = reqs, !.timedout = FALSE, !.pc = pc]

TimedOut(b, pc) == [b EXCEPT !.timedout = TRUE, !.pc = pc]

Writing(b, cmds) == [b EXCEPT !.pc = "write", !.out = cmds]

Written(b) == [b EXCEPT !.out = Tail(@)]

Visiting(g, todo, h) == [g EXCEPT !.pc = "oops", !.todo = todo, !.sending = {h}]

LEMMA CollectedState ==
  ASSUME NEW b \in BatcherStates, NEW reqs \in Seq(Requests), NEW pc \in {"select", "do"}
  PROVE  /\ Collected(b, reqs, pc) \in BatcherStates
         /\ Collected(b, reqs, pc).pc = pc /\ Collected(b, reqs, pc).reqs = reqs
         /\ Collected(b, reqs, pc).out = b.out
  BY DEF Collected, BatcherStates

LEMMA TimedOutState ==
  ASSUME NEW b \in BatcherStates, NEW pc \in {"block", "do"}
  PROVE  /\ TimedOut(b, pc) \in BatcherStates /\ TimedOut(b, pc).pc = pc
         /\ TimedOut(b, pc).reqs = b.reqs /\ TimedOut(b, pc).out = b.out
  BY DEF TimedOut, BatcherStates

LEMMA WritingState ==
  ASSUME NEW b \in BatcherStates, NEW cmds \in Seq(Commands)
  PROVE  /\ Writing(b, cmds) \in BatcherStates /\ Writing(b, cmds).pc = "write"
         /\ Writing(b, cmds).reqs = b.reqs /\ Writing(b, cmds).out = cmds
  BY DEF Writing, BatcherStates

LEMMA WrittenState ==
  ASSUME NEW b \in BatcherStates, b.out # <<>>
  PROVE  /\ Written(b) \in BatcherStates /\ Written(b).pc = b.pc
         /\ Written(b).reqs = b.reqs /\ Written(b).out = Tail(b.out)
  <1>1. Tail(b.out) \in Seq(Commands)
    BY BatcherFields, HeadTailProperties
  <1> QED BY <1>1 DEF Written, BatcherStates

LEMMA BatcherVisits ==
  ASSUME NEW b \in BatcherStates, NEW todo \in SUBSET Handles, NEW h \in Handles
  PROVE  /\ Visiting(b, todo, h) \in BatcherStates /\ Visiting(b, todo, h).pc = "oops"
         /\ Visiting(b, todo, h).reqs = b.reqs /\ Visiting(b, todo, h).out = b.out
  BY DEF Visiting, BatcherStates

\* The states that the reader goes through.
Reading(f, calls) == [IdleReader EXCEPT !.pc = "read", !.responses = f, !.channels = calls]

Delivered(r, f) == [r EXCEPT !.responses = f]

Failed(r, n) == [r EXCEPT !.failed = n]

LEMMA IdleReaderState ==
  /\ IdleReader \in ReaderStates /\ IdleReader.pc = "take"
  /\ IdleReader.responses = <<>> /\ IdleReader.channels = {}
  <1>1. <<>> \in ResponseMaps
    BY EmptyMatch
  <1> QED BY <1>1 DEF IdleReader, ReaderStates

LEMMA ReadingState ==
  ASSUME NEW f \in ResponseMaps, NEW calls \in SUBSET Handles
  PROVE  /\ Reading(f, calls) \in ReaderStates /\ Reading(f, calls).pc = "read"
         /\ Reading(f, calls).responses = f /\ Reading(f, calls).channels = calls
  BY IdleReaderState DEF Reading, ReaderStates

LEMMA DeliveredState ==
  ASSUME NEW r \in ReaderStates, NEW f \in ResponseMaps
  PROVE  /\ Delivered(r, f) \in ReaderStates /\ Delivered(r, f).pc = r.pc
         /\ Delivered(r, f).responses = f /\ Delivered(r, f).channels = r.channels
  BY DEF Delivered, ReaderStates

LEMMA FailedState ==
  ASSUME NEW r \in ReaderStates, NEW n \in 0..2
  PROVE  /\ Failed(r, n) \in ReaderStates /\ Failed(r, n).pc = r.pc
         /\ Failed(r, n).responses = r.responses /\ Failed(r, n).channels = r.channels
  BY DEF Failed, ReaderStates

LEMMA ReaderVisits ==
  ASSUME NEW r \in ReaderStates, NEW todo \in SUBSET Handles, NEW h \in Handles
  PROVE  /\ Visiting(r, todo, h) \in ReaderStates /\ Visiting(r, todo, h).pc = "oops"
         /\ Visiting(r, todo, h).responses = r.responses
         /\ Visiting(r, todo, h).channels = r.channels
  BY DEF Visiting, ReaderStates

\* The states that a link goes through.
Sent(l, s) == [l EXCEPT !.toServer = s]

Came(l, s) == [l EXCEPT !.toProxy = s]

Served(l, s, t) == [l EXCEPT !.toServer = s, !.toProxy = t]

Broken(l) == [l EXCEPT !.up = FALSE, !.toServer = <<>>]

LEMMA SentState ==
  ASSUME NEW l \in LinkStates, NEW s \in Seq(Commands)
  PROVE  /\ Sent(l, s) \in LinkStates /\ Sent(l, s).up = l.up
         /\ Sent(l, s).toServer = s /\ Sent(l, s).toProxy = l.toProxy
  BY DEF Sent, LinkStates

LEMMA CameState ==
  ASSUME NEW l \in LinkStates, NEW s \in Seq(Commands)
  PROVE  /\ Came(l, s) \in LinkStates /\ Came(l, s).up = l.up
         /\ Came(l, s).toServer = l.toServer /\ Came(l, s).toProxy = s
  BY DEF Came, LinkStates

LEMMA BrokenState ==
  ASSUME NEW l \in LinkStates
  PROVE  /\ Broken(l) \in LinkStates /\ ~Broken(l).up
         /\ Broken(l).toServer = <<>> /\ Broken(l).toProxy = l.toProxy
  <1>1. <<>> \in Seq(Commands)
    BY EmptySeq
  <1> QED BY <1>1 DEF Broken, LinkStates

LEMMA ServedState ==
  ASSUME NEW l \in LinkStates, NEW s \in Seq(Commands), NEW t \in Seq(Commands)
  PROVE  /\ Served(l, s, t) \in LinkStates /\ Served(l, s, t).up = l.up
         /\ Served(l, s, t).toServer = s /\ Served(l, s, t).toProxy = t
  BY DEF Served, LinkStates

(***************************************************************************)
(* Reader and batcher agree.                                               *)
(***************************************************************************)

\* What comes on the socket, and the rest behind it, which is what the sockets
\* and the batcher hold for as long as the link is up and lost after that, are
\* the responses to the reader's batch and then those to the batch in the
\* channel.
InStep(l, out, waiting, queued) ==
  \E rest, a, b \in Seq(Commands) :
    /\ l.up => rest = l.toServer \o out
    /\ l.toProxy \o rest = a \o b
    /\ Matches(a, waiting) /\ Matches(b, queued)

LEMMA CommandsAssociative ==
  \A s, t, u \in Seq(Commands) : (s \o t) \o u = s \o (t \o u)
  BY ConcatAssociative

LEMMA InStepIdle ==
  InStep(IdleLink, <<>>, <<>>, <<>>)
  <1>1. <<>> \in Seq(Commands) /\ Matches(<<>>, <<>>) /\ <<>> \o <<>> = <<>>
    BY EmptyMatch, ConcatEmptySeq
  <1>2. IdleLink.toServer = <<>> /\ IdleLink.toProxy = <<>>
    BY DEF IdleLink
  <1> QED BY <1>1, <1>2 DEF InStep

LEMMA InStepWrite ==
  ASSUME NEW l \in LinkStates, NEW out \in Seq(Commands), NEW w, NEW q, l.up, out # <<>>,
         InStep(l, out, w, q)
  PROVE  InStep(Sent(l, Append(l.toServer, Head(out))), Tail(out), w, q)
  <1> DEFINE ts == Append(l.toServer, Head(out))
             m == Sent(l, ts)
  <1>1. ts \o Tail(out) = l.toServer \o out
    BY LinkFields, Moved
  <1>2. m.toProxy = l.toProxy /\ m.toServer = ts
    <2>1. Head(out) \in Commands /\ l.toServer \in Seq(Commands)
      BY LinkFields, HeadTailProperties
    <2>2. ts \in Seq(Commands)
      BY <2>1, AppendProperties
    <2> HIDE DEF ts
    <2> QED BY <2>2, SentState
  <1> HIDE DEF m, ts
  <1>3. InStep(m, Tail(out), w, q)
    BY <1>1, <1>2 DEF InStep
  <1> QED BY <1>3 DEF m, ts

LEMMA InStepServe ==
  ASSUME NEW l \in LinkStates, NEW out \in Seq(Commands), NEW w, NEW q, l.up,
         l.toServer # <<>>, InStep(l, out, w, q)
  PROVE  InStep(Served(l, Tail(l.toServer), Append(l.toProxy, Head(l.toServer))), out, w, q)
  <1> DEFINE tp == Append(l.toProxy, Head(l.toServer))
             ts == Tail(l.toServer)
             m == Served(l, ts, tp)
  <1>1. PICK a, b \in Seq(Commands) :
          l.toProxy \o (l.toServer \o out) = a \o b /\ Matches(a, w) /\ Matches(b, q)
    BY DEF InStep
  <1>2. l.toServer \in Seq(Commands) /\ l.toProxy \in Seq(Commands)
    BY LinkFields
  <1>3. Head(l.toServer) \in Commands /\ ts \in Seq(Commands)
    BY <1>2, HeadTailProperties
  <1>4. tp \in Seq(Commands) /\ tp \o ts = l.toProxy \o l.toServer
    BY <1>2, <1>3, Moved, AppendProperties
  <1> HIDE DEF tp, ts
  <1>5. ts \o out \in Seq(Commands)
    BY <1>3, ConcatProperties
  <1>6. tp \o (ts \o out) = (tp \o ts) \o out
    BY <1>3, <1>4, CommandsAssociative, Zenon
  <1>7. l.toProxy \o (l.toServer \o out) = (l.toProxy \o l.toServer) \o out
    BY <1>2, CommandsAssociative, Zenon
  <1>8. tp \o (ts \o out) = a \o b
    BY <1>1, <1>4, <1>6, <1>7
  <1>9. m.toServer = ts /\ m.toProxy = tp
    BY <1>3, <1>4, ServedState
  <1> HIDE DEF m
  <1>10. InStep(m, out, w, q)
    BY <1>1, <1>5, <1>8, <1>9 DEF InStep
  <1> QED BY <1>10 DEF tp, ts, m

\* What was still to be answered on a broken link is lost.
LEMMA InStepDown ==
  ASSUME NEW l, NEW m, NEW out, NEW out1, NEW w, NEW q,
         ~m.up, m.toProxy = l.toProxy, InStep(l, out, w, q)
  PROVE  InStep(m, out1, w, q)
  BY DEF InStep

LEMMA InStepDo ==
  ASSUME NEW l \in LinkStates, NEW cmds \in Seq(Commands),
         NEW w, NEW q, InStep(l, <<>>, w, <<>>), Matches(cmds, q)
  PROVE  InStep(l, cmds, w, q)
  <1>1. PICK rest \in Seq(Commands), a \in Seq(Commands), b \in Seq(Commands) :
          /\ l.up => rest = l.toServer \o <<>>
          /\ l.toProxy \o rest = a \o b
          /\ Matches(a, w) /\ Matches(b, <<>>)
    BY DEF InStep
  <1>2. b = <<>> /\ l.toServer \in Seq(Commands) /\ l.toProxy \in Seq(Commands)
    BY <1>1, EmptyMatch, LinkFields
  <1>3. a \o <<>> = a /\ l.toServer \o <<>> = l.toServer
    BY <1>2, ConcatEmptySeq
  <1> DEFINE rest1 == rest \o cmds
  <1>4. rest1 \in Seq(Commands)
    BY ConcatProperties
  <1>5. l.toProxy \o rest1 = (l.toProxy \o rest) \o cmds
    <2>1. \A s \in Seq(Commands) : (s \o rest) \o cmds = s \o (rest \o cmds)
      BY ONLY rest \in Seq(Commands), cmds \in Seq(Commands), CommandsAssociative, Zenon
    <2> QED BY <1>2, <2>1
  <1>6. l.up => rest1 = l.toServer \o cmds
    BY <1>1, <1>3
  <1> HIDE DEF rest1
  <1>7. l.toProxy \o rest1 = a \o cmds
    BY <1>1, <1>2, <1>3, <1>5
  <1> QED BY <1>1, <1>4, <1>6, <1>7 DEF InStep

LEMMA InStepTake ==
  ASSUME NEW l, NEW out, NEW q, InStep(l, out, <<>>, q)
  PROVE  InStep(l, out, q, <<>>)
  <1>1. PICK rest \in Seq(Commands), a \in Seq(Commands), b \in Seq(Commands) :
          /\ l.up => rest = l.toServer \o out
          /\ l.toProxy \o rest = a \o b
          /\ Matches(a, <<>>) /\ Matches(b, q)
    BY DEF InStep
  <1>2. a = <<>> /\ Matches(<<>>, <<>>) /\ <<>> \in Seq(Commands)
    BY <1>1, EmptyMatch
  <1>3. <<>> \o b = b /\ b \o <<>> = b
    BY ConcatEmptySeq
  <1>4. l.toProxy \o rest = b \o <<>>
    BY <1>1, <1>2, <1>3
  <1> QED BY <1>1, <1>2, <1>4 DEF InStep

\* The next response is one of the reader's batch: reader does not panic.
LEMMA InStepRead ==
  ASSUME NEW l \in LinkStates, NEW out, NEW w \in ResponseMaps, NEW q,
         w # <<>>, l.toProxy # <<>>, InStep(l, out, w, q)
  PROVE  LET res == Head(l.toProxy) IN
         /\ res.opaque \in DOMAIN w /\ w[res.opaque] = res.handle
         /\ Without(w, res.opaque) \in ResponseMaps
         /\ InStep(Came(l, Tail(l.toProxy)), out, Without(w, res.opaque), q)
  <1> DEFINE tp == l.toProxy
             res == Head(tp)
  <1>1. PICK rest \in Seq(Commands), a \in Seq(Commands), b \in Seq(Commands) :
          /\ l.up => rest = l.toServer \o out
          /\ tp \o rest = a \o b
          /\ Matches(a, w) /\ Matches(b, q)
    BY DEF InStep
  <1>2. a # <<>> /\ tp \in Seq(Commands)
    BY <1>1, EmptyMatch, LinkFields
  <1>3. tp # <<>>
    OBVIOUS
  <1>4. Tail(tp) \in Seq(Commands) /\ Tail(a) \in Seq(Commands)
    BY <1>2, <1>3, HeadTailProperties
  <1> DEFINE m == Came(l, Tail(tp))
  <1>5. m.toProxy = Tail(tp) /\ m.up = l.up /\ m.toServer = l.toServer
    BY <1>4, CameState
  <1> HIDE DEF tp, m
  <1>6. Head(tp \o rest) = Head(tp) /\ Tail(tp \o rest) = Tail(tp) \o rest
    BY <1>2, <1>3, TailOfConcat
  <1>7. Head(a \o b) = Head(a) /\ Tail(a \o b) = Tail(a) \o b
    BY <1>2, TailOfConcat
  <1>8. Head(a) = res /\ Tail(tp) \o rest = Tail(a) \o b
    BY <1>1, <1>6, <1>7
  <1>9. /\ Head(a).opaque \in DOMAIN w /\ w[Head(a).opaque] = Head(a).handle
        /\ Matches(Tail(a), Without(w, Head(a).opaque))
        /\ Without(w, Head(a).opaque) \in ResponseMaps
    BY <1>1, <1>2, MatchTail
  <1>10. InStep(m, out, Without(w, res.opaque), q)
    <2> DEFINE t == Tail(a)
               x == Without(w, res.opaque)
    <2>1. t \in Seq(Commands) /\ m.toProxy \o rest = t \o b /\ Matches(t, x)
      BY <1>4, <1>5, <1>8, <1>9
    <2>2. m.up => rest = m.toServer \o out
      BY <1>1, <1>5
    <2> HIDE DEF t, x
    <2>3. InStep(m, out, x, q)
      BY <1>1, <2>1, <2>2 DEF InStep
    <2> QED BY <2>3 DEF t, x
  <1> QED BY <1>8, <1>9, <1>10 DEF tp, m

\* The first responses to come have the opaque values of one map, and the rest
\* those of the other.
Splits(coming, w, q) ==
  LET n == Cardinality(DOMAIN w) IN
  /\ Len(coming) = n + Cardinality(DOMAIN q)
  /\ DOMAIN w = {SubSeq(coming, 1, n)[m].opaque : m \in DOMAIN SubSeq(coming, 1, n)}
  /\ DOMAIN q = {SubSeq(coming, n + 1, Len(coming))[m].opaque :
                   m \in DOMAIN SubSeq(coming, n + 1, Len(coming))}

\* On a link that is up, the two parts are told apart by their lengths.
LEMMA InStepSplit ==
  ASSUME NEW l \in LinkStates, NEW out \in Seq(Commands), NEW w, NEW q, l.up,
         InStep(l, out, w, q)
  PROVE  Splits(l.toProxy \o l.toServer \o out, w, q)
  <1> DEFINE coming == l.toProxy \o l.toServer \o out
             n == Cardinality(DOMAIN w)
  <1>1. PICK a, b \in Seq(Commands) :
          l.toProxy \o (l.toServer \o out) = a \o b /\ Matches(a, w) /\ Matches(b, q)
    BY DEF InStep
  <1>2. coming = a \o b
    BY <1>1, LinkFields, CommandsAssociative, Zenon
  <1>3. n = Len(a) /\ Cardinality(DOMAIN q) = Len(b)
    BY <1>1, MatchCount
  <1>4. Len(a \o b) = Len(a) + Len(b) /\ Len(a) \in Nat /\ Len(b) \in Nat
    BY ConcatProperties, LenProperties
  <1>5. SubSeq(a \o b, 1, Len(a)) = a
    BY SubSeqOfConcat1, SubSeqFull, <1>4
  <1>6. SubSeq(a \o b, Len(a) + 1, Len(a) + Len(b)) = b
    BY SubSeqOfConcat2, SubSeqFull, <1>4
  <1>7. SubSeq(coming, 1, n) = a /\ SubSeq(coming, n + 1, Len(coming)) = b
    BY <1>2, <1>3, <1>4, <1>5, <1>6
  <1>8. Len(coming) = n + Cardinality(DOMAIN q)
    BY <1>2, <1>3, <1>4
  <1> HIDE DEF coming, n
  <1>9. /\ DOMAIN w = {SubSeq(coming, 1, n)[m].opaque : m \in DOMAIN SubSeq(coming, 1, n)}
        /\ DOMAIN q = {SubSeq(coming, n + 1, Len(coming))[m].opaque :
                         m \in DOMAIN SubSeq(coming, n + 1, Len(coming))}
    BY <1>1, <1>7 DEF Matches
  <1> QED BY <1>8, <1>9 DEF Splits, coming, n

(***************************************************************************)
(* A connection by itself.                                                 *)
(***************************************************************************)

Collecting == {"select", "block", "do"}

\* The calls that have been submitted and not yet numbered, in their order.
PendingOf(b, ch) == (IF b.pc \in Collecting THEN b.reqs ELSE <<>>) \o ch

NoBatch == [responses |-> <<>>, channels |-> {}]

QueuedOf(bc) == IF bc = <<>> THEN NoBatch ELSE Head(bc)

Pending(k) == PendingOf(batcher[k], reqchan[k])

Queued(k) == QueuedOf(batchchan[k])

BatcherOK(size, b) ==
  /\ b.pc = "select" => Len(b.reqs) < size \/ (size <= 1 /\ Len(b.reqs) <= 1)
  /\ b.pc = "block" => b.reqs = <<>>
  /\ Len(b.reqs) <= IF size <= 1 THEN 2 ELSE size
  /\ b.pc \in Collecting => b.out = <<>>

ReaderOK(r) == r.pc = "take" => r.responses = <<>> /\ r.channels = {}

ConnOK(size, ch, b, bc, r, l) ==
  /\ BatcherOK(size, b) /\ ReaderOK(r)
  /\ b.pc = "oops" \/ r.pc = "oops" => ~l.up
  /\ Len(ch) <= size /\ Len(bc) <= 1
  /\ Len(l.toServer) <= SocketRoom /\ Len(l.toProxy) <= SocketRoom
  /\ InStep(l, b.out, r.responses, QueuedOf(bc).responses)

Sound(k) == ConnOK(BatchSize, reqchan[k], batcher[k], batchchan[k], reader[k], link[k])

AllSound == \A k \in Pool : Sound(k)

\* What panics has been preceded by a fault.
Blame ==
  /\ \A k \in Pool : ~link[k].up => faults > 0
  /\ relay.made /\ pool = 0 => faults > 0
  /\ \A c \in Clients : client[c].pc = "idle" => relay.made
  /\ crashed => faults > 0

\* Every call and every handle is where it was.
SameHeld ==
  \A k \in Pool :
    /\ Pending(k)' = Pending(k) /\ Queued(k)' = Queued(k)
    /\ reader'[k].responses = reader[k].responses
    /\ reader'[k].channels = reader[k].channels

LEMMA BatchSizeType ==
  ASSUME Typed
  PROVE  BatchSize \in Nat
  BY DEF Typed, BatchSize

\* The types of one connection.
LEMMA ConnTypes ==
  ASSUME Typed, NEW k \in Pool
  PROVE  /\ reqchan[k] \in Seq(Requests) /\ batcher[k] \in BatcherStates
         /\ batchchan[k] \in Seq(Batches) /\ reader[k] \in ReaderStates
         /\ link[k] \in LinkStates
         /\ batcher[k].reqs \in Seq(Requests) /\ batcher[k].out \in Seq(Commands)
         /\ reader[k].responses \in ResponseMaps /\ reader[k].channels \in SUBSET Handles
         /\ link[k].toServer \in Seq(Commands) /\ link[k].toProxy \in Seq(Commands)
         /\ batchchan[k] # <<>> => Head(batchchan[k]) \in Batches
  <1>1. /\ reqchan[k] \in Seq(Requests) /\ batcher[k] \in BatcherStates
        /\ batchchan[k] \in Seq(Batches) /\ reader[k] \in ReaderStates
        /\ link[k] \in LinkStates
    BY DEF Typed
  <1>2. batchchan[k] # <<>> => Head(batchchan[k]) \in Batches
    BY <1>1, HeadTailProperties
  <1> QED BY <1>1, <1>2, BatcherFields, ReaderFields, LinkFields

LEMMA QueuedType ==
  ASSUME Typed, NEW k \in Pool
  PROVE  Queued(k).responses \in ResponseMaps /\ Queued(k).channels \in SUBSET Handles
  <1>1. <<>> \in ResponseMaps
    BY EmptyMatch
  <1>2. CASE batchchan[k] = <<>>
    BY <1>1, <1>2 DEF Queued, QueuedOf, NoBatch
  <1>3. CASE batchchan[k] # <<>>
    BY <1>3, ConnTypes, BatchFields DEF Queued, QueuedOf
  <1> QED BY <1>2, <1>3

LEMMA PendingType ==
  ASSUME Typed, NEW k \in Pool
  PROVE  Pending(k) \in Seq(Requests)
  <1>1. batcher[k].reqs \in Seq(Requests) /\ reqchan[k] \in Seq(Requests) /\ <<>> \in Seq(Requests)
    BY ConnTypes, EmptySeq
  <1> QED BY <1>1, ConcatProperties DEF Pending, PendingOf

\* A step of connection k leaves the other connections alone.
OthersSame(k) ==
  /\ relay' = relay
  /\ \A j \in Pool \ {k} :
       /\ reqchan'[j] = reqchan[j] /\ batcher'[j] = batcher[j]
       /\ batchchan'[j] = batchchan[j] /\ reader'[j] = reader[j] /\ link'[j] = link[j]

LEMMA SoundStep ==
  ASSUME AllSound, NEW k \in Pool, OthersSame(k),
         ConnOK(BatchSize, reqchan'[k], batcher'[k], batchchan'[k], reader'[k], link'[k])
  PROVE  AllSound'
  BY DEF AllSound, Sound, OthersSame, BatchSize

LEMMA HeldStep ==
  ASSUME NEW k \in Pool, OthersSame(k),
         Pending(k)' = Pending(k), Queued(k)' = Queued(k),
         reader'[k].responses = reader[k].responses,
         reader'[k].channels = reader[k].channels
  PROVE  SameHeld
  BY DEF SameHeld, OthersSame, Pending, Queued

\* What a batch has grown to when the batcher has received another request.
LEMMA CollectStep ==
  ASSUME NEW size \in Nat, NEW b \in BatcherStates, NEW q \in Requests,
         BatcherOK(size, b), b.pc \in {"select", "block"}
  PROVE  LET reqs == Append(b.reqs, q)
             pc == IF b.pc = "select" /\ Len(reqs) >= size THEN "do" ELSE "select"
             n == Collected(b, reqs, pc)
         IN  /\ n \in BatcherStates /\ n.pc \in {"select", "do"}
             /\ n.reqs = reqs /\ n.out = b.out /\ BatcherOK(size, n)
  <1> DEFINE reqs == Append(b.reqs, q)
             pc == IF b.pc = "select" /\ Len(reqs) >= size THEN "do" ELSE "select"
             n == Collected(b, reqs, pc)
             L == Len(b.reqs)
             M == Len(reqs)
  <1>1. b.reqs \in Seq(Requests)
    BY BatcherFields
  <1>2. reqs \in Seq(Requests) /\ M = L + 1 /\ L \in Nat
    BY <1>1, AppendProperties, LenProperties
  <1>3. /\ b.out = <<>> /\ (b.pc = "block" => L = 0)
        /\ b.pc = "select" => L < size \/ (size <= 1 /\ L <= 1)
    BY EmptySeq DEF BatcherOK, Collecting
  <1> HIDE DEF reqs, L
  <1>4. M \in Nat
    BY <1>2
  <1> HIDE DEF M
  <1>5. pc \in {"select", "do"} /\ (pc = "select" => b.pc = "block" \/ M < size)
    BY <1>4 DEF M
  <1> HIDE DEF pc
  <1>6. n \in BatcherStates /\ n.pc = pc /\ n.reqs = reqs /\ n.out = b.out
    BY <1>2, <1>5, CollectedState
  <1> HIDE DEF n
  <1>7. pc = "select" => M < size \/ (size <= 1 /\ M <= 1)
    BY <1>2, <1>3, <1>5
  <1>8. M <= IF size <= 1 THEN 2 ELSE size
    BY <1>2, <1>3
  <1>9. BatcherOK(size, n)
    BY <1>3, <1>5, <1>6, <1>7, <1>8 DEF BatcherOK, M
  <1> QED BY <1>5, <1>6, <1>9 DEF n, pc, reqs

LEMMA TakeRequestStep ==
  ASSUME Typed, Blame, AllSound, NEW k \in Pool, TakeRequest(k)
  PROVE  Typed' /\ Blame' /\ AllSound' /\ SameHeld /\ client' = client
  <1> DEFINE b == batcher[k]
             ch == reqchan[k]
             reqs == Append(b.reqs, Head(ch))
             pc == IF b.pc = "select" /\ Len(reqs) >= BatchSize THEN "do" ELSE "select"
             n == Collected(b, reqs, pc)
  <1>1. /\ b.pc \in {"select", "block"} /\ ch # <<>>
        /\ reqchan' = [reqchan EXCEPT ![k] = Tail(ch)]
        /\ SetBatcher(k, n)
        /\ UNCHANGED <<relay, pool, client, batchchan, reader, link, faults, crashed>>
    BY DEF TakeRequest, Collect, Collected
  <1>2. b \in BatcherStates /\ ch \in Seq(Requests) /\ b.reqs \in Seq(Requests) /\ b.out \in Seq(Commands)
    BY ConnTypes
  <1>3. Head(ch) \in Requests /\ Tail(ch) \in Seq(Requests) /\ Len(Tail(ch)) = Len(ch) - 1
    BY <1>1, <1>2, HeadTailProperties
  <1>4. ConnOK(BatchSize, ch, b, batchchan[k], reader[k], link[k]) /\ BatchSize \in Nat
    BY BatchSizeType DEF AllSound, Sound
  <1> HIDE DEF b, ch
  <1>5. BatcherOK(BatchSize, b)
    BY <1>4 DEF ConnOK
  <1>6. /\ n \in BatcherStates /\ n.pc \in {"select", "do"}
        /\ n.reqs = reqs /\ n.out = b.out /\ BatcherOK(BatchSize, n)
    BY <1>1, <1>2, <1>3, <1>4, <1>5, CollectStep
  <1> HIDE DEF reqs, pc, n
  <1>7. NowBatcher(k, n)
    BY <1>1, <1>6, NowStates
  <1>8. /\ reqchan' \in [Pool -> Seq(Requests)] /\ reqchan'[k] = Tail(ch)
        /\ \A j \in Pool \ {k} : reqchan'[j] = reqchan[j]
    BY <1>1, <1>3 DEF Typed
  <1>9. Typed'
    BY <1>1, <1>7, <1>8 DEF Typed, NowBatcher
  <1>12. Len(Tail(ch)) <= BatchSize
    <2>1. Len(ch) <= BatchSize /\ Len(ch) \in Nat
      BY <1>2, <1>4, LenProperties DEF ConnOK
    <2> QED BY <1>3, <1>4, <2>1
  <1>13. OthersSame(k)
    BY <1>1, <1>7, <1>8 DEF OthersSame, NowBatcher
  <1>14. AllSound'
    <2>1. ConnOK(BatchSize, Tail(ch), n, batchchan[k], reader[k], link[k])
      BY <1>1, <1>4, <1>6, <1>12 DEF ConnOK
    <2> QED BY <1>1, <1>7, <1>8, <1>13, <2>1, SoundStep DEF NowBatcher
  <1>15. SameHeld
    <2>1. Append(b.reqs, Head(ch)) \o Tail(ch) = b.reqs \o ch
      BY <1>1, <1>2, Moved
    <2>2. PendingOf(n, Tail(ch)) = PendingOf(b, ch)
      BY <1>1, <1>6, <2>1 DEF PendingOf, Collecting, reqs
    <2>3. Pending(k)' = Pending(k)
      BY <1>7, <1>8, <2>2 DEF Pending, NowBatcher, b, ch
    <2>4. Queued(k)' = Queued(k) /\ reader' = reader
      BY <1>1 DEF Queued
    <2> QED BY <1>13, <2>3, <2>4, HeldStep
  <1>16. Blame'
    BY <1>1 DEF Blame
  <1> QED BY <1>1, <1>9, <1>14, <1>15, <1>16

LEMMA TimeoutStep ==
  ASSUME Typed, Blame, AllSound, NEW k \in Pool, Timeout(k)
  PROVE  Typed' /\ Blame' /\ AllSound' /\ SameHeld /\ client' = client
  <1> DEFINE b == batcher[k]
             pc == IF Len(b.reqs) > 0 \/ Len(b.reqs) >= BatchSize THEN "do" ELSE "block"
             n == TimedOut(b, pc)
  <1>1. /\ b.pc = "select" /\ SetBatcher(k, n)
        /\ UNCHANGED <<relay, pool, client, reqchan, batchchan, reader, link, faults, crashed>>
    BY DEF Timeout, TimedOut
  <1>2. b \in BatcherStates
    BY ConnTypes
  <1>3. pc \in {"block", "do"} /\ (pc = "block" => b.reqs = <<>>)
    <2>1. b.reqs \in Seq(Requests) /\ Len(b.reqs) \in Nat
      BY <1>2, BatcherFields, LenProperties
    <2>2. Len(b.reqs) = 0 => b.reqs = <<>>
      BY <2>1, EmptySeq
    <2> HIDE DEF b
    <2> QED BY <2>1, <2>2
  <1>4. ConnOK(BatchSize, reqchan[k], b, batchchan[k], reader[k], link[k])
    BY DEF AllSound, Sound
  <1> HIDE DEF b, pc
  <1>5. n \in BatcherStates /\ n.pc = pc /\ n.reqs = b.reqs /\ n.out = b.out
    BY <1>2, <1>3, TimedOutState
  <1> HIDE DEF n
  <1>6. NowBatcher(k, n)
    BY <1>1, <1>5, NowStates
  <1>7. Typed'
    BY <1>1, <1>6 DEF Typed, NowBatcher
  <1>8. OthersSame(k)
    BY <1>1, <1>6 DEF OthersSame, NowBatcher
  <1>9. AllSound'
    <2>1. BatcherOK(BatchSize, n)
      BY <1>1, <1>3, <1>4, <1>5 DEF ConnOK, BatcherOK, Collecting
    <2>2. ConnOK(BatchSize, reqchan[k], n, batchchan[k], reader[k], link[k])
      BY <1>3, <1>4, <1>5, <2>1 DEF ConnOK
    <2> QED BY <1>1, <1>6, <1>8, <2>2, SoundStep DEF NowBatcher
  <1>10. SameHeld
    <2>1. PendingOf(n, reqchan[k]) = PendingOf(b, reqchan[k])
      BY <1>1, <1>3, <1>5 DEF PendingOf, Collecting
    <2>2. Pending(k)' = Pending(k) /\ Queued(k)' = Queued(k)
      BY <1>1, <1>6, <2>1 DEF Pending, Queued, NowBatcher, b
    <2> QED BY <1>1, <1>8, <2>2, HeldStep
  <1>11. Blame'
    BY <1>1 DEF Blame
  <1> QED BY <1>1, <1>7, <1>9, <1>10, <1>11

\* The pending calls up to a point are a batch now.
Batched(k) ==
  \E f \in ResponseMaps :
    LET reqs == batcher[k].reqs IN
    /\ Pending(k) = reqs \o reqchan[k] /\ Pending(k)' = reqchan[k]
    /\ Queued(k) = NoBatch /\ Queued(k)' = [responses |-> f, channels |-> CallsOf(reqs)]
    /\ Belongs(f, CallsOf(reqs))
    /\ \A i \in DOMAIN reqs : \A key \in 1..Keys(reqs[i]) : Handle(reqs[i], key) \in HandlesOf(f)

LEMMA DoStep ==
  ASSUME Typed, Blame, AllSound, NEW k \in Pool, CallsDiffer(batcher[k].reqs), Do(k)
  PROVE  Typed' /\ Blame' /\ AllSound' /\ Batched(k) /\ OthersSame(k)
         /\ UNCHANGED <<client, reader>>
  <1> DEFINE b == batcher[k]
             reqs == b.reqs
             ch == reqchan[k]
             calls == CallsOf(reqs)
  <1>1. PICK base \in Bases :
          /\ batchchan' = [batchchan EXCEPT ![k] =
               <<[responses |-> Responses(BatchIntoBuffer(reqs, base)), channels |-> calls]>>]
          /\ SetBatcher(k, IF BatchIntoBuffer(reqs, base) = <<>> THEN AfterBatch(b)
                           ELSE Writing(b, BatchIntoBuffer(reqs, base)))
    BY DEF Do, Writing, CallsOf
  <1>2. /\ b.pc = "do" /\ batchchan[k] = <<>>
        /\ UNCHANGED <<relay, pool, client, reqchan, reader, link, faults, crashed>>
    BY DEF Do
  <1> DEFINE cmds == BatchIntoBuffer(reqs, base)
             f == Responses(cmds)
             n == IF cmds = <<>> THEN AfterBatch(b) ELSE Writing(b, cmds)
             batch == [responses |-> f, channels |-> calls]
  <1>3. b \in BatcherStates /\ reqs \in Seq(Requests) /\ ch \in Seq(Requests) /\ link[k] \in LinkStates
    BY ConnTypes
  <1>4. base \in Nat
    BY BatchedAssumption
  <1>5. ConnOK(BatchSize, ch, b, batchchan[k], reader[k], link[k])
    BY DEF AllSound, Sound
  <1>6. CallsDiffer(reqs)
    OBVIOUS
  <1> HIDE DEF reqs, b, ch
  <1>7. /\ cmds \in Seq(Commands) /\ OpaquesDiffer(cmds) /\ HandlesDiffer(cmds)
        /\ CommandsOf(cmds, reqs, Len(reqs))
    BY <1>3, <1>4, <1>6, BatchNumbered
  <1> HIDE DEF cmds
  <1>8. Matches(cmds, f) /\ f \in ResponseMaps
    BY <1>7, ResponsesMatch
  <1>9. /\ Belongs(f, calls) /\ calls \in SUBSET Handles
        /\ \A i \in DOMAIN reqs : \A key \in 1..Keys(reqs[i]) : Handle(reqs[i], key) \in HandlesOf(f)
    BY <1>3, <1>6, <1>7, BatchMap
  <1>10. /\ n \in BatcherStates /\ n.out = cmds
         /\ \/ n.pc = "write" /\ n.reqs = reqs
            \/ n.pc \in {"select", "block"} /\ n.reqs = <<>> /\ n.out = <<>>
    <2>1. CASE cmds = <<>>
      BY <1>3, <2>1, AfterBatchState
    <2>2. CASE cmds # <<>>
      BY <1>3, <1>7, <2>2, WritingState DEF reqs
    <2> QED BY <2>1, <2>2
  <1> HIDE DEF f, n, calls
  <1>11. batch \in Batches
    BY <1>8, <1>9 DEF Batches
  <1>12. /\ batch.responses = f /\ batchchan' = [batchchan EXCEPT ![k] = <<batch>>]
         /\ SetBatcher(k, n)
    BY <1>1 DEF f, calls, cmds, n
  <1> HIDE DEF batch
  <1>13. <<batch>> \in Seq(Batches) /\ Len(<<batch>>) = 1 /\ Head(<<batch>>) = batch /\ <<batch>> # <<>>
    BY <1>11
  <1>14. NowBatcher(k, n)
    BY <1>10, <1>12, NowStates
  <1>15. /\ batchchan' \in [Pool -> Seq(Batches)] /\ batchchan'[k] = <<batch>>
         /\ \A j \in Pool \ {k} : batchchan'[j] = batchchan[j]
    BY <1>12, <1>13 DEF Typed
  <1>16. Typed'
    BY <1>2, <1>14, <1>15 DEF Typed, NowBatcher
  <1>17. OthersSame(k)
    BY <1>2, <1>14, <1>15 DEF OthersSame, NowBatcher
  <1>18. AllSound'
    <2>1. b.out = <<>> /\ Len(reqs) <= IF BatchSize <= 1 THEN 2 ELSE BatchSize
      BY <1>2, <1>5 DEF ConnOK, BatcherOK, Collecting, reqs
    <2>2. BatcherOK(BatchSize, n)
      <3>1. Len(<<>>) = 0 /\ BatchSize \in Nat
        BY BatchSizeType, EmptySeq
      <3> QED BY <1>10, <2>1, <3>1 DEF BatcherOK, Collecting
    <2>3. InStep(link[k], <<>>, reader[k].responses, <<>>)
      BY <1>2, <1>5, <2>1 DEF ConnOK, QueuedOf, NoBatch
    <2>4. InStep(link[k], cmds, reader[k].responses, f)
      BY <1>3, <1>7, <1>8, <2>3, InStepDo
    <2>5. QueuedOf(<<batch>>).responses = f
      BY <1>12, <1>13 DEF QueuedOf
    <2>6. ConnOK(BatchSize, ch, n, <<batch>>, reader[k], link[k])
      BY <1>5, <1>10, <1>13, <2>2, <2>4, <2>5 DEF ConnOK
    <2> QED BY <1>2, <1>14, <1>15, <1>17, <2>6, SoundStep DEF NowBatcher, ch
  <1>19. Batched(k)
    <2>1. Pending(k) = reqs \o ch
      BY <1>2 DEF Pending, PendingOf, Collecting, b, ch, reqs
    <2>2. <<>> \o ch = ch
      BY <1>3, ConcatEmptySeq
    <2>3. Pending(k)' = ch
      BY <1>2, <1>10, <1>14, <2>2 DEF Pending, PendingOf, Collecting, NowBatcher, ch
    <2>4. Queued(k) = NoBatch /\ Queued(k)' = batch
      BY <1>2, <1>13, <1>15 DEF Queued, QueuedOf
    <2> QED BY <1>8, <1>9, <2>1, <2>3, <2>4 DEF Batched, reqs, b, ch, batch, calls
  <1>20. Blame'
    BY <1>2 DEF Blame
  <1> QED BY <1>2, <1>16, <1>17, <1>18, <1>19, <1>20

LEMMA WriteStep ==
  ASSUME Typed, Blame, AllSound, NEW k \in Pool, Write(k)
  PROVE  Typed' /\ Blame' /\ AllSound' /\ SameHeld /\ client' = client
  <1> DEFINE b == batcher[k]
             l == link[k]
             ts == Append(l.toServer, Head(b.out))
             m == Sent(l, ts)
             n == IF Len(b.out) = 1 THEN AfterBatch(b) ELSE Written(b)
  <1>1. /\ b.pc = "write" /\ b.out # <<>> /\ l.up /\ Len(l.toServer) < SocketRoom
        /\ link' = [link EXCEPT ![k] = m] /\ SetBatcher(k, n)
        /\ UNCHANGED <<relay, pool, client, reqchan, batchchan, reader, faults, crashed>>
    BY DEF Write, Sent, Written
  <1>2. /\ b \in BatcherStates /\ l \in LinkStates /\ b.out \in Seq(Commands)
        /\ l.toServer \in Seq(Commands) /\ reqchan[k] \in Seq(Requests)
    BY ConnTypes
  <1>3. ConnOK(BatchSize, reqchan[k], b, batchchan[k], reader[k], l)
    BY DEF AllSound, Sound
  <1>4. Head(b.out) \in Commands /\ (Len(b.out) = 1 => Tail(b.out) = <<>>)
    <2>1. Head(b.out) \in Commands /\ Tail(b.out) \in Seq(Commands) /\ Len(Tail(b.out)) = Len(b.out) - 1
      BY <1>1, <1>2, HeadTailProperties
    <2>2. Len(b.out) = 1 => Len(Tail(b.out)) = 0
      BY <2>1
    <2> HIDE DEF b
    <2> QED BY <2>1, <2>2, EmptySeq
  <1>5. ts \in Seq(Commands) /\ Len(ts) = Len(l.toServer) + 1
    BY <1>2, <1>4, AppendProperties
  <1>6. Len(ts) <= SocketRoom
    BY <1>1, <1>2, <1>5, LenProperties, BatchedAssumption
  <1> HIDE DEF b, l, ts
  <1>7. m \in LinkStates /\ m.up = l.up /\ m.toServer = ts /\ m.toProxy = l.toProxy
    BY <1>2, <1>5, SentState
  <1>8. /\ n \in BatcherStates /\ n.out = Tail(b.out)
        /\ \/ n.pc \in {"select", "block"} /\ n.reqs = <<>>
           \/ n.pc = "write" /\ n.reqs = b.reqs
    <2>1. CASE Len(b.out) = 1
      BY <1>2, <1>4, <2>1, AfterBatchState
    <2>2. CASE Len(b.out) # 1
      BY <1>1, <1>2, <2>2, WrittenState
    <2> QED BY <2>1, <2>2
  <1>9. n.pc \in {"select", "block"} => n.out = <<>>
    <2>1. Len(b.out) # 1 => n.pc = "write"
      BY <1>1, <1>2, WrittenState
    <2> QED BY <1>4, <1>8, <2>1
  <1>10. InStep(m, n.out, reader[k].responses, QueuedOf(batchchan[k]).responses)
    BY <1>1, <1>2, <1>3, <1>8, InStepWrite DEF ConnOK, ts
  <1> HIDE DEF n, m
  <1>11. NowBatcher(k, n) /\ NowLink(k, m)
    BY <1>1, <1>7, <1>8, NowStates
  <1>12. Typed'
    BY <1>1, <1>11 DEF Typed, NowBatcher, NowLink
  <1>13. OthersSame(k)
    BY <1>1, <1>11 DEF OthersSame, NowBatcher, NowLink
  <1>14. AllSound'
    <2>1. BatcherOK(BatchSize, n)
      <3>1. Len(<<>>) = 0 /\ BatchSize \in Nat
        BY BatchSizeType, EmptySeq
      <3>2. Len(b.reqs) <= IF BatchSize <= 1 THEN 2 ELSE BatchSize
        BY <1>3 DEF ConnOK, BatcherOK
      <3> QED BY <1>8, <1>9, <3>1, <3>2 DEF BatcherOK, Collecting
    <2>2. ConnOK(BatchSize, reqchan[k], n, batchchan[k], reader[k], m)
      BY <1>1, <1>3, <1>6, <1>7, <1>8, <1>10, <2>1 DEF ConnOK
    <2> QED BY <1>1, <1>11, <1>13, <2>2, SoundStep DEF NowBatcher, NowLink
  <1>15. SameHeld
    <2>1. PendingOf(n, reqchan[k]) = PendingOf(b, reqchan[k])
      BY <1>1, <1>8 DEF PendingOf, Collecting
    <2>2. Pending(k)' = Pending(k) /\ Queued(k)' = Queued(k)
      BY <1>1, <1>11, <2>1 DEF Pending, Queued, NowBatcher, b
    <2> QED BY <1>1, <1>13, <2>2, HeldStep
  <1>16. Blame'
    <2>1. \A j \in Pool : ~link'[j].up => ~link[j].up
      BY <1>7, <1>11 DEF NowLink, l
    <2> QED BY <1>1, <2>1 DEF Blame
  <1> QED BY <1>1, <1>12, <1>14, <1>15, <1>16

\* oops has a handle to send to, or is done.
LEMMA VisitCases ==
  ASSUME NEW g, NEW left \in SUBSET Handles, NEW done, NEW n \in Visit(g, left, done)
  PROVE  n = done \/ \E todo \in SUBSET Handles, h \in Handles : n = Visiting(g, todo, h)
  <1>1. CASE left = {}
    BY <1>1 DEF Visit
  <1>2. CASE left # {}
    <2>1. PICK h \in left : n = Visiting(g, left \ {h}, h)
      BY <1>2 DEF Visit, Visiting
    <2> QED BY <2>1
  <1> QED BY <1>1, <1>2

\* A caller is sent an error.
ErrorSent == \E c \in Clients : client[c].pc = "wait" /\ Becomes(c, Erred(client[c]))

LEMMA ErrorSentBy ==
  ASSUME Typed, NEW h \in Handles, ReceivesError(h)
  PROVE  ErrorSent
  <1>1. h.client \in Clients /\ client[h.client].pc = "wait"
    BY HandleFields DEF ReceivesError, Waits
  <1>2. Becomes(h.client, Erred(client[h.client]))
    BY ReceivesErrorEffect
  <1> QED BY <1>1, <1>2 DEF ErrorSent

\* A client with the same call on the same connection keeps its bounds.
LEMMA BoundsKept ==
  ASSUME NEW r, NEW s, NEW c, NEW size,
         ClientBounds(r, c, size), s.call = r.call, s.conn = r.conn, s.op = r.op,
         s.pc \in {"submit", "wait"} => r.pc \in {"submit", "wait"}
  PROVE  ClientBounds(s, c, size)
  BY DEF ClientBounds

LEMMA BecomesTyped ==
  ASSUME Typed, NEW c \in Clients, NEW r, Becomes(c, r), ClientBounds(r, c, pool)
  PROVE  /\ client' \in [Clients -> ClientStates]
         /\ \A d \in Clients : ClientBounds(client'[d], d, pool)
  BY DEF Typed, Becomes

LEMMA ErrorSentTyped ==
  ASSUME Typed, ErrorSent
  PROVE  /\ client' \in [Clients -> ClientStates]
         /\ \A d \in Clients : ClientBounds(client'[d], d, pool)
         /\ \A d \in Clients : client'[d].pc = "idle" => client[d].pc = "idle"
  <1>1. PICK c \in Clients : client[c].pc = "wait" /\ Becomes(c, Erred(client[c]))
    BY DEF ErrorSent
  <1> DEFINE r == client[c]
             s == Erred(r)
  <1>2. r \in ClientStates /\ ClientBounds(r, c, pool)
    BY DEF Typed
  <1>3. /\ s.pc = PcAfter(r) /\ s.call = r.call /\ s.conn = r.conn /\ s.op = r.op
    BY <1>2, ErredState
  <1>4. r.pc = "wait" /\ Becomes(c, s)
    BY <1>1
  <1> HIDE DEF r, s
  <1>5. ClientBounds(s, c, pool)
    BY <1>2, <1>3, <1>4, BoundsKept
  <1>6. s.pc # "idle"
    BY <1>3 DEF PcAfter
  <1> QED BY <1>4, <1>5, <1>6, BecomesTyped DEF Becomes

\* On a broken link the batcher may end the batch at any time, or go from handle
\* to handle.
LEMMA BatcherGivesUp ==
  ASSUME Typed, AllSound, NEW k \in Pool, batcher[k].pc \in {"write", "oops"}, ~link[k].up,
         NEW left \in SUBSET Handles,
         \E next \in Visit(batcher[k], left, AfterBatch(batcher[k])) : SetBatcher(k, next),
         UNCHANGED <<relay, reqchan, batchchan, reader, link>>
  PROVE  /\ batcher' \in [Pool -> BatcherStates] /\ AllSound' /\ SameHeld
  <1> DEFINE b == batcher[k]
  <1>1. PICK n \in Visit(b, left, AfterBatch(b)) : SetBatcher(k, n)
    OBVIOUS
  <1>2. b \in BatcherStates
    BY ConnTypes
  <1>3. ConnOK(BatchSize, reqchan[k], b, batchchan[k], reader[k], link[k])
    BY DEF AllSound, Sound
  <1>4. b.pc \notin Collecting
    BY DEF Collecting
  <1> HIDE DEF b
  <1>5. /\ n \in BatcherStates
        /\ \/ n.pc \in {"select", "block"} /\ n.reqs = <<>> /\ n.out = <<>>
           \/ n.pc = "oops" /\ n.reqs = b.reqs
    <2>1. n = AfterBatch(b) \/ \E todo \in SUBSET Handles, h \in Handles : n = Visiting(b, todo, h)
      BY VisitCases
    <2>2. CASE n = AfterBatch(b)
      BY <1>2, <2>2, AfterBatchState
    <2>3. CASE \E todo \in SUBSET Handles, h \in Handles : n = Visiting(b, todo, h)
      BY <1>2, <2>3, BatcherVisits
    <2> QED BY <2>1, <2>2, <2>3
  <1>6. NowBatcher(k, n)
    BY <1>1, <1>5, NowStates
  <1>7. OthersSame(k)
    BY <1>6 DEF OthersSame, NowBatcher
  <1>8. AllSound'
    <2>1. BatcherOK(BatchSize, n)
      <3>1. Len(<<>>) = 0 /\ BatchSize \in Nat
        BY BatchSizeType, EmptySeq
      <3>2. Len(b.reqs) <= IF BatchSize <= 1 THEN 2 ELSE BatchSize
        BY <1>3 DEF ConnOK, BatcherOK
      <3> QED BY <1>5, <3>1, <3>2 DEF BatcherOK, Collecting
    <2>2. InStep(link[k], n.out, reader[k].responses, QueuedOf(batchchan[k]).responses)
      BY <1>3, InStepDown DEF ConnOK
    <2>3. ConnOK(BatchSize, reqchan[k], n, batchchan[k], reader[k], link[k])
      BY <1>3, <2>1, <2>2 DEF ConnOK
    <2> QED BY <1>6, <1>7, <2>3, SoundStep DEF NowBatcher
  <1>9. SameHeld
    <2>1. PendingOf(n, reqchan[k]) = PendingOf(b, reqchan[k])
      BY <1>4, <1>5 DEF PendingOf, Collecting
    <2>2. Pending(k)' = Pending(k) /\ Queued(k)' = Queued(k)
      BY <1>6, <2>1 DEF Pending, Queued, NowBatcher, b
    <2> QED BY <1>7, <2>2, HeldStep
  <1> QED BY <1>6, <1>8, <1>9 DEF NowBatcher

LEMMA UnansweredType ==
  ASSUME Typed, NEW k \in Pool
  PROVE  Unanswered(k) \in SUBSET Handles
  BY ConnTypes, BatchFields, HandlesOfType DEF Unanswered

LEMMA WriteFailsStep ==
  ASSUME Typed, Blame, AllSound, NEW k \in Pool, WriteFails(k)
  PROVE  Typed' /\ Blame' /\ AllSound' /\ SameHeld /\ client' = client
  <1>1. /\ batcher[k].pc = "write" /\ ~link[k].up
        /\ UNCHANGED <<relay, pool, client, reqchan, batchchan, reader, link, faults, crashed>>
        /\ \E next \in Visit(batcher[k], Unanswered(k), AfterBatch(batcher[k])) : SetBatcher(k, next)
    BY DEF WriteFails
  <1>2. batcher' \in [Pool -> BatcherStates] /\ AllSound' /\ SameHeld
    <2>1. Unanswered(k) \in SUBSET Handles
      BY UnansweredType
    <2> DEFINE left == Unanswered(k)
    <2> HIDE DEF left
    <2>2. left \in SUBSET Handles /\ \E next \in Visit(batcher[k], left, AfterBatch(batcher[k])) : SetBatcher(k, next)
      BY <1>1, <2>1 DEF left
    <2> QED BY <1>1, <2>2, BatcherGivesUp
  <1> QED BY <1>1, <1>2 DEF Typed, Blame

LEMMA BatcherOopsStep ==
  ASSUME Typed, Blame, AllSound, NEW k \in Pool, BatcherOops(k)
  PROVE  Typed' /\ Blame' /\ AllSound' /\ SameHeld /\ ErrorSent
  <1> DEFINE left == batcher[k].todo \cap Unanswered(k)
  <1>1. /\ batcher[k].pc = "oops"
        /\ UNCHANGED <<relay, pool, reqchan, batchchan, reader, link, faults, crashed>>
        /\ \E next \in Visit(batcher[k], left, AfterBatch(batcher[k])) : SetBatcher(k, next)
        /\ \E h \in batcher[k].sending : ReceivesError(h)
    BY DEF BatcherOops
  <1>2. ~link[k].up
    BY <1>1 DEF AllSound, Sound, ConnOK
  <1>3. left \in SUBSET Handles /\ batcher[k].sending \in SUBSET Handles
    BY UnansweredType, ConnTypes, BatcherFields
  <1> HIDE DEF left
  <1>4. ErrorSent
    BY <1>1, <1>3, ErrorSentBy
  <1>5. batcher' \in [Pool -> BatcherStates] /\ AllSound' /\ SameHeld
    BY <1>1, <1>2, <1>3, BatcherGivesUp
  <1>6. Typed'
    BY <1>1, <1>4, <1>5, ErrorSentTyped DEF Typed
  <1>7. Blame'
    BY <1>1, <1>4, ErrorSentTyped DEF Blame
  <1> QED BY <1>4, <1>5, <1>6, <1>7

\* The batch in the channel becomes the reader's.
Taken(k) ==
  /\ reader[k].responses = <<>> /\ reader[k].channels = {}
  /\ reader'[k].responses = Queued(k).responses /\ reader'[k].channels = Queued(k).channels
  /\ Pending(k)' = Pending(k) /\ Queued(k)' = NoBatch

LEMMA TakeBatchStep ==
  ASSUME Typed, Blame, AllSound, NEW k \in Pool, TakeBatch(k)
  PROVE  Typed' /\ Blame' /\ AllSound' /\ Taken(k) /\ OthersSame(k) /\ client' = client
  <1> DEFINE b == Head(batchchan[k])
             n == Reading(b.responses, b.channels)
  <1>1. /\ reader[k].pc = "take" /\ batchchan[k] # <<>>
        /\ reader' = [reader EXCEPT ![k] = n] /\ batchchan' = [batchchan EXCEPT ![k] = <<>>]
        /\ UNCHANGED <<relay, pool, client, reqchan, batcher, link, faults, crashed>>
    BY DEF TakeBatch, Reading
  <1>2. b \in Batches /\ Queued(k) = b
    BY <1>1, ConnTypes DEF Queued, QueuedOf
  <1>3. ConnOK(BatchSize, reqchan[k], batcher[k], batchchan[k], reader[k], link[k])
    BY DEF AllSound, Sound
  <1>4. reader[k].responses = <<>> /\ reader[k].channels = {}
    BY <1>1, <1>3 DEF ConnOK, ReaderOK
  <1> HIDE DEF b
  <1>5. /\ n \in ReaderStates /\ n.pc = "read" /\ n.responses = b.responses
        /\ n.channels = b.channels
    BY <1>2, BatchFields, ReadingState
  <1> HIDE DEF n
  <1>6. NowReader(k, n)
    BY <1>1, <1>5, NowStates
  <1>7. <<>> \in Seq(Batches) /\ Len(<<>>) = 0
    BY EmptySeq
  <1>8. /\ batchchan' \in [Pool -> Seq(Batches)] /\ batchchan'[k] = <<>>
        /\ \A j \in Pool \ {k} : batchchan'[j] = batchchan[j]
    BY <1>1, <1>7 DEF Typed
  <1>9. Typed'
    BY <1>1, <1>6, <1>8 DEF Typed, NowReader
  <1>10. OthersSame(k)
    BY <1>1, <1>6, <1>8 DEF OthersSame, NowReader
  <1>11. AllSound'
    <2>1. InStep(link[k], batcher[k].out, <<>>, b.responses)
      BY <1>2, <1>3, <1>4 DEF ConnOK, Queued
    <2>2. InStep(link[k], batcher[k].out, n.responses, QueuedOf(<<>>).responses)
      BY <1>5, <2>1, InStepTake DEF QueuedOf, NoBatch
    <2>3. ReaderOK(n)
      BY <1>5 DEF ReaderOK
    <2>4. ConnOK(BatchSize, reqchan[k], batcher[k], <<>>, n, link[k])
      BY <1>3, <1>5, <1>7, <2>2, <2>3 DEF ConnOK
    <2> QED BY <1>1, <1>6, <1>8, <1>10, <2>4, SoundStep DEF NowReader
  <1>12. Taken(k)
    BY <1>1, <1>2, <1>4, <1>5, <1>6, <1>8 DEF Taken, Pending, Queued, QueuedOf, NowReader
  <1>13. Blame'
    BY <1>1 DEF Blame
  <1> QED BY <1>1, <1>9, <1>10, <1>11, <1>12, <1>13

\* A response is received on the channel of its own handle.
Delivery(k) ==
  \E o \in DOMAIN reader[k].responses :
    LET h == reader[k].responses[o] IN
    /\ h \in Handles /\ Waits(h)
    /\ Becomes(h.client, Answered(client[h.client], [handle |-> h, of |-> h]))
    /\ reader'[k].responses = Without(reader[k].responses, o)
    /\ reader'[k].channels = reader[k].channels
    /\ Pending(k)' = Pending(k) /\ Queued(k)' = Queued(k)

LEMMA ReadStep ==
  ASSUME Typed, Blame, AllSound, NEW k \in Pool, Read(k)
  PROVE  Typed' /\ Blame' /\ AllSound' /\ Delivery(k) /\ OthersSame(k)
  <1> DEFINE l == link[k]
             r == reader[k]
             w == r.responses
             res == Head(l.toProxy)
             o == res.opaque
             h == w[o]
             f == Without(w, o)
             m == Came(l, Tail(l.toProxy))
             n == Delivered(r, f)
  <1>1. /\ r.pc = "read" /\ w # <<>> /\ l.toProxy # <<>>
        /\ link' = [link EXCEPT ![k] = m]
        /\ UNCHANGED <<relay, pool, reqchan, batchchan, faults>>
    BY DEF Read, Came
  <1>2. l \in LinkStates /\ r \in ReaderStates /\ w \in ResponseMaps /\ l.toProxy \in Seq(Commands)
    BY ConnTypes
  <1>3. ConnOK(BatchSize, reqchan[k], batcher[k], batchchan[k], r, l)
    BY DEF AllSound, Sound
  <1>4. InStep(l, batcher[k].out, w, QueuedOf(batchchan[k]).responses)
    BY <1>3 DEF ConnOK
  <1>5. Tail(l.toProxy) \in Seq(Commands) /\ Len(Tail(l.toProxy)) = Len(l.toProxy) - 1
    BY <1>1, <1>2, HeadTailProperties
  <1>6. o \in DOMAIN w /\ h = res.handle /\ f \in ResponseMaps
        /\ InStep(m, batcher[k].out, f, QueuedOf(batchchan[k]).responses)
    <2> HIDE DEF l, r, w
    <2> QED BY <1>1, <1>2, <1>4, InStepRead DEF w
  <1>7. /\ Receives(h, res.handle) /\ reader' = [reader EXCEPT ![k] = n]
        /\ UNCHANGED <<batcher, crashed>>
    BY <1>6 DEF Read, Delivered
  <1>8. h \in Handles
    <2>1. HandlesOf(w) \in SUBSET Handles
      BY <1>2, HandlesOfType
    <2> QED BY <1>6, <2>1 DEF HandlesOf
  <1> HIDE DEF res, h, f, l, r
  <1>9. m \in LinkStates /\ m.up = l.up /\ m.toServer = l.toServer /\ m.toProxy = Tail(l.toProxy)
    BY <1>2, <1>5, CameState
  <1>10. n \in ReaderStates /\ n.pc = r.pc /\ n.responses = f /\ n.channels = r.channels
    BY <1>2, <1>6, DeliveredState
  <1> HIDE DEF m, n
  <1>11. NowReader(k, n) /\ NowLink(k, m)
    BY <1>1, <1>7, <1>9, <1>10, NowStates
  <1> DEFINE c == h.client
             s == Answered(client[c], [handle |-> h, of |-> h])
  <1>12. Waits(h) /\ Becomes(c, s)
    BY <1>6, <1>7, <1>8, ReceivesEffect DEF Receives
  <1>13. c \in Clients /\ client[c].pc = "wait"
    BY <1>8, <1>12, HandleFields DEF Waits
  <1>14. s.call = client[c].call /\ s.conn = client[c].conn /\ s.op = client[c].op
         /\ s.pc = PcAfter(client[c])
    <2>1. client[c] \in ClientStates /\ [handle |-> h, of |-> h] \in Answers
      BY <1>8, <1>13 DEF Typed, Answers
    <2> QED BY <2>1, AnsweredState
  <1> HIDE DEF s
  <1>15. ClientBounds(s, c, pool)
    <2>1. ClientBounds(client[c], c, pool)
      BY <1>13 DEF Typed
    <2> QED BY <1>13, <1>14, <2>1, BoundsKept
  <1>16. Typed'
    <2>1. client' \in [Clients -> ClientStates] /\ \A d \in Clients : ClientBounds(client'[d], d, pool)
      BY <1>12, <1>13, <1>15, BecomesTyped
    <2> QED BY <1>1, <1>7, <1>11, <2>1 DEF Typed, NowReader, NowLink
  <1>17. OthersSame(k)
    BY <1>1, <1>7, <1>11 DEF OthersSame, NowReader, NowLink
  <1>18. AllSound'
    <2>1. Len(m.toProxy) <= SocketRoom
      <3>1. Len(l.toProxy) <= SocketRoom /\ Len(l.toProxy) \in Nat
        BY <1>2, <1>3, LenProperties DEF ConnOK
      <3> QED BY <1>5, <1>9, <3>1, BatchedAssumption
    <2>2. ReaderOK(n)
      BY <1>1, <1>10 DEF ReaderOK
    <2>3. ConnOK(BatchSize, reqchan[k], batcher[k], batchchan[k], n, m)
      BY <1>3, <1>6, <1>9, <1>10, <2>1, <2>2 DEF ConnOK
    <2> QED BY <1>1, <1>7, <1>11, <1>17, <2>3, SoundStep DEF NowReader, NowLink
  <1>19. Delivery(k)
    <2>1. Pending(k)' = Pending(k) /\ Queued(k)' = Queued(k)
      BY <1>1, <1>7 DEF Pending, Queued
    <2>2. reader'[k].responses = Without(reader[k].responses, o) /\ reader'[k].channels = reader[k].channels
      BY <1>10, <1>11 DEF NowReader, f, r
    <2> QED BY <1>6, <1>8, <1>12, <2>1, <2>2 DEF Delivery, h, r, s
  <1>20. Blame'
    <2>1. \A j \in Pool : ~link'[j].up => ~link[j].up
      BY <1>9, <1>11 DEF NowLink, l
    <2>2. \A d \in Clients : client'[d].pc = "idle" => client[d].pc = "idle"
      BY <1>12, <1>14 DEF Becomes, PcAfter
    <2> QED BY <1>1, <1>7, <2>1, <2>2 DEF Blame
  <1> QED BY <1>16, <1>17, <1>18, <1>19, <1>20

\* After a panic the requests in the channels are all that is pending, and the
\* batches are where they were.
Panicked ==
  /\ \A c \in Clients : client'[c] = GoesTo(client[c], "closed")
  /\ \A k \in Pool :
       /\ Pending(k)' = reqchan[k] /\ Queued(k)' = Queued(k)
       /\ reader'[k].responses = reader[k].responses
       /\ reader'[k].channels = reader[k].channels

LEMMA PanicStep ==
  ASSUME Typed, Blame, AllSound, Panic, faults > 0,
         UNCHANGED <<relay, pool, reqchan, batchchan, link, faults>>
  PROVE  Typed' /\ Blame' /\ AllSound' /\ Panicked
  <1>1. /\ client' \in [Clients -> ClientStates]
        /\ \A c \in Clients : client'[c] = GoesTo(client[c], "closed")
        /\ batcher' \in [Pool -> BatcherStates] /\ reader' \in [Pool -> ReaderStates]
        /\ \A k \in Pool :
             /\ batcher'[k].pc = "dead" /\ batcher'[k].reqs = batcher[k].reqs
             /\ batcher'[k].out = batcher[k].out
             /\ reader'[k].pc = "dead" /\ reader'[k].responses = reader[k].responses
             /\ reader'[k].channels = reader[k].channels
    BY PanicEffect
  <1>2. ASSUME NEW c \in Clients
        PROVE  client'[c].pc = "closed" /\ ClientBounds(client'[c], c, pool)
    <2>1. client[c] \in ClientStates /\ ClientBounds(client[c], c, pool)
      BY DEF Typed
    <2> DEFINE s == GoesTo(client[c], "closed")
    <2>2. s.pc = "closed" /\ s.call = client[c].call /\ s.conn = client[c].conn /\ s.op = client[c].op
      BY <2>1, GoesToState
    <2>3. client'[c] = s
      BY <1>1
    <2> HIDE DEF s
    <2>4. ClientBounds(s, c, pool)
      BY <2>1, <2>2, BoundsKept
    <2> QED BY <2>2, <2>3, <2>4
  <1>3. Typed'
    BY <1>1, <1>2 DEF Typed
  <1>4. Blame'
    BY <1>2 DEF Blame
  <1>5. ASSUME NEW k \in Pool PROVE Sound(k)'
    <2> DEFINE b == batcher'[k]
               r == reader'[k]
    <2>1. ConnOK(BatchSize, reqchan[k], batcher[k], batchchan[k], reader[k], link[k])
      BY DEF AllSound, Sound
    <2>2. /\ b.pc = "dead" /\ b.reqs = batcher[k].reqs /\ b.out = batcher[k].out
          /\ r.pc = "dead" /\ r.responses = reader[k].responses
      BY <1>1
    <2> HIDE DEF b, r
    <2>3. BatcherOK(BatchSize, b) /\ ReaderOK(r)
      BY <2>1, <2>2 DEF ConnOK, BatcherOK, ReaderOK, Collecting
    <2>4. ConnOK(BatchSize, reqchan[k], b, batchchan[k], r, link[k])
      BY <2>1, <2>2, <2>3 DEF ConnOK
    <2> QED BY <2>4 DEF Sound, BatchSize, b, r
  <1>6. ASSUME NEW k \in Pool PROVE Pending(k)' = reqchan[k] /\ Queued(k)' = Queued(k)
    <2>1. <<>> \o reqchan[k] = reqchan[k]
      BY ConnTypes, ConcatEmptySeq
    <2> QED BY <1>1, <2>1 DEF Pending, PendingOf, Queued, Collecting
  <1> QED BY <1>1, <1>3, <1>4, <1>5, <1>6 DEF AllSound, Panicked

LEMMA MapRaceStep ==
  ASSUME Typed, Blame, AllSound, NEW k \in Pool, MapRace(k)
  PROVE  Typed' /\ Blame' /\ AllSound' /\ Panicked
  <1>1. /\ batcher[k].pc = "oops" /\ Panic
        /\ UNCHANGED <<relay, pool, reqchan, batchchan, link, faults>>
    BY DEF MapRace
  <1>2. faults > 0
    BY <1>1 DEF AllSound, Sound, ConnOK, Blame
  <1> QED BY <1>1, <1>2, PanicStep

\* The channels are closed, and the calls that wait on them end.
Closed(k) ==
  /\ reader[k].responses = <<>> /\ reader'[k].responses = <<>> /\ reader'[k].channels = {}
  /\ Pending(k)' = Pending(k) /\ Queued(k)' = Queued(k)
  /\ \A c \in Clients :
       client'[c] = IF /\ client[c].pc = "wait"
                       /\ [client |-> c, call |-> client[c].call, key |-> 0] \in reader[k].channels
                    THEN GoesTo(client[c], "done") ELSE client[c]

LEMMA CloseChannelsStep ==
  ASSUME Typed, Blame, AllSound, NEW k \in Pool, CloseChannels(k)
  PROVE  Typed' /\ Blame' /\ AllSound' /\ (Panicked \/ (Closed(k) /\ OthersSame(k)))
  <1>1. /\ reader[k].responses = <<>>
        /\ UNCHANGED <<relay, pool, reqchan, batchchan, link, faults>>
    BY DEF CloseChannels
  <1>2. CASE batcher[k].pc = "oops" /\ batchchan[k] = <<>>
    <2>1. Panic
      BY <1>2 DEF CloseChannels
    <2>2. faults > 0
      BY <1>2 DEF AllSound, Sound, ConnOK, Blame
    <2>3. Typed' /\ Blame' /\ AllSound' /\ Panicked
      BY <1>1, <2>1, <2>2, PanicStep
    <2> QED BY <2>3
  <1>3. CASE ~(batcher[k].pc = "oops" /\ batchchan[k] = <<>>)
    <2> DEFINE ends(c) == /\ client[c].pc = "wait"
                          /\ [client |-> c, call |-> client[c].call, key |-> 0] \in reader[k].channels
    <2>1. /\ reader' = [reader EXCEPT ![k] = IdleReader]
          /\ client' = [c \in Clients |-> IF ends(c) THEN GoesTo(client[c], "done") ELSE client[c]]
          /\ UNCHANGED <<batcher, crashed>>
      BY <1>3 DEF CloseChannels, GoesTo
    <2>2. NowReader(k, IdleReader)
      BY <2>1, IdleReaderState, NowStates
    <2>3. \A c \in Clients : client'[c] = IF ends(c) THEN GoesTo(client[c], "done") ELSE client[c]
      BY <2>1
    <2> DEFINE E(c) == ends(c)
    <2>4. \A c \in Clients : E(c) => client[c].pc = "wait"
      OBVIOUS
    <2> HIDE DEF E
    <2>5. ASSUME NEW c \in Clients
          PROVE  /\ client'[c] \in ClientStates /\ ClientBounds(client'[c], c, pool)
                 /\ client'[c].pc = "idle" => client[c].pc = "idle"
      <3>1. client[c] \in ClientStates /\ ClientBounds(client[c], c, pool)
        BY DEF Typed
      <3> DEFINE s == GoesTo(client[c], "done")
      <3>2. /\ s \in ClientStates /\ s.pc = "done" /\ s.call = client[c].call
            /\ s.conn = client[c].conn /\ s.op = client[c].op
        BY <3>1, GoesToState
      <3>3. client'[c] = s \/ client'[c] = client[c]
        BY <2>3
      <3> HIDE DEF s
      <3>4. ClientBounds(s, c, pool)
        BY <3>1, <3>2, BoundsKept
      <3> QED BY <3>1, <3>2, <3>3, <3>4
    <2>6. Typed'
      <3>1. client' = [c \in Clients |-> client'[c]]
        BY <2>1
      <3>2. client' \in [Clients -> ClientStates]
        BY <2>5, <3>1
      <3> QED BY <1>1, <2>1, <2>2, <2>5, <3>2 DEF Typed, NowReader
    <2>7. Blame'
      BY <1>1, <2>1, <2>5 DEF Blame
    <2>8. OthersSame(k)
      BY <1>1, <2>1, <2>2 DEF OthersSame, NowReader
    <2>9. AllSound'
      <3>1. ConnOK(BatchSize, reqchan[k], batcher[k], batchchan[k], reader[k], link[k])
        BY DEF AllSound, Sound
      <3>2. ConnOK(BatchSize, reqchan[k], batcher[k], batchchan[k], IdleReader, link[k])
        BY <1>1, <3>1, IdleReaderState DEF ConnOK, ReaderOK
      <3> QED BY <1>1, <2>1, <2>2, <2>8, <3>2, SoundStep DEF NowReader
    <2>10. Closed(k)
      <3>1. Pending(k)' = Pending(k) /\ Queued(k)' = Queued(k)
        BY <1>1, <2>1 DEF Pending, Queued
      <3> QED BY <1>1, <2>2, <2>3, <3>1, IdleReaderState DEF Closed, NowReader
    <2> QED BY <2>6, <2>7, <2>8, <2>9, <2>10
  <1> QED BY <1>2, <1>3

\* On a broken link the reader goes from handle to handle.
LEMMA ReaderGivesUp ==
  ASSUME Typed, AllSound, NEW k \in Pool, reader[k].pc \in {"read", "oops"}, ~link[k].up,
         NEW failed \in 0..2, NEW left \in SUBSET Handles, NEW g, NEW n,
         g = reader[k] \/ g = Failed(reader[k], failed),
         n \in Visit(g, left, reader[k]), reader' = [reader EXCEPT ![k] = n],
         UNCHANGED <<relay, reqchan, batcher, batchchan, link>>
  PROVE  reader' \in [Pool -> ReaderStates] /\ AllSound' /\ SameHeld
  <1> DEFINE r == reader[k]
  <1>1. r \in ReaderStates
    BY ConnTypes
  <1>2. ConnOK(BatchSize, reqchan[k], batcher[k], batchchan[k], r, link[k])
    BY DEF AllSound, Sound
  <1>3. /\ r.pc \in {"read", "oops"} /\ reader' = [reader EXCEPT ![k] = n]
        /\ n \in Visit(g, left, r) /\ (g = r \/ g = Failed(r, failed))
    OBVIOUS
  <1> HIDE DEF r
  <1>4. g \in ReaderStates /\ g.responses = r.responses /\ g.channels = r.channels
    BY <1>1, <1>3, FailedState
  <1>5. /\ n \in ReaderStates /\ n.responses = r.responses /\ n.channels = r.channels
        /\ n.pc \in {"read", "oops"}
    <2>1. n = r \/ \E todo \in SUBSET Handles, h \in Handles : n = Visiting(g, todo, h)
      BY <1>3, VisitCases
    <2>2. CASE n = r
      BY <1>1, <1>3, <2>2
    <2>3. CASE \E todo \in SUBSET Handles, h \in Handles : n = Visiting(g, todo, h)
      BY <1>4, <2>3, ReaderVisits
    <2> QED BY <2>1, <2>2, <2>3
  <1>6. NowReader(k, n)
    BY <1>3, <1>5, NowStates
  <1>7. OthersSame(k)
    BY <1>6 DEF OthersSame, NowReader
  <1>8. AllSound'
    <2>1. ReaderOK(n)
      BY <1>5 DEF ReaderOK
    <2>2. ConnOK(BatchSize, reqchan[k], batcher[k], batchchan[k], n, link[k])
      BY <1>2, <1>5, <2>1 DEF ConnOK
    <2> QED BY <1>6, <1>7, <2>2, SoundStep DEF NowReader
  <1>9. SameHeld
    <2>1. Pending(k)' = Pending(k) /\ Queued(k)' = Queued(k)
      BY DEF Pending, Queued
    <2> QED BY <1>5, <1>6, <1>7, <2>1, HeldStep DEF NowReader, r
  <1> QED BY <1>6, <1>8, <1>9 DEF NowReader

LEMMA ReadFailsStep ==
  ASSUME Typed, Blame, AllSound, NEW k \in Pool, ReadFails(k)
  PROVE  Typed' /\ Blame' /\ AllSound' /\ SameHeld /\ client' = client
  <1> DEFINE left == HandlesOf(reader[k].responses)
             g == Failed(reader[k], 1)
  <1>1. /\ reader[k].pc = "read" /\ ~link[k].up
        /\ UNCHANGED <<relay, pool, client, reqchan, batcher, batchchan, link, faults, crashed>>
        /\ \E next \in Visit(g, left, reader[k]) : reader' = [reader EXCEPT ![k] = next]
    BY DEF ReadFails, Failed
  <1>2. left \in SUBSET Handles
    BY ConnTypes, HandlesOfType
  <1>3. PICK next \in Visit(g, left, reader[k]) : reader' = [reader EXCEPT ![k] = next]
    BY <1>1
  <1>4. g = Failed(reader[k], 1) /\ 1 \in 0..2
    OBVIOUS
  <1> HIDE DEF left, g
  <1>5. reader' \in [Pool -> ReaderStates] /\ AllSound' /\ SameHeld
    BY <1>1, <1>2, <1>3, <1>4, ReaderGivesUp
  <1> QED BY <1>1, <1>5 DEF Typed, Blame

LEMMA ReaderOopsStep ==
  ASSUME Typed, Blame, AllSound, NEW k \in Pool, ReaderOops(k)
  PROVE  Typed' /\ Blame' /\ AllSound' /\ (Panicked \/ (SameHeld /\ ErrorSent))
  <1> DEFINE r == reader[k]
             all == HandlesOf(r.responses)
             g == Failed(r, 2)
  <1>1. r.pc = "oops" /\ UNCHANGED <<relay, pool, reqchan, batchchan, link, faults>>
    BY DEF ReaderOops
  <1>2. ~link[k].up
    BY <1>1 DEF AllSound, Sound, ConnOK
  <1>3. all \in SUBSET Handles /\ r.todo \in SUBSET Handles /\ r.sending \in SUBSET Handles
    BY ConnTypes, ReaderFields, HandlesOfType
  <1>4. CASE /\ \E h \in r.sending : ReceivesError(h)
             /\ \E next \in IF r.todo = {} THEN Visit(g, all, r) ELSE Visit(r, r.todo, r) :
                  reader' = [reader EXCEPT ![k] = next]
             /\ UNCHANGED <<batcher, crashed>>
    <2>1. ErrorSent
      BY <1>3, <1>4, ErrorSentBy
    <2>2. PICK next \in IF r.todo = {} THEN Visit(g, all, r) ELSE Visit(r, r.todo, r) :
            reader' = [reader EXCEPT ![k] = next]
      BY <1>4
    <2>3. g = Failed(r, 2) /\ 2 \in 0..2
      OBVIOUS
    <2> HIDE DEF all, g
    <2>4. reader' \in [Pool -> ReaderStates] /\ AllSound' /\ SameHeld
      <3>1. CASE r.todo = {}
        BY <1>1, <1>2, <1>3, <1>4, <2>2, <2>3, <3>1, ReaderGivesUp
      <3>2. CASE r.todo # {}
        <4> DEFINE left == r.todo
        <4>1. next \in Visit(r, left, r) /\ left \in SUBSET Handles
          BY <1>3, <2>2, <3>2
        <4> HIDE DEF left
        <4> QED BY <1>1, <1>2, <1>4, <2>2, <2>3, <4>1, ReaderGivesUp
      <3> QED BY <3>1, <3>2
    <2>5. Typed'
      BY <1>1, <1>4, <2>1, <2>4, ErrorSentTyped DEF Typed
    <2>6. Blame'
      BY <1>1, <1>4, <2>1, ErrorSentTyped DEF Blame
    <2> QED BY <2>1, <2>4, <2>5, <2>6
  <1>5. CASE Panic
    <2>1. faults > 0
      BY <1>2 DEF Blame
    <2>2. Typed' /\ Blame' /\ AllSound' /\ Panicked
      BY <1>1, <1>5, <2>1, PanicStep
    <2> QED BY <2>2
  <1> QED BY <1>4, <1>5 DEF ReaderOops, Failed

LEMMA ServeStep ==
  ASSUME Typed, Blame, AllSound, NEW k \in Pool, Serve(k)
  PROVE  Typed' /\ Blame' /\ AllSound' /\ SameHeld /\ client' = client
  <1> DEFINE l == link[k]
             ts == Tail(l.toServer)
             tp == Append(l.toProxy, Head(l.toServer))
             m == Served(l, ts, tp)
  <1>1. /\ l.up /\ l.toServer # <<>> /\ Len(l.toProxy) < SocketRoom
        /\ UNCHANGED <<relay, pool, client, reqchan, batcher, batchchan, reader, faults, crashed>>
    BY DEF Serve
  <1>2. /\ l \in LinkStates /\ l.toServer \in Seq(Commands) /\ l.toProxy \in Seq(Commands)
        /\ batcher[k].out \in Seq(Commands)
    BY ConnTypes
  <1>3. link' = [link EXCEPT ![k] = m]
    BY <1>2 DEF Serve, Served, Typed, LinkStates
  <1>4. Head(l.toServer) \in Commands /\ ts \in Seq(Commands) /\ Len(ts) = Len(l.toServer) - 1
    BY <1>1, <1>2, HeadTailProperties
  <1>5. tp \in Seq(Commands) /\ Len(tp) = Len(l.toProxy) + 1
    BY <1>2, <1>4, AppendProperties
  <1>6. ConnOK(BatchSize, reqchan[k], batcher[k], batchchan[k], reader[k], l)
    BY DEF AllSound, Sound
  <1>7. Len(tp) <= SocketRoom /\ Len(ts) <= SocketRoom
    <2>1. /\ Len(l.toServer) \in Nat /\ Len(l.toProxy) \in Nat
          /\ SocketRoom \in Nat /\ Len(l.toServer) <= SocketRoom
      BY <1>2, <1>6, LenProperties, BatchedAssumption DEF ConnOK
    <2> HIDE DEF l, ts, tp
    <2> QED BY <1>1, <1>4, <1>5, <2>1
  <1>8. InStep(m, batcher[k].out, reader[k].responses, QueuedOf(batchchan[k]).responses)
    <2> HIDE DEF l
    <2> QED BY <1>1, <1>2, <1>6, InStepServe DEF ConnOK
  <1> HIDE DEF l, ts, tp
  <1>9. m \in LinkStates /\ m.up = l.up /\ m.toServer = ts /\ m.toProxy = tp
    BY <1>2, <1>4, <1>5, ServedState
  <1> HIDE DEF m
  <1>10. NowLink(k, m)
    BY <1>3, <1>9, NowStates
  <1>11. Typed'
    BY <1>1, <1>10 DEF Typed, NowLink
  <1>12. OthersSame(k)
    BY <1>1, <1>10 DEF OthersSame, NowLink
  <1>13. AllSound'
    <2>1. ConnOK(BatchSize, reqchan[k], batcher[k], batchchan[k], reader[k], m)
      BY <1>1, <1>6, <1>7, <1>8, <1>9 DEF ConnOK
    <2> QED BY <1>1, <1>10, <1>12, <2>1, SoundStep DEF NowLink
  <1>14. SameHeld
    BY <1>1 DEF SameHeld, Pending, Queued
  <1>15. Blame'
    <2>1. \A j \in Pool : ~link'[j].up => ~link[j].up
      BY <1>9, <1>10 DEF NowLink, l
    <2> QED BY <1>1, <2>1 DEF Blame
  <1> QED BY <1>1, <1>11, <1>13, <1>14, <1>15

LEMMA BreakStep ==
  ASSUME Typed, Blame, AllSound, NEW k \in Pool, Break(k)
  PROVE  Typed' /\ Blame' /\ AllSound' /\ SameHeld /\ client' = client
  <1> DEFINE l == link[k]
             m == Broken(l)
  <1>1. /\ faults' = faults + 1
        /\ UNCHANGED <<relay, pool, client, reqchan, batcher, batchchan, reader, crashed>>
    BY DEF Break, Fault
  <1>2. l \in LinkStates
    BY ConnTypes
  <1>3. link' = [link EXCEPT ![k] = m]
    BY <1>2 DEF Break, Broken, Typed, LinkStates
  <1>4. ConnOK(BatchSize, reqchan[k], batcher[k], batchchan[k], reader[k], l)
    BY DEF AllSound, Sound
  <1> HIDE DEF l
  <1>5. m \in LinkStates /\ ~m.up /\ m.toServer = <<>> /\ m.toProxy = l.toProxy
    BY <1>2, BrokenState
  <1> HIDE DEF m
  <1>6. NowLink(k, m)
    BY <1>3, <1>5, NowStates
  <1>7. Typed'
    BY <1>1, <1>6 DEF Typed, NowLink
  <1>8. OthersSame(k)
    BY <1>1, <1>6 DEF OthersSame, NowLink
  <1>9. AllSound'
    <2>1. InStep(m, batcher[k].out, reader[k].responses, QueuedOf(batchchan[k]).responses)
      BY <1>4, <1>5, InStepDown DEF ConnOK
    <2>2. Len(<<>>) = 0 /\ SocketRoom \in Nat
      BY BatchedAssumption, EmptySeq
    <2>3. ConnOK(BatchSize, reqchan[k], batcher[k], batchchan[k], reader[k], m)
      BY <1>4, <1>5, <2>1, <2>2 DEF ConnOK
    <2> QED BY <1>1, <1>6, <1>8, <2>3, SoundStep DEF NowLink
  <1>10. SameHeld
    BY <1>1 DEF SameHeld, Pending, Queued
  <1>11. Blame'
    <2>1. faults \in Nat
      BY DEF Typed
    <2>2. faults' > 0
      BY <1>1, <2>1
    <2> QED BY <1>1, <2>2 DEF Blame
  <1> QED BY <1>1, <1>7, <1>9, <1>10, <1>11

(***************************************************************************)
(* What the clients do, and the monitor.                                   *)
(***************************************************************************)

LEMMA MoreConns ==
  ASSUME NEW r \in ClientStates, NEW c, NEW size \in Nat, NEW more \in Nat, size <= more,
         ClientBounds(r, c, size)
  PROVE  ClientBounds(r, c, more)
  <1>1. r.conn \in Nat
    BY ClientFields
  <1> QED BY <1>1 DEF ClientBounds

\* A client leaves every connection as it is.
LEMMA ConnsSame ==
  ASSUME AllSound, relay'.batchSize = relay.batchSize,
         UNCHANGED <<reqchan, batcher, batchchan, reader, link>>
  PROVE  AllSound' /\ SameHeld
  BY DEF AllSound, Sound, SameHeld, Pending, Queued, BatchSize

LEMMA ScriptType ==
  ASSUME NEW c \in Clients
  PROVE  /\ Len(Script[c]) \in Nat
         /\ \A n \in Nat : n >= 1 /\ n <= Len(Script[c]) => Script[c][n] \in Ops
  <1>1. Script[c] \in Seq(Ops)
    BY BatchedAssumption DEF Ops
  <1>2. Len(Script[c]) \in Nat
    BY <1>1, LenProperties
  <1>3. \A n \in 1..Len(Script[c]) : Script[c][n] \in Ops
    BY <1>1, ElementOfSeq
  <1> QED BY <1>2, <1>3

LEMMA NewHandlerStep ==
  ASSUME Typed, Blame, AllSound, NEW c \in Clients, NewHandler(c)
  PROVE  /\ Typed' /\ Blame' /\ AllSound' /\ SameHeld
         /\ client[c].pc = "new" /\ Becomes(c, Idle(0)) /\ relay'.made
  <1>1. /\ client[c].pc = "new" /\ client' = [client EXCEPT ![c] = Idle(0)]
        /\ relay' = [relay EXCEPT !.made = TRUE]
        /\ UNCHANGED <<reqchan, batcher, batchchan, reader, link, crashed>>
    BY DEF NewHandler
  <1>2. /\ Idle(0) \in ClientStates /\ Idle(0).pc = "idle" /\ Idle(0).call = 0
        /\ Idle(0).conn = 0
    BY IdleState
  <1>3. Becomes(c, Idle(0))
    BY <1>1, <1>2, ClientBecomes
  <1>4. pool \in 0..MaxPool /\ faults \in Nat /\ MaxPool \in Nat /\ MaxPool >= 1
    BY BatchedAssumption DEF Typed
  <1>5. /\ pool' \in 0..MaxPool /\ faults' \in Nat /\ pool <= pool' /\ faults <= faults'
        /\ pool' = 0 => faults' > 0
    <2>1. CASE relay.made
      <3>1. pool' = pool /\ faults' = faults
        BY <2>1 DEF NewHandler
      <3>2. pool = 0 => faults > 0
        BY <2>1 DEF Blame
      <3> QED BY <1>4, <3>1, <3>2
    <2>2. CASE ~relay.made
      <3>1. pool = 0
        BY <2>2 DEF Typed
      <3>2. \/ pool' = 1 /\ faults' = faults
            \/ pool' = 0 /\ faults' = faults + 1
        BY <2>2 DEF NewHandler, Fault
      <3> QED BY <1>4, <3>1, <3>2
    <2> QED BY <2>1, <2>2
  <1>6. ASSUME NEW d \in Clients PROVE ClientBounds(client'[d], d, pool')
    <2>1. CASE d = c
      <3>1. ClientBounds(Idle(0), c, pool')
        <4>1. 0 <= Len(Script[c]) /\ 0 <= pool'
          BY <1>5, ScriptType
        <4> QED BY <1>2, <4>1 DEF ClientBounds
      <3> QED BY <1>3, <2>1, <3>1 DEF Becomes
    <2>2. CASE d # c
      <3>1. client[d] \in ClientStates /\ ClientBounds(client[d], d, pool) /\ pool \in Nat /\ pool' \in Nat
        BY <1>4, <1>5 DEF Typed
      <3>2. ClientBounds(client[d], d, pool')
        BY <1>5, <3>1, MoreConns
      <3> QED BY <1>3, <2>2, <3>2 DEF Becomes
    <2> QED BY <2>1, <2>2
  <1>7. /\ relay' \in [made : BOOLEAN, batchSize : Nat] /\ relay'.made
        /\ relay'.batchSize = relay.batchSize
    BY <1>1 DEF Typed
  <1>8. Typed'
    BY <1>1, <1>3, <1>5, <1>6, <1>7 DEF Typed, Becomes
  <1>9. Blame'
    <2>1. faults > 0 => faults' > 0
      BY <1>4, <1>5
    <2> QED BY <1>1, <1>5, <1>7, <2>1 DEF Blame
  <1> QED BY <1>1, <1>3, <1>7, <1>8, <1>9, ConnsSame

LEMMA CallStep ==
  ASSUME Typed, Blame, AllSound, NEW c \in Clients, Call(c)
  PROVE  /\ Typed' /\ Blame' /\ AllSound' /\ client[c].pc = "idle"
         /\ \/ Panicked
            \/ SameHeld /\ Becomes(c, GoesTo(client[c], "closed"))
            \/ /\ SameHeld
               /\ \E op \in Ops, k \in Pool :
                    Becomes(c, Calling(client[c].call + 1, op, k))
  <1> DEFINE r == client[c]
             n == r.call + 1
             op == Script[c][n]
  <1>1. /\ r.pc = "idle" /\ n <= Len(Script[c])
        /\ UNCHANGED <<relay, pool, reqchan, batchchan, link, faults>>
        /\ \/ /\ \E k \in 1..pool : client' = [client EXCEPT ![c] = Calling(n, op, k)]
              /\ UNCHANGED <<batcher, reader, crashed>>
           \/ /\ pool = 0 /\ client' = [client EXCEPT ![c] = GoesTo(r, "closed")]
              /\ UNCHANGED <<batcher, reader, crashed>>
           \/ pool = 0 /\ Panic
    BY DEF Call, Calling, GoesTo
  <1>2. r \in ClientStates /\ ClientBounds(r, c, pool) /\ r.call \in Nat /\ pool \in 0..MaxPool
    BY ClientFields DEF Typed
  <1>3. n \in Nat /\ op \in Ops
    BY <1>1, <1>2, ScriptType
  <1> HIDE DEF r, n, op
  <1>4. ASSUME NEW s, s.pc # "idle", Becomes(c, s), ClientBounds(s, c, pool),
               UNCHANGED <<batcher, reader, crashed>>
        PROVE  Typed' /\ Blame' /\ AllSound' /\ SameHeld
    <2>1. client' \in [Clients -> ClientStates] /\ \A d \in Clients : ClientBounds(client'[d], d, pool)
      BY <1>4, BecomesTyped
    <2>2. Typed'
      BY <1>1, <1>4, <2>1 DEF Typed
    <2>3. \A d \in Clients : client'[d].pc = "idle" => client[d].pc = "idle"
      BY <1>4 DEF Becomes
    <2>4. Blame'
      BY <1>1, <1>4, <2>3 DEF Blame
    <2> QED BY <1>1, <1>4, <2>2, <2>4, ConnsSame
  <1>5. ASSUME NEW k \in 1..pool, client' = [client EXCEPT ![c] = Calling(n, op, k)],
               UNCHANGED <<batcher, reader, crashed>>
        PROVE  /\ Typed' /\ Blame' /\ AllSound' /\ SameHeld /\ k \in Pool
               /\ Becomes(c, Calling(n, op, k))
    <2> DEFINE s == Calling(n, op, k)
    <2>1. k \in Nat /\ k \in Pool /\ 1 <= k /\ k <= pool
      BY <1>2, BatchedAssumption DEF Pool
    <2>2. s \in ClientStates /\ s.pc = "submit" /\ s.call = n /\ s.op = op /\ s.conn = k
      BY <1>3, <2>1, CallingState
    <2>3. client' = [client EXCEPT ![c] = s]
      BY <1>5
    <2> HIDE DEF s
    <2>4. Becomes(c, s)
      BY <2>2, <2>3, ClientBecomes
    <2>5. ClientBounds(s, c, pool)
      BY <1>1, <1>3, <2>1, <2>2 DEF ClientBounds
    <2>6. Typed' /\ Blame' /\ AllSound' /\ SameHeld
      BY <1>4, <1>5, <2>2, <2>4, <2>5
    <2> QED BY <2>1, <2>4, <2>6 DEF s
  <1>6. ASSUME client' = [client EXCEPT ![c] = GoesTo(r, "closed")],
               UNCHANGED <<batcher, reader, crashed>>
        PROVE  Typed' /\ Blame' /\ AllSound' /\ SameHeld /\ Becomes(c, GoesTo(r, "closed"))
    <2> DEFINE s == GoesTo(r, "closed")
    <2>1. /\ s \in ClientStates /\ s.pc = "closed" /\ s.call = r.call /\ s.op = r.op
          /\ s.conn = r.conn
      BY <1>2, GoesToState
    <2>2. client' = [client EXCEPT ![c] = s]
      BY <1>6
    <2> HIDE DEF s
    <2>3. Becomes(c, s)
      BY <2>1, <2>2, ClientBecomes
    <2>4. ClientBounds(s, c, pool)
      BY <1>2, <2>1, BoundsKept
    <2>5. Typed' /\ Blame' /\ AllSound' /\ SameHeld
      BY <1>4, <1>6, <2>1, <2>3, <2>4
    <2> QED BY <2>3, <2>5 DEF s
  <1>7. ASSUME pool = 0, Panic PROVE Typed' /\ Blame' /\ AllSound' /\ Panicked
    <2>1. faults > 0
      BY <1>1, <1>7 DEF Blame, r
    <2> QED BY <1>1, <1>7, <2>1, PanicStep
  <1> QED BY <1>1, <1>3, <1>5, <1>6, <1>7 DEF r, n

\* The request of a call is the last of the pending ones.
RequestOf(r, c) == [client |-> c, call |-> r.call, op |-> r.op]

Submitted(c, k) ==
  /\ client[c].pc = "submit" /\ client[c].conn = k
  /\ OthersSame(k) /\ UNCHANGED <<reader, batchchan>>
  /\ RequestOf(client[c], c) \in Requests
  /\ Pending(k)' = Append(Pending(k), RequestOf(client[c], c))
  /\ Becomes(c, GoesTo(client[c], "wait"))

LEMMA RequestsAssociative ==
  \A s, t, u \in Seq(Requests) : (s \o t) \o u = s \o (t \o u)
  BY ConcatAssociative

LEMMA AppendBehind ==
  \A s, t \in Seq(Requests) : \A x \in Requests : s \o Append(t, x) = Append(s \o t, x)
  <1> SUFFICES ASSUME NEW s \in Seq(Requests), NEW t \in Seq(Requests), NEW x \in Requests
               PROVE  s \o Append(t, x) = Append(s \o t, x)
    OBVIOUS
  <1>1. <<x>> \in Seq(Requests)
    OBVIOUS
  <1>2. Append(t, x) = t \o <<x>>
    BY AppendIsConcat
  <1>3. s \o t \in Seq(Requests)
    BY ConcatProperties
  <1>4. Append(s \o t, x) = (s \o t) \o <<x>>
    BY <1>3, AppendIsConcat
  <1>5. (s \o t) \o <<x>> = s \o (t \o <<x>>)
    BY <1>1, RequestsAssociative, Zenon
  <1> QED BY <1>2, <1>4, <1>5

LEMMA SubmitStep ==
  ASSUME Typed, Blame, AllSound, NEW c \in Clients, Submit(c)
  PROVE  Typed' /\ Blame' /\ AllSound' /\ \E k \in Pool : Submitted(c, k)
  <1> DEFINE r == client[c]
             s == GoesTo(r, "wait")
             q == RequestOf(r, c)
  <1>0. PICK k : k = r.conn
    OBVIOUS
  <1> DEFINE ch == reqchan[k]
  <1>1. /\ r.pc = "submit" /\ Len(ch) < BatchSize
        /\ reqchan' = [reqchan EXCEPT ![k] = Append(ch, q)]
        /\ client' = [client EXCEPT ![c] = s]
        /\ UNCHANGED <<relay, pool, batcher, batchchan, reader, link, faults, crashed>>
    BY <1>0 DEF Submit, Request, GoesTo, RequestOf
  <1>2. r \in ClientStates /\ ClientBounds(r, c, pool) /\ pool \in 0..MaxPool
    BY DEF Typed
  <1>3. r.call \in Nat /\ r.conn \in Nat
    BY <1>2, ClientFields
  <1>4. r.op \in Ops /\ 1 <= k /\ k <= pool
    BY <1>0, <1>1, <1>2 DEF ClientBounds
  <1>5. k \in Pool
    BY <1>0, <1>2, <1>3, <1>4, BatchedAssumption DEF Pool
  <1>6. q \in Requests
    BY <1>3, <1>4 DEF Requests, RequestOf
  <1>7. ConnOK(BatchSize, ch, batcher[k], batchchan[k], reader[k], link[k])
    BY <1>5 DEF AllSound, Sound
  <1>8. ch \in Seq(Requests) /\ batcher[k].reqs \in Seq(Requests)
    BY <1>5, ConnTypes
  <1> HIDE DEF q, ch
  <1>9. Append(ch, q) \in Seq(Requests) /\ Len(Append(ch, q)) = Len(ch) + 1
    BY <1>6, <1>8, AppendProperties
  <1>10. s \in ClientStates /\ s.pc = "wait" /\ s.call = r.call /\ s.conn = r.conn /\ s.op = r.op
    BY <1>2, GoesToState
  <1> HIDE DEF s, r
  <1>11. Becomes(c, s)
    BY <1>1, <1>10, ClientBecomes
  <1>12. ClientBounds(s, c, pool)
    BY <1>1, <1>2, <1>10, BoundsKept
  <1>13. /\ reqchan' \in [Pool -> Seq(Requests)] /\ reqchan'[k] = Append(ch, q)
         /\ \A j \in Pool \ {k} : reqchan'[j] = reqchan[j]
    BY <1>1, <1>5, <1>9 DEF Typed
  <1>14. Typed'
    <2>1. client' \in [Clients -> ClientStates] /\ \A d \in Clients : ClientBounds(client'[d], d, pool)
      BY <1>11, <1>12, BecomesTyped
    <2> QED BY <1>1, <1>13, <2>1 DEF Typed
  <1>15. Blame'
    BY <1>1, <1>10, <1>11 DEF Blame, Becomes
  <1>16. OthersSame(k)
    BY <1>1, <1>13 DEF OthersSame
  <1>17. AllSound'
    <2>1. Len(ch) \in Nat /\ BatchSize \in Nat
      BY <1>8, LenProperties, BatchSizeType
    <2>2. Len(Append(ch, q)) <= BatchSize
      BY <1>1, <1>9, <2>1
    <2>3. ConnOK(BatchSize, Append(ch, q), batcher[k], batchchan[k], reader[k], link[k])
      BY <1>7, <2>2 DEF ConnOK
    <2> QED BY <1>1, <1>5, <1>13, <1>16, <2>3, SoundStep
  <1>18. Pending(k)' = Append(Pending(k), q)
    <2> DEFINE a == IF batcher[k].pc \in Collecting THEN batcher[k].reqs ELSE <<>>
    <2>1. a \in Seq(Requests)
      BY <1>8, EmptySeq
    <2>2. Pending(k) = a \o ch /\ Pending(k)' = a \o Append(ch, q)
      BY <1>1, <1>13 DEF Pending, PendingOf, ch
    <2> HIDE DEF a
    <2>3. a \o Append(ch, q) = Append(a \o ch, q)
      BY <1>6, <1>8, <2>1, AppendBehind, Zenon
    <2> QED BY <2>2, <2>3
  <1>19. Submitted(c, k)
    BY <1>0, <1>1, <1>6, <1>11, <1>16, <1>18 DEF Submitted, r, q, s
  <1> QED BY <1>5, <1>14, <1>15, <1>17, <1>19

\* A rendezvous is a send and a receive: the channel is empty before and after.
LEMMA HandoverStep ==
  ASSUME Typed, Blame, AllSound, NEW c \in Clients, Handover(c)
  PROVE  Typed' /\ Blame' /\ AllSound' /\ \E k \in Pool : Submitted(c, k)
  <1> DEFINE r == client[c]
             s == GoesTo(r, "wait")
             q == RequestOf(r, c)
  <1>0. PICK k : k = r.conn
    OBVIOUS
  <1> DEFINE ch == reqchan[k]
             b == batcher[k]
             reqs == Append(b.reqs, q)
             pc == IF b.pc = "select" /\ Len(reqs) >= BatchSize THEN "do" ELSE "select"
             n == Collected(b, reqs, pc)
  <1>1. /\ r.pc = "submit" /\ BatchSize = 0 /\ b.pc \in {"select", "block"}
        /\ client' = [client EXCEPT ![c] = s] /\ SetBatcher(k, n)
        /\ UNCHANGED <<relay, pool, reqchan, batchchan, reader, link, faults, crashed>>
    BY <1>0 DEF Handover, Collect, Collected, Request, GoesTo, RequestOf
  <1>2. r \in ClientStates /\ ClientBounds(r, c, pool) /\ pool \in 0..MaxPool
    BY DEF Typed
  <1>3. r.call \in Nat /\ r.conn \in Nat
    BY <1>2, ClientFields
  <1>4. r.op \in Ops /\ 1 <= k /\ k <= pool
    BY <1>0, <1>1, <1>2 DEF ClientBounds
  <1>5. k \in Pool
    BY <1>0, <1>2, <1>3, <1>4, BatchedAssumption DEF Pool
  <1>6. q \in Requests
    BY <1>3, <1>4 DEF Requests, RequestOf
  <1>7. ConnOK(BatchSize, ch, b, batchchan[k], reader[k], link[k]) /\ BatchSize \in Nat
    BY <1>5, BatchSizeType DEF AllSound, Sound
  <1>8. ch \in Seq(Requests) /\ b \in BatcherStates /\ b.reqs \in Seq(Requests)
    BY <1>5, ConnTypes
  <1> HIDE DEF q, ch, b
  <1>9. ch = <<>> /\ BatcherOK(BatchSize, b)
    <2>1. Len(ch) <= 0 /\ Len(ch) \in Nat
      BY <1>1, <1>7, <1>8, LenProperties DEF ConnOK
    <2>2. Len(ch) = 0
      BY <2>1
    <2> QED BY <1>7, <1>8, <2>2, EmptySeq DEF ConnOK
  <1>10. /\ n \in BatcherStates /\ n.pc \in {"select", "do"}
         /\ n.reqs = reqs /\ n.out = b.out /\ BatcherOK(BatchSize, n)
    BY <1>1, <1>6, <1>7, <1>8, <1>9, CollectStep
  <1>11. s \in ClientStates /\ s.pc = "wait" /\ s.call = r.call /\ s.conn = r.conn /\ s.op = r.op
    BY <1>2, GoesToState
  <1> HIDE DEF s, r, n, reqs, pc
  <1>12. Becomes(c, s) /\ NowBatcher(k, n)
    BY <1>1, <1>5, <1>10, <1>11, ClientBecomes, NowStates
  <1>13. ClientBounds(s, c, pool)
    BY <1>1, <1>2, <1>11, BoundsKept
  <1>14. Typed'
    <2>1. client' \in [Clients -> ClientStates] /\ \A d \in Clients : ClientBounds(client'[d], d, pool)
      BY <1>12, <1>13, BecomesTyped
    <2> QED BY <1>1, <1>12, <2>1 DEF Typed, NowBatcher
  <1>15. Blame'
    BY <1>1, <1>11, <1>12 DEF Blame, Becomes
  <1>16. OthersSame(k)
    BY <1>1, <1>12 DEF OthersSame, NowBatcher
  <1>17. AllSound'
    <2>1. ConnOK(BatchSize, ch, n, batchchan[k], reader[k], link[k])
      BY <1>1, <1>7, <1>10 DEF ConnOK
    <2> QED BY <1>1, <1>5, <1>12, <1>16, <2>1, SoundStep DEF NowBatcher, ch
  <1>18. Pending(k)' = Append(Pending(k), q)
    <2>1. Pending(k) = b.reqs \o ch /\ Pending(k)' = reqs \o ch
      BY <1>1, <1>10, <1>12 DEF Pending, PendingOf, Collecting, NowBatcher, b, ch
    <2>2. b.reqs \o ch = b.reqs
      BY <1>8, <1>9, ConcatEmptySeq
    <2>3. reqs \in Seq(Requests)
      BY <1>6, <1>8, AppendProperties DEF reqs
    <2>4. reqs \o ch = reqs
      BY <1>9, <2>3, ConcatEmptySeq
    <2> QED BY <2>1, <2>2, <2>4 DEF reqs
  <1>19. Submitted(c, k)
    BY <1>0, <1>1, <1>6, <1>12, <1>16, <1>18 DEF Submitted, r, q, s
  <1> QED BY <1>5, <1>14, <1>15, <1>17, <1>19

LEMMA ReturnStep ==
  ASSUME Typed, Blame, AllSound, NEW c \in Clients, Return(c), client[c].pc = "done" => relay.made
  PROVE  /\ Typed' /\ Blame' /\ AllSound' /\ SameHeld
         /\ client[c].pc = "done" /\ Becomes(c, Idle(client[c].call))
  <1> DEFINE n == client[c].call
             s == Idle(n)
  <1>1. /\ client[c].pc = "done" /\ client' = [client EXCEPT ![c] = s]
        /\ UNCHANGED <<relay, pool, reqchan, batcher, batchchan, reader, link, faults, crashed>>
    BY DEF Return
  <1>2. n \in Nat /\ ClientBounds(client[c], c, pool) /\ pool \in Nat
    BY ClientFields, BatchedAssumption DEF Typed
  <1>3. s \in ClientStates /\ s.pc = "idle" /\ s.call = n /\ s.conn = 0
    BY <1>2, IdleState
  <1> HIDE DEF s
  <1>4. Becomes(c, s)
    BY <1>1, <1>3, ClientBecomes
  <1>5. ClientBounds(s, c, pool)
    BY <1>2, <1>3 DEF ClientBounds
  <1>6. Typed'
    <2>1. client' \in [Clients -> ClientStates] /\ \A d \in Clients : ClientBounds(client'[d], d, pool)
      BY <1>4, <1>5, BecomesTyped
    <2> QED BY <1>1, <2>1 DEF Typed
  <1>7. Blame'
    BY <1>1, <1>4 DEF Blame, Becomes
  <1> QED BY <1>1, <1>4, <1>6, <1>7, ConnsSame DEF s

LEMMA AddConnStep ==
  ASSUME Typed, Blame, AllSound, AddConn
  PROVE  Typed' /\ Blame' /\ AllSound' /\ SameHeld /\ client' = client
  <1>1. /\ relay.made /\ pool > 0 /\ pool < MaxPool /\ pool' = pool + 1
        /\ UNCHANGED <<relay, client, reqchan, batcher, batchchan, reader, link, faults, crashed>>
    BY DEF AddConn
  <1>2. pool \in Nat /\ pool' \in 0..MaxPool /\ pool' \in Nat /\ pool <= pool' /\ pool' # 0
    BY <1>1, BatchedAssumption DEF Typed
  <1>3. \A d \in Clients : ClientBounds(client[d], d, pool')
    BY <1>2, MoreConns DEF Typed
  <1>4. Typed'
    BY <1>1, <1>2, <1>3 DEF Typed
  <1>5. Blame'
    BY <1>1, <1>2 DEF Blame
  <1> QED BY <1>1, <1>4, <1>5, ConnsSame

(***************************************************************************)
(* Whose the calls are that a connection holds.                            *)
(***************************************************************************)

\* A call is held once: it waits to be batched, or is of the batch in the
\* channel, or is of the reader's.
Apart(p, qcalls, rcalls) ==
  /\ CallsDiffer(p) /\ qcalls \cap rcalls = {}
  /\ CallsOf(p) \cap (qcalls \cup rcalls) = {}

\* Call x is one that its client, now as r says, has submitted, and if the
\* client still waits for it, then on connection k.
SubmittedBy(r, k, x) ==
  /\ x.call <= r.call
  /\ x.call = r.call => r.pc # "submit" /\ (r.pc = "wait" => r.conn = k)

Holds(k, cl, p, q, w, rcalls) ==
  /\ Apart(p, q.channels, rcalls)
  /\ \A x \in CallsOf(p) \cup q.channels \cup rcalls : SubmittedBy(cl[x.client], k, x)
  /\ Belongs(q.responses, q.channels) /\ Belongs(w, rcalls)

Owned(k) ==
  Holds(k, client, Pending(k), Queued(k), reader[k].responses, reader[k].channels)

AllOwned == \A k \in Pool : Owned(k)

(***************************************************************************)
(* What a client has, and what is still to come to it.                     *)
(***************************************************************************)

CallOf(r, c) == Handle(RequestOf(r, c), 0)

\* What it has received answers its own commands, none twice.
GotOwn(r, c) ==
  \A n \in DOMAIN r.got :
    /\ r.got[n].handle = r.got[n].of
    /\ r.got[n].of.client = c /\ r.got[n].of.call = r.call
    /\ r.got[n].of.key \in 1..KeysPerGet
    /\ \A m \in DOMAIN r.got : r.got[m].of = r.got[n].of => m = n

Has(got, h) == \E n \in DOMAIN got : got[n].of = h

\* A waiting client, and the requests p and the handles hs that its connection
\* holds: each of its commands is answered, or not yet batched, or has a handle.
Awaits(r, c, p, hs) ==
  /\ r.op = "One" => r.got = <<>>
  /\ \A i \in DOMAIN p : Handle(p[i], 0) = CallOf(r, c) => r.got = <<>> /\ p[i].op = r.op
  /\ \A n \in DOMAIN r.got : r.got[n].of \notin hs
  /\ \A key \in 1..Keys(r) :
       \/ Has(r.got, Handle(RequestOf(r, c), key))
       \/ CallOf(r, c) \in CallsOf(p)
       \/ Handle(RequestOf(r, c), key) \in hs

HandlesHeld(k) == HandlesOf(Queued(k).responses) \cup HandlesOf(reader[k].responses)

Complete(r) ==
  r.pc = "done" /\ ~r.err => Len(r.got) = IF r.op = "Get" THEN KeysPerGet ELSE 1

ClientOK(r, c) ==
  /\ GotOwn(r, c) /\ Complete(r)
  /\ r.pc = "new" => r.call = 0
  /\ r.pc \in {"new", "idle", "submit"} => r.got = <<>>

Answering(c) ==
  /\ ClientOK(client[c], c)
  /\ \A k \in Pool : client[c].pc = "wait" /\ client[c].conn = k
       => Awaits(client[c], c, Pending(k), HandlesHeld(k))

AllServed == \A c \in Clients : Answering(c)

\* A client that has called has made the relay.
Begun == \A c \in Clients : client[c].pc \notin {"new", "closed"} => relay.made

LEMMA CallFields ==
  ASSUME NEW r, NEW c, NEW key
  PROVE  /\ Handle(RequestOf(r, c), key) = [client |-> c, call |-> r.call, key |-> key]
         /\ CallOf(r, c) = [client |-> c, call |-> r.call, key |-> 0]
  BY DEF CallOf, Handle, RequestOf

\* A handle is told by its call and its key.
LEMMA HandleOfCall ==
  ASSUME NEW h \in Handles, NEW r, NEW c, h.client = c, h.call = r.call
  PROVE  Handle(h, 0) = CallOf(r, c) /\ h = Handle(RequestOf(r, c), h.key)
  <1>1. h = [client |-> h.client, call |-> h.call, key |-> h.key]
    BY HandleFields
  <1>2. Handle(RequestOf(r, c), h.key) = [client |-> c, call |-> r.call, key |-> h.key]
    BY DEF Handle, RequestOf
  <1>3. CallOf(r, c) = [client |-> c, call |-> r.call, key |-> 0]
    BY DEF CallOf, Handle, RequestOf
  <1> QED BY <1>1, <1>2, <1>3 DEF Handle

\* What becomes of the calls when sequences of requests are put together.
Joined(a, b) ==
  /\ CallsOf(a \o b) = CallsOf(a) \cup CallsOf(b)
  /\ \A i \in DOMAIN a : \E j \in DOMAIN (a \o b) : (a \o b)[j] = a[i]
  /\ \A i \in DOMAIN b : \E j \in DOMAIN (a \o b) : (a \o b)[j] = b[i]
  /\ CallsDiffer(a \o b) =>
       CallsDiffer(a) /\ CallsDiffer(b) /\ CallsOf(a) \cap CallsOf(b) = {}

LEMMA ConcatCalls ==
  ASSUME NEW a \in Seq(Requests), NEW b \in Seq(Requests)
  PROVE  Joined(a, b)
  <1> DEFINE s == a \o b
             l == Len(a)
             m == Len(b)
  <1>1. l \in Nat /\ m \in Nat /\ DOMAIN a = 1..l /\ DOMAIN b = 1..m
    BY LenProperties
  <1>2. /\ s \in Seq(Requests) /\ Len(s) = l + m
        /\ \A i \in 1..(l + m) : s[i] = IF i <= l THEN a[i] ELSE b[i - l]
    BY ConcatProperties
  <1>3. DOMAIN s = 1..(l + m)
    BY <1>2, LenProperties
  <1> HIDE DEF s, l, m
  <1>4. \A i \in DOMAIN a : i \in DOMAIN s /\ s[i] = a[i] /\ i <= l /\ i \in Nat
    BY <1>1, <1>2, <1>3
  <1>5. ASSUME NEW i \in DOMAIN b
        PROVE  i + l \in DOMAIN s /\ s[i + l] = b[i] /\ ~(i + l <= l) /\ i \in Nat
    <2>1. i + l \in 1..(l + m) /\ ~(i + l <= l) /\ (i + l) - l = i /\ i \in Nat
      BY <1>1
    <2> QED BY <1>2, <1>3, <2>1
  <1>6. ASSUME NEW j \in DOMAIN s
        PROVE  (j \in DOMAIN a /\ s[j] = a[j]) \/ (j - l \in DOMAIN b /\ s[j] = b[j - l])
    BY <1>1, <1>2, <1>3
  <1>7. CallsOf(s) = CallsOf(a) \cup CallsOf(b)
    BY <1>4, <1>5, <1>6 DEF CallsOf
  <1>8. ASSUME CallsDiffer(s) PROVE CallsDiffer(a)
    BY <1>4, <1>8 DEF CallsDiffer
  <1>9. ASSUME CallsDiffer(s) PROVE CallsDiffer(b)
    <2>1. SUFFICES ASSUME NEW i \in DOMAIN b, NEW j \in DOMAIN b, Handle(b[i], 0) = Handle(b[j], 0)
                   PROVE  i = j
      BY DEF CallsDiffer
    <2>2. i + l = j + l
      BY <1>5, <1>9, <2>1 DEF CallsDiffer
    <2>3. i \in Nat /\ j \in Nat
      BY <1>5
    <2> QED BY <1>1, <2>2, <2>3
  <1>10. ASSUME CallsDiffer(s) PROVE CallsOf(a) \cap CallsOf(b) = {}
    <2>1. SUFFICES ASSUME NEW i \in DOMAIN a, NEW j \in DOMAIN b, Handle(a[i], 0) = Handle(b[j], 0)
                   PROVE  FALSE
      BY DEF CallsOf
    <2>2. i = j + l
      BY <1>4, <1>5, <1>10, <2>1 DEF CallsDiffer
    <2> QED BY <1>4, <1>5, <2>2
  <1> QED BY <1>4, <1>5, <1>7, <1>8, <1>9, <1>10 DEF Joined, s

LEMMA AppendCalls ==
  ASSUME NEW p \in Seq(Requests), NEW q \in Requests
  PROVE  /\ CallsOf(Append(p, q)) = CallsOf(p) \cup {Handle(q, 0)}
         /\ \A j \in DOMAIN Append(p, q) :
              Append(p, q)[j] = q \/ \E i \in DOMAIN p : Append(p, q)[j] = p[i]
         /\ CallsDiffer(p) /\ Handle(q, 0) \notin CallsOf(p) => CallsDiffer(Append(p, q))
  <1> DEFINE s == Append(p, q)
             l == Len(p)
  <1>1. /\ s \in Seq(Requests) /\ Len(s) = l + 1 /\ s[l + 1] = q
        /\ \A i \in 1..l : s[i] = p[i]
    BY AppendProperties
  <1>2. DOMAIN p = 1..l /\ DOMAIN s = 1..(l + 1) /\ l \in Nat
    BY <1>1, LenProperties
  <1> HIDE DEF s, l
  <1>3. \A i \in DOMAIN p : i \in DOMAIN s /\ s[i] = p[i]
    BY <1>1, <1>2
  <1>4. l + 1 \in DOMAIN s /\ s[l + 1] = q
    BY <1>1, <1>2
  <1>5. \A j \in DOMAIN s : j = l + 1 \/ (j \in DOMAIN p /\ s[j] = p[j])
    BY <1>1, <1>2
  <1>6. CallsOf(s) = CallsOf(p) \cup {Handle(q, 0)}
    BY <1>3, <1>4, <1>5 DEF CallsOf
  <1>7. \A j \in DOMAIN s : s[j] = q \/ \E i \in DOMAIN p : s[j] = p[i]
    BY <1>4, <1>5
  <1>8. ASSUME CallsDiffer(p), Handle(q, 0) \notin CallsOf(p) PROVE CallsDiffer(s)
    BY <1>4, <1>5, <1>8 DEF CallsDiffer, CallsOf
  <1> QED BY <1>6, <1>7, <1>8 DEF s

(***************************************************************************)
(* A call stays where it is while the clients go on.                       *)
(***************************************************************************)

\* A client keeps its call, without submitting it again, or goes to a later one.
Onward(r, s) ==
  /\ r.call <= s.call
  /\ s.call = r.call => s.pc # "submit" /\ (s.pc = "wait" => r.pc = "wait" /\ s.conn = r.conn)

LEMMA OnwardSubmitted ==
  ASSUME NEW r \in ClientStates, NEW s \in ClientStates, NEW x \in Handles, NEW k,
         SubmittedBy(r, k, x), Onward(r, s)
  PROVE  SubmittedBy(s, k, x)
  <1>1. r.call \in Nat /\ s.call \in Nat /\ x.call \in Nat
    BY ClientFields, HandleFields
  <1>2. x.call <= s.call
    BY <1>1 DEF SubmittedBy, Onward
  <1>3. x.call = s.call => r.call = s.call
    BY <1>1 DEF SubmittedBy, Onward
  <1> QED BY <1>2, <1>3 DEF SubmittedBy, Onward

LEMMA HeldCalls ==
  ASSUME Typed, NEW k \in Pool
  PROVE  CallsOf(Pending(k)) \cup Queued(k).channels \cup reader[k].channels \in SUBSET Handles
  <1>1. \A i \in DOMAIN Pending(k) : Pending(k)[i] \in Requests
    BY PendingType, ElementOfSeq, LenProperties
  <1>2. CallsOf(Pending(k)) \in SUBSET Handles
    BY <1>1 DEF CallsOf, Handle, Handles, Requests
  <1> QED BY <1>2, QueuedType, ConnTypes

\* A call that was submitted is so still, whoever has gone on; a client that has
\* not gone on is one that has not changed.
OnwardOrSame ==
  /\ client' \in [Clients -> ClientStates]
  /\ \A d \in Clients : client'[d] = client[d] \/ Onward(client[d], client'[d])

LEMMA SubmittedStill ==
  ASSUME Typed, OnwardOrSame, NEW k, NEW x \in Handles, SubmittedBy(client[x.client], k, x)
  PROVE  SubmittedBy(client'[x.client], k, x)
  <1>1. /\ x.client \in Clients /\ client[x.client] \in ClientStates
        /\ client'[x.client] \in ClientStates
    BY HandleFields DEF Typed, OnwardOrSame
  <1> QED BY <1>1, OnwardSubmitted DEF OnwardOrSame

\* The calls that are held after a step were held before it.
LEMMA StillOwned ==
  ASSUME Typed, AllOwned, OnwardOrSame, NEW k \in Pool, NEW p, NEW q, NEW w, NEW rcalls,
         CallsOf(p) \cup q.channels \cup rcalls
           \subseteq CallsOf(Pending(k)) \cup Queued(k).channels \cup reader[k].channels,
         Apart(p, q.channels, rcalls), Belongs(q.responses, q.channels), Belongs(w, rcalls)
  PROVE  Holds(k, client', p, q, w, rcalls)
  <1>1. \A x \in CallsOf(Pending(k)) \cup Queued(k).channels \cup reader[k].channels :
          x \in Handles /\ SubmittedBy(client[x.client], k, x)
    BY HeldCalls DEF AllOwned, Owned, Holds
  <1>2. \A x \in CallsOf(p) \cup q.channels \cup rcalls :
          x \in Handles /\ SubmittedBy(client[x.client], k, x)
    BY <1>1
  <1>3. \A x \in CallsOf(p) \cup q.channels \cup rcalls : SubmittedBy(client'[x.client], k, x)
    BY <1>2, SubmittedStill
  <1> QED BY <1>3 DEF Holds

\* A connection that holds what it held.
LEMMA OwnedSame ==
  ASSUME Typed, AllOwned, OnwardOrSame, NEW k \in Pool,
         Pending(k)' = Pending(k), Queued(k)' = Queued(k),
         reader'[k].responses = reader[k].responses,
         reader'[k].channels = reader[k].channels
  PROVE  Owned(k)'
  <1>1. Holds(k, client, Pending(k), Queued(k), reader[k].responses, reader[k].channels)
    BY DEF AllOwned, Owned
  <1>2. Holds(k, client', Pending(k), Queued(k), reader[k].responses, reader[k].channels)
    BY <1>1, StillOwned DEF Holds
  <1> QED BY <1>2 DEF Owned

LEMMA HeldElsewhere ==
  ASSUME NEW k \in Pool, OthersSame(k), NEW j \in Pool \ {k}
  PROVE  /\ Pending(j)' = Pending(j) /\ Queued(j)' = Queued(j)
         /\ reader'[j].responses = reader[j].responses
         /\ reader'[j].channels = reader[j].channels
         /\ HandlesHeld(j)' = HandlesHeld(j)
  BY DEF OthersSame, Pending, Queued, HandlesHeld

LEMMA OwnedStep ==
  ASSUME Typed, AllOwned, OnwardOrSame, NEW k \in Pool, OthersSame(k), Owned(k)'
  PROVE  AllOwned'
  <1>1. \A j \in Pool \ {k} : Owned(j)'
    BY HeldElsewhere, OwnedSame
  <1> QED BY <1>1 DEF AllOwned

(***************************************************************************)
(* A client that does not change.                                          *)
(***************************************************************************)

\* What a connection holds of a waiting client's call is what it held.
LEMMA AwaitsStill ==
  ASSUME NEW r, NEW c, NEW p, NEW hs, NEW s, Awaits(r, c, p, hs),
         s.op = r.op, s.got = r.got, s.call = r.call
  PROVE  Awaits(s, c, p, hs)
  <1>1. CallOf(s, c) = CallOf(r, c) /\ RequestOf(s, c) = RequestOf(r, c) /\ Keys(s) = Keys(r)
    BY DEF CallOf, RequestOf, Keys
  <1> QED BY <1>1 DEF Awaits

LEMMA HandlesHeldSame ==
  ASSUME SameHeld, NEW k \in Pool
  PROVE  HandlesHeld(k)' = HandlesHeld(k)
  BY DEF SameHeld, HandlesHeld

\* An error changes neither what a client has nor what it waits for.
LEMMA ClientKeeps ==
  ASSUME NEW r, NEW s, NEW c, ClientOK(r, c), s.got = r.got, s.call = r.call,
         s.pc # "new", s.pc \in {"idle", "submit"} => s.got = <<>>, Complete(s)
  PROVE  ClientOK(s, c)
  BY DEF ClientOK, GotOwn

LEMMA EmptyGot ==
  ASSUME NEW r, NEW c, r.got = <<>>, r.pc \notin {"new", "done"}
  PROVE  ClientOK(r, c)
  BY DEF ClientOK, GotOwn, Complete

\* One client changes and every connection holds what it held.
LEMMA OneClient ==
  ASSUME Typed, AllOwned, AllServed, SameHeld, NEW c \in Clients, NEW s,
         Becomes(c, s), Onward(client[c], s), ClientOK(s, c),
         s.pc = "wait" => /\ client[c].pc = "wait" /\ s.conn = client[c].conn
                          /\ s.op = client[c].op /\ s.got = client[c].got
                          /\ s.call = client[c].call
  PROVE  AllOwned' /\ AllServed'
  <1>1. OnwardOrSame
    BY DEF OnwardOrSame, Becomes
  <1>2. AllOwned'
    BY <1>1, OwnedSame DEF SameHeld, AllOwned
  <1>3. \A k \in Pool : Pending(k)' = Pending(k) /\ HandlesHeld(k)' = HandlesHeld(k)
    BY HandlesHeldSame DEF SameHeld
  <1>4. \A d \in Clients \ {c} : Answering(d)'
    BY <1>3 DEF AllServed, Answering, Becomes
  <1>5. ASSUME NEW k \in Pool, s.pc = "wait", s.conn = k
        PROVE  Awaits(s, c, Pending(k), HandlesHeld(k))
    <2>1. Awaits(client[c], c, Pending(k), HandlesHeld(k))
      BY <1>5 DEF AllServed, Answering
    <2> QED BY <1>5, <2>1, AwaitsStill
  <1>6. Answering(c)'
    BY <1>3, <1>5 DEF Answering, Becomes
  <1> QED BY <1>2, <1>4, <1>6 DEF AllServed

\* No client changes, and every connection holds what it held.
LEMMA NoClient ==
  ASSUME Typed, AllOwned, AllServed, SameHeld, client' = client
  PROVE  AllOwned' /\ AllServed'
  <1>1. OnwardOrSame
    BY DEF OnwardOrSame, Typed
  <1>2. AllOwned'
    BY <1>1, OwnedSame DEF SameHeld, AllOwned
  <1>3. \A k \in Pool : Pending(k)' = Pending(k) /\ HandlesHeld(k)' = HandlesHeld(k)
    BY HandlesHeldSame DEF SameHeld
  <1>4. AllServed'
    BY <1>3 DEF AllServed, Answering
  <1> QED BY <1>2, <1>4

(***************************************************************************)
(* What each kind of step does to the calls and their answers.             *)
(***************************************************************************)

\* A relay stays.
LEMMA RelayStays ==
  ASSUME Typed, Next
  PROVE  relay.made => relay'.made
  <1>1. ASSUME NEW c \in Clients, NewHandler(c) \/ Call(c) \/ Client(c) PROVE relay.made => relay'.made
    BY <1>1 DEF NewHandler, Call, Client, Submit, Handover, Return, Typed
  <1>2. ASSUME NEW k \in Pool, Batcher(k) PROVE relay.made => relay'.made
    BY <1>2 DEF Batcher, TakeRequest, Timeout, Do, Write, WriteFails, BatcherOops
  <1>3. ASSUME NEW k \in Pool, Reader(k) PROVE relay.made => relay'.made
    BY <1>3 DEF Reader, TakeBatch, Read, MapRace, CloseChannels, ReadFails, ReaderOops
  <1>4. ASSUME NEW k \in Pool, Serve(k) \/ Break(k) PROVE relay.made => relay'.made
    BY <1>4 DEF Serve, Break
  <1> QED BY <1>1, <1>2, <1>3, <1>4 DEF Next, AddConn

\* An error is received: what has been answered is as it was.
LEMMA ErrorSentFair ==
  ASSUME Typed, AllOwned, AllServed, SameHeld, ErrorSent
  PROVE  AllOwned' /\ AllServed'
  <1>1. PICK c \in Clients : client[c].pc = "wait" /\ Becomes(c, Erred(client[c]))
    BY DEF ErrorSent
  <1> DEFINE r == client[c]
             s == Erred(r)
  <1>2. r \in ClientStates /\ r.call \in Nat /\ ClientOK(r, c) /\ r.pc = "wait"
    BY <1>1, ClientFields DEF Typed, AllServed, Answering
  <1>3. /\ s.pc = PcAfter(r) /\ s.call = r.call /\ s.conn = r.conn /\ s.op = r.op
        /\ s.got = r.got /\ s.err
    BY <1>2, ErredState
  <1>4. Becomes(c, s)
    BY <1>1
  <1> HIDE DEF r, s
  <1>5. s.pc \in {"wait", "done"}
    BY <1>3 DEF PcAfter
  <1>6. Complete(s)
    BY <1>3 DEF Complete
  <1>7. ClientOK(s, c)
    BY <1>2, <1>3, <1>5, <1>6, ClientKeeps
  <1>8. Onward(r, s)
    BY <1>2, <1>3, <1>5 DEF Onward
  <1> QED BY <1>2, <1>3, <1>4, <1>7, <1>8, OneClient DEF r

\* A client becomes idle, with the call it has ended.
LEMMA IdleFair ==
  ASSUME Typed, AllOwned, AllServed, SameHeld, NEW c \in Clients, Becomes(c, Idle(client[c].call))
  PROVE  AllOwned' /\ AllServed'
  <1> DEFINE r == client[c]
             s == Idle(r.call)
  <1>1. r \in ClientStates /\ r.call \in Nat
    BY ClientFields DEF Typed
  <1>2. s.pc = "idle" /\ s.call = r.call /\ s.got = <<>>
    BY <1>1, IdleState
  <1> HIDE DEF s
  <1>3. ClientOK(s, c)
    BY <1>2, EmptyGot
  <1>4. Onward(r, s)
    BY <1>1, <1>2 DEF Onward
  <1> QED BY <1>2, <1>3, <1>4, OneClient DEF s

\* A client gives up.
LEMMA GivesUpFair ==
  ASSUME Typed, AllOwned, AllServed, SameHeld, NEW c \in Clients,
         Becomes(c, GoesTo(client[c], "closed"))
  PROVE  AllOwned' /\ AllServed'
  <1> DEFINE r == client[c]
             s == GoesTo(r, "closed")
  <1>1. r \in ClientStates /\ r.call \in Nat /\ ClientOK(r, c)
    BY ClientFields DEF Typed, AllServed, Answering
  <1>2. s.pc = "closed" /\ s.call = r.call /\ s.got = r.got
    BY <1>1, GoesToState
  <1>3. Becomes(c, s)
    OBVIOUS
  <1> HIDE DEF s
  <1>4. ClientOK(s, c)
    BY <1>1, <1>2, ClientKeeps DEF Complete
  <1>5. Onward(r, s)
    BY <1>1, <1>2 DEF Onward
  <1> QED BY <1>2, <1>3, <1>4, <1>5, OneClient

\* A client makes its next call.
LEMMA CallsFair ==
  ASSUME Typed, AllOwned, AllServed, SameHeld, NEW c \in Clients, NEW op \in Ops, NEW k \in Pool,
         Becomes(c, Calling(client[c].call + 1, op, k))
  PROVE  AllOwned' /\ AllServed'
  <1> DEFINE r == client[c]
             s == Calling(r.call + 1, op, k)
  <1>1. r \in ClientStates /\ r.call \in Nat /\ k \in Nat
    BY ClientFields, BatchedAssumption DEF Typed, Pool
  <1>2. s.pc = "submit" /\ s.call = r.call + 1 /\ s.got = <<>>
    BY <1>1, CallingState
  <1>3. Becomes(c, s)
    OBVIOUS
  <1> HIDE DEF s
  <1>4. ClientOK(s, c)
    BY <1>2, EmptyGot
  <1>5. Onward(r, s)
    <2>1. r.call <= s.call /\ s.call # r.call
      BY <1>1, <1>2
    <2> QED BY <2>1 DEF Onward
  <1> QED BY <1>2, <1>3, <1>4, <1>5, OneClient

\* A call is submitted: no connection holds it yet, and now one does.
LEMMA SubmittedFair ==
  ASSUME Typed, AllOwned, AllServed, NEW c \in Clients, NEW k \in Pool, Submitted(c, k)
  PROVE  AllOwned' /\ AllServed'
  <1> DEFINE r == client[c]
             s == GoesTo(r, "wait")
             q == RequestOf(r, c)
             x == Handle(q, 0)
             p == Pending(k)
  <1>1. r \in ClientStates /\ r.call \in Nat /\ ClientOK(r, c)
    BY ClientFields DEF Typed, AllServed, Answering
  <1>2. /\ r.pc = "submit" /\ r.conn = k /\ OthersSame(k) /\ UNCHANGED <<reader, batchchan>>
        /\ q \in Requests /\ Pending(k)' = Append(p, q) /\ Becomes(c, s)
    BY DEF Submitted
  <1>3. s.pc = "wait" /\ s.call = r.call /\ s.conn = k /\ s.op = r.op /\ s.got = r.got
    BY <1>1, <1>2, GoesToState
  <1>4. p \in Seq(Requests)
    BY PendingType
  <1>5. x.client = c /\ x.call = r.call /\ x \in Handles
    BY <1>1 DEF Handle, RequestOf, Handles
  <1>6. Queued(k)' = Queued(k) /\ HandlesHeld(k)' = HandlesHeld(k)
    BY <1>2 DEF Queued, HandlesHeld
  <1> HIDE DEF s, q, x, p
  <1>7. ASSUME NEW j \in Pool, NEW y,
               y \in CallsOf(Pending(j)) \cup Queued(j).channels \cup reader[j].channels
        PROVE  /\ y \in Handles /\ SubmittedBy(client[y.client], j, y)
               /\ ~(y.client = c /\ y.call = r.call)
    BY <1>2, <1>7, HeldCalls DEF AllOwned, Owned, Holds, SubmittedBy
  <1>8. ASSUME NEW j \in Pool, NEW y,
               y \in CallsOf(Pending(j)) \cup Queued(j).channels \cup reader[j].channels
        PROVE  SubmittedBy(client'[y.client], j, y)
    <2>1. y \in Handles /\ SubmittedBy(client[y.client], j, y) /\ ~(y.client = c /\ y.call = r.call)
      BY <1>7, <1>8
    <2>2. CASE y.client = c
      <3>1. client'[y.client] = s
        BY <1>2, <2>2 DEF Becomes
      <3> QED BY <1>3, <2>1, <2>2, <3>1 DEF SubmittedBy
    <2>3. CASE y.client # c
      BY <1>2, <2>1, <2>3, HandleFields DEF Becomes
    <2> QED BY <2>2, <2>3
  <1>9. Owned(k)'
    <2> DEFINE qc == Queued(k).channels
               rc == reader[k].channels
    <2>1. Apart(p, qc, rc) /\ Belongs(Queued(k).responses, qc) /\ Belongs(reader[k].responses, rc)
      BY DEF AllOwned, Owned, Holds, p
    <2>2. x \notin CallsOf(p) \cup qc \cup rc
      BY <1>5, <1>7 DEF p
    <2>3. CallsOf(Append(p, q)) = CallsOf(p) \cup {x} /\ CallsDiffer(Append(p, q))
      BY <1>2, <1>4, <2>1, <2>2, AppendCalls DEF Apart, x
    <2>4. SubmittedBy(client'[x.client], k, x)
      <3>1. client'[x.client] = s
        BY <1>2, <1>5 DEF Becomes
      <3> QED BY <1>1, <1>3, <1>5, <3>1 DEF SubmittedBy
    <2>5. \A y \in CallsOf(p) \cup {x} \cup qc \cup rc : SubmittedBy(client'[y.client], k, y)
      BY <1>8, <2>4 DEF p
    <2>6. Apart(Append(p, q), qc, rc)
      BY <2>1, <2>2, <2>3 DEF Apart
    <2>7. Holds(k, client', Append(p, q), Queued(k), reader[k].responses, rc)
      BY <2>1, <2>3, <2>5, <2>6 DEF Holds
    <2> QED BY <1>2, <1>6, <2>7 DEF Owned
  <1>10. ASSUME NEW j \in Pool \ {k} PROVE Owned(j)'
    <2>1. Holds(j, client, Pending(j), Queued(j), reader[j].responses, reader[j].channels)
      BY DEF AllOwned, Owned
    <2>2. Holds(j, client', Pending(j), Queued(j), reader[j].responses, reader[j].channels)
      BY <1>8, <2>1 DEF Holds
    <2> QED BY <1>2, <2>2, HeldElsewhere DEF Owned
  <1>11. Answering(c)'
    <2>1. r.got = <<>>
      BY <1>1, <1>2 DEF ClientOK
    <2>2. ClientOK(s, c)
      BY <1>3, <2>1, EmptyGot
    <2>3. CallOf(s, c) = x
      BY <1>3 DEF CallOf, RequestOf, x, q
    <2>4. x \notin CallsOf(p)
      BY <1>5, <1>7 DEF p
    <2>5. ASSUME NEW i \in DOMAIN Append(p, q), Handle(Append(p, q)[i], 0) = x
          PROVE  Append(p, q)[i].op = r.op
      <3>1. Append(p, q)[i] = q
        BY <1>2, <1>4, <2>4, <2>5, AppendCalls DEF CallsOf
      <3> QED BY <3>1 DEF q, RequestOf
    <2>6. x \in CallsOf(Append(p, q))
      BY <1>2, <1>4, AppendCalls DEF x
    <2>7. Awaits(s, c, Append(p, q), HandlesHeld(k))
      BY <1>3, <2>1, <2>3, <2>5, <2>6 DEF Awaits
    <2>8. client'[c] = s
      BY <1>2 DEF Becomes
    <2> QED BY <1>2, <1>3, <1>6, <2>2, <2>7, <2>8 DEF Answering
  <1>12. ASSUME NEW d \in Clients \ {c} PROVE Answering(d)'
    <2>1. client'[d] = client[d] /\ Answering(d)
      BY <1>2 DEF Becomes, AllServed
    <2>2. ASSUME client[d].pc = "wait", client[d].conn = k
          PROVE  Awaits(client[d], d, Append(p, q), HandlesHeld(k))
      <3>1. Awaits(client[d], d, p, HandlesHeld(k))
        BY <2>1, <2>2 DEF Answering, p
      <3>2. x # CallOf(client[d], d)
        BY <1>5, CallFields
      <3>3. \A i \in DOMAIN Append(p, q) : Handle(Append(p, q)[i], 0) = CallOf(client[d], d) =>
              \E m \in DOMAIN p : Append(p, q)[i] = p[m]
        BY <1>2, <1>4, <3>2, AppendCalls DEF x
      <3>4. CallsOf(p) \subseteq CallsOf(Append(p, q))
        BY <1>2, <1>4, AppendCalls
      <3> QED BY <3>1, <3>3, <3>4 DEF Awaits
    <2>3. \A j \in Pool \ {k} : Pending(j)' = Pending(j) /\ HandlesHeld(j)' = HandlesHeld(j)
      BY <1>2, HeldElsewhere
    <2> QED BY <1>2, <1>6, <2>1, <2>2, <2>3 DEF Answering
  <1> QED BY <1>9, <1>10, <1>11, <1>12 DEF AllOwned, AllServed

\* The clients do not change, and those of the other connections wait for what
\* they waited for.
LEMMA ServedStep ==
  ASSUME Typed, AllServed, NEW k \in Pool, OthersSame(k), client' = client,
         \A c \in Clients : client[c].pc = "wait" /\ client[c].conn = k
           => Awaits(client[c], c, Pending(k)', HandlesHeld(k)')
  PROVE  AllServed'
  <1>1. \A j \in Pool \ {k} : Pending(j)' = Pending(j) /\ HandlesHeld(j)' = HandlesHeld(j)
    BY HeldElsewhere
  <1>2. ASSUME NEW c \in Clients PROVE Answering(c)'
    BY <1>1 DEF AllServed, Answering
  <1> QED BY <1>2 DEF AllServed

LEMMA EmptyMap ==
  ASSUME NEW calls
  PROVE  HandlesOf(<<>>) = {} /\ Belongs(<<>>, calls)
  BY DEF HandlesOf, Belongs

\* The calls of a batch: what was pending has its handles now.
LEMMA BatchedFair ==
  ASSUME Typed, AllOwned, AllServed, NEW k \in Pool, Batched(k), OthersSame(k),
         UNCHANGED <<client, reader>>
  PROVE  AllOwned' /\ AllServed'
  <1> DEFINE p == batcher[k].reqs
             ch == reqchan[k]
             w == reader[k].responses
             rc == reader[k].channels
  <1>1. PICK f \in ResponseMaps :
          /\ Pending(k) = p \o ch /\ Pending(k)' = ch
          /\ Queued(k) = NoBatch /\ Queued(k)' = [responses |-> f, channels |-> CallsOf(p)]
          /\ Belongs(f, CallsOf(p))
          /\ \A i \in DOMAIN p : \A key \in 1..Keys(p[i]) : Handle(p[i], key) \in HandlesOf(f)
    BY DEF Batched
  <1>2. p \in Seq(Requests) /\ ch \in Seq(Requests)
    BY ConnTypes
  <1>3. NoBatch.responses = <<>> /\ NoBatch.channels = {}
    BY DEF NoBatch
  <1>4. Apart(p \o ch, {}, rc) /\ Belongs(w, rc)
    BY <1>1, <1>3 DEF AllOwned, Owned, Holds
  <1> HIDE DEF p, ch
  <1>5. /\ CallsOf(p \o ch) = CallsOf(p) \cup CallsOf(ch)
        /\ \A i \in DOMAIN p : \E j \in DOMAIN (p \o ch) : (p \o ch)[j] = p[i]
        /\ \A i \in DOMAIN ch : \E j \in DOMAIN (p \o ch) : (p \o ch)[j] = ch[i]
        /\ CallsDiffer(ch) /\ CallsOf(p) \cap CallsOf(ch) = {}
    <2>1. CallsDiffer(p \o ch)
      BY <1>4 DEF Apart
    <2>2. Joined(p, ch)
      BY ONLY <1>2, ConcatCalls
    <2> QED BY <2>1, <2>2 DEF Joined
  <1>6. HandlesHeld(k) = HandlesOf(w) /\ HandlesHeld(k)' = HandlesOf(f) \cup HandlesOf(w)
    <2>1. HandlesOf(<<>>) = {}
      BY EmptyMap
    <2>2. Queued(k).responses = <<>> /\ (Queued(k)').responses = f
      BY <1>1, <1>3
    <2> QED BY <2>1, <2>2 DEF HandlesHeld
  <1>7. OnwardOrSame
    BY DEF OnwardOrSame, Typed
  <1> DEFINE q == [responses |-> f, channels |-> CallsOf(p)]
  <1>8. q.responses = f /\ q.channels = CallsOf(p) /\ Queued(k)' = q
    BY <1>1
  <1> HIDE DEF w, rc, q
  <1>9. Owned(k)'
    <2>1. Apart(ch, CallsOf(p), rc)
      BY <1>4, <1>5 DEF Apart
    <2>2. CallsOf(ch) \cup CallsOf(p) \cup rc
            \subseteq CallsOf(Pending(k)) \cup Queued(k).channels \cup reader[k].channels
      BY <1>1, <1>5 DEF rc
    <2>3. Holds(k, client', ch, q, w, rc)
      BY <1>1, <1>4, <1>7, <1>8, <2>1, <2>2, StillOwned
    <2> QED BY <1>1, <1>8, <2>3 DEF Owned, w, rc
  <1>10. ASSUME NEW c \in Clients, client[c].pc = "wait", client[c].conn = k
         PROVE  Awaits(client[c], c, ch, HandlesOf(f) \cup HandlesOf(w))
    <2> DEFINE r == client[c]
    <2>1. Awaits(r, c, p \o ch, HandlesOf(w)) /\ GotOwn(r, c)
      BY <1>1, <1>6, <1>10 DEF AllServed, Answering, ClientOK
    <2>2. r \in ClientStates /\ r.got \in Seq(Answers)
      BY ClientFields DEF Typed
    <2>3. \A n \in DOMAIN r.got : r.got[n] \in Answers
      BY <2>2, ElementOfSeq, LenProperties
    <2> HIDE DEF r
    <2>4. r.op = "One" => r.got = <<>>
      BY <2>1 DEF Awaits
    <2>5. \A i \in DOMAIN ch : Handle(ch[i], 0) = CallOf(r, c) => r.got = <<>> /\ ch[i].op = r.op
      BY <1>5, <2>1 DEF Awaits
    <2>6. \A i \in DOMAIN p : Handle(p[i], 0) = CallOf(r, c) => r.got = <<>> /\ p[i].op = r.op
      BY <1>5, <2>1 DEF Awaits
    <2>7. ASSUME NEW n \in DOMAIN r.got PROVE r.got[n].of \notin HandlesOf(f) \cup HandlesOf(w)
      <3>1. r.got[n].of \notin HandlesOf(w)
        BY <2>1 DEF Awaits
      <3> DEFINE h == r.got[n].of
      <3>2. h \in Handles
        BY <2>3 DEF Answers
      <3>3. Handle(h, 0) = CallOf(r, c)
        BY <2>1, <3>2, HandleOfCall DEF GotOwn
      <3>4. ASSUME h \in HandlesOf(f) PROVE FALSE
        <4>1. Handle(h, 0) \in CallsOf(p)
          BY <1>1, <3>4 DEF HandlesOf, Belongs
        <4>2. r.got = <<>>
          BY <2>6, <3>3, <4>1 DEF CallsOf
        <4> QED BY <4>2
      <3> QED BY <3>1, <3>4
    <2>8. ASSUME NEW key \in 1..Keys(r)
          PROVE  \/ Has(r.got, Handle(RequestOf(r, c), key))
                 \/ CallOf(r, c) \in CallsOf(ch)
                 \/ Handle(RequestOf(r, c), key) \in HandlesOf(f) \cup HandlesOf(w)
      <3>1. \/ Has(r.got, Handle(RequestOf(r, c), key))
            \/ CallOf(r, c) \in CallsOf(p) \cup CallsOf(ch)
            \/ Handle(RequestOf(r, c), key) \in HandlesOf(w)
        BY <1>5, <2>1 DEF Awaits
      <3>2. ASSUME CallOf(r, c) \in CallsOf(p)
            PROVE  Handle(RequestOf(r, c), key) \in HandlesOf(f)
        <4>1. PICK i \in DOMAIN p : Handle(p[i], 0) = CallOf(r, c)
          BY <3>2 DEF CallsOf
        <4>2. p[i].op = r.op
          BY <2>6, <4>1
        <4>3. key \in 1..Keys(p[i])
          BY <4>2 DEF Keys
        <4>4. Handle(p[i], key) = Handle(RequestOf(r, c), key)
          BY <4>1 DEF Handle, CallOf, RequestOf
        <4> QED BY <1>1, <4>3, <4>4
      <3> QED BY <3>1, <3>2
    <2>9. Awaits(r, c, ch, HandlesOf(f) \cup HandlesOf(w))
      BY <2>4, <2>5, <2>7, <2>8 DEF Awaits
    <2> QED BY <2>9 DEF r
  <1>11. AllOwned'
    BY <1>7, <1>9, OwnedStep
  <1>12. AllServed'
    BY <1>1, <1>6, <1>10, ServedStep
  <1> QED BY <1>11, <1>12

\* The reader takes the batch: nothing else holds a call of the reader's.
LEMMA TakenFair ==
  ASSUME Typed, AllOwned, AllServed, NEW k \in Pool, Taken(k), OthersSame(k), client' = client
  PROVE  AllOwned' /\ AllServed'
  <1>1. /\ reader[k].responses = <<>> /\ reader[k].channels = {}
        /\ reader'[k].responses = Queued(k).responses /\ reader'[k].channels = Queued(k).channels
        /\ Pending(k)' = Pending(k) /\ Queued(k)' = NoBatch
    BY DEF Taken
  <1>2. NoBatch.responses = <<>> /\ NoBatch.channels = {}
    BY DEF NoBatch
  <1>3. HandlesHeld(k)' = HandlesHeld(k)
    BY <1>1, <1>2 DEF HandlesHeld
  <1>4. OnwardOrSame
    BY DEF OnwardOrSame, Typed
  <1>5. Owned(k)'
    <2> DEFINE p == Pending(k)
               qc == Queued(k).channels
               qf == Queued(k).responses
    <2>1. Apart(p, qc, {}) /\ Belongs(qf, qc)
      BY <1>1 DEF AllOwned, Owned, Holds
    <2>2. Apart(p, {}, qc)
      BY <2>1 DEF Apart
    <2>3. CallsOf(p) \cup {} \cup qc
            \subseteq CallsOf(Pending(k)) \cup Queued(k).channels \cup reader[k].channels
      OBVIOUS
    <2> HIDE DEF p, qc, qf
    <2>4. Holds(k, client', p, NoBatch, qf, qc)
      BY <1>2, <1>4, <2>1, <2>2, <2>3, StillOwned, EmptyMap
    <2> QED BY <1>1, <2>4 DEF Owned, p, qc, qf
  <1>6. AllOwned'
    BY <1>4, <1>5, OwnedStep
  <1>7. AllServed'
    BY <1>1, <1>3, ServedStep DEF AllServed, Answering
  <1> QED BY <1>6, <1>7

\* After a panic nobody waits.
LEMMA PanickedFair ==
  ASSUME Typed, AllOwned, AllServed, Panicked, client' \in [Clients -> ClientStates]
  PROVE  AllOwned' /\ AllServed'
  <1>1. ASSUME NEW c \in Clients
        PROVE  /\ client'[c].pc = "closed" /\ client'[c].call = client[c].call
               /\ client'[c].got = client[c].got /\ client[c] \in ClientStates
               /\ ClientOK(client[c], c)
    <2>1. client[c] \in ClientStates /\ ClientOK(client[c], c)
      BY DEF Typed, AllServed, Answering
    <2>2. client'[c] = GoesTo(client[c], "closed")
      BY DEF Panicked
    <2> QED BY <2>1, <2>2, GoesToState
  <1>2. OnwardOrSame
    <2>1. \A c \in Clients : client[c].call <= client'[c].call
      BY <1>1, ClientFields
    <2> QED BY <1>1, <2>1 DEF OnwardOrSame, Onward
  <1>3. ASSUME NEW k \in Pool PROVE Owned(k)'
    <2> DEFINE a == IF batcher[k].pc \in Collecting THEN batcher[k].reqs ELSE <<>>
               ch == reqchan[k]
               rc == reader[k].channels
    <2>1. a \in Seq(Requests) /\ ch \in Seq(Requests)
      BY ConnTypes, EmptySeq
    <2>2. Pending(k) = a \o ch
      BY DEF Pending, PendingOf
    <2>3. /\ Pending(k)' = ch /\ Queued(k)' = Queued(k)
          /\ reader'[k].responses = reader[k].responses /\ reader'[k].channels = rc
      BY DEF Panicked
    <2> HIDE DEF a, ch, rc
    <2>4. /\ Apart(a \o ch, Queued(k).channels, rc)
          /\ Belongs(Queued(k).responses, Queued(k).channels) /\ Belongs(reader[k].responses, rc)
      BY <2>2 DEF AllOwned, Owned, Holds, rc
    <2>5. CallsOf(a \o ch) = CallsOf(a) \cup CallsOf(ch) /\ CallsDiffer(ch)
      <3>1. Joined(a, ch)
        BY ONLY <2>1, ConcatCalls
      <3> QED BY <2>4, <3>1 DEF Apart, Joined
    <2>6. Apart(ch, Queued(k).channels, rc)
      BY <2>4, <2>5 DEF Apart
    <2>7. CallsOf(ch) \cup Queued(k).channels \cup rc
            \subseteq CallsOf(Pending(k)) \cup Queued(k).channels \cup reader[k].channels
      BY <2>2, <2>5 DEF rc
    <2>8. Holds(k, client', ch, Queued(k), reader[k].responses, rc)
      BY <1>2, <2>4, <2>6, <2>7, StillOwned
    <2> QED BY <2>3, <2>8 DEF Owned
  <1>4. ASSUME NEW c \in Clients PROVE Answering(c)'
    <2>1. ClientOK(client'[c], c)
      BY <1>1, ClientKeeps DEF Complete
    <2> QED BY <1>1, <2>1 DEF Answering
  <1> QED BY <1>3, <1>4 DEF AllOwned, AllServed

\* A get that has the answer to each of its keys has exactly as many answers.
LEMMA EveryKey ==
  ASSUME NEW r \in ClientStates, NEW c \in Clients, GotOwn(r, c),
         \A key \in 1..KeysPerGet : Has(r.got, Handle(RequestOf(r, c), key))
  PROVE  Len(r.got) = KeysPerGet
  <1> DEFINE got == r.got
             l == Len(got)
  <1>1. got \in Seq(Answers) /\ l \in Nat /\ DOMAIN got = 1..l
    BY ClientFields, LenProperties
  <1>2. \A n \in 1..l : got[n].of \in Handles
    <2>1. \A n \in 1..l : got[n] \in Answers
      BY <1>1, ElementOfSeq
    <2> QED BY <2>1 DEF Answers
  <1>3. \A n \in 1..l :
          /\ got[n].of.client = c /\ got[n].of.call = r.call /\ got[n].of.key \in 1..KeysPerGet
          /\ \A m \in 1..l : got[m].of = got[n].of => m = n
    BY <1>1 DEF GotOwn
  <1>4. \A key \in 1..KeysPerGet : \E n \in 1..l : got[n].of = Handle(RequestOf(r, c), key)
    BY <1>1 DEF Has
  <1> HIDE DEF got, l
  <1> DEFINE f == [n \in 1..l |-> got[n].of.key]
  <1>5. f \in [1..l -> 1..KeysPerGet]
    BY <1>3
  <1>6. \A n, m \in 1..l : f[n] = f[m] => n = m
    <2>1. SUFFICES ASSUME NEW n \in 1..l, NEW m \in 1..l, got[n].of.key = got[m].of.key PROVE n = m
      OBVIOUS
    <2>2. /\ got[n].of = [client |-> c, call |-> r.call, key |-> got[n].of.key]
          /\ got[m].of = [client |-> c, call |-> r.call, key |-> got[m].of.key]
      BY <1>2, <1>3, HandleFields
    <2> QED BY <1>3, <2>1, <2>2
  <1>7. \A key \in 1..KeysPerGet : \E n \in 1..l : f[n] = key
    <2>1. SUFFICES ASSUME NEW key \in 1..KeysPerGet PROVE \E n \in 1..l : f[n] = key
      OBVIOUS
    <2>2. PICK n \in 1..l : got[n].of = Handle(RequestOf(r, c), key)
      BY <1>4
    <2>3. got[n].of.key = key
      BY <2>2 DEF Handle
    <2> QED BY <2>3
  <1> HIDE DEF f
  <1>8. f \in Bijection(1..l, 1..KeysPerGet)
    BY <1>5, <1>6, <1>7, Fun_IsBij
  <1>9. ExistsBijection(1..l, 1..KeysPerGet)
    BY <1>8 DEF ExistsBijection
  <1>10. /\ IsFiniteSet(1..l) /\ Cardinality(1..l) = l
         /\ IsFiniteSet(1..KeysPerGet) /\ Cardinality(1..KeysPerGet) = KeysPerGet
    <2>1. IsFiniteSet(1..l) /\ Cardinality(1..l) = IF 1 > l THEN 0 ELSE l - 1 + 1
      BY <1>1, FS_Interval
    <2>2. KeysPerGet \in Nat
      BY BatchedAssumption
    <2>3. /\ IsFiniteSet(1..KeysPerGet)
          /\ Cardinality(1..KeysPerGet) = IF 1 > KeysPerGet THEN 0 ELSE KeysPerGet - 1 + 1
      BY <2>2, FS_Interval
    <2> QED BY <1>1, <2>1, <2>2, <2>3
  <1>11. l = KeysPerGet
    BY <1>9, <1>10, FS_Bijection
  <1> QED BY <1>11 DEF l, got

\* Whoever waits for a call that a connection holds waits on that connection.
LEMMA WaitsHere ==
  ASSUME Typed, AllOwned, NEW k \in Pool, NEW c \in Clients, client[c].pc = "wait",
         CallOf(client[c], c) \in CallsOf(Pending(k)) \cup Queued(k).channels \cup reader[k].channels
  PROVE  client[c].conn = k
  <1> DEFINE x == CallOf(client[c], c)
  <1>1. x.client = c /\ x.call = client[c].call
    BY CallFields
  <1>2. SubmittedBy(client[x.client], k, x)
    BY DEF AllOwned, Owned, Holds
  <1> QED BY <1>1, <1>2 DEF SubmittedBy

\* The channels are closed: the reader's map is empty, so that the calls that
\* end have every answer.
LEMMA ClosedFair ==
  ASSUME Typed, AllOwned, AllServed, NEW k \in Pool, Closed(k), OthersSame(k),
         client' \in [Clients -> ClientStates]
  PROVE  AllOwned' /\ AllServed'
  <1> DEFINE rc == reader[k].channels
             Ends(c) == client[c].pc = "wait" /\ CallOf(client[c], c) \in rc
  <1>1. /\ reader[k].responses = <<>> /\ reader'[k].responses = <<>> /\ reader'[k].channels = {}
        /\ Pending(k)' = Pending(k) /\ Queued(k)' = Queued(k)
    BY DEF Closed
  <1>2. \A c \in Clients :
          client'[c] = IF Ends(c) THEN GoesTo(client[c], "done") ELSE client[c]
    BY DEF Closed, CallOf, Handle, RequestOf
  <1>3. \A c \in Clients : Ends(c) => client[c].pc = "wait" /\ CallOf(client[c], c) \in rc
    OBVIOUS
  <1> HIDE DEF Ends
  <1>4. ASSUME NEW c \in Clients
        PROVE  client[c] \in ClientStates /\ client[c].call \in Nat
    BY ClientFields DEF Typed
  <1>5. ASSUME NEW c \in Clients, Ends(c)
        PROVE  /\ client'[c].pc = "done" /\ client'[c].call = client[c].call
               /\ client'[c].op = client[c].op /\ client'[c].got = client[c].got
    BY <1>2, <1>4, <1>5, GoesToState
  <1>6. OnwardOrSame
    <2>1. ASSUME NEW c \in Clients PROVE client'[c] = client[c] \/ Onward(client[c], client'[c])
      <3>1. CASE Ends(c)
        BY <1>4, <1>5, <3>1 DEF Onward
      <3>2. CASE ~Ends(c)
        BY <1>2, <3>2
      <3> QED BY <3>1, <3>2
    <2> QED BY <2>1 DEF OnwardOrSame
  <1>7. Holds(k, client, Pending(k), Queued(k), <<>>, rc)
    BY <1>1 DEF AllOwned, Owned
  <1> HIDE DEF rc
  <1>8. Owned(k)'
    <2>1. Apart(Pending(k), Queued(k).channels, {}) /\ Belongs(Queued(k).responses, Queued(k).channels)
      BY <1>7 DEF Holds, Apart
    <2>2. CallsOf(Pending(k)) \cup Queued(k).channels \cup {}
            \subseteq CallsOf(Pending(k)) \cup Queued(k).channels \cup reader[k].channels
      OBVIOUS
    <2>3. Holds(k, client', Pending(k), Queued(k), <<>>, {})
      BY <1>6, <2>1, <2>2, StillOwned, EmptyMap
    <2> QED BY <1>1, <2>3 DEF Owned
  <1>9. HandlesHeld(k) = HandlesOf(Queued(k).responses) /\ HandlesHeld(k)' = HandlesHeld(k)
    <2>1. HandlesOf(<<>>) = {}
      BY EmptyMap
    <2> QED BY <1>1, <2>1 DEF HandlesHeld
  <1>10. ASSUME NEW c \in Clients, Ends(c) PROVE Answering(c)'
    <2> DEFINE r == client[c]
               s == client'[c]
               x == CallOf(r, c)
    <2>1. r.pc = "wait" /\ x \in rc /\ r.conn = k
      BY <1>3, <1>10, WaitsHere DEF rc
    <2>2. ClientOK(r, c) /\ Awaits(r, c, Pending(k), HandlesOf(Queued(k).responses))
      BY <1>9, <2>1 DEF AllServed, Answering
    <2>3. x \notin CallsOf(Pending(k)) /\ x \notin Queued(k).channels
      BY <1>7, <2>1 DEF Holds, Apart
    <2>4. ASSUME NEW key \in Nat PROVE Handle(RequestOf(r, c), key) \notin HandlesOf(Queued(k).responses)
      <3>1. Handle(Handle(RequestOf(r, c), key), 0) = x
        BY DEF Handle, CallOf, RequestOf
      <3>2. \A h \in HandlesOf(Queued(k).responses) : Handle(h, 0) \in Queued(k).channels
        BY <1>7 DEF Holds, Belongs, HandlesOf
      <3> QED BY <2>3, <3>1, <3>2
    <2>5. r.op \in Ops /\ r \in ClientStates
      BY <2>1 DEF Typed, ClientBounds
    <2>6. /\ s.pc = "done" /\ s.call = r.call /\ s.op = r.op /\ s.got = r.got
      BY <1>5, <1>10
    <2> HIDE DEF r, s, x
    <2>7. Keys(r) \in Nat /\ 1 <= Keys(r)
      BY <2>5, BatchedAssumption DEF Keys, Ops
    <2>8. \A key \in 1..Keys(r) : Has(r.got, Handle(RequestOf(r, c), key))
      BY <2>2, <2>3, <2>4, <2>7 DEF Awaits, x
    <2>9. r.op = "Get"
      <3>1. ASSUME r.op = "One" PROVE FALSE
        <4>1. r.got = <<>>
          BY <2>2, <3>1 DEF Awaits
        <4>2. Has(r.got, Handle(RequestOf(r, c), 1))
          BY <2>7, <2>8
        <4>3. DOMAIN <<>> = {}
          OBVIOUS
        <4> QED BY <4>1, <4>2, <4>3 DEF Has
      <3> QED BY <2>5, <3>1 DEF Ops
    <2>10. Len(r.got) = KeysPerGet
      <3>1. \A key \in 1..KeysPerGet : Has(r.got, Handle(RequestOf(r, c), key))
        BY <2>8, <2>9 DEF Keys
      <3> QED BY <2>2, <2>5, <3>1, EveryKey DEF ClientOK
    <2>11. Complete(s)
      BY <2>6, <2>9, <2>10 DEF Complete
    <2>12. ClientOK(s, c)
      BY <2>2, <2>6, <2>11, ClientKeeps
    <2> QED BY <2>6, <2>12 DEF Answering, s
  <1>11. ASSUME NEW c \in Clients, ~Ends(c) PROVE Answering(c)'
    <2>1. client'[c] = client[c] /\ Answering(c)
      BY <1>2, <1>11 DEF AllServed
    <2>2. \A j \in Pool : Pending(j)' = Pending(j) /\ HandlesHeld(j)' = HandlesHeld(j)
      BY <1>1, <1>9, HeldElsewhere
    <2> QED BY <2>1, <2>2 DEF Answering
  <1>12. AllOwned'
    BY <1>6, <1>8, OwnedStep
  <1> QED BY <1>10, <1>11, <1>12 DEF AllServed

\* What is left of the handles when one is deleted.
LEMMA WithoutHandles ==
  ASSUME NEW f, NEW o \in DOMAIN f, NEW calls, Belongs(f, calls)
  PROVE  /\ Belongs(Without(f, o), calls)
         /\ HandlesOf(Without(f, o)) = HandlesOf(f) \ {f[o]}
  <1> DEFINE g == Without(f, o)
  <1>1. DOMAIN g = DOMAIN f \ {o} /\ \A u \in DOMAIN g : g[u] = f[u]
    BY DEF Without
  <1> HIDE DEF g
  <1>2. \A u \in DOMAIN g : u \in DOMAIN f /\ g[u] = f[u] /\ f[u] # f[o]
    BY <1>1 DEF Belongs
  <1>3. Belongs(g, calls)
    BY <1>2 DEF Belongs
  <1>4. HandlesOf(g) = HandlesOf(f) \ {f[o]}
    BY <1>1, <1>2 DEF HandlesOf
  <1> QED BY <1>3, <1>4 DEF g

\* An answer is added to what a client has.
Extended(more, got, a) ==
  /\ Len(more) = Len(got) + 1
  /\ \A h : Has(more, h) <=> Has(got, h) \/ h = a.of
  /\ \A n \in DOMAIN more :
       (n \in DOMAIN got /\ more[n] = got[n]) \/ (n = Len(got) + 1 /\ more[n] = a)

LEMMA MoreGot ==
  ASSUME NEW got \in Seq(Answers), NEW a \in Answers
  PROVE  Extended(Append(got, a), got, a)
  <1> DEFINE more == Append(got, a)
             l == Len(got)
  <1>1. l \in Nat /\ DOMAIN got = 1..l
    BY LenProperties
  <1>2. /\ more \in Seq(Answers) /\ Len(more) = l + 1 /\ more[l + 1] = a
        /\ \A i \in 1..l : more[i] = got[i]
    BY AppendProperties
  <1>3. DOMAIN more = 1..(l + 1)
    BY <1>2, LenProperties
  <1> HIDE DEF more, l
  <1>4. \A n \in DOMAIN more : (n \in DOMAIN got /\ more[n] = got[n]) \/ (n = l + 1 /\ more[n] = a)
    BY <1>1, <1>2, <1>3
  <1>5. \A n \in DOMAIN got : n \in DOMAIN more /\ more[n] = got[n]
    BY <1>1, <1>2, <1>3
  <1>6. l + 1 \in DOMAIN more /\ more[l + 1] = a
    BY <1>1, <1>2, <1>3
  <1>7. \A h : Has(more, h) <=> Has(got, h) \/ h = a.of
    BY <1>4, <1>5, <1>6 DEF Has
  <1> QED BY <1>2, <1>4, <1>7 DEF Extended, more, l

\* A response is received: it is the first to its command, and the handles that
\* are left are those of the commands without one.
LEMMA DeliveryFair ==
  ASSUME Typed, AllOwned, AllServed, NEW k \in Pool, Delivery(k), OthersSame(k)
  PROVE  AllOwned' /\ AllServed'
  <1> DEFINE w == reader[k].responses
             rc == reader[k].channels
             p == Pending(k)
             qf == Queued(k).responses
  <1>1. PICK o \in DOMAIN w :
          /\ w[o] \in Handles /\ Waits(w[o])
          /\ Becomes(w[o].client, Answered(client[w[o].client], [handle |-> w[o], of |-> w[o]]))
          /\ reader'[k].responses = Without(w, o) /\ reader'[k].channels = rc
          /\ Pending(k)' = Pending(k) /\ Queued(k)' = Queued(k)
    BY DEF Delivery
  <1>2. PICK h \in Handles : h = w[o]
    BY <1>1
  <1>3. PICK c \in Clients : c = h.client
    BY HandleFields
  <1> DEFINE r == client[c]
             a == [handle |-> h, of |-> h]
             s == Answered(r, a)
  <1>4. r.pc = "wait" /\ h.call = r.call /\ Becomes(c, s)
    BY <1>1, <1>2, <1>3 DEF Waits
  <1>5. r \in ClientStates /\ a \in Answers /\ r.call \in Nat
    BY ClientFields DEF Typed, Answers
  <1>6. /\ s.pc = PcAfter(r) /\ s.call = r.call /\ s.conn = r.conn /\ s.op = r.op
        /\ s.got = Append(r.got, a) /\ a.of = h /\ a.handle = h
    BY <1>5, AnsweredState
  <1>7. Holds(k, client, p, Queued(k), w, rc)
    BY DEF AllOwned, Owned
  <1>8. ClientOK(r, c) /\ ClientBounds(r, c, pool)
    BY DEF AllServed, Answering, Typed
  <1> HIDE DEF s, a, w, rc
  <1>9. s.pc \in {"wait", "done"}
    BY <1>6 DEF PcAfter
  <1>10. CallOf(r, c) = Handle(h, 0) /\ h = Handle(RequestOf(r, c), h.key)
    BY <1>3, <1>4, HandleOfCall
  <1>11. Handle(h, 0) \in rc /\ h.key \in 1..KeysPerGet
    BY <1>2, <1>7 DEF Holds, Belongs
  <1>12. r.conn = k
    BY <1>4, <1>10, <1>11, WaitsHere DEF rc
  <1> DEFINE hs == HandlesOf(qf) \cup HandlesOf(w)
  <1>13. HandlesOf(Without(w, o)) = HandlesOf(w) \ {h} /\ Belongs(Without(w, o), rc)
    BY <1>2, <1>7, WithoutHandles DEF Holds
  <1>14. h \in HandlesOf(w) /\ h \notin HandlesOf(qf)
    <2>1. h \in HandlesOf(w)
      BY <1>2 DEF HandlesOf
    <2>2. Handle(h, 0) \notin Queued(k).channels
      BY <1>7, <1>11 DEF Holds, Apart
    <2>3. \A g \in HandlesOf(qf) : Handle(g, 0) \in Queued(k).channels
      BY <1>7 DEF Holds, Belongs, HandlesOf
    <2> QED BY <2>1, <2>2, <2>3
  <1>15. HandlesHeld(k) = hs /\ HandlesHeld(k)' = hs \ {h}
    <2>1. HandlesHeld(k)' = HandlesOf(qf) \cup HandlesOf(Without(w, o))
      BY <1>1 DEF HandlesHeld
    <2>2. HandlesHeld(k) = hs
      BY DEF HandlesHeld, w
    <2> HIDE DEF qf
    <2> QED BY <1>13, <1>14, <2>1, <2>2
  <1> HIDE DEF hs, qf, p, r
  <1>16. OnwardOrSame
    <2>1. Onward(r, s)
      BY <1>4, <1>5, <1>6, <1>9 DEF Onward
    <2> QED BY <1>4, <2>1 DEF OnwardOrSame, Becomes, r
  <1>17. Owned(k)'
    <2>1. Apart(p, Queued(k).channels, rc) /\ Belongs(Queued(k).responses, Queued(k).channels)
      BY <1>7 DEF Holds
    <2>2. CallsOf(p) \cup Queued(k).channels \cup rc
            \subseteq CallsOf(Pending(k)) \cup Queued(k).channels \cup reader[k].channels
      BY DEF p, rc
    <2>3. Holds(k, client', p, Queued(k), Without(w, o), rc)
      BY <1>13, <1>16, <2>1, <2>2, StillOwned
    <2> QED BY <1>1, <2>3 DEF Owned, p
  <1>18. AllOwned'
    BY <1>16, <1>17, OwnedStep
  <1>19. Awaits(r, c, p, hs)
    BY <1>4, <1>12, <1>15 DEF AllServed, Answering, r, p
  <1>20. CallOf(r, c) \notin CallsOf(p)
    BY <1>7, <1>10, <1>11 DEF Holds, Apart
  <1>21. /\ Len(s.got) = Len(r.got) + 1
         /\ \A g : Has(s.got, g) <=> Has(r.got, g) \/ g = h
         /\ \A n \in DOMAIN s.got :
              (n \in DOMAIN r.got /\ s.got[n] = r.got[n]) \/ (n = Len(r.got) + 1 /\ s.got[n] = a)
    <2>1. s.got = Append(r.got, a) /\ a.of = h
      BY <1>6
    <2>2. r.got \in Seq(Answers) /\ a \in Answers
      BY <1>5, ClientFields
    <2>3. Extended(s.got, r.got, a)
      BY ONLY <2>1, <2>2, MoreGot
    <2> QED BY ONLY <2>1, <2>3 DEF Extended
  <1>22. GotOwn(s, c)
    <2>1. GotOwn(r, c)
      BY <1>8 DEF ClientOK
    <2>2. \A n \in DOMAIN r.got : r.got[n].of # h
      BY <1>14, <1>19 DEF Awaits, hs
    <2>3. ASSUME NEW n \in DOMAIN s.got
          PROVE  /\ s.got[n].handle = s.got[n].of
                 /\ s.got[n].of.client = c /\ s.got[n].of.call = s.call
                 /\ s.got[n].of.key \in 1..KeysPerGet
      BY <1>3, <1>4, <1>6, <1>11, <1>21, <2>1 DEF GotOwn
    <2>4. ASSUME NEW n \in DOMAIN s.got, NEW m \in DOMAIN s.got, s.got[m].of = s.got[n].of
          PROVE  m = n
      BY <1>6, <1>21, <2>1, <2>2, <2>4 DEF GotOwn
    <2> QED BY <2>3, <2>4 DEF GotOwn
  <1>23. Complete(s)
    <2>1. CASE r.op = "Get"
      BY <1>6, <2>1 DEF Complete, PcAfter
    <2>2. CASE r.op # "Get"
      <3>1. r.op = "One"
        BY <1>4, <1>8, <2>2 DEF ClientBounds, Ops
      <3>2. r.got = <<>>
        BY <1>19, <3>1 DEF Awaits
      <3>3. Len(s.got) = 1
        BY <1>21, <3>2, EmptySeq
      <3> QED BY <1>6, <2>2, <3>3 DEF Complete
    <2> QED BY <2>1, <2>2
  <1>24. ClientOK(s, c)
    BY <1>9, <1>22, <1>23 DEF ClientOK
  <1>25. ASSUME s.pc = "wait" PROVE Awaits(s, c, p, hs \ {h})
    <2>1. r.op = "Get" /\ s.op = "Get"
      BY <1>6, <1>25 DEF PcAfter
    <2>2. CallOf(s, c) = CallOf(r, c) /\ RequestOf(s, c) = RequestOf(r, c) /\ Keys(s) = Keys(r)
      BY <1>6 DEF CallOf, RequestOf, Keys
    <2>3. \A i \in DOMAIN p : Handle(p[i], 0) # CallOf(s, c)
      BY <1>20, <2>2 DEF CallsOf
    <2>4. \A n \in DOMAIN s.got : s.got[n].of \notin hs \ {h}
      BY <1>6, <1>19, <1>21 DEF Awaits
    <2>5. \A key \in 1..Keys(s) :
            \/ Has(s.got, Handle(RequestOf(s, c), key))
            \/ Handle(RequestOf(s, c), key) \in hs \ {h}
      BY <1>19, <1>20, <1>21, <2>2 DEF Awaits
    <2> QED BY <2>1, <2>3, <2>4, <2>5 DEF Awaits
  <1>26. Answering(c)'
    <2>1. client'[c] = s /\ Pending(k)' = p
      BY <1>1, <1>4 DEF Becomes, p
    <2>2. s.conn = k
      BY <1>6, <1>12
    <2> QED BY <1>15, <1>24, <1>25, <2>1, <2>2 DEF Answering
  <1>27. ASSUME NEW d \in Clients \ {c} PROVE Answering(d)'
    <2>1. client'[d] = client[d] /\ Answering(d)
      BY <1>4 DEF Becomes, AllServed
    <2>2. ASSUME client[d].pc = "wait", client[d].conn = k
          PROVE  Awaits(client[d], d, p, hs \ {h})
      <3>1. Awaits(client[d], d, p, hs)
        BY <1>15, <2>1, <2>2 DEF Answering, p
      <3>2. \A key : Handle(RequestOf(client[d], d), key) # h
        BY <1>3 DEF Handle, RequestOf
      <3> QED BY <3>1, <3>2 DEF Awaits
    <2>3. \A j \in Pool \ {k} : Pending(j)' = Pending(j) /\ HandlesHeld(j)' = HandlesHeld(j)
      BY HeldElsewhere
    <2> QED BY <1>1, <1>15, <2>1, <2>2, <2>3 DEF Answering, p
  <1> QED BY <1>18, <1>26, <1>27 DEF AllServed

(***************************************************************************)
(* The invariant.                                                          *)
(***************************************************************************)

\* Whatever is held is held once and by its own, what a waiting client is still
\* to receive is on its connection, and on every connection the responses to
\* come are those that its batches are there for.
BatchedInv == Typed /\ Blame /\ AllSound /\ AllOwned /\ AllServed /\ Begun

\* A client has made the relay, or found it.
LEMMA BegunStep ==
  ASSUME Begun, relay.made => relay'.made,
         \A d \in Clients : client'[d].pc \in {"new", "closed"} \/ relay'.made
                              \/ client[d].pc \notin {"new", "closed"}
  PROVE  Begun'
  BY DEF Begun

LEMMA InitialSize ==
  ASSUME Init
  PROVE  relay \in [made : BOOLEAN, batchSize : Nat]
  <1>1. \A s \in Settings : uint32ValueOrDefault(s, DefaultBatchSize) \in Nat
    BY BatchedAssumption DEF uint32ValueOrDefault
  <1> QED BY <1>1 DEF Init

LEMMA InitInv ==
  ASSUME Init
  PROVE  BatchedInv
  <1> DEFINE new == [Idle(0) EXCEPT !.pc = "new"]
  <1>1. /\ relay.made = FALSE /\ pool = 0 /\ faults = 0 /\ crashed = FALSE
        /\ client = [c \in Clients |-> new] /\ reqchan = [k \in Pool |-> <<>>]
        /\ batcher = [k \in Pool |-> IdleBatcher] /\ batchchan = [k \in Pool |-> <<>>]
        /\ reader = [k \in Pool |-> IdleReader] /\ link = [k \in Pool |-> IdleLink]
    BY DEF Init
  <1>2. /\ new \in ClientStates /\ new.pc = "new" /\ new.call = 0 /\ new.conn = 0
        /\ new.got = <<>>
    <2>1. new = GoesTo(Idle(0), "new") /\ Idle(0) \in ClientStates /\ Idle(0).call = 0
          /\ Idle(0).conn = 0 /\ Idle(0).got = <<>>
      BY IdleState DEF GoesTo
    <2> QED BY <2>1, GoesToState
  <1> HIDE DEF new
  <1>3. /\ IdleBatcher \in BatcherStates /\ IdleBatcher.pc = "select"
        /\ IdleBatcher.reqs = <<>> /\ IdleBatcher.out = <<>>
    <2>1. <<>> \in Seq(Requests) /\ <<>> \in Seq(Commands)
      BY EmptySeq
    <2> QED BY <2>1 DEF IdleBatcher, BatcherStates
  <1>4. /\ IdleReader \in ReaderStates /\ IdleReader.pc = "take"
        /\ IdleReader.responses = <<>> /\ IdleReader.channels = {}
    BY IdleReaderState
  <1>5. /\ IdleLink \in LinkStates /\ IdleLink.up
        /\ IdleLink.toServer = <<>> /\ IdleLink.toProxy = <<>>
    <2>1. <<>> \in Seq(Commands)
      BY EmptySeq
    <2> QED BY <2>1 DEF IdleLink, LinkStates
  <1>6. Len(<<>>) = 0 /\ <<>> \in Seq(Requests) /\ <<>> \in Seq(Batches) /\ DOMAIN <<>> = {}
    BY EmptySeq
  <1>7. Typed
    <2>1. \A c \in Clients : ClientBounds(new, c, 0)
      BY <1>2, ScriptType DEF ClientBounds
    <2>2. /\ client \in [Clients -> ClientStates] /\ \A c \in Clients : client[c] = new
      BY <1>1, <1>2
    <2>3. reqchan \in [Pool -> Seq(Requests)] /\ batchchan \in [Pool -> Seq(Batches)]
      BY <1>1, <1>6
    <2>4. /\ batcher \in [Pool -> BatcherStates] /\ reader \in [Pool -> ReaderStates]
          /\ link \in [Pool -> LinkStates]
      BY <1>1, <1>3, <1>4, <1>5
    <2>5. pool \in 0..MaxPool /\ faults \in Nat /\ pool = 0
      BY <1>1, BatchedAssumption
    <2>6. relay \in [made : BOOLEAN, batchSize : Nat]
      BY InitialSize
    <2> QED BY <2>1, <2>2, <2>3, <2>4, <2>5, <2>6 DEF Typed
  <1>8. Blame
    BY <1>1, <1>2, <1>5 DEF Blame
  <1>9. QueuedOf(<<>>) = NoBatch /\ NoBatch.responses = <<>> /\ NoBatch.channels = {}
    BY DEF QueuedOf, NoBatch
  <1>10. AllSound
    <2>1. BatcherOK(BatchSize, IdleBatcher)
      BY <1>3, <1>6, <1>7, BatchSizeType DEF BatcherOK
    <2>2. ReaderOK(IdleReader)
      BY <1>4 DEF ReaderOK
    <2>3. InStep(IdleLink, IdleBatcher.out, IdleReader.responses, QueuedOf(<<>>).responses)
      BY <1>3, <1>4, <1>9, InStepIdle
    <2>4. ConnOK(BatchSize, <<>>, IdleBatcher, <<>>, IdleReader, IdleLink)
      BY <1>3, <1>4, <1>5, <1>6, <2>1, <1>7, <2>2, <2>3, BatchedAssumption, BatchSizeType DEF ConnOK
    <2> QED BY <1>1, <2>4 DEF AllSound, Sound
  <1>11. AllOwned
    <2>1. ASSUME NEW k \in Pool PROVE Pending(k) = <<>> /\ Queued(k) = NoBatch
      <3>1. <<>> \o <<>> = <<>>
        BY <1>6, ConcatEmptySeq
      <3> QED BY <1>1, <1>3, <1>9, <3>1 DEF Pending, PendingOf, Queued
    <2>2. CallsOf(<<>>) = {} /\ CallsDiffer(<<>>)
      BY <1>6 DEF CallsOf, CallsDiffer
    <2>3. ASSUME NEW k \in Pool PROVE Holds(k, client, <<>>, NoBatch, <<>>, {})
      BY <1>9, <2>2, EmptyMap DEF Holds, Apart
    <2> QED BY <1>1, <1>4, <2>1, <2>3 DEF AllOwned, Owned
  <1>12. AllServed
    <2>1. \A c \in Clients : ClientOK(new, c)
      BY <1>2, <1>6 DEF ClientOK, GotOwn, Complete
    <2> QED BY <1>1, <1>2, <2>1 DEF AllServed, Answering
  <1>13. Begun
    BY <1>1, <1>2 DEF Begun
  <1> QED BY <1>7, <1>8, <1>10, <1>11, <1>12, <1>13 DEF BatchedInv

\* Before a batch is made, its calls are pending ones.
LEMMA BatchDiffers ==
  ASSUME BatchedInv, NEW k \in Pool, Do(k)
  PROVE  CallsDiffer(batcher[k].reqs)
  <1> DEFINE p == batcher[k].reqs
             ch == reqchan[k]
  <1>1. p \in Seq(Requests) /\ ch \in Seq(Requests)
    BY ConnTypes DEF BatchedInv
  <1>2. Pending(k) = p \o ch
    BY DEF Do, Pending, PendingOf, Collecting
  <1>3. CallsDiffer(p \o ch)
    BY <1>2 DEF BatchedInv, AllOwned, Owned, Holds, Apart
  <1> HIDE DEF p, ch
  <1>4. CallsDiffer(p)
    <2>1. Joined(p, ch)
      BY ONLY <1>1, ConcatCalls
    <2> QED BY <1>3, <2>1 DEF Joined
  <1> QED BY <1>4 DEF p

\* A step of a client.
LEMMA ClientInv ==
  ASSUME BatchedInv, NEW c \in Clients, NewHandler(c) \/ Call(c) \/ Client(c), relay.made => relay'.made
  PROVE  BatchedInv'
  <1>1. /\ Typed /\ Blame /\ AllSound /\ AllOwned /\ AllServed /\ Begun
        /\ client[c] \in ClientStates /\ ClientOK(client[c], c)
    BY DEF BatchedInv, Typed, AllServed, Answering
  <1>2. ASSUME NEW s, Becomes(c, s),
               s.pc \in {"new", "closed"} \/ relay'.made \/ client[c].pc \notin {"new", "closed"}
        PROVE  Begun'
    BY <1>1, <1>2, BegunStep DEF Becomes, Begun
  <1>3. CASE NewHandler(c)
    <2>1. /\ Typed' /\ Blame' /\ AllSound' /\ SameHeld
          /\ client[c].pc = "new" /\ Becomes(c, Idle(0)) /\ relay'.made
      BY <1>1, <1>3, NewHandlerStep
    <2>2. client[c].call = 0
      BY <1>1, <2>1 DEF ClientOK
    <2>3. AllOwned' /\ AllServed'
      BY <1>1, <2>1, <2>2, IdleFair
    <2> QED BY <1>2, <2>1, <2>3 DEF BatchedInv
  <1>4. CASE Call(c)
    <2>1. /\ Typed' /\ Blame' /\ AllSound' /\ client[c].pc = "idle"
          /\ \/ Panicked
             \/ SameHeld /\ Becomes(c, GoesTo(client[c], "closed"))
             \/ /\ SameHeld
                /\ \E op \in Ops, k \in Pool : Becomes(c, Calling(client[c].call + 1, op, k))
      BY <1>1, <1>4, CallStep
    <2>2. CASE Panicked
      <3>1. client' \in [Clients -> ClientStates]
        BY <2>1 DEF Typed
      <3>2. AllOwned' /\ AllServed'
        BY <1>1, <2>2, <3>1, PanickedFair
      <3>3. Begun'
        BY <1>1, <2>2, GoesToState DEF Panicked, Begun, Typed
      <3> QED BY <2>1, <3>2, <3>3 DEF BatchedInv
    <2>3. CASE SameHeld /\ Becomes(c, GoesTo(client[c], "closed"))
      <3>1. AllOwned' /\ AllServed'
        BY <1>1, <2>3, GivesUpFair
      <3>2. Begun'
        BY <1>2, <2>1, <2>3
      <3> QED BY <2>1, <3>1, <3>2 DEF BatchedInv
    <2>4. CASE /\ SameHeld
               /\ \E op \in Ops, k \in Pool : Becomes(c, Calling(client[c].call + 1, op, k))
      <3>1. PICK op \in Ops, k \in Pool : Becomes(c, Calling(client[c].call + 1, op, k))
        BY <2>4
      <3>2. AllOwned' /\ AllServed'
        BY <1>1, <2>4, <3>1, CallsFair
      <3>3. Begun'
        BY <1>2, <2>1, <3>1
      <3> QED BY <2>1, <3>2, <3>3 DEF BatchedInv
    <2> QED BY <2>1, <2>2, <2>3, <2>4
  <1>5. CASE Submit(c) \/ Handover(c)
    <2>1. Typed' /\ Blame' /\ AllSound' /\ \E k \in Pool : Submitted(c, k)
      BY <1>1, <1>5, SubmitStep, HandoverStep
    <2>2. PICK k \in Pool : Submitted(c, k)
      BY <2>1
    <2>3. AllOwned' /\ AllServed'
      BY <1>1, <2>2, SubmittedFair
    <2>4. Begun'
      <3>1. client[c].pc = "submit" /\ Becomes(c, GoesTo(client[c], "wait"))
        BY <2>2 DEF Submitted
      <3> QED BY <1>2, <3>1
    <2> QED BY <2>1, <2>3, <2>4 DEF BatchedInv
  <1>6. CASE Return(c)
    <2>1. client[c].pc = "done" => relay.made
      BY <1>1 DEF Begun
    <2>2. /\ Typed' /\ Blame' /\ AllSound' /\ SameHeld
          /\ client[c].pc = "done" /\ Becomes(c, Idle(client[c].call))
      BY <1>1, <1>6, <2>1, ReturnStep
    <2>3. AllOwned' /\ AllServed'
      BY <1>1, <2>2, IdleFair
    <2> QED BY <1>2, <2>2, <2>3 DEF BatchedInv
  <1> QED BY <1>3, <1>4, <1>5, <1>6 DEF Client

\* Nothing changes for the clients.
LEMMA UnseenInv ==
  ASSUME BatchedInv, Typed', Blame', AllSound', SameHeld, client' = client, relay.made => relay'.made
  PROVE  BatchedInv'
  <1>1. AllOwned' /\ AllServed'
    BY NoClient DEF BatchedInv
  <1>2. Begun'
    BY DEF BatchedInv, Begun
  <1> QED BY <1>1, <1>2 DEF BatchedInv

LEMMA ErrorInv ==
  ASSUME BatchedInv, Typed', Blame', AllSound', SameHeld, ErrorSent, relay.made => relay'.made
  PROVE  BatchedInv'
  <1>1. AllOwned' /\ AllServed'
    BY ErrorSentFair DEF BatchedInv
  <1>2. Begun'
    BY BegunStep DEF BatchedInv, ErrorSent, Becomes
  <1> QED BY <1>1, <1>2 DEF BatchedInv

LEMMA PanicInv ==
  ASSUME BatchedInv, Typed', Blame', AllSound', Panicked, relay.made => relay'.made
  PROVE  BatchedInv'
  <1>1. client' \in [Clients -> ClientStates]
    BY DEF Typed
  <1>2. AllOwned' /\ AllServed'
    BY <1>1, PanickedFair DEF BatchedInv
  <1>3. \A c \in Clients : client'[c].pc = "closed"
    BY GoesToState DEF Panicked, BatchedInv, Typed
  <1> QED BY <1>2, <1>3 DEF BatchedInv, Begun

\* A step of a batcher.
LEMMA BatcherInv ==
  ASSUME BatchedInv, NEW k \in Pool, Batcher(k), relay.made => relay'.made
  PROVE  BatchedInv'
  <1>1. Typed /\ Blame /\ AllSound /\ AllOwned /\ AllServed /\ Begun
    BY DEF BatchedInv
  <1>2. CASE TakeRequest(k) \/ Timeout(k) \/ Write(k) \/ WriteFails(k)
    <2>1. Typed' /\ Blame' /\ AllSound' /\ SameHeld /\ client' = client
      BY <1>1, <1>2, TakeRequestStep, TimeoutStep, WriteStep, WriteFailsStep
    <2> QED BY <2>1, UnseenInv
  <1>3. CASE Do(k)
    <2>1. CallsDiffer(batcher[k].reqs)
      BY <1>3, BatchDiffers
    <2>2. /\ Typed' /\ Blame' /\ AllSound' /\ Batched(k) /\ OthersSame(k)
          /\ UNCHANGED <<client, reader>>
      BY <1>1, <1>3, <2>1, DoStep
    <2>3. AllOwned' /\ AllServed'
      BY <1>1, <2>2, BatchedFair
    <2>4. Begun'
      BY <1>1, <2>2 DEF Begun
    <2> QED BY <2>2, <2>3, <2>4 DEF BatchedInv
  <1>4. CASE BatcherOops(k)
    <2>1. Typed' /\ Blame' /\ AllSound' /\ SameHeld /\ ErrorSent
      BY <1>1, <1>4, BatcherOopsStep
    <2> QED BY <2>1, ErrorInv
  <1> QED BY <1>2, <1>3, <1>4 DEF Batcher

\* A step of a reader.
LEMMA ReaderInv ==
  ASSUME BatchedInv, NEW k \in Pool, Reader(k), relay.made => relay'.made
  PROVE  BatchedInv'
  <1>1. Typed /\ Blame /\ AllSound /\ AllOwned /\ AllServed /\ Begun
    BY DEF BatchedInv
  <1>2. CASE TakeBatch(k)
    <2>1. Typed' /\ Blame' /\ AllSound' /\ Taken(k) /\ OthersSame(k) /\ client' = client
      BY <1>1, <1>2, TakeBatchStep
    <2>2. AllOwned' /\ AllServed'
      BY <1>1, <2>1, TakenFair
    <2>3. Begun'
      BY <1>1, <2>1 DEF Begun
    <2> QED BY <2>1, <2>2, <2>3 DEF BatchedInv
  <1>3. CASE Read(k)
    <2>1. Typed' /\ Blame' /\ AllSound' /\ Delivery(k) /\ OthersSame(k)
      BY <1>1, <1>3, ReadStep
    <2>2. AllOwned' /\ AllServed'
      BY <1>1, <2>1, DeliveryFair
    <2>3. Begun'
      <3>1. PICK h \in Handles : Waits(h)
              /\ Becomes(h.client, Answered(client[h.client], [handle |-> h, of |-> h]))
        BY <2>1 DEF Delivery
      <3>2. h.client \in Clients /\ client[h.client].pc = "wait"
        BY <3>1, HandleFields DEF Waits
      <3>3. \A d \in Clients : client'[d] = client[d] \/ client[d].pc = "wait"
        BY <3>1, <3>2 DEF Becomes
      <3> QED BY <1>1, <3>3, BegunStep
    <2> QED BY <2>1, <2>2, <2>3 DEF BatchedInv
  <1>4. CASE MapRace(k)
    <2>1. Typed' /\ Blame' /\ AllSound' /\ Panicked
      BY <1>1, <1>4, MapRaceStep
    <2> QED BY <2>1, PanicInv
  <1>5. CASE CloseChannels(k)
    <2>1. Typed' /\ Blame' /\ AllSound' /\ (Panicked \/ (Closed(k) /\ OthersSame(k)))
      BY <1>1, <1>5, CloseChannelsStep
    <2>2. CASE Panicked
      BY <2>1, <2>2, PanicInv
    <2>3. CASE Closed(k) /\ OthersSame(k)
      <3>1. client' \in [Clients -> ClientStates]
        BY <2>1 DEF Typed
      <3>2. AllOwned' /\ AllServed'
        BY <1>1, <2>3, <3>1, ClosedFair
      <3>3. \A d \in Clients : client'[d] = client[d] \/ client[d].pc = "wait"
        BY <2>3 DEF Closed
      <3>4. Begun'
        BY <1>1, <3>3, BegunStep
      <3> QED BY <2>1, <3>2, <3>4 DEF BatchedInv
    <2> QED BY <2>1, <2>2, <2>3
  <1>6. CASE ReadFails(k)
    <2>1. Typed' /\ Blame' /\ AllSound' /\ SameHeld /\ client' = client
      BY <1>1, <1>6, ReadFailsStep
    <2> QED BY <2>1, UnseenInv
  <1>7. CASE ReaderOops(k)
    <2>1. Typed' /\ Blame' /\ AllSound' /\ (Panicked \/ (SameHeld /\ ErrorSent))
      BY <1>1, <1>7, ReaderOopsStep
    <2> QED BY <2>1, PanicInv, ErrorInv
  <1> QED BY <1>2, <1>3, <1>4, <1>5, <1>6, <1>7 DEF Reader

LEMMA NextInv ==
  ASSUME BatchedInv, [Next]_vars
  PROVE  BatchedInv'
  <1>1. CASE Next
    <2>1. relay.made => relay'.made
      BY <1>1, RelayStays DEF BatchedInv
    <2>2. Typed /\ Blame /\ AllSound
      BY DEF BatchedInv
    <2>3. ASSUME NEW c \in Clients, NewHandler(c) \/ Call(c) \/ Client(c) PROVE BatchedInv'
      BY <2>1, <2>3, ClientInv
    <2>4. CASE AddConn
      <3>1. Typed' /\ Blame' /\ AllSound' /\ SameHeld /\ client' = client
        BY <2>2, <2>4, AddConnStep
      <3> QED BY <2>1, <3>1, UnseenInv
    <2>5. ASSUME NEW k \in Pool, Serve(k) \/ Break(k) PROVE BatchedInv'
      <3>1. Typed' /\ Blame' /\ AllSound' /\ SameHeld /\ client' = client
        BY <2>2, <2>5, ServeStep, BreakStep
      <3> QED BY <2>1, <3>1, UnseenInv
    <2> QED BY <1>1, <2>1, <2>3, <2>4, <2>5, BatcherInv, ReaderInv DEF Next
  <1>2. CASE UNCHANGED vars
    <2>1. Typed' /\ Blame' /\ AllSound' /\ SameHeld /\ client' = client /\ (relay.made => relay'.made)
      BY <1>2 DEF vars, BatchedInv, Typed, Blame, AllSound, Sound, SameHeld, Pending, Queued, BatchSize
    <2> QED BY <2>1, UnseenInv
  <1> QED BY <1>1, <1>2

(***************************************************************************)
(* The theorems.                                                           *)
(***************************************************************************)

\* The invariant holds of every state that the relay can reach.
THEOREM Invariant == Spec => []BatchedInv
  <1>1. Init => BatchedInv
    BY InitInv
  <1>2. BatchedInv /\ [Next]_vars => BatchedInv'
    BY NextInv
  <1> QED BY <1>1, <1>2, PTL DEF Spec

\* The channels and the sockets keep to their capacities, and a batch is held
\* back for no more requests than the batch size, or two when that is none or one
\* (newConn and the loop of batcher).
THEOREM TypeCorrect == Spec => []TypeOK
  <1>1. BatchedInv => TypeOK
    <2> SUFFICES ASSUME BatchedInv PROVE TypeOK
      OBVIOUS
    <2>1. relay \in [made : BOOLEAN, batchSize : Nat] /\ pool \in 0..MaxPool /\ pool \in Nat
      BY BatchedAssumption DEF BatchedInv, Typed
    <2>2. ASSUME NEW c \in Clients
          PROVE  client[c].call \in 0..Len(Script[c]) /\ client[c].conn \in 0..pool
      <3>1. /\ client[c].call \in Nat /\ client[c].conn \in Nat
            /\ client[c].call <= Len(Script[c]) /\ client[c].conn <= pool
        BY ClientFields DEF BatchedInv, Typed, ClientBounds
      <3> QED BY <2>1, <3>1, ScriptType
    <2>3. ASSUME NEW k \in Pool
          PROVE  /\ Len(reqchan[k]) <= BatchSize
                 /\ Len(batcher[k].reqs) <= IF BatchSize <= 1 THEN 2 ELSE BatchSize
                 /\ Len(batchchan[k]) <= 1
                 /\ Len(link[k].toServer) <= SocketRoom /\ Len(link[k].toProxy) <= SocketRoom
      BY DEF BatchedInv, AllSound, Sound, ConnOK, BatcherOK
    <2> QED BY <2>1, <2>2, <2>3 DEF TypeOK
  <1> QED BY <1>1, Invariant, PTL

\* On a working link the responses to come are those of the reader's batch and
\* then those of the batch in the channel, whatever base the batcher has counted
\* opaque values from, so that reader never panics with "Batch out of sync".
THEOREM NeverOutOfSync == Spec => []InSync
  <1>1. BatchedInv => InSync
    <2> SUFFICES ASSUME BatchedInv, NEW k \in Pool, link[k].up
                 PROVE  LET coming == StillToCome(k)
                            n == Cardinality(DOMAIN reader[k].responses)
                            opaques(s) == {s[m].opaque : m \in DOMAIN s}
                            queued == IF batchchan[k] = <<>> THEN <<>>
                                                             ELSE Head(batchchan[k]).responses
                        IN  /\ Len(coming) = n + Cardinality(DOMAIN queued)
                            /\ opaques(SubSeq(coming, 1, n)) = DOMAIN reader[k].responses
                            /\ opaques(SubSeq(coming, n + 1, Len(coming))) = DOMAIN queued
      BY DEF InSync
    <2> DEFINE w == reader[k].responses
               q == IF batchchan[k] = <<>> THEN <<>> ELSE Head(batchchan[k]).responses
               l == link[k]
               out == batcher[k].out
    <2>1. q = QueuedOf(batchchan[k]).responses
      BY DEF QueuedOf, NoBatch
    <2>2. InStep(l, out, w, q)
      BY <2>1 DEF BatchedInv, AllSound, Sound, ConnOK
    <2>3. l \in LinkStates /\ out \in Seq(Commands) /\ l.up
      BY ConnTypes DEF BatchedInv
    <2>4. StillToCome(k) = l.toProxy \o l.toServer \o out
      BY DEF StillToCome
    <2> HIDE DEF w, q, l, out
    <2>5. Splits(l.toProxy \o l.toServer \o out, w, q)
      BY ONLY <2>2, <2>3, InStepSplit
    <2> QED BY <2>4, <2>5 DEF Splits, w, q
  <1> QED BY <1>1, Invariant, PTL

\* "This is done to prevent possible confusion between requests, where one
\* request would get another's data" (batchIntoBuffer): it does prevent it, with
\* any number of clients and connections, and with links that break.
THEOREM NoConfusion == Spec => []AnswersAreOwn
  <1>1. BatchedInv => AnswersAreOwn
    BY DEF BatchedInv, AllServed, Answering, ClientOK, GotOwn, AnswersAreOwn
  <1> QED BY <1>1, Invariant, PTL

\* A call that ends without an error has the answer to every one of its commands:
\* the reader closes the channel of a get only after all of them are in.
THEOREM NothingMissing == Spec => []AnswersAreComplete
  <1>1. BatchedInv => AnswersAreComplete
    BY DEF BatchedInv, AllServed, Answering, ClientOK, Complete, AnswersAreComplete
  <1> QED BY <1>1, Invariant, PTL

\* A process whose links and first dial have not failed has not panicked.
THEOREM PanicsForCause == Spec => []OnlyFaultsPanic
  <1>1. BatchedInv => OnlyFaultsPanic
    BY DEF BatchedInv, Blame, OnlyFaultsPanic
  <1> QED BY <1>1, Invariant, PTL

=============================================================================
