---------------------------- MODULE ChunkedProofs ----------------------------
(***************************************************************************)
(* The chunked handler, for any number of connections, chunks and writes:  *)
(* the tokens keep the chunks of different writes apart.                   *)
(***************************************************************************)
EXTENDS Chunked, FiniteSetTheorems, SequenceTheorems, TLAPS

(***************************************************************************)
(* The inductive invariant.  Its parts are predicates of the values that   *)
(* the writes so far, ws, have.                                            *)
(***************************************************************************)

MD == [num : Nat, token : 1..MaxTokens, exptime : Nat]

PutsInHand == [kind : Puts, val : Seq(Piece), exptime : Nat, deadline : Nat,
               token : 1..MaxTokens]

Works == [md : MD \cup {None}, put : PutsInHand \cup {None}, i : Nat \ {0},
          buf : Seq(Piece), miss : BOOLEAN, err : {"nil", "Busy"}]

Errors == {"nil", "Busy", "IOError"} \cup CommandErrors

Replies == [err : Errors, val : Seq(Piece) \cup {None}]

Payload == {s \in Seq(Data) : Len(s) <= MaxPieces}

AllRequests == [op : Ops, val : Payload, exptime : Nat]

Labels == {"idle", "SetMeta", "SetChunk", "GetMeta", "Read", "DelMeta",
           "DelChunk", "TouchChunk", "TouchMeta", "stuck", "done"}

\* Metadata tell how many chunks the write under their token has.
Announced(md, ws) == md \in MD /\ md.token <= Len(ws) /\ md.num = Len(ws[md.token])

MetaOK(item, ws) == item \in MetaItem /\ Announced(item.val, ws)

\* A chunk item is a piece of the write under its token, at its index.
ChunkOK(item, i, ws) ==
  /\ item \in ChunkItem
  /\ item.val.token <= Len(ws) /\ i <= Len(ws[item.val.token])
  /\ item.val.piece = ws[item.val.token][i]

ServerOK ==
  /\ meta = None \/ MetaOK(meta, written)
  /\ chunk \in [Indices -> ChunkItem \cup {None}]
  /\ \A i \in Indices : chunk[i] = None \/ ChunkOK(chunk[i], i, written)

\* The requests that will draw a token of their own.
Drawing == {c \in Busy : req[c].op \in Extends /\ pc[c] \in {"GetMeta", "Read"}}

\* With every write a value is longer by one request's at most.
WritesOK(ws) ==
  /\ ws \in Seq(Seq(Piece))
  /\ \A t \in 1..Len(ws) : Len(ws[t]) <= MaxPieces * t

TokensOK ==
  /\ WritesOK(written)
  /\ IsFiniteSet(Drawing)
  /\ Len(written) + Cardinality(Drawing) <= MaxTokens

VarsOK ==
  /\ now \in Nat
  /\ pc \in [Conns -> Labels]
  /\ req \in [Conns -> AllRequests \cup {None}]
  /\ work \in [Conns -> Works]
  /\ reply \in [Conns -> Replies \cup {None}]

\* A goroutine that writes chunks has drawn the token its value is under.
Writing(put, ws) ==
  put \in PutsInHand /\ put.token <= Len(ws) /\ ws[put.token] = put.val

\* The chunks read so far, if all of them answered and all tokens agreed.
Reading(w, ws) ==
  /\ w.i <= w.md.num + 1 /\ Len(w.buf) <= w.i - 1
  /\ (w.err = "nil" /\ ~w.miss /\ Len(w.buf) = w.i - 1) =>
       \A n \in 1..Len(w.buf) : w.buf[n] = ws[w.md.token][n]

\* A goroutine at p with the local variables w, the request r and the reply a.
Local(p, w, r, a, ws) ==
  /\ p # "idle" => r \in AllRequests
  /\ w.md # None => Len(w.buf) <= w.md.num
  /\ p \in {"idle", "GetMeta"} => w = NoWork
  /\ p \in {"SetMeta", "SetChunk"} => Writing(w.put, ws)
  /\ p = "SetMeta" => w.i = 1
  /\ p = "SetChunk" => w.i <= Len(w.put.val)
  /\ p \in {"Read", "DelMeta", "DelChunk", "TouchChunk", "TouchMeta"} => Announced(w.md, ws)
  /\ p = "Read" => Reading(w, ws)
  /\ (p = "done" /\ r.op \in {"Get", "Gat"} /\ a.val # None) =>
       /\ Announced(w.md, ws)
       /\ Len(w.buf) = w.md.num => a.val = ws[w.md.token]

ConnOK(c) == Local(pc[c], work[c], req[c], reply[c], written)

ChunkedInv ==
  /\ VarsOK
  /\ ServerOK
  /\ TokensOK
  /\ \A c \in Conns : ConnOK(c)

-----------------------------------------------------------------------------
(***************************************************************************)
(* More writes: what has been written stays.                               *)
(***************************************************************************)

Grown(ws, new) ==
  /\ ws \in Seq(Seq(Piece)) /\ new \in Seq(Seq(Piece))
  /\ Len(ws) <= Len(new) /\ \A t \in 1..Len(ws) : new[t] = ws[t]

LEMMA TokenIs ==
  ASSUME NEW ws \in Seq(Seq(Piece)), NEW t \in 1..MaxTokens, t <= Len(ws)
  PROVE  t \in 1..Len(ws) /\ t \in Nat /\ ws[t] \in Seq(Piece) /\ Len(ws[t]) \in Nat
  <1>1. Len(ws) \in Nat /\ MaxTokens \in Nat
    BY ChunkedAssumption
  <1>2. t \in 1..Len(ws) /\ t \in Nat
    BY <1>1
  <1>3. ws[t] \in Seq(Piece)
    BY <1>2
  <1> QED BY <1>2, <1>3

LEMMA AnnouncedStays ==
  ASSUME NEW ws, NEW new, Grown(ws, new), NEW md, Announced(md, ws)
  PROVE  Announced(md, new) /\ new[md.token] = ws[md.token]
  <1>1. /\ md \in MD /\ md.token \in 1..MaxTokens /\ md.token <= Len(ws)
        /\ md.num = Len(ws[md.token])
    BY DEF Announced, MD
  <1>2. /\ ws \in Seq(Seq(Piece)) /\ Len(ws) <= Len(new)
        /\ \A t \in 1..Len(ws) : new[t] = ws[t]
        /\ Len(ws) \in Nat /\ Len(new) \in Nat
    BY DEF Grown
  <1>3. md.token \in 1..Len(ws) /\ md.token \in Nat
    BY <1>1, <1>2, TokenIs
  <1>4. new[md.token] = ws[md.token] /\ md.token <= Len(new)
    BY <1>1, <1>2, <1>3
  <1> QED BY <1>1, <1>4 DEF Announced

LEMMA ChunkStays ==
  ASSUME NEW ws, NEW new, Grown(ws, new), NEW item, NEW i, ChunkOK(item, i, ws)
  PROVE  ChunkOK(item, i, new)
  <1> DEFINE t == item.val.token
  <1>1. /\ item \in ChunkItem /\ t \in 1..MaxTokens /\ t <= Len(ws)
        /\ i <= Len(ws[t]) /\ item.val.piece = ws[t][i]
    BY DEF ChunkOK, ChunkItem
  <1> HIDE DEF t
  <1>2. /\ ws \in Seq(Seq(Piece)) /\ new \in Seq(Seq(Piece)) /\ Len(ws) <= Len(new)
        /\ \A s \in 1..Len(ws) : new[s] = ws[s]
    BY DEF Grown
  <1>3. Len(ws) \in Nat /\ Len(new) \in Nat
    BY <1>2
  <1>4. t \in 1..Len(ws) /\ t \in Nat
    BY <1>1, <1>2, TokenIs
  <1>5. new[t] = ws[t] /\ t <= Len(new)
    BY <1>1, <1>2, <1>3, <1>4
  <1> QED BY <1>1, <1>5 DEF ChunkOK, t

LEMMA WritingStays ==
  ASSUME NEW ws, NEW new, Grown(ws, new), NEW put, Writing(put, ws)
  PROVE  Writing(put, new)
  <1>1. /\ put \in PutsInHand /\ put.token \in 1..MaxTokens /\ put.token <= Len(ws)
        /\ ws[put.token] = put.val
    BY DEF Writing, PutsInHand
  <1>2. /\ ws \in Seq(Seq(Piece)) /\ Len(ws) <= Len(new)
        /\ \A s \in 1..Len(ws) : new[s] = ws[s]
        /\ Len(ws) \in Nat /\ Len(new) \in Nat
    BY DEF Grown
  <1>3. put.token \in 1..Len(ws) /\ put.token \in Nat
    BY <1>1, <1>2, TokenIs
  <1>4. new[put.token] = ws[put.token] /\ put.token <= Len(new)
    BY <1>1, <1>2, <1>3
  <1> QED BY <1>1, <1>4 DEF Writing

LEMMA LocalStays ==
  ASSUME NEW ws, NEW new, Grown(ws, new), NEW p, NEW w, NEW r, NEW a, Local(p, w, r, a, ws)
  PROVE  Local(p, w, r, a, new)
  <1>1. Announced(w.md, ws) => Announced(w.md, new) /\ new[w.md.token] = ws[w.md.token]
    BY AnnouncedStays
  <1>2. Writing(w.put, ws) => Writing(w.put, new)
    BY WritingStays
  <1>3. p = "Read" => Reading(w, new)
    BY <1>1 DEF Local, Reading
  <1>4. (p = "done" /\ r.op \in {"Get", "Gat"} /\ a.val # None) =>
          /\ Announced(w.md, new)
          /\ Len(w.buf) = w.md.num => a.val = new[w.md.token]
    BY <1>1 DEF Local
  <1> QED BY <1>1, <1>2, <1>3, <1>4 DEF Local

\* The servers stay as they are.
LEMMA ServerStays ==
  ASSUME ServerOK, Grown(written, written'), UNCHANGED cache
  PROVE  ServerOK'
  <1>1. meta' = meta /\ chunk' = chunk
    BY DEF cache
  <1>2. MetaOK(meta, written) => MetaOK(meta, written')
    BY AnnouncedStays DEF MetaOK
  <1>3. \A i \in Indices : ChunkOK(chunk[i], i, written) => ChunkOK(chunk[i], i, written')
    BY ChunkStays
  <1> QED BY <1>1, <1>2, <1>3 DEF ServerOK

LEMMA SameWrites ==
  ASSUME TokensOK PROVE Grown(written, written)
  <1>1. written \in Seq(Seq(Piece)) /\ Len(written) \in Nat
    BY DEF TokensOK, WritesOK
  <1> QED BY <1>1 DEF Grown

\* The metadata or one chunk changes, and nothing is written anew.
LEMMA MetaChanges ==
  ASSUME ServerOK, written' = written, chunk' = chunk,
         meta' = None \/ MetaOK(meta', written)
  PROVE  ServerOK'
  BY DEF ServerOK

LEMMA ChunkChanges ==
  ASSUME ServerOK, written' = written, meta' = meta, NEW i, NEW item,
         chunk' = [chunk EXCEPT ![i] = item],
         i \in Indices => item = None \/ ChunkOK(item, i, written)
  PROVE  ServerOK'
  <1>1. i \in Indices => item \in ChunkItem \cup {None}
    BY DEF ChunkOK
  <1>2. chunk' \in [Indices -> ChunkItem \cup {None}]
    BY <1>1 DEF ServerOK
  <1>3. \A j \in Indices : chunk'[j] = IF j = i THEN item ELSE chunk[j]
    BY DEF ServerOK
  <1> QED BY <1>2, <1>3 DEF ServerOK

-----------------------------------------------------------------------------
(***************************************************************************)
(* Steps in general.                                                       *)
(***************************************************************************)

Draws(p, r) == p \in {"GetMeta", "Read"} /\ r.op \in Extends

\* Who is to draw a token, when one connection moves on.
LEMMA DrawingStep ==
  ASSUME VarsOK, IsFiniteSet(Drawing), NEW c \in Conns, NEW p, NEW r,
         pc' = [pc EXCEPT ![c] = p], req' = [req EXCEPT ![c] = r]
  PROVE  /\ IsFiniteSet(Drawing') /\ Cardinality(Drawing) \in Nat
         /\ c \in Drawing <=> Draws(pc[c], req[c])
         /\ (Draws(p, r) /\ c \in Drawing) => Cardinality(Drawing') = Cardinality(Drawing)
         /\ (Draws(p, r) /\ c \notin Drawing) => Cardinality(Drawing') = Cardinality(Drawing) + 1
         /\ (~Draws(p, r) /\ c \in Drawing) => Cardinality(Drawing') = Cardinality(Drawing) - 1
         /\ (~Draws(p, r) /\ c \notin Drawing) => Cardinality(Drawing') = Cardinality(Drawing)
  <1>1. /\ pc'[c] = p /\ req'[c] = r
        /\ \A q \in Conns \ {c} : pc'[q] = pc[q] /\ req'[q] = req[q]
    BY DEF VarsOK
  <1>2. \A q \in Conns : q \in Drawing <=> Draws(pc[q], req[q])
    BY DEF Drawing, Busy, Draws
  <1>3. \A q \in Conns : q \in Drawing' <=> Draws(pc'[q], req'[q])
    BY DEF Drawing, Busy, Draws
  <1>4. Drawing \subseteq Conns /\ Drawing' \subseteq Conns
    BY DEF Drawing, Busy
  <1>5. Cardinality(Drawing) \in Nat
    BY FS_CardinalityType
  <1>6. Draws(p, r) => Drawing' = Drawing \cup {c}
    BY <1>1, <1>2, <1>3, <1>4
  <1>7. ~Draws(p, r) => Drawing' = Drawing \ {c}
    BY <1>1, <1>2, <1>3, <1>4
  <1>8. /\ IsFiniteSet(Drawing \cup {c})
        /\ c \notin Drawing => Cardinality(Drawing \cup {c}) = Cardinality(Drawing) + 1
    BY FS_AddElement
  <1>9. /\ IsFiniteSet(Drawing \ {c})
        /\ c \in Drawing => Cardinality(Drawing \ {c}) = Cardinality(Drawing) - 1
    BY FS_RemoveElement
  <1>10. c \in Drawing => Drawing \cup {c} = Drawing
    OBVIOUS
  <1>11. c \notin Drawing => Drawing \ {c} = Drawing
    OBVIOUS
  <1> QED BY <1>2, <1>5, <1>6, <1>7, <1>8, <1>9, <1>10, <1>11

\* One connection moves on.  Either nothing is written anew and it will not draw
\* a token that it was not going to draw, or it draws one.
LEMMA ConnStep ==
  ASSUME ChunkedInv, NEW c \in Conns, NEW p \in Labels, NEW w \in Works,
         NEW r \in AllRequests \cup {None}, NEW a \in Replies \cup {None},
         pc' = [pc EXCEPT ![c] = p], work' = [work EXCEPT ![c] = w],
         req' = [req EXCEPT ![c] = r], reply' = [reply EXCEPT ![c] = a],
         now' = now, Grown(written, written'), WritesOK(written'), ServerOK',
         Len(written') + (IF Draws(p, r) THEN 1 ELSE 0) <=
           Len(written) + (IF Draws(pc[c], req[c]) THEN 1 ELSE 0)
         \/ (Len(written) + Cardinality(Drawing) < MaxTokens
             /\ ~Draws(pc[c], req[c])
             /\ Len(written') + (IF Draws(p, r) THEN 1 ELSE 0) <= Len(written) + 1),
         Local(p, w, r, a, written')
  PROVE  ChunkedInv'
  <1>1. VarsOK /\ ServerOK /\ TokensOK /\ \A q \in Conns : ConnOK(q)
    BY DEF ChunkedInv
  <1>2. VarsOK'
    BY <1>1 DEF VarsOK
  <1>3. /\ pc'[c] = p /\ work'[c] = w /\ req'[c] = r /\ reply'[c] = a
        /\ \A q \in Conns \ {c} : /\ pc'[q] = pc[q] /\ work'[q] = work[q]
                                  /\ req'[q] = req[q] /\ reply'[q] = reply[q]
    BY <1>1 DEF VarsOK
  <1>4. ASSUME NEW q \in Conns PROVE ConnOK(q)'
    <2>1. CASE q = c
      BY <1>3, <2>1 DEF ConnOK
    <2>2. CASE q # c
      <3>1. Local(pc[q], work[q], req[q], reply[q], written)
        BY <1>1 DEF ConnOK
      <3>2. Local(pc[q], work[q], req[q], reply[q], written')
        BY <3>1, LocalStays
      <3> QED BY <1>3, <2>2, <3>2 DEF ConnOK
    <2> QED BY <2>1, <2>2
  <1>5. TokensOK'
    <2>1. IsFiniteSet(Drawing) /\ Len(written) + Cardinality(Drawing) <= MaxTokens
      BY <1>1 DEF TokensOK
    <2>2. /\ IsFiniteSet(Drawing') /\ Cardinality(Drawing) \in Nat
          /\ c \in Drawing <=> Draws(pc[c], req[c])
          /\ (Draws(p, r) /\ c \in Drawing) => Cardinality(Drawing') = Cardinality(Drawing)
          /\ (Draws(p, r) /\ c \notin Drawing) => Cardinality(Drawing') = Cardinality(Drawing) + 1
          /\ (~Draws(p, r) /\ c \in Drawing) => Cardinality(Drawing') = Cardinality(Drawing) - 1
          /\ (~Draws(p, r) /\ c \notin Drawing) => Cardinality(Drawing') = Cardinality(Drawing)
      BY <1>1, <2>1, DrawingStep
    <2>3. Len(written) \in Nat /\ Len(written') \in Nat /\ MaxTokens \in Nat
      BY ChunkedAssumption DEF Grown
    <2>4. Len(written') + Cardinality(Drawing') <= MaxTokens
      <3> DEFINE n == Cardinality(Drawing)
                 m == Cardinality(Drawing')
                 k == Len(written)
                 l == Len(written')
                 old == c \in Drawing
                 new == Draws(p, r)
      <3>1. /\ n \in Nat /\ k \in Nat /\ l \in Nat /\ MaxTokens \in Nat /\ k + n <= MaxTokens
            /\ (new /\ old => m = n) /\ (new /\ ~old => m = n + 1)
            /\ (~new /\ old => m = n - 1) /\ (~new /\ ~old => m = n)
            /\ \/ l + (IF new THEN 1 ELSE 0) <= k + (IF old THEN 1 ELSE 0)
               \/ k + n < MaxTokens /\ ~old /\ l + (IF new THEN 1 ELSE 0) <= k + 1
        BY <2>1, <2>2, <2>3
      <3> HIDE DEF n, m, k, l, old, new
      <3>2. new /\ old => l + m <= MaxTokens
        BY <3>1
      <3>3. new /\ ~old => l + m <= MaxTokens
        BY <3>1
      <3>4. ~new /\ old => l + m <= MaxTokens
        BY <3>1
      <3>5. ~new /\ ~old => l + m <= MaxTokens
        BY <3>1
      <3>6. l + m <= MaxTokens
        BY <3>2, <3>3, <3>4, <3>5
      <3> QED BY <3>6 DEF l, m
    <2> QED BY <2>2, <2>4 DEF TokensOK
  <1> QED BY <1>2, <1>4, <1>5 DEF ChunkedInv

\* The usual case: nothing is written anew, the request stays.
LEMMA PlainStep ==
  ASSUME ChunkedInv, NEW c \in Conns, NEW p \in Labels, NEW w \in Works,
         NEW a \in Replies \cup {None},
         pc' = [pc EXCEPT ![c] = p], work' = [work EXCEPT ![c] = w],
         reply' = [reply EXCEPT ![c] = a], req' = req,
         now' = now, written' = written, ServerOK',
         p \in {"GetMeta", "Read"} => pc[c] \in {"GetMeta", "Read"},
         Local(p, w, req[c], a, written)
  PROVE  ChunkedInv'
  <1>1. VarsOK /\ TokensOK
    BY DEF ChunkedInv
  <1>2. req' = [req EXCEPT ![c] = req[c]] /\ req[c] \in AllRequests \cup {None}
    BY <1>1 DEF VarsOK
  <1>3. Grown(written, written') /\ WritesOK(written')
    BY <1>1, SameWrites DEF TokensOK
  <1>4. Draws(p, req[c]) => Draws(pc[c], req[c])
    BY DEF Draws
  <1>5. Len(written') + (IF Draws(p, req[c]) THEN 1 ELSE 0) <=
          Len(written) + (IF Draws(pc[c], req[c]) THEN 1 ELSE 0)
    <2>1. Len(written) \in Nat
      BY <1>3 DEF Grown
    <2> QED BY <1>4, <2>1
  <1> QED BY <1>2, <1>3, <1>5, ConnStep

LEMMA Scaled ==
  ASSUME NEW n \in Nat, NEW a \in Nat, NEW b \in Nat, a <= b
  PROVE  n * a \in Nat /\ n * b \in Nat /\ n * a <= n * b
  <1>1. n * a \in Nat /\ n * b \in Nat /\ n * (b - a) \in Nat
    OBVIOUS
  <1>2. n * b = n * a + n * (b - a)
    OBVIOUS
  <1> QED BY <1>1, <1>2

-----------------------------------------------------------------------------
(***************************************************************************)
(* What memcached's commands leave behind.                                 *)
(***************************************************************************)

LEMMA StoreIs ==
  ASSUME NEW v, NEW e, NEW t
  PROVE  Store(v, e, t) = None \/ Store(v, e, t) = [val |-> v, exp |-> e]
  BY DEF Store, Live

LEMMA DeadlineType ==
  ASSUME NEW e \in Nat, NEW t \in Nat PROVE Deadline(e, t) \in Nat
  BY DEF Deadline

LEMMA MetaStored ==
  ASSUME NEW md, NEW ws, Announced(md, ws), NEW e \in Nat, NEW t \in Nat
  PROVE  \/ Store(md, Deadline(e, t), t) = None
         \/ MetaOK(Store(md, Deadline(e, t), t), ws)
  <1> DEFINE d == Deadline(e, t)
             item == [val |-> md, exp |-> d]
  <1>1. d \in Nat
    BY DeadlineType
  <1>2. Store(md, d, t) = None \/ Store(md, d, t) = item
    BY StoreIs
  <1>3. md \in [num : Nat, token : 1..MaxTokens, exptime : Nat]
    BY DEF Announced, MD
  <1> HIDE DEF d
  <1>4. item \in MetaItem /\ item.val = md
    BY <1>1, <1>3 DEF MetaItem
  <1>5. MetaOK(item, ws)
    BY <1>4 DEF MetaOK
  <1> QED BY <1>2, <1>5 DEF d

LEMMA ChunkStored ==
  ASSUME NEW ws, NEW i, NEW v \in [token : 1..MaxTokens, piece : Piece],
         v.token <= Len(ws), i <= Len(ws[v.token]), v.piece = ws[v.token][i],
         NEW e \in Nat, NEW t \in Nat
  PROVE  \/ Store(v, Deadline(e, t), t) = None
         \/ ChunkOK(Store(v, Deadline(e, t), t), i, ws)
  <1> DEFINE d == Deadline(e, t)
             item == [val |-> v, exp |-> d]
  <1>1. d \in Nat
    BY DeadlineType
  <1>2. Store(v, d, t) = None \/ Store(v, d, t) = item
    BY StoreIs
  <1> HIDE DEF d
  <1>3. item \in ChunkItem /\ item.val = v
    BY <1>1 DEF ChunkItem
  <1>4. ChunkOK(item, i, ws)
    BY <1>3 DEF ChunkOK
  <1> QED BY <1>2, <1>4 DEF d

LEMMA StoreMetaIs ==
  ASSUME ServerOK, now \in Nat, NEW put, Writing(put, written)
  PROVE  /\ StoreMeta(put).item = None \/ MetaOK(StoreMeta(put).item, written)
         /\ StoreMeta(put).err \in Errors
  <1> DEFINE md == Metadata(put)
             new == Store(md, Deadline(put.exptime, now), now)
  <1>1. /\ put \in PutsInHand /\ put.kind \in Puts /\ put.val \in Seq(Piece)
        /\ put.exptime \in Nat /\ put.deadline \in Nat /\ put.token \in 1..MaxTokens
        /\ put.token <= Len(written) /\ written[put.token] = put.val
    BY DEF Writing, PutsInHand
  <1>2. md.num = Len(put.val) /\ md.token = put.token /\ md \in MD
    <2>1. Len(put.val) \in Nat
      BY <1>1
    <2> QED BY <1>1, <2>1 DEF Metadata, MD
  <1>3. Announced(md, written)
    BY <1>1, <1>2 DEF Announced
  <1> HIDE DEF md
  <1>4. new = None \/ MetaOK(new, written)
    BY <1>1, <1>3, MetaStored
  <1> HIDE DEF new
  <1>5. Set(meta, md, put.exptime, now) = [item |-> new, err |-> "nil"]
    BY DEF Set, Result, new
  <1>6. meta = None \/ MetaOK(meta, written)
    BY DEF ServerOK
  <1>7. StoreMeta(put) \in {[item |-> new, err |-> "nil"], [item |-> meta, err |-> "KeyExists"],
                            [item |-> meta, err |-> "KeyNotFound"]}
    BY <1>1, <1>5 DEF StoreMeta, Puts, Add, Replace, Result, md
  <1> QED BY <1>4, <1>6, <1>7 DEF Errors, CommandErrors

LEMMA StoreChunkIs ==
  ASSUME now \in Nat, NEW put, Writing(put, written), NEW i \in Nat \ {0}, i <= Len(put.val)
  PROVE  StoreChunk(put, i).item = None \/ ChunkOK(StoreChunk(put, i).item, i, written)
  <1> DEFINE v == [token |-> put.token, piece |-> put.val[i]]
  <1>1. /\ put \in PutsInHand /\ put.val \in Seq(Piece)
        /\ put.exptime \in Nat /\ put.token \in 1..MaxTokens
        /\ put.token <= Len(written) /\ written[put.token] = put.val
    BY DEF Writing, PutsInHand
  <1>2. put.val[i] \in Piece
    <2>1. i \in 1..Len(put.val)
      BY <1>1
    <2> QED BY <1>1, <2>1
  <1>3. /\ v \in [token : 1..MaxTokens, piece : Piece] /\ v.token <= Len(written)
        /\ i <= Len(written[v.token]) /\ v.piece = written[v.token][i]
    BY <1>1, <1>2
  <1>4. StoreChunk(put, i).item = Store(v, Deadline(put.exptime, now), now)
    BY DEF StoreChunk, Set, Result
  <1> HIDE DEF v
  <1> QED BY <1>1, <1>3, <1>4, ChunkStored

\* Touching keeps the contents.
LEMMA TouchKeepsMeta ==
  ASSUME NEW item, NEW ws, item = None \/ MetaOK(item, ws), NEW e \in Nat, NEW t \in Nat
  PROVE  GAT(item, e, t).item = None \/ MetaOK(GAT(item, e, t).item, ws)
  <1>1. CASE item = None
    BY <1>1 DEF GAT, Result
  <1>2. CASE item # None
    <2>1. Announced(item.val, ws)
      BY <1>2 DEF MetaOK
    <2>2. GAT(item, e, t).item = Store(item.val, Deadline(e, t), t)
      BY <1>2 DEF GAT, Touch, Result
    <2> QED BY <2>1, <2>2, MetaStored
  <1> QED BY <1>1, <1>2

LEMMA TouchKeepsChunk ==
  ASSUME NEW item, NEW ws, NEW i, item = None \/ ChunkOK(item, i, ws),
         NEW e \in Nat, NEW t \in Nat
  PROVE  /\ Touch(item, e, t).item = None \/ ChunkOK(Touch(item, e, t).item, i, ws)
         /\ GAT(item, e, t).item = Touch(item, e, t).item
  <1>1. CASE item = None
    BY <1>1 DEF GAT, Touch, Result
  <1>2. CASE item # None
    <2>1. ChunkOK(item, i, ws)
      BY <1>2
    <2>2. /\ item.val \in [token : 1..MaxTokens, piece : Piece]
          /\ item.val.token <= Len(ws) /\ i <= Len(ws[item.val.token])
          /\ item.val.piece = ws[item.val.token][i]
      BY <2>1 DEF ChunkOK, ChunkItem
    <2>3. /\ Touch(item, e, t).item = Store(item.val, Deadline(e, t), t)
          /\ GAT(item, e, t).item = Touch(item, e, t).item
      BY <1>2 DEF GAT, Touch, Result
    <2> QED BY <2>2, <2>3, ChunkStored
  <1> QED BY <1>1, <1>2

\* The chunks that metadata announce have an index.
LEMMA IndexIs ==
  ASSUME NEW ws, WritesOK(ws), NEW md, Announced(md, ws), NEW i \in Nat \ {0}, i <= md.num
  PROVE  i \in Indices
  <1> DEFINE t == md.token
  <1>1. /\ t \in 1..MaxTokens /\ t <= Len(ws) /\ md.num = Len(ws[t]) /\ md.num \in Nat
    BY DEF Announced, MD
  <1> HIDE DEF t
  <1>2. ws \in Seq(Seq(Piece)) /\ \A s \in 1..Len(ws) : Len(ws[s]) <= MaxPieces * s
    BY DEF WritesOK
  <1>3. t \in 1..Len(ws) /\ t \in Nat
    BY <1>1, <1>2, TokenIs
  <1>4. md.num <= MaxPieces * t
    BY <1>1, <1>2, <1>3
  <1>5. MaxPieces \in Nat /\ MaxTokens \in Nat
    BY ChunkedAssumption
  <1>6. MaxPieces * t \in Nat /\ MaxPieces * MaxTokens \in Nat
        /\ MaxPieces * t <= MaxPieces * MaxTokens
    <2>1. t <= MaxTokens
      BY <1>1, <1>5
    <2> QED BY <1>3, <1>5, <2>1, Scaled
  <1>7. i <= MaxPieces * MaxTokens
    BY <1>1, <1>4, <1>6
  <1> QED BY <1>6, <1>7 DEF Indices

-----------------------------------------------------------------------------
(***************************************************************************)
(* What the steps of a goroutine have in common.                           *)
(***************************************************************************)

LEMMA Facts ==
  ASSUME ChunkedInv, NEW c \in Conns
  PROVE  /\ now \in Nat /\ pc[c] \in Labels /\ work[c] \in Works
         /\ req[c] \in AllRequests \cup {None} /\ reply[c] \in Replies \cup {None}
         /\ ServerOK /\ TokensOK /\ WritesOK(written)
         /\ Local(pc[c], work[c], req[c], reply[c], written)
         /\ pc[c] # "idle" => req[c] \in AllRequests
         /\ work' = work => work' = [work EXCEPT ![c] = work[c]]
         /\ work[c].md # None => Len(work[c].buf) <= work[c].md.num
  <1>1. VarsOK /\ ServerOK /\ TokensOK /\ ConnOK(c)
    BY DEF ChunkedInv
  <1>2. /\ now \in Nat /\ pc[c] \in Labels /\ work[c] \in Works
        /\ req[c] \in AllRequests \cup {None} /\ reply[c] \in Replies \cup {None}
    BY <1>1 DEF VarsOK
  <1>3. work = [work EXCEPT ![c] = work[c]]
    BY <1>1 DEF VarsOK
  <1>4. Local(pc[c], work[c], req[c], reply[c], written)
    BY <1>1 DEF ConnOK
  <1>5. /\ pc[c] # "idle" => req[c] \in AllRequests
        /\ work[c].md # None => Len(work[c].buf) <= work[c].md.num
    BY <1>4 DEF Local
  <1> QED BY <1>1, <1>2, <1>3, <1>4, <1>5 DEF TokensOK

LEMMA WorkIs ==
  ASSUME NEW w \in Works
  PROVE  /\ w.md \in MD \cup {None} /\ w.put \in PutsInHand \cup {None} /\ w.i \in Nat \ {0}
         /\ w.buf \in Seq(Piece) /\ w.miss \in BOOLEAN /\ w.err \in {"nil", "Busy"}
         /\ w = [md |-> w.md, put |-> w.put, i |-> w.i, buf |-> w.buf, miss |-> w.miss,
                 err |-> w.err]
  BY DEF Works

LEMMA WorkFrom ==
  ASSUME NEW md \in MD \cup {None}, NEW put \in PutsInHand \cup {None}, NEW i \in Nat \ {0},
         NEW buf \in Seq(Piece), NEW miss \in BOOLEAN, NEW err \in {"nil", "Busy"}
  PROVE  [md |-> md, put |-> put, i |-> i, buf |-> buf, miss |-> miss, err |-> err] \in Works
  BY DEF Works

LEMMA IncrementedWork ==
  ASSUME NEW w \in Works PROVE [w EXCEPT !.i = @ + 1] \in Works
  <1>1. /\ w.md \in MD \cup {None} /\ w.put \in PutsInHand \cup {None} /\ w.i + 1 \in Nat \ {0}
        /\ w.buf \in Seq(Piece) /\ w.err \in {"nil", "Busy"}
    BY WorkIs
  <1>2. w.miss \in BOOLEAN
    BY WorkIs
  <1>3. [w EXCEPT !.i = @ + 1] = [md |-> w.md, put |-> w.put, i |-> w.i + 1, buf |-> w.buf,
                                  miss |-> w.miss, err |-> w.err]
    BY WorkIs, SMTT(30)
  <1>4. [md |-> w.md, put |-> w.put, i |-> w.i + 1, buf |-> w.buf,
         miss |-> w.miss, err |-> w.err] \in Works
    BY ONLY <1>1, <1>2, WorkFrom, Zenon
  <1> QED BY <1>3, <1>4

Putting(v, put) == [v EXCEPT !.i = 1, !.put = put]

LEMMA PuttingWork ==
  ASSUME NEW v \in Works, NEW put \in PutsInHand, NEW w, w = Putting(v, put)
  PROVE  w \in Works /\ w.put = put /\ w.i = 1 /\ w.md = v.md /\ w.buf = v.buf
  <1>1. /\ v.md \in MD \cup {None} /\ put \in PutsInHand \cup {None} /\ 1 \in Nat \ {0}
        /\ v.buf \in Seq(Piece) /\ v.err \in {"nil", "Busy"}
    BY WorkIs
  <1>2. v.miss \in BOOLEAN
    BY WorkIs
  <1>3. [v EXCEPT !.i = 1] = [md |-> v.md, put |-> v.put, i |-> 1, buf |-> v.buf,
                              miss |-> v.miss, err |-> v.err]
    BY WorkIs, SMTT(30)
  <1>4. w = [md |-> v.md, put |-> put, i |-> 1, buf |-> v.buf, miss |-> v.miss, err |-> v.err]
    BY <1>3 DEF Putting
  <1>5. [md |-> v.md, put |-> put, i |-> 1, buf |-> v.buf,
         miss |-> v.miss, err |-> v.err] \in Works
    BY ONLY <1>1, <1>2, WorkFrom, Zenon
  <1> QED BY <1>4, <1>5

LEMMA MarkedWork ==
  ASSUME NEW w \in Works, NEW md \in MD PROVE [w EXCEPT !.md = md] \in Works
  <1>1. /\ md \in MD \cup {None} /\ w.put \in PutsInHand \cup {None} /\ w.i \in Nat \ {0}
        /\ w.buf \in Seq(Piece) /\ w.err \in {"nil", "Busy"}
    BY WorkIs
  <1>2. w.miss \in BOOLEAN
    BY WorkIs
  <1>3. [w EXCEPT !.md = md] = [md |-> md, put |-> w.put, i |-> w.i, buf |-> w.buf,
                                miss |-> w.miss, err |-> w.err]
    BY WorkIs
  <1>4. [md |-> md, put |-> w.put, i |-> w.i, buf |-> w.buf,
         miss |-> w.miss, err |-> w.err] \in Works
    BY ONLY <1>1, <1>2, WorkFrom, Zenon
  <1> QED BY <1>3, <1>4

LEMMA MissingWork ==
  ASSUME NEW w \in Works, NEW m \in BOOLEAN PROVE [w EXCEPT !.miss = m] \in Works
  <1>1. /\ w.md \in MD \cup {None} /\ w.put \in PutsInHand \cup {None} /\ w.i \in Nat \ {0}
        /\ w.buf \in Seq(Piece) /\ w.err \in {"nil", "Busy"}
    BY WorkIs
  <1>2. [w EXCEPT !.miss = m] = [md |-> w.md, put |-> w.put, i |-> w.i, buf |-> w.buf,
                                 miss |-> m, err |-> w.err]
    BY WorkIs
  <1>3. [md |-> w.md, put |-> w.put, i |-> w.i, buf |-> w.buf,
         miss |-> m, err |-> w.err] \in Works
    BY ONLY <1>1, m \in BOOLEAN, WorkFrom, Zenon
  <1> QED BY <1>2, <1>3

RefusedRead(w) == [w EXCEPT !.err = "Busy", !.i = @ + 1, !.buf = Append(@, Zero)]

LEMMA RefusedWork ==
  ASSUME NEW v \in Works, NEW w, w = RefusedRead(v)
  PROVE  /\ w \in Works /\ w.err = "Busy" /\ w.i = v.i + 1 /\ w.buf = Append(v.buf, Zero)
         /\ w.md = v.md
  <1> DEFINE b == Append(v.buf, Zero)
             k == v.i + 1
  <1>1. /\ v.md \in MD \cup {None} /\ v.put \in PutsInHand \cup {None} /\ k \in Nat \ {0}
        /\ b \in Seq(Piece) /\ "Busy" \in {"nil", "Busy"}
    BY WorkIs DEF Piece
  <1>2. v.miss \in BOOLEAN
    BY WorkIs
  <1>3. w = [v EXCEPT !.err = "Busy", !.i = k, !.buf = b]
    BY WorkIs DEF RefusedRead
  <1> HIDE DEF b, k
  <1>4. [v EXCEPT !.err = "Busy"] = [md |-> v.md, put |-> v.put, i |-> v.i, buf |-> v.buf,
                                     miss |-> v.miss, err |-> "Busy"]
    BY WorkIs
  <1>5. w = [md |-> v.md, put |-> v.put, i |-> k, buf |-> b, miss |-> v.miss, err |-> "Busy"]
    BY ONLY <1>3, <1>4
  <1>6. [md |-> v.md, put |-> v.put, i |-> k, buf |-> b, miss |-> v.miss, err |-> "Busy"]
          \in Works
    BY ONLY <1>1, <1>2, WorkFrom, Zenon
  <1> QED BY <1>5, <1>6 DEF b, k

\* The goroutine goes on with its request.
LEMMA GotoStep ==
  ASSUME ChunkedInv, NEW c \in Conns, NEW p \in Labels, NEW w \in Works,
         Goto(c, p), work' = [work EXCEPT ![c] = w], req' = req,
         now' = now, written' = written, ServerOK',
         p \in {"GetMeta", "Read"} => pc[c] \in {"GetMeta", "Read"},
         Local(p, w, req[c], reply[c], written)
  PROVE  ChunkedInv'
  <1>1. VarsOK
    BY DEF ChunkedInv
  <1>2. /\ pc' = [pc EXCEPT ![c] = p] /\ reply' = [reply EXCEPT ![c] = reply[c]]
        /\ reply[c] \in Replies \cup {None}
    BY <1>1 DEF Goto, VarsOK
  <1> QED BY <1>2, PlainStep

\* It answers, and not with a value that was read.
LEMMA ReturnStep ==
  ASSUME ChunkedInv, NEW c \in Conns, NEW w \in Works, NEW e \in Errors,
         pc[c] # "idle", Return(c, e, None), work' = [work EXCEPT ![c] = w], req' = req,
         now' = now, written' = written, ServerOK',
         w.md # None => Len(w.buf) <= w.md.num
  PROVE  ChunkedInv'
  <1> DEFINE a == [err |-> e, val |-> None]
  <1>1. /\ pc' = [pc EXCEPT ![c] = "done"] /\ reply' = [reply EXCEPT ![c] = a]
        /\ a \in Replies \cup {None} /\ a.val = None
    BY DEF Return, Replies
  <1>2. req[c] \in AllRequests
    BY Facts
  <1> HIDE DEF a
  <1>3. Local("done", w, req[c], a, written)
    BY <1>1, <1>2 DEF Local
  <1>4. "done" \in Labels
    BY DEF Labels
  <1> QED BY <1>1, <1>3, <1>4, PlainStep

\* It answers, with nothing else done.
LEMMA FailStep ==
  ASSUME ChunkedInv, NEW c \in Conns, NEW e \in Errors,
         pc[c] # "idle", Return(c, e, None), work' = work, req' = req,
         now' = now, written' = written, ServerOK'
  PROVE  ChunkedInv'
  <1>1. /\ work[c] \in Works /\ work' = [work EXCEPT ![c] = work[c]]
        /\ work[c].md # None => Len(work[c].buf) <= work[c].md.num
    BY Facts
  <1> QED BY <1>1, ReturnStep

\* It is done with a chunk of a delete or a touch.
LEMMA NextSimpleStep ==
  ASSUME ChunkedInv, NEW c \in Conns, NEW m \in BOOLEAN, NEW w \in Works,
         pc[c] \in {"DelChunk", "TouchChunk"}, w = [work[c] EXCEPT !.miss = m],
         NextChunk(c, w, NumChunks(c), AfterChunks(c, m)),
         req' = req, now' = now, written' = written, ServerOK'
  PROVE  ChunkedInv'
  <1> DEFINE v == [w EXCEPT !.i = @ + 1]
  <1>1. work[c] \in Works /\ Local(pc[c], work[c], req[c], reply[c], written) /\ pc[c] # "idle"
    BY Facts
  <1>2. v \in Works /\ v.md = work[c].md /\ v.buf = work[c].buf
    <2>1. w.md = work[c].md /\ w.buf = work[c].buf
      BY <1>1 DEF Works
    <2>2. v.md = w.md /\ v.buf = w.buf
      BY ONLY w \in Works DEF Works
    <2>3. v \in Works
      BY ONLY w \in Works, IncrementedWork
    <2> QED BY <2>1, <2>2, <2>3
  <1>3. /\ Announced(v.md, written) /\ req[c] \in AllRequests
        /\ v.md # None => Len(v.buf) <= v.md.num
    BY <1>1, <1>2 DEF Local
  <1>4. work' = [work EXCEPT ![c] = v]
    BY DEF NextChunk
  <1>5. \/ Goto(c, pc[c]) \/ Goto(c, "TouchMeta")
        \/ Return(c, "nil", None) \/ Return(c, "KeyNotFound", None)
    BY DEF NextChunk, AfterChunks
  <1> HIDE DEF v
  <1>6. ASSUME NEW p \in {"DelChunk", "TouchChunk", "TouchMeta"}, Goto(c, p) PROVE ChunkedInv'
    <2>1. p \in Labels
      BY DEF Labels
    <2>2. Local(p, v, req[c], reply[c], written)
      BY <1>3 DEF Local
    <2>3. ~(p \in {"GetMeta", "Read"})
      OBVIOUS
    <2> QED BY <1>2, <1>4, <1>6, <2>1, <2>2, <2>3, GotoStep
  <1>7. ASSUME NEW e \in Errors, Return(c, e, None) PROVE ChunkedInv'
    BY <1>1, <1>2, <1>3, <1>4, <1>7, ReturnStep
  <1>8. "nil" \in Errors /\ "KeyNotFound" \in Errors
    BY DEF Errors, CommandErrors
  <1> QED BY <1>5, <1>6, <1>7, <1>8

\* It draws a token for a new value, or acknowledges an expired one.
LEMMA StartPutStep ==
  ASSUME ChunkedInv, NEW c \in Conns, NEW kind \in Puts, NEW val \in Seq(Piece),
         NEW exptime \in Nat, NEW r \in AllRequests,
         StartPut(c, kind, val, exptime), req' = [req EXCEPT ![c] = r],
         now' = now, UNCHANGED cache,
         Draws(pc[c], req[c]) \/ Len(written) + Cardinality(Drawing) < MaxTokens,
         Len(val) <= MaxPieces * (Len(written) + 1)
  PROVE  ChunkedInv'
  <1>1. /\ now \in Nat /\ pc[c] \in Labels /\ work[c] \in Works
        /\ reply[c] \in Replies \cup {None}
        /\ ServerOK /\ TokensOK /\ WritesOK(written)
        /\ work[c].md # None => Len(work[c].buf) <= work[c].md.num
    BY Facts
  <1>2. Grown(written, written) /\ written \in Seq(Seq(Piece)) /\ Len(written) \in Nat
    BY <1>1, SameWrites DEF Grown
  <1>3. VarsOK /\ IsFiniteSet(Drawing) /\ Cardinality(Drawing) \in Nat /\ MaxTokens \in Nat
        /\ Len(written) + Cardinality(Drawing) <= MaxTokens
    BY <1>1, FS_CardinalityType, ChunkedAssumption DEF ChunkedInv, TokensOK
  <1>4. CASE Expired(exptime)
    <2> DEFINE a == [err |-> "nil", val |-> None]
    <2>1. /\ pc' = [pc EXCEPT ![c] = "done"] /\ reply' = [reply EXCEPT ![c] = a]
          /\ work' = work /\ written' = written
          /\ a \in Replies \cup {None} /\ a.val = None
      BY <1>4 DEF StartPut, Return, Replies, Errors
    <2>2. work' = [work EXCEPT ![c] = work[c]]
      BY <2>1, Facts
    <2> HIDE DEF a
    <2>3. Local("done", work[c], r, a, written)
      BY <1>1, <2>1 DEF Local
    <2>4. ServerOK' /\ Grown(written, written') /\ WritesOK(written')
      BY <1>1, <1>2, <2>1, ServerStays
    <2>5. ~Draws("done", r) /\ "done" \in Labels
      BY DEF Draws, Labels
    <2>6. Len(written') + (IF Draws("done", r) THEN 1 ELSE 0) <=
            Len(written) + (IF Draws(pc[c], req[c]) THEN 1 ELSE 0)
      BY <1>2, <2>1, <2>5
    <2> QED BY <1>1, <2>1, <2>2, <2>3, <2>4, <2>5, <2>6, ConnStep
  <1>5. CASE ~Expired(exptime)
    <2> DEFINE put == [kind |-> kind, val |-> val, exptime |-> exptime,
                       deadline |-> Deadline(exptime, now), token |-> Len(written) + 1]
               w == [work[c] EXCEPT !.i = 1, !.put = put]
    <2>1. /\ written' = Append(written, val) /\ work' = [work EXCEPT ![c] = w]
          /\ pc' = [pc EXCEPT ![c] = "SetMeta"] /\ reply' = [reply EXCEPT ![c] = reply[c]]
      <3>1. written' = Append(written, val) /\ pc' = [pc EXCEPT ![c] = "SetMeta"]
            /\ reply' = reply
        BY <1>5 DEF StartPut, Goto
      <3>2. work' = [work EXCEPT ![c].i = 1, ![c].put = put]
        BY <1>5 DEF StartPut
      <3> HIDE DEF put
      <3>3. work' = [work EXCEPT ![c] = w]
        BY <1>3, <3>2 DEF VarsOK
      <3> QED BY <1>3, <3>1, <3>3 DEF VarsOK
    <2>2. Len(written) + 1 <= MaxTokens
      <3>1. CASE Draws(pc[c], req[c])
        <4>1. c \in Drawing
          BY <3>1 DEF Draws, Drawing, Busy
        <4>2. Cardinality(Drawing) # 0
          BY <1>3, <4>1, FS_EmptySet
        <4> QED BY <1>2, <1>3, <4>2
      <3>2. CASE Len(written) + Cardinality(Drawing) < MaxTokens
        BY <1>2, <1>3, <3>2
      <3> QED BY <3>1, <3>2
    <2>3. put \in PutsInHand
      <3>1. Deadline(exptime, now) \in Nat
        BY <1>1, DeadlineType
      <3>2. Len(written) + 1 \in 1..MaxTokens
        BY <1>2, <1>3, <2>2
      <3> QED BY <3>1, <3>2 DEF PutsInHand
    <2>4. /\ written' \in Seq(Seq(Piece)) /\ Len(written') = Len(written) + 1
          /\ \A t \in 1..Len(written) : written'[t] = written[t]
          /\ written'[Len(written) + 1] = val
      BY <1>2, <2>1
    <2>5. Grown(written, written')
      BY <1>2, <2>4 DEF Grown
    <2>6. WritesOK(written')
      <3>1. \A t \in 1..Len(written) : Len(written[t]) <= MaxPieces * t
        BY <1>1 DEF WritesOK
      <3>2. ASSUME NEW t \in 1..Len(written') PROVE Len(written'[t]) <= MaxPieces * t
        <4>1. CASE t = Len(written) + 1
          BY <2>4, <4>1
        <4>2. CASE t \in 1..Len(written)
          BY <2>4, <3>1, <4>2
        <4>3. t = Len(written) + 1 \/ t \in 1..Len(written)
          BY <1>2, <2>4
        <4> QED BY <4>1, <4>2, <4>3
      <3> QED BY <2>4, <3>2 DEF WritesOK
    <2>7. ServerOK'
      BY <1>1, <2>5, ServerStays
    <2>8. put.token = Len(written) + 1 /\ put.val = val
      OBVIOUS
    <2> HIDE DEF put
    <2>9. /\ w \in Works /\ w.put = put /\ w.i = 1 /\ w.md = work[c].md /\ w.buf = work[c].buf
      <3>1. w = Putting(work[c], put)
        BY DEF Putting
      <3>2. work[c] \in Works /\ put \in PutsInHand
        BY <1>1, <2>3
      <3> HIDE DEF w
      <3> QED BY ONLY <3>1, <3>2, PuttingWork
    <2> HIDE DEF w
    <2>10. Writing(put, written')
      <3>1. put.token <= Len(written')
        BY <1>2, <2>4, <2>8
      <3> QED BY <2>3, <2>4, <2>8, <3>1 DEF Writing
    <2>11. Local("SetMeta", w, r, reply[c], written')
      BY <1>1, <2>9, <2>10 DEF Local
    <2>12. ~Draws("SetMeta", r) /\ "SetMeta" \in Labels
      BY DEF Draws, Labels
    <2>13. CASE Draws(pc[c], req[c])
      <3>1. Len(written') + (IF Draws("SetMeta", r) THEN 1 ELSE 0) <=
              Len(written) + (IF Draws(pc[c], req[c]) THEN 1 ELSE 0)
        BY <1>2, <2>4, <2>12, <2>13
      <3> QED BY <1>1, <2>1, <2>5, <2>6, <2>7, <2>9, <2>11, <2>12, <3>1, ConnStep
    <2>14. CASE ~Draws(pc[c], req[c])
      <3>1. Len(written') + (IF Draws("SetMeta", r) THEN 1 ELSE 0) <= Len(written) + 1
        BY <1>2, <2>4, <2>12
      <3> QED BY <1>1, <2>1, <2>5, <2>6, <2>7, <2>9, <2>11, <2>12, <2>14, <3>1, ConnStep
    <2> QED BY <2>13, <2>14
  <1> QED BY <1>4, <1>5

-----------------------------------------------------------------------------
(***************************************************************************)
(* The actions, one by one: writing.                                       *)
(***************************************************************************)

LEMMA SetMetaStep ==
  ASSUME ChunkedInv, NEW c \in Conns, SetMeta(c) PROVE ChunkedInv'
  <1> DEFINE put == work[c].put
             res == StoreMeta(put)
  <1>1. /\ now \in Nat /\ work[c] \in Works /\ ServerOK
        /\ Local(pc[c], work[c], req[c], reply[c], written)
        /\ work[c].md # None => Len(work[c].buf) <= work[c].md.num
    BY Facts
  <1>2. /\ pc[c] = "SetMeta" /\ meta' = res.item /\ chunk' = chunk /\ now' = now
        /\ written' = written /\ req' = req /\ work' = work
        /\ \/ Return(c, res.err, None) \/ Return(c, "nil", None)
           \/ put.val # <<>> /\ Goto(c, "SetChunk")
    BY DEF SetMeta
  <1>3. Writing(put, written) /\ work[c].i = 1 /\ req[c] \in AllRequests
    BY <1>1, <1>2 DEF Local
  <1> HIDE DEF put
  <1>4. (res.item = None \/ MetaOK(res.item, written)) /\ res.err \in Errors
    BY <1>1, <1>3, StoreMetaIs
  <1> HIDE DEF res
  <1>5. ServerOK'
    BY <1>1, <1>2, <1>4, MetaChanges
  <1>6. ASSUME NEW e \in Errors, Return(c, e, None) PROVE ChunkedInv'
    <2>1. pc[c] # "idle"
      BY <1>2
    <2> QED BY <1>2, <1>5, <1>6, <2>1, FailStep
  <1>7. CASE put.val # <<>> /\ Goto(c, "SetChunk")
    <2>1. put.val \in Seq(Piece)
      BY <1>3 DEF Writing, PutsInHand
    <2>2. 1 <= Len(put.val)
      BY <1>7, <2>1, EmptySeq
    <2>3. Local("SetChunk", work[c], req[c], reply[c], written)
      BY <1>1, <1>3, <2>2 DEF Local, put
    <2>4. "SetChunk" \in Labels /\ work' = [work EXCEPT ![c] = work[c]]
          /\ ~("SetChunk" \in {"GetMeta", "Read"})
      BY <1>2, Facts DEF Labels
    <2> QED BY <1>1, <1>2, <1>5, <1>7, <2>3, <2>4, GotoStep
  <1>8. "nil" \in Errors
    BY DEF Errors
  <1> QED BY <1>2, <1>4, <1>6, <1>7, <1>8

LEMMA SetChunkStep ==
  ASSUME ChunkedInv, NEW c \in Conns, SetChunk(c) PROVE ChunkedInv'
  <1> DEFINE put == work[c].put
             i == work[c].i
             w == [work[c] EXCEPT !.i = @ + 1]
  <1>1. /\ now \in Nat /\ work[c] \in Works /\ ServerOK
        /\ Local(pc[c], work[c], req[c], reply[c], written)
        /\ work[c].md # None => Len(work[c].buf) <= work[c].md.num
    BY Facts
  <1>2. /\ pc[c] = "SetChunk" /\ chunk' = [chunk EXCEPT ![i] = StoreChunk(put, i).item]
        /\ work' = [work EXCEPT ![c] = w]
        /\ \/ i < Len(put.val) /\ Goto(c, "SetChunk")
           \/ Return(c, "nil", None)
        /\ meta' = meta /\ now' = now /\ written' = written /\ req' = req
    BY DEF SetChunk, NextChunk
  <1>3. Writing(put, written) /\ i <= Len(put.val) /\ req[c] \in AllRequests
    BY <1>1, <1>2 DEF Local
  <1>4. i \in Nat \ {0} /\ w.i = i + 1 /\ w.put = put /\ w.md = work[c].md
        /\ w.buf = work[c].buf
    BY <1>1 DEF Works
  <1>5. w \in Works
    BY <1>1, IncrementedWork
  <1> HIDE DEF put, i, w
  <1>6. StoreChunk(put, i).item = None \/ ChunkOK(StoreChunk(put, i).item, i, written)
    BY <1>1, <1>3, <1>4, StoreChunkIs
  <1>7. ServerOK'
    BY <1>1, <1>2, <1>6, ChunkChanges
  <1>8. CASE Return(c, "nil", None)
    <2>1. "nil" \in Errors /\ pc[c] # "idle"
      BY <1>2 DEF Errors
    <2>2. w.md # None => Len(w.buf) <= w.md.num
      BY <1>1, <1>4
    <2> QED BY <1>2, <1>5, <1>7, <1>8, <2>1, <2>2, ReturnStep
  <1>9. CASE i < Len(put.val) /\ Goto(c, "SetChunk")
    <2>1. put.val \in Seq(Piece)
      BY <1>3 DEF Writing, PutsInHand
    <2>2. w.i <= Len(w.put.val)
      BY <1>4, <1>9, <2>1
    <2>3. Writing(w.put, written)
      BY <1>3, <1>4
    <2>4. w.md # None => Len(w.buf) <= w.md.num
      BY <1>1, <1>4
    <2>5. Local("SetChunk", w, req[c], reply[c], written)
      BY <1>3, <2>2, <2>3, <2>4 DEF Local
    <2>6. "SetChunk" \in Labels /\ ~("SetChunk" \in {"GetMeta", "Read"})
      BY DEF Labels
    <2> QED BY <1>2, <1>5, <1>7, <1>9, <2>5, <2>6, GotoStep
  <1> QED BY <1>2, <1>8, <1>9

(***************************************************************************)
(* Reading.                                                                *)
(***************************************************************************)

LEMMA ReadMetaIs ==
  ASSUME ChunkedInv, NEW c \in Conns, pc[c] # "idle"
  PROVE  ReadMeta(c) = None \/ MetaOK(ReadMeta(c), written)
  <1>1. now \in Nat /\ ServerOK /\ req[c] \in AllRequests
    BY Facts
  <1>2. req[c].exptime \in Nat /\ (meta = None \/ MetaOK(meta, written))
    BY <1>1 DEF AllRequests, ServerOK
  <1>3. GAT(meta, req[c].exptime, now).item = None
        \/ MetaOK(GAT(meta, req[c].exptime, now).item, written)
    BY <1>1, <1>2, TouchKeepsMeta
  <1> QED BY <1>2, <1>3 DEF ReadMeta

LEMMA GetMetaStep ==
  ASSUME ChunkedInv, NEW c \in Conns, GetMeta(c) PROVE ChunkedInv'
  <1> DEFINE p == AfterMeta(req[c].op, meta.val.num)
             w == [work[c] EXCEPT !.md = meta.val]
  <1>1. /\ now \in Nat /\ work[c] \in Works /\ ServerOK
        /\ Local(pc[c], work[c], req[c], reply[c], written)
    BY Facts
  <1>2. /\ pc[c] = "GetMeta" /\ meta' = ReadMeta(c) /\ chunk' = chunk /\ now' = now
        /\ written' = written /\ req' = req
        /\ \/ /\ work' = work
              /\ Return(c, "nil", None) \/ Return(c, "KeyNotFound", None)
           \/ meta # None /\ work' = [work EXCEPT ![c].md = meta.val] /\ Goto(c, p)
    BY DEF GetMeta, ReturnMiss
  <1>3. work[c] = NoWork /\ req[c] \in AllRequests /\ pc[c] # "idle"
    BY <1>1, <1>2 DEF Local
  <1>4. ServerOK'
    BY <1>1, <1>2, <1>3, ReadMetaIs, MetaChanges
  <1>5. ASSUME NEW e \in Errors, Return(c, e, None), work' = work PROVE ChunkedInv'
    BY <1>2, <1>3, <1>4, <1>5, FailStep
  <1>6. CASE meta # None /\ work' = [work EXCEPT ![c].md = meta.val] /\ Goto(c, p)
    <2>1. work \in [Conns -> Works]
      BY DEF ChunkedInv, VarsOK
    <2>2. work' = [work EXCEPT ![c] = w]
      BY <1>6
    <2>3. Announced(meta.val, written)
      BY <1>1, <1>6 DEF ServerOK, MetaOK
    <2>4. meta.val \in MD /\ meta.val.num \in Nat
      BY <2>3 DEF Announced, MD
    <2>5. w.md = meta.val /\ w.i = 1 /\ w.buf = <<>> /\ Len(w.buf) = 0
      BY <1>3 DEF NoWork
    <2>6. w \in Works
      BY <1>1, <2>4, MarkedWork
    <2> HIDE DEF w
    <2>7. Reading(w, written) /\ Len(w.buf) <= w.md.num
      BY <2>4, <2>5 DEF Reading
    <2>8. p \in {"DelMeta", "TouchChunk", "TouchMeta", "Read"}
      BY DEF AfterMeta
    <2> HIDE DEF p
    <2>9. Local(p, w, req[c], reply[c], written)
      BY <1>3, <2>3, <2>5, <2>7, <2>8 DEF Local
    <2>10. p \in Labels /\ pc[c] \in {"GetMeta", "Read"}
      BY <1>2, <2>8 DEF Labels
    <2> QED BY <1>2, <1>4, <1>6, <2>2, <2>6, <2>9, <2>10, GotoStep
  <1>7. "nil" \in Errors /\ "KeyNotFound" \in Errors
    BY DEF Errors, CommandErrors
  <1> QED BY <1>2, <1>5, <1>6, <1>7

ReadInto(w, x, m) == [w EXCEPT !.buf = Append(@, x), !.miss = m]

LEMMA ReadingWork ==
  ASSUME NEW v \in Works, NEW x \in Piece, NEW m \in BOOLEAN, NEW w, w = ReadInto(v, x, m)
  PROVE  /\ w \in Works /\ w.buf = Append(v.buf, x) /\ w.miss = m /\ w.i = v.i
         /\ w.md = v.md /\ w.err = v.err
  <1>1. /\ v.md \in MD \cup {None} /\ v.put \in PutsInHand \cup {None} /\ v.i \in Nat \ {0}
        /\ Append(v.buf, x) \in Seq(Piece) /\ v.err \in {"nil", "Busy"}
    BY WorkIs
  <1>3. w = [md |-> v.md, put |-> v.put, i |-> v.i, buf |-> Append(v.buf, x),
             miss |-> m, err |-> v.err]
    <2> DEFINE b == Append(v.buf, x)
    <2>1. w = [v EXCEPT !.buf = b, !.miss = m]
      BY DEF ReadInto
    <2> HIDE DEF b
    <2>2. [v EXCEPT !.buf = b] = [md |-> v.md, put |-> v.put, i |-> v.i, buf |-> b,
                                  miss |-> v.miss, err |-> v.err]
      BY WorkIs
    <2>3. w = [md |-> v.md, put |-> v.put, i |-> v.i, buf |-> b, miss |-> m, err |-> v.err]
      BY ONLY <2>1, <2>2
    <2> QED BY <2>3 DEF b
  <1>4. [md |-> v.md, put |-> v.put, i |-> v.i, buf |-> Append(v.buf, x),
         miss |-> m, err |-> v.err] \in Works
    BY ONLY <1>1, m \in BOOLEAN, WorkFrom, Zenon
  <1> QED BY <1>3, <1>4

\* The pieces read, with one more.
LEMMA ReadingOn ==
  ASSUME NEW ws, NEW w \in Works, NEW v \in Works, Announced(w.md, ws), Reading(w, ws),
         w.i <= w.md.num, v.i = w.i + 1, v.md = w.md,
         \/ v.buf = w.buf
         \/ \E x \in Piece : /\ v.buf = Append(w.buf, x)
                             /\ v.err = "nil" /\ ~v.miss =>
                                  w.err = "nil" /\ ~w.miss /\ x = ws[w.md.token][w.i]
  PROVE  Reading(v, ws) /\ Len(v.buf) <= v.md.num
  <1>1. w.md.num \in Nat /\ w.i \in Nat \ {0} /\ w.buf \in Seq(Piece) /\ Len(w.buf) \in Nat
    BY DEF Announced, MD, Works
  <1>2. /\ Len(w.buf) <= w.i - 1
        /\ (w.err = "nil" /\ ~w.miss /\ Len(w.buf) = w.i - 1) =>
             \A n \in 1..Len(w.buf) : w.buf[n] = ws[w.md.token][n]
    BY DEF Reading
  <1>3. CASE v.buf = w.buf
    <2>1. v.i <= v.md.num + 1 /\ Len(v.buf) <= v.i - 1 /\ Len(v.buf) # v.i - 1
          /\ Len(v.buf) <= v.md.num
      BY <1>1, <1>2, <1>3
    <2> QED BY <2>1 DEF Reading
  <1>4. ASSUME NEW x \in Piece, v.buf = Append(w.buf, x),
               v.err = "nil" /\ ~v.miss => w.err = "nil" /\ ~w.miss /\ x = ws[w.md.token][w.i]
        PROVE  Reading(v, ws) /\ Len(v.buf) <= v.md.num
    <2>1. Len(v.buf) = Len(w.buf) + 1 /\ v.buf[Len(w.buf) + 1] = x
          /\ \A n \in 1..Len(w.buf) : v.buf[n] = w.buf[n]
      BY <1>1, <1>4
    <2>2. v.i <= v.md.num + 1 /\ Len(v.buf) <= v.i - 1 /\ Len(v.buf) <= v.md.num
      BY <1>1, <1>2, <2>1
    <2>3. ASSUME v.err = "nil", ~v.miss, Len(v.buf) = v.i - 1, NEW n \in 1..Len(v.buf)
          PROVE  v.buf[n] = ws[v.md.token][n]
      <3>1. w.err = "nil" /\ ~w.miss /\ x = ws[w.md.token][w.i]
        BY <1>4, <2>3
      <3>2. Len(w.buf) = w.i - 1 /\ w.i = Len(w.buf) + 1
        BY <1>1, <2>1, <2>3
      <3>3. CASE n = Len(w.buf) + 1
        BY <2>1, <3>1, <3>2, <3>3
      <3>4. CASE n \in 1..Len(w.buf)
        BY <1>2, <2>1, <3>1, <3>2, <3>4
      <3>5. n = Len(w.buf) + 1 \/ n \in 1..Len(w.buf)
        BY <1>1, <2>1
      <3> QED BY <3>3, <3>4, <3>5
    <2> QED BY <2>2, <2>3 DEF Reading
  <1> QED BY <1>3, <1>4

LEMMA ReadChunkStep ==
  ASSUME ChunkedInv, NEW c \in Conns, ReadChunk(c) PROVE ChunkedInv'
  <1> DEFINE w == work[c]
             i == w.i
             item == chunk[i]
             x == item.val.piece
             m == w.miss \/ TokenDiffers(w, item)
             read == IF item = None THEN w ELSE ReadInto(w, x, m)
             v == [read EXCEPT !.i = @ + 1]
  <1>1. /\ now \in Nat /\ work[c] \in Works /\ ServerOK /\ WritesOK(written)
        /\ Local(pc[c], work[c], req[c], reply[c], written)
    BY Facts
  <1>2. /\ pc[c] = "Read" /\ i <= w.md.num /\ work' = [work EXCEPT ![c] = v]
        /\ chunk' = (IF req[c].op = "Gat"
                     THEN [chunk EXCEPT ![i] = GAT(item, req[c].exptime, now).item]
                     ELSE chunk)
        /\ meta' = meta /\ now' = now /\ written' = written /\ pc' = pc /\ req' = req
        /\ reply' = reply
    BY DEF ReadChunk, NumChunks, ReadInto
  <1>3. Announced(w.md, written) /\ Reading(w, written) /\ req[c] \in AllRequests
    BY <1>1, <1>2 DEF Local
  <1>4. w.miss \in BOOLEAN /\ w \in Works /\ i \in Nat \ {0}
    BY <1>1, WorkIs
  <1>5. i \in Indices
    BY <1>1, <1>2, <1>3, <1>4, IndexIs
  <1> HIDE DEF w, i
  <1>6. item = None \/ ChunkOK(item, i, written)
    BY <1>1, <1>5 DEF ServerOK
  <1>7. ServerOK'
    <2>1. CASE req[c].op = "Gat"
      <3>1. req[c].exptime \in Nat
        BY <1>3 DEF AllRequests
      <3> HIDE DEF item
      <3>2. \/ GAT(item, req[c].exptime, now).item = None
            \/ ChunkOK(GAT(item, req[c].exptime, now).item, i, written)
        BY <1>1, <1>6, <3>1, TouchKeepsChunk
      <3> QED BY <1>1, <1>2, <2>1, <3>2, ChunkChanges
    <2>2. CASE req[c].op # "Gat"
      BY <1>1, <1>2, <2>2 DEF ServerOK
    <2> QED BY <2>1, <2>2
  <1>8. m \in BOOLEAN
    BY <1>4 DEF TokenDiffers
  <1>9. item # None => x \in Piece
    BY <1>6 DEF ChunkOK, ChunkItem
  <1>10. (item # None /\ ~m) => ~w.miss /\ x = written[w.md.token][i]
    BY <1>6 DEF ChunkOK, TokenDiffers
  <1> HIDE DEF item, x, m
  <1>11. read \in Works /\ read.i = i /\ read.md = w.md /\ read.err = w.err
         /\ \/ read.buf = w.buf
            \/ item # None /\ read.buf = Append(w.buf, x) /\ read.miss = m
    <2>1. CASE item = None
      BY <1>4, <2>1 DEF i
    <2>2. CASE item # None
      <3>1. read = ReadInto(w, x, m) /\ x \in Piece
        BY <1>9, <2>2
      <3> HIDE DEF read
      <3>2. /\ read \in Works /\ read.buf = Append(w.buf, x) /\ read.miss = m /\ read.i = w.i
            /\ read.md = w.md /\ read.err = w.err
        BY ONLY <3>1, <1>4, <1>8, ReadingWork
      <3> QED BY <2>2, <3>2 DEF i
    <2> QED BY <2>1, <2>2
  <1> HIDE DEF read
  <1>12. v \in Works
    BY <1>11, IncrementedWork
  <1>13. v.i = i + 1 /\ v.md = w.md /\ v.buf = read.buf /\ v.err = w.err /\ v.miss = read.miss
    BY <1>11 DEF Works
  <1> HIDE DEF v
  <1>14. \/ v.buf = w.buf
         \/ \E y \in Piece : /\ v.buf = Append(w.buf, y)
                             /\ v.err = "nil" /\ ~v.miss =>
                                  w.err = "nil" /\ ~w.miss /\ y = written[w.md.token][w.i]
    BY <1>9, <1>10, <1>11, <1>13 DEF i
  <1>15. Reading(v, written) /\ Len(v.buf) <= v.md.num
    <2>1. w.i <= w.md.num /\ v.i = w.i + 1
      BY <1>2, <1>13 DEF i
    <2> QED BY <1>3, <1>4, <1>12, <1>13, <1>14, <2>1, ReadingOn
  <1>16. Local("Read", v, req[c], reply[c], written)
    BY <1>3, <1>13, <1>15 DEF Local
  <1>17. Goto(c, "Read")
    BY <1>2 DEF Goto, ChunkedInv, VarsOK
  <1>18. "Read" \in Labels /\ pc[c] \in {"GetMeta", "Read"}
    BY <1>2 DEF Labels
  <1> QED BY <1>2, <1>7, <1>12, <1>16, <1>17, <1>18, GotoStep

LEMMA BufferIs ==
  ASSUME NEW ws \in Seq(Seq(Piece)), NEW w \in Works, Announced(w.md, ws)
  PROVE  /\ Buffer(w) \in Seq(Piece) /\ Len(Buffer(w)) = w.md.num
         /\ (Len(w.buf) = w.md.num /\ \A n \in 1..Len(w.buf) : w.buf[n] = ws[w.md.token][n]) =>
              Buffer(w) = ws[w.md.token]
  <1> DEFINE k == w.md.num
             t == w.md.token
             b == Buffer(w)
  <1>1. k \in Nat /\ t \in 1..MaxTokens /\ t <= Len(ws) /\ k = Len(ws[t])
        /\ w.buf \in Seq(Piece) /\ Len(w.buf) \in Nat
    BY DEF Announced, MD, Works
  <1>2. b = [n \in 1..k |-> IF n <= Len(w.buf) THEN w.buf[n] ELSE Zero]
    BY DEF Buffer
  <1> HIDE DEF b, k, t
  <1>3. ASSUME NEW n \in 1..k PROVE (IF n <= Len(w.buf) THEN w.buf[n] ELSE Zero) \in Piece
    <2>1. CASE n <= Len(w.buf)
      <3>1. n \in 1..Len(w.buf)
        BY <1>1, <2>1
      <3> QED BY <1>1, <2>1, <3>1
    <2>2. CASE ~(n <= Len(w.buf))
      BY <2>2 DEF Piece
    <2> QED BY <2>1, <2>2
  <1>4. b \in [1..k -> Piece]
    BY <1>2, <1>3
  <1>5. b \in Seq(Piece) /\ Len(b) = k
    <2>1. b \in Seq(Piece)
      <3>1. b \in UNION {[1..n -> Piece] : n \in Nat}
        BY ONLY <1>1, <1>4
      <3>2. Seq(Piece) = UNION {[1..n -> Piece] : n \in Nat}
        BY ONLY SeqDef, Zenon
      <3> QED BY ONLY <3>1, <3>2, Zenon
    <2>2. DOMAIN b = 1..k /\ DOMAIN b = 1..Len(b) /\ Len(b) \in Nat
      BY <1>4, <2>1, LenProperties
    <2> QED BY <1>1, <2>1, <2>2
  <1>6. ASSUME Len(w.buf) = k, \A n \in 1..Len(w.buf) : w.buf[n] = ws[t][n]
        PROVE  b = ws[t]
    <2>1. ws[t] \in Seq(Piece)
      BY <1>1, TokenIs
    <2>2. \A n \in 1..k : b[n] = ws[t][n]
      <3>1. \A n \in 1..k : b[n] = w.buf[n]
        BY <1>1, <1>2, <1>6
      <3> QED BY <1>6, <3>1
    <2> QED BY <1>1, <1>5, <2>1, <2>2, SeqEqual
  <1> QED BY <1>5, <1>6 DEF b, k, t

LEMMA ReadDoneStep ==
  ASSUME ChunkedInv, NEW c \in Conns, ReadDone(c) PROVE ChunkedInv'
  <1> DEFINE w == work[c]
             r == req[c]
             b == Buffer(w)
             val == IF r.op = "Append" THEN b \o r.val ELSE r.val \o b
  <1>1. /\ now \in Nat /\ w \in Works /\ ServerOK /\ TokensOK /\ WritesOK(written)
        /\ Local(pc[c], w, r, reply[c], written)
    BY Facts
  <1>2. /\ pc[c] = "Read" /\ w.i > w.md.num
        /\ \/ /\ r.op \in Extends /\ StartPut(c, "Set", val, w.md.exptime)
           \/ /\ work' = work /\ written' = written
              /\ \/ Return(c, w.err, None)
                 \/ Return(c, "nil", None) \/ Return(c, "KeyNotFound", None)
                 \/ w.err = "nil" /\ ~w.miss /\ Return(c, "nil", b)
        /\ UNCHANGED cache /\ now' = now /\ req' = req
    BY DEF ReadDone, NumChunks, ReturnMiss
  <1>3. Announced(w.md, written) /\ Reading(w, written) /\ r \in AllRequests
    BY <1>1, <1>2 DEF Local
  <1>4. written \in Seq(Seq(Piece)) /\ Grown(written, written)
    BY <1>1, SameWrites DEF WritesOK
  <1> HIDE DEF w, r
  <1>5. /\ b \in Seq(Piece) /\ Len(b) = w.md.num
        /\ (Len(w.buf) = w.md.num
            /\ \A n \in 1..Len(w.buf) : w.buf[n] = written[w.md.token][n]) =>
              b = written[w.md.token]
    BY <1>1, <1>3, <1>4, BufferIs
  <1> HIDE DEF b
  <1>6. CASE r.op \in Extends /\ StartPut(c, "Set", val, w.md.exptime)
    <2> DEFINE t == w.md.token
    <2>1. r.val \in Seq(Piece) /\ Len(r.val) <= MaxPieces /\ Len(r.val) \in Nat
      <3>1. r.val \in Seq(Data) /\ Len(r.val) <= MaxPieces
        BY <1>3 DEF AllRequests, Payload
      <3>2. r.val \in Seq(Piece)
        BY <3>1 DEF Piece
      <3> QED BY <3>1, <3>2
    <2>2. val \in Seq(Piece) /\ Len(val) = Len(b) + Len(r.val)
      <3>1. /\ b \o r.val \in Seq(Piece) /\ Len(b \o r.val) = Len(b) + Len(r.val)
            /\ r.val \o b \in Seq(Piece) /\ Len(r.val \o b) = Len(r.val) + Len(b)
        BY <1>5, <2>1, ConcatProperties
      <3>2. Len(b) \in Nat
        BY <1>5
      <3> QED BY <2>1, <3>1, <3>2
    <2>3. Len(b) \in Nat /\ w.md.exptime \in Nat /\ t \in 1..MaxTokens /\ t <= Len(written)
          /\ Len(b) = Len(written[t])
      BY <1>3, <1>5 DEF Announced, MD
    <2> HIDE DEF val, t
    <2>4. t \in 1..Len(written) /\ t \in Nat
      BY <1>4, <2>3, TokenIs
    <2>5. Len(b) <= MaxPieces * t
      BY <1>1, <2>3, <2>4 DEF WritesOK
    <2>6. MaxPieces \in Nat /\ Len(written) \in Nat
      BY <1>4, ChunkedAssumption
    <2>7. MaxPieces * t \in Nat /\ MaxPieces * Len(written) \in Nat
          /\ MaxPieces * t <= MaxPieces * Len(written)
      BY <2>3, <2>4, <2>6, Scaled
    <2>8. MaxPieces * (Len(written) + 1) = MaxPieces * Len(written) + MaxPieces
      BY <2>6
    <2>9. Len(val) <= MaxPieces * (Len(written) + 1)
      <3> DEFINE l == Len(val)
                 x == Len(b)
                 y == Len(r.val)
                 s == MaxPieces * t
                 u == MaxPieces * Len(written)
      <3>1. /\ l = x + y /\ x \in Nat /\ y \in Nat /\ s \in Nat /\ u \in Nat
            /\ MaxPieces \in Nat /\ x <= s /\ s <= u /\ y <= MaxPieces
        BY <2>1, <2>2, <2>3, <2>5, <2>6, <2>7
      <3> HIDE DEF l, x, y, s, u
      <3>2. l <= u + MaxPieces
        BY <3>1
      <3> QED BY <2>8, <3>2 DEF l, u
    <2>10. Draws(pc[c], req[c])
      BY <1>2, <1>6 DEF Draws, r
    <2>11. req' = [req EXCEPT ![c] = r]
      BY <1>2 DEF r, ChunkedInv, VarsOK
    <2>12. "Set" \in Puts
      BY DEF Puts
    <2> QED BY <1>2, <1>3, <1>6, <2>2, <2>3, <2>9, <2>10, <2>11, <2>12, StartPutStep
  <1>7. ASSUME work' = work, written' = written PROVE ServerOK'
    BY <1>1, <1>2, <1>4, <1>7, ServerStays
  <1>8. ASSUME work' = work, written' = written, NEW e \in Errors, Return(c, e, None)
        PROVE  ChunkedInv'
    <2>1. pc[c] # "idle"
      BY <1>2
    <2> QED BY <1>2, <1>7, <1>8, <2>1, FailStep
  <1>9. CASE work' = work /\ written' = written /\ w.err = "nil" /\ ~w.miss
             /\ Return(c, "nil", b)
    <2> DEFINE a == [err |-> "nil", val |-> b]
    <2>1. /\ pc' = [pc EXCEPT ![c] = "done"] /\ reply' = [reply EXCEPT ![c] = a]
          /\ a \in Replies \cup {None} /\ a.val = b
      BY <1>5, <1>9 DEF Return, Replies, Errors
    <2> HIDE DEF a
    <2>2. w.md.num \in Nat /\ w.i \in Nat /\ w.i <= w.md.num + 1
      BY <1>1, <1>3 DEF Announced, MD, Works, Reading
    <2>3. w.i - 1 = w.md.num
      BY <1>2, <2>2
    <2>4. Len(w.buf) = w.md.num => b = written[w.md.token]
      BY <1>3, <1>5, <1>9, <2>3 DEF Reading
    <2>5. w.md # None => Len(w.buf) <= w.md.num
      BY <1>1 DEF Local
    <2>6. Local("done", w, r, a, written)
      BY <1>3, <2>1, <2>4, <2>5 DEF Local
    <2>7. "done" \in Labels /\ work' = [work EXCEPT ![c] = w]
          /\ ~("done" \in {"GetMeta", "Read"})
      BY <1>9, Facts DEF Labels, w
    <2> QED BY <1>1, <1>2, <1>7, <1>9, <2>1, <2>6, <2>7, PlainStep DEF r
  <1>10. "nil" \in Errors /\ "KeyNotFound" \in Errors /\ w.err \in Errors
    BY <1>1 DEF Errors, CommandErrors, Works
  <1> QED BY <1>2, <1>6, <1>8, <1>9, <1>10

(***************************************************************************)
(* Deletes and touches.                                                    *)
(***************************************************************************)

LEMMA DelMetaStep ==
  ASSUME ChunkedInv, NEW c \in Conns, DelMeta(c) PROVE ChunkedInv'
  <1>1. /\ work[c] \in Works /\ ServerOK
        /\ Local(pc[c], work[c], req[c], reply[c], written)
    BY Facts
  <1>2. /\ pc[c] = "DelMeta" /\ meta' = Delete(meta).item /\ chunk' = chunk /\ now' = now
        /\ written' = written /\ req' = req /\ work' = work
        /\ Goto(c, "DelChunk") \/ Return(c, Delete(meta).err, None)
    BY DEF DelMeta
  <1>3. Delete(meta).item = None /\ Delete(meta).err \in Errors
    BY DEF Delete, Result, Errors, CommandErrors
  <1>4. ServerOK'
    BY <1>1, <1>2, <1>3, MetaChanges
  <1>5. CASE Goto(c, "DelChunk")
    <2>1. Local("DelChunk", work[c], req[c], reply[c], written)
      BY <1>1, <1>2 DEF Local
    <2>2. "DelChunk" \in Labels /\ work' = [work EXCEPT ![c] = work[c]]
          /\ ~("DelChunk" \in {"GetMeta", "Read"})
      BY <1>2, Facts DEF Labels
    <2> QED BY <1>1, <1>2, <1>4, <1>5, <2>1, <2>2, GotoStep
  <1>6. CASE Return(c, Delete(meta).err, None)
    <2>1. pc[c] # "idle"
      BY <1>2
    <2> QED BY <1>2, <1>3, <1>4, <1>6, <2>1, FailStep
  <1> QED BY <1>2, <1>5, <1>6

LEMMA SimpleCmdStep ==
  ASSUME ChunkedInv, NEW c \in Conns, SimpleCmd(c) PROVE ChunkedInv'
  <1> DEFINE i == work[c].i
             item == chunk[i]
             new == ChunkCmd(c).item
             m == work[c].miss \/ (alive[c] = "up" /\ ChunkCmd(c).err = "KeyNotFound")
             w == [work[c] EXCEPT !.miss = m]
  <1>1. /\ now \in Nat /\ work[c] \in Works /\ ServerOK
        /\ Local(pc[c], work[c], req[c], reply[c], written)
    BY Facts
  <1>2. /\ pc[c] \in {"DelChunk", "TouchChunk"} /\ chunk' = [chunk EXCEPT ![i] = new]
        /\ NextChunk(c, w, NumChunks(c), AfterChunks(c, m))
        /\ meta' = meta /\ now' = now /\ written' = written /\ req' = req
    BY DEF SimpleCmd
  <1>3. req[c] \in AllRequests /\ req[c].exptime \in Nat
    BY <1>1, <1>2 DEF Local, AllRequests
  <1>4. ServerOK'
    <2> HIDE DEF i
    <2>1. ASSUME i \in Indices PROVE new = None \/ ChunkOK(new, i, written)
      <3>1. item = None \/ ChunkOK(item, i, written)
        BY <1>1, <2>1 DEF ServerOK
      <3>2. new = Delete(item).item \/ new = Touch(item, req[c].exptime, now).item
        BY DEF ChunkCmd, i
      <3>3. Delete(item).item = None
        BY DEF Delete, Result
      <3> HIDE DEF item
      <3>4. \/ Touch(item, req[c].exptime, now).item = None
            \/ ChunkOK(Touch(item, req[c].exptime, now).item, i, written)
        BY <1>1, <1>3, <3>1, TouchKeepsChunk
      <3> QED BY <3>2, <3>3, <3>4
    <2> HIDE DEF new
    <2> QED BY <1>1, <1>2, <2>1, ChunkChanges
  <1>5. work[c].miss \in BOOLEAN
    BY <1>1, WorkIs
  <1>6. m \in BOOLEAN
    BY <1>5
  <1> HIDE DEF m, new
  <1>7. w \in Works
    BY <1>1, <1>6, MissingWork
  <1> QED BY <1>2, <1>4, <1>6, <1>7, NextSimpleStep

LEMMA TouchedMetaIs ==
  ASSUME ChunkedInv, NEW c \in Conns, pc[c] = "TouchMeta"
  PROVE  TouchedMeta(c) = None \/ MetaOK(TouchedMeta(c), written)
  <1> DEFINE e == req[c].exptime
             md == [work[c].md EXCEPT !.exptime = Deadline(e, now)]
  <1>1. /\ now \in Nat /\ req[c] \in AllRequests
        /\ Local(pc[c], work[c], req[c], reply[c], written)
    BY Facts
  <1>2. e \in Nat /\ Announced(work[c].md, written)
    BY <1>1 DEF Local, AllRequests
  <1> HIDE DEF e
  <1>3. Deadline(e, now) \in Nat
    BY <1>1, <1>2, DeadlineType
  <1>4. md \in MD /\ md.token = work[c].md.token /\ md.num = work[c].md.num
    BY <1>2, <1>3 DEF Announced, MD
  <1>5. Announced(md, written)
    BY <1>2, <1>4 DEF Announced
  <1>6. TouchedMeta(c) = meta \/ TouchedMeta(c) = Store(md, Deadline(e, now), now)
    BY DEF TouchedMeta, Set, Result, e
  <1> HIDE DEF md
  <1>7. \/ Store(md, Deadline(e, now), now) = None
        \/ MetaOK(Store(md, Deadline(e, now), now), written)
    BY <1>1, <1>2, <1>5, MetaStored
  <1>8. meta = None \/ MetaOK(meta, written)
    BY Facts DEF ServerOK
  <1> QED BY <1>6, <1>7, <1>8

LEMMA TouchMetaStep ==
  ASSUME ChunkedInv, NEW c \in Conns, TouchMeta(c) PROVE ChunkedInv'
  <1>1. /\ pc[c] = "TouchMeta" /\ meta' = TouchedMeta(c) /\ chunk' = chunk /\ now' = now
        /\ written' = written /\ req' = req /\ work' = work /\ Return(c, "nil", None)
    BY DEF TouchMeta
  <1>2. ServerOK /\ pc[c] # "idle" /\ "nil" \in Errors
    BY <1>1, Facts DEF Errors
  <1>3. ServerOK'
    BY <1>1, <1>2, TouchedMetaIs, MetaChanges
  <1> QED BY <1>1, <1>2, <1>3, FailStep

(***************************************************************************)
(* Failures.                                                               *)
(***************************************************************************)

\* A chunk of a delete or a touch that changes nothing.
LEMMA SimpleFails ==
  ASSUME ChunkedInv, NEW c \in Conns, pc[c] \in {"DelChunk", "TouchChunk"},
         NextChunk(c, work[c], NumChunks(c), AfterChunks(c, work[c].miss)),
         req' = req, now' = now, written' = written, ServerOK'
  PROVE  ChunkedInv'
  <1> DEFINE m == work[c].miss
             w == work[c]
  <1>1. w \in Works
    BY Facts
  <1>2. m \in BOOLEAN
    BY <1>1, WorkIs
  <1>3. w = [work[c] EXCEPT !.miss = m]
    BY <1>1 DEF Works
  <1>4. NextChunk(c, w, NumChunks(c), AfterChunks(c, m))
    OBVIOUS
  <1> HIDE DEF m, w
  <1> QED BY <1>1, <1>2, <1>3, <1>4, NextSimpleStep

LEMMA BrokenStep ==
  ASSUME ChunkedInv, NEW c \in Conns, Broken(c) PROVE ChunkedInv'
  <1>1. /\ UNCHANGED cache /\ now' = now /\ written' = written /\ req' = req
        /\ \/ /\ pc[c] \in {"SetMeta", "GetMeta", "TouchMeta"}
              /\ Return(c, "IOError", None) /\ work' = work
           \/ /\ pc[c] \in {"DelChunk", "TouchChunk"}
              /\ NextChunk(c, work[c], NumChunks(c), AfterChunks(c, work[c].miss))
    BY DEF Broken
  <1>2. ServerOK /\ TokensOK
    BY Facts
  <1>3. ServerOK'
    BY <1>1, <1>2, SameWrites, ServerStays
  <1>4. CASE pc[c] \in {"SetMeta", "GetMeta", "TouchMeta"}
             /\ Return(c, "IOError", None) /\ work' = work
    <2>1. pc[c] # "idle" /\ "IOError" \in Errors
      BY <1>4 DEF Errors
    <2> QED BY <1>1, <1>3, <1>4, <2>1, FailStep
  <1> QED BY <1>1, <1>3, <1>4, SimpleFails

\* A connection waits for an answer that does not come.
LEMMA StuckStep ==
  ASSUME ChunkedInv, NEW c \in Conns, pc[c] # "idle", Goto(c, "stuck"), UNCHANGED cache,
         now' = now, written' = written, req' = req, work' = work
  PROVE  ChunkedInv'
  <1>1. /\ ServerOK /\ TokensOK /\ work[c] \in Works
        /\ Local(pc[c], work[c], req[c], reply[c], written)
        /\ work' = [work EXCEPT ![c] = work[c]]
    BY Facts
  <1>2. ServerOK'
    BY <1>1, SameWrites, ServerStays
  <1>3. Local("stuck", work[c], req[c], reply[c], written)
    BY <1>1 DEF Local
  <1>4. "stuck" \in Labels /\ ~("stuck" \in {"GetMeta", "Read"})
    BY DEF Labels
  <1> QED BY <1>1, <1>2, <1>3, <1>4, GotoStep

LEMMA MuffledStep ==
  ASSUME ChunkedInv, NEW c \in Conns, Muffled(c) PROVE ChunkedInv'
  BY StuckStep DEF Muffled

LEMMA RefusedStep ==
  ASSUME ChunkedInv, NEW c \in Conns, Refused(c) PROVE ChunkedInv'
  <1>1. UNCHANGED cache /\ now' = now /\ written' = written /\ req' = req
    BY DEF Refused, Fault
  <1>2. /\ ServerOK /\ TokensOK /\ work[c] \in Works
        /\ Local(pc[c], work[c], req[c], reply[c], written)
    BY Facts
  <1>3. ServerOK'
    BY <1>1, <1>2, SameWrites, ServerStays
  <1>4. CASE /\ pc[c] \in {"SetMeta", "SetChunk", "GetMeta", "DelMeta", "TouchMeta"}
             /\ Return(c, "Busy", None) /\ work' = work
    <2>1. pc[c] # "idle" /\ "Busy" \in Errors
      BY <1>4 DEF Errors
    <2> QED BY <1>1, <1>3, <1>4, <2>1, FailStep
  <1>5. CASE pc[c] = "SetChunk" /\ Goto(c, "stuck") /\ work' = work
    BY <1>1, <1>5, StuckStep
  <1>6. CASE /\ pc[c] = "Read" /\ work[c].i <= NumChunks(c)
             /\ work' = [work EXCEPT ![c].err = "Busy", ![c].i = @ + 1,
                                     ![c].buf = Append(@, Zero)]
             /\ pc' = pc /\ reply' = reply
    <2> DEFINE w == RefusedRead(work[c])
    <2>1. work' = [work EXCEPT ![c] = w]
      BY <1>6 DEF RefusedRead, ChunkedInv, VarsOK
    <2>2. /\ w \in Works /\ w.err = "Busy" /\ w.i = work[c].i + 1
          /\ w.buf = Append(work[c].buf, Zero) /\ w.md = work[c].md
      BY <1>2, RefusedWork
    <2> HIDE DEF w
    <2>3. /\ Announced(work[c].md, written) /\ Reading(work[c], written)
          /\ req[c] \in AllRequests /\ work[c].i <= work[c].md.num
      BY <1>2, <1>6 DEF Local, NumChunks
    <2>4. Zero \in Piece /\ ~(w.err = "nil")
      BY <2>2 DEF Piece
    <2>5. Reading(w, written) /\ Len(w.buf) <= w.md.num
      BY <1>2, <2>2, <2>3, <2>4, ReadingOn
    <2>6. Local("Read", w, req[c], reply[c], written)
      BY <2>2, <2>3, <2>5 DEF Local
    <2>7. Goto(c, "Read")
      BY <1>6 DEF Goto, ChunkedInv, VarsOK
    <2>8. "Read" \in Labels /\ pc[c] \in {"GetMeta", "Read"}
      BY <1>6 DEF Labels
    <2> QED BY <1>1, <1>3, <2>1, <2>2, <2>6, <2>7, <2>8, GotoStep
  <1>7. CASE /\ pc[c] \in {"DelChunk", "TouchChunk"}
             /\ NextChunk(c, work[c], NumChunks(c), AfterChunks(c, work[c].miss))
    BY <1>1, <1>3, <1>7, SimpleFails
  <1> QED BY <1>4, <1>5, <1>6, <1>7 DEF Refused

LEMMA MayHaveRunIs ==
  ASSUME ChunkedInv, NEW c \in Conns, pc[c] # "idle", MayHaveRun(c), written' = written
  PROVE  ServerOK'
  <1>1. /\ now \in Nat /\ work[c] \in Works /\ ServerOK /\ TokensOK
        /\ Local(pc[c], work[c], req[c], reply[c], written)
    BY Facts
  <1>2. CASE UNCHANGED cache
    BY <1>1, <1>2, SameWrites, ServerStays
  <1>3. CASE pc[c] = "SetMeta" /\ meta' = StoreMeta(work[c].put).item /\ UNCHANGED chunk
    <2>1. Writing(work[c].put, written)
      BY <1>1, <1>3 DEF Local
    <2> QED BY <1>1, <1>3, <2>1, StoreMetaIs, MetaChanges
  <1>4. CASE pc[c] = "GetMeta" /\ meta' = ReadMeta(c) /\ UNCHANGED chunk
    BY <1>1, <1>4, ReadMetaIs, MetaChanges
  <1>5. CASE pc[c] = "DelMeta" /\ meta' = None /\ UNCHANGED chunk
    BY <1>1, <1>5, MetaChanges
  <1>6. CASE pc[c] = "TouchMeta" /\ meta' = TouchedMeta(c) /\ UNCHANGED chunk
    BY <1>1, <1>6, TouchedMetaIs, MetaChanges
  <1>7. CASE /\ pc[c] = "SetChunk" /\ UNCHANGED meta
             /\ chunk' = [chunk EXCEPT ![work[c].i] =
                            StoreChunk(work[c].put, work[c].i).item]
    <2> DEFINE i == work[c].i
               new == StoreChunk(work[c].put, i).item
    <2>1. Writing(work[c].put, written) /\ i <= Len(work[c].put.val) /\ i \in Nat \ {0}
      BY <1>1, <1>7 DEF Local, Works
    <2> HIDE DEF i
    <2>2. new = None \/ ChunkOK(new, i, written)
      BY <1>1, <2>1, StoreChunkIs
    <2>3. chunk' = [chunk EXCEPT ![i] = new]
      BY <1>7 DEF i
    <2> HIDE DEF new
    <2> QED BY <1>1, <1>7, <2>2, <2>3, ChunkChanges
  <1> QED BY <1>2, <1>3, <1>4, <1>5, <1>6, <1>7 DEF MayHaveRun

LEMMA DroppedStep ==
  ASSUME ChunkedInv, NEW c \in Conns, Dropped(c) PROVE ChunkedInv'
  <1>1. now' = now /\ written' = written /\ req' = req /\ work' = work
    BY DEF Dropped, Fault
  <1>2. /\ ServerOK /\ TokensOK /\ work[c] \in Works
        /\ Local(pc[c], work[c], req[c], reply[c], written)
        /\ work' = [work EXCEPT ![c] = work[c]]
    BY <1>1, Facts
  <1>3. UNCHANGED cache => ServerOK'
    BY <1>1, <1>2, SameWrites, ServerStays
  <1>4. "IOError" \in Errors
    BY DEF Errors
  <1>5. CASE /\ pc[c] \in {"SetMeta", "SetChunk", "GetMeta", "DelMeta", "TouchMeta",
                          "stuck"}
             /\ MayHaveRun(c) /\ Return(c, "IOError", None)
    <2>1. pc[c] # "idle"
      BY <1>5
    <2>2. ServerOK'
      BY <1>1, <1>5, <2>1, MayHaveRunIs
    <2> QED BY <1>1, <1>4, <1>5, <2>1, <2>2, FailStep
  <1>6. CASE pc[c] = "Read" /\ Goto(c, "stuck") /\ UNCHANGED cache
    BY <1>1, <1>6, StuckStep
  <1>7. CASE pc[c] \in {"DelChunk", "TouchChunk"} /\ Goto(c, pc[c]) /\ UNCHANGED cache
    <2>1. pc[c] \in Labels /\ ~(pc[c] \in {"GetMeta", "Read"})
      BY <1>7 DEF Labels
    <2> QED BY <1>1, <1>2, <1>3, <1>7, <2>1, GotoStep
  <1>8. CASE /\ pc[c] \in {"Read", "DelChunk", "TouchChunk"} /\ Return(c, "IOError", None)
             /\ UNCHANGED cache
    <2>1. pc[c] # "idle"
      BY <1>8
    <2> QED BY <1>1, <1>3, <1>4, <1>8, <2>1, FailStep
  <1> QED BY <1>5, <1>6, <1>7, <1>8 DEF Dropped

(***************************************************************************)
(* Requests.                                                               *)
(***************************************************************************)

LEMMA RequestIs ==
  ASSUME NEW c \in Conns, NEW r \in Requests(c) PROVE r \in AllRequests
  <1>1. /\ r \in [op : OpsOf[c], val : PayloadsOf[c] \cup {<<>>},
                  exptime : ExptimesOf[c] \cup {0}]
    BY DEF Requests
  <1>2. /\ OpsOf[c] \subseteq Ops /\ PayloadsOf[c] \subseteq Seq(Data)
        /\ ExptimesOf[c] \subseteq Nat /\ MaxPieces \in Nat
        /\ \A val \in PayloadsOf[c] : Len(val) <= MaxPieces
    BY ChunkedAssumption
  <1>3. r.val \in Payload
    <2>1. CASE r.val \in PayloadsOf[c]
      BY <1>2, <2>1 DEF Payload
    <2>2. CASE r.val = <<>>
      BY <1>2, <2>2 DEF Payload
    <2> QED BY <1>1, <2>1, <2>2
  <1> QED BY <1>1, <1>2, <1>3 DEF AllRequests

LEMMA ReceiveStep ==
  ASSUME ChunkedInv, NEW c \in Conns, Receive(c) PROVE ChunkedInv'
  <1>1. PICK r \in Requests(c) :
          /\ pc[c] = "idle"
          /\ r.op \in Puts \cup Extends => Len(written) + Reserved < MaxTokens
          /\ req' = [req EXCEPT ![c] = r]
          /\ IF r.op \in Puts
             THEN StartPut(c, r.op, r.val, r.exptime)
             ELSE Goto(c, "GetMeta") /\ UNCHANGED <<work, written>>
          /\ UNCHANGED <<cache, now, alive, faults>>
    BY DEF Receive
  <1>2. r \in AllRequests /\ r.val \in Seq(Data) /\ Len(r.val) <= MaxPieces
        /\ r.exptime \in Nat
    BY RequestIs DEF AllRequests, Payload
  <1>3. Reserved = Cardinality(Drawing) /\ ~Draws(pc[c], req[c])
    BY <1>1 DEF Reserved, Drawing, Draws
  <1>4. /\ ServerOK /\ TokensOK /\ WritesOK(written) /\ work[c] \in Works
        /\ Local(pc[c], work[c], req[c], reply[c], written)
        /\ reply[c] \in Replies \cup {None}
    BY Facts
  <1>5. now' = now /\ UNCHANGED cache
    BY <1>1
  <1>6. Len(written) \in Nat /\ MaxPieces \in Nat
    BY <1>4, ChunkedAssumption DEF WritesOK
  <1>7. CASE r.op \in Puts
    <2>1. StartPut(c, r.op, r.val, r.exptime)
      BY <1>1, <1>7
    <2>2. r.val \in Seq(Piece)
      BY <1>2 DEF Piece
    <2>3. Len(r.val) <= MaxPieces * (Len(written) + 1)
      <3>1. MaxPieces * 1 <= MaxPieces * (Len(written) + 1)
            /\ MaxPieces * (Len(written) + 1) \in Nat
        BY <1>6, Scaled
      <3>2. MaxPieces * 1 = MaxPieces /\ Len(r.val) \in Nat
        BY <1>2, <1>6
      <3> QED BY <1>2, <1>6, <3>1, <3>2
    <2>4. Len(written) + Cardinality(Drawing) < MaxTokens
      BY <1>1, <1>3, <1>7
    <2>5. req' = [req EXCEPT ![c] = r]
      BY <1>1
    <2> QED BY <1>2, <1>5, <1>7, <2>1, <2>2, <2>3, <2>4, <2>5, StartPutStep
  <1>8. CASE r.op \notin Puts
    <2>1. /\ pc' = [pc EXCEPT ![c] = "GetMeta"] /\ work' = work /\ written' = written
          /\ reply' = reply /\ req' = [req EXCEPT ![c] = r]
      BY <1>1, <1>8 DEF Goto
    <2>2. work' = [work EXCEPT ![c] = work[c]] /\ reply' = [reply EXCEPT ![c] = reply[c]]
      BY <2>1 DEF ChunkedInv, VarsOK
    <2>3. Grown(written, written') /\ WritesOK(written') /\ ServerOK'
      BY <1>4, <1>5, <2>1, SameWrites, ServerStays
    <2>4. work[c] = NoWork
      BY <1>1, <1>4 DEF Local
    <2>5. NoWork.md = None
      BY DEF NoWork
    <2>6. Local("GetMeta", work[c], r, reply[c], written')
      BY <1>2, <2>4, <2>5 DEF Local
    <2>7. "GetMeta" \in Labels
      BY DEF Labels
    <2>8. CASE Draws("GetMeta", r)
      <3>1. Len(written) + Cardinality(Drawing) < MaxTokens
        BY <1>1, <1>3, <2>8 DEF Draws
      <3>2. Len(written') + (IF Draws("GetMeta", r) THEN 1 ELSE 0) <= Len(written) + 1
        BY <1>6, <2>1
      <3> QED BY <1>2, <1>3, <1>4, <1>5, <2>1, <2>2, <2>3, <2>6, <2>7, <3>1, <3>2, ConnStep
    <2>9. CASE ~Draws("GetMeta", r)
      <3>1. Len(written') + (IF Draws("GetMeta", r) THEN 1 ELSE 0) <=
              Len(written) + (IF Draws(pc[c], req[c]) THEN 1 ELSE 0)
        BY <1>3, <1>6, <2>1, <2>9
      <3> QED BY <1>2, <1>4, <1>5, <2>1, <2>2, <2>3, <2>6, <2>7, <3>1, ConnStep
    <2> QED BY <2>8, <2>9
  <1> QED BY <1>7, <1>8

LEMMA FinishStep ==
  ASSUME ChunkedInv, NEW c \in Conns, Finish(c) PROVE ChunkedInv'
  <1>1. /\ pc[c] = "done" /\ pc' = [pc EXCEPT ![c] = "idle"]
        /\ req' = [req EXCEPT ![c] = None] /\ reply' = [reply EXCEPT ![c] = None]
        /\ work' = [work EXCEPT ![c] = NoWork] /\ now' = now /\ written' = written
        /\ UNCHANGED cache
    BY DEF Finish
  <1>2. ServerOK /\ TokensOK /\ WritesOK(written) /\ Len(written) \in Nat
    BY Facts DEF WritesOK
  <1>3. Grown(written, written') /\ WritesOK(written') /\ ServerOK'
    BY <1>1, <1>2, SameWrites, ServerStays
  <1>4. NoWork \in Works /\ NoWork.md = None
    BY DEF NoWork, Works
  <1>5. Local("idle", NoWork, None, None, written')
    BY <1>4 DEF Local
  <1>6. "idle" \in Labels /\ ~Draws("idle", None)
    BY DEF Labels, Draws
  <1>7. Len(written') + (IF Draws("idle", None) THEN 1 ELSE 0) <=
          Len(written) + (IF Draws(pc[c], req[c]) THEN 1 ELSE 0)
    BY <1>1, <1>2, <1>6
  <1> QED BY <1>1, <1>3, <1>4, <1>5, <1>6, <1>7, ConnStep

(***************************************************************************)
(* memcached on its own.                                                   *)
(***************************************************************************)

LEMMA QuietStep ==
  ASSUME ChunkedInv, ServerOK', now' \in Nat, UNCHANGED <<written, pc, req, work, reply>>
  PROVE  ChunkedInv'
  <1>1. written' = written /\ pc' = pc /\ req' = req /\ work' = work /\ reply' = reply
    OBVIOUS
  <1>2. VarsOK'
    BY <1>1 DEF ChunkedInv, VarsOK
  <1>3. Drawing' = Drawing
    BY <1>1 DEF Drawing, Busy
  <1>4. TokensOK'
    BY <1>1, <1>3 DEF ChunkedInv, TokensOK
  <1>5. \A c \in Conns : ConnOK(c)'
    BY <1>1 DEF ChunkedInv, ConnOK
  <1> QED BY <1>2, <1>4, <1>5 DEF ChunkedInv

LEMMA EvictStep ==
  ASSUME ChunkedInv, Evict PROVE ChunkedInv'
  <1>1. now' = now /\ UNCHANGED <<written, pc, req, work, reply>>
    BY DEF Evict, Fault
  <1>2. ServerOK /\ now \in Nat
    BY DEF ChunkedInv, VarsOK
  <1>3. CASE meta' = None /\ UNCHANGED chunk
    BY <1>1, <1>2, <1>3, MetaChanges, QuietStep
  <1>4. CASE (\E i \in Indices : chunk' = [chunk EXCEPT ![i] = None]) /\ UNCHANGED meta
    BY <1>1, <1>2, <1>4, ChunkChanges, QuietStep
  <1> QED BY <1>3, <1>4 DEF Evict

LEMMA TickStep ==
  ASSUME ChunkedInv, Tick PROVE ChunkedInv'
  <1>1. /\ now' = now + 1 /\ meta' = Live(meta, now + 1)
        /\ chunk' = [i \in Indices |-> Live(chunk[i], now + 1)]
        /\ UNCHANGED <<written, pc, req, work, reply>>
    BY DEF Tick
  <1>2. ServerOK /\ now' \in Nat
    BY <1>1 DEF ChunkedInv, VarsOK
  <1>3. meta' = None \/ meta' = meta
    BY <1>1 DEF Live
  <1>4. \A i \in Indices : chunk'[i] = None \/ chunk'[i] = chunk[i]
    BY <1>1 DEF Live
  <1>5. chunk' \in [Indices -> ChunkItem \cup {None}]
    <2>1. \A i \in Indices : Live(chunk[i], now + 1) \in ChunkItem \cup {None}
      BY <1>2 DEF Live, ServerOK
    <2> QED BY <1>1, <2>1
  <1>6. ServerOK'
    BY <1>1, <1>2, <1>3, <1>4, <1>5 DEF ServerOK
  <1> QED BY <1>1, <1>2, <1>6, QuietStep

-----------------------------------------------------------------------------
(***************************************************************************)
(* The theorems.                                                           *)
(***************************************************************************)

LEMMA InitInv ==
  ASSUME Init PROVE ChunkedInv
  <1>1. NoWork \in Works /\ NoWork.md = None
    BY DEF NoWork, Works
  <1>2. VarsOK
    BY <1>1, ChunkedAssumption DEF Init, VarsOK, Labels
  <1>3. ServerOK
    BY DEF Init, ServerOK
  <1>4. TokensOK
    <2>1. Drawing = {}
      BY DEF Init, Drawing, Busy
    <2>2. IsFiniteSet(Drawing) /\ Cardinality(Drawing) = 0
      BY <2>1, FS_EmptySet
    <2>3. written = <<>> /\ Len(written) = 0
      BY DEF Init
    <2>4. WritesOK(written)
      BY <2>3 DEF WritesOK
    <2>5. Len(written) + Cardinality(Drawing) <= MaxTokens
      BY <2>2, <2>3, ChunkedAssumption
    <2> QED BY <2>2, <2>4, <2>5 DEF TokensOK
  <1>5. \A c \in Conns : ConnOK(c)
    BY <1>1 DEF Init, ConnOK, Local
  <1> QED BY <1>2, <1>3, <1>4, <1>5 DEF ChunkedInv

LEMMA NextInv ==
  ASSUME ChunkedInv, [Next]_vars PROVE ChunkedInv'
  <1>1. ASSUME NEW c \in Conns, Serve(c) PROVE ChunkedInv'
    BY <1>1, SetMetaStep, SetChunkStep, GetMetaStep, ReadChunkStep, ReadDoneStep,
       DelMetaStep, SimpleCmdStep, TouchMetaStep, BrokenStep, MuffledStep, FinishStep
    DEF Serve
  <1>2. ASSUME NEW c \in Conns, Receive(c) \/ Refused(c) \/ Dropped(c) PROVE ChunkedInv'
    BY <1>2, ReceiveStep, RefusedStep, DroppedStep
  <1>3. CASE UNCHANGED vars
    <2>1. ServerOK' /\ now' \in Nat /\ UNCHANGED <<written, pc, req, work, reply>>
      BY <1>3 DEF vars, ChunkedInv, VarsOK, ServerOK
    <2> QED BY <2>1, QuietStep
  <1> QED BY <1>1, <1>2, <1>3, EvictStep, TickStep DEF Next

THEOREM ChunkedInvariant == Spec => []ChunkedInv
  BY InitInv, NextInv, PTL DEF Spec

\* Every item in memcached belongs to a write that drew its token, a chunk at an
\* index that the write has; no reader collects more chunks than the metadata it
\* read announce, so that the slices of the reply buffer (getLocalIntoBuf) stay
\* in its range; and no value outgrows the chunk keys.
THEOREM ChunkedTypes == Spec => []TypeOK
  <1>1. ASSUME ChunkedInv PROVE TypeOK
    <2>1. meta \in MetaItem \cup {None} /\ chunk \in [Indices -> ChunkItem \cup {None}]
      BY <1>1 DEF ChunkedInv, ServerOK, MetaOK
    <2>2. written \in Seq(Seq(Piece)) /\ Len(written) <= MaxTokens
      <3>1. /\ written \in Seq(Seq(Piece)) /\ IsFiniteSet(Drawing)
            /\ Len(written) + Cardinality(Drawing) <= MaxTokens
        BY <1>1 DEF ChunkedInv, TokensOK, WritesOK
      <3>2. Len(written) \in Nat /\ Cardinality(Drawing) \in Nat /\ MaxTokens \in Nat
        BY <3>1, FS_CardinalityType, ChunkedAssumption
      <3> QED BY <3>1, <3>2
    <2>3. \A i \in Indices : chunk[i] # None =>
            chunk[i].val.token <= Len(written) /\ i <= Len(written[chunk[i].val.token])
      BY <1>1 DEF ChunkedInv, ServerOK, ChunkOK
    <2>4. \A c \in Conns : work[c].md # None => Len(work[c].buf) <= NumChunks(c)
      BY <1>1, Facts DEF NumChunks
    <2>5. reply \in [Conns -> [err : {"nil", "Busy", "IOError"} \cup CommandErrors,
                               val : Seq(Piece) \cup {None}] \cup {None}]
      BY <1>1 DEF ChunkedInv, VarsOK, Replies, Errors
    <2> QED BY <2>1, <2>2, <2>3, <2>4, <2>5 DEF TypeOK
  <1> QED BY <1>1, ChunkedInvariant, PTL

\* A get or gat that hits, and for which every chunk answered, answers with the
\* value of one write, whatever other connections wrote, deleted and touched
\* while it read, whatever failed and whatever was evicted.
THEOREM TokensGuardEveryRead == Spec => []TokensGuardReads
  <1>1. ASSUME ChunkedInv PROVE TokensGuardReads
    <2>1. SUFFICES ASSUME NEW c \in Conns, Hit(c), Len(work[c].buf) = NumChunks(c)
                   PROVE  reply[c].val = written[work[c].md.token]
      BY DEF TokensGuardReads
    <2>2. Local(pc[c], work[c], req[c], reply[c], written)
      BY <1>1, Facts
    <2> QED BY <2>1, <2>2 DEF Hit, NumChunks, Local
  <1> QED BY <1>1, ChunkedInvariant, PTL

-----------------------------------------------------------------------------
(***************************************************************************)
(* The comparison with a plain memcached.  As long as nothing disturbs it, *)
(* what the server holds between requests is whole: every chunk that the   *)
(* metadata m announce is there, under their token and with the deadline   *)
(* that they record.                                                       *)
(***************************************************************************)

IsWhole(m, ch, t) ==
  m # None =>
    /\ m.val.exptime = m.exp /\ (m.exp = 0 \/ m.exp > t)
    /\ \A i \in 1..m.val.num :
         ch[i] # None /\ ch[i].val.token = m.val.token /\ ch[i].exp = m.exp

\* The item that the metadata stand for.
ItemOf(m, ws) ==
  IF m = None THEN None ELSE [val |-> ws[m.val.token], exp |-> m.exp]

Whole == IsWhole(meta, chunk, now)

Held == ItemOf(meta, written)

Same == Whole /\ ref = Held

Answer(err, val) == [err |-> err, val |-> val]

\* The plain memcached has executed request r on the item h, with this outcome.
Foreseen(h, r, t, item, answer) ==
  item = Effect(h, r, t).item /\ answer = Answer(Effect(h, r, t).err, Found(h, r))

\* The handler has not changed anything yet; a gat will not.
Pending(c) ==
  /\ Whole /\ Foreseen(Held, req[c], now, ref, expected[c])
  /\ (req[c].op = "Gat" /\ meta # None) => Deadline(req[c].exptime, now) = meta.exp

\* The chunks before index i have been stored with a value and a deadline.
StoredUpTo(i, ch, val, token, exp, t) ==
  \A j \in 1..(i - 1) : ch[j] = Store([token |-> token, piece |-> val[j]], exp, t)

\* What becomes of a put depends on the metadata ...
Deciding(c, put) ==
  /\ put.deadline = Deadline(put.exptime, now)
  /\ Whole
  /\ expected[c] = Answer(StoreMeta(put).err, None)
  /\ ref = IF StoreMeta(put).err = "nil" THEN Store(put.val, put.deadline, now) ELSE Held

\* ... and once they are stored the chunks follow.
Filling(c, put, i) ==
  /\ put.deadline = Deadline(put.exptime, now)
  /\ expected[c] = Answer("nil", None)
  /\ ref = Store(put.val, put.deadline, now)
  /\ meta = Store(Metadata(put), put.deadline, now)
  /\ StoredUpTo(i, chunk, put.val, put.token, put.deadline, now)

\* The metadata in hand are the ones held.
Took(c) == meta # None /\ work[c].md = meta.val

Collecting(c) ==
  /\ Pending(c) /\ Took(c)
  /\ req[c].op \in {"Get", "Gat"} \cup Extends
  /\ ~work[c].miss /\ work[c].err = "nil" /\ Len(work[c].buf) = work[c].i - 1

Removing(c) ==
  /\ Pending(c) /\ Took(c) /\ req[c].op = "Delete"
  /\ ~work[c].miss /\ work[c].i = 1

\* The metadata are gone, and the chunks from index i on are still there.
Clearing(c) ==
  /\ meta = None /\ ref = None /\ expected[c] = Answer("nil", None)
  /\ ~work[c].miss /\ work[c].i <= work[c].md.num
  /\ \A j \in work[c].i..work[c].md.num : chunk[j] # None

\* The chunks before index i have been touched, the others are as they were.
Touching(c, i) ==
  LET md == work[c].md
      exp == Deadline(req[c].exptime, now)
  IN
  /\ Took(c) /\ ~work[c].miss /\ req[c].op = "Touch"
  /\ expected[c] = Answer("nil", None)
  /\ ref = Store(written[md.token], exp, now)
  /\ StoredUpTo(i, chunk, written[md.token], md.token, exp, now)
  /\ \A j \in i..md.num : chunk[j] # None /\ chunk[j].val.token = md.token

Serving(c) ==
  /\ pc[c] \notin {"idle", "stuck"}
  /\ pc[c] = "GetMeta" => Pending(c) /\ req[c].op \notin Puts
  /\ pc[c] = "SetMeta" => Deciding(c, work[c].put)
  /\ pc[c] = "SetChunk" => Filling(c, work[c].put, work[c].i)
  /\ pc[c] = "Read" => Collecting(c)
  /\ pc[c] = "DelMeta" => Removing(c)
  /\ pc[c] = "DelChunk" => Clearing(c)
  /\ pc[c] = "TouchChunk" => Touching(c, work[c].i) /\ work[c].i <= work[c].md.num
  /\ pc[c] = "TouchMeta" => Touching(c, work[c].md.num + 1)
  /\ pc[c] = "done" =>
       /\ Same
       /\ reply[c].err = SameError(expected[c].err) /\ reply[c].val = expected[c].val

\* One request at a time, on links that are up.
Undisturbed ==
  /\ now > RealTimeMaxDelta
  /\ alive = [c \in Conns |-> "up"]
  /\ expected = [c \in Conns |-> expected[c]]
  /\ \A c, d \in Conns : pc[c] # "idle" /\ pc[d] # "idle" => c = d
  /\ (\A c \in Conns : pc[c] = "idle") => Same
  /\ \A c \in Conns : pc[c] # "idle" => Serving(c)

CleanInv == clean \in BOOLEAN /\ (clean => Undisturbed)

\* Every value that the writes can make fits into one item of a plain memcached.
Roomy == MaxPieces * MaxTokens <= MaxLen

\* No touch comes with a key that has room to spare.
TightTouches == \A c \in SpareConns : "Touch" \notin OpsOf[c]

\* A connection serves what its client may send.
OwnRequests == \A c \in Conns : pc[c] # "idle" => req[c].op \in OpsOf[c]

LEMMA OwnRequestsNext ==
  ASSUME ChunkedInv, OwnRequests, [Next]_vars PROVE OwnRequests'
  <1>1. pc \in [Conns -> Labels] /\ req \in [Conns -> AllRequests \cup {None}]
    BY DEF ChunkedInv, VarsOK
  <1>2. ASSUME NEW c \in Conns, req' = req, pc[c] # "idle",
               \E p : pc' = [pc EXCEPT ![c] = p]
        PROVE  OwnRequests'
    BY <1>1, <1>2 DEF OwnRequests
  <1>3. ASSUME req' = req, pc' = pc PROVE OwnRequests'
    BY <1>3 DEF OwnRequests
  <1>4. ASSUME NEW c \in Conns, Receive(c) PROVE OwnRequests'
    <2>1. PICK r \in Requests(c) :
            /\ req' = [req EXCEPT ![c] = r]
            /\ \E p : pc' = [pc EXCEPT ![c] = p]
      BY <1>4 DEF Receive, StartPut, Goto, Return
    <2>2. r.op \in OpsOf[c]
      BY DEF Requests
    <2> QED BY <1>1, <2>1, <2>2 DEF OwnRequests
  <1>5. ASSUME NEW c \in Conns, Finish(c) PROVE OwnRequests'
    BY <1>1, <1>5 DEF Finish, OwnRequests
  <1>6. ASSUME NEW c \in Conns, Serve(c), ~Finish(c) PROVE OwnRequests'
    <2>1. req' = req
      BY <1>6 DEF Serve, SetMeta, SetChunk, GetMeta, ReadChunk, ReadDone, DelMeta, SimpleCmd,
                  TouchMeta, Broken, Muffled
    <2>2. CASE ReadChunk(c)
      BY <1>3, <2>1, <2>2 DEF ReadChunk
    <2>3. CASE ~ReadChunk(c)
      <3>1. pc[c] # "idle"
        BY <1>6, <2>3 DEF Serve, SetMeta, SetChunk, GetMeta, ReadDone, DelMeta, SimpleCmd,
                    TouchMeta, Broken, Muffled
      <3>2. \E p : pc' = [pc EXCEPT ![c] = p]
        BY <1>6, <2>3 DEF Serve, SetMeta, SetChunk, GetMeta, ReadDone, DelMeta, SimpleCmd,
                    TouchMeta, Broken, Muffled, NextChunk, AfterChunks, StartPut,
                    ReturnMiss, Return, Goto
      <3> QED BY <1>2, <2>1, <3>1, <3>2
    <2> QED BY <2>2, <2>3
  <1>7. ASSUME NEW c \in Conns, Refused(c) PROVE OwnRequests'
    <2>1. req' = req
      BY <1>7 DEF Refused, Fault
    <2>2. \/ pc' = pc
          \/ pc[c] # "idle" /\ \E p : pc' = [pc EXCEPT ![c] = p]
      BY <1>7 DEF Refused, NextChunk, AfterChunks, Return, Goto
    <2> QED BY <1>2, <1>3, <2>1, <2>2
  <1>8. ASSUME NEW c \in Conns, Dropped(c) PROVE OwnRequests'
    <2>1. req' = req
      BY <1>8 DEF Dropped, Fault
    <2>2. pc[c] # "idle" /\ \E p : pc' = [pc EXCEPT ![c] = p]
      BY <1>8 DEF Dropped, Return, Goto
    <2> QED BY <1>2, <2>1, <2>2
  <1>9. CASE Evict \/ Tick \/ UNCHANGED vars
    BY <1>3, <1>9 DEF Evict, Tick, Fault, vars
  <1> QED BY <1>4, <1>5, <1>6, <1>7, <1>8, <1>9 DEF Next

LEMMA StoredIs ==
  ASSUME NEW v, NEW e, NEW t
  PROVE  Store(v, e, t) = IF e # 0 /\ e <= t THEN None ELSE [val |-> v, exp |-> e]
  BY DEF Store, Live

LEMMA StoredAt ==
  ASSUME NEW i, NEW ch, NEW val, NEW token, NEW exp, NEW t,
         StoredUpTo(i, ch, val, token, exp, t), NEW j \in 1..(i - 1)
  PROVE  ch[j] = Store([token |-> token, piece |-> val[j]], exp, t)
  BY DEF StoredUpTo

LEMMA NoneIsNot ==
  /\ \A m \in MetaItem : m # None
  /\ \A ch \in ChunkItem : ch # None
  /\ \A v \in Seq(Piece), e \in Nat : [val |-> v, exp |-> e] # None
  <1>1. \A v \in Seq(Piece), e \in Nat : [val |-> v, exp |-> e] \in [val : Seq(Piece), exp : Nat]
    OBVIOUS
  <1> QED BY <1>1, NoItemAssumption

\* Metadata stored over the chunks of their write make a whole item.
LEMMA StoredIsWhole ==
  ASSUME NEW ws, WritesOK(ws), NEW md, Announced(md, ws), NEW e \in Nat, NEW t \in Nat,
         md.exptime = e, NEW m, m = Store(md, e, t),
         NEW ch, StoredUpTo(md.num + 1, ch, ws[md.token], md.token, e, t)
  PROVE  IsWhole(m, ch, t) /\ ItemOf(m, ws) = Store(ws[md.token], e, t)
  <1> DEFINE v == ws[md.token]
  <1>1. md \in MD /\ md.token \in 1..MaxTokens /\ md.num \in Nat /\ md.num = Len(v)
    BY DEF Announced, MD
  <1>2. v \in Seq(Piece)
    <2>1. ws \in Seq(Seq(Piece)) /\ md.token <= Len(ws)
      BY DEF WritesOK, Announced
    <2> QED BY <1>1, <2>1, TokenIs
  <1> HIDE DEF v
  <1>3. CASE e # 0 /\ e <= t
    BY <1>3, StoredIs DEF IsWhole, ItemOf, v
  <1>4. CASE ~(e # 0 /\ e <= t)
    <2>1. m = [val |-> md, exp |-> e] /\ Store(v, e, t) = [val |-> v, exp |-> e]
      BY <1>4, StoredIs
    <2>2. m \in MetaItem
      BY <1>1, <2>1 DEF MetaItem, MD
    <2>3. m # None /\ m.val = md /\ m.exp = e
      BY <2>1, <2>2, NoneIsNot
    <2>4. ASSUME NEW i \in 1..md.num
          PROVE  ch[i] # None /\ ch[i].val.token = md.token /\ ch[i].exp = e
      <3> DEFINE p == [token |-> md.token, piece |-> v[i]]
      <3>1. ch[i] = Store(p, e, t)
        <4> DEFINE k == md.num + 1
                   tok == md.token
        <4>1. StoredUpTo(k, ch, v, tok, e, t)
          BY Zenon DEF v
        <4>2. i \in 1..(k - 1)
          BY <1>1, <2>4
        <4> HIDE DEF k, tok
        <4>3. ch[i] = Store([token |-> tok, piece |-> v[i]], e, t)
          BY <4>1, <4>2, StoredAt
        <4> QED BY <4>3 DEF tok
      <3>2. ch[i] = [val |-> p, exp |-> e]
        BY <1>4, <3>1, StoredIs
      <3>3. v[i] \in Piece
        BY <1>1, <1>2, <2>4
      <3>4. [val |-> p, exp |-> e] \in ChunkItem
        BY <1>1, <3>3 DEF ChunkItem
      <3>5. p.token = md.token
        OBVIOUS
      <3> HIDE DEF p
      <3>6. ch[i] # None
        BY <3>2, <3>4, NoneIsNot
      <3> QED BY <3>2, <3>5, <3>6
    <2>5. e = 0 \/ e > t
      BY <1>4
    <2> QED BY <2>1, <2>3, <2>4, <2>5 DEF IsWhole, ItemOf, v
  <1> QED BY <1>3, <1>4

\* A whole item, put together.
LEMMA WholeIsAssembled ==
  ASSUME ChunkedInv, Whole PROVE Assembled = Held
  <1>1. ServerOK /\ WritesOK(written)
    BY DEF ChunkedInv, TokensOK
  <1>2. CASE meta = None
    BY <1>2 DEF Assembled, Held, ItemOf
  <1>3. CASE meta # None
    <2> DEFINE k == meta.val.num
               v == written[meta.val.token]
               b == [i \in 1..k |-> IF chunk[i] # None /\ chunk[i].val.token = meta.val.token
                                    THEN chunk[i].val.piece ELSE Zero]
    <2>1. Announced(meta.val, written)
      BY <1>1, <1>3 DEF ServerOK, MetaOK
    <2>2. k \in Nat /\ k = Len(v) /\ meta.val.token \in 1..MaxTokens
          /\ meta.val.token <= Len(written)
      BY <2>1 DEF Announced, MD
    <2>3. v \in Seq(Piece)
      <3>1. written \in Seq(Seq(Piece))
        BY <1>1 DEF WritesOK
      <3> QED BY <2>2, <3>1, TokenIs
    <2>4. ASSUME NEW i \in 1..k PROVE b[i] = v[i]
      <3>1. i \in Nat \ {0} /\ i <= meta.val.num
        BY <2>2, <2>4
      <3>2. i \in Indices
        BY <1>1, <2>1, <3>1, IndexIs
      <3>3. chunk[i] # None /\ chunk[i].val.token = meta.val.token
        BY <1>3, <2>4 DEF Whole, IsWhole
      <3>4. ChunkOK(chunk[i], i, written)
        BY <1>1, <3>2, <3>3 DEF ServerOK
      <3>5. chunk[i].val.piece = v[i]
        BY <3>3, <3>4 DEF ChunkOK
      <3> QED BY <2>4, <3>3, <3>5
    <2>5. v = [i \in 1..k |-> v[i]]
      BY <2>2, <2>3
    <2>6. b = v
      <3>1. b = [i \in 1..k |-> b[i]]
        OBVIOUS
      <3> HIDE DEF b, k, v
      <3> QED BY ONLY <2>4, <2>5, <3>1
    <2>7. Assembled = [val |-> b, exp |-> meta.exp]
      BY <1>3 DEF Assembled
    <2>8. Held = [val |-> v, exp |-> meta.exp]
      BY <1>3 DEF Held, ItemOf
    <2> HIDE DEF b, v
    <2> QED BY <2>6, <2>7, <2>8
  <1> QED BY <1>2, <1>3

\* The item held is one, if metadata are.
LEMMA HeldIs ==
  ASSUME ChunkedInv
  PROVE  /\ meta = None <=> Held = None
         /\ meta # None =>
              /\ Announced(meta.val, written) /\ meta.exp \in Nat
              /\ Held.val = written[meta.val.token] /\ Held.exp = meta.exp
              /\ Held = [val |-> written[meta.val.token], exp |-> meta.exp]
              /\ written[meta.val.token] \in Seq(Piece)
  <1>1. ServerOK /\ WritesOK(written)
    BY DEF ChunkedInv, TokensOK
  <1>2. CASE meta = None
    BY <1>2 DEF Held, ItemOf
  <1>3. CASE meta # None
    <2>1. Announced(meta.val, written) /\ meta.exp \in Nat
      BY <1>1, <1>3 DEF ServerOK, MetaOK, MetaItem
    <2>2. written[meta.val.token] \in Seq(Piece)
      <3>1. /\ written \in Seq(Seq(Piece)) /\ meta.val.token \in 1..MaxTokens
            /\ meta.val.token <= Len(written)
        BY <1>1, <2>1 DEF WritesOK, Announced, MD
      <3> QED BY <3>1, TokenIs
    <2>3. Held = [val |-> written[meta.val.token], exp |-> meta.exp]
      BY <1>3 DEF Held, ItemOf
    <2>4. Held # None
      BY <2>1, <2>2, <2>3, NoneIsNot
    <2> QED BY <1>3, <2>1, <2>2, <2>3, <2>4
  <1> QED BY <1>2, <1>3

\* One connection goes on with its request, the only one there is.
LEMMA GoesOn ==
  ASSUME ChunkedInv, Undisturbed, NEW c \in Conns, pc[c] # "idle", NEW p,
         pc' = [pc EXCEPT ![c] = p], now' = now, alive' = alive, expected' = expected,
         Serving(c)'
  PROVE  Undisturbed'
  <1>1. pc \in [Conns -> Labels]
    BY DEF ChunkedInv, VarsOK
  <1>2. \A d \in Conns : d # c => pc[d] = "idle" /\ pc'[d] = "idle"
    BY <1>1 DEF Undisturbed
  <1>3. pc'[c] # "idle"
    BY DEF Serving
  <1>4. /\ now' > RealTimeMaxDelta
        /\ alive' = [d \in Conns |-> "up"] /\ expected' = [d \in Conns |-> expected'[d]]
    BY DEF Undisturbed
  <1>5. \A d \in Conns : pc'[d] # "idle" => Serving(d)'
    BY <1>2
  <1> QED BY <1>2, <1>3, <1>4, <1>5 DEF Undisturbed

(***************************************************************************)
(* Puts.                                                                   *)
(***************************************************************************)

\* The outcome of the metadata command.
LEMMA StoreMetaCases ==
  ASSUME NEW put, put.kind \in Puts, put.deadline = Deadline(put.exptime, now)
  PROVE  LET res == StoreMeta(put) IN
         /\ res.err = "nil" => res.item = Store(Metadata(put), put.deadline, now)
         /\ res.err # "nil" => res.item = meta
         /\ res.err = IF put.kind = "Add" /\ meta # None THEN "KeyExists"
                      ELSE IF put.kind = "Replace" /\ meta = None THEN "KeyNotFound"
                      ELSE "nil"
  <1> DEFINE s == Store(Metadata(put), put.deadline, now)
  <1>1. Set(meta, Metadata(put), put.exptime, now) = [item |-> s, err |-> "nil"]
    BY DEF Set, Result
  <1> HIDE DEF s
  <1>2. StoreMeta(put) = IF put.kind = "Add" /\ meta # None THEN [item |-> meta, err |-> "KeyExists"]
                         ELSE IF put.kind = "Replace" /\ meta = None
                         THEN [item |-> meta, err |-> "KeyNotFound"]
                         ELSE [item |-> s, err |-> "nil"]
    BY <1>1 DEF StoreMeta, Puts, Add, Replace, Result
  <1> QED BY <1>2 DEF s

\* A put whose last chunk has been stored, or that has none.
LEMMA FilledIsSame ==
  ASSUME NEW ws, WritesOK(ws), NEW put, Writing(put, ws), NEW t \in Nat,
         NEW m, m = Store(Metadata(put), put.deadline, t),
         NEW ch, StoredUpTo(Len(put.val) + 1, ch, put.val, put.token, put.deadline, t)
  PROVE  IsWhole(m, ch, t) /\ ItemOf(m, ws) = Store(put.val, put.deadline, t)
  <1> DEFINE md == Metadata(put)
  <1>1. /\ put.val \in Seq(Piece) /\ put.deadline \in Nat /\ put.token \in 1..MaxTokens
        /\ put.token <= Len(ws) /\ ws[put.token] = put.val
    BY DEF Writing, PutsInHand
  <1>2. /\ md.num = Len(put.val) /\ md.token = put.token /\ md.exptime = put.deadline
        /\ md \in MD
    BY <1>1 DEF Metadata, MD
  <1>3. Announced(md, ws)
    BY <1>1, <1>2 DEF Announced
  <1>4. StoredUpTo(md.num + 1, ch, ws[md.token], md.token, put.deadline, t)
    BY <1>1, <1>2, Zenon
  <1> DEFINE e == put.deadline
  <1>5. /\ m = Store(md, e, t) /\ md.exptime = e /\ e \in Nat
        /\ StoredUpTo(md.num + 1, ch, ws[md.token], md.token, e, t)
    BY <1>1, <1>2, <1>4, Zenon
  <1> HIDE DEF md, e
  <1>6. IsWhole(m, ch, t) /\ ItemOf(m, ws) = Store(ws[md.token], e, t)
    BY <1>3, <1>5, StoredIsWhole
  <1> QED BY <1>1, <1>2, <1>6, Zenon DEF e

LEMMA SetMetaServes ==
  ASSUME ChunkedInv, Undisturbed, NEW c \in Conns, SetMeta(c) PROVE Undisturbed'
  <1> DEFINE put == work[c].put
             res == StoreMeta(put)
  <1>1. /\ now \in Nat /\ WritesOK(written) /\ VarsOK
        /\ Local(pc[c], work[c], req[c], reply[c], written)
    BY Facts DEF ChunkedInv
  <1>2. /\ pc[c] = "SetMeta" /\ meta' = res.item /\ chunk' = chunk /\ now' = now
        /\ written' = written /\ req' = req /\ work' = work /\ alive' = alive
        /\ ref' = ref /\ expected' = expected
        /\ \/ res.err # "nil" /\ Return(c, res.err, None)
           \/ res.err = "nil" /\ put.val = <<>> /\ Return(c, "nil", None)
           \/ res.err = "nil" /\ put.val # <<>> /\ Goto(c, "SetChunk")
    BY DEF SetMeta, history
  <1>3. Writing(put, written) /\ work[c].i = 1
    BY <1>1, <1>2 DEF Local
  <1>4. Deciding(c, put)
    BY <1>2 DEF Undisturbed, Serving
  <1> HIDE DEF put
  <1>5. put.kind \in Puts
    BY <1>3 DEF Writing, PutsInHand
  <1>6. /\ put.deadline = Deadline(put.exptime, now) /\ Whole
        /\ expected[c] = Answer(res.err, None)
        /\ ref = IF res.err = "nil" THEN Store(put.val, put.deadline, now) ELSE Held
    BY <1>4 DEF Deciding
  <1>7. /\ res.err = "nil" => res.item = Store(Metadata(put), put.deadline, now)
        /\ res.err # "nil" => res.item = meta
        /\ res.err \in {"nil", "KeyExists", "KeyNotFound"}
    BY <1>5, <1>6, StoreMetaCases
  <1> HIDE DEF res
  <1>8. expected[c].err = res.err /\ expected[c].val = None /\ SameError(res.err) = res.err
    BY <1>6, <1>7 DEF Answer, SameError
  <1>9. StoredUpTo(1, chunk, put.val, put.token, put.deadline, now)
    BY DEF StoredUpTo
  <1>10. ASSUME Return(c, res.err, None), Same' PROVE Undisturbed'
    <2>1. /\ pc' = [pc EXCEPT ![c] = "done"] /\ pc'[c] = "done"
          /\ reply'[c] = [err |-> res.err, val |-> None]
      BY <1>1, <1>10 DEF Return, VarsOK
    <2>2. Serving(c)'
      BY <1>2, <1>8, <1>10, <2>1 DEF Serving
    <2> QED BY <1>2, <2>1, <2>2, GoesOn
  <1>11. CASE res.err # "nil" /\ Return(c, res.err, None)
    <2>1. Same'
      BY <1>2, <1>6, <1>7, <1>11 DEF Same, Whole, Held
    <2> QED BY <1>10, <1>11, <2>1
  <1>12. CASE res.err = "nil" /\ put.val = <<>> /\ Return(c, "nil", None)
    <2>1. StoredUpTo(Len(put.val) + 1, chunk, put.val, put.token, put.deadline, now)
      BY <1>12 DEF StoredUpTo
    <2>2. IsWhole(meta', chunk, now)
          /\ ItemOf(meta', written) = Store(put.val, put.deadline, now)
      BY <1>1, <1>2, <1>3, <1>7, <1>12, <2>1, FilledIsSame
    <2>3. Same'
      BY <1>2, <1>6, <1>12, <2>2 DEF Same, Whole, Held
    <2> QED BY <1>10, <1>12, <2>3
  <1>13. CASE res.err = "nil" /\ put.val # <<>> /\ Goto(c, "SetChunk")
    <2>1. pc' = [pc EXCEPT ![c] = "SetChunk"] /\ pc'[c] = "SetChunk"
      BY <1>1, <1>13 DEF Goto, VarsOK
    <2>2. work'[c].put = put /\ work'[c].i = 1
      BY <1>2, <1>3 DEF put
    <2>3. Filling(c, work[c].put, work[c].i)'
      BY <1>2, <1>6, <1>7, <1>9, <1>13, <2>2 DEF Filling
    <2>4. Serving(c)'
      BY <2>1, <2>3 DEF Serving
    <2> QED BY <1>2, <2>1, <2>4, GoesOn
  <1> QED BY <1>2, <1>11, <1>12, <1>13

LEMMA StoredNext ==
  ASSUME NEW ch \in [Indices -> ChunkItem \cup {None}], NEW val, NEW token, NEW exp, NEW t,
         NEW i \in Indices, StoredUpTo(i, ch, val, token, exp, t),
         NEW new, new = [ch EXCEPT ![i] = Store([token |-> token, piece |-> val[i]], exp, t)]
  PROVE  StoredUpTo(i + 1, new, val, token, exp, t)
  <1> DEFINE k == i + 1
  <1>1. i \in Nat \ {0} /\ \A j \in 1..(i - 1) : j \in Indices /\ j # i
    <2>1. MaxPieces * MaxTokens \in Nat
      BY ChunkedAssumption
    <2> QED BY <2>1 DEF Indices
  <1>2. i \in 1..(k - 1) /\ \A j \in 1..(k - 1) : j = i \/ j \in 1..(i - 1)
    BY <1>1
  <1> HIDE DEF k
  <1>3. ASSUME NEW j \in 1..(k - 1)
        PROVE  new[j] = Store([token |-> token, piece |-> val[j]], exp, t)
    <2>1. CASE j = i
      BY <2>1
    <2>2. CASE j \in 1..(i - 1)
      <3>1. ch[j] = Store([token |-> token, piece |-> val[j]], exp, t)
        BY <2>2, StoredAt
      <3> QED BY <1>1, <2>2, <3>1
    <2> QED BY <1>2, <1>3, <2>1, <2>2
  <1>4. StoredUpTo(k, new, val, token, exp, t)
    BY <1>3 DEF StoredUpTo
  <1> QED BY <1>4 DEF k

LEMMA SetChunkServes ==
  ASSUME ChunkedInv, Undisturbed, NEW c \in Conns, SetChunk(c) PROVE Undisturbed'
  <1> DEFINE put == work[c].put
             i == work[c].i
             w == [work[c] EXCEPT !.i = @ + 1]
  <1>1. /\ now \in Nat /\ work[c] \in Works /\ ServerOK /\ VarsOK /\ WritesOK(written)
        /\ Local(pc[c], work[c], req[c], reply[c], written)
    BY Facts DEF ChunkedInv
  <1>2. /\ pc[c] = "SetChunk" /\ chunk' = [chunk EXCEPT ![i] = StoreChunk(put, i).item]
        /\ work' = [work EXCEPT ![c] = w]
        /\ \/ i < Len(put.val) /\ Goto(c, "SetChunk")
           \/ ~(i < Len(put.val)) /\ Return(c, "nil", None)
        /\ meta' = meta /\ now' = now /\ written' = written /\ req' = req
        /\ alive' = alive /\ ref' = ref /\ expected' = expected
    BY DEF SetChunk, NextChunk, history
  <1>3. Writing(put, written) /\ i <= Len(put.val)
    BY <1>1, <1>2 DEF Local
  <1>4. i \in Nat \ {0} /\ w.i = i + 1 /\ w.put = put /\ work'[c] = w
    BY <1>1, <1>2 DEF Works, VarsOK
  <1>5. Filling(c, put, i)
    BY <1>2 DEF Undisturbed, Serving
  <1> HIDE DEF put, i, w
  <1>6. /\ put.val \in Seq(Piece) /\ put.deadline \in Nat /\ put.token \in 1..MaxTokens
        /\ put.token <= Len(written) /\ written[put.token] = put.val
    BY <1>3 DEF Writing, PutsInHand
  <1>7. /\ put.deadline = Deadline(put.exptime, now)
        /\ expected[c] = Answer("nil", None)
        /\ ref = Store(put.val, put.deadline, now)
        /\ meta = Store(Metadata(put), put.deadline, now)
        /\ StoredUpTo(i, chunk, put.val, put.token, put.deadline, now)
    BY <1>5 DEF Filling
  <1>8. i \in Indices
    <2> DEFINE md == Metadata(put)
    <2>1. md \in MD /\ md.num = Len(put.val) /\ md.token = put.token
      BY <1>6 DEF Metadata, MD
    <2>2. Announced(md, written)
      BY <1>6, <2>1 DEF Announced
    <2> HIDE DEF md
    <2> QED BY <1>1, <1>3, <1>4, <2>1, <2>2, IndexIs
  <1>9. StoreChunk(put, i).item = Store([token |-> put.token, piece |-> put.val[i]],
                                        put.deadline, now)
    BY <1>7 DEF StoreChunk, Set, Result
  <1>10. StoredUpTo(i + 1, chunk', put.val, put.token, put.deadline, now)
    <2> DEFINE val == put.val
               token == put.token
               exp == put.deadline
    <2>1. /\ chunk' = [chunk EXCEPT ![i] = Store([token |-> token, piece |-> val[i]], exp, now)]
          /\ chunk \in [Indices -> ChunkItem \cup {None}]
      BY <1>1, <1>2, <1>9 DEF ServerOK
    <2>2. StoredUpTo(i, chunk, val, token, exp, now)
      BY <1>7
    <2> HIDE DEF val, token, exp
    <2>3. StoredUpTo(i + 1, chunk', val, token, exp, now)
      BY <1>8, <2>1, <2>2, StoredNext
    <2> QED BY <2>3 DEF val, token, exp
  <1>11. CASE i < Len(put.val) /\ Goto(c, "SetChunk")
    <2>1. pc' = [pc EXCEPT ![c] = "SetChunk"] /\ pc'[c] = "SetChunk"
      BY <1>1, <1>11 DEF Goto, VarsOK
    <2>2. Filling(c, work[c].put, work[c].i)'
      BY <1>2, <1>4, <1>7, <1>10 DEF Filling
    <2>3. Serving(c)'
      BY <2>1, <2>2 DEF Serving
    <2> QED BY <1>2, <2>1, <2>3, GoesOn
  <1>12. CASE ~(i < Len(put.val)) /\ Return(c, "nil", None)
    <2>1. i + 1 = Len(put.val) + 1
      BY <1>3, <1>4, <1>6, <1>12
    <2>2. IsWhole(meta, chunk', now)
          /\ ItemOf(meta, written) = Store(put.val, put.deadline, now)
      BY <1>1, <1>3, <1>7, <1>10, <2>1, FilledIsSame
    <2>3. Same'
      BY <1>2, <1>7, <2>2 DEF Same, Whole, Held
    <2>4. /\ pc' = [pc EXCEPT ![c] = "done"] /\ pc'[c] = "done"
          /\ reply'[c] = [err |-> "nil", val |-> None]
      BY <1>1, <1>12 DEF Return, VarsOK
    <2>5. expected'[c].err = "nil" /\ expected'[c].val = None /\ SameError("nil") = "nil"
      BY <1>2, <1>7 DEF Answer, SameError
    <2>6. Serving(c)'
      BY <2>3, <2>4, <2>5 DEF Serving
    <2> QED BY <1>2, <2>4, <2>6, GoesOn
  <1> QED BY <1>2, <1>11, <1>12

(***************************************************************************)
(* Reads.                                                                  *)
(***************************************************************************)

\* What a plain memcached does with a request for an item it does not hold ...
LEMMA EffectOfMiss ==
  ASSUME NEW h, h = None, NEW r, r.op \in Ops \ Puts, NEW t, NEW item, NEW ans,
         Foreseen(h, r, t, item, ans)
  PROVE  /\ item = None /\ ans.val = None
         /\ SameError(ans.err) = IF r.op \in {"Get", "Gat"} THEN "nil" ELSE "KeyNotFound"
  <1> USE DEF Foreseen, Effect, Answer, SameError, Found, Result
  <1>1. CASE r.op \in {"Get", "Gat"}
    BY <1>1 DEF GAT
  <1>2. CASE r.op \in {"Append", "Prepend"}
    BY <1>2 DEF AppendCmd, PrependCmd
  <1>3. CASE r.op \in {"Delete", "Touch"}
    BY <1>3 DEF Delete, Touch
  <1> QED BY <1>1, <1>2, <1>3 DEF Ops, Puts

\* ... and for one it does.
LEMMA EffectOfHit ==
  ASSUME NEW h, h # None, NEW r, NEW t, NEW item, NEW ans, Foreseen(h, r, t, item, ans)
  PROVE  /\ r.op = "Get" => item = h /\ ans = Answer("nil", h.val)
         /\ r.op = "Gat" => /\ item = Store(h.val, Deadline(r.exptime, t), t)
                            /\ ans = Answer("nil", h.val)
         /\ r.op = "Touch" => /\ item = Store(h.val, Deadline(r.exptime, t), t)
                              /\ ans = Answer("nil", None)
         /\ r.op = "Delete" => item = None /\ ans = Answer("nil", None)
  <1> USE DEF Foreseen, Effect, Answer, Found, Result
  <1>1. CASE r.op = "Get"
    BY <1>1
  <1>2. CASE r.op = "Gat"
    BY <1>2 DEF GAT, Touch
  <1>3. CASE r.op = "Touch"
    BY <1>3 DEF Touch
  <1>4. CASE r.op = "Delete"
    BY <1>4 DEF Delete
  <1> QED BY <1>1, <1>2, <1>3, <1>4

\* A gat to the deadline that an item has leaves it as it is.
LEMMA GatStays ==
  ASSUME NEW item \in MetaItem \cup ChunkItem, NEW e, NEW t, Deadline(e, t) = item.exp,
         item.exp = 0 \/ item.exp > t, t \in Nat
  PROVE  GAT(item, e, t).item = item
  <1>1. item # None /\ item.exp \in Nat /\ item = [val |-> item.val, exp |-> item.exp]
    BY NoneIsNot DEF MetaItem, ChunkItem
  <1>2. GAT(item, e, t).item = Store(item.val, item.exp, t)
    BY <1>1 DEF GAT, Touch, Result
  <1>3. ~(item.exp # 0 /\ item.exp <= t)
    BY <1>1
  <1> QED BY <1>1, <1>2, <1>3, StoredIs

LEMMA GetMetaServes ==
  ASSUME ChunkedInv, Undisturbed, NEW c \in Conns, GetMeta(c) PROVE Undisturbed'
  <1> DEFINE r == req[c]
             p == AfterMeta(r.op, meta.val.num)
  <1>1. /\ now \in Nat /\ ServerOK /\ WritesOK(written) /\ VarsOK
        /\ Local(pc[c], work[c], r, reply[c], written)
    BY Facts DEF ChunkedInv
  <1>2. /\ pc[c] = "GetMeta" /\ meta' = ReadMeta(c) /\ chunk' = chunk /\ now' = now
        /\ written' = written /\ req' = req /\ alive' = alive
        /\ ref' = ref /\ expected' = expected
        /\ \/ meta = None /\ ReturnMiss(c)
           \/ meta # None /\ work' = [work EXCEPT ![c].md = meta.val] /\ Goto(c, p)
    BY DEF GetMeta, history
  <1>3. work[c] = NoWork /\ r \in AllRequests
    BY <1>1, <1>2 DEF Local
  <1>4. Pending(c) /\ r.op \in Ops \ Puts
    BY <1>2, <1>3 DEF Undisturbed, Serving, AllRequests
  <1>5. /\ Whole /\ Foreseen(Held, r, now, ref, expected[c])
        /\ (r.op = "Gat" /\ meta # None) => Deadline(r.exptime, now) = meta.exp
    BY <1>4 DEF Pending
  <1>6. /\ meta = None <=> Held = None
        /\ meta # None => /\ Announced(meta.val, written) /\ meta.exp \in Nat
                          /\ Held.val = written[meta.val.token] /\ Held.exp = meta.exp
    BY HeldIs
  <1>7. meta' = meta
    <2>1. CASE r.op = "Gat" /\ meta # None
      <3>1. meta \in MetaItem
        BY <1>1, <2>1 DEF ServerOK, MetaOK
      <3>2. meta.exp = 0 \/ meta.exp > now
        BY <1>5, <2>1 DEF Whole, IsWhole
      <3>3. GAT(meta, r.exptime, now).item = meta
        BY <1>1, <1>5, <2>1, <3>1, <3>2, GatStays
      <3> QED BY <1>2, <2>1, <3>3 DEF ReadMeta
    <2>2. CASE meta = None
      BY <1>2, <2>2 DEF ReadMeta, GAT, Result
    <2>3. CASE r.op # "Gat"
      BY <1>2, <2>3 DEF ReadMeta
    <2> QED BY <2>1, <2>2, <2>3
  <1>8. Whole' /\ Held' = Held
    BY <1>2, <1>5, <1>7 DEF Whole, Held
  <1>9. CASE meta = None /\ ReturnMiss(c)
    <2> DEFINE e == IF r.op \in {"Get", "Gat"} THEN "nil" ELSE "KeyNotFound"
    <2>1. Return(c, e, None)
      BY <1>9 DEF ReturnMiss
    <2>2. ref = None /\ expected[c].val = None /\ SameError(expected[c].err) = e
      BY <1>4, <1>5, <1>6, <1>9, EffectOfMiss
    <2> HIDE DEF e
    <2>3. Same'
      BY <1>2, <1>6, <1>8, <1>9, <2>2 DEF Same
    <2>4. /\ pc' = [pc EXCEPT ![c] = "done"] /\ pc'[c] = "done"
          /\ reply'[c] = [err |-> e, val |-> None]
      BY <1>1, <2>1 DEF Return, VarsOK
    <2>5. Serving(c)'
      BY <1>2, <2>2, <2>3, <2>4 DEF Serving
    <2> QED BY <1>2, <2>4, <2>5, GoesOn
  <1>10. CASE meta # None /\ work' = [work EXCEPT ![c].md = meta.val] /\ Goto(c, p)
    <2>1. pc' = [pc EXCEPT ![c] = p] /\ pc'[c] = p
      BY <1>1, <1>10 DEF Goto, VarsOK
    <2>2. /\ work'[c].md = meta.val /\ work'[c].i = 1 /\ work'[c].buf = <<>>
          /\ ~work'[c].miss /\ work'[c].err = "nil"
      <3>1. work'[c] = [NoWork EXCEPT !.md = meta.val]
        BY <1>1, <1>3, <1>10 DEF VarsOK
      <3> QED BY <3>1 DEF NoWork
    <2>3. Took(c)'
      BY <1>7, <1>10, <2>2 DEF Took
    <2>4. Pending(c)'
      BY <1>2, <1>5, <1>7, <1>8 DEF Pending
    <2>5. meta.val.num \in Nat
      BY <1>6, <1>10 DEF Announced, MD
    <2>6. CASE r.op = "Delete"
      <3>1. p = "DelMeta"
        BY <2>6 DEF AfterMeta
      <3>2. Removing(c)'
        BY <1>2, <2>2, <2>3, <2>4, <2>6 DEF Removing
      <3>3. Serving(c)'
        BY <2>1, <3>1, <3>2 DEF Serving
      <3> QED BY <1>2, <2>1, <3>3, GoesOn
    <2>7. CASE r.op = "Touch"
      <3>1. Touching(c, 1)'
        <4> DEFINE exp == Deadline(r.exptime, now)
                   val == written[meta.val.token]
        <4>1. ref = Store(val, exp, now) /\ expected[c] = Answer("nil", None)
          <5>1. ref = Store(Held.val, exp, now) /\ expected[c] = Answer("nil", None)
            BY <1>5, <1>6, <1>10, <2>7, EffectOfHit
          <5> QED BY <1>6, <1>10, <5>1
        <4>2. \A j \in 1..meta.val.num :
                chunk[j] # None /\ chunk[j].val.token = meta.val.token
          BY <1>5, <1>10 DEF Whole, IsWhole
        <4>3. StoredUpTo(1, chunk, val, meta.val.token, exp, now)
          BY DEF StoredUpTo
        <4>4. req'[c].op = "Touch"
          BY <1>2, <2>7
        <4>5. /\ ref' = Store(written'[work'[c].md.token], Deadline(req'[c].exptime, now'), now')
              /\ expected'[c] = Answer("nil", None)
          BY <1>2, <2>2, <4>1
        <4>6. StoredUpTo(1, chunk', written'[work'[c].md.token], work'[c].md.token,
                         Deadline(req'[c].exptime, now'), now')
          BY <1>2, <2>2, <4>3
        <4>7. \A j \in 1..work'[c].md.num :
                chunk'[j] # None /\ chunk'[j].val.token = work'[c].md.token
          BY <1>2, <2>2, <4>2
        <4> QED BY <2>2, <2>3, <4>4, <4>5, <4>6, <4>7 DEF Touching
      <3>2. CASE meta.val.num > 0
        <4>1. p = "TouchChunk"
          BY <2>5, <2>7, <3>2 DEF AfterMeta
        <4>2. Touching(c, work[c].i)' /\ work'[c].i <= work'[c].md.num
          BY <2>2, <2>5, <3>1, <3>2
        <4>3. Serving(c)'
          BY <2>1, <4>1, <4>2 DEF Serving
        <4> QED BY <1>2, <2>1, <4>3, GoesOn
      <3>3. CASE ~(meta.val.num > 0)
        <4>1. p = "TouchMeta"
          BY <2>5, <2>7, <3>3 DEF AfterMeta
        <4>2. work'[c].md.num + 1 = 1
          BY <2>2, <2>5, <3>3
        <4>3. Touching(c, work[c].md.num + 1)'
          BY <3>1, <4>2
        <4>4. Serving(c)'
          BY <2>1, <4>1, <4>3 DEF Serving
        <4> QED BY <1>2, <2>1, <4>4, GoesOn
      <3> QED BY <3>2, <3>3
    <2>8. CASE r.op \in {"Get", "Gat"} \cup Extends
      <3>1. p = "Read"
        BY <2>8 DEF AfterMeta, Extends
      <3>2. Collecting(c)'
        BY <1>2, <2>2, <2>3, <2>4, <2>8 DEF Collecting
      <3>3. Serving(c)'
        BY <2>1, <3>1, <3>2 DEF Serving
      <3> QED BY <1>2, <2>1, <3>3, GoesOn
    <2> QED BY <1>4, <2>6, <2>7, <2>8 DEF Ops, Puts, Extends
  <1> QED BY <1>2, <1>9, <1>10

LEMMA ReadChunkServes ==
  ASSUME ChunkedInv, Undisturbed, NEW c \in Conns, ReadChunk(c) PROVE Undisturbed'
  <1> DEFINE w == work[c]
             r == req[c]
             i == w.i
             item == chunk[i]
             x == item.val.piece
             m == w.miss \/ TokenDiffers(w, item)
             read == ReadInto(w, x, m)
             v == [read EXCEPT !.i = @ + 1]
  <1>1. /\ now \in Nat /\ w \in Works /\ ServerOK /\ VarsOK /\ WritesOK(written)
        /\ Local(pc[c], w, r, reply[c], written)
    BY Facts DEF ChunkedInv
  <1>2. /\ pc[c] = "Read" /\ i <= w.md.num
        /\ item # None => work' = [work EXCEPT ![c] = v]
        /\ chunk' = (IF r.op = "Gat"
                     THEN [chunk EXCEPT ![i] = GAT(item, r.exptime, now).item]
                     ELSE chunk)
        /\ meta' = meta /\ now' = now /\ written' = written /\ pc' = pc /\ req' = req
        /\ alive' = alive /\ ref' = ref /\ expected' = expected
    BY DEF ReadChunk, NumChunks, ReadInto, history
  <1>3. Collecting(c)
    BY <1>2 DEF Undisturbed, Serving
  <1>4. /\ Pending(c) /\ meta # None /\ w.md = meta.val
        /\ r.op \in {"Get", "Gat"} \cup Extends
        /\ ~w.miss /\ w.err = "nil" /\ Len(w.buf) = i - 1
    BY <1>3 DEF Collecting, Took
  <1>5. /\ Whole /\ Foreseen(Held, r, now, ref, expected[c])
        /\ r.op = "Gat" => Deadline(r.exptime, now) = meta.exp
    BY <1>4 DEF Pending
  <1>6. Announced(w.md, written) /\ w.miss \in BOOLEAN /\ i \in Nat \ {0} /\ w.buf \in Seq(Piece)
    BY <1>1, <1>2, WorkIs DEF Local
  <1>7. i \in Indices
    BY <1>1, <1>2, <1>6, IndexIs
  <1>8. /\ item # None /\ item.val.token = w.md.token /\ item.exp = meta.exp
        /\ meta.exp = 0 \/ meta.exp > now
    <2>1. i \in 1..meta.val.num
      <3>1. w.md.num \in Nat
        BY <1>6 DEF Announced, MD
      <3> QED BY <1>2, <1>4, <1>6, <3>1
    <2> QED BY <1>4, <1>5, <2>1 DEF Whole, IsWhole
  <1>9. ChunkOK(item, i, written) /\ chunk \in [Indices -> ChunkItem \cup {None}]
    BY <1>1, <1>7, <1>8 DEF ServerOK
  <1>10. chunk' = chunk
    <2>1. CASE r.op = "Gat"
      <3>1. item \in ChunkItem
        BY <1>9 DEF ChunkOK
      <3> HIDE DEF item
      <3>2. GAT(item, r.exptime, now).item = item
        BY <1>1, <1>5, <1>8, <2>1, <3>1, GatStays
      <3>3. chunk' = [chunk EXCEPT ![i] = item]
        BY <1>2, <2>1, <3>2
      <3> QED BY <1>7, <1>9, <3>3 DEF item
    <2>2. CASE r.op # "Gat"
      BY <1>2, <2>2
    <2> QED BY <2>1, <2>2
  <1>11. ~m /\ m \in BOOLEAN /\ x \in Piece
    BY <1>4, <1>6, <1>8, <1>9 DEF TokenDiffers, ChunkOK, ChunkItem
  <1>12. work'[c] = v
    BY <1>1, <1>2, <1>8 DEF VarsOK
  <1> HIDE DEF w, i, m, x
  <1>13. /\ read \in Works /\ read.buf = Append(w.buf, x) /\ read.miss = m /\ read.i = w.i
         /\ read.md = w.md /\ read.err = w.err
    BY <1>1, <1>11, ReadingWork
  <1> HIDE DEF read
  <1>14. v.i = i + 1 /\ v.md = w.md /\ v.buf = Append(w.buf, x) /\ v.err = w.err /\ v.miss = m
    BY <1>13 DEF Works, i
  <1>15. Len(v.buf) = v.i - 1
    <2>1. Len(Append(w.buf, x)) = Len(w.buf) + 1 /\ Len(w.buf) \in Nat
      BY <1>6, <1>11
    <2> QED BY <1>4, <1>6, <1>14, <2>1
  <1> HIDE DEF v
  <1>16. Pending(c)' /\ Took(c)'
    BY <1>2, <1>4, <1>5, <1>10, <1>12, <1>14 DEF Pending, Took, Whole, Held
  <1>17. Collecting(c)'
    BY <1>2, <1>4, <1>11, <1>12, <1>14, <1>15, <1>16 DEF Collecting
  <1>18. Serving(c)'
    BY <1>2, <1>17 DEF Serving
  <1>19. pc' = [pc EXCEPT ![c] = "Read"]
    BY <1>1, <1>2 DEF VarsOK
  <1> QED BY <1>2, <1>18, <1>19, GoesOn

LEMMA ReadDoneServes ==
  ASSUME Roomy, ChunkedInv, ChunkedInv', Undisturbed, NEW c \in Conns, ReadDone(c)
  PROVE  Undisturbed'
  <1> DEFINE w == work[c]
             r == req[c]
             b == Buffer(w)
             val == IF r.op = "Append" THEN b \o r.val ELSE r.val \o b
  <1>1. /\ now \in Nat /\ w \in Works /\ VarsOK /\ WritesOK(written)
        /\ Local(pc[c], w, r, reply[c], written) /\ r \in AllRequests \cup {None}
    BY Facts DEF ChunkedInv
  <1>2. pc[c] = "Read" /\ w.i > w.md.num
    BY DEF ReadDone, NumChunks
  <1>3. Collecting(c)
    BY <1>2 DEF Undisturbed, Serving
  <1>4. /\ Pending(c) /\ meta # None /\ w.md = meta.val
        /\ r.op \in {"Get", "Gat"} \cup Extends
        /\ ~w.miss /\ w.err = "nil" /\ Len(w.buf) = w.i - 1
    BY <1>3 DEF Collecting, Took
  <1>5. /\ \/ r.op \in Extends /\ StartPut(c, "Set", val, w.md.exptime)
           \/ r.op \in {"Get", "Gat"} /\ Return(c, "nil", b) /\ written' = written
        /\ meta' = meta /\ chunk' = chunk /\ now' = now /\ req' = req
        /\ alive' = alive /\ ref' = ref /\ expected' = expected
    BY <1>4 DEF ReadDone, history, cache, Extends
  <1>6. /\ Whole /\ Foreseen(Held, r, now, ref, expected[c])
        /\ r.op = "Gat" => Deadline(r.exptime, now) = meta.exp
    BY <1>4 DEF Pending
  <1>7. /\ Announced(w.md, written) /\ Reading(w, written) /\ r \in AllRequests
    BY <1>1, <1>2 DEF Local
  <1>8. b = written[w.md.token]
    <2>1. w.md.num \in Nat /\ w.i \in Nat /\ w.i <= w.md.num + 1
      BY <1>1, <1>7 DEF Announced, MD, Works, Reading
    <2>2. Len(w.buf) = w.md.num
      BY <1>2, <1>4, <2>1
    <2>3. \A n \in 1..Len(w.buf) : w.buf[n] = written[w.md.token][n]
      BY <1>4, <1>7 DEF Reading
    <2>4. written \in Seq(Seq(Piece))
      BY <1>1 DEF WritesOK
    <2> QED BY <1>1, <1>7, <2>2, <2>3, <2>4, BufferIs
  <1>9. /\ Held # None /\ Held.val = b /\ Held.exp = meta.exp /\ meta.exp \in Nat
        /\ Held = [val |-> b, exp |-> meta.exp] /\ b \in Seq(Piece)
    BY <1>4, <1>8, HeldIs
  <1>10. meta.val.exptime = meta.exp /\ (meta.exp = 0 \/ meta.exp > now)
    BY <1>4, <1>6 DEF Whole, IsWhole
  <1> HIDE DEF w, r, b
  <1>11. CASE r.op \in {"Get", "Gat"} /\ Return(c, "nil", b) /\ written' = written
    <2>1. ref = Held /\ expected[c] = Answer("nil", b)
      <3>1. CASE r.op = "Get"
        BY <1>6, <1>9, <3>1, EffectOfHit
      <3>2. CASE r.op = "Gat"
        <4>1. ref = Store(Held.val, Deadline(r.exptime, now), now)
              /\ expected[c] = Answer("nil", Held.val)
          BY <1>6, <1>9, <3>2, EffectOfHit
        <4>2. ref = Store(b, meta.exp, now)
          BY <1>6, <1>9, <3>2, <4>1
        <4>3. ~(meta.exp # 0 /\ meta.exp <= now)
          BY <1>1, <1>9, <1>10
        <4> QED BY <1>9, <4>1, <4>2, <4>3, StoredIs
      <3> QED BY <1>11, <3>1, <3>2
    <2>2. Same'
      BY <1>5, <1>6, <1>11, <2>1 DEF Same, Whole, Held
    <2>3. /\ pc' = [pc EXCEPT ![c] = "done"] /\ pc'[c] = "done"
          /\ reply'[c] = [err |-> "nil", val |-> b]
      BY <1>1, <1>11 DEF Return, VarsOK
    <2>4. expected'[c].err = "nil" /\ expected'[c].val = b /\ SameError("nil") = "nil"
      BY <1>5, <2>1 DEF Answer, SameError
    <2>5. Serving(c)'
      BY <2>2, <2>3, <2>4 DEF Serving
    <2> QED BY <1>2, <1>5, <2>3, <2>5, GoesOn
  <1>12. CASE r.op \in Extends /\ StartPut(c, "Set", val, w.md.exptime)
    <2> DEFINE e == meta.exp
               put == [kind |-> "Set", val |-> val, exptime |-> e,
                       deadline |-> Deadline(e, now), token |-> Len(written) + 1]
    <2>1. w.md.exptime = e /\ e \in Nat /\ ~Expired(e) /\ Deadline(e, now) = e
      <3>1. w.md.exptime = e /\ e \in Nat
        BY <1>4, <1>9, <1>10
      <3>2. ~Expired(e)
        BY <1>1, <1>10, <3>1, BoundsAssumption DEF Expired
      <3>3. e = 0 \/ e > RealTimeMaxDelta
        BY <1>1, <1>10, <3>1, BoundsAssumption DEF Undisturbed
      <3> QED BY <3>1, <3>2, <3>3 DEF Deadline
    <2>2. /\ written' = Append(written, val)
          /\ work' = [work EXCEPT ![c].i = 1, ![c].put = put]
          /\ Goto(c, "SetMeta")
      BY <1>12, <2>1 DEF StartPut
    <2> HIDE DEF val
    <2>3. work'[c].put = put
      <3> HIDE DEF put
      <3>1. work' = [work EXCEPT ![c] = [work[c] EXCEPT !.i = 1, !.put = put]]
        BY <1>1, <2>2 DEF VarsOK
      <3>2. work'[c] = [work[c] EXCEPT !.i = 1, !.put = put]
        BY <1>1, <3>1 DEF VarsOK
      <3> QED BY <1>1, <3>2 DEF Works, w
    <2>4. pc' = [pc EXCEPT ![c] = "SetMeta"] /\ pc'[c] = "SetMeta"
      BY <1>1, <2>2 DEF Goto, VarsOK
    <2>5. ~(Len(val) > MaxLen)
      <3>1. val \in Seq(Piece)
        <4>1. r.val \in Seq(Data)
          BY <1>7 DEF AllRequests, Payload
        <4>2. r.val \in Seq(Piece)
          BY <4>1 DEF Piece
        <4>3. b \o r.val \in Seq(Piece) /\ r.val \o b \in Seq(Piece)
          BY <1>9, <4>2, ConcatProperties
        <4> QED BY <4>3 DEF val
      <3> DEFINE k == Len(written) + 1
      <3>2. WritesOK(written') /\ TokensOK'
        BY DEF ChunkedInv, TokensOK
      <3>3. written \in Seq(Seq(Piece)) /\ k \in Nat \ {0}
        BY <1>1 DEF WritesOK
      <3>4. Len(written') = k /\ written'[k] = val
        BY <2>2, <3>1, <3>3, AppendProperties
      <3>5. k \in 1..Len(written')
        BY <3>3, <3>4
      <3> HIDE DEF k
      <3>6. Len(val) <= MaxPieces * k
        BY <3>2, <3>4, <3>5 DEF WritesOK
      <3>7. k <= MaxTokens /\ MaxTokens \in Nat /\ MaxPieces \in Nat
        <4>1. IsFiniteSet(Drawing') /\ Len(written') + Cardinality(Drawing') <= MaxTokens
          BY <3>2 DEF TokensOK
        <4>2. Cardinality(Drawing') \in Nat
          BY <4>1, FS_CardinalityType
        <4> QED BY <3>3, <3>4, <4>1, <4>2, ChunkedAssumption
      <3>8. MaxPieces * k \in Nat /\ MaxPieces * MaxTokens \in Nat
            /\ MaxPieces * k <= MaxPieces * MaxTokens
        BY <3>3, <3>7, Scaled
      <3>9. Len(val) \in Nat /\ MaxLen \in Nat
        BY <3>1, BoundsAssumption
      <3> DEFINE l == Len(val)
                 x == MaxPieces * k
                 y == MaxPieces * MaxTokens
      <3>10. /\ l \in Nat /\ x \in Nat /\ y \in Nat /\ MaxLen \in Nat
             /\ l <= x /\ x <= y /\ y <= MaxLen
        <4>1. y <= MaxLen
          BY DEF Roomy
        <4> QED BY <3>6, <3>8, <3>9, <4>1
      <3> HIDE DEF l, x, y
      <3>11. ~(l > MaxLen)
        BY <3>10
      <3> QED BY <3>11 DEF l
    <2>6. ref = [val |-> val, exp |-> e] /\ expected[c] = Answer("nil", None)
      <3> DEFINE h == Held
                 ans == expected[c]
      <3>1. /\ h # None /\ Foreseen(h, r, now, ref, ans) /\ r.op \in Extends
            /\ ~(Len(val) > MaxLen)
        BY <1>6, <1>9, <1>12, <2>5
      <3>2. h = [val |-> b, exp |-> e]
        BY <1>9
      <3>3. val = IF r.op = "Append" THEN b \o r.val ELSE r.val \o b
        BY DEF val
      <3> HIDE DEF h, ans, e
      <3>4. ref = [val |-> val, exp |-> e] /\ ans = Answer("nil", None)
        <4> USE DEF Foreseen, Effect, Answer, Found, Result, Extend
        <4>1. CASE r.op = "Append"
          BY ONLY <3>1, <3>2, <3>3, <4>1 DEF AppendCmd
        <4>2. CASE r.op = "Prepend"
          BY ONLY <3>1, <3>2, <3>3, <4>2 DEF PrependCmd
        <4> QED BY <3>1, <4>1, <4>2 DEF Extends
      <3> QED BY <3>4 DEF ans
    <2>7. ref = Store(val, e, now)
      <3>1. ~(e # 0 /\ e <= now)
        BY <1>1, <1>10, <2>1
      <3> QED BY <2>6, <3>1, StoredIs
    <2>8. /\ put.kind = "Set" /\ put.val = val /\ put.exptime = e /\ put.deadline = e
      BY <2>1
    <2> HIDE DEF put
    <2>9. StoreMeta(work[c].put)'.err = "nil"
      BY <2>3, <2>8 DEF StoreMeta, Set, Result
    <2>10. Whole'
      BY <1>5, <1>6 DEF Whole
    <2>11. Deciding(c, work[c].put)'
      BY <1>5, <2>1, <2>3, <2>6, <2>7, <2>8, <2>9, <2>10 DEF Deciding
    <2>12. Serving(c)'
      BY <2>4, <2>11 DEF Serving
    <2> QED BY <1>2, <1>5, <2>4, <2>12, GoesOn
  <1> QED BY <1>5, <1>11, <1>12

(***************************************************************************)
(* Deletes and touches.                                                    *)
(***************************************************************************)

LEMMA DelMetaServes ==
  ASSUME ChunkedInv, Undisturbed, NEW c \in Conns, DelMeta(c) PROVE Undisturbed'
  <1> DEFINE w == work[c]
  <1>1. /\ VarsOK /\ Local(pc[c], w, req[c], reply[c], written)
    BY Facts DEF ChunkedInv
  <1>2. /\ pc[c] = "DelMeta" /\ meta' = Delete(meta).item
        /\ IF Delete(meta).err = "nil" /\ w.md.num > 0
           THEN Goto(c, "DelChunk") ELSE Return(c, Delete(meta).err, None)
        /\ chunk' = chunk /\ now' = now /\ written' = written /\ work' = work
        /\ alive' = alive /\ ref' = ref /\ expected' = expected
    BY DEF DelMeta, NumChunks, history
  <1>3. Removing(c)
    BY <1>2 DEF Undisturbed, Serving
  <1>4. /\ Pending(c) /\ meta # None /\ w.md = meta.val /\ req[c].op = "Delete"
        /\ ~w.miss /\ w.i = 1
    BY <1>3 DEF Removing, Took
  <1>5. Delete(meta).item = None /\ Delete(meta).err = "nil"
    BY <1>4 DEF Delete, Result
  <1>6. ref = None /\ expected[c] = Answer("nil", None)
    <2>1. Held # None /\ Foreseen(Held, req[c], now, ref, expected[c])
      BY <1>4, HeldIs DEF Pending
    <2> QED BY <1>4, <2>1, EffectOfHit
  <1>7. w.md.num \in Nat
    <2>1. Announced(w.md, written)
      BY <1>1, <1>2 DEF Local
    <2> QED BY <2>1 DEF Announced, MD
  <1>8. CASE w.md.num > 0
    <2>1. pc' = [pc EXCEPT ![c] = "DelChunk"] /\ pc'[c] = "DelChunk"
      BY <1>1, <1>2, <1>5, <1>8 DEF Goto, VarsOK
    <2>2. \A j \in w.i..w.md.num : chunk[j] # None
      BY <1>4 DEF Pending, Whole, IsWhole
    <2>3. Clearing(c)'
      BY <1>2, <1>4, <1>5, <1>6, <1>7, <1>8, <2>2 DEF Clearing
    <2>4. Serving(c)'
      BY <2>1, <2>3 DEF Serving
    <2> QED BY <1>2, <2>1, <2>4, GoesOn
  <1>9. CASE ~(w.md.num > 0)
    <2>1. /\ pc' = [pc EXCEPT ![c] = "done"] /\ pc'[c] = "done"
          /\ reply'[c] = [err |-> "nil", val |-> None]
      BY <1>1, <1>2, <1>5, <1>9 DEF Return, VarsOK
    <2>2. Same'
      BY <1>2, <1>5, <1>6 DEF Same, Whole, IsWhole, Held, ItemOf
    <2>3. expected'[c].err = "nil" /\ expected'[c].val = None /\ SameError("nil") = "nil"
      BY <1>2, <1>6 DEF Answer, SameError
    <2>4. Serving(c)'
      BY <2>1, <2>2, <2>3 DEF Serving
    <2> QED BY <1>2, <2>1, <2>4, GoesOn
  <1> QED BY <1>8, <1>9

\* A chunk command that finds its chunk.
LEMMA SimpleCmdIs ==
  ASSUME ChunkedInv, Undisturbed, NEW c \in Conns, SimpleCmd(c), chunk[work[c].i] # None,
         ~work[c].miss
  PROVE  LET i == work[c].i
             res == IF pc[c] = "DelChunk" THEN Delete(chunk[i])
                    ELSE Touch(chunk[i], req[c].exptime, now)
         IN
         /\ res.err = "nil" /\ chunk' = [chunk EXCEPT ![i] = res.item]
         /\ work'[c].i = i + 1 /\ ~work'[c].miss /\ work'[c].md = work[c].md
         /\ \/ i < work[c].md.num /\ pc' = [pc EXCEPT ![c] = pc[c]]
            \/ ~(i < work[c].md.num) /\ pc[c] = "DelChunk" /\ Return(c, "nil", None)
            \/ /\ ~(i < work[c].md.num) /\ pc[c] = "TouchChunk"
               /\ pc' = [pc EXCEPT ![c] = "TouchMeta"]
  <1> DEFINE i == work[c].i
             res == ChunkCmd(c)
             miss == work[c].miss \/ (alive[c] = "up" /\ res.err = "KeyNotFound")
             w == [work[c] EXCEPT !.miss = miss]
  <1>1. VarsOK /\ work[c] \in Works
    BY Facts DEF ChunkedInv
  <1>2. /\ pc[c] \in {"DelChunk", "TouchChunk"} /\ chunk' = [chunk EXCEPT ![i] = res.item]
        /\ NextChunk(c, w, work[c].md.num, AfterChunks(c, miss))
    BY DEF SimpleCmd, NumChunks
  <1>3. res = IF pc[c] = "DelChunk" THEN Delete(chunk[i]) ELSE Touch(chunk[i], req[c].exptime, now)
    BY DEF ChunkCmd
  <1>4. res.err = "nil"
    BY <1>3 DEF Delete, Touch, Result
  <1>5. miss = FALSE
    BY <1>4
  <1> HIDE DEF res, miss
  <1>6. w = [work[c] EXCEPT !.miss = FALSE]
    BY <1>5
  <1> HIDE DEF w
  <1>7. /\ w \in Works /\ w.i = i /\ w.miss = FALSE /\ w.md = work[c].md
    <2>1. w \in Works
      BY <1>1, <1>6, MissingWork
    <2> QED BY <1>1, <1>6, <2>1 DEF Works
  <1>8. work'[c] = [w EXCEPT !.i = @ + 1]
    BY <1>1, <1>2 DEF NextChunk, VarsOK
  <1>9. work'[c].i = i + 1 /\ ~work'[c].miss /\ work'[c].md = work[c].md
    BY <1>7, <1>8 DEF Works
  <1>10. \/ i < work[c].md.num /\ pc' = [pc EXCEPT ![c] = pc[c]]
         \/ ~(i < work[c].md.num) /\ pc[c] = "DelChunk" /\ Return(c, "nil", None)
         \/ /\ ~(i < work[c].md.num) /\ pc[c] = "TouchChunk"
            /\ pc' = [pc EXCEPT ![c] = "TouchMeta"]
    BY <1>2, <1>5, <1>7 DEF NextChunk, AfterChunks, Goto
  <1> QED BY <1>2, <1>3, <1>4, <1>9, <1>10

LEMMA DelChunkServes ==
  ASSUME ChunkedInv, Undisturbed, NEW c \in Conns, SimpleCmd(c), pc[c] = "DelChunk"
  PROVE  Undisturbed'
  <1> DEFINE w == work[c]
             i == w.i
  <1>1. /\ VarsOK /\ ServerOK /\ WritesOK(written) /\ w \in Works
        /\ Local(pc[c], w, req[c], reply[c], written)
    BY Facts DEF ChunkedInv
  <1>2. /\ meta' = meta /\ now' = now /\ written' = written
        /\ alive' = alive /\ ref' = ref /\ expected' = expected
    BY DEF SimpleCmd, history
  <1>3. Clearing(c)
    BY DEF Undisturbed, Serving
  <1>4. /\ meta = None /\ ref = None /\ expected[c] = Answer("nil", None)
        /\ ~w.miss /\ i <= w.md.num /\ \A j \in i..w.md.num : chunk[j] # None
    BY <1>3 DEF Clearing
  <1>5. Announced(w.md, written)
    BY <1>1 DEF Local
  <1>6. i \in Nat \ {0} /\ w.md.num \in Nat /\ chunk \in [Indices -> ChunkItem \cup {None}]
    BY <1>1, <1>5, WorkIs DEF Announced, MD, ServerOK
  <1>7. chunk[i] # None
    BY <1>4, <1>6
  <1>8. /\ chunk' = [chunk EXCEPT ![i] = Delete(chunk[i]).item]
        /\ work'[c].i = i + 1 /\ ~work'[c].miss /\ work'[c].md = w.md
        /\ \/ i < w.md.num /\ pc' = [pc EXCEPT ![c] = "DelChunk"]
           \/ Return(c, "nil", None)
    BY <1>4, <1>7, SimpleCmdIs
  <1> HIDE DEF w, i
  <1>9. CASE i < w.md.num /\ pc' = [pc EXCEPT ![c] = "DelChunk"]
    <2>1. \A j \in (i + 1)..w.md.num : j # i /\ j \in i..w.md.num /\ j \in Nat \ {0} /\ j <= w.md.num
      BY <1>6
    <2>2. \A j \in (i + 1)..w.md.num : j \in Indices
      BY <1>1, <1>5, <2>1, IndexIs
    <2>3. \A j \in (i + 1)..w.md.num : chunk'[j] # None
      BY <1>4, <1>6, <1>8, <2>1, <2>2
    <2>4. i + 1 <= w.md.num
      BY <1>6, <1>9
    <2>5. Clearing(c)'
      BY <1>2, <1>4, <1>8, <2>3, <2>4 DEF Clearing
    <2>6. pc'[c] = "DelChunk"
      BY <1>1, <1>9 DEF VarsOK
    <2>7. Serving(c)'
      BY <2>5, <2>6 DEF Serving
    <2> QED BY <1>2, <1>9, <2>7, GoesOn
  <1>10. CASE Return(c, "nil", None)
    <2>1. /\ pc' = [pc EXCEPT ![c] = "done"] /\ pc'[c] = "done"
          /\ reply'[c] = [err |-> "nil", val |-> None]
      BY <1>1, <1>10 DEF Return, VarsOK
    <2>2. Same'
      BY <1>2, <1>4 DEF Same, Whole, IsWhole, Held, ItemOf
    <2>3. expected'[c].err = "nil" /\ expected'[c].val = None /\ SameError("nil") = "nil"
      BY <1>2, <1>4 DEF Answer, SameError
    <2>4. Serving(c)'
      BY <2>1, <2>2, <2>3 DEF Serving
    <2> QED BY <1>2, <2>1, <2>4, GoesOn
  <1> QED BY <1>8, <1>9, <1>10

LEMMA TouchChunkServes ==
  ASSUME ChunkedInv, Undisturbed, NEW c \in Conns, SimpleCmd(c), pc[c] = "TouchChunk"
  PROVE  Undisturbed'
  <1> DEFINE w == work[c]
             i == w.i
             token == w.md.token
             val == written[token]
             exp == Deadline(req[c].exptime, now)
  <1>1. /\ VarsOK /\ ServerOK /\ WritesOK(written) /\ w \in Works
        /\ Local(pc[c], w, req[c], reply[c], written)
    BY Facts DEF ChunkedInv
  <1>2. /\ meta' = meta /\ now' = now /\ written' = written /\ req' = req
        /\ alive' = alive /\ ref' = ref /\ expected' = expected
    BY DEF SimpleCmd, history
  <1>3. Touching(c, i) /\ i <= w.md.num
    BY DEF Undisturbed, Serving
  <1>4. /\ meta # None /\ w.md = meta.val /\ ~w.miss /\ req[c].op = "Touch"
        /\ expected[c] = Answer("nil", None) /\ ref = Store(val, exp, now)
        /\ StoredUpTo(i, chunk, val, token, exp, now)
        /\ \A j \in i..w.md.num : chunk[j] # None /\ chunk[j].val.token = token
    BY <1>3 DEF Touching, Took
  <1>5. Announced(w.md, written)
    BY <1>1 DEF Local
  <1>6. i \in Nat \ {0} /\ w.md.num \in Nat /\ chunk \in [Indices -> ChunkItem \cup {None}]
    BY <1>1, <1>5, WorkIs DEF Announced, MD, ServerOK
  <1>7. chunk[i] # None /\ chunk[i].val.token = token /\ i \in Indices
    BY <1>1, <1>3, <1>4, <1>5, <1>6, IndexIs
  <1>8. chunk[i].val = [token |-> token, piece |-> val[i]]
    <2>1. ChunkOK(chunk[i], i, written)
      BY <1>1, <1>7 DEF ServerOK
    <2>2. /\ chunk[i].val \in [token : 1..MaxTokens, piece : Piece]
          /\ chunk[i].val.piece = val[i]
      BY <1>7, <2>1 DEF ChunkOK, ChunkItem
    <2> QED BY <1>7, <2>2
  <1>9. /\ chunk' = [chunk EXCEPT ![i] = Touch(chunk[i], req[c].exptime, now).item]
        /\ work'[c].i = i + 1 /\ ~work'[c].miss /\ work'[c].md = w.md
        /\ \/ i < w.md.num /\ pc' = [pc EXCEPT ![c] = "TouchChunk"]
           \/ ~(i < w.md.num) /\ pc' = [pc EXCEPT ![c] = "TouchMeta"]
    BY <1>4, <1>7, SimpleCmdIs
  <1>10. Touch(chunk[i], req[c].exptime, now).item = Store(chunk[i].val, exp, now)
    BY <1>7 DEF Touch, Result
  <1> HIDE DEF w, i, token, val, exp
  <1>11. StoredUpTo(i + 1, chunk', val, token, exp, now)
    <2>1. chunk' = [chunk EXCEPT ![i] = Store([token |-> token, piece |-> val[i]], exp, now)]
      BY <1>8, <1>9, <1>10
    <2> QED BY <1>4, <1>6, <1>7, <2>1, StoredNext
  <1>12. \A j \in (i + 1)..w.md.num : chunk'[j] # None /\ chunk'[j].val.token = token
    <2>1. \A j \in (i + 1)..w.md.num : j # i /\ j \in i..w.md.num /\ j \in Nat \ {0} /\ j <= w.md.num
      BY <1>6
    <2>2. \A j \in (i + 1)..w.md.num : j \in Indices
      BY <1>1, <1>5, <2>1, IndexIs
    <2> QED BY <1>4, <1>6, <1>9, <2>1, <2>2
  <1>13. Touching(c, work[c].i)'
    <2>1. /\ token = work'[c].md.token /\ val = written'[work'[c].md.token]
          /\ exp = Deadline(req'[c].exptime, now')
      BY <1>2, <1>9 DEF token, val, exp
    <2>2. Took(c)' /\ ~work'[c].miss /\ req'[c].op = "Touch"
      BY <1>2, <1>4, <1>9 DEF Took
    <2>3. expected'[c] = Answer("nil", None) /\ ref' = Store(val, exp, now')
      BY <1>2, <1>4
    <2>4. StoredUpTo(work'[c].i, chunk', val, token, exp, now')
      BY <1>2, <1>9, <1>11
    <2>5. \A j \in (work'[c].i)..work'[c].md.num : chunk'[j] # None /\ chunk'[j].val.token = token
      BY <1>9, <1>12
    <2> QED BY <2>1, <2>2, <2>3, <2>4, <2>5 DEF Touching
  <1>14. CASE i < w.md.num /\ pc' = [pc EXCEPT ![c] = "TouchChunk"]
    <2>1. pc'[c] = "TouchChunk" /\ work'[c].i <= work'[c].md.num
      BY <1>1, <1>6, <1>9, <1>14 DEF VarsOK
    <2>2. Serving(c)'
      BY <1>13, <2>1 DEF Serving
    <2> QED BY <1>2, <1>14, <2>2, GoesOn
  <1>15. CASE ~(i < w.md.num) /\ pc' = [pc EXCEPT ![c] = "TouchMeta"]
    <2>1. pc'[c] = "TouchMeta"
      BY <1>1, <1>15 DEF VarsOK
    <2>2. work'[c].md.num + 1 = work'[c].i
      BY <1>3, <1>6, <1>9, <1>15 DEF i, w
    <2>3. Touching(c, work[c].md.num + 1)'
      BY <1>13, <2>2
    <2>4. Serving(c)'
      BY <2>1, <2>3 DEF Serving
    <2> QED BY <1>2, <1>15, <2>4, GoesOn
  <1> QED BY <1>9, <1>14, <1>15

LEMMA TouchMetaServes ==
  ASSUME TightTouches, OwnRequests, ChunkedInv, Undisturbed, NEW c \in Conns, TouchMeta(c)
  PROVE  Undisturbed'
  <1> DEFINE w == work[c]
             exp == Deadline(req[c].exptime, now)
             md == [w.md EXCEPT !.exptime = exp]
  <1>1. /\ VarsOK /\ ServerOK /\ WritesOK(written) /\ now \in Nat
        /\ Local(pc[c], w, req[c], reply[c], written)
    BY Facts DEF ChunkedInv
  <1>2. /\ pc[c] = "TouchMeta" /\ meta' = TouchedMeta(c) /\ Return(c, "nil", None)
        /\ chunk' = chunk /\ now' = now /\ written' = written
        /\ alive' = alive /\ ref' = ref /\ expected' = expected
    BY DEF TouchMeta, history
  <1>3. Touching(c, w.md.num + 1)
    BY <1>2 DEF Undisturbed, Serving
  <1>4. /\ expected[c] = Answer("nil", None) /\ ref = Store(written[w.md.token], exp, now)
        /\ StoredUpTo(w.md.num + 1, chunk, written[w.md.token], w.md.token, exp, now)
    BY <1>3 DEF Touching
  <1>5. Announced(w.md, written) /\ req[c] \in AllRequests
    BY <1>1, <1>2 DEF Local
  <1>6. exp \in Nat
    <2>1. req[c].exptime \in Nat
      BY <1>5 DEF AllRequests
    <2> QED BY <1>1, <2>1, DeadlineType
  <1>7. meta' = Store(md, exp, now)
    <2>1. req[c].op = "Touch"
      BY <1>3 DEF Touching
    <2>2. c \notin SpareConns
      BY <1>2, <2>1 DEF TightTouches, OwnRequests
    <2> QED BY <1>2, <2>2 DEF TouchedMeta, Overwritten, Set, Result
  <1> HIDE DEF exp, w
  <1>8. md.exptime = exp /\ md.token = w.md.token /\ md.num = w.md.num /\ Announced(md, written)
    BY <1>5, <1>6 DEF Announced, MD
  <1> HIDE DEF md
  <1>9. StoredUpTo(md.num + 1, chunk, written[md.token], md.token, exp, now)
    BY <1>4, <1>8
  <1>10. IsWhole(meta', chunk, now) /\ ItemOf(meta', written) = Store(written[md.token], exp, now)
    BY <1>1, <1>6, <1>7, <1>8, <1>9, StoredIsWhole
  <1>11. Same'
    BY <1>2, <1>4, <1>8, <1>10 DEF Same, Whole, Held
  <1>12. /\ pc' = [pc EXCEPT ![c] = "done"] /\ pc'[c] = "done"
         /\ reply'[c] = [err |-> "nil", val |-> None]
    BY <1>1, <1>2 DEF Return, VarsOK
  <1>13. expected'[c].err = "nil" /\ expected'[c].val = None /\ SameError("nil") = "nil"
    BY <1>2, <1>4 DEF Answer, SameError
  <1>14. Serving(c)'
    BY <1>11, <1>12, <1>13 DEF Serving
  <1> QED BY <1>2, <1>12, <1>14, GoesOn

(***************************************************************************)
(* Requests and the clock.                                                 *)
(***************************************************************************)

\* The first request after all others have been answered.
LEMMA Begins ==
  ASSUME ChunkedInv, Undisturbed, NEW c \in Conns, \A d \in Conns : pc[d] = "idle", NEW p,
         NEW ans, pc' = [pc EXCEPT ![c] = p], now' = now, alive' = alive,
         expected' = [expected EXCEPT ![c] = ans], Serving(c)'
  PROVE  Undisturbed'
  <1>1. pc \in [Conns -> Labels]
    BY DEF ChunkedInv, VarsOK
  <1>2. \A d \in Conns : d # c => pc'[d] = "idle"
    BY <1>1
  <1>3. pc'[c] # "idle"
    BY DEF Serving
  <1>4. /\ now' > RealTimeMaxDelta
        /\ alive' = [d \in Conns |-> "up"] /\ expected' = [d \in Conns |-> expected'[d]]
    BY DEF Undisturbed
  <1>5. \A d \in Conns : pc'[d] # "idle" => Serving(d)'
    BY <1>2
  <1> QED BY <1>2, <1>3, <1>4, <1>5 DEF Undisturbed

\* What a plain memcached does with a put.
LEMMA EffectOfPut ==
  ASSUME NEW h, NEW r, r.op \in Puts, NEW t, NEW exp, exp = Deadline(r.exptime, t)
  PROVE  LET err == IF r.op = "Add" /\ h # None THEN "KeyExists"
                    ELSE IF r.op = "Replace" /\ h = None THEN "KeyNotFound"
                    ELSE "nil"
         IN
         /\ Effect(h, r, t).err = err /\ Found(h, r) = None
         /\ Effect(h, r, t).item = IF err = "nil" THEN Store(r.val, exp, t) ELSE h
  <1> USE DEF Effect, Result, Set, Found
  <1>1. CASE r.op = "Set"
    BY <1>1
  <1>2. CASE r.op = "Add"
    BY <1>2 DEF Add
  <1>3. CASE r.op = "Replace"
    BY <1>3 DEF Replace
  <1> QED BY <1>1, <1>2, <1>3 DEF Puts

LEMMA ReceiveServes ==
  ASSUME ChunkedInv, ChunkedInv', Undisturbed, NEW c \in Conns, Receive(c), clean'
  PROVE  Undisturbed'
  <1>1. PICK r \in Requests(c) :
          /\ pc[c] = "idle" /\ req' = [req EXCEPT ![c] = r]
          /\ IF r.op \in Puts
             THEN StartPut(c, r.op, r.val, r.exptime)
             ELSE Goto(c, "GetMeta") /\ UNCHANGED <<work, written>>
          /\ Compare(c, r)
          /\ UNCHANGED <<cache, now, alive, faults>>
    BY DEF Receive
  <1>2. /\ meta' = meta /\ chunk' = chunk /\ now' = now /\ alive' = alive
    BY <1>1 DEF cache
  <1>3. VarsOK /\ now \in Nat /\ WritesOK(written) /\ Len(written) \in Nat
    BY Facts DEF ChunkedInv, WritesOK
  <1>4. r \in AllRequests /\ r.exptime \in Nat /\ r.op \in Ops
    BY RequestIs DEF AllRequests
  <1> DEFINE eff == Effect(ref, r, now)
             ans == [err |-> eff.err, val |-> Found(ref, r)]
  <1>5. /\ Busy = {} /\ ~LeavesOldDeadline(r) /\ ~LeavesOldItem(r)
        /\ ref' = eff.item /\ expected' = [expected EXCEPT ![c] = ans]
    BY <1>1 DEF Compare, Disturbed
  <1> HIDE DEF eff, ans
  <1>6. \A d \in Conns : pc[d] = "idle"
    BY <1>5 DEF Busy
  <1>7. Whole /\ ref = Held
    BY <1>6 DEF Undisturbed, Same
  <1>8. req'[c] = r /\ expected'[c] = ans
    <2>1. expected = [d \in Conns |-> expected[d]]
      BY DEF Undisturbed
    <2> QED BY <1>1, <1>3, <1>5, <2>1 DEF VarsOK
  <1>9. meta = None <=> ref = None
    BY <1>7, HeldIs
  <1>10. Whole'
    BY <1>2, <1>7 DEF Whole
  <1>11. CASE r.op \notin Puts
    <2>1. /\ pc' = [pc EXCEPT ![c] = "GetMeta"] /\ pc'[c] = "GetMeta" /\ written' = written
      BY <1>1, <1>3, <1>11 DEF Goto, VarsOK
    <2>2. Held' = Held
      BY <1>2, <2>1 DEF Held
    <2>3. Foreseen(Held', r, now', ref', ans)
      BY <1>2, <1>5, <1>7, <2>2 DEF Foreseen, Answer, eff, ans
    <2>4. (r.op = "Gat" /\ meta # None) => Deadline(r.exptime, now) = meta.exp
      <3>1. meta # None => ref.exp = meta.exp
        BY <1>7, HeldIs
      <3> QED BY <1>5, <1>9, <3>1 DEF LeavesOldDeadline
    <2>5. Pending(c)'
      BY <1>2, <1>8, <1>10, <2>3, <2>4 DEF Pending
    <2>6. Serving(c)'
      BY <1>8, <1>11, <2>1, <2>5 DEF Serving
    <2> QED BY <1>2, <1>5, <1>6, <2>1, <2>6, Begins
  <1>12. CASE r.op \in Puts
    <2> DEFINE exp == Deadline(r.exptime, now)
               err == IF r.op = "Add" /\ ref # None THEN "KeyExists"
                      ELSE IF r.op = "Replace" /\ ref = None THEN "KeyNotFound"
                      ELSE "nil"
    <2>1. StartPut(c, r.op, r.val, r.exptime)
      BY <1>1, <1>12
    <2>2. /\ ans = Answer(err, None)
          /\ ref' = IF err = "nil" THEN Store(r.val, exp, now) ELSE ref
      BY <1>5, <1>12, EffectOfPut DEF ans, eff, Answer
    <2>3. CASE Expired(r.exptime)
      <3>1. Return(c, "nil", None) /\ written' = written
        BY <2>1, <2>3 DEF StartPut
      <3>2. ref = None /\ r.op # "Replace"
        BY <1>5, <1>12, <2>3 DEF LeavesOldItem
      <3>3. exp # 0 /\ exp <= now
        <4>1. r.exptime > RealTimeMaxDelta /\ r.exptime < now
          BY <2>3 DEF Expired
        <4> QED BY <1>3, <1>4, <4>1, BoundsAssumption DEF Deadline
      <3>4. ref' = None /\ ans = Answer("nil", None)
        <4>1. Store(r.val, exp, now) = None
          BY <3>3, StoredIs
        <4> QED BY <2>2, <3>2, <4>1
      <3>5. Same'
        BY <1>2, <1>9, <1>10, <3>2, <3>4 DEF Same, Held, ItemOf
      <3>6. /\ pc' = [pc EXCEPT ![c] = "done"] /\ pc'[c] = "done"
            /\ reply'[c] = [err |-> "nil", val |-> None]
        BY <1>3, <3>1 DEF Return, VarsOK
      <3>7. expected'[c].err = "nil" /\ expected'[c].val = None /\ SameError("nil") = "nil"
        BY <1>8, <3>4 DEF Answer, SameError
      <3>8. Serving(c)'
        BY <3>5, <3>6, <3>7 DEF Serving
      <3> QED BY <1>2, <1>5, <1>6, <3>6, <3>8, Begins
    <2>4. CASE ~Expired(r.exptime)
      <3> DEFINE put == [kind |-> r.op, val |-> r.val, exptime |-> r.exptime,
                         deadline |-> exp, token |-> Len(written) + 1]
      <3>1. /\ written' = Append(written, r.val)
            /\ work' = [work EXCEPT ![c].i = 1, ![c].put = put]
            /\ Goto(c, "SetMeta")
        BY <2>1, <2>4 DEF StartPut
      <3>2. pc' = [pc EXCEPT ![c] = "SetMeta"] /\ pc'[c] = "SetMeta"
        BY <1>3, <3>1 DEF Goto, VarsOK
      <3>3. work'[c].put = put
        <4> HIDE DEF put
        <4>1. work' = [work EXCEPT ![c] = [work[c] EXCEPT !.i = 1, !.put = put]]
          BY <1>3, <3>1 DEF VarsOK
        <4>2. work'[c] = [work[c] EXCEPT !.i = 1, !.put = put]
          BY <1>3, <4>1 DEF VarsOK
        <4>3. work[c] \in Works
          BY <1>3 DEF VarsOK
        <4> QED BY <4>2, <4>3 DEF Works
      <3>4. /\ put.kind = r.op /\ put.val = r.val /\ put.exptime = r.exptime
            /\ put.deadline = exp
        OBVIOUS
      <3> HIDE DEF put
      <3>5. StoreMeta(work[c].put)'.err = err
        <4>1. StoreMeta(put).err = err
          BY <1>9, <1>12, <3>4, StoreMetaCases
        <4>2. StoreMeta(work[c].put)' = StoreMeta(put)
          BY <1>2, <3>3, <1>12, <3>4 DEF StoreMeta, Metadata, Set, Add, Replace, Result, Puts
        <4> QED BY <4>1, <4>2
      <3>6. Held' = Held
        <4>1. CASE meta = None
          BY <1>2, <4>1 DEF Held, ItemOf
        <4>2. CASE meta # None
          <5>1. Announced(meta.val, written)
            BY <4>2, HeldIs
          <5>2. /\ meta.val.token \in 1..MaxTokens /\ meta.val.token <= Len(written)
                /\ written \in Seq(Seq(Piece))
            BY <1>3, <5>1 DEF Announced, MD, WritesOK
          <5>3. meta.val.token \in 1..Len(written)
            BY <5>2, TokenIs
          <5>4. r.val \in Seq(Piece)
            <6>1. r.val \in Seq(Data)
              BY <1>4 DEF AllRequests, Payload
            <6> QED BY <6>1 DEF Piece
          <5>5. written'[meta.val.token] = written[meta.val.token]
            BY <3>1, <5>2, <5>3, <5>4, AppendProperties
          <5> QED BY <1>2, <5>5 DEF Held, ItemOf
        <4> QED BY <4>1, <4>2
      <3> HIDE DEF exp, err
      <3>7. Deciding(c, work[c].put)'
        <4>1. work'[c].put.deadline = Deadline(work'[c].put.exptime, now')
          BY <1>2, <3>3, <3>4 DEF exp
        <4>2. expected'[c] = Answer(StoreMeta(work[c].put)'.err, None)
          BY <1>8, <2>2, <3>5
        <4>3. ref' = IF StoreMeta(work[c].put)'.err = "nil"
                     THEN Store(work'[c].put.val, work'[c].put.deadline, now') ELSE Held'
          BY <1>2, <1>7, <2>2, <3>3, <3>4, <3>5, <3>6
        <4> QED BY <1>10, <4>1, <4>2, <4>3 DEF Deciding
      <3>8. Serving(c)'
        BY <3>2, <3>7 DEF Serving
      <3> QED BY <1>2, <1>5, <1>6, <3>2, <3>8, Begins
    <2> QED BY <2>3, <2>4
  <1> QED BY <1>11, <1>12

LEMMA FinishServes ==
  ASSUME ChunkedInv, Undisturbed, NEW c \in Conns, Finish(c) PROVE Undisturbed'
  <1>1. /\ pc[c] = "done" /\ pc' = [pc EXCEPT ![c] = "idle"]
        /\ alive' = [alive EXCEPT ![c] = IF reply[c].err = "IOError" THEN "up" ELSE @]
        /\ expected' = [expected EXCEPT ![c] = None]
        /\ meta' = meta /\ chunk' = chunk /\ now' = now /\ written' = written /\ ref' = ref
    BY DEF Finish, cache
  <1>2. pc \in [Conns -> Labels]
    BY DEF ChunkedInv, VarsOK
  <1>3. Serving(c)
    BY <1>1 DEF Undisturbed
  <1>4. Same
    BY <1>1, <1>3 DEF Serving
  <1>5. Same'
    BY <1>1, <1>4 DEF Same, Whole, Held
  <1>6. \A d \in Conns : pc'[d] = "idle"
    BY <1>1, <1>2 DEF Undisturbed
  <1>7. alive' = [d \in Conns |-> "up"]
    <2>1. alive = [d \in Conns |-> "up"]
      BY DEF Undisturbed
    <2>2. alive' = [alive EXCEPT ![c] = "up"]
      BY <1>1, <2>1
    <2> QED BY <2>1, <2>2
  <1>8. expected' = [d \in Conns |-> expected'[d]] /\ now' > RealTimeMaxDelta
    BY <1>1 DEF Undisturbed
  <1> QED BY <1>5, <1>6, <1>7, <1>8 DEF Undisturbed

\* An item expires as a whole.
LEMMA TickServes ==
  ASSUME ChunkedInv, Undisturbed, Tick, clean' PROVE Undisturbed'
  <1>1. /\ now' = now + 1 /\ meta' = Live(meta, now + 1)
        /\ chunk' = [i \in Indices |-> Live(chunk[i], now + 1)]
        /\ Busy = {} /\ ref' = Live(ref, now + 1)
        /\ expected' = expected /\ written' = written /\ alive' = alive /\ pc' = pc
    BY DEF Tick, Disturbed
  <1>2. now \in Nat /\ ServerOK /\ WritesOK(written)
    BY DEF ChunkedInv, VarsOK, TokensOK
  <1>3. \A d \in Conns : pc[d] = "idle"
    BY <1>1 DEF Busy
  <1>4. Whole /\ ref = Held
    BY <1>3 DEF Undisturbed, Same
  <1>5. Same'
    <2>1. CASE meta = None
      <3>1. meta' = None /\ ref' = None
        BY <1>1, <1>4, <2>1 DEF Held, ItemOf, Live
      <3> QED BY <3>1 DEF Same, Whole, IsWhole, Held, ItemOf
    <2>2. CASE meta # None
      <3> DEFINE dead == meta.exp # 0 /\ meta.exp <= now + 1
      <3>1. /\ Announced(meta.val, written) /\ meta.exp \in Nat /\ Held # None
            /\ Held.exp = meta.exp
        BY <2>2, HeldIs
      <3>2. meta' = (IF dead THEN None ELSE meta) /\ ref' = (IF dead THEN None ELSE Held)
        BY <1>1, <1>4, <2>2, <3>1 DEF Live
      <3>3. CASE dead
        BY <3>2, <3>3 DEF Same, Whole, IsWhole, Held, ItemOf
      <3>4. CASE ~dead
        <4>1. meta' = meta /\ ref' = Held /\ Held' = Held
          BY <1>1, <3>2, <3>4 DEF Held
        <4>2. meta.exp = 0 \/ meta.exp > now'
          BY <1>1, <1>2, <3>1, <3>4
        <4>3. meta.val.exptime = meta.exp
          BY <1>4, <2>2 DEF Whole, IsWhole
        <4>4. ASSUME NEW i \in 1..meta.val.num
              PROVE  /\ chunk'[i] # None /\ chunk'[i].val.token = meta.val.token
                     /\ chunk'[i].exp = meta.exp
          <5>1. i \in Nat \ {0} /\ i <= meta.val.num
            BY <3>1, <4>4 DEF Announced, MD
          <5>2. i \in Indices
            BY <1>2, <3>1, <5>1, IndexIs
          <5>3. chunk[i] # None /\ chunk[i].val.token = meta.val.token /\ chunk[i].exp = meta.exp
            BY <1>4, <2>2, <4>4 DEF Whole, IsWhole
          <5>4. chunk'[i] = chunk[i]
            BY <1>1, <3>4, <5>2, <5>3 DEF Live
          <5> QED BY <5>3, <5>4
        <4>5. IsWhole(meta', chunk', now')
          BY <4>1, <4>2, <4>3, <4>4 DEF IsWhole
        <4> QED BY <4>1, <4>5 DEF Same, Whole
      <3> QED BY <3>3, <3>4
    <2> QED BY <2>1, <2>2
  <1>6. now' > RealTimeMaxDelta
    BY <1>1, <1>2, BoundsAssumption DEF Undisturbed
  <1> QED BY <1>1, <1>3, <1>5, <1>6 DEF Undisturbed

LEMMA CleanNext ==
  ASSUME Roomy, TightTouches, OwnRequests, ChunkedInv, ChunkedInv', CleanInv, [Next]_vars
  PROVE  CleanInv'
  <1>1. ASSUME NEW c \in Conns, Serve(c) PROVE CleanInv'
    <2>1. clean' = clean
      BY <1>1 DEF Serve, SetMeta, SetChunk, GetMeta, ReadChunk, ReadDone, DelMeta, SimpleCmd,
                  TouchMeta, Broken, Muffled, Finish, history
    <2>2. ASSUME clean PROVE Undisturbed'
      <3>1. Undisturbed
        BY <2>2 DEF CleanInv
      <3>2. ~Broken(c) /\ ~Muffled(c)
        BY <3>1 DEF Undisturbed, Broken, Muffled
      <3>3. CASE SimpleCmd(c)
        <4>1. pc[c] = "DelChunk" \/ pc[c] = "TouchChunk"
          BY <3>3 DEF SimpleCmd
        <4> QED BY <3>1, <3>3, <4>1, DelChunkServes, TouchChunkServes
      <3> QED BY <1>1, <3>1, <3>2, <3>3, SetMetaServes, SetChunkServes, GetMetaServes,
                 ReadChunkServes, ReadDoneServes, DelMetaServes, TouchMetaServes, FinishServes
              DEF Serve
    <2> QED BY <2>1, <2>2 DEF CleanInv
  <1>2. CASE clean' = FALSE
    BY <1>2 DEF CleanInv
  <1>3. ASSUME NEW c \in Conns, Receive(c) PROVE CleanInv'
    <2>1. clean' = clean \/ clean' = FALSE
      BY <1>3 DEF Receive, Compare, Disturbed
    <2>2. CASE clean' = clean /\ clean
      <3>1. Undisturbed
        BY <2>2 DEF CleanInv
      <3>2. Undisturbed'
        BY <1>3, <2>2, <3>1, ReceiveServes
      <3> QED BY <2>2, <3>2 DEF CleanInv
    <2> QED BY <1>2, <2>1, <2>2 DEF CleanInv
  <1>4. ASSUME NEW c \in Conns, Refused(c) \/ Dropped(c) PROVE CleanInv'
    BY <1>2, <1>4 DEF Refused, Dropped, Fault, Disturbed
  <1>5. CASE Evict
    BY <1>2, <1>5 DEF Evict, Fault, Disturbed
  <1>6. CASE Tick
    <2>1. clean' = clean \/ clean' = FALSE
      BY <1>6 DEF Tick, Disturbed
    <2>2. CASE clean' = clean /\ clean
      <3>1. Undisturbed
        BY <2>2 DEF CleanInv
      <3>2. Undisturbed'
        BY <1>6, <2>2, <3>1, TickServes
      <3> QED BY <2>2, <3>2 DEF CleanInv
    <2> QED BY <1>2, <2>1, <2>2 DEF CleanInv
  <1>7. CASE UNCHANGED vars
    <2>1. /\ clean' = clean /\ now' = now /\ alive' = alive /\ expected' = expected
          /\ pc' = pc /\ ref' = ref /\ meta' = meta /\ chunk' = chunk /\ written' = written
          /\ req' = req /\ work' = work /\ reply' = reply
      BY <1>7 DEF vars
    <2>2. Same' <=> Same
      BY <2>1 DEF Same, Whole, Held
    <2>3. ASSUME NEW c \in Conns PROVE Serving(c)' <=> Serving(c)
      <3>1. /\ Pending(c)' <=> Pending(c)
            /\ Deciding(c, work[c].put)' <=> Deciding(c, work[c].put)
            /\ Took(c)' <=> Took(c)
        BY <2>1 DEF Pending, Whole, Held, Deciding, Took, StoreMeta
      <3>2. /\ Filling(c, work[c].put, work[c].i)' <=> Filling(c, work[c].put, work[c].i)
            /\ Clearing(c)' <=> Clearing(c)
        BY <2>1 DEF Filling, Clearing
      <3>3. /\ Touching(c, work[c].i)' <=> Touching(c, work[c].i)
            /\ Touching(c, work[c].md.num + 1)' <=> Touching(c, work[c].md.num + 1)
        BY <2>1, <3>1 DEF Touching
      <3>4. (Collecting(c)' <=> Collecting(c)) /\ (Removing(c)' <=> Removing(c))
        BY <2>1, <3>1 DEF Collecting, Removing
      <3> QED BY <2>1, <2>2, <3>1, <3>2, <3>3, <3>4 DEF Serving
    <2> QED BY <2>1, <2>2, <2>3 DEF CleanInv, Undisturbed
  <1> QED BY <1>1, <1>3, <1>4, <1>5, <1>6, <1>7 DEF Next

\* If every value fits into one item of a plain memcached and no touch comes with
\* a key that has room to spare, the chunked handler cannot be told from one: as long as no requests overlap, nothing fails or is
\* evicted, no gat moves a deadline and no put with a deadline that has passed
\* meets a live item, every request is answered as a plain memcached answers it,
\* and afterwards the chunks put together are its item (handleSetCommon,
\* handleAppendPrependCommon, realHandleGet, GAT, Delete, Touch).
THEOREM ChunkingIsInvisible ==
  ASSUME Roomy, TightTouches PROVE Spec => []ActsLikeMemcached
  <1>1. ASSUME Init PROVE CleanInv
    <2>1. Same
      BY <1>1 DEF Init, Same, Whole, IsWhole, Held, ItemOf
    <2>2. now > RealTimeMaxDelta
      BY <1>1, ChunkedAssumption DEF Init
    <2>3. expected = [c \in Conns |-> expected[c]]
      BY <1>1 DEF Init, NoAnswers
    <2> QED BY <1>1, <2>1, <2>2, <2>3 DEF Init, CleanInv, Undisturbed
  <1>2. ASSUME Init PROVE OwnRequests
    BY <1>2 DEF Init, OwnRequests
  <1>3. ASSUME ChunkedInv, OwnRequests, [Next]_vars PROVE OwnRequests'
    BY <1>3, OwnRequestsNext
  <1>4. ASSUME OwnRequests, ChunkedInv, ChunkedInv', CleanInv, [Next]_vars PROVE CleanInv'
    BY <1>4, CleanNext
  <1>5. ASSUME ChunkedInv, CleanInv PROVE ActsLikeMemcached
    <2>1. SUFFICES ASSUME clean PROVE
            /\ \A c \in Conns : pc[c] = "done" =>
                 /\ reply[c].err = SameError(expected[c].err)
                 /\ reply[c].val = expected[c].val
            /\ (\A c \in Conns : pc[c] \in {"idle", "done"}) => Assembled = ref
      BY DEF ActsLikeMemcached
    <2>2. Undisturbed
      BY <1>5, <2>1 DEF CleanInv
    <2>3. \A c \in Conns : pc[c] = "done" => Serving(c)
      BY <2>2 DEF Undisturbed
    <2>4. \A c \in Conns : pc[c] = "done" => Same
      BY <2>3 DEF Serving
    <2>5. (\A c \in Conns : pc[c] \in {"idle", "done"}) => Same
      BY <2>2, <2>4 DEF Undisturbed
    <2>6. Same => Assembled = ref
      BY <1>5, WholeIsAssembled DEF Same
    <2> QED BY <2>3, <2>5, <2>6 DEF Serving
  <1> QED BY <1>1, <1>2, <1>3, <1>4, <1>5, ChunkedInvariant, PTL DEF Spec

=============================================================================
