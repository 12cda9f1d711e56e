------------------------------ MODULE Chunked ------------------------------
(***************************************************************************)
(* The handler of package handlers/memcached/chunked, which keeps a large  *)
(* value in memcached as fixed-size chunks under keys of their own, and a  *)
(* metadata item that says how many there are.  A write draws a fresh      *)
(* token and stores it with the metadata and with every chunk, and a read  *)
(* compares them, so that chunks of two writes are not taken for one       *)
(* value.                                                                  *)
(*                                                                         *)
(* Every connection is a goroutine with its own connection to memcached,   *)
(* and memcached serves one command at a time, so that a step here is one  *)
(* command.  All requests are for one key, the one they could disturb each *)
(* other on.  A value is a sequence of pieces, one per chunk, and a chunk  *)
(* of the reply buffer that was never read into is Zero.                   *)
(***************************************************************************)
EXTENDS StdHandler, FiniteSets

CONSTANTS Conns,
          OpsOf,         \* the operations each connection's client sends,
          PayloadsOf,    \* the values they carry
          ExptimesOf,    \* and the expiry times
          SpareConns,    \* the connections whose keys come in slices with
                         \* room to spare, as the text parser's do
          Zero,          \* a chunk's worth of zero bytes
          StartTime,     \* the clock at the start ...
          MaxNow,        \* ... and at the end of the behaviours explored
          MaxPieces,     \* bound on the chunks of a request's value
          MaxTokens,     \* bound on the writes
          MaxFaults      \* bound on failing commands and evicted items

Ops == {"Set", "Add", "Replace", "Append", "Prepend", "Delete", "Touch",
        "Get", "Gat"}

Puts == {"Set", "Add", "Replace"}

Extends == {"Append", "Prepend"}

ASSUME ChunkedAssumption ==
  /\ OpsOf \in [Conns -> SUBSET Ops]
  /\ PayloadsOf \in [Conns -> SUBSET Seq(Data)]
  /\ Zero \notin Data
  /\ ExptimesOf \in [Conns -> SUBSET Nat]
  /\ SpareConns \subseteq Conns
  /\ StartTime \in Nat /\ StartTime > RealTimeMaxDelta
  /\ MaxPieces \in Nat /\ MaxTokens \in Nat
  /\ \A c \in Conns : \A val \in PayloadsOf[c] : Len(val) <= MaxPieces

VARIABLES meta,       \* the metadata item
          chunk,      \* the chunk items, by index
          now,        \* memcached's clock and the proxy's
          written,    \* the tokens drawn, and the value written under each
          alive,      \* a connection's link to memcached: up, down, or mute,
                      \* when what is written never gets there
          pc,         \* where each connection's goroutine is
          req,        \* the request it is serving
          work,       \* its local variables
          reply,      \* what it answers
          faults,     \* commands that failed and items evicted so far
          ref,        \* history: the item one plain memcached would hold ...
          expected,   \* ... the answers it would have given ...
          clean       \* ... until something disturbs the comparison

cache == <<meta, chunk>>

history == <<ref, expected, clean>>

vars == <<meta, chunk, now, written, alive, pc, req, work, reply, faults,
          ref, expected, clean>>

\* No value is longer: every token adds at most one payload.
Indices == 1..(MaxPieces * MaxTokens)

(***************************************************************************)
(* Local variables: the metadata read, the write in progress, the next     *)
(* chunk's index, the pieces read so far, whether something was missing,   *)
(* and the last error of a read.                                           *)
(***************************************************************************)

NoWork == [md |-> None, put |-> None, i |-> 1, buf |-> <<>>, miss |-> FALSE,
           err |-> "nil"]

NumChunks(c) == work[c].md.num

Goto(c, label) ==
  /\ pc' = [pc EXCEPT ![c] = label]
  /\ UNCHANGED reply

Return(c, err, val) ==
  /\ pc' = [pc EXCEPT ![c] = "done"]
  /\ reply' = [reply EXCEPT ![c] = [err |-> err, val |-> val]]

\* A read answers a miss with a response, everything else with an error.
ReturnMiss(c) ==
  IF req[c].op \in {"Get", "Gat"} THEN Return(c, "nil", None)
                                  ELSE Return(c, "KeyNotFound", None)

\* One more chunk done, then the next one or what comes after the last.
NextChunk(c, w, last, after) ==
  /\ work' = [work EXCEPT ![c] = [w EXCEPT !.i = @ + 1]]
  /\ IF w.i < last THEN Goto(c, pc[c]) ELSE after

(***************************************************************************)
(* History: a plain memcached serving the same requests, for as long as    *)
(* they do not overlap, nothing fails, no gat moves a deadline and no put  *)
(* of a dead item meets a live one.                                        *)
(***************************************************************************)

Busy == {c \in Conns : pc[c] # "idle"}

NoAnswers == [c \in Conns |-> None]

Disturbed == clean' = FALSE /\ ref' = None /\ expected' = NoAnswers

\* Gat does not rewrite the deadline that the metadata records, to which a
\* later Append or Prepend goes back.
LeavesOldDeadline(r) ==
  r.op = "Gat" /\ ref # None /\ Deadline(r.exptime, now) # ref.exp

\* An expiry time in the past is acknowledged and nothing is sent.
Expired(exptime) == exptime > RealTimeMaxDelta /\ exptime < now

\* Nor is the item replaced then, or found to be there or missing.
LeavesOldItem(r) ==
  r.op \in Puts /\ Expired(r.exptime) /\ (ref # None \/ r.op = "Replace")

\* Client c's request r arrives, and is served on the spot.
Compare(c, r) ==
  IF clean /\ Busy = {} /\ ~LeavesOldDeadline(r) /\ ~LeavesOldItem(r)
  THEN /\ ref' = Effect(ref, r, now).item
       /\ expected' = [expected EXCEPT ![c] = [err |-> Effect(ref, r, now).err,
                                               val |-> Found(ref, r)]]
       /\ UNCHANGED clean
  ELSE Disturbed

(***************************************************************************)
(* Set, Add and Replace, and the second half of Append and Prepend.        *)
(***************************************************************************)

\* Draw a token and go on to write the metadata.
StartPut(c, kind, val, exptime) ==
  IF Expired(exptime)
  THEN /\ Return(c, "nil", None)
       /\ UNCHANGED <<work, written>>
  ELSE /\ written' = Append(written, val)
       /\ work' = [work EXCEPT ![c].i = 1,
                     ![c].put = [kind |-> kind, val |-> val, exptime |-> exptime,
                                 deadline |-> Deadline(exptime, now),
                                 token |-> Len(written) + 1]]
       /\ Goto(c, "SetMeta")

Metadata(put) == [num |-> Len(put.val), token |-> put.token,
                  exptime |-> put.deadline]

\* Mutant: the metadata is set whatever the request.
StoreMetaAlways(put) == Set(meta, Metadata(put), put.exptime, now)

StoreMeta(put) ==
  CASE put.kind = "Set"     -> Set(meta, Metadata(put), put.exptime, now)
    [] put.kind = "Add"     -> Add(meta, Metadata(put), put.exptime, now)
    [] put.kind = "Replace" -> Replace(meta, Metadata(put), put.exptime, now)

StoreChunk(put, i) ==
  Set(chunk[i], [token |-> put.token, piece |-> put.val[i]], put.exptime, now)

SetMeta(c) ==
  LET put == work[c].put
      res == StoreMeta(put)
  IN
  /\ pc[c] = "SetMeta" /\ alive[c] = "up"
  /\ meta' = res.item
  /\ IF res.err # "nil" THEN Return(c, res.err, None)
     ELSE IF put.val = <<>> THEN Return(c, "nil", None)
     ELSE Goto(c, "SetChunk")
  /\ UNCHANGED <<chunk, now, written, alive, req, work, faults,
                 history>>

SetChunk(c) ==
  LET put == work[c].put
      i == work[c].i
  IN
  /\ pc[c] = "SetChunk"
  /\ chunk' = [chunk EXCEPT ![i] = StoreChunk(put, i).item]
  /\ NextChunk(c, work[c], Len(put.val), Return(c, "nil", None))
  /\ UNCHANGED <<meta, now, written, alive, req, faults, history>>

(***************************************************************************)
(* The metadata, which every other operation reads first.  Gat touches it. *)
(***************************************************************************)

AfterMeta(op, num) ==
  CASE op = "Delete"             -> "DelMeta"
    [] op = "Touch" /\ num > 0   -> "TouchChunk"
    [] op = "Touch" /\ num = 0   -> "TouchMeta"
    [] OTHER                     -> "Read"

ReadMeta(c) ==
  IF req[c].op = "Gat" THEN GAT(meta, req[c].exptime, now).item ELSE meta

GetMeta(c) ==
  /\ pc[c] = "GetMeta" /\ alive[c] = "up"
  /\ meta' = ReadMeta(c)
  /\ IF meta = None
     THEN ReturnMiss(c) /\ UNCHANGED work
     ELSE /\ work' = [work EXCEPT ![c].md = meta.val]
          /\ Goto(c, AfterMeta(req[c].op, meta.val.num))
  /\ UNCHANGED <<chunk, now, written, alive, req, faults, history>>

(***************************************************************************)
(* Reading the chunks, for Get, Gat, Append and Prepend.                   *)
(***************************************************************************)

\* Mutant: tokens are not compared.
TokenDiffersNever(w, item) == FALSE

TokenDiffers(w, item) == item.val.token # w.md.token

\* The quiet get of a chunk.  A missing chunk has no response, and a response
\* goes into the buffer behind the one before it.
ReadChunk(c) ==
  LET w == work[c]
      item == chunk[w.i]
      read == IF item = None THEN w
              ELSE [w EXCEPT !.buf = Append(@, item.val.piece),
                             !.miss = @ \/ TokenDiffers(w, item)]
  IN
  /\ pc[c] = "Read" /\ w.i <= NumChunks(c)
  /\ chunk' = IF req[c].op = "Gat"
              THEN [chunk EXCEPT ![w.i] = GAT(item, req[c].exptime, now).item]
              ELSE chunk
  /\ work' = [work EXCEPT ![c] = [read EXCEPT !.i = @ + 1]]
  /\ UNCHANGED <<meta, now, written, alive, pc, req, reply, faults,
                 history>>

\* The buffer is as long as the metadata says, however many chunks came.
Buffer(w) ==
  [n \in 1..w.md.num |-> IF n <= Len(w.buf) THEN w.buf[n] ELSE Zero]

\* The response to the noop behind the last chunk.
ReadDone(c) ==
  LET w == work[c]
      r == req[c]
      val == IF r.op = "Append" THEN Buffer(w) \o r.val ELSE r.val \o Buffer(w)
  IN
  /\ pc[c] = "Read" /\ w.i > NumChunks(c)
  /\ IF r.op \in Extends /\ w.err = "nil" /\ ~w.miss
     THEN StartPut(c, "Set", val, w.md.exptime)
     ELSE /\ IF w.err # "nil" THEN Return(c, w.err, None)
             ELSE IF w.miss   THEN ReturnMiss(c)
             ELSE Return(c, "nil", Buffer(w))
          /\ UNCHANGED <<work, written>>
  /\ UNCHANGED <<cache, now, alive, req, faults, history>>

(***************************************************************************)
(* Delete and Touch.  Their chunk commands are sent together and answered  *)
(* one by one; of the errors only a miss is noticed.                       *)
(***************************************************************************)

DelMeta(c) ==
  LET res == Delete(meta) IN
  /\ pc[c] = "DelMeta"
  /\ meta' = res.item
  /\ IF res.err = "nil" /\ NumChunks(c) > 0
     THEN Goto(c, "DelChunk") ELSE Return(c, res.err, None)
  /\ UNCHANGED <<chunk, now, written, alive, req, work, faults,
                 history>>

\* What a chunk command of Delete or Touch does, and where the last one leads.
ChunkCmd(c) ==
  LET item == chunk[work[c].i] IN
  IF pc[c] = "DelChunk" THEN Delete(item) ELSE Touch(item, req[c].exptime, now)

AfterChunks(c, miss) ==
  IF miss THEN Return(c, "KeyNotFound", None)
  ELSE IF pc[c] = "DelChunk" THEN Return(c, "nil", None)
  ELSE Goto(c, "TouchMeta")

\* The server executes the command; the answer may be lost with the link.
SimpleCmd(c) ==
  LET w == work[c]
      res == ChunkCmd(c)
      miss == w.miss \/ (alive[c] = "up" /\ res.err = "KeyNotFound")
  IN
  /\ pc[c] \in {"DelChunk", "TouchChunk"}
  /\ chunk' = [chunk EXCEPT ![w.i] = res.item]
  /\ NextChunk(c, [w EXCEPT !.miss = miss], NumChunks(c), AfterChunks(c, miss))
  /\ UNCHANGED <<meta, now, written, alive, req, faults, history>>

\* metaKey and chunkKey append to the slice of the request's key.  If that has
\* room, the chunks' keys are built over the metadata's, and a set that goes
\* to it later goes to another item, which nobody reads.
Overwritten(c) == c \in SpareConns /\ NumChunks(c) > 0

\* The last step of Touch sets the metadata it read at the start, whatever has
\* become of it since.
TouchedMeta(c) ==
  LET md == [work[c].md EXCEPT !.exptime = Deadline(req[c].exptime, now)] IN
  IF Overwritten(c) THEN meta ELSE Set(meta, md, req[c].exptime, now).item

TouchMeta(c) ==
  /\ pc[c] = "TouchMeta" /\ alive[c] = "up"
  /\ meta' = TouchedMeta(c)
  /\ Return(c, "nil", None)
  /\ UNCHANGED <<chunk, now, written, alive, req, work, faults,
                 history>>

(***************************************************************************)
(* Failures.                                                               *)
(***************************************************************************)

Fault ==
  /\ faults < MaxFaults
  /\ faults' = faults + 1
  /\ Disturbed
  /\ UNCHANGED <<now, written, req>>

\* memcached answers a command with an error and does not execute it.  After
\* a refused chunk write the buffered response is thrown away before its body
\* is skipped, and if the body was in the buffer the goroutine waits for it
\* for as long as the link lasts.  A second writer is put behind the first
\* one, which nothing flushes: whatever the connection writes from then on
\* stays there.
Refused(c) ==
  /\ Fault
  /\ \/ /\ pc[c] \in {"SetMeta", "GetMeta", "DelMeta", "TouchMeta"}
        /\ alive[c] = "up"
        /\ Return(c, "Busy", None)
        /\ UNCHANGED <<work, alive>>
     \/ /\ pc[c] = "SetChunk"
        /\ Return(c, "Busy", None) \/ Goto(c, "stuck")
        /\ alive' = [alive EXCEPT ![c] = "mute"]
        /\ UNCHANGED work
     \/ /\ pc[c] = "Read" /\ work[c].i <= NumChunks(c)
        /\ work' = [work EXCEPT ![c].err = "Busy", ![c].i = @ + 1,
                                ![c].buf = Append(@, Zero)]
        /\ UNCHANGED <<pc, reply, alive>>
     \/ /\ pc[c] \in {"DelChunk", "TouchChunk"} /\ alive[c] = "up"
        /\ NextChunk(c, work[c], NumChunks(c), AfterChunks(c, work[c].miss))
        /\ UNCHANGED alive
  /\ UNCHANGED cache

\* The server has executed the command whose answer the link lost, or not.
MayHaveRun(c) ==
  \/ UNCHANGED cache
  \/ pc[c] = "SetMeta" /\ meta' = StoreMeta(work[c].put).item /\ UNCHANGED chunk
  \/ pc[c] = "GetMeta" /\ meta' = ReadMeta(c) /\ UNCHANGED chunk
  \/ pc[c] = "DelMeta" /\ meta' = None /\ UNCHANGED chunk
  \/ pc[c] = "TouchMeta" /\ meta' = TouchedMeta(c) /\ UNCHANGED chunk
  \/ /\ pc[c] = "SetChunk"
     /\ LET i == work[c].i IN
        chunk' = [chunk EXCEPT ![i] = StoreChunk(work[c].put, i).item]
     /\ UNCHANGED meta

\* The link to memcached breaks, which also ends a wait.  Where the chunks'
\* commands are sent together, writing them fails, or else reading the answers:
\* then Delete and Touch go on, and the loop of a read takes the error for the
\* answer of one more chunk, again and again, because only a noop ends it.
Dropped(c) ==
  /\ Fault
  /\ alive[c] = "up" \/ (alive[c] = "mute" /\ pc[c] = "stuck")
  /\ alive' = [alive EXCEPT ![c] = "down"]
  /\ \/ /\ pc[c] \in {"SetMeta", "SetChunk", "GetMeta", "DelMeta", "TouchMeta",
                      "stuck"}
        /\ MayHaveRun(c)
        /\ Return(c, "IOError", None)
     \/ /\ pc[c] \in {"Read", "DelChunk", "TouchChunk"}
        /\ \/ Return(c, "IOError", None)
           \/ Goto(c, IF pc[c] = "Read" THEN "stuck" ELSE pc[c])
        /\ UNCHANGED cache
  /\ UNCHANGED work

\* On a broken link every command fails.  Chunk commands that were already
\* sent may also never have arrived.
Broken(c) ==
  /\ alive[c] = "down"
  /\ \/ /\ pc[c] \in {"SetMeta", "GetMeta", "TouchMeta"}
        /\ Return(c, "IOError", None)
        /\ UNCHANGED work
     \/ /\ pc[c] \in {"DelChunk", "TouchChunk"}
        /\ NextChunk(c, work[c], NumChunks(c), AfterChunks(c, work[c].miss))
  /\ UNCHANGED <<cache, now, written, alive, req, faults, history>>

\* The first command after a refused chunk write is never sent, and the wait
\* for its answer lasts as long as the link.
Muffled(c) ==
  /\ alive[c] = "mute"
  /\ pc[c] \in {"SetMeta", "GetMeta"}
  /\ Goto(c, "stuck")
  /\ UNCHANGED <<cache, now, written, alive, req, work, faults, history>>

(***************************************************************************)
(* Requests.                                                               *)
(***************************************************************************)

\* A request's value and expiry time are empty where it has none.
Requests(c) ==
  {r \in [op : OpsOf[c], val : PayloadsOf[c] \cup {<<>>},
          exptime : ExptimesOf[c] \cup {0}] :
     /\ IF r.op \in Puts \cup Extends THEN r.val \in PayloadsOf[c]
                                      ELSE r.val = <<>>
     /\ IF r.op \in Puts \cup {"Touch", "Gat"} THEN r.exptime \in ExptimesOf[c]
                                               ELSE r.exptime = 0}

\* Tokens that requests in progress have yet to draw.
Reserved ==
  Cardinality({c \in Busy : req[c].op \in Extends /\ pc[c] \in {"GetMeta", "Read"}})

Receive(c) ==
  \E r \in Requests(c) :
    /\ pc[c] = "idle"
    /\ r.op \in Puts \cup Extends => Len(written) + Reserved < MaxTokens
    /\ req' = [req EXCEPT ![c] = r]
    /\ IF r.op \in Puts
       THEN StartPut(c, r.op, r.val, r.exptime)
       ELSE Goto(c, "GetMeta") /\ UNCHANGED <<work, written>>
    /\ Compare(c, r)
    /\ UNCHANGED <<cache, now, alive, faults>>

\* Mutant: the reply buffer is not a new one.
FinishKeepsBuffer(c) ==
  /\ pc[c] = "done"
  /\ pc' = [pc EXCEPT ![c] = "idle"]
  /\ alive' = [alive EXCEPT ![c] = IF reply[c].err = "IOError" THEN "up" ELSE @]
  /\ req' = [req EXCEPT ![c] = None]
  /\ reply' = [reply EXCEPT ![c] = None]
  /\ work' = [work EXCEPT ![c] = [NoWork EXCEPT !.buf = work[c].buf]]
  /\ expected' = [expected EXCEPT ![c] = None]
  /\ UNCHANGED <<cache, now, written, faults, ref, clean>>

\* The answer is sent.  An I/O error closes the connection, and the next one
\* has a new link.
Finish(c) ==
  /\ pc[c] = "done"
  /\ pc' = [pc EXCEPT ![c] = "idle"]
  /\ alive' = [alive EXCEPT ![c] = IF reply[c].err = "IOError" THEN "up" ELSE @]
  /\ req' = [req EXCEPT ![c] = None]
  /\ reply' = [reply EXCEPT ![c] = None]
  /\ work' = [work EXCEPT ![c] = NoWork]
  /\ expected' = [expected EXCEPT ![c] = None]
  /\ UNCHANGED <<cache, now, written, faults, ref, clean>>

(***************************************************************************)
(* memcached on its own.                                                   *)
(***************************************************************************)

Evict ==
  /\ Fault
  /\ \/ meta # None /\ meta' = None /\ UNCHANGED chunk
     \/ /\ \E i \in Indices : chunk[i] # None /\ chunk' = [chunk EXCEPT ![i] = None]
        /\ UNCHANGED meta
  /\ UNCHANGED <<alive, pc, work, reply>>

Tick ==
  /\ now < MaxNow
  /\ now' = now + 1
  /\ meta' = Live(meta, now + 1)
  /\ chunk' = [i \in Indices |-> Live(chunk[i], now + 1)]
  /\ IF Busy = {} THEN ref' = Live(ref, now + 1) /\ UNCHANGED <<expected, clean>>
                  ELSE Disturbed
  /\ UNCHANGED <<written, alive, pc, req, work, reply, faults>>

(***************************************************************************)
(* The specification.                                                      *)
(***************************************************************************)

Init ==
  /\ meta = None
  /\ chunk = [i \in Indices |-> None]
  /\ now = StartTime
  /\ written = <<>>
  /\ alive = [c \in Conns |-> "up"]
  /\ pc = [c \in Conns |-> "idle"]
  /\ req = [c \in Conns |-> None]
  /\ work = [c \in Conns |-> NoWork]
  /\ reply = [c \in Conns |-> None]
  /\ faults = 0
  /\ ref = None
  /\ expected = NoAnswers
  /\ clean = TRUE

Serve(c) ==
  \/ SetMeta(c)   \/ SetChunk(c)  \/ GetMeta(c)   \/ ReadChunk(c) \/ ReadDone(c)
  \/ DelMeta(c)   \/ SimpleCmd(c) \/ TouchMeta(c) \/ Broken(c)    \/ Muffled(c)
  \/ Finish(c)

Next ==
  \/ \E c \in Conns : Receive(c) \/ Serve(c) \/ Refused(c) \/ Dropped(c)
  \/ Evict
  \/ Tick

Spec == Init /\ [][Next]_vars

(***************************************************************************)
(* Properties.                                                             *)
(***************************************************************************)

Piece == Data \cup {Zero}

MetaItem == [val : [num : Nat, token : 1..MaxTokens, exptime : Nat], exp : Nat]

ChunkItem == [val : [token : 1..MaxTokens, piece : Piece], exp : Nat]

\* None is no item, neither of the handler nor of the memcached beside it.
ASSUME NoItemAssumption ==
  None \notin MetaItem \cup ChunkItem \cup [val : Seq(Piece), exp : Nat]

\* Type invariant.  A chunk is only ever written under a token that was drawn,
\* at an index its write has (handleSetCommon), and nothing is read beyond the
\* chunks the metadata in hand announces (getLocalIntoBuf slices the reply
\* buffer by the number of responses, so one response too many would be out of
\* its range).
TypeOK ==
  /\ meta \in MetaItem \cup {None}
  /\ chunk \in [Indices -> ChunkItem \cup {None}]
  /\ written \in Seq(Seq(Piece)) /\ Len(written) <= MaxTokens
  /\ \A i \in Indices : chunk[i] # None =>
       /\ chunk[i].val.token <= Len(written)
       /\ i <= Len(written[chunk[i].val.token])
  /\ \A c \in Conns : work[c].md # None => Len(work[c].buf) <= NumChunks(c)
  /\ reply \in [Conns -> [err : {"nil", "Busy", "IOError"} \cup CommandErrors,
                          val : Seq(Piece) \cup {None}] \cup {None}]

Hit(c) ==
  /\ pc[c] = "done"
  /\ req[c].op \in {"Get", "Gat"}
  /\ reply[c].val # None

\* A hit for which every chunk answered is the value of one write, however
\* many writers, deleters and touchers ran in between: the tokens catch every
\* mixture (realHandleGet and GAT compare them chunk by chunk).
TokensGuardReads ==
  \A c \in Conns :
    Hit(c) /\ Len(work[c].buf) = NumChunks(c)
      => reply[c].val = written[work[c].md.token]

\* The chunks that belong to the metadata, put together.
Assembled ==
  IF meta = None THEN None
  ELSE [val |-> [i \in 1..meta.val.num |->
                   IF chunk[i] # None /\ chunk[i].val.token = meta.val.token
                   THEN chunk[i].val.piece ELSE Zero],
        exp |-> meta.exp]

\* memcached refuses to extend a missing item with another error.
SameError(e) == IF e = "ItemNotStored" THEN "KeyNotFound" ELSE e

\* As long as requests do not overlap, no command fails, nothing is evicted, no
\* gat moves a deadline and no put comes with one that has passed to an item
\* that has not, chunking cannot be told from a plain memcached: every request
\* of every kind has its answer, and the chunks put together are its item
\* (handleSetCommon, handleAppendPrependCommon, realHandleGet, GAT, Delete,
\* Touch).  A touch is taken to come with a key that has no room to spare.
ActsLikeMemcached ==
  clean =>
    /\ \A c \in Conns : pc[c] = "done" =>
         /\ reply[c].err = SameError(expected[c].err)
         /\ reply[c].val = expected[c].val
    /\ (\A c \in Conns : pc[c] \in {"idle", "done"}) => Assembled = ref

\* "If the number of chunks doesn't match, we throw away the data and call it
\* a miss" (realHandleGet): no hit has a gap where a chunk was missing.
HitIsWhole == \A c \in Conns : Hit(c) => Len(work[c].buf) = NumChunks(c)

\* "Overwrite the metadata with the new expiration time" (Touch): a touch that
\* nothing disturbed and that answers success has given the item its deadline.
TouchOverwritesMetadata ==
  \A c \in Conns :
    clean /\ pc[c] = "done" /\ req[c].op = "Touch" /\ reply[c].err = "nil"
      => meta = None \/ meta.val.exptime = Deadline(req[c].exptime, now)

=============================================================================
