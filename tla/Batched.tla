------------------------------ MODULE Batched ------------------------------
(***************************************************************************)
(* The handler of package handlers/memcached/batched: the calls of many    *)
(* clients share a pool of connections to memcached.  submit puts a call   *)
(* into the request channel of one pooled connection.  The connection's    *)
(* batcher goroutine collects calls, numbers their commands with opaque    *)
(* values and writes them as one batch; its reader goroutine hands every   *)
(* response to the call that the opaque value stands for.                  *)
(*                                                                         *)
(* A response channel belongs to one call and is unbuffered: sending on it *)
(* waits for the caller to receive.  A get receives until its channel is   *)
(* closed, every other call receives once.                                 *)
(*                                                                         *)
(* What the commands do to the cache is StdHandler's; here a response is   *)
(* told apart only by the command it answers.  The handler gives a caller  *)
(* no error for a refused command, so that refusal makes no difference.    *)
(***************************************************************************)
EXTENDS Naturals, FiniteSets, Sequences

CONSTANTS Clients,
          Script,       \* the calls each client makes, in turn
          KeysPerGet,   \* the keys of a get, a command each
          Settings,         \* what the batch size may be set to
          DefaultBatchSize, \* defaultOpts.BatchSize
          Bases,        \* the random values opaques are counted from
          SocketRoom,   \* messages a socket holds in each direction
          MaxPool,      \* bound on the pool
          MaxFaults     \* bound on broken links and failed dials

ASSUME BatchedAssumption ==
  /\ KeysPerGet \in Nat \ {0}
  /\ Settings \subseteq Nat /\ DefaultBatchSize \in Nat
  /\ SocketRoom \in Nat \ {0} /\ Bases \subseteq Nat
  /\ MaxPool \in Nat \ {0} /\ MaxFaults \in Nat
  /\ Script \in [Clients -> Seq({"One", "Get"})]

VARIABLES relay,     \* whether the socket's relay is made, and its batch size
          pool,      \* how many connections it has
          client,    \* each client's call in progress
          reqchan,   \* by connection: calls submitted
          batcher,   \* its batcher goroutine
          batchchan, \* batches on their way to the reader
          reader,    \* its reader goroutine
          link,      \* its socket
          faults,
          crashed    \* a goroutine without a recover has panicked

vars == <<relay, pool, client, reqchan, batcher, batchchan, reader, link,
          faults, crashed>>

Pool == 1..MaxPool

\* A setting of 0 stays 0, and any other gives way to the default.
uint32ValueOrDefault(val, def) == IF val <= 0 THEN val ELSE def

\* The requests a batch is held back for, and the capacity of a request channel,
\* which is unbuffered when it is 0.
BatchSize == relay.batchSize

Fault == faults < MaxFaults /\ faults' = faults + 1

\* A panic that nothing recovers ends the process.
Panic ==
  /\ crashed' = TRUE
  /\ client' = [c \in Clients |-> [client[c] EXCEPT !.pc = "closed"]]
  /\ batcher' = [k \in Pool |-> [batcher[k] EXCEPT !.pc = "dead"]]
  /\ reader' = [k \in Pool |-> [reader[k] EXCEPT !.pc = "dead"]]

(***************************************************************************)
(* Calls and commands.                                                     *)
(***************************************************************************)

\* "Get" is Get and GetE, "One" every call with one response: Set, Add, Replace,
\* Append, Prepend, Delete, Touch and GAT.
Keys(r) == IF r.op = "Get" THEN KeysPerGet ELSE 1

\* A command, and the handle under which its response is waited for.
Handle(r, n) == [client |-> r.client, call |-> r.call, key |-> n]

\* Mutant: a get counts as one command.
OpaqueAfterShort(opaque, r) == opaque + 1

\* The opaque value is stepped before every call and after every key of a get.
OpaqueAfter(opaque, r) == opaque + 1 + IF r.op = "Get" THEN Keys(r) ELSE 0

\* What a call adds to the batch before it: its commands, each with its opaque
\* value.
AddCall(acc, r) ==
  [opaque |-> OpaqueAfter(acc.opaque, r),
   cmds |-> acc.cmds \o [n \in 1..Keys(r) |->
              [opaque |-> acc.opaque + n, handle |-> Handle(r, n)]]]

\* The commands of a batch.
BatchIntoBuffer(reqs, base) ==
  LET batch[n \in 0..Len(reqs)] ==
        IF n = 0 THEN [opaque |-> base, cmds |-> <<>>]
                 ELSE AddCall(batch[n - 1], reqs[n])
  IN batch[Len(reqs)].cmds

\* The map from opaque values to handles; a later entry replaces an earlier.
Responses(cmds) ==
  [o \in {cmds[n].opaque : n \in DOMAIN cmds} |->
     cmds[CHOOSE n \in DOMAIN cmds :
            /\ cmds[n].opaque = o
            /\ \A m \in DOMAIN cmds : cmds[m].opaque = o => m <= n].handle]

Without(f, x) == [y \in DOMAIN f \ {x} |-> f[y]]

HandlesOf(f) == {f[o] : o \in DOMAIN f}

(***************************************************************************)
(* Clients.                                                                *)
(***************************************************************************)

Idle(n) == [pc |-> "idle", call |-> n, op |-> "none", conn |-> 0,
            got |-> <<>>, err |-> FALSE]

Waits(h) == client[h.client].pc = "wait" /\ client[h.client].call = h.call

\* A response that answers command of is received on the channel of handle h.
Receives(h, of) ==
  LET c == client[h.client] IN
  /\ Waits(h)
  /\ client' = [client EXCEPT ![h.client] =
       [c EXCEPT !.got = Append(@, [handle |-> h, of |-> of]),
                 !.pc = IF c.op = "Get" THEN "wait" ELSE "done"]]

ReceivesError(h) ==
  LET c == client[h.client] IN
  /\ Waits(h)
  /\ client' = [client EXCEPT ![h.client] =
       [c EXCEPT !.err = TRUE, !.pc = IF c.op = "Get" THEN "wait" ELSE "done"]]

\* The first handler for a socket makes its relay, with one connection if it
\* can be dialled.
NewHandler(c) ==
  /\ client[c].pc = "new"
  /\ client' = [client EXCEPT ![c] = Idle(0)]
  /\ relay' = [relay EXCEPT !.made = TRUE]
  /\ IF relay.made THEN UNCHANGED <<pool, faults>>
     ELSE \/ pool' = 1 /\ UNCHANGED faults
          \/ pool' = 0 /\ Fault
  /\ UNCHANGED <<reqchan, batcher, batchchan, reader, link, crashed>>

\* A call picks a connection at random.  There is none to pick in an empty
\* pool, and the panic is recovered only where it is on the client's own
\* goroutine, which a get's is not.
Call(c) ==
  LET n == client[c].call + 1
      op == Script[c][n]
  IN
  /\ client[c].pc = "idle" /\ n <= Len(Script[c])
  /\ \/ /\ \E k \in 1..pool :
             client' = [client EXCEPT ![c] =
               [Idle(n) EXCEPT !.pc = "submit", !.op = op, !.conn = k]]
        /\ UNCHANGED <<batcher, reader, crashed>>
     \/ /\ pool = 0 /\ op = "One"
        /\ client' = [client EXCEPT ![c].pc = "closed"]
        /\ UNCHANGED <<batcher, reader, crashed>>
     \/ pool = 0 /\ op = "Get" /\ Panic
  /\ UNCHANGED <<relay, pool, reqchan, batchchan, link, faults>>

Request(c) == [client |-> c, call |-> client[c].call, op |-> client[c].op]

\* Mutant: the request channel has no limit.
SubmitUnlimited(c) ==
  LET k == client[c].conn IN
  /\ client[c].pc = "submit"
  /\ reqchan' = [reqchan EXCEPT ![k] = Append(@, Request(c))]
  /\ client' = [client EXCEPT ![c].pc = "wait"]
  /\ UNCHANGED <<relay, pool, batcher, batchchan, reader, link, faults, crashed>>

\* The send on a request channel with room for it.
Submit(c) ==
  LET k == client[c].conn IN
  /\ client[c].pc = "submit"
  /\ Len(reqchan[k]) < BatchSize
  /\ reqchan' = [reqchan EXCEPT ![k] = Append(@, Request(c))]
  /\ client' = [client EXCEPT ![c].pc = "wait"]
  /\ UNCHANGED <<relay, pool, batcher, batchchan, reader, link, faults, crashed>>

\* The caller has its answer.
Return(c) ==
  /\ client[c].pc = "done"
  /\ client' = [client EXCEPT ![c] = Idle(client[c].call)]
  /\ UNCHANGED <<relay, pool, reqchan, batcher, batchchan, reader, link, faults,
                 crashed>>

(***************************************************************************)
(* The monitor adds a connection when the batches are fuller than its      *)
(* ratios allow; here, whenever it likes.  The ratios of an empty pool are *)
(* not numbers and compare as not exceeded.                                *)
(***************************************************************************)

AddConn ==
  /\ ~crashed /\ relay.made /\ pool > 0 /\ pool < MaxPool
  /\ pool' = pool + 1
  /\ UNCHANGED <<relay, client, reqchan, batcher, batchchan, reader, link,
                 faults, crashed>>

(***************************************************************************)
(* The batcher.                                                            *)
(***************************************************************************)

IdleBatcher == [pc |-> "select", timedout |-> FALSE, reqs |-> <<>>,
                out |-> <<>>, todo |-> {}, sending |-> {}]

SetBatcher(k, b) == batcher' = [batcher EXCEPT ![k] = b]

\* The batcher has received a request.  Whether the batch is full is not asked
\* of the one that ends the wait after a timeout.
Collect(b, r) ==
  LET reqs == Append(b.reqs, r) IN
  [b EXCEPT !.reqs = reqs, !.timedout = FALSE,
    !.pc = IF b.pc = "select" /\ Len(reqs) >= BatchSize THEN "do" ELSE "select"]

TakeRequest(k) ==
  LET b == batcher[k] IN
  /\ b.pc \in {"select", "block"} /\ reqchan[k] # <<>>
  /\ reqchan' = [reqchan EXCEPT ![k] = Tail(@)]
  /\ SetBatcher(k, Collect(b, Head(reqchan[k])))
  /\ UNCHANGED <<relay, pool, client, batchchan, reader, link, faults, crashed>>

\* On an unbuffered request channel the send is over when the batcher receives.
Handover(c) ==
  LET k == client[c].conn
      b == batcher[k]
  IN
  /\ client[c].pc = "submit" /\ BatchSize = 0
  /\ b.pc \in {"select", "block"}
  /\ client' = [client EXCEPT ![c].pc = "wait"]
  /\ SetBatcher(k, Collect(b, Request(c)))
  /\ UNCHANGED <<relay, pool, reqchan, batchchan, reader, link, faults, crashed>>

\* Mutant: what has been collected waits for the next request.
TimeoutWaits(k) ==
  LET b == batcher[k] IN
  /\ b.pc = "select" /\ k <= pool
  /\ SetBatcher(k, [b EXCEPT !.timedout = TRUE, !.pc = "block"])
  /\ UNCHANGED <<relay, pool, client, reqchan, batchchan, reader, link, faults,
                 crashed>>

\* The batch delay is over: send what there is, then wait for a request.  With
\* a batch size of 0 an empty batch is full, and is sent too.
Timeout(k) ==
  LET b == batcher[k] IN
  /\ b.pc = "select" /\ k <= pool
  /\ SetBatcher(k, [b EXCEPT !.timedout = TRUE,
       !.pc = IF Len(b.reqs) > 0 \/ Len(b.reqs) >= BatchSize THEN "do" ELSE "block"])
  /\ UNCHANGED <<relay, pool, client, reqchan, batchchan, reader, link, faults,
                 crashed>>

AfterBatch(b) ==
  [IdleBatcher EXCEPT !.timedout = b.timedout,
                      !.pc = IF b.timedout THEN "block" ELSE "select"]

\* The reader is told of the batch, as soon as it has taken the one before,
\* ahead of the write.  Of an empty batch there is nothing to write.
Do(k) ==
  LET b == batcher[k] IN
  /\ b.pc = "do" /\ batchchan[k] = <<>>
  /\ \E base \in Bases :
       LET cmds == BatchIntoBuffer(b.reqs, base) IN
       /\ batchchan' = [batchchan EXCEPT ![k] =
            <<[responses |-> Responses(cmds),
               channels |-> {Handle(b.reqs[n], 0) : n \in DOMAIN b.reqs}]>>]
       /\ SetBatcher(k, IF cmds = <<>> THEN AfterBatch(b)
                                       ELSE [b EXCEPT !.pc = "write", !.out = cmds])
  /\ UNCHANGED <<relay, pool, client, reqchan, reader, link, faults, crashed>>

\* The handles of the batch being written: it is in the channel or with the
\* reader, which shares the map.
Unanswered(k) ==
  IF batchchan[k] # <<>> THEN HandlesOf(Head(batchchan[k]).responses)
                         ELSE HandlesOf(reader[k].responses)

\* The socket takes one more command.
Write(k) ==
  LET b == batcher[k] IN
  /\ b.pc = "write" /\ b.out # <<>>
  /\ link[k].up /\ Len(link[k].toServer) < SocketRoom
  /\ link' = [link EXCEPT ![k].toServer = Append(@, Head(b.out))]
  /\ SetBatcher(k, IF Len(b.out) = 1 THEN AfterBatch(b)
                                     ELSE [b EXCEPT !.out = Tail(@)])
  /\ UNCHANGED <<relay, pool, client, reqchan, batchchan, reader, faults, crashed>>

\* oops goes to the next of the handles left, in any order, or is done.
Visit(g, left, done) ==
  IF left = {} THEN {done}
  ELSE {[g EXCEPT !.pc = "oops", !.todo = left \ {h}, !.sending = {h}] : h \in left}

\* The flush fails, and oops sends the error to every handle of the batch.
WriteFails(k) ==
  LET b == batcher[k] IN
  /\ b.pc = "write" /\ ~link[k].up
  /\ \E next \in Visit(b, Unanswered(k), AfterBatch(b)) : SetBatcher(k, next)
  /\ UNCHANGED <<relay, pool, client, reqchan, batchchan, reader, link, faults,
                 crashed>>

\* What the reader deletes from the map meanwhile is not visited any more.
BatcherOops(k) ==
  LET b == batcher[k] IN
  /\ b.pc = "oops"
  /\ \E h \in b.sending : ReceivesError(h)
  /\ \E next \in Visit(b, b.todo \cap Unanswered(k), AfterBatch(b)) :
       SetBatcher(k, next)
  /\ UNCHANGED <<relay, pool, reqchan, batchchan, reader, link, faults, crashed>>

(***************************************************************************)
(* The reader.                                                             *)
(***************************************************************************)

IdleReader == [pc |-> "take", responses |-> <<>>, channels |-> {},
               failed |-> 0, todo |-> {}, sending |-> {}]

TakeBatch(k) ==
  /\ reader[k].pc = "take" /\ batchchan[k] # <<>>
  /\ reader' = [reader EXCEPT ![k] =
       [IdleReader EXCEPT !.pc = "read",
                          !.responses = Head(batchchan[k]).responses,
                          !.channels = Head(batchchan[k]).channels]]
  /\ batchchan' = [batchchan EXCEPT ![k] = <<>>]
  /\ UNCHANGED <<relay, pool, client, reqchan, batcher, link, faults, crashed>>

\* Mutant: the handle is left in the map.
ReadKeepsHandle(k) ==
  LET res == Head(link[k].toProxy)
      waiting == reader[k].responses
  IN
  /\ reader[k].pc = "read" /\ waiting # <<>> /\ link[k].toProxy # <<>>
  /\ link' = [link EXCEPT ![k].toProxy = Tail(@)]
  /\ IF res.opaque \in DOMAIN waiting
     THEN /\ Receives(waiting[res.opaque], res.handle)
          /\ UNCHANGED <<batcher, reader, crashed>>
     ELSE Panic
  /\ UNCHANGED <<relay, pool, reqchan, batchchan, faults>>

\* A response goes to the handle of its opaque value; one that is not in the
\* batch is a panic.  Deleting the handle while the batcher's oops ranges over
\* the same map is a data race, which the runtime may notice and then ends the
\* process.
Read(k) ==
  LET res == Head(link[k].toProxy)
      waiting == reader[k].responses
  IN
  /\ reader[k].pc = "read" /\ waiting # <<>> /\ link[k].toProxy # <<>>
  /\ link' = [link EXCEPT ![k].toProxy = Tail(@)]
  /\ IF res.opaque \in DOMAIN waiting
     THEN /\ Receives(waiting[res.opaque], res.handle)
          /\ reader' = [reader EXCEPT ![k].responses = Without(@, res.opaque)]
          /\ UNCHANGED <<batcher, crashed>>
     ELSE Panic
  /\ UNCHANGED <<relay, pool, reqchan, batchchan, faults>>

MapRace(k) ==
  /\ reader[k].pc = "read" /\ reader[k].responses # <<>> /\ link[k].toProxy # <<>>
  /\ batcher[k].pc = "oops" /\ batchchan[k] = <<>>
  /\ Panic
  /\ UNCHANGED <<relay, pool, reqchan, batchchan, link, faults>>

\* Mutant: the channels are closed with a response outstanding.
CloseChannelsEarly(k) ==
  /\ reader[k].pc = "read" /\ Cardinality(DOMAIN reader[k].responses) <= 1
  /\ reader' = [reader EXCEPT ![k] = IdleReader]
  /\ client' = [c \in Clients |->
       IF client[c].pc = "wait"
            /\ [client |-> c, call |-> client[c].call, key |-> 0] \in reader[k].channels
       THEN [client[c] EXCEPT !.pc = "done"] ELSE client[c]]
  /\ UNCHANGED <<relay, pool, reqchan, batcher, batchchan, link, faults, crashed>>

\* Every response is in: the channels are closed, which ends the gets.  It is
\* a panic for the batcher if its oops is still sending on one of them.
CloseChannels(k) ==
  /\ reader[k].pc = "read" /\ reader[k].responses = <<>>
  /\ IF batchchan[k] = <<>> /\ batcher[k].pc = "oops"
     THEN Panic
     ELSE /\ reader' = [reader EXCEPT ![k] = IdleReader]
          /\ client' = [c \in Clients |->
               IF /\ client[c].pc = "wait"
                  /\ [client |-> c, call |-> client[c].call, key |-> 0]
                        \in reader[k].channels
               THEN [client[c] EXCEPT !.pc = "done"] ELSE client[c]]
          /\ UNCHANGED <<batcher, crashed>>
  /\ UNCHANGED <<relay, pool, reqchan, batchchan, link, faults>>

\* The socket is at its end.  oops sends the error to every handle of the
\* batch, and the reader goes on with an empty header, which is that of a get
\* hit: the flags cannot be read either, so that oops sends again, and then
\* the opaque value 0 is not in the batch.
ReadFails(k) ==
  LET r == reader[k] IN
  /\ r.pc = "read" /\ r.responses # <<>> /\ ~link[k].up /\ link[k].toProxy = <<>>
  /\ \E next \in Visit([r EXCEPT !.failed = 1], HandlesOf(r.responses), r) :
       reader' = [reader EXCEPT ![k] = next]
  /\ UNCHANGED <<relay, pool, client, reqchan, batcher, batchchan, link, faults,
                 crashed>>

ReaderOops(k) ==
  LET r == reader[k]
      again == Visit([r EXCEPT !.failed = 2], HandlesOf(r.responses), r)
  IN
  /\ r.pc = "oops"
  /\ \/ /\ r.todo # {} \/ r.failed = 1
        /\ \E h \in r.sending : ReceivesError(h)
        /\ \E next \in IF r.todo = {} THEN again ELSE Visit(r, r.todo, r) :
             reader' = [reader EXCEPT ![k] = next]
        /\ UNCHANGED <<batcher, crashed>>
     \/ /\ r.todo = {} /\ r.failed = 2
        /\ \A h \in r.sending : Waits(h)
        /\ Panic
  /\ UNCHANGED <<relay, pool, reqchan, batchchan, link, faults>>

(***************************************************************************)
(* memcached answers the commands of a connection in their order, with     *)
(* their opaque values.  When the link breaks, what it had answered can    *)
(* still be read.                                                          *)
(***************************************************************************)

IdleLink == [up |-> TRUE, toServer |-> <<>>, toProxy |-> <<>>]

Serve(k) ==
  /\ link[k].up /\ link[k].toServer # <<>> /\ Len(link[k].toProxy) < SocketRoom
  /\ link' = [link EXCEPT ![k].toServer = Tail(@),
                          ![k].toProxy = Append(@, Head(link[k].toServer))]
  /\ UNCHANGED <<relay, pool, client, reqchan, batcher, batchchan, reader, faults,
                 crashed>>

Break(k) ==
  /\ k <= pool /\ link[k].up /\ Fault
  /\ link' = [link EXCEPT ![k].up = FALSE, ![k].toServer = <<>>]
  /\ UNCHANGED <<relay, pool, client, reqchan, batcher, batchchan, reader, crashed>>

(***************************************************************************)
(* The specification.                                                      *)
(***************************************************************************)

Init ==
  /\ relay \in [made : {FALSE},
               batchSize : {uint32ValueOrDefault(s, DefaultBatchSize) : s \in Settings}]
  /\ pool = 0
  /\ client = [c \in Clients |-> [Idle(0) EXCEPT !.pc = "new"]]
  /\ reqchan = [k \in Pool |-> <<>>]
  /\ batcher = [k \in Pool |-> IdleBatcher]
  /\ batchchan = [k \in Pool |-> <<>>]
  /\ reader = [k \in Pool |-> IdleReader]
  /\ link = [k \in Pool |-> IdleLink]
  /\ faults = 0 /\ crashed = FALSE

Client(c) == Submit(c) \/ Handover(c) \/ Return(c)

Batcher(k) ==
  \/ TakeRequest(k) \/ Timeout(k) \/ Do(k) \/ Write(k) \/ WriteFails(k)
  \/ BatcherOops(k)

Reader(k) ==
  \/ TakeBatch(k) \/ Read(k) \/ MapRace(k) \/ CloseChannels(k) \/ ReadFails(k)
  \/ ReaderOops(k)

Next ==
  \/ \E c \in Clients : NewHandler(c) \/ Call(c) \/ Client(c)
  \/ AddConn
  \/ \E k \in Pool : Batcher(k) \/ Reader(k) \/ Serve(k) \/ Break(k)

Spec == Init /\ [][Next]_vars

\* Goroutines run, the batch delay ends, and memcached answers.  Weak fairness
\* is enough for a caller that waits for room in a request channel, which Go
\* gives to the senders in turn, because the calls explored are finitely many.
FairSpec ==
  /\ Spec
  /\ \A c \in Clients : WF_vars(Client(c))
  /\ \A k \in Pool : WF_vars(Batcher(k)) /\ WF_vars(Reader(k)) /\ WF_vars(Serve(k))

(***************************************************************************)
(* Properties.                                                             *)
(***************************************************************************)

\* Type invariant.  The channels keep to their capacities (newConn), and so
\* does a batch, except that one awaited after a timeout is not seen to be full
\* until another request has been taken (batcher), so that batches of two are
\* sent where the batch size is 0 or 1.
TypeOK ==
  /\ relay \in [made : BOOLEAN, batchSize : Nat] /\ pool \in 0..MaxPool
  /\ \A c \in Clients : client[c].call \in 0..Len(Script[c]) /\ client[c].conn \in 0..pool
  /\ \A k \in Pool :
       /\ Len(reqchan[k]) <= BatchSize
       /\ Len(batcher[k].reqs) <= IF BatchSize <= 1 THEN 2 ELSE BatchSize
       /\ Len(batchchan[k]) <= 1
       /\ Len(link[k].toServer) <= SocketRoom /\ Len(link[k].toProxy) <= SocketRoom

\* "This is done to prevent possible confusion between requests, where one
\* request would get another's data" (batchIntoBuffer): whatever a caller
\* receives answers a command of the call it is making, under the handle of
\* that very key, and it receives no answer twice.
AnswersAreOwn ==
  \A c \in Clients : \A n \in DOMAIN client[c].got :
    LET a == client[c].got[n] IN
    /\ a.handle = a.of
    /\ a.of.client = c /\ a.of.call = client[c].call
    /\ \A m \in DOMAIN client[c].got : client[c].got[m].of = a.of => m = n

\* A call that ends without an error has the answer to every one of its
\* commands (the range loop of realHandleGet ends when the reader closes the
\* channel, which it must not do early).
AnswersAreComplete ==
  \A c \in Clients :
    client[c].pc = "done" /\ ~client[c].err
      => Len(client[c].got) = IF client[c].op = "Get" THEN KeysPerGet ELSE 1

\* The responses that are still to come on it, in their order.
StillToCome(k) == link[k].toProxy \o link[k].toServer \o batcher[k].out

\* Reader and batcher agree: on a working link, the next responses are those of
\* the reader's batch, exactly as many as it has handles for, and the ones
\* behind them are those of the batch in the channel.  Were they ever to
\* differ, reader would panic with "Batch out of sync".
InSync ==
  \A k \in Pool : link[k].up =>
    LET coming == StillToCome(k)
        n == Cardinality(DOMAIN reader[k].responses)
        opaques(s) == {s[m].opaque : m \in DOMAIN s}
        queued == IF batchchan[k] = <<>> THEN <<>> ELSE Head(batchchan[k]).responses
    IN
    /\ Len(coming) = n + Cardinality(DOMAIN queued)
    /\ opaques(SubSeq(coming, 1, n)) = DOMAIN reader[k].responses
    /\ opaques(SubSeq(coming, n + 1, Len(coming))) = DOMAIN queued

\* A link that breaks and a first dial that fails are all that can panic.
OnlyFaultsPanic == crashed => faults > 0

\* Every call ends, for as long as nothing has failed: no batch is held back
\* for good, and neither the two goroutines nor the two sockets wait for each
\* other in a circle.
EveryCallEnds ==
  \A c \in Clients :
    client[c].pc = "submit" ~> (client[c].pc = "done" \/ faults > 0)

=============================================================================
