------------------------------ MODULE MultiGet ------------------------------
(***************************************************************************)
(* A get of several keys on one connection that the locking wrapper does   *)
(* not split: the server loop, an orchestrator, and the goroutines that    *)
(* the two std handlers start for it.  A goroutine asks its server for one *)
(* key after the other and hands each answer to the orchestrator over      *)
(* unbuffered channels; every call on a handler, the goroutines' and the   *)
(* orchestrator's own, uses the handler's one socket, which matches        *)
(* answers with commands by their order alone.                             *)
(*                                                                         *)
(* Set stands for the requests that follow a get on the connection.  A     *)
(* server's contents are the set of keys it holds.                         *)
(***************************************************************************)
EXTENDS Naturals, SequencesExt

CONSTANTS Keys,       \* the keys
          MaxKeys,    \* bound on the keys of a get
          None,       \* nothing
          MaxReqs,    \* bound on the requests of the connection
          MaxFaults   \* bound on the failures

KeyLists == UNION {[1..i -> Keys] : i \in 1..MaxKeys}

Requests == [op : {"Get", "Set"}, keys : KeyLists]

ASSUME MultiGetAssumption ==
  /\ None \notin Keys /\ None \notin Requests
  /\ MaxKeys \in Nat \ {0} /\ MaxReqs \in Nat /\ MaxFaults \in Nat

Orcas == {"L1Only", "L1L2", "L1L2Batch"}

Levels == {1, 2}

VARIABLES orca,      \* the orchestrator of the connection's port
          holds,     \* the keys each level's server holds
          sock,      \* commands written to each level and not yet answered
          broken,    \* levels whose socket has failed or is closed
          pc,        \* where the server loop is
          sent,      \* whether its own handler call has written its command
          req,       \* the request it is serving
          n,         \* the number of that request
          gos,       \* the handlers' goroutines, by level and request number
          wait,      \* the channels of the select loop that are not nil
          l2keys,    \* Get's l2keys
          hand,      \* the key of the L2 hit that is being written to L1
          err,       \* Get's err
          answered,  \* the responses Get has given the responder
          ended,     \* how the last request ended
          faults,    \* failures so far
          lost,      \* history: this get's error was overwritten
          left,      \* history: the goroutines an early return left behind
          crossed    \* history: a call has read the answer to another one

vars == <<orca, holds, sock, broken, pc, sent, req, n, gos, wait, l2keys, hand,
          err, answered, ended, faults, lost, left, crossed>>

\* What the steps of a goroutine leave alone.
loopVars == <<orca, holds, pc, sent, req, n, wait, l2keys, hand, err, answered,
              ended, lost, left>>

\* What every step between the channels and the loop leaves alone.
sockVars == <<orca, holds, sock, faults, crossed, req, n, sent, left>>

(***************************************************************************)
(* Types.                                                                  *)
(***************************************************************************)

Goroutines == Levels \X (1..MaxReqs)

Errors == {"nil", "Busy", "IOError"}

Answers == {"hit", "miss", "ok", "Busy"}

\* The loop's own calls are named by the number of the request too.
Callers == Goroutines \cup ({0} \X (1..MaxReqs))

GoStates == {"none", "write", "read", "send", "sendErr", "close", "closeErr",
             "done"}

Goroutine == [at : GoStates, keys : Seq(Keys), idx : 0..MaxKeys,
              ans : Answers \cup Errors]

\* Types: a get never has more keys or requests in hand than its bounds, and
\* every field holds what the code's variables may hold.
TypeOK ==
  /\ orca \in Orcas
  /\ holds \in [Levels -> SUBSET Keys]
  /\ sock \in [Levels -> Seq([by : Callers, ans : Answers])]
  /\ broken \subseteq Levels
  /\ pc \in {"idle", "L1Get", "L2Get", "Fill", "Set2", "Set1", "closed"}
  /\ sent \in BOOLEAN
  /\ req \in Requests \cup {None}
  /\ n \in 0..MaxReqs
  /\ gos \in [Goroutines -> Goroutine]
  /\ wait \subseteq {"data", "err"}
  /\ l2keys \in Seq(Keys)
  /\ hand \in Keys \cup {None}
  /\ err \in Errors
  /\ answered \in Seq([key : Keys, hit : BOOLEAN])
  /\ ended \in {"none", "end", "error"}
  /\ faults \in 0..MaxFaults
  /\ lost \in BOOLEAN /\ crossed \in BOOLEAN
  /\ left \subseteq Goroutines

Init ==
  /\ orca \in Orcas
  /\ holds \in [Levels -> SUBSET Keys]
  /\ sock = [lv \in Levels |-> <<>>]
  /\ broken = {}
  /\ pc = "idle" /\ sent = FALSE /\ req = None /\ n = 0
  /\ gos = [g \in Goroutines |->
              [at |-> "none", keys |-> <<>>, idx |-> 0, ans |-> "nil"]]
  /\ wait = {} /\ l2keys = <<>> /\ hand = None /\ err = "nil"
  /\ answered = <<>> /\ ended = "none" /\ faults = 0
  /\ lost = FALSE /\ left = {} /\ crossed = FALSE

(***************************************************************************)
(* A call on a handler: a command is written and flushed, and one response *)
(* is read.                                                                *)
(***************************************************************************)

\* The server answers in the order of the commands, or refuses.
Write(lv, who, ans) ==
  \E refused \in BOOLEAN :
    /\ refused => faults < MaxFaults
    /\ faults' = faults + (IF refused THEN 1 ELSE 0)
    /\ sock' = [sock EXCEPT
         ![lv] = Append(@, [by |-> who, ans |-> IF refused THEN "Busy" ELSE ans])]

\* A response is for whoever reads next: the opaque of every command is 0, so
\* nothing in it names its caller.  Or the socket breaks, or already has: brk
\* are then the broken ones.
Read(lv, who, ans, brk) ==
  \/ /\ lv \notin broken /\ sock[lv] # <<>>
     /\ ans = Head(sock[lv]).ans /\ brk = broken
     /\ crossed' = (Head(sock[lv]).by # who)
     /\ sock' = [sock EXCEPT ![lv] = Tail(@)]
     /\ UNCHANGED faults
  \/ /\ lv \notin broken /\ faults < MaxFaults
     /\ ans = "IOError" /\ brk = broken \cup {lv}
     /\ faults' = faults + 1
     /\ UNCHANGED <<sock, crossed>>
  \/ /\ lv \in broken
     /\ ans = "IOError" /\ brk = broken
     /\ UNCHANGED <<sock, faults, crossed>>

(***************************************************************************)
(* realHandleGet and realHandleGetE, whose steps are the same.             *)
(***************************************************************************)

Go(g, at, ans) == gos' = [gos EXCEPT ![g].at = at, ![g].ans = ans]

AskKey(g) ==
  LET key == gos[g].keys[gos[g].idx] IN
  /\ gos[g].at = "write"
  /\ IF g[1] \in broken
     THEN Go(g, "sendErr", "IOError") /\ UNCHANGED <<sock, faults>>
     ELSE /\ Write(g[1], g, IF key \in holds[g[1]] THEN "hit" ELSE "miss")
          /\ Go(g, "read", "nil")
  /\ UNCHANGED <<loopVars, broken, crossed>>

\* Mutant: a miss ends the goroutine like any other refusal.
ReadKeyMissIsError(g) ==
  /\ gos[g].at = "read"
  /\ \E ans \in Answers \cup Errors, brk \in SUBSET Levels :
       /\ Read(g[1], g, ans, brk)
       /\ broken' = brk
       /\ Go(g, IF ans = "hit" THEN "send" ELSE "sendErr", ans)
  /\ UNCHANGED loopVars

\* Mutant: a miss is asked for again.
ReadKeyRetries(g) ==
  /\ gos[g].at = "read"
  /\ \E ans \in Answers \cup Errors, brk \in SUBSET Levels :
       /\ Read(g[1], g, ans, brk)
       /\ broken' = brk
       /\ IF ans = "miss" THEN Go(g, "write", "nil")
          ELSE Go(g, IF ans = "hit" THEN "send" ELSE "sendErr", ans)
  /\ UNCHANGED loopVars

\* getLocal.  A miss is a response, any other refusal an error.
ReadKey(g) ==
  /\ gos[g].at = "read"
  /\ \E ans \in Answers \cup Errors, brk \in SUBSET Levels :
       /\ Read(g[1], g, ans, brk)
       /\ broken' = brk
       /\ Go(g, IF ans \in {"hit", "miss"} THEN "send" ELSE "sendErr", ans)
  /\ UNCHANGED loopVars

\* The deferred calls: dataOut is closed first, then errorOut.
Close(g) ==
  /\ gos[g].at \in {"close", "closeErr"}
  /\ Go(g, IF gos[g].at = "close" THEN "closeErr" ELSE "done", "nil")
  /\ UNCHANGED <<loopVars, sock, broken, faults, crossed>>

\* A goroutine after a response is taken: the next key, or the end.
AfterSend(go) ==
  IF go.idx < Len(go.keys)
  THEN [go EXCEPT !.at = "write", !.idx = @ + 1, !.ans = "nil"]
  ELSE [go EXCEPT !.at = "close", !.ans = "nil"]

Start(g, keys) ==
  gos' = [gos EXCEPT
            ![g] = [at |-> "write", keys |-> keys, idx |-> 1, ans |-> "nil"]]

(***************************************************************************)
(* DefaultServer.Loop.                                                     *)
(***************************************************************************)

Receive ==
  /\ pc = "idle" /\ n < MaxReqs
  /\ n' = n + 1
  /\ answered' = <<>> /\ ended' = "none" /\ err' = "nil" /\ lost' = FALSE
  /\ l2keys' = <<>>
  /\ \/ \E keys \in KeyLists :
          /\ req' = [op |-> "Get", keys |-> keys]
          /\ pc' = "L1Get"
          /\ Start(<<1, n + 1>>, keys)
          /\ wait' = {"data", "err"}
     \/ \E k \in Keys :
          /\ req' = [op |-> "Set", keys |-> <<k>>]
          /\ pc' = IF orca = "L1Only" THEN "Set1" ELSE "Set2"
          /\ UNCHANGED <<gos, wait>>
  /\ UNCHANGED <<orca, holds, sock, broken, sent, hand, faults, left, crossed>>

\* The client goes away: the next parse fails and abort closes everything.
Hangup ==
  /\ pc = "idle"
  /\ pc' = "closed"
  /\ broken' = Levels
  /\ UNCHANGED <<orca, holds, sock, sent, req, n, gos, wait, l2keys, hand, err,
                 answered, ended, faults, lost, left, crossed>>

\* The orchestrator returns e: an application error is written to the client,
\* any other one closes the connections, beside the broken ones.
Return(e, brk) ==
  /\ ended' = IF e = "nil" THEN "end" ELSE "error"
  /\ err' = e
  /\ pc' = IF e = "IOError" THEN "closed" ELSE "idle"
  /\ broken' = IF e = "IOError" THEN Levels ELSE brk
  /\ hand' = None

(***************************************************************************)
(* Get's select loops.                                                     *)
(***************************************************************************)

Level == IF pc = "L1Get" THEN 1 ELSE 2

Current == <<Level, n>>

Looping == pc \in {"L1Get", "L2Get"}

Answer(key, hit) == answered' = Append(answered, [key |-> key, hit |-> hit])

\* A response from the handler.  Misses of L1 go on to L2, where hits are
\* first written to L1 by L1L2Orca.
TakeResponse ==
  LET go == gos[Current]
      key == go.keys[go.idx]
      hit == (go.ans = "hit")
  IN
  /\ Looping /\ "data" \in wait /\ go.at = "send"
  /\ gos' = [gos EXCEPT ![Current] = AfterSend(go)]
  /\ \/ /\ pc = "L1Get" /\ ~hit /\ orca # "L1Only"
        /\ l2keys' = Append(l2keys, key)
        /\ UNCHANGED <<pc, hand, answered>>
     \/ /\ pc = "L2Get" /\ hit /\ orca = "L1L2"
        /\ pc' = "Fill" /\ hand' = key
        /\ UNCHANGED <<l2keys, answered>>
     \/ /\ \/ pc = "L1Get" /\ (hit \/ orca = "L1Only")
           \/ pc = "L2Get" /\ (~hit \/ orca # "L1L2")
        /\ Answer(key, hit)
        /\ UNCHANGED <<pc, hand, l2keys>>
  /\ UNCHANGED <<sockVars, broken, wait, err, ended, lost>>

\* Mutant: the error is counted and forgotten.
TakeErrorForgotten ==
  /\ Looping /\ "err" \in wait /\ gos[Current].at = "sendErr"
  /\ gos' = [gos EXCEPT ![Current].at = "close", ![Current].ans = "nil"]
  /\ UNCHANGED <<sockVars, broken, pc, wait, hand, l2keys, err, answered, ended,
                 lost>>

TakeError ==
  LET go == gos[Current] IN
  /\ Looping /\ "err" \in wait /\ go.at = "sendErr"
  /\ gos' = [gos EXCEPT ![Current].at = "close", ![Current].ans = "nil"]
  /\ err' = go.ans
  /\ UNCHANGED <<sockVars, broken, pc, wait, hand, l2keys, answered, ended, lost>>

ClosedBy(at) ==
  IF at = "done" THEN {"data", "err"} ELSE IF at = "closeErr" THEN {"data"} ELSE {}

\* A closed channel becomes nil.  When both are, the loop is over: the keys
\* L1 missed are asked for in L2, or the get ends, with GetEnd if err is nil.
TakeClosed ==
  /\ Looping
  /\ \E ch \in wait \cap ClosedBy(gos[Current].at) :
       \/ /\ wait # {ch}
          /\ wait' = wait \ {ch}
          /\ UNCHANGED <<broken, pc, gos, hand, err, ended>>
       \/ /\ wait = {ch} /\ pc = "L1Get" /\ l2keys # <<>>
          /\ pc' = "L2Get"
          /\ Start(<<2, n>>, l2keys)
          /\ wait' = {"data", "err"}
          /\ UNCHANGED <<broken, hand, err, ended>>
       \/ /\ wait = {ch} /\ (pc = "L2Get" \/ l2keys = <<>>)
          /\ Return(err, broken)
          /\ wait' = {}
          /\ UNCHANGED gos
  /\ UNCHANGED <<sockVars, l2keys, answered, lost>>

(***************************************************************************)
(* The loop's own handler calls: Get's write to L1, and Set.               *)
(***************************************************************************)

CallLevel == IF pc = "Set2" THEN 2 ELSE 1

Calling == pc \in {"Fill", "Set2", "Set1"}

\* Mutant: the write to L1 names the first key of the get.
CallFirstKey == req.keys[1]

CallKey == IF pc = "Fill" THEN hand ELSE req.keys[1]

\* What follows a handler call that returned e.  The write to L1 assigns Get's
\* err, and on failure Get returns at once.
AfterCall(e, brk) ==
  \/ /\ pc = "Fill" /\ e = "nil"
     /\ err' = "nil" /\ lost' = (lost \/ err # "nil")
     /\ Answer(hand, TRUE)
     /\ pc' = "L2Get" /\ hand' = None
     /\ broken' = brk
     /\ UNCHANGED <<left, ended, wait>>
  \/ /\ pc = "Fill" /\ e # "nil"
     /\ left' = left \cup {<<2, n>>}
     /\ Return(e, brk)
     /\ wait' = {}
     /\ UNCHANGED <<lost, answered>>
  \/ /\ pc = "Set2" /\ e = "nil"
     /\ pc' = "Set1"
     /\ broken' = brk
     /\ UNCHANGED <<left, lost, answered, ended, err, hand, wait>>
  \/ /\ pc = "Set1" \/ (pc = "Set2" /\ e # "nil")
     /\ Return(e, brk)
     /\ UNCHANGED <<left, lost, answered, wait>>

\* The batch orchestrator only replaces what L1 holds; that L1 has no such key
\* is no error.
Stores == IF pc = "Set1" /\ orca = "L1L2Batch" THEN {} ELSE {CallKey}

\* Mutant: the write to L1 does not wait for its answer.
CallWriteAsync ==
  /\ Calling /\ ~sent
  /\ IF CallLevel \in broken
     THEN AfterCall("IOError", broken) /\ UNCHANGED <<sock, faults, holds, sent>>
     ELSE /\ Write(CallLevel, <<0, n>>, "ok")
          /\ holds' = [holds EXCEPT ![CallLevel] = @ \cup Stores]
          /\ AfterCall("nil", broken)
          /\ UNCHANGED sent
  /\ UNCHANGED <<orca, req, n, gos, l2keys, crossed>>

CallWrite ==
  /\ Calling /\ ~sent
  /\ IF CallLevel \in broken
     THEN /\ AfterCall("IOError", broken)
          /\ UNCHANGED <<sock, faults, holds, sent>>
     ELSE /\ Write(CallLevel, <<0, n>>, "ok")
          /\ holds' = IF faults' = faults
                      THEN [holds EXCEPT ![CallLevel] = @ \cup Stores]
                      ELSE holds
          /\ sent' = TRUE
          /\ UNCHANGED <<broken, pc, wait, hand, err, answered, ended, lost, left>>
  /\ UNCHANGED <<orca, req, n, gos, l2keys, crossed>>

CallRead ==
  /\ Calling /\ sent
  /\ sent' = FALSE
  /\ \E ans \in Answers \cup Errors, brk \in SUBSET Levels :
       /\ Read(CallLevel, <<0, n>>, ans, brk)
       /\ AfterCall(IF ans \in {"Busy", "IOError"} THEN ans ELSE "nil", brk)
  /\ UNCHANGED <<orca, holds, req, n, gos, l2keys>>

(***************************************************************************)
(* The specification.                                                      *)
(***************************************************************************)

GoStep(g) == AskKey(g) \/ ReadKey(g) \/ Close(g)

LoopStep == TakeResponse \/ TakeError \/ TakeClosed \/ CallWrite \/ CallRead

\* A closed connection does nothing more.  What a call makes of another one's
\* response (of a set, where it expects a value) is not followed.
Done == (pc = "closed" \/ crossed) /\ UNCHANGED vars

Next ==
  \/ ~crossed /\ (Receive \/ Hangup \/ LoopStep)
  \/ ~crossed /\ \E g \in Goroutines : GoStep(g)
  \/ Done

\* Servers answer and goroutines are scheduled; clients need not send more.
Fairness ==
  /\ WF_vars(~crossed /\ LoopStep)
  /\ \A g \in Goroutines : WF_vars(~crossed /\ GoStep(g))

Spec == Init /\ [][Next]_vars /\ Fairness

(***************************************************************************)
(* Properties.                                                             *)
(***************************************************************************)

\* Calls of a handler that have written their command and not read its answer.
InCall(lv) ==
  {g \in Goroutines : g[1] = lv /\ gos[g].at = "read"} \cup
  (IF Calling /\ sent /\ CallLevel = lv THEN {<<0, n>>} ELSE {})

\* At most one call is under way on a handler, and a call reads the answer to
\* its own command: nothing but the turn-taking of the callers ensures it.
\* The exception is L2, once a failed write to L1 has made L1L2Orca.Get return
\* early and leave the goroutine of L2's GetE behind.  In particular no
\* goroutine of L1 is still at work when Get writes to L1.
OneCallPerHandler ==
  /\ \A lv \in Levels : Cardinality(InCall(lv)) > 1 => lv = 2 /\ left # {}
  /\ crossed => left # {}
  /\ left # {} => orca = "L1L2"

\* A get that ends with GetEnd has answered each of its keys, once; except
\* that the write to L1 in L1L2Orca.Get assigns err, so that an error of L1,
\* after which L1 is asked for no further key, may be forgotten.
EndIsComplete ==
  (req # None /\ req.op = "Get" /\ ended = "end") =>
    \/ /\ Len(answered) = Len(req.keys)
       /\ {a.key : a \in Range(answered)} = Range(req.keys)
    \/ orca = "L1L2" /\ lost

\* No answer is given twice, and a key is answered as a miss only if no level
\* the orchestrator uses holds it, as a hit only if one does.
TrueAnswers ==
  (req # None /\ req.op = "Get") =>
    /\ Len(answered) <= Len(req.keys)
    /\ \A a \in Range(answered) :
         a.hit <=> a.key \in holds[1] \/ (orca # "L1Only" /\ a.key \in holds[2])

\* Every request comes to an end, whatever fails, as long as no call has read
\* another one's answer: the select loops see both channels closed.
EveryRequestEnds ==
  (pc \notin {"idle", "closed"}) ~> (pc \in {"idle", "closed"} \/ crossed)

=============================================================================
