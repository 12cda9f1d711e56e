----------------------------- MODULE AtomicCache -----------------------------
(***************************************************************************)
(* What the proxy promises its clients: one cache in which every request   *)
(* takes effect at one instant between its arrival and its answer.  There  *)
(* are no levels and no locks here.                                        *)
(***************************************************************************)
EXTENDS StdHandler

CONSTANTS Keys, Conns, Requests, MaxNow, StartTime

VARIABLES store,   \* by key, the entry or None
          time,
          state,   \* by connection: "closed", "idle", "pending" or "answered"
          asked,   \* its request
          answer   \* and the answer, once there is one

absVars == <<store, time, state, asked, answer>>

Answer(err, val) == [err |-> err, val |-> val]

Init ==
  /\ store = [k \in Keys |-> None]
  /\ time = StartTime
  /\ state = [c \in Conns |-> "idle"]
  /\ asked = [c \in Conns |-> None]
  /\ answer = [c \in Conns |-> None]

Ask(c) ==
  /\ state[c] = "idle"
  /\ \E r \in Requests : asked' = [asked EXCEPT ![c] = r]
  /\ state' = [state EXCEPT ![c] = "pending"]
  /\ UNCHANGED <<store, time, answer>>

TakeEffect(c) ==
  LET r == asked[c]
      effect == Effect(store[r.key], r, time)
  IN
  /\ state[c] = "pending"
  /\ store' = [store EXCEPT ![r.key] = effect.item]
  /\ answer' = [answer EXCEPT ![c] = Answer(effect.err, Found(store[r.key], r))]
  /\ state' = [state EXCEPT ![c] = "answered"]
  /\ UNCHANGED <<time, asked>>

Deliver(c) ==
  /\ state[c] = "answered"
  /\ state' = [state EXCEPT ![c] = "idle"]
  /\ asked' = [asked EXCEPT ![c] = None]
  /\ answer' = [answer EXCEPT ![c] = None]
  /\ UNCHANGED <<store, time>>

Leave(c) ==
  /\ state[c] = "idle"
  /\ state' = [state EXCEPT ![c] = "closed"]
  /\ UNCHANGED <<store, time, asked, answer>>

Join(c) ==
  /\ state[c] = "closed"
  /\ state' = [state EXCEPT ![c] = "idle"]
  /\ UNCHANGED <<store, time, asked, answer>>

Expire ==
  /\ time < MaxNow
  /\ time' = time + 1
  /\ store' = [k \in Keys |-> Live(store[k], time + 1)]
  /\ UNCHANGED <<state, asked, answer>>

Next ==
  \/ \E c \in Conns : Ask(c) \/ TakeEffect(c) \/ Deliver(c) \/ Leave(c) \/ Join(c)
  \/ Expire

Spec == Init /\ [][Next]_absVars

=============================================================================
