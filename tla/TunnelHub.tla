----------------------------- MODULE TunnelHub -----------------------------
(***************************************************************************)
(* The command tunnel of a client behind NAT: the client opens a stream to *)
(* the server and reopens it when it breaks; the server registers it in    *)
(* the hub and sends commands over it; answers are matched to the calls    *)
(* that wait for them by request id.                                       *)
(*                                                                         *)
(* The hub has one tunnel per client id and nothing relates two of them,   *)
(* so there is one client.  Its sessions are numbered in the order it      *)
(* opens them.  The server's handler of a session goes on until the server *)
(* notices that the stream is broken, which may be long after the client   *)
(* has opened the next one.                                                *)
(***************************************************************************)
EXTENDS Naturals, Sequences

CONSTANTS
  Call,        \* calls of SendCommand
  MaxSession,  \* how often the client opens a tunnel
  MaxRebind,   \* how often RebindClient is called with force
  None

ASSUME TunnelAssumption ==
  MaxSession \in Nat /\ MaxRebind \in Nat /\ None \notin Nat \cup Call

Session == 1..MaxSession

VARIABLES
  client,   \* the session the client is in, or None
  opened,   \* sessions opened so far
  cut,      \* sessions whose stream is broken
  up,       \* messages on their way to the server
  down,     \* commands on their way to the client
  handler,  \* CommandTunnel of every session on the server
  hand,     \* the answer a handler is delivering, and to whom
  hub,      \* the registered session, or None
  seq,      \* the last request id of every tunnel
  pending,  \* the calls that wait for an answer, per tunnel, with request ids
  call,     \* where every SendCommand is
  tun,      \* its tunnel
  id,       \* its request id
  box,      \* the answer in its channel, or None
  closed,   \* calls whose channel is closed
  answer,   \* the answer it returned, or None
  foreign,  \* history: a tunnel was used or unregistered by another than its handler
  rebinds,  \* forced rebinds so far
  panic     \* a send on a closed channel has ended the server process

clientVars == <<client, opened, cut, up, down>>
hubVars == <<hub, closed, foreign, rebinds>>
callVars == <<seq, call, tun, id, answer>>
vars == <<clientVars, handler, hand, hubVars, pending, callVars, box, panic>>

\* An answer carries a request id.  What it really is, the answer to call "of"
\* sent over session "over", nothing in it tells.
Answer == [id : Nat, over : Session, of : Call]
Register == [id |-> 0]

\* What a handler holds: the tunnel it looked up, the answer, and the call whose
\* channel it found.
Hand == [tun : Session, msg : Answer, to : Call \cup {None}]

TypeOK ==
  /\ client \in Session \cup {None}
  /\ opened \in 0..MaxSession
  /\ cut \in SUBSET Session
  /\ up \in [Session -> Seq(Answer \cup {Register})]
  /\ down \in [Session -> Seq(Answer)]
  /\ handler \in [Session -> {"none", "wait", "read", "find", "post", "gone"}]
  /\ hand \in [Session -> Hand \cup {None}]
  /\ hub \in Session \cup {None}
  /\ seq \in [Session -> Nat]
  /\ \A s \in Session :
       /\ pending[s] \subseteq Nat \X Call
       /\ \A x, y \in pending[s] : x[1] = y[1] => x = y
  /\ call \in [Call -> {"idle", "found", "assigned", "wait", "late", "ok", "error"}]
  /\ tun \in [Call -> Session \cup {None}]
  /\ id \in [Call -> Nat]
  /\ box \in [Call -> Answer \cup {None}]
  /\ closed \in SUBSET Call
  /\ answer \in [Call -> Answer \cup {None}]
  /\ foreign \in BOOLEAN
  /\ rebinds \in 0..MaxRebind
  /\ panic \in BOOLEAN

Init ==
  /\ client = None
  /\ opened = 0
  /\ cut = {}
  /\ up = [s \in Session |-> <<>>]
  /\ down = [s \in Session |-> <<>>]
  /\ handler = [s \in Session |-> "none"]
  /\ hand = [s \in Session |-> None]
  /\ hub = None
  /\ seq = [s \in Session |-> 0]
  /\ pending = [s \in Session |-> {}]
  /\ call = [q \in Call |-> "idle"]
  /\ tun = [q \in Call |-> None]
  /\ id = [q \in Call |-> 0]
  /\ box = [q \in Call |-> None]
  /\ closed = {}
  /\ answer = [q \in Call |-> None]
  /\ foreign = FALSE
  /\ rebinds = 0
  /\ panic = FALSE

-----------------------------------------------------------------------------
(* The client and the network. *)

\* runTunnelSession opens a stream and sends the registration.
Open ==
  /\ client = None /\ opened < MaxSession
  /\ opened' = opened + 1
  /\ client' = opened'
  /\ up' = [up EXCEPT ![opened'] = <<Register>>]
  /\ handler' = [handler EXCEPT ![opened'] = "wait"]
  /\ UNCHANGED <<cut, down, hand, hubVars, pending, callVars, box, panic>>

\* It handles commands one at a time and answers each with its request id.
HandleCommand ==
  /\ client # None /\ client \notin cut
  /\ down[client] # <<>>
  /\ up' = [up EXCEPT ![client] = Append(@, Head(down[client]))]
  /\ down' = [down EXCEPT ![client] = Tail(@)]
  /\ UNCHANGED <<client, opened, cut, handler, hand, hubVars, pending, callVars, box, panic>>

\* The stream breaks, or the client dies.  What is on its way to the server may
\* still arrive.
Break(s) ==
  /\ s \in 1..opened \ cut
  /\ cut' = cut \cup {s}
  /\ down' = [down EXCEPT ![s] = <<>>]
  /\ UNCHANGED <<client, opened, up, handler, hand, hubVars, pending, callVars, box, panic>>

\* The client notices, and will reconnect.
SessionEnds ==
  /\ client \in cut
  /\ client' = None
  /\ UNCHANGED <<opened, cut, up, down, handler, hand, hubVars, pending, callVars, box, panic>>

-----------------------------------------------------------------------------
(* SendCommand. *)

Goto(q, l) == call' = [call EXCEPT ![q] = l]

\* delete(t.pending, requestID)
Forget(q) == pending' = [pending EXCEPT ![tun[q]] = {x \in @ : x[1] # id[q]}]

Lookup(q) ==
  /\ call[q] = "idle"
  /\ \/ hub = None /\ Goto(q, "error") /\ UNCHANGED tun
     \/ hub # None /\ Goto(q, "found") /\ tun' = [tun EXCEPT ![q] = hub]
  /\ UNCHANGED <<clientVars, handler, hand, hubVars, pending, seq, id, answer, box, panic>>

\* mutant: request ids are given out by the number of calls that wait
AssignByLength(q) ==
  LET t == tun[q]
      n == IF \E x \in pending[t] : x[1] = 1 THEN 2 ELSE 1
  IN  /\ call[q] = "found"
      /\ seq' = [seq EXCEPT ![t] = n]
      /\ id' = [id EXCEPT ![q] = n]
      /\ pending' = [pending EXCEPT ![t] = @ \cup {<<n, q>>}]
      /\ Goto(q, "assigned")
      /\ UNCHANGED <<clientVars, handler, hand, hubVars, tun, answer, box, panic>>

\* A request id and a channel, under the tunnel's lock.  The tunnel may have been
\* unregistered since it was looked up.
Assign(q) ==
  LET t == tun[q]
      n == seq[t] + 1
  IN  /\ call[q] = "found"
      /\ seq' = [seq EXCEPT ![t] = n]
      /\ id' = [id EXCEPT ![q] = n]
      /\ pending' = [pending EXCEPT ![t] = @ \cup {<<n, q>>}]
      /\ Goto(q, "assigned")
      /\ UNCHANGED <<clientVars, handler, hand, hubVars, tun, answer, box, panic>>

\* stream.Send: it succeeds as long as nobody has noticed that the stream is
\* broken.
Send(q) ==
  LET t == tun[q]
  IN  /\ call[q] = "assigned" /\ handler[t] # "gone"
      /\ down' = IF t \in cut THEN down
                 ELSE [down EXCEPT ![t] = Append(@, [id |-> id[q], over |-> t, of |-> q])]
      /\ Goto(q, "wait")
      /\ UNCHANGED <<client, opened, cut, up, handler, hand, hubVars, pending, seq, tun, id,
                     answer, box, panic>>

SendFails(q) ==
  /\ call[q] = "assigned" /\ tun[q] \in cut
  /\ Forget(q)
  /\ Goto(q, "error")
  /\ UNCHANGED <<clientVars, handler, hand, hubVars, seq, tun, id, answer, box, panic>>

\* The channel has an answer, or is closed.
Receive(q) ==
  /\ call[q] = "wait" /\ (box[q] # None \/ q \in closed)
  /\ Forget(q)
  /\ Goto(q, IF box[q] # None THEN "ok" ELSE "error")
  /\ answer' = [answer EXCEPT ![q] = box[q]]
  /\ box' = [box EXCEPT ![q] = None]
  /\ UNCHANGED <<clientVars, handler, hand, hubVars, seq, tun, id, panic>>

\* mutant: the caller closes its channel when it gives up
TimeoutCloses(q) ==
  /\ call[q] = "wait"
  /\ Forget(q)
  /\ Goto(q, "error")
  /\ closed' = closed \cup {q}
  /\ UNCHANGED <<clientVars, handler, hand, hub, foreign, rebinds, seq, tun, id, answer, box, panic>>

Timeout(q) ==
  /\ call[q] = "wait"
  /\ Forget(q)
  /\ Goto(q, "error")
  /\ UNCHANGED <<clientVars, handler, hand, hubVars, seq, tun, id, answer, box, panic>>

\* The caller's context is done: the call returns, and a goroutine is left
\* behind to take a late answer or to give up after a while.
Cancel(q) ==
  /\ call[q] = "wait"
  /\ Goto(q, "late")
  /\ UNCHANGED <<clientVars, handler, hand, hubVars, pending, seq, tun, id, answer, box, panic>>

\* mutant: nobody is left behind
GraceNever(q) == FALSE /\ UNCHANGED vars

GraceEnds(q) ==
  /\ call[q] = "late"
  /\ Forget(q)
  /\ Goto(q, "error")
  /\ box' = [box EXCEPT ![q] = None]
  /\ UNCHANGED <<clientVars, handler, hand, hubVars, seq, tun, id, answer, panic>>

-----------------------------------------------------------------------------
(* CommandTunnel and the hub. *)

At(s, l) == handler' = [handler EXCEPT ![s] = l]

\* Unregister, called by "who": whatever tunnel is registered goes, and the
\* channels of the calls that wait on it are closed.
Unregister(who) ==
  IF hub = None THEN UNCHANGED <<hub, closed, foreign, pending>>
  ELSE /\ hub' = None
       /\ closed' = closed \cup {x[2] : x \in pending[hub]}
       /\ pending' = [pending EXCEPT ![hub] = {}]
       /\ foreign' = (foreign \/ who # hub)

\* Register replaces the tunnel there was; the calls that wait on it go on.
RegisterTunnel(s) ==
  /\ handler[s] = "wait" /\ up[s] # <<>>
  /\ up' = [up EXCEPT ![s] = Tail(@)]
  /\ hub' = s
  /\ At(s, "read")
  /\ UNCHANGED <<client, opened, cut, down, hand, closed, foreign, rebinds, pending,
                 callVars, box, panic>>

\* DeliverResponse looks the tunnel up by client id: it need not be that of the
\* handler.
FindTunnel(s) ==
  /\ handler[s] = "read" /\ up[s] # <<>>
  /\ up' = [up EXCEPT ![s] = Tail(@)]
  /\ \/ hub = None /\ UNCHANGED <<handler, hand>>
     \/ /\ hub # None
        /\ At(s, "find")
        /\ hand' = [hand EXCEPT ![s] = [tun |-> hub, msg |-> Head(up[s]), to |-> None]]
  /\ foreign' = (foreign \/ hub \notin {s, None})
  /\ UNCHANGED <<client, opened, cut, down, hub, closed, rebinds, pending, callVars, box, panic>>

\* The channel is looked up under the tunnel's lock, and used without it.
FindCall(s) ==
  LET waiting == {x \in pending[hand[s].tun] : x[1] = hand[s].msg.id}
  IN  /\ handler[s] = "find"
      /\ \/ /\ waiting = {}
            /\ At(s, "read")
            /\ hand' = [hand EXCEPT ![s] = None]
         \/ \E x \in waiting : /\ At(s, "post")
                               /\ hand' = [hand EXCEPT ![s].to = x[2]]
      /\ UNCHANGED <<clientVars, hubVars, pending, callVars, box, panic>>

\* A send that does not block: a full channel loses the answer, a closed one
\* ends the process.
Post(s) ==
  LET q == hand[s].to
  IN  /\ handler[s] = "post"
      /\ At(s, "read")
      /\ hand' = [hand EXCEPT ![s] = None]
      /\ panic' = (q \in closed)
      /\ box' = IF q \notin closed /\ box[q] = None
                THEN [box EXCEPT ![q] = hand[s].msg] ELSE box
      /\ UNCHANGED <<clientVars, hubVars, pending, callVars>>

\* mutant: a handler that ends leaves its tunnel registered
StreamEndsQuietly(s) ==
  /\ s \in cut /\ handler[s] \in {"wait", "read"}
  /\ At(s, "gone")
  /\ up' = [up EXCEPT ![s] = <<>>]
  /\ UNCHANGED <<client, opened, cut, down, hand, hubVars, pending, callVars, box, panic>>

\* The server notices; what has not been read is lost.
StreamEnds(s) ==
  /\ s \in cut /\ handler[s] \in {"wait", "read"}
  /\ At(s, "gone")
  /\ up' = [up EXCEPT ![s] = <<>>]
  /\ IF handler[s] = "read" THEN Unregister(s)
     ELSE UNCHANGED <<hub, closed, foreign, pending>>
  /\ UNCHANGED <<client, opened, cut, down, hand, rebinds, callVars, box, panic>>

\* RebindClient with force.
ForceRebind ==
  /\ rebinds < MaxRebind /\ hub # None
  /\ rebinds' = rebinds + 1
  /\ Unregister(None)
  /\ UNCHANGED <<clientVars, handler, hand, callVars, box, panic>>

-----------------------------------------------------------------------------
CallReturns(q) == SendFails(q) \/ Receive(q) \/ Timeout(q) \/ GraceEnds(q)

CallStep(q) == Lookup(q) \/ Assign(q) \/ Send(q) \/ Cancel(q) \/ CallReturns(q)

HandlerStep(s) == RegisterTunnel(s) \/ FindTunnel(s) \/ FindCall(s) \/ Post(s) \/ StreamEnds(s)

Next ==
  /\ ~panic
  /\ \/ Open \/ HandleCommand \/ SessionEnds \/ ForceRebind
     \/ \E s \in Session : Break(s) \/ HandlerStep(s)
     \/ \E q \in Call : CallStep(q)

\* The timers of calls run out, and a call under way goes on.  Nothing makes
\* streams break, the server notice, or the client answer.
Fairness ==
  \A q \in Call : /\ WF_vars(~panic /\ (Assign(q) \/ Send(q)))
                  /\ WF_vars(~panic /\ CallReturns(q))

Spec == Init /\ [][Next]_vars /\ Fairness

-----------------------------------------------------------------------------
(* Properties. *)

\* An answer that came over the tunnel a command was sent on is the answer to
\* that command, whatever timeouts, cancellations and late answers there were.
\* (One that came over an older tunnel of the client need not be: request ids
\* start again with every tunnel.)
OwnAnswer ==
  \A q \in Call : answer[q] # None /\ answer[q].over = tun[q] => answer[q].of = q

\* The hub never holds a tunnel whose handler has gone: nobody would remove it.
NoDeadTunnel == hub # None => handler[hub] \notin {"none", "wait", "gone"}

\* As long as every handler delivers to and unregisters its own tunnel only, and
\* nobody else unregisters one, nothing is sent on a closed channel.
PanicNeedsForeign == panic => foreign

\* A call whose caller has gone does not stay in the pending map.
LateCallForgotten ==
  \A q \in Call :
    call[q] = "late" ~> (panic \/ \A s \in Session : \A x \in pending[s] : x[2] # q)

=============================================================================
