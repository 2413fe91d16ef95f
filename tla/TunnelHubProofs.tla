--------------------------- MODULE TunnelHubProofs ---------------------------
(***************************************************************************)
(* Proofs about TunnelHub, for any number of calls, sessions and rebinds.  *)
(***************************************************************************)
EXTENDS TunnelHub, TLAPS

Msg == Answer \cup {Register}
HandRecord == [tun : Session, msg : Msg, to : Call \cup {None}]

Types ==
  /\ client \in Session \cup {None} /\ opened \in 0..MaxSession
  /\ up \in [Session -> Seq(Msg)] /\ down \in [Session -> Seq(Msg)]
  /\ handler \in [Session -> {"none", "wait", "read", "find", "post", "gone"}]
  /\ hand \in [Session -> HandRecord \cup {None}]
  /\ hub \in Session \cup {None} /\ closed \in SUBSET Call /\ foreign \in BOOLEAN
  /\ seq \in [Session -> Nat] /\ pending \in [Session -> SUBSET (Nat \X Call)]
  /\ call \in [Call -> {"idle", "found", "assigned", "wait", "late", "ok", "error"}]
  /\ tun \in [Call -> Session \cup {None}] /\ id \in [Call -> Nat]
  /\ box \in [Call -> Msg \cup {None}] /\ answer \in [Call -> Msg \cup {None}]

\* A call has a request id, of the tunnel it looked up, and no other call has it.
Assigned ==
  /\ \A q \in Call : call[q] \in {"idle", "found"} => id[q] = 0
  /\ \A q \in Call : call[q] \in {"assigned", "wait", "late"} => id[q] # 0
  /\ \A q \in Call : call[q] = "found" => tun[q] \in Session
  /\ \A q \in Call : id[q] # 0 => tun[q] \in Session /\ id[q] <= seq[tun[q]]
  /\ \A q, r \in Call : id[q] # 0 /\ id[q] = id[r] /\ tun[q] = tun[r] => q = r

\* The pending map knows calls by their request ids, and none whose channel is closed.
Pending ==
  /\ \A s \in Session : \A x \in pending[s] :
       x[1] # 0 /\ id[x[2]] = x[1] /\ tun[x[2]] = s /\ x[2] \notin closed
  /\ \A q \in closed : id[q] # 0

\* An answer is to the call whose request id it has in the tunnel of that call.
Genuine(m) == m \in Answer /\ m.id # 0 /\ id[m.of] = m.id /\ tun[m.of] = m.over

AllGenuine(m) == \A i \in 1..Len(m) : m[i] = Register \/ Genuine(m[i])

Messages ==
  /\ \A s \in Session : AllGenuine(up[s])
  /\ \A s \in Session : \A i \in 1..Len(down[s]) : Genuine(down[s][i])

\* Sessions that are still to come have no handler.
Fresh == \A s \in Session : s > opened => handler[s] = "none"

\* A handler delivers an answer to a call with that request id in some tunnel.
Hands ==
  \A s \in Session : handler[s] \in {"find", "post"} =>
    /\ hand[s] \in HandRecord
    /\ hand[s].msg = Register \/ Genuine(hand[s].msg)
    /\ handler[s] = "post" => /\ hand[s].to \in Call /\ Genuine(hand[s].msg)
                              /\ id[hand[s].to] = hand[s].msg.id /\ tun[hand[s].to] = hand[s].tun

Boxes ==
  \A q \in Call :
    /\ box[q] # None => Genuine(box[q]) /\ box[q].id = id[q]
    /\ answer[q] # None => Genuine(answer[q]) /\ answer[q].id = id[q]

\* Where no handler has touched another's tunnel, what one is to use is open.
Own ==
  ~foreign => \A s \in Session :
                /\ handler[s] \in {"find", "post"} => hand[s].tun = s
                /\ handler[s] = "post" => hand[s].to \notin closed

Inv == /\ Types /\ Assigned /\ Pending /\ Messages /\ Fresh /\ Hands /\ Boxes /\ Own
       /\ NoDeadTunnel /\ PanicNeedsForeign

-----------------------------------------------------------------------------
\* The invariant holds initially.
LEMMA InitInv == Init => Inv
<1> SUFFICES ASSUME Init PROVE Inv
  OBVIOUS
<1> USE TunnelAssumption
<1>1. Types
  <2>1. <<>> \in Seq(Msg) /\ MaxSession \in Nat
    OBVIOUS
  <2>2. up \in [Session -> Seq(Msg)] /\ down \in [Session -> Seq(Msg)]
    BY <2>1 DEF Init
  <2>3. opened \in 0..MaxSession
    BY <2>1 DEF Init
  <2> QED
    BY <2>2, <2>3 DEF Init, Types
<1>2. Assigned /\ Pending /\ Boxes
  BY DEF Init, Assigned, Pending, Boxes
<1>3. Messages
  BY DEF Init, Messages, AllGenuine
<1>4. Fresh /\ Hands /\ Own
  BY DEF Init, Fresh, Hands, Own
<1> QED
  BY <1>1, <1>2, <1>3, <1>4 DEF Init, Inv, NoDeadTunnel, PanicNeedsForeign

-----------------------------------------------------------------------------
(* Types. *)

\* A registration is a message.
LEMMA RegisterType == Register \in Msg
  BY DEF Msg

\* Client and streams keep their types.
LEMMA NetworkTypes ==
  ASSUME Types, Next
  PROVE  /\ client' \in Session \cup {None} /\ opened' \in 0..MaxSession
         /\ up' \in [Session -> Seq(Msg)] /\ down' \in [Session -> Seq(Msg)]
<1> USE TunnelAssumption DEF Types, clientVars
<1>1. CASE Open
  <2>1. opened + 1 \in Session /\ opened' = opened + 1 /\ client' = opened + 1
    BY <1>1 DEF Open, Session
  <2>2. <<Register>> \in Seq(Msg)
    BY RegisterType
  <2> QED
    BY <1>1, <2>1, <2>2 DEF Open
<1>2. CASE HandleCommand
  <2>1. client \in Session /\ down[client] \in Seq(Msg) /\ down[client] # <<>>
    BY <1>2 DEF HandleCommand
  <2>2. Head(down[client]) \in Msg /\ Tail(down[client]) \in Seq(Msg)
    BY <2>1
  <2>3. Append(up[client], Head(down[client])) \in Seq(Msg)
    BY <2>1, <2>2
  <2> QED
    BY <1>2, <2>1, <2>2, <2>3 DEF HandleCommand
<1>3. CASE SessionEnds \/ ForceRebind
  BY <1>3 DEF SessionEnds, ForceRebind
<1>4. ASSUME NEW s \in Session, Break(s) \/ HandlerStep(s)
      PROVE  /\ client' \in Session \cup {None} /\ opened' \in 0..MaxSession
             /\ up' \in [Session -> Seq(Msg)] /\ down' \in [Session -> Seq(Msg)]
  <2>1. up[s] \in Seq(Msg) /\ (up[s] # <<>> => Tail(up[s]) \in Seq(Msg)) /\ <<>> \in Seq(Msg)
    OBVIOUS
  <2>2. CASE Break(s)
    BY <2>1, <2>2 DEF Break
  <2>3. CASE RegisterTunnel(s) \/ FindTunnel(s)
    <3>1. up' = [up EXCEPT ![s] = Tail(up[s])] /\ up[s] # <<>> /\ UNCHANGED <<client, opened, down>>
      BY <2>3 DEF RegisterTunnel, FindTunnel
    <3> QED
      BY <2>1, <3>1
  <2>4. CASE FindCall(s) \/ Post(s)
    <3>1. UNCHANGED clientVars
      BY <2>4 DEF FindCall, Post
    <3> QED
      BY <3>1
  <2>5. CASE StreamEnds(s)
    BY <2>1, <2>5 DEF StreamEnds
  <2> QED
    BY <1>4, <2>2, <2>3, <2>4, <2>5 DEF HandlerStep
<1>5. ASSUME NEW q \in Call, CallStep(q)
      PROVE  /\ client' \in Session \cup {None} /\ opened' \in 0..MaxSession
             /\ up' \in [Session -> Seq(Msg)] /\ down' \in [Session -> Seq(Msg)]
  <2>1. CASE Send(q)
    <3> DEFINE m == [id |-> id[q], over |-> tun[q], of |-> q]
    <3>1. CASE tun[q] \in Session
      <4>1. m \in Msg
        BY <3>1 DEF Msg, Answer
      <4> HIDE DEF m
      <4>2. Append(down[tun[q]], m) \in Seq(Msg)
        BY <3>1, <4>1
      <4> QED
        BY <2>1, <3>1, <4>2 DEF Send, m
    <3>2. CASE tun[q] \notin Session
      BY <2>1, <3>2 DEF Send
    <3> QED
      BY <3>1, <3>2
  <2>2. CASE ~Send(q)
    <3>1. UNCHANGED clientVars
      BY <1>5, <2>2 DEF CallStep, CallReturns, Lookup, Assign, SendFails, Receive, Timeout, Cancel, GraceEnds
    <3> QED
      BY <3>1
  <2> QED
    BY <2>1, <2>2
<1> QED
  BY <1>1, <1>2, <1>3, <1>4, <1>5 DEF Next

\* Handlers and what they hold keep their types.
LEMMA HandTypes ==
  ASSUME Types, Hands, Next
  PROVE  /\ handler' \in [Session -> {"none", "wait", "read", "find", "post", "gone"}]
         /\ hand' \in [Session -> HandRecord \cup {None}]
<1> USE DEF Types, HandRecord
<1>1. CASE Open
  BY <1>1 DEF Open
<1>2. ASSUME UNCHANGED <<handler, hand>>
      PROVE  /\ handler' \in [Session -> {"none", "wait", "read", "find", "post", "gone"}]
             /\ hand' \in [Session -> HandRecord \cup {None}]
  BY <1>2
<1>3. ASSUME NEW s \in Session, HandlerStep(s)
      PROVE  /\ handler' \in [Session -> {"none", "wait", "read", "find", "post", "gone"}]
             /\ hand' \in [Session -> HandRecord \cup {None}]
  <2> USE DEF At
  <2>1. CASE RegisterTunnel(s) \/ Post(s) \/ StreamEnds(s)
    BY <2>1 DEF RegisterTunnel, Post, StreamEnds
  <2>2. CASE FindTunnel(s)
    <3>1. up[s] \in Seq(Msg) /\ up[s] # <<>>
      BY <2>2 DEF FindTunnel
    <3>2. Head(up[s]) \in Msg
      BY <3>1
    <3> DEFINE r == [tun |-> hub, msg |-> Head(up[s]), to |-> None]
    <3>3. CASE hub = None /\ UNCHANGED <<handler, hand>>
      BY <3>3
    <3>4. CASE hub # None /\ At(s, "find") /\ hand' = [hand EXCEPT ![s] = r]
      <4>1. r \in HandRecord
        BY <3>2, <3>4
      <4> HIDE DEF r
      <4> QED
        BY <3>4, <4>1
    <3> QED
      BY <2>2, <3>3, <3>4 DEF FindTunnel
  <2>3. CASE FindCall(s)
    <3>1. handler' \in [Session -> {"none", "wait", "read", "find", "post", "gone"}]
      BY <2>3 DEF FindCall
    <3>2. hand[s] \in HandRecord
      BY <2>3 DEF FindCall, Hands
    <3>3. CASE hand' = [hand EXCEPT ![s] = None]
      BY <3>1, <3>3
    <3>4. ASSUME NEW x \in pending[hand[s].tun], hand' = [hand EXCEPT ![s].to = x[2]]
          PROVE  hand' \in [Session -> HandRecord \cup {None}]
      <4> DEFINE r == [hand[s] EXCEPT !.to = x[2]]
      <4>1. hand[s].tun \in Session /\ pending[hand[s].tun] \subseteq Nat \X Call
        BY <3>2
      <4>2. x[2] \in Call
        BY <4>1
      <4>3. r \in HandRecord
        BY <3>2, <4>2
      <4>4. hand' = [hand EXCEPT ![s] = r]
        BY <3>4
      <4> HIDE DEF r
      <4> QED
        BY <4>3, <4>4
    <3> QED
      BY <2>3, <3>1, <3>3, <3>4 DEF FindCall
  <2> QED
    BY <1>3, <2>1, <2>2, <2>3 DEF HandlerStep
<1> QED
  BY <1>1, <1>2, <1>3 DEF Next, HandleCommand, SessionEnds, ForceRebind, Break, CallStep, CallReturns, Lookup,
     Assign, Send, SendFails, Receive, Timeout, Cancel, GraceEnds

\* Calls and their request ids keep their types.
LEMMA CallTypes ==
  ASSUME Types, Assigned, Next
  PROVE  /\ seq' \in [Session -> Nat] /\ id' \in [Call -> Nat]
         /\ call' \in [Call -> {"idle", "found", "assigned", "wait", "late", "ok", "error"}]
         /\ tun' \in [Call -> Session \cup {None}]
<1> USE DEF Types
<1>1. ASSUME UNCHANGED callVars
      PROVE  /\ seq' \in [Session -> Nat] /\ id' \in [Call -> Nat]
             /\ call' \in [Call -> {"idle", "found", "assigned", "wait", "late", "ok", "error"}]
             /\ tun' \in [Call -> Session \cup {None}]
  BY <1>1 DEF callVars
<1>2. ASSUME NEW q \in Call, CallStep(q)
      PROVE  /\ seq' \in [Session -> Nat] /\ id' \in [Call -> Nat]
             /\ call' \in [Call -> {"idle", "found", "assigned", "wait", "late", "ok", "error"}]
             /\ tun' \in [Call -> Session \cup {None}]
  <2>1. CASE Assign(q)
    <3>1. tun[q] \in Session /\ seq[tun[q]] + 1 \in Nat
      BY <2>1 DEF Assign, Assigned
    <3> QED
      BY <2>1, <3>1 DEF Assign, Goto
  <2>2. CASE ~Assign(q)
    BY <1>2, <2>2 DEF CallStep, CallReturns, Lookup, Send, SendFails, Receive, Timeout, Cancel, GraceEnds, Goto
  <2> QED
    BY <2>1, <2>2
<1>3. (\A q \in Call : ~CallStep(q)) => UNCHANGED callVars
  BY DEF Next, Open, HandleCommand, SessionEnds, ForceRebind, Break, HandlerStep, RegisterTunnel, FindTunnel,
         FindCall, Post, StreamEnds
<1> QED
  BY <1>1, <1>2, <1>3

\* What happens to the pending map and to the hub's tunnel.
LEMMA PendingStep ==
  ASSUME Types, Assigned, Next
  PROVE  /\ pending' \in [Session -> SUBSET (Nat \X Call)]
         /\ \A s \in Session : \A x \in pending'[s] :
              x \in pending[s] \/ \E q \in Call : Assign(q) /\ s = tun[q] /\ x = <<seq[s] + 1, q>>
<1> DEFINE Goal == /\ pending' \in [Session -> SUBSET (Nat \X Call)]
                   /\ \A s \in Session : \A x \in pending'[s] :
                        x \in pending[s] \/ \E q \in Call : Assign(q) /\ s = tun[q] /\ x = <<seq[s] + 1, q>>
<1> SUFFICES Goal
  OBVIOUS
<1> USE DEF Types
<1>1. CASE UNCHANGED pending
  BY <1>1
<1>2. ASSUME NEW t, NEW X, X \subseteq pending[t], pending' = [pending EXCEPT ![t] = X] PROVE Goal
  BY <1>2
<1>3. ASSUME NEW q \in Call, CallStep(q) PROVE Goal
  <2>1. CASE Assign(q)
    <3>1. tun[q] \in Session /\ seq[tun[q]] + 1 \in Nat
      BY <2>1 DEF Assign, Assigned
    <3>2. pending' = [pending EXCEPT ![tun[q]] = pending[tun[q]] \cup {<<seq[tun[q]] + 1, q>>}]
      BY <2>1 DEF Assign
    <3>3. pending' \in [Session -> SUBSET (Nat \X Call)]
      BY <3>1, <3>2
    <3> QED
      BY <2>1, <3>1, <3>2, <3>3
  <2>2. CASE Forget(q)
    BY <1>2, <2>2 DEF Forget
  <2> QED
    BY <1>1, <1>3, <2>1, <2>2 DEF CallStep, CallReturns, Lookup, Send, SendFails, Receive, Timeout, Cancel, GraceEnds
<1>4. ASSUME NEW who, Unregister(who) PROVE Goal
  <2>1. CASE UNCHANGED pending
    BY <1>1, <2>1
  <2>2. CASE pending' = [pending EXCEPT ![hub] = {}]
    BY <1>2, <2>2
  <2> QED
    BY <1>4, <2>1, <2>2 DEF Unregister
<1> HIDE DEF Goal
<1>5. CASE Open \/ HandleCommand \/ SessionEnds \/ \E s \in Session : Break(s)
  BY <1>1, <1>5 DEF Open, HandleCommand, SessionEnds, Break
<1>6. CASE ForceRebind
  BY <1>4, <1>6 DEF ForceRebind
<1>7. ASSUME NEW s \in Session, HandlerStep(s) PROVE Goal
  BY <1>1, <1>4, <1>7 DEF HandlerStep, RegisterTunnel, FindTunnel, FindCall, Post, StreamEnds
<1> QED
  BY <1>3, <1>5, <1>6, <1>7 DEF Next

\* The hub keeps its types.
LEMMA HubTypes ==
  ASSUME Types, Next
  PROVE  /\ hub' \in Session \cup {None} /\ foreign' \in BOOLEAN /\ closed' \in SUBSET Call
<1> USE DEF Types, hubVars
<1>1. ASSUME NEW who, Unregister(who)
      PROVE  hub' \in Session \cup {None} /\ foreign' \in BOOLEAN /\ closed' \in SUBSET Call
  <2>1. hub # None => {x[2] : x \in pending[hub]} \subseteq Call
    <3>1. hub # None => pending[hub] \subseteq Nat \X Call
      OBVIOUS
    <3> QED
      BY <3>1
  <2>2. hub' \in Session \cup {None} /\ closed' \in SUBSET Call
    BY <1>1, <2>1 DEF Unregister
  <2>3. foreign' \in BOOLEAN
    BY <1>1 DEF Unregister
  <2> QED
    BY <2>2, <2>3
<1>2. ASSUME NEW s \in Session, HandlerStep(s)
      PROVE  hub' \in Session \cup {None} /\ foreign' \in BOOLEAN /\ closed' \in SUBSET Call
  BY <1>1, <1>2 DEF HandlerStep, RegisterTunnel, FindTunnel, FindCall, Post, StreamEnds
<1>3. CASE ForceRebind
  BY <1>1, <1>3 DEF ForceRebind
<1>4. ASSUME UNCHANGED <<hub, foreign, closed>>
      PROVE  hub' \in Session \cup {None} /\ foreign' \in BOOLEAN /\ closed' \in SUBSET Call
  BY <1>4
<1> QED
  BY <1>2, <1>3, <1>4 DEF Next, Open, HandleCommand, SessionEnds, Break, CallStep, CallReturns, Lookup,
     Assign, Send, SendFails, Receive, Timeout, Cancel, GraceEnds

\* Channels and answers keep their types.
LEMMA BoxTypes ==
  ASSUME Types, Hands, Next
  PROVE  box' \in [Call -> Msg \cup {None}] /\ answer' \in [Call -> Msg \cup {None}]
<1> USE DEF Types, callVars
<1>1. ASSUME NEW s \in Session, Post(s)
      PROVE  box' \in [Call -> Msg \cup {None}] /\ answer' \in [Call -> Msg \cup {None}]
  <2>1. hand[s].msg \in Msg
    BY <1>1 DEF Post, Hands, HandRecord
  <2> QED
    BY <1>1, <2>1 DEF Post
<1>2. ASSUME NEW q \in Call, Receive(q) \/ GraceEnds(q)
      PROVE  box' \in [Call -> Msg \cup {None}] /\ answer' \in [Call -> Msg \cup {None}]
  BY <1>2 DEF Receive, GraceEnds
<1>3. ASSUME UNCHANGED <<box, answer>>
      PROVE  box' \in [Call -> Msg \cup {None}] /\ answer' \in [Call -> Msg \cup {None}]
  BY <1>3
<1> QED
  BY <1>1, <1>2, <1>3 DEF Next, Open, HandleCommand, SessionEnds, ForceRebind, Break, HandlerStep, RegisterTunnel,
     FindTunnel, FindCall, StreamEnds, CallStep, CallReturns, Lookup, Assign, Send, SendFails, Timeout, Cancel

\* Every step keeps the types.
LEMMA NextTypes ==
  ASSUME Types, Assigned, Hands, Next
  PROVE  Types'
  BY NetworkTypes, HandTypes, CallTypes, PendingStep, HubTypes, BoxTypes DEF Types

-----------------------------------------------------------------------------
(* Request ids. *)

\* A request id and its tunnel are given once.
LEMMA Kept ==
  ASSUME Types, Assigned, Next
  PROVE  \A q \in Call : id[q] # 0 => id'[q] = id[q] /\ tun'[q] = tun[q] /\ call[q] \notin {"idle", "found"}
<1> USE DEF Types, Assigned
<1>1. ASSUME NEW q \in Call, CallStep(q)
      PROVE  \A r \in Call : id[r] # 0 => id'[r] = id[r] /\ tun'[r] = tun[r]
  BY <1>1 DEF CallStep, CallReturns, Lookup, Assign, Send, SendFails, Receive, Timeout, Cancel, GraceEnds
<1>2. CASE UNCHANGED callVars
  BY <1>2 DEF callVars
<1> QED
  BY <1>1, <1>2 DEF Next, Open, HandleCommand, SessionEnds, ForceRebind, Break, HandlerStep, RegisterTunnel,
     FindTunnel, FindCall, Post, StreamEnds

\* A new request id is one the tunnel has not given before.
LEMMA NextAssigned ==
  ASSUME Types, Assigned, Next
  PROVE  Assigned'
<1>1. CASE UNCHANGED callVars
  BY <1>1 DEF callVars, Assigned
<1>2. ASSUME NEW q \in Call, CallStep(q)
      PROVE  Assigned'
  <2>1. CASE Assign(q)
    <3> DEFINE t == tun[q]
               n == seq[t] + 1
    <3>1. call[q] = "found" /\ t \in Session /\ seq[t] \in Nat /\ UNCHANGED tun
      BY <2>1 DEF Assign, Types, Assigned
    <3>2. /\ call' = [call EXCEPT ![q] = "assigned"] /\ id' = [id EXCEPT ![q] = n]
          /\ seq' = [seq EXCEPT ![t] = n]
      BY <2>1 DEF Assign, Goto
    <3>3. \A r \in Call : id[r] \in Nat /\ (id[r] # 0 /\ tun[r] = t => id[r] < n)
      BY <3>1 DEF Types, Assigned
    <3>4. /\ id'[q] = n /\ n # 0 /\ n \in Nat /\ call'[q] = "assigned" /\ seq'[t] = n
          /\ \A r \in Call : r # q => id'[r] = id[r] /\ call'[r] = call[r]
          /\ \A s \in Session : s # t => seq'[s] = seq[s]
      BY <3>1, <3>2 DEF Types
    <3> HIDE DEF n
    <3>5. \A r \in Call : id'[r] # 0 => tun'[r] \in Session /\ id'[r] <= seq'[tun'[r]]
      <4>1. ASSUME NEW r \in Call, id'[r] # 0
            PROVE  tun'[r] \in Session /\ id'[r] <= seq'[tun'[r]]
        <5>1. CASE r = q
          BY <3>1, <3>4, <5>1
        <5>2. CASE r # q
          <6>1. id[r] # 0 /\ tun[r] \in Session /\ id[r] <= seq[tun[r]]
            BY <3>4, <4>1, <5>2 DEF Assigned
          <6> QED
            BY <3>1, <3>3, <3>4, <5>2, <6>1
        <5> QED
          BY <5>1, <5>2
      <4> QED
        BY <4>1
    <3>6. \A r, u \in Call : id'[r] # 0 /\ id'[r] = id'[u] /\ tun'[r] = tun'[u] => r = u
      BY <3>1, <3>3, <3>4 DEF Assigned
    <3> QED
      BY <3>1, <3>4, <3>5, <3>6 DEF Assigned
  <2>2. CASE Lookup(q)
    BY <2>2 DEF Lookup, Goto, Types, Assigned
  <2>3. CASE ~Assign(q) /\ ~Lookup(q)
    BY <1>2, <2>3 DEF CallStep, CallReturns, Send, SendFails, Receive, Timeout, Cancel, GraceEnds, Goto, Types, Assigned
  <2> QED
    BY <2>1, <2>2, <2>3
<1> QED
  BY <1>1, <1>2 DEF Next, Open, HandleCommand, SessionEnds, ForceRebind, Break, HandlerStep, RegisterTunnel,
     FindTunnel, FindCall, Post, StreamEnds

\* Genuine, of the state after the step.
GenuineNext(m) == m \in Answer /\ m.id # 0 /\ id'[m.of] = m.id /\ tun'[m.of] = m.over

\* A genuine answer stays genuine.
LEMMA GenuineKept ==
  ASSUME Types, Assigned, Next
  PROVE  \A m : Genuine(m) => GenuineNext(m)
<1>1. ASSUME NEW m, Genuine(m) PROVE GenuineNext(m)
  <2>1. m.of \in Call /\ m \in Answer /\ id[m.of] # 0
    BY <1>1 DEF Genuine, Answer
  <2>2. id'[m.of] = id[m.of] /\ tun'[m.of] = tun[m.of]
    BY <2>1, Kept
  <2> QED
    BY <1>1, <2>2 DEF Genuine, GenuineNext
<1> QED
  BY <1>1

-----------------------------------------------------------------------------
(* Messages. *)

\* The elements of a sequence without its first.
LEMMA TailElements ==
  ASSUME NEW S, NEW m \in Seq(S), m # <<>>
  PROVE  /\ Head(m) = m[1] /\ 1 \in 1..Len(m)
         /\ \A i \in 1..Len(Tail(m)) : i + 1 \in 1..Len(m) /\ Tail(m)[i] = m[i + 1]
  OBVIOUS

\* The elements of a sequence with one more.
LEMMA AppendElements ==
  ASSUME NEW S, NEW m \in Seq(S), NEW x \in S
  PROVE  \A i \in 1..Len(Append(m, x)) : Append(m, x)[i] = x \/ (i \in 1..Len(m) /\ Append(m, x)[i] = m[i])
  OBVIOUS

\* A command under way is one that was, or one that is sent.
LEMMA DownElements ==
  ASSUME Types, Next
  PROVE  \A s \in Session : \A i \in 1..Len(down'[s]) :
           \/ \E j \in 1..Len(down[s]) : down'[s][i] = down[s][j]
           \/ \E q \in Call : call[q] = "assigned" /\ s = tun[q] /\ down'[s][i] = [id |-> id[q], over |-> s, of |-> q]
<1> DEFINE Goal == \A s \in Session : \A i \in 1..Len(down'[s]) :
           \/ \E j \in 1..Len(down[s]) : down'[s][i] = down[s][j]
           \/ \E q \in Call : call[q] = "assigned" /\ s = tun[q] /\ down'[s][i] = [id |-> id[q], over |-> s, of |-> q]
<1> SUFFICES Goal
  OBVIOUS
<1>1. CASE UNCHANGED down
  BY <1>1
<1>2. CASE HandleCommand
  <2>1. /\ client \in Session /\ down[client] # <<>> /\ down[client] \in Seq(Msg)
        /\ down' = [down EXCEPT ![client] = Tail(down[client])]
    BY <1>2 DEF HandleCommand, Types
  <2>2. \A i \in 1..Len(Tail(down[client])) : i + 1 \in 1..Len(down[client]) /\ Tail(down[client])[i] = down[client][i + 1]
    BY <2>1, TailElements
  <2> QED
    BY <2>1, <2>2 DEF Types
<1>3. ASSUME NEW s \in Session, Break(s) PROVE Goal
  <2>1. down' = [down EXCEPT ![s] = <<>>] /\ Len(<<>>) = 0
    BY <1>3 DEF Break
  <2> QED
    BY <2>1 DEF Types
<1>4. ASSUME NEW q \in Call, Send(q), ~UNCHANGED down PROVE Goal
  <2> DEFINE t == tun[q]
             m == [id |-> id[q], over |-> t, of |-> q]
  <2>1. call[q] = "assigned" /\ down' = [down EXCEPT ![t] = Append(down[t], m)]
    BY <1>4 DEF Send
  <2>2. t \in Session
    BY <1>4, <2>1 DEF Types
  <2>3. m \in Msg /\ down[t] \in Seq(Msg)
    BY <2>2 DEF Types, Msg, Answer
  <2>4. \A i \in 1..Len(Append(down[t], m)) :
          Append(down[t], m)[i] = m \/ (i \in 1..Len(down[t]) /\ Append(down[t], m)[i] = down[t][i])
    <3> HIDE DEF m
    <3> QED
      BY <2>3, AppendElements
  <2>5. down'[t] = Append(down[t], m) /\ \A s \in Session : s # t => down'[s] = down[s]
    BY <2>1, <2>2 DEF Types
  <2>6. ASSUME NEW s \in Session, NEW i \in 1..Len(down'[s])
        PROVE  \/ \E j \in 1..Len(down[s]) : down'[s][i] = down[s][j]
               \/ s = t /\ down'[s][i] = m
    <3> HIDE DEF m
    <3> QED
      BY <2>4, <2>5
  <2> QED
    BY <2>1, <2>6
<1> HIDE DEF Goal
<1> QED
  BY <1>1, <1>2, <1>3, <1>4 DEF Next, Open, SessionEnds, ForceRebind, HandlerStep, RegisterTunnel, FindTunnel,
     FindCall, Post, StreamEnds, CallStep, CallReturns, Lookup, Assign, SendFails, Receive, Timeout, Cancel,
     GraceEnds, clientVars

\* An answer under way is one that was, or one to a command that has come.
LEMMA UpElements ==
  ASSUME Types, Next
  PROVE  \A s \in Session : \A i \in 1..Len(up'[s]) :
           \/ up'[s][i] = Register
           \/ \E j \in 1..Len(up[s]) : up'[s][i] = up[s][j]
           \/ 1 \in 1..Len(down[s]) /\ up'[s][i] = down[s][1]
<1> DEFINE Goal == \A s \in Session : \A i \in 1..Len(up'[s]) :
           \/ up'[s][i] = Register
           \/ \E j \in 1..Len(up[s]) : up'[s][i] = up[s][j]
           \/ 1 \in 1..Len(down[s]) /\ up'[s][i] = down[s][1]
<1> SUFFICES Goal
  OBVIOUS
<1>1. CASE UNCHANGED up
  BY <1>1
<1>2. CASE HandleCommand
  <2> DEFINE m == Head(down[client])
  <2>1. /\ client \in Session /\ down[client] # <<>> /\ down[client] \in Seq(Msg) /\ up[client] \in Seq(Msg)
        /\ up' = [up EXCEPT ![client] = Append(up[client], m)]
    BY <1>2 DEF HandleCommand, Types
  <2>2. m \in Msg /\ m = down[client][1] /\ 1 \in 1..Len(down[client])
    BY <2>1, TailElements
  <2> HIDE DEF m
  <2>3. \A i \in 1..Len(Append(up[client], m)) :
          Append(up[client], m)[i] = m \/ (i \in 1..Len(up[client]) /\ Append(up[client], m)[i] = up[client][i])
    BY <2>1, <2>2, AppendElements
  <2>4. up'[client] = Append(up[client], m) /\ \A s \in Session : s # client => up'[s] = up[s]
    BY <2>1 DEF Types
  <2> QED
    BY <2>2, <2>3, <2>4
<1>3. CASE Open
  <2>1. up' = [up EXCEPT ![opened + 1] = <<Register>>]
    BY <1>3 DEF Open
  <2>2. \A i \in 1..Len(<<Register>>) : <<Register>>[i] = Register
    OBVIOUS
  <2> QED
    BY <2>1, <2>2 DEF Types
<1>4. ASSUME NEW s \in Session, RegisterTunnel(s) \/ FindTunnel(s) PROVE Goal
  <2>1. up[s] # <<>> /\ up[s] \in Seq(Msg) /\ up' = [up EXCEPT ![s] = Tail(up[s])]
    BY <1>4 DEF RegisterTunnel, FindTunnel, Types
  <2>2. \A i \in 1..Len(Tail(up[s])) : i + 1 \in 1..Len(up[s]) /\ Tail(up[s])[i] = up[s][i + 1]
    BY <2>1, TailElements
  <2> QED
    BY <2>1, <2>2 DEF Types
<1>5. ASSUME NEW s \in Session, StreamEnds(s) PROVE Goal
  <2>1. up' = [up EXCEPT ![s] = <<>>] /\ Len(<<>>) = 0
    BY <1>5 DEF StreamEnds
  <2> QED
    BY <2>1 DEF Types
<1> HIDE DEF Goal
<1> QED
  BY <1>1, <1>2, <1>3, <1>4, <1>5 DEF Next, Break, SessionEnds, ForceRebind, HandlerStep, FindCall, Post,
     CallStep, CallReturns, Lookup, Assign, Send, SendFails, Receive, Timeout, Cancel, GraceEnds, clientVars

\* Whatever is under way is genuine.
LEMMA NextMessages ==
  ASSUME Types, Assigned, Messages, Next
  PROVE  Messages'
<1>1. ASSUME NEW s \in Session, NEW i \in 1..Len(down'[s]) PROVE GenuineNext(down'[s][i])
  <2>1. CASE \E j \in 1..Len(down[s]) : down'[s][i] = down[s][j]
    BY <2>1, GenuineKept DEF Messages
  <2>2. ASSUME NEW q \in Call, call[q] = "assigned", s = tun[q],
               down'[s][i] = [id |-> id[q], over |-> s, of |-> q]
        PROVE  Genuine(down'[s][i])
    <3>1. id[q] # 0 /\ id[q] \in Nat
      BY <2>2 DEF Assigned, Types
    <3> QED
      BY <2>2, <3>1 DEF Genuine, Answer
  <2> QED
    BY <2>1, <2>2, DownElements, GenuineKept
<1>2. ASSUME NEW s \in Session, NEW i \in 1..Len(up'[s])
      PROVE  up'[s][i] = Register \/ GenuineNext(up'[s][i])
  BY UpElements, GenuineKept DEF Messages, AllGenuine
<1> QED
  BY <1>1, <1>2 DEF Messages, AllGenuine, Genuine, GenuineNext

-----------------------------------------------------------------------------
(* The hub and the handlers. *)

\* The channels that are closed are those of the calls that waited on the tunnel.
LEMMA ClosedStep ==
  ASSUME Next
  PROVE  \/ UNCHANGED closed
         \/ /\ hub # None /\ closed' = closed \cup {x[2] : x \in pending[hub]}
            /\ pending' = [pending EXCEPT ![hub] = {}] /\ UNCHANGED callVars
  BY DEF Next, Open, HandleCommand, SessionEnds, ForceRebind, Break, HandlerStep, RegisterTunnel, FindTunnel,
     FindCall, Post, StreamEnds, Unregister, hubVars,
     CallStep, CallReturns, Lookup, Assign, Send, SendFails, Receive, Timeout, Cancel, GraceEnds

\* A call that waits is not closed, unless it stops waiting with that.
LEMMA NextPending ==
  ASSUME Types, Assigned, Pending, Next
  PROVE  Pending'
<1>1. \A s \in Session : \A x \in pending'[s] : x[1] # 0 /\ x[2] \in Call /\ id'[x[2]] = x[1] /\ tun'[x[2]] = s
  <2>1. ASSUME NEW s \in Session, NEW x \in pending[s]
        PROVE  x[1] # 0 /\ x[2] \in Call /\ id'[x[2]] = x[1] /\ tun'[x[2]] = s
    <3>1. x[1] # 0 /\ x[2] \in Call /\ id[x[2]] = x[1] /\ tun[x[2]] = s
      BY DEF Types, Pending
    <3> QED
      BY <3>1, Kept
  <2>2. ASSUME NEW q \in Call, Assign(q)
        PROVE  seq[tun[q]] + 1 # 0 /\ id'[q] = seq[tun[q]] + 1 /\ tun'[q] = tun[q]
    <3>1. tun[q] \in Session /\ seq[tun[q]] \in Nat
      BY <2>2 DEF Assign, Assigned, Types
    <3> QED
      BY <2>2, <3>1 DEF Assign, Types
  <2> QED
    BY <2>1, <2>2, PendingStep
<1>2. CASE UNCHANGED closed
  <2>1. \A q \in closed : id'[q] # 0
    BY Kept DEF Types, Pending
  <2>2. \A s \in Session : \A x \in pending'[s] : x[2] \notin closed
    <3>1. ASSUME NEW q \in Call, Assign(q) PROVE q \notin closed
      BY <3>1 DEF Assign, Assigned, Pending
    <3> QED
      BY <3>1, PendingStep DEF Pending
  <2> QED
    BY <1>1, <1>2, <2>1, <2>2 DEF Pending
<1>3. CASE /\ hub # None /\ closed' = closed \cup {x[2] : x \in pending[hub]}
           /\ pending' = [pending EXCEPT ![hub] = {}] /\ UNCHANGED callVars
  <2>1. hub \in Session
    BY <1>3 DEF Types
  <2>2. \A q \in closed' : id'[q] # 0
    BY <1>3, <2>1 DEF callVars, Pending, Types
  <2>3. \A s \in Session : pending'[s] = IF s = hub THEN {} ELSE pending[s]
    BY <1>3, <2>1 DEF Types
  <2>4. \A s \in Session : \A x \in pending'[s] : x[2] \notin closed'
    BY <1>3, <2>1, <2>3 DEF Pending
  <2> QED
    BY <1>1, <2>2, <2>4 DEF Pending
<1> QED
  BY <1>2, <1>3, ClosedStep

\* A session without a stream has no handler.
LEMMA NextFresh ==
  ASSUME Types, Fresh, Next
  PROVE  Fresh'
<1>1. opened \in Nat /\ \A s \in Session : s \in Nat
  BY TunnelAssumption DEF Types, Session
<1>2. CASE Open
  BY <1>1, <1>2 DEF Open, Fresh, Types
<1>3. ASSUME NEW s \in Session, HandlerStep(s), UNCHANGED opened PROVE Fresh'
  BY <1>1, <1>3 DEF HandlerStep, RegisterTunnel, FindTunnel, FindCall, Post, StreamEnds, At, Fresh, Types
<1>4. CASE UNCHANGED <<opened, handler>>
  BY <1>4 DEF Fresh
<1> QED
  BY <1>2, <1>3, <1>4 DEF Next, HandleCommand, SessionEnds, ForceRebind, Break, HandlerStep, RegisterTunnel,
     FindTunnel, FindCall, Post, StreamEnds, clientVars,
     CallStep, CallReturns, Lookup, Assign, Send, SendFails, Receive, Timeout, Cancel, GraceEnds

\* What a handler has after a step is what it had, or what it has found.
LEMMA HandStep ==
  ASSUME Types, Fresh, Hands, Next, NEW s \in Session, handler'[s] \in {"find", "post"}
  PROVE  \/ hand'[s] = hand[s] /\ handler'[s] = handler[s]
         \/ /\ FindTunnel(s) /\ hub # None /\ up[s] # <<>> /\ handler'[s] = "find"
            /\ hand'[s] = [tun |-> hub, msg |-> Head(up[s]), to |-> None]
         \/ /\ FindCall(s) /\ handler[s] = "find" /\ handler'[s] = "post" /\ hand'[s] \in HandRecord
            /\ hand'[s].tun = hand[s].tun /\ hand'[s].msg = hand[s].msg
            /\ \E x \in pending[hand[s].tun] : x[1] = hand[s].msg.id /\ hand'[s].to = x[2]
<1> DEFINE Goal ==
      \/ hand'[s] = hand[s] /\ handler'[s] = handler[s]
      \/ /\ FindTunnel(s) /\ hub # None /\ up[s] # <<>> /\ handler'[s] = "find"
         /\ hand'[s] = [tun |-> hub, msg |-> Head(up[s]), to |-> None]
      \/ /\ FindCall(s) /\ handler[s] = "find" /\ handler'[s] = "post" /\ hand'[s] \in HandRecord
         /\ hand'[s].tun = hand[s].tun /\ hand'[s].msg = hand[s].msg
         /\ \E x \in pending[hand[s].tun] : x[1] = hand[s].msg.id /\ hand'[s].to = x[2]
<1> SUFFICES Goal
  OBVIOUS
<1>1. CASE Open
  BY <1>1 DEF Open, Types
<1>2. CASE RegisterTunnel(s) \/ Post(s) \/ StreamEnds(s)
  BY <1>2 DEF RegisterTunnel, Post, StreamEnds, At, Types
<1>3. CASE FindTunnel(s)
  <2>1. CASE hub = None
    BY <1>3, <2>1 DEF FindTunnel
  <2>2. CASE hub # None
    BY <1>3, <2>2 DEF FindTunnel, At, Types
  <2> QED
    BY <2>1, <2>2
<1>4. CASE FindCall(s)
  <2>1. handler[s] = "find" /\ hand[s] \in HandRecord
    BY <1>4 DEF FindCall, Hands
  <2>2. CASE At(s, "read")
    BY <2>2 DEF At, Types
  <2>3. ASSUME NEW x \in pending[hand[s].tun], x[1] = hand[s].msg.id,
               At(s, "post"), hand' = [hand EXCEPT ![s].to = x[2]]
        PROVE  Goal
    <3>1. handler'[s] = "post"
      BY <2>3 DEF At, Types
    <3>2. hand'[s] = [hand[s] EXCEPT !.to = x[2]]
      BY <2>3 DEF Types
    <3>3. hand[s].tun \in Session /\ pending[hand[s].tun] \subseteq Nat \X Call
      BY <2>1 DEF HandRecord, Types
    <3>4. x[2] \in Call
      BY <3>3
    <3>5. /\ hand'[s].tun = hand[s].tun /\ hand'[s].msg = hand[s].msg /\ hand'[s].to = x[2]
          /\ hand'[s] \in HandRecord
      BY <2>1, <3>2, <3>4 DEF HandRecord
    <3> QED
      BY <1>4, <2>1, <2>3, <3>1, <3>5
  <2> QED
    BY <1>4, <2>2, <2>3 DEF FindCall
<1>5. ASSUME NEW t \in Session, t # s, HandlerStep(t) PROVE Goal
  BY <1>5 DEF HandlerStep, RegisterTunnel, FindTunnel, FindCall, Post, StreamEnds, At, Types
<1>6. CASE UNCHANGED <<handler, hand>>
  BY <1>6
<1> HIDE DEF Goal
<1>7. ASSUME NEW t \in Session, HandlerStep(t) PROVE Goal
  BY <1>2, <1>3, <1>4, <1>5, <1>7 DEF HandlerStep
<1> QED
  BY <1>1, <1>6, <1>7 DEF Next, HandleCommand, SessionEnds, ForceRebind, Break, CallStep, CallReturns, Lookup,
     Assign, Send, SendFails, Receive, Timeout, Cancel, GraceEnds

\* What a handler reads is genuine, and it finds the call that the answer is to.
LEMMA NextHands ==
  ASSUME Types, Assigned, Pending, Messages, Fresh, Hands, Next
  PROVE  Hands'
<1> SUFFICES ASSUME NEW s \in Session, handler'[s] \in {"find", "post"}
             PROVE  /\ hand'[s] \in HandRecord
                    /\ hand'[s].msg = Register \/ GenuineNext(hand'[s].msg)
                    /\ handler'[s] = "post" => /\ hand'[s].to \in Call /\ GenuineNext(hand'[s].msg)
                                               /\ id'[hand'[s].to] = hand'[s].msg.id
                                               /\ tun'[hand'[s].to] = hand'[s].tun
  BY DEF Hands, Genuine, GenuineNext, HandRecord
<1>1. CASE hand'[s] = hand[s] /\ handler'[s] = handler[s]
  <2>1. hand[s] \in HandRecord /\ (hand[s].msg = Register \/ Genuine(hand[s].msg))
    BY <1>1 DEF Hands
  <2>2. handler[s] = "post" => /\ hand[s].to \in Call /\ Genuine(hand[s].msg) /\ id[hand[s].to] # 0
                               /\ id[hand[s].to] = hand[s].msg.id /\ tun[hand[s].to] = hand[s].tun
    BY <1>1 DEF Hands, Genuine
  <2> QED
    BY <1>1, <2>1, <2>2, GenuineKept, Kept
<1>2. CASE FindTunnel(s) /\ hub # None /\ up[s] # <<>> /\ handler'[s] = "find"
           /\ hand'[s] = [tun |-> hub, msg |-> Head(up[s]), to |-> None]
  <2>1. up[s] \in Seq(Msg) /\ hub \in Session
    BY <1>2 DEF Types
  <2>2. Head(up[s]) = up[s][1] /\ 1 \in 1..Len(up[s]) /\ Head(up[s]) \in Msg
    BY <1>2, <2>1, TailElements
  <2>3. Head(up[s]) = Register \/ Genuine(Head(up[s]))
    BY <2>2 DEF Messages, AllGenuine
  <2>4. hand'[s] \in HandRecord /\ hand'[s].msg = Head(up[s])
    BY <1>2, <2>1, <2>2 DEF HandRecord
  <2> QED
    BY <1>2, <2>3, <2>4, GenuineKept
<1>3. ASSUME handler[s] = "find", hand'[s] \in HandRecord,
             hand'[s].tun = hand[s].tun, hand'[s].msg = hand[s].msg,
             NEW x \in pending[hand[s].tun], x[1] = hand[s].msg.id, hand'[s].to = x[2]
      PROVE  /\ hand'[s].msg = Register \/ GenuineNext(hand'[s].msg)
             /\ hand'[s].to \in Call /\ GenuineNext(hand'[s].msg)
             /\ id'[hand'[s].to] = hand'[s].msg.id /\ tun'[hand'[s].to] = hand'[s].tun
  <2>1. hand[s].tun \in Session /\ (hand[s].msg = Register \/ Genuine(hand[s].msg))
    BY <1>3 DEF Hands, HandRecord
  <2>2. x[1] # 0 /\ x[2] \in Call /\ id[x[2]] = x[1] /\ tun[x[2]] = hand[s].tun
    BY <2>1 DEF Pending, Types
  <2>3. Genuine(hand[s].msg)
    BY <1>3, <2>1, <2>2 DEF Register
  <2>4. id'[x[2]] = id[x[2]] /\ tun'[x[2]] = tun[x[2]]
    BY <2>2, Kept
  <2>5. GenuineNext(hand[s].msg)
    BY <2>3, GenuineKept
  <2> QED
    BY <1>3, <2>2, <2>4, <2>5
<1> QED
  BY <1>1, <1>2, <1>3, HandStep

\* A box has what a handler has delivered, and an answer what was in the box.
LEMMA NextBoxes ==
  ASSUME Types, Assigned, Hands, Boxes, Next
  PROVE  Boxes'
<1> DEFINE Fits(m, q) == m # None => Genuine(m) /\ m.id = id[q]
           FitsNext(m, q) == m # None => GenuineNext(m) /\ m.id = id'[q]
<1>1. \A q \in Call : Fits(box[q], q) /\ Fits(answer[q], q)
  BY DEF Boxes
<1>2. ASSUME NEW m, NEW q \in Call, Fits(m, q) PROVE FitsNext(m, q)
  <2>1. CASE m # None
    <3>1. Genuine(m) /\ m.id = id[q] /\ id[q] # 0
      BY <1>2, <2>1 DEF Genuine
    <3>2. GenuineNext(m) /\ id'[q] = id[q]
      BY <3>1, GenuineKept, Kept
    <3> QED
      BY <3>1, <3>2
  <2> QED
    BY <2>1
<1>3. \A q \in Call : FitsNext(box'[q], q) /\ FitsNext(answer'[q], q)
  <2>1. ASSUME NEW s \in Session, Post(s)
        PROVE  \A q \in Call : Fits(box'[q], q) /\ Fits(answer'[q], q)
    <3>1. /\ hand[s].to \in Call /\ Genuine(hand[s].msg) /\ id[hand[s].to] = hand[s].msg.id
          /\ UNCHANGED answer
      BY <2>1 DEF Post, Hands, callVars
    <3>2. \A q \in Call : box'[q] = box[q] \/ (q = hand[s].to /\ box'[q] = hand[s].msg)
      BY <2>1, <3>1 DEF Post, Types
    <3> QED
      BY <1>1, <3>1, <3>2
  <2>2. ASSUME NEW r \in Call, Receive(r) \/ GraceEnds(r)
        PROVE  \A q \in Call : Fits(box'[q], q) /\ Fits(answer'[q], q)
    <3>1. \A q \in Call : /\ box'[q] \in {box[q], None}
                          /\ answer'[q] \in {answer[q], box[q]}
      BY <2>2 DEF Receive, GraceEnds, Types
    <3> QED
      BY <1>1, <3>1
  <2>3. CASE UNCHANGED <<box, answer>>
    BY <1>1, <1>2, <2>3
  <2> HIDE DEF Fits, FitsNext
  <2>4. (\A q \in Call : Fits(box'[q], q) /\ Fits(answer'[q], q)) =>
           \A q \in Call : FitsNext(box'[q], q) /\ FitsNext(answer'[q], q)
    BY <1>2
  <2> QED
    BY <2>1, <2>2, <2>3, <2>4 DEF Next, Open, HandleCommand, SessionEnds, ForceRebind, Break, HandlerStep, RegisterTunnel,
     FindTunnel, FindCall, StreamEnds, CallStep, CallReturns, Lookup, Assign, Send, SendFails, Timeout, Cancel, callVars
<1> QED
  BY <1>3 DEF Boxes, Genuine, GenuineNext

\* Only a handler that unregisters its own tunnel closes a channel unless a foreign
\* hand has been on a tunnel.
LEMMA OwnClosedStep ==
  ASSUME Types, Next, ~foreign'
  PROVE  /\ ~foreign
         /\ \/ UNCHANGED closed
            \/ /\ hub \in Session /\ handler[hub] = "read" /\ closed' = closed \cup {x[2] : x \in pending[hub]}
               /\ UNCHANGED <<hand, callVars>> /\ handler' = [handler EXCEPT ![hub] = "gone"]
<1> DEFINE Goal ==
      /\ ~foreign
      /\ \/ UNCHANGED closed
         \/ /\ hub \in Session /\ handler[hub] = "read" /\ closed' = closed \cup {x[2] : x \in pending[hub]}
            /\ UNCHANGED <<hand, callVars>> /\ handler' = [handler EXCEPT ![hub] = "gone"]
<1> SUFFICES Goal
  OBVIOUS
<1> USE DEF Types
<1>1. CASE ForceRebind
  <2>1. hub # None /\ hub # None => (~foreign' => FALSE)
    BY <1>1 DEF ForceRebind, Unregister
  <2> QED
    BY <1>1, <2>1 DEF ForceRebind
<1>2. ASSUME NEW s \in Session, StreamEnds(s) PROVE Goal
  <2>1. CASE handler[s] = "read" /\ hub # None
    <3>1. /\ closed' = closed \cup {x[2] : x \in pending[hub]} /\ foreign' = (foreign \/ s # hub)
          /\ UNCHANGED <<hand, callVars>> /\ handler' = [handler EXCEPT ![s] = "gone"]
      BY <1>2, <2>1 DEF StreamEnds, Unregister, At
    <3>2. s = hub /\ ~foreign
      BY <3>1
    <3> QED
      BY <2>1, <3>1, <3>2
  <2>2. CASE ~(handler[s] = "read" /\ hub # None)
    BY <1>2, <2>2 DEF StreamEnds, Unregister
  <2> QED
    BY <2>1, <2>2
<1>3. ASSUME NEW s \in Session, FindTunnel(s) PROVE Goal
  BY <1>3 DEF FindTunnel
<1>4. CASE UNCHANGED <<closed, foreign>>
  BY <1>4
<1> HIDE DEF Goal
<1> QED
  BY <1>1, <1>2, <1>3, <1>4 DEF Next, Open, HandleCommand, SessionEnds, Break, HandlerStep, RegisterTunnel,
     FindCall, Post, hubVars, CallStep, CallReturns, Lookup, Assign, Send, SendFails, Receive, Timeout, Cancel, GraceEnds

\* A handler that keeps to its own tunnel finds its calls open.
LEMMA NextOwn ==
  ASSUME Types, Assigned, Pending, Fresh, Hands, Own, Next
  PROVE  Own'
<1> SUFFICES ASSUME ~foreign', NEW s \in Session, handler'[s] \in {"find", "post"}
             PROVE  hand'[s].tun = s /\ (handler'[s] = "post" => hand'[s].to \notin closed')
  BY DEF Own
<1>1. ~foreign
  BY OwnClosedStep
<1>2. CASE hand'[s] = hand[s] /\ handler'[s] = handler[s]
  <2>1. hand[s].tun = s /\ (handler[s] = "post" => hand[s].to \in Call /\ hand[s].to \notin closed /\ tun[hand[s].to] = s)
    BY <1>1, <1>2 DEF Own, Hands
  <2>2. CASE UNCHANGED closed
    BY <1>2, <2>1, <2>2
  <2>3. CASE hub \in Session /\ handler[hub] = "read" /\ closed' = closed \cup {x[2] : x \in pending[hub]}
    <3>1. hub # s
      BY <1>2, <2>3
    <3>2. \A x \in pending[hub] : tun[x[2]] = hub
      BY <2>3 DEF Pending
    <3> QED
      BY <1>2, <2>1, <2>3, <3>1, <3>2
  <2> QED
    BY <2>2, <2>3, OwnClosedStep
<1>3. CASE FindTunnel(s) /\ hub # None /\ handler'[s] = "find"
           /\ hand'[s] = [tun |-> hub, msg |-> Head(up[s]), to |-> None]
  <2>1. hub = s
    BY <1>3 DEF FindTunnel
  <2> QED
    BY <1>3, <2>1
<1>4. ASSUME FindCall(s), handler[s] = "find", hand'[s].tun = hand[s].tun,
             NEW x \in pending[hand[s].tun], hand'[s].to = x[2]
      PROVE  hand'[s].tun = s /\ hand'[s].to \notin closed'
  <2>1. hand[s].tun = s /\ UNCHANGED closed
    BY <1>1, <1>4 DEF Own, FindCall, hubVars
  <2> QED
    BY <1>4, <2>1 DEF Pending
<1> QED
  BY <1>2, <1>3, <1>4, HandStep

\* A handler that ends takes the registered tunnel with it.
LEMMA NextNoDeadTunnel ==
  ASSUME Types, Fresh, NoDeadTunnel, Next
  PROVE  NoDeadTunnel'
<1> USE DEF Types, NoDeadTunnel, hubVars
<1>1. CASE Open
  <2>1. opened + 1 > opened /\ opened + 1 \in Session /\ hub' = hub
        /\ handler' = [handler EXCEPT ![opened + 1] = "wait"]
    BY <1>1, TunnelAssumption DEF Open, Session
  <2>2. handler[opened + 1] = "none"
    BY <2>1 DEF Fresh
  <2> QED
    BY <2>1, <2>2
<1>2. ASSUME NEW who, Unregister(who), NEW s \in Session, NEW l, At(s, l) PROVE NoDeadTunnel'
  BY <1>2 DEF Unregister
<1>3. CASE ForceRebind
  BY <1>3 DEF ForceRebind, Unregister
<1>4. ASSUME NEW s \in Session, HandlerStep(s) PROVE NoDeadTunnel'
  BY <1>2, <1>4 DEF HandlerStep, RegisterTunnel, FindTunnel, FindCall, Post, StreamEnds, At
<1>5. CASE UNCHANGED <<hub, handler>>
  BY <1>5
<1> QED
  BY <1>1, <1>3, <1>4, <1>5 DEF Next, HandleCommand, SessionEnds, Break, CallStep, CallReturns, Lookup,
     Assign, Send, SendFails, Receive, Timeout, Cancel, GraceEnds

\* So nothing is sent on a closed channel.
LEMMA NextPanic ==
  ASSUME Types, Own, PanicNeedsForeign, Next
  PROVE  PanicNeedsForeign'
<1>1. ASSUME NEW s \in Session, Post(s) PROVE PanicNeedsForeign'
  <2>1. handler[s] = "post" /\ panic' = (hand[s].to \in closed) /\ foreign' = foreign
    BY <1>1 DEF Post, hubVars
  <2>2. ~foreign => hand[s].to \notin closed
    BY <2>1 DEF Own
  <2> QED
    BY <2>1, <2>2 DEF PanicNeedsForeign
<1>2. CASE UNCHANGED panic
  <2>1. ~panic
    BY DEF Next
  <2> QED
    BY <1>2, <2>1 DEF PanicNeedsForeign
<1> QED
  BY <1>1, <1>2 DEF Next, Open, HandleCommand, SessionEnds, ForceRebind, Break, HandlerStep, RegisterTunnel,
     FindTunnel, FindCall, StreamEnds, CallStep, CallReturns, Lookup, Assign, Send, SendFails, Receive, Timeout,
     Cancel, GraceEnds

\* Every step keeps the invariant.
LEMMA NextInv == Inv /\ [Next]_vars => Inv'
<1> SUFFICES ASSUME Inv, [Next]_vars PROVE Inv'
  OBVIOUS
<1>1. CASE Next
  BY <1>1, NextTypes, NextAssigned, NextPending, NextMessages, NextFresh, NextHands, NextBoxes, NextOwn,
     NextNoDeadTunnel, NextPanic DEF Inv
<1>2. CASE UNCHANGED vars
  <2> USE <1>2 DEF vars, clientVars, hubVars, callVars, Inv
  <2>1. Types' /\ Assigned' /\ Pending' /\ Fresh'
    BY DEF Types, Assigned, Pending, Fresh
  <2>2. Messages'
    BY DEF Messages, AllGenuine, Genuine
  <2>3. Hands' /\ Boxes' /\ Own'
    BY DEF Hands, Boxes, Own, Genuine
  <2>4. NoDeadTunnel' /\ PanicNeedsForeign'
    BY DEF NoDeadTunnel, PanicNeedsForeign
  <2> QED
    BY <2>1, <2>2, <2>3, <2>4 DEF Inv
<1> QED
  BY <1>1, <1>2

\* In every state every part of the invariant holds.
THEOREM HubInvariant == Spec => []Inv
  BY InitInv, NextInv, PTL DEF Spec

\* What SendCommand returns, if it came over the tunnel it was sent on, is the answer to it.
THEOREM OwnAnswers == Spec => []OwnAnswer
<1>1. Inv => OwnAnswer
  <2> SUFFICES ASSUME Inv, NEW q \in Call, answer[q] # None, answer[q].over = tun[q]
               PROVE  answer[q].of = q
    BY DEF OwnAnswer
  <2>1. Genuine(answer[q]) /\ answer[q].id = id[q]
    BY DEF Inv, Boxes
  <2>2. answer[q].of \in Call /\ id[answer[q].of] = id[q] /\ id[q] # 0 /\ tun[answer[q].of] = tun[q]
    BY <2>1 DEF Genuine, Answer
  <2> QED
    BY <2>2 DEF Inv, Assigned
<1> QED
  BY <1>1, HubInvariant, PTL

\* The registered tunnel is one whose CommandTunnel handler is still at work.
THEOREM TunnelsAlive == Spec => []NoDeadTunnel
<1>1. Inv => NoDeadTunnel
  BY DEF Inv
<1> QED
  BY <1>1, HubInvariant, PTL

\* DeliverResponse does not send on a closed channel while handlers keep to their own tunnels.
THEOREM PanicOnlyForeign == Spec => []PanicNeedsForeign
<1>1. Inv => PanicNeedsForeign
  BY DEF Inv
<1> QED
  BY <1>1, HubInvariant, PTL

-----------------------------------------------------------------------------
(* Types. *)

\* The registration is the first message of a stream and the only one that is no answer:
\* so a handler that is past it reads and delivers answers.
FirstRegisters ==
  /\ \A s \in Session : \A i \in 1..Len(up[s]) : up[s][i] = Register => i = 1 /\ handler[s] = "wait"
  /\ \A s \in Session : IF handler[s] \in {"find", "post"} THEN hand[s].msg \in Answer ELSE hand[s] = None

\* The rest of TypeOK.
Marks == cut \in SUBSET Session /\ rebinds \in 0..MaxRebind /\ panic \in BOOLEAN

\* An answer is no registration.
LEMMA AnswerNoRegister == Register \notin Answer
<1>1. \A m \in Answer : "over" \in DOMAIN m
  BY DEF Answer
<1>2. "over" \notin DOMAIN Register
  BY DEF Register
<1> QED
  BY <1>1, <1>2

\* Every step keeps it.
LEMMA NextFirst ==
  ASSUME Inv, FirstRegisters, Next
  PROVE  FirstRegisters'
<1> DEFINE Clean(s) == \A i \in 1..Len(up'[s]) : up'[s][i] = Register => i = 1 /\ handler'[s] = "wait"
           Holds(s) == IF handler'[s] \in {"find", "post"} THEN hand'[s].msg \in Answer ELSE hand'[s] = None
<1> SUFFICES ASSUME NEW s \in Session PROVE Clean(s) /\ Holds(s)
  BY DEF FirstRegisters
<1> USE DEF Inv
<1>1. CASE UNCHANGED <<up, handler, hand>>
  BY <1>1 DEF FirstRegisters
<1>2. CASE Open
  <2>1. opened + 1 \in Session /\ up' = [up EXCEPT ![opened + 1] = <<Register>>]
        /\ handler' = [handler EXCEPT ![opened + 1] = "wait"] /\ UNCHANGED hand
    BY <1>2, TunnelAssumption DEF Open, Types, Session
  <2>2. Len(<<Register>>) = 1
    OBVIOUS
  <2>3. CASE s = opened + 1
    <3>1. handler[s] = "none"
      <4>1. opened \in Nat /\ s > opened
        BY <2>3, TunnelAssumption DEF Types
      <4> QED
        BY <4>1 DEF Fresh
    <3>2. up'[s] = <<Register>> /\ handler'[s] = "wait" /\ hand'[s] = None
      BY <2>1, <2>3, <3>1 DEF FirstRegisters, Types
    <3> QED
      BY <2>2, <3>2
  <2>4. CASE s # opened + 1
    BY <2>1, <2>4 DEF FirstRegisters, Types
  <2> QED
    BY <2>3, <2>4
<1>3. CASE HandleCommand
  <2> DEFINE m == Head(down[client])
  <2>1. /\ client \in Session /\ down[client] # <<>> /\ down[client] \in Seq(Msg) /\ up[client] \in Seq(Msg)
        /\ up' = [up EXCEPT ![client] = Append(up[client], m)] /\ UNCHANGED <<handler, hand>>
    BY <1>3 DEF HandleCommand, Types
  <2>2. m = down[client][1] /\ 1 \in 1..Len(down[client])
    BY <2>1, TailElements
  <2>3. m \in Answer /\ m # Register
    BY <2>1, <2>2, AnswerNoRegister DEF Messages, Genuine
  <2>4. m \in Msg
    BY <2>3 DEF Msg
  <2> HIDE DEF m
  <2>5. \A i \in 1..Len(Append(up[client], m)) :
          Append(up[client], m)[i] = m \/ (i \in 1..Len(up[client]) /\ Append(up[client], m)[i] = up[client][i])
    BY <2>1, <2>4, AppendElements
  <2>6. up'[client] = Append(up[client], m) /\ (s # client => up'[s] = up[s])
    BY <2>1 DEF Types
  <2> QED
    BY <2>1, <2>3, <2>5, <2>6 DEF FirstRegisters
<1>4. ASSUME NEW h \in Session, RegisterTunnel(h) \/ FindTunnel(h) PROVE Clean(s) /\ Holds(s)
  <2>1. up[h] # <<>> /\ up[h] \in Seq(Msg) /\ up' = [up EXCEPT ![h] = Tail(up[h])]
    BY <1>4 DEF RegisterTunnel, FindTunnel, Types
  <2>2. /\ Head(up[h]) = up[h][1] /\ 1 \in 1..Len(up[h])
        /\ \A i \in 1..Len(Tail(up[h])) : i + 1 \in 1..Len(up[h]) /\ Tail(up[h])[i] = up[h][i + 1] /\ i + 1 # 1
    <3>1. \A i \in 1..Len(Tail(up[h])) : i + 1 # 1
      OBVIOUS
    <3> QED
      BY <2>1, <3>1, TailElements
  <2>3. up'[h] = Tail(up[h]) /\ (s # h => up'[s] = up[s] /\ handler'[s] = handler[s])
    BY <1>4, <2>1 DEF RegisterTunnel, FindTunnel, At, Types
  <2>4. Clean(s)
    <3>1. CASE s = h
      <4>1. ASSUME NEW i \in 1..Len(up'[s]) PROVE up'[s][i] # Register
        <5>1. i + 1 \in 1..Len(up[h]) /\ up'[s][i] = up[h][i + 1] /\ i + 1 # 1
          BY <2>2, <2>3, <3>1
        <5> QED
          BY <5>1 DEF FirstRegisters
      <4> QED
        BY <4>1
    <3>2. CASE s # h
      BY <2>3, <3>2 DEF FirstRegisters
    <3> QED
      BY <3>1, <3>2
  <2>5. FindTunnel(h) => Head(up[h]) \in Answer
    <3>1. FindTunnel(h) => up[h][1] # Register
      BY <2>2 DEF FindTunnel, FirstRegisters
    <3>2. up[h][1] \in Msg
      BY <2>1, <2>2
    <3> QED
      BY <2>2, <3>1, <3>2 DEF Msg
  <2>6. Holds(s)
    <3>1. CASE s # h
      BY <1>4, <2>3, <3>1 DEF RegisterTunnel, FindTunnel, FirstRegisters, Types
    <3>2. CASE s = h /\ RegisterTunnel(h)
      BY <3>2 DEF RegisterTunnel, At, FirstRegisters, Types
    <3>3. CASE s = h /\ FindTunnel(h)
      BY <2>5, <3>3 DEF FindTunnel, At, FirstRegisters, Types
    <3> QED
      BY <1>4, <3>1, <3>2, <3>3
  <2> QED
    BY <2>4, <2>6
<1>5. ASSUME NEW h \in Session, FindCall(h) \/ Post(h) PROVE Clean(s) /\ Holds(s)
  <2>1. UNCHANGED up /\ handler[h] # "wait" /\ (s # h => handler'[s] = handler[s])
    BY <1>5 DEF FindCall, Post, At, clientVars, Types
  <2>2. Clean(s)
    BY <2>1 DEF FirstRegisters
  <2>3. Holds(s)
    <3>1. CASE s # h
      BY <1>5, <3>1 DEF FindCall, Post, At, FirstRegisters, Types
    <3>2. CASE s = h /\ hand'[s] = None /\ handler'[s] = "read"
      BY <3>2
    <3>3. CASE s = h /\ FindCall(h) /\ handler'[s] = "post"
      <4>1. handler[h] = "find" /\ hand[h] \in HandRecord /\ hand[h].msg \in Answer
        BY <3>3 DEF FindCall, Hands, FirstRegisters
      <4>2. PICK q : hand' = [hand EXCEPT ![h].to = q]
        BY <3>3 DEF FindCall, At, Types
      <4>3. hand'[h].msg = hand[h].msg
        BY <4>1, <4>2 DEF HandRecord, Types
      <4> QED
        BY <3>3, <4>1, <4>3
    <3> QED
      BY <1>5, <3>1, <3>2, <3>3 DEF FindCall, Post, At, Types
  <2> QED
    BY <2>2, <2>3
<1>6. ASSUME NEW h \in Session, StreamEnds(h) PROVE Clean(s) /\ Holds(s)
  <2>1. up' = [up EXCEPT ![h] = <<>>] /\ Len(<<>>) = 0 /\ UNCHANGED hand /\ (s # h => handler'[s] = handler[s])
    BY <1>6 DEF StreamEnds, At, Types
  <2>2. CASE s = h
    <3>1. up'[s] = <<>> /\ handler'[s] = "gone" /\ hand'[s] = None
      BY <1>6, <2>1, <2>2 DEF StreamEnds, At, FirstRegisters, Types
    <3> QED
      BY <2>1, <3>1
  <2>3. CASE s # h
    BY <2>1, <2>3 DEF FirstRegisters, Types
  <2> QED
    BY <2>2, <2>3
<1> QED
  BY <1>1, <1>2, <1>3, <1>4, <1>5, <1>6 DEF Next, Break, SessionEnds, ForceRebind, HandlerStep,
     CallStep, CallReturns, Lookup, Assign, Send, SendFails, Receive, Timeout, Cancel, GraceEnds, clientVars

\* Breaks, rebinds and a panic are counted as they should.
LEMMA NextMarks ==
  ASSUME Inv, Marks, Next
  PROVE  Marks'
<1> USE TunnelAssumption DEF Marks
<1>1. CASE Open \/ HandleCommand \/ SessionEnds
  BY <1>1 DEF Open, HandleCommand, SessionEnds, hubVars
<1>2. CASE ForceRebind
  <2>1. rebinds + 1 \in 0..MaxRebind
    BY <1>2 DEF ForceRebind
  <2> QED
    BY <1>2, <2>1 DEF ForceRebind, clientVars
<1>3. ASSUME NEW s \in Session, Break(s) PROVE Marks'
  <2>1. opened \in 0..MaxSession
    BY DEF Inv, Types
  <2> QED
    BY <1>3, <2>1 DEF Break, hubVars, Session
<1>4. ASSUME NEW s \in Session, HandlerStep(s) PROVE Marks'
  <2>1. UNCHANGED <<cut, rebinds>>
    BY <1>4 DEF HandlerStep, RegisterTunnel, FindTunnel, FindCall, Post, StreamEnds, clientVars, hubVars
  <2>2. UNCHANGED panic \/ panic' = (hand[s].to \in closed)
    BY <1>4 DEF HandlerStep, RegisterTunnel, FindTunnel, FindCall, Post, StreamEnds
  <2>3. panic' \in BOOLEAN
    <3>1. (hand[s].to \in closed) \in BOOLEAN
      OBVIOUS
    <3>2. panic \in BOOLEAN
      BY DEF Marks
    <3> QED
      BY <2>2, <3>1, <3>2, Zenon
  <2> QED
    BY <2>1, <2>3
<1>5. ASSUME NEW q \in Call, CallStep(q) PROVE Marks'
  BY <1>5 DEF CallStep, CallReturns, Lookup, Assign, Send, SendFails, Receive, Timeout, Cancel, GraceEnds,
     clientVars, hubVars
<1> QED
  BY <1>1, <1>2, <1>3, <1>4, <1>5 DEF Next

\* With what the invariant says of messages, the types follow.
LEMMA TypesFollow ==
  ASSUME Inv, FirstRegisters, Marks
  PROVE  TypeOK
<1> USE DEF Inv
<1>1. up \in [Session -> Seq(Answer \cup {Register})]
  BY DEF Types, Msg
<1>2. down \in [Session -> Seq(Answer)]
  <2>1. ASSUME NEW s \in Session PROVE down[s] \in Seq(Answer)
    <3>1. down[s] \in Seq(Msg) /\ \A i \in 1..Len(down[s]) : down[s][i] \in Answer
      BY DEF Types, Messages, Genuine
    <3>2. down[s] = [i \in 1..Len(down[s]) |-> down[s][i]] /\ Len(down[s]) \in Nat
      BY <3>1
    <3> QED
      BY <3>1, <3>2
  <2> QED
    BY <2>1 DEF Types
<1>3. hand \in [Session -> Hand \cup {None}]
  <2>1. ASSUME NEW s \in Session PROVE hand[s] \in Hand \cup {None}
    BY DEF Hands, FirstRegisters, HandRecord, Hand
  <2> QED
    BY <2>1 DEF Types
<1>4. box \in [Call -> Answer \cup {None}] /\ answer \in [Call -> Answer \cup {None}]
  <2>1. \A q \in Call : box[q] \in Answer \cup {None} /\ answer[q] \in Answer \cup {None}
    BY DEF Boxes, Genuine
  <2> QED
    BY <2>1 DEF Types
<1>5. ASSUME NEW s \in Session
      PROVE  pending[s] \subseteq Nat \X Call /\ \A x, y \in pending[s] : x[1] = y[1] => x = y
  <2>1. pending[s] \subseteq Nat \X Call
    BY DEF Types
  <2>2. ASSUME NEW x \in pending[s], NEW y \in pending[s], x[1] = y[1] PROVE x = y
    <3>1. x \in Nat \X Call /\ y \in Nat \X Call
      BY <2>1
    <3>2. x[2] = y[2]
      BY <2>2, <3>1 DEF Pending, Assigned
    <3> QED
      BY <2>2, <3>1, <3>2
  <2> QED
    BY <2>1, <2>2
<1> QED
  BY <1>1, <1>2, <1>3, <1>4, <1>5 DEF TypeOK, Types, Marks

\* The hub, its streams and the calls keep their types: among them, that no two calls
\* have one request id in the pending map of a tunnel, and that a handler delivers
\* nothing but answers.
THEOREM HubTypesHold == Spec => []TypeOK
<1>1. Init => FirstRegisters /\ Marks
  <2>1. Init => FirstRegisters
    BY DEF Init, FirstRegisters
  <2>2. Init => Marks
    <3>1. 0 \in 0..MaxRebind
      BY TunnelAssumption
    <3> QED
      BY <3>1 DEF Init, Marks
  <2> QED
    BY <2>1, <2>2
<1>2. Inv /\ FirstRegisters /\ Marks /\ [Next]_vars => FirstRegisters' /\ Marks'
  <2>1. UNCHANGED vars /\ FirstRegisters /\ Marks => FirstRegisters' /\ Marks'
    BY DEF vars, clientVars, hubVars, FirstRegisters, Marks
  <2> QED
    BY <2>1, NextFirst, NextMarks
<1> QED
  BY <1>1, <1>2, TypesFollow, HubInvariant, PTL DEF Spec

=============================================================================
