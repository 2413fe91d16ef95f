-------------------------- MODULE WriteQueueProofs --------------------------
(***************************************************************************)
(* Proofs about WriteQueue, for any number of callers and any capacity of  *)
(* the channel.                                                            *)
(***************************************************************************)
EXTENDS WriteQueue, TLAPS

InQueue(c) == \E i \in 1..Len(queue) : queue[i] = c

\* Where a request is: before the send, in the queue once, in the loop, or over.
Requests ==
  /\ \A i, j \in 1..Len(queue) : queue[i] = queue[j] => i = j
  /\ \A c \in Caller :
       /\ InQueue(c) => submit[c] \in {"wait", "error"} /\ c \notin tried /\ result[c] = None
       /\ submit[c] \in {"idle", "send"} => c \notin tried /\ result[c] = None
       /\ cur = c => submit[c] \in {"wait", "error"} /\ c \in tried \ effect /\ result[c] = None
       /\ submit[c] = "ok" => c \in effect
  /\ cur # None <=> loop \in {"run", "late"}

\* A caller with an error whose request may yet take effect has cancelled; an
\* error in the result channel hides nothing.
Errors ==
  \A c \in Caller :
    /\ result[c] = "ok" => c \in effect
    /\ result[c] = "error" => c \notin effect
    /\ submit[c] = "error" /\ (InQueue(c) \/ cur = c \/ c \in effect) => c \in cancelled

\* Once the queue's context is done no handler is left, and the loop only goes
\* when it is done and the queue empty.
Shutdown ==
  /\ Stopping => HandlersGone
  /\ loop \in {"drain", "gone"} => Stopping
  /\ loop = "gone" => queue = <<>>
  /\ stop \in {"waited", "dbclosed"} => loop = "gone"

Inv == TypeOK /\ Requests /\ Errors /\ Shutdown

-----------------------------------------------------------------------------
\* What the two operations on the channel do to its elements.
LEMMA AppendElements ==
  ASSUME NEW q \in Seq(Caller), NEW c \in Caller
  PROVE  /\ Append(q, c) \in Seq(Caller) /\ Len(Append(q, c)) = Len(q) + 1
         /\ \A i \in 1..Len(q) : Append(q, c)[i] = q[i]
         /\ Append(q, c)[Len(q) + 1] = c
  OBVIOUS

\* The elements of a queue without its first.
LEMMA TailElements ==
  ASSUME NEW q \in Seq(Caller), q # <<>>
  PROVE  /\ Tail(q) \in Seq(Caller) /\ Len(Tail(q)) = Len(q) - 1 /\ Len(q) \in Nat \ {0}
         /\ Head(q) = q[1] /\ Head(q) \in Caller
         /\ \A i \in 1..Len(Tail(q)) : Tail(q)[i] = q[i + 1]
  OBVIOUS

\* The invariant holds initially.
LEMMA InitInv == Init => Inv
  BY WriteQueueAssumption DEF Init, Inv, TypeOK, Requests, Errors, Shutdown, InQueue, Stopping, HandlersGone

\* A caller that is taken from the head is nowhere else in the queue.
LEMMA HeadIsGone ==
  ASSUME TypeOK, Requests, queue # <<>>, queue' = Tail(queue),
         NEW h \in Caller, h = Head(queue)
  PROVE  /\ InQueue(h) /\ ~InQueue(h)'
         /\ \A c \in Caller : InQueue(c)' => InQueue(c)
         /\ \A i, j \in 1..Len(queue') : queue'[i] = queue'[j] => i = j
<1>1. /\ Len(queue') = Len(queue) - 1 /\ Len(queue) \in Nat \ {0} /\ Head(queue) = queue[1]
      /\ \A i \in 1..Len(queue') : queue'[i] = queue[i + 1]
  BY TailElements DEF TypeOK
<1>2. InQueue(h)
  <2>1. 1 \in 1..Len(queue) /\ queue[1] = h
    BY <1>1
  <2> QED
    BY <2>1 DEF InQueue
<1>3. ~InQueue(h)'
  <2> SUFFICES ASSUME NEW i \in 1..Len(queue'), queue'[i] = h PROVE FALSE
    BY DEF InQueue
  <2>1. queue[i + 1] = queue[1] /\ i + 1 \in 1..Len(queue) /\ 1 \in 1..Len(queue) /\ i + 1 # 1
    BY <1>1
  <2> QED
    BY <2>1 DEF Requests
<1>4. \A c \in Caller : InQueue(c)' => InQueue(c)
  <2> SUFFICES ASSUME NEW c \in Caller, NEW i \in 1..Len(queue'), queue'[i] = c PROVE InQueue(c)
    BY DEF InQueue
  <2> QED
    BY <1>1 DEF InQueue
<1>5. \A i, j \in 1..Len(queue') : queue'[i] = queue'[j] => i = j
  <2> SUFFICES ASSUME NEW i \in 1..Len(queue'), NEW j \in 1..Len(queue'), queue'[i] = queue'[j]
               PROVE  i = j
    OBVIOUS
  <2>1. i + 1 \in 1..Len(queue) /\ j + 1 \in 1..Len(queue) /\ queue[i + 1] = queue[j + 1]
    BY <1>1
  <2> QED
    BY <2>1 DEF Requests
<1> QED
  BY <1>2, <1>3, <1>4, <1>5

\* A step of a Submit keeps it.
LEMMA SubmitInv ==
  ASSUME Inv, NEW d \in Caller, Call(d) \/ Cancel(d) \/ SubmitStep(d)
  PROVE  Inv'
<1> USE DEF Inv
<1>1. CASE Call(d)
  BY <1>1 DEF Call, loopVars, TypeOK, Requests, Errors, Shutdown, InQueue, Stopping, HandlersGone, Returned
<1>2. CASE Cancel(d)
  BY <1>2 DEF Cancel, loopVars, TypeOK, Requests, Errors, Shutdown, InQueue, Stopping, HandlersGone, Returned
<1>3. CASE Send(d)
  <2>1. /\ queue' \in Seq(Caller) /\ Len(queue') = Len(queue) + 1
        /\ \A i \in 1..Len(queue) : queue'[i] = queue[i]
        /\ queue'[Len(queue) + 1] = d
        /\ Len(queue) \in Nat
    BY <1>3, AppendElements DEF Send, TypeOK
  <2>2. ~InQueue(d)
    BY <1>3 DEF Send, Requests
  <2>3. \A c \in Caller : InQueue(c)' <=> InQueue(c) \/ c = d
    BY <2>1 DEF InQueue
  <2>4. TypeOK'
    BY <1>3, <2>1, WriteQueueAssumption DEF Send, TypeOK, loopVars
  <2>5. \A i, j \in 1..Len(queue') : queue'[i] = queue'[j] => i = j
    BY <2>1, <2>2 DEF Requests, InQueue
  <2>6. Requests'
    BY <1>3, <2>3, <2>5 DEF Send, Requests, TypeOK, loopVars
  <2>7. Errors'
    BY <1>3, <2>3 DEF Send, Errors, Requests, TypeOK, loopVars
  <2>8. Shutdown'
    BY <1>3 DEF Send, Shutdown, TypeOK, loopVars, Stopping, HandlersGone, Returned
  <2> QED
    BY <2>4, <2>6, <2>7, <2>8
<1>4. CASE Receive(d)
  <2>1. \A c \in Caller : InQueue(c)' <=> InQueue(c)
    BY <1>4 DEF Receive, InQueue
  <2>2. TypeOK'
    BY <1>4 DEF Receive, TypeOK, loopVars, Returned
  <2>6. /\ result[d] \in {"ok", "error"} /\ (result[d] = "ok" => d \in effect)
        /\ ~InQueue(d) /\ cur # d
    BY <1>4, WriteQueueAssumption DEF Receive, TypeOK, Requests, Errors
  <2>7. /\ submit' = [submit EXCEPT ![d] = result[d]] /\ result' = [result EXCEPT ![d] = None]
        /\ queue' = queue /\ cur' = cur /\ tried' = tried /\ effect' = effect /\ loop' = loop
        /\ submit \in [Caller -> {"idle", "send", "wait"} \cup Returned]
        /\ result \in [Caller -> {None, "ok", "error"}]
    BY <1>4 DEF Receive, TypeOK, loopVars
  <2>3. Requests'
    BY <2>1, <2>6, <2>7 DEF Requests
  <2>4. Errors'
    BY <1>4, <2>1, WriteQueueAssumption DEF Receive, TypeOK, Requests, Errors, loopVars
  <2>5. Shutdown'
    BY <1>4 DEF Receive, TypeOK, Shutdown, Stopping, HandlersGone, Returned, loopVars
  <2> QED
    BY <2>2, <2>3, <2>4, <2>5
<1>5. CASE GiveUp(d)
  BY <1>5 DEF GiveUp, loopVars, TypeOK, Requests, Errors, Shutdown, InQueue, Stopping, HandlersGone, Returned
<1> QED
  BY <1>1, <1>2, <1>3, <1>4, <1>5 DEF SubmitStep

\* A step of the loop keeps it.
LEMMA LoopInv ==
  ASSUME Inv, LoopStep
  PROVE  Inv'
<1> USE DEF Inv
<1>1. CASE Take
  <2>1. /\ queue' \in Seq(Caller) /\ Len(queue') = Len(queue) - 1 /\ Len(queue) \in Nat \ {0}
        /\ Head(queue) \in Caller
    BY <1>1, TailElements DEF Take, TypeOK
  <2> PICK h \in Caller : h = Head(queue)
    BY <2>1
  <2>2. /\ InQueue(h) /\ ~InQueue(h)'
        /\ \A c \in Caller : InQueue(c)' => InQueue(c)
        /\ \A i, j \in 1..Len(queue') : queue'[i] = queue'[j] => i = j
    BY <1>1, HeadIsGone DEF Take
  <2>3. cur = None
    BY <1>1 DEF Take, Requests
  <2>4. TypeOK'
    BY <1>1, <2>1, WriteQueueAssumption DEF Take, TypeOK
  <2>5. Requests'
    BY <1>1, <2>1, <2>2, <2>3, WriteQueueAssumption DEF Take, Requests, TypeOK
  <2>6. Errors'
    BY <1>1, <2>1, <2>2, <2>3 DEF Take, Errors, Requests, TypeOK
  <2>7. Shutdown'
    BY <1>1 DEF Take, Shutdown, Stopping, HandlersGone
  <2> QED
    BY <2>4, <2>5, <2>6, <2>7
<1>2. CASE RunOk \/ RunFails
  <2>1. cur \in Caller /\ cur \notin effect /\ ~InQueue(cur)
    BY <1>2 DEF RunOk, RunFails, TypeOK, Requests
  <2>2. TypeOK'
    BY <1>2, <2>1 DEF RunOk, RunFails, Answer, TypeOK, Requests
  <2>3. \A c \in Caller : InQueue(c)' <=> InQueue(c)
    BY <1>2 DEF RunOk, RunFails, Answer, InQueue
  <2>4. Requests'
    BY <1>2, <2>1, <2>3, WriteQueueAssumption DEF RunOk, RunFails, Answer, TypeOK, Requests
  <2>6. Errors'
    BY <1>2, <2>1, <2>3, WriteQueueAssumption DEF RunOk, RunFails, Answer, TypeOK, Requests, Errors
  <2>5. Shutdown'
    BY <1>2 DEF RunOk, RunFails, Answer, Shutdown, Stopping, HandlersGone
  <2> QED
    BY <2>2, <2>4, <2>5, <2>6
<1>3. CASE SeeCancel
  BY <1>3 DEF SeeCancel, TypeOK, Requests, Errors, Shutdown, InQueue, Stopping, HandlersGone
<1>4. CASE Drain
  <2>1. /\ queue' \in Seq(Caller) /\ Len(queue') = Len(queue) - 1 /\ Len(queue) \in Nat \ {0}
        /\ Head(queue) \in Caller
    BY <1>4, TailElements DEF Drain, TypeOK
  <2> PICK h \in Caller : h = Head(queue)
    BY <2>1
  <2>2. /\ InQueue(h) /\ ~InQueue(h)'
        /\ \A c \in Caller : InQueue(c)' => InQueue(c)
        /\ \A i, j \in 1..Len(queue') : queue'[i] = queue'[j] => i = j
    BY <1>4, HeadIsGone DEF Drain
  <2>3. TypeOK'
    BY <1>4, <2>1, WriteQueueAssumption DEF Drain, TypeOK, loopVars
  <2>4. Requests'
    BY <1>4, <2>1, <2>2 DEF Drain, Requests, TypeOK, loopVars
  <2>5. Errors'
    BY <1>4, <2>1, <2>2 DEF Drain, Errors, Requests, TypeOK, loopVars
  <2>6. Shutdown'
    BY <1>4 DEF Drain, Shutdown, Stopping, HandlersGone, loopVars
  <2> QED
    BY <2>3, <2>4, <2>5, <2>6
<1>5. CASE Leave
  BY <1>5 DEF Leave, TypeOK, Requests, Errors, Shutdown, InQueue, Stopping, HandlersGone, Closed
<1> QED
  BY <1>1, <1>2, <1>3, <1>4, <1>5 DEF LoopStep

\* A step of the shutdown keeps it.
LEMMA StopInv ==
  ASSUME Inv, GracefulStop \/ StopStep
  PROVE  Inv'
  BY DEF Inv, GracefulStop, StopStep, CloseCancels, CloseChannel, CloseReturns, CloseDatabase, Set,
         loopVars, TypeOK, Requests, Errors, Shutdown, InQueue, Stopping, HandlersGone

\* So does a step in which nothing happens.
LEMMA StutterInv ==
  ASSUME Inv, UNCHANGED vars
  PROVE  Inv'
  BY DEF Inv, vars, TypeOK, Requests, Errors, Shutdown, InQueue, Stopping, HandlersGone

\* The four parts of the invariant hold always.
THEOREM QueueInvariant == Spec => []Inv
<1>1. Inv /\ [Next]_vars => Inv'
  BY SubmitInv, LoopInv, StopInv, StutterInv DEF Next
<1> QED
  BY InitInv, <1>1, PTL DEF Spec

\* Every variable keeps its type.
THEOREM QueueTypeCorrect == Spec => []TypeOK
  BY QueueInvariant, PTL DEF Inv

\* Close never closes the channel under a Submit that is before its send.
THEOREM NeverSendsOnClosed == Spec => []NoSendOnClosed
<1>1. Inv => NoSendOnClosed
  BY DEF Inv, Shutdown, NoSendOnClosed, Closed, Stopping, HandlersGone, Returned
<1> QED
  BY QueueInvariant, <1>1, PTL

\* The database is closed when the loop has gone and nothing is queued.
THEOREM LoopEndsBeforeDatabase == Spec => []DatabaseOutlivesLoop
<1>1. Inv => DatabaseOutlivesLoop
  BY DEF Inv, Shutdown, DatabaseOutlivesLoop
<1> QED
  BY QueueInvariant, <1>1, PTL

\* Who was told of an error although the row was written had cancelled.
THEOREM OnlyCancelledAreMisled == Spec => []ErrorHidesOnlyCancelled
<1>1. Inv => ErrorHidesOnlyCancelled
  BY DEF Inv, TypeOK, Errors, ErrorHidesOnlyCancelled
<1> QED
  BY QueueInvariant, <1>1, PTL

-----------------------------------------------------------------------------
(* The queue implements the serial writer. *)

\* The initial states of the queue are those of the serial writer.
LEMMA SerialInit == Init => Serial!Init
  BY DEF Init, Serial!Init, Returned

\* A step of a handler is the moment its caller is told, or nothing.
LEMMA SerialSubmit ==
  ASSUME Inv, NEW d \in Caller, Call(d) \/ Cancel(d) \/ SubmitStep(d)
  PROVE  [Serial!Next]_Serial!vars
<1> USE DEF Inv
<1>1. CASE Call(d) \/ Cancel(d) \/ Send(d)
  BY <1>1 DEF Call, Cancel, Send, loopVars, Serial!vars, TypeOK, Returned
<1>2. CASE Receive(d)
  <2>1. result[d] \in {"ok", "error"} /\ (result[d] = "ok" => d \in effect) /\ submit[d] = "wait"
    BY <1>2 DEF Receive, TypeOK, Errors
  <2>2. submit' = [submit EXCEPT ![d] = result[d]]
    BY <1>2 DEF Receive
  <2>3. CASE result[d] = "ok"
    <3>1. Serial!TellOk(d)
      BY <1>2, <2>1, <2>2, <2>3 DEF Receive, Serial!TellOk, TypeOK, loopVars, Returned
    <3> QED
      BY <3>1 DEF Serial!Next
  <2>4. CASE result[d] = "error"
    <3>1. Serial!TellError(d)
      BY <1>2, <2>1, <2>2, <2>4 DEF Receive, Serial!TellError, TypeOK, loopVars, Returned
    <3> QED
      BY <3>1 DEF Serial!Next
  <2> QED
    BY <2>1, <2>3, <2>4
<1>3. CASE GiveUp(d)
  <2>1. Serial!TellError(d)
    BY <1>3 DEF GiveUp, Serial!TellError, TypeOK, loopVars, Returned
  <2> QED
    BY <2>1 DEF Serial!Next
<1> QED
  BY <1>1, <1>2, <1>3 DEF SubmitStep

\* A step of the loop begins a write, ends one, or does neither.
LEMMA SerialLoop ==
  ASSUME Inv, LoopStep
  PROVE  [Serial!Next]_Serial!vars
<1> USE DEF Inv
<1>1. CASE Take
  <2>1. PICK h \in Caller : h = Head(queue) /\ InQueue(h)
    BY <1>1, TailElements, HeadIsGone DEF Take, TypeOK
  <2>2. Serial!Execute(h)
    BY <1>1, <2>1 DEF Take, Serial!Execute, Requests, Shutdown
  <2> QED
    BY <2>2 DEF Serial!Next
<1>2. CASE RunOk \/ RunFails
  <2>1. cur \in Caller
    BY <1>2 DEF RunOk, RunFails, TypeOK, Requests
  <2>2. Serial!Finish(cur)
    BY <1>2 DEF RunOk, RunFails, Answer, Serial!Finish
  <2> QED
    BY <2>1, <2>2 DEF Serial!Next
<1>3. CASE SeeCancel \/ Drain \/ Leave
  BY <1>3 DEF SeeCancel, Drain, Leave, loopVars, Serial!vars
<1> QED
  BY <1>1, <1>2, <1>3 DEF LoopStep

\* Of the steps of Stop, the return of Close is the one that shuts.
LEMMA SerialStop ==
  ASSUME Inv, GracefulStop \/ StopStep
  PROVE  [Serial!Next]_Serial!vars
<1>1. CASE CloseReturns
  <2>1. Serial!Shut
    BY <1>1 DEF CloseReturns, Set, Serial!Shut, Inv, Requests, loopVars
  <2> QED
    BY <2>1 DEF Serial!Next
<1>2. CASE GracefulStop \/ CloseCancels \/ CloseChannel \/ CloseDatabase
  BY <1>2 DEF GracefulStop, CloseCancels, CloseChannel, CloseDatabase, Set, Serial!vars, loopVars
<1> QED
  BY <1>1, <1>2 DEF StopStep

\* The queue, its callers and the shutdown order implement the serial writer.
THEOREM ImplementsWriter == Spec => ImplementsSerialWriter
<1>1. Inv /\ [Next]_vars => [Serial!Next]_Serial!vars
  <2>1. ASSUME UNCHANGED vars PROVE UNCHANGED Serial!vars
    BY <2>1 DEF vars, Serial!vars
  <2> QED
    BY <2>1, SerialSubmit, SerialLoop, SerialStop DEF Next
<1> QED
  BY SerialInit, <1>1, QueueInvariant, PTL DEF Spec, ImplementsSerialWriter, Serial!Spec

=============================================================================
