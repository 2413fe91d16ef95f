----------------------------- MODULE WriteQueue -----------------------------
(***************************************************************************)
(* db.WriteQueue, the upload handlers that submit to it, and the order in  *)
(* which Server.Stop takes them down: GracefulStop waits for the handlers, *)
(* then the queue is closed, then the database.                            *)
(*                                                                         *)
(* A caller is one call of Submit.  Its write is InsertBackupEntry under   *)
(* the caller's own context.                                               *)
(***************************************************************************)
EXTENDS Naturals, Sequences

CONSTANTS
  Caller,
  Cap,      \* the channel's buffer; 256 in the server
  None

ASSUME WriteQueueAssumption == Cap \in Nat \ {0} /\ None \notin Caller \cup {"ok", "error"}

VARIABLES
  queue,      \* the channel
  submit,     \* where each Submit is
  cancelled,  \* callers whose context is done
  result,     \* what is in each caller's result channel, or None
  loop,       \* "select", "run", "late" (the request's context is done already),
              \* "drain" or "gone"
  cur,        \* the request the loop is executing, or None
  tried,      \* callers whose write the loop has begun
  effect,     \* callers whose row is in the database
  stop        \* how far Server.Stop has come

vars == <<queue, submit, cancelled, result, loop, cur, tried, effect, stop>>

Returned == {"ok", "error"}

TypeOK ==
  /\ queue \in Seq(Caller) /\ Len(queue) <= Cap
  /\ submit \in [Caller -> {"idle", "send", "wait"} \cup Returned]
  /\ cancelled \in SUBSET Caller
  /\ result \in [Caller -> {None, "ok", "error"}]
  /\ loop \in {"select", "run", "late", "drain", "gone"}
  /\ cur \in Caller \cup {None}
  /\ tried \in SUBSET Caller
  /\ effect \in SUBSET tried
  /\ stop \in {"serving", "graceful", "cancelled", "closed", "waited", "dbclosed"}

Init ==
  /\ queue = <<>>
  /\ submit = [c \in Caller |-> "idle"]
  /\ cancelled = {}
  /\ result = [c \in Caller |-> None]
  /\ loop = "select"
  /\ cur = None
  /\ tried = {}
  /\ effect = {}
  /\ stop = "serving"

Stopping == stop \notin {"serving", "graceful"}   \* the queue's context is done
Closed == stop \in {"closed", "waited", "dbclosed"}  \* so is its channel

loopVars == <<loop, cur, tried, effect>>

-----------------------------------------------------------------------------
(* Submit. *)

\* A handler takes a new request only until GracefulStop begins.
Call(c) ==
  /\ submit[c] = "idle" /\ stop = "serving"
  /\ submit' = [submit EXCEPT ![c] = "send"]
  /\ UNCHANGED <<queue, cancelled, result, loopVars, stop>>

Cancel(c) ==
  /\ c \notin cancelled /\ submit[c] \in {"send", "wait"}
  /\ cancelled' = cancelled \cup {c}
  /\ UNCHANGED <<queue, submit, result, loopVars, stop>>

Send(c) ==
  /\ submit[c] = "send" /\ Len(queue) < Cap
  /\ queue' = Append(queue, c)
  /\ submit' = [submit EXCEPT ![c] = "wait"]
  /\ UNCHANGED <<cancelled, result, loopVars, stop>>

Receive(c) ==
  /\ submit[c] = "wait" /\ result[c] # None
  /\ submit' = [submit EXCEPT ![c] = result[c]]
  /\ result' = [result EXCEPT ![c] = None]
  /\ UNCHANGED <<queue, cancelled, loopVars, stop>>

\* mutant: Submit has a timer of its own
GiveUpEarly(c) ==
  /\ submit[c] \in {"send", "wait"}
  /\ submit' = [submit EXCEPT ![c] = "error"]
  /\ UNCHANGED <<queue, cancelled, result, loopVars, stop>>

\* Either select of Submit may take the context's side.
GiveUp(c) ==
  /\ submit[c] \in {"send", "wait"} /\ c \in cancelled
  /\ submit' = [submit EXCEPT ![c] = "error"]
  /\ UNCHANGED <<queue, cancelled, result, loopVars, stop>>

-----------------------------------------------------------------------------
(* loop. *)

Take ==
  /\ loop = "select" /\ queue # <<>>
  /\ cur' = Head(queue)
  /\ tried' = tried \cup {cur'}
  /\ queue' = Tail(queue)
  /\ loop' = IF cur' \in cancelled THEN "late" ELSE "run"
  /\ UNCHANGED <<submit, cancelled, result, effect, stop>>

\* The result channel has room for one, so the loop never waits for the caller.
Answer(r) ==
  /\ result' = [result EXCEPT ![cur] = r]
  /\ cur' = None
  /\ loop' = "select"
  /\ UNCHANGED <<queue, submit, cancelled, tried, stop>>

\* fn: a statement whose context is done fails; one whose context is done while
\* it runs may still take effect.
RunOk == loop = "run" /\ Answer("ok") /\ effect' = effect \cup {cur}

\* mutant: the result channel has no buffer
RunFailsUnbuffered ==
  /\ loop \in {"run", "late"} /\ submit[cur] = "wait"
  /\ Answer("error") /\ effect' = effect

\* mutant: an error of fn is dropped
RunFailsSilently == loop \in {"run", "late"} /\ Answer("ok") /\ effect' = effect

RunFails == loop \in {"run", "late"} /\ Answer("error") /\ effect' = effect

SeeCancel ==
  /\ loop = "select" /\ Stopping
  /\ loop' = "drain"
  /\ UNCHANGED <<queue, submit, cancelled, result, cur, tried, effect, stop>>

Drain ==
  /\ loop = "drain" /\ queue # <<>>
  /\ queue' = Tail(queue)
  /\ result' = [result EXCEPT ![Head(queue)] = "error"]
  /\ UNCHANGED <<submit, cancelled, loopVars, stop>>

\* The channel is closed and empty, or there is nothing left to drain.
Leave ==
  /\ queue = <<>>
  /\ (loop = "select" /\ Closed) \/ loop = "drain"
  /\ loop' = "gone"
  /\ UNCHANGED <<queue, submit, cancelled, result, cur, tried, effect, stop>>

-----------------------------------------------------------------------------
(* Server.Stop. *)

Set(s) == stop' = s /\ UNCHANGED <<queue, submit, cancelled, result, loopVars>>

GracefulStop == stop = "serving" /\ Set("graceful")

HandlersGone == \A c \in Caller : submit[c] \in {"idle"} \cup Returned

\* mutant: Stop does not wait for the handlers
CloseCancelsAtOnce == stop = "graceful" /\ Set("cancelled")

\* Close: cancel the context once no handler is left,
CloseCancels == stop = "graceful" /\ HandlersGone /\ Set("cancelled")

\* close the channel,
CloseChannel == stop = "cancelled" /\ Set("closed")

\* mutant: Close does not wait for the loop
CloseReturnsAtOnce == stop = "closed" /\ Set("waited")

\* and wait for the loop.
CloseReturns == stop = "closed" /\ loop = "gone" /\ Set("waited")

CloseDatabase == stop = "waited" /\ Set("dbclosed")

-----------------------------------------------------------------------------
SubmitStep(c) == Send(c) \/ Receive(c) \/ GiveUp(c)

LoopStep == Take \/ RunOk \/ RunFails \/ SeeCancel \/ Drain \/ Leave

StopStep == CloseCancels \/ CloseChannel \/ CloseReturns \/ CloseDatabase

Next ==
  \/ \E c \in Caller : Call(c) \/ Cancel(c) \/ SubmitStep(c)
  \/ LoopStep
  \/ GracefulStop \/ StopStep

\* Goroutines that can go on do; nobody need ever cancel, and the server need
\* not be stopped.  Blocked senders are served in turn by the Go runtime, which
\* is the strong fairness of Send.
Fairness ==
  /\ WF_vars(LoopStep) /\ WF_vars(StopStep)
  /\ \A c \in Caller : WF_vars(SubmitStep(c)) /\ SF_vars(Send(c))

Spec == Init /\ [][Next]_vars /\ Fairness

-----------------------------------------------------------------------------
(* Properties. *)

\* The queue and the shutdown order implement the serial writer.
Serial == INSTANCE SerialWriter WITH
  writing <- cur,
  answer <- [c \in Caller |-> IF submit[c] \in Returned THEN submit[c] ELSE None],
  shut <- stop \in {"waited", "dbclosed"}

ImplementsSerialWriter == Serial!Spec

\* Nobody is in, or before, the send of Submit when Close closes the channel: a
\* send on a closed channel would end the process.
NoSendOnClosed == Closed => \A c \in Caller : submit[c] # "send"

\* No write runs on a closed database.
DatabaseOutlivesLoop == stop = "dbclosed" => loop = "gone" /\ queue = <<>>

\* A cancelled caller's error is the only answer that may hide a row.
ErrorHidesOnlyCancelled ==
  \A c \in effect : submit[c] = "error" => c \in cancelled

\* Every Submit returns, and so does Stop, also when callers give up.
SubmitReturns == \A c \in Caller : submit[c] = "send" ~> submit[c] \in Returned
StopReturns == stop = "graceful" ~> stop = "dbclosed"
=============================================================================
