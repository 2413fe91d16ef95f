---------------------------- MODULE SerialWriter ----------------------------
(***************************************************************************)
(* What the write queue promises: the writes handed to it are executed one *)
(* at a time, each at most once; a caller is told "ok" only of a write     *)
(* that took effect; and once it is shut nothing is executed any more.     *)
(***************************************************************************)
CONSTANTS Caller, None

VARIABLES
  writing,  \* whose write is being executed, or None
  tried,    \* writes that have been executed or are being executed
  effect,   \* writes that took effect
  answer,   \* what each caller was told: None, "ok" or "error"
  shut

vars == <<writing, tried, effect, answer, shut>>

Init ==
  /\ writing = None
  /\ tried = {}
  /\ effect = {}
  /\ answer = [c \in Caller |-> None]
  /\ shut = FALSE

Execute(c) ==
  /\ ~shut /\ writing = None /\ c \notin tried
  /\ writing' = c
  /\ tried' = tried \cup {c}
  /\ UNCHANGED <<effect, answer, shut>>

Finish(c) ==
  /\ writing = c
  /\ writing' = None
  /\ effect' \in {effect, effect \cup {c}}
  /\ UNCHANGED <<tried, answer, shut>>

TellOk(c) ==
  /\ answer[c] = None /\ c \in effect
  /\ answer' = [answer EXCEPT ![c] = "ok"]
  /\ UNCHANGED <<writing, tried, effect, shut>>

\* An error says nothing: the write may have taken effect, or may yet.
TellError(c) ==
  /\ answer[c] = None
  /\ answer' = [answer EXCEPT ![c] = "error"]
  /\ UNCHANGED <<writing, tried, effect, shut>>

Shut ==
  /\ writing = None
  /\ shut' = TRUE
  /\ UNCHANGED <<writing, tried, effect, answer>>

Next ==
  \/ \E c \in Caller : Execute(c) \/ Finish(c) \/ TellOk(c) \/ TellError(c)
  \/ Shut

Spec == Init /\ [][Next]_vars
=============================================================================
