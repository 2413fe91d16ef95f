---------------------------- MODULE MCRetention ----------------------------
(***************************************************************************)
(* Two paths: "logs" is covered by a purge policy of high priority, which  *)
(* keeps for longer, and by the general policy, "docs" by that alone.      *)
(***************************************************************************)
EXTENDS Retention

CONSTANTS docs, logs, purge, general, hourly, cli

MCCovers == [q \in Policy |-> IF q = purge THEN {logs} ELSE {docs, logs}]

MCKeepDays == [q \in Policy |-> IF q = purge THEN 2 ELSE 1]

MCKeepOne == [q \in Policy |-> IF q = purge THEN 0 ELSE 1]

MCPriority == [q \in Policy |-> IF q = purge THEN 2 ELSE 1]
=============================================================================
