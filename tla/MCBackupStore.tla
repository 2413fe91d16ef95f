--------------------------- MODULE MCBackupStore ---------------------------
(***************************************************************************)
(* Small instances of BackupStore for TLC.                                 *)
(***************************************************************************)
EXTENDS BackupStore

CONSTANTS server, laptop, hybrid1, hybrid2, remote1, remote2, hourly, cli

MCOwner == [r \in Run |-> IF r \in {hybrid1, hybrid2} THEN server ELSE laptop]

MCPurgeNode == [g \in Purger |-> server]

MCPurgeBoth == [g \in Purger |-> IF g = cli THEN laptop ELSE server]

=============================================================================
