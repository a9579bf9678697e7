-------------------------- MODULE MCPendingRestore --------------------------
(* Instances of PendingRestore for TLC.                                    *)
EXTENDS PendingRestore

CONSTANTS b1, b2, b3

\* Two backups under one passphrase, a third under another.
MCBackups == {b1, b2, b3}
MCPass == [b \in MCBackups |-> IF b = b3 THEN "other" ELSE "usual"]
=============================================================================
