------------------------- MODULE MCWikiTransaction -------------------------
(* Small instances of WikiTransaction.  One act writes an incident page    *)
(* and log.md, another log.md alone; log.md is the page stages share.      *)
EXTENDS WikiTransaction

CONSTANTS incident, log, a1, a2

MCPages == {incident, log}
MCShared == {log}
MCTouches == [a \in Operators |-> IF a = a2 THEN {log} ELSE Pages]
=============================================================================
