----------------------------- MODULE MCKdsDrain -----------------------------
(* Small instances of KdsDrain for TLC.  One client has two commands, so that *)
(* one of them can be miscounted while the other is outstanding, and closes   *)
(* the CU; the other client's command has to get by.                          *)
EXTENDS KdsDrain

CONSTANTS c1, c2, x1, x2, x3

MCOwner == [x \in Cmd |-> IF x = x2 THEN c2 ELSE c1]
MCTarget == [a \in AbortCmd |-> x1]
MCCloses == [k \in Client |-> IF k = c1 THEN 1 ELSE 0]

=============================================================================
