------------------------------- MODULE Queues -------------------------------
(***************************************************************************)
(* The lists of the drivers, as sequences: who is on a list, how often,    *)
(* and the walk that takes some of its members off it.                     *)
(***************************************************************************)
EXTENDS Integers, Sequences, FiniteSets

SeqSet(s) == {s[i] : i \in 1 .. Len(s)}

\* list_for_each_entry_safe() with a match: the members of s in S, in order.
Only(s, S) ==
    LET f[i \in 0 .. Len(s)] ==
          IF i = 0 THEN <<>>
          ELSE IF s[i] \in S THEN Append(f[i - 1], s[i]) ELSE f[i - 1]
    IN f[Len(s)]

\* How often x is on s.
Times(s, x) == Cardinality({i \in 1 .. Len(s) : s[i] = x})
=============================================================================
