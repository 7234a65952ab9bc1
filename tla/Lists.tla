------------------------------- MODULE Lists -------------------------------
(***************************************************************************)
(* Selecting from a list: what list.remove leaves of a list without         *)
(* duplicates (sctp_probe/ws.py), and what a loop that skips rows has gone   *)
(* through (sctp_probe/export.py).                                          *)
(***************************************************************************)
EXTENDS Integers, FiniteSets, Sequences

\* The place of i among the positions in kept.
Rank(kept, i) == Cardinality({j \in kept : j <= i})

\* The elements of list at the positions in kept, in their order.
ElementsAt(list, kept) ==
    [k \in 1..Cardinality(kept) |-> list[CHOOSE i \in kept : Rank(kept, i) = k]]
=============================================================================
