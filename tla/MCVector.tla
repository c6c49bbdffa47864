------------------------------ MODULE MCVector ------------------------------
(***************************************************************************)
(* Instances of VectorQuery for TLC: more writes, or more rows in a range, *)
(* without queries, and fewer with one query that may overlap any          *)
(* publication.                                                            *)
(***************************************************************************)
EXTENDS VectorQuery

MCServeWidths == {<<2, 2>>}
Writing == [writes |-> 4, rows |-> 1, aborts |-> TRUE, queries |-> 0, cold |-> FALSE, cap |-> 8]
Wide == [writes |-> 3, rows |-> 2, aborts |-> TRUE, queries |-> 0, cold |-> FALSE, cap |-> 8]
Cold == [writes |-> 3, rows |-> 1, aborts |-> FALSE, queries |-> 1, cold |-> TRUE, cap |-> 12]
Clamped == [writes |-> 2, rows |-> 2, aborts |-> FALSE, queries |-> 1, cold |-> FALSE, cap |-> 8]

MCScenarios == {Writing, Wide, Cold, Clamped}
=============================================================================
