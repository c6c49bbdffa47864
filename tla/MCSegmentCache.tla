--------------------------- MODULE MCSegmentCache ---------------------------
(***************************************************************************)
(* An instance for TLC of the two ways a process reads the bucket: through *)
(* the disk cache (SegmentCache, whose calls are interchangeable), or in   *)
(* rounds when there is none (ColdQuery).  A behaviour is of one or of the *)
(* other: NoRounds is the budget of the first.                             *)
(***************************************************************************)
EXTENDS SegmentCache, ColdQuery, TLC

CallSymmetry == Permutations(Calls)

NoRounds == [queries |-> 0, warms |-> 0]

MCColdBudgets == {NoRounds, [queries |-> 2, warms |-> 0], [queries |-> 0, warms |-> 1]}

MCInit == Init /\ ColdInit /\ (budget # NoRounds => ~ enabled)

Files == budget = NoRounds /\ meta = NoMeta /\ Next /\ UNCHANGED coldVars

Rounds == (budget # NoRounds \/ meta # NoMeta) /\ ColdNext /\ UNCHANGED vars

MCSpec == MCInit /\ [][Files \/ Rounds]_<<vars, coldVars>>
=============================================================================
