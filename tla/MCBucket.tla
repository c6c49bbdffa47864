------------------------------ MODULE MCBucket ------------------------------
(***************************************************************************)
(* Two namespaces.  Each behaviour draws on one of the budgets: the tick   *)
(* between two lagging namespaces, with a failure; a delete and the same   *)
(* name written again; a copy while the source is written; a listing       *)
(* beside a delete or a copy.  Queries only move the pinned view, so they  *)
(* are left out where the view plays no part.                              *)
(***************************************************************************)
EXTENDS Bucket

Budget(a, b, delete, copy, list, failure, query) ==
    [writes |-> [ns \in Namespaces |-> IF ns = "a" THEN a ELSE b],
     delete |-> delete, copy |-> copy, list |-> list, failure |-> failure, query |-> query]

Sharing == {Budget(2, 1, 0, 0, 0, 0, FALSE), Budget(1, 1, 0, 0, 0, 1, FALSE)}
Deleting == {Budget(2, 0, 1, 0, 0, 0, TRUE)}
Cloning == {Budget(2, 0, 0, 1, 0, 0, FALSE), Budget(1, 0, 0, 1, 0, 0, TRUE)}
Listing == {Budget(1, 0, 0, 1, 1, 0, FALSE), Budget(1, 0, 1, 0, 1, 0, FALSE)}

MCBudgets == Sharing \cup Deleting \cup Cloning \cup Listing
=============================================================================
