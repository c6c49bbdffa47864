----------------------------- MODULE MCNamespace -----------------------------
(***************************************************************************)
(* Instances of Namespace for TLC.                                         *)
(***************************************************************************)
EXTENDS NamespaceInv, TLC

CONSTANTS p1, p2, f1, f2, x1, x2, r1

(* One server process runs every task.                                     *)
HostOne == [t \in Task |-> p1]

(* Two server processes; the tasks named here run in the second.           *)
HostTwo == [t \in Task |-> IF t \in {f2, x2} THEN p2 ELSE p1]

(* Batches are interchangeable, and so are the flush tasks of a process.   *)
BatchSymmetry == Permutations(Entry)
TaskSymmetry == Permutations(Entry) \cup Permutations(Flusher)
=============================================================================
