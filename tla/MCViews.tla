------------------------------ MODULE MCViews ------------------------------
(***************************************************************************)
(* A process with two writers that starts on a log of at most two entries; *)
(* the condition of conditional writes is "newer wins" on attribute a, or  *)
(* a = 2.  Each mode bounds one kind of trouble.                           *)
(***************************************************************************)
EXTENDS NamespaceViews

Upsert(id, n) == WalEntry(id :> Row(n), EmptyMap, {})

Two == <<Upsert(1, 11), WalEntry(EmptyMap, 1 :> Patch(12), {})>>

(* a < the new row's a, or a = 2 *)
MCCondition == Or(<<Cmp("a", "Lt", <<"ref", "a">>), Cmp("a", "Eq", <<"n", 2>>)>>)

Symmetry == Permutations(Writers)

Bound(c, k, d, e, i, l, w, r, x) ==
    [cold |-> c, kinds |-> k, conditional |-> d, elsewhere |-> e, ids |-> i,
     log |-> l, writes |-> w, reads |-> r, errors |-> x]

All == {"strong", "eventual", "export", "warm"}

(* three writes that may reach the view in any order; two documents, with  *)
(* a second process; conditional writes on an old and on a new namespace;  *)
(* eventual queries beside two writers; failing reads; no disk cache       *)
MCModes ==
    {Bound(FALSE, {"strong"}, {FALSE}, FALSE, {1}, <<>>, 3, 1, 0),
     Bound(FALSE, {"strong"}, {FALSE}, TRUE, {1, 2}, <<>>, 2, 1, 0),
     Bound(FALSE, {}, BOOLEAN, FALSE, {1}, Two, 2, 0, 0),
     Bound(FALSE, {}, BOOLEAN, FALSE, {1}, <<>>, 2, 0, 1),
     Bound(FALSE, {"strong", "eventual"}, {FALSE}, FALSE, {1}, Two, 2, 2, 0),
     Bound(FALSE, All, {FALSE}, TRUE, {1}, Two, 1, 2, 2),
     Bound(TRUE, All \ {"eventual"}, {FALSE}, FALSE, {1}, Two, 1, 2, 1)}

(* without disk cache an eventual query pins a view without documents *)
StaleModes == {Bound(TRUE, {"strong", "eventual"}, {FALSE}, FALSE, {1}, Two, 2, 2, 0)}
=============================================================================
