--------------------------- MODULE MCGroupCommit ---------------------------
(* Instances of GroupCommit for TLC.                                       *)
EXTENDS GroupCommit, TLC

CONSTANTS w1, w2, w3, g1, g2, g3

Quota(errors, overlays, drops, flush_alls, clash) ==
    [errors |-> errors, overlays |-> overlays, drops |-> drops,
     flush_alls |-> flush_alls, clash |-> clash]

(* flush_all while an append fails; a buffer dropped and read, with a write *)
(* whose schema patch is refused                                            *)
SafetyQuotas == {Quota(1, 0, 0, 1, {}), Quota(0, 1, 1, 0, {w3})}

LiveQuotas == {Quota(1, 0, 0, 0, {})}
QuietQuotas == {Quota(0, 0, 0, 0, {})}
DropQuotas == {Quota(0, 0, 1, 0, {})}

FlushSymmetry == Permutations(Flush)
=============================================================================
