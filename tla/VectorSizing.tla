---------------------------- MODULE VectorSizing ----------------------------
(***************************************************************************)
(* The sizes of the two-level vector index and the widths of a probe       *)
(* (src/src/index/vector.rs): how many coarse and fine centroids a build   *)
(* makes, how many of them a query probes, and the clamp that keeps the    *)
(* objects of a query within a cap.                                        *)
(***************************************************************************)
EXTENDS Naturals

CONSTANTS SMALL_BUILD,   \* 32: up to this size one coarse cell, and every cluster is probed
          MIN_COARSE,    \* 4: v2 floor of coarse centroids
          MAX_COARSE_CENTROIDS,
          MAX_FINE_PER_COARSE,
          MIN_COARSE_V3, \* 8
          MAX_COARSE_CENTROIDS_V3,
          MAX_FINE_PER_COARSE_V3,
          V3_TARGET_DOCS_PER_COARSE,
          V3_INDEX_OBJECT_CAP

Least(a, b) == IF a <= b THEN a ELSE b
Most(a, b) == IF a >= b THEN a ELSE b
Less0(a, b) == IF a >= b THEN a - b ELSE 0  \* saturating_sub

(* (n as f64).sqrt().ceil() *)
CeilSqrt(n) == CHOOSE r \in 0..n : r * r >= n /\ \A q \in 0..r : q * q >= n => q = r

num_coarse_v2(n) ==
    IF n <= SMALL_BUILD THEN 1
    ELSE Least(Least(Most(CeilSqrt(n) \div 4, MIN_COARSE), n), MAX_COARSE_CENTROIDS)

num_fine_v2(n) == IF n = 0 THEN 0 ELSE Least(CeilSqrt(n), MAX_FINE_PER_COARSE)

num_fine_v3(n) == IF n = 0 THEN 0 ELSE Least(CeilSqrt(n), MAX_FINE_PER_COARSE_V3)

DivCeil(a, b) == (a + b - 1) \div b

v3_l1_cluster_object_count_estimate(n, k_coarse) ==
    k_coarse + k_coarse * num_fine_v3(DivCeil(n, k_coarse))

(* take the wanted number of cells, then one less until the objects fit *)
num_coarse_v3(n) ==
    LET wanted == Least(Most(n \div V3_TARGET_DOCS_PER_COARSE, MIN_COARSE_V3), MAX_COARSE_CENTROIDS_V3)
        shrink[k \in Nat] ==
            IF k > MIN_COARSE_V3 /\ v3_l1_cluster_object_count_estimate(n, k) >= V3_INDEX_OBJECT_CAP
            THEN shrink[k - 1] ELSE k
    IN  IF n <= SMALL_BUILD THEN 1 ELSE shrink[wanted]

num_coarse_for_version(n, v3) == IF n = 0 THEN 0 ELSE IF v3 THEN num_coarse_v3(n) ELSE num_coarse_v2(n)

num_fine_for_version(n, v3) == IF v3 THEN num_fine_v3(n) ELSE num_fine_v2(n)

-----------------------------------------------------------------------------
(* Probe widths.                                                           *)

cluster_get_upper_bound_for_probes(coarse, fine) ==
    Most(coarse, 1) + Most(coarse, 1) * Most(fine, 1) + 4

clamp_probe_widths_to_cluster_cap(coarse, fine, max_clusters) ==
    LET c0   == Most(coarse, 1)
        f0   == Most(fine, 1)
        room == [c \in Nat \ {0} |-> Most(Less0(Less0(max_clusters, 4), c) \div c, 1)]
        c1   == Least(c0, Most(Less0(max_clusters, 4) \div 2, 1))
        f1   == Most(Least(f0, room[c1]), 1)
        fits(c, f) == cluster_get_upper_bound_for_probes(c, f) <= max_clusters
        \* the loop of the last resort: one coarse cell less at a time
        down[c \in Nat] == IF c > 1 /\ ~fits(c, IF c = c1 THEN 1 ELSE room[c]) THEN down[c - 1] ELSE c
    IN  IF fits(c0, f0) THEN <<c0, f0>>
        ELSE IF fits(c1, f1) THEN <<c1, f1>>
        ELSE LET c == down[c1] IN <<Most(c, 1), IF c = c1 THEN 1 ELSE room[c]>>

(* the clamp applies to indexes that are not probed in full *)
clamp_probe_plan_for_query(l0, max_clusters) ==
    LET w == clamp_probe_widths_to_cluster_cap(l0.probe_coarse, l0.probe_fine, max_clusters)
    IN  IF l0.num_fine_total <= SMALL_BUILD THEN l0
        ELSE [l0 EXCEPT !.probe_coarse = w[1], !.probe_fine = w[2]]

(* once the namespace prefers v3, the widths of the process (a set of one, *)
(* or none: the cold path) replace those on disk                           *)
align_with_namespace_meta(l0, preferred_v3, widths) ==
    IF ~preferred_v3 \/ widths = {} THEN l0
    ELSE [l0 EXCEPT !.probe_coarse = (CHOOSE w \in widths : TRUE)[1],
                    !.probe_fine = (CHOOSE w \in widths : TRUE)[2]]

probe_coarse_count(l0) ==
    IF l0.num_fine_total <= SMALL_BUILD THEN l0.num_coarse
    ELSE Most(Least(l0.probe_coarse, l0.num_coarse), 1)

probe_fine_count(l0, num_fine) ==
    IF l0.num_fine_total <= SMALL_BUILD THEN num_fine
    ELSE Most(Least(l0.probe_fine, num_fine), 1)
=============================================================================
