----------------------------- MODULE VectorQuery -----------------------------
(***************************************************************************)
(* Vector queries against the files of VectorIndex while index passes      *)
(* overwrite them: storage.rs finish_cold_vector_probes, which reads L0,   *)
(* then the L1 segments of the probed cells, then the probed clusters, by  *)
(* s3_batch.rs fetch_cold_vector_probed (no segment cache) or indexer.rs   *)
(* load_vector_index_probed_for_query.  Each round is a step; the objects  *)
(* have fixed names and carry no version.                                  *)
(*                                                                         *)
(* Which cells and centroids are nearest to the query vector is left open. *)
(* The files change in one phase of a pass only, so a query moves only     *)
(* where that makes a difference (QuietPhase).                             *)
(***************************************************************************)
EXTENDS VectorIndex

CONSTANTS PROBE_COARSE, PROBE_FINE,  \* widths a build writes into L0
          ServeWidths,               \* {<<coarse, fine>>} of the serving process
          Scenarios                  \* to explore together: [writes, rows, aborts, queries, cold,
                                     \* cap]; cap is OPENPUFFER_ANN_MAX_PROBE_CLUSTERS

VARIABLES query,     \* the query in flight
          queries,   \* queries begun
          scenario

queryVars == <<query, queries, scenario>>
allVars == <<vars, queryVars>>

NoQuery == [pc |-> "none"]

QueryInit ==
    /\ Init
    /\ query = NoQuery /\ queries = 0 /\ scenario \in Scenarios

QuietPhase == phase \in {"idle", "put", "commit"}

Touched == tail.deletes \cup {r[1] : r \in tail.rows}

(* L0 as decoded: the widths are those of the build, cut to its cells *)
stored_l0 ==
    LET k == Cardinality(Coarse(files))
    IN  [num_coarse |-> k, num_fine_total |-> num_fine_total(files), fine_counts |-> files.fine_counts,
         probe_coarse |-> Most(Least(PROBE_COARSE, k), 1), probe_fine |-> Most(PROBE_FINE, 1)]

(* load_vector_l0_for_query (widths of the process), fetch_cold_vector_l0  *)
(* and the clamp.  wants: the documents at index_cursor that the tail does *)
(* not touch, which the query can get from nowhere else.                   *)
ReadL0 ==
    /\ query.pc = "none" /\ queries < scenario.queries /\ QuietPhase
    /\ segment_id # 0 /\ num_fine_total(files) > 0
    /\ queries' = queries + 1
    /\ query' = [pc |-> "l1", l1 |-> Empty, fine_ids |-> {}, found |-> {},
                 l0 |-> clamp_probe_plan_for_query(
                          align_with_namespace_meta(stored_l0, V3, IF scenario.cold THEN {} ELSE ServeWidths),
                          scenario.cap),
                 wants |-> {<<id, live[id]>> : id \in DOMAIN live \ Touched},
                 overlapped |-> phase = "put"]
    /\ UNCHANGED <<vars, scenario>>

(* the L1 segments of the nearest cells: any, as many as the widths allow *)
l1_keys_for_query_probe(l0) == kSubset(probe_coarse_count(l0), Coarse(l0))

nearest_fine(l0, segment) ==
    kSubset(Least(probe_fine_count(l0, segment.num_fine), segment.num_fine), 0..(segment.num_fine - 1))

(* the global ids of the centroids near[c] of each probed cell; no index   *)
(* has routing segments, as a build makes at most MAX_FINE_PER_COARSE_V3   *)
(* (8) centroids in a v3 cell and splits them from 33 on                   *)
probe_fine_centroids_parts(l0, l1, near) ==
    UNION {{global_fine_id(l0, c, l) : l \in near[c]} : c \in DOMAIN l1}

(* the clusters of the nearest centroids, again any *)
cluster_keys_for_query(l0, l1) ==
    {probe_fine_centroids_parts(l0, l1, near) :
        near \in {n \in [DOMAIN l1 -> UNION {nearest_fine(l0, l1[c]) : c \in DOMAIN l1}] :
                    \A c \in DOMAIN l1 : n[c] \in nearest_fine(l0, l1[c])}}

(* without the cache every key of a round has to exist, unless its objects *)
(* are optional; with it the missing ones are left out                     *)
fetch_round(cold, optional, keys, objects) ==
    IF cold /\ ~optional /\ ~(keys \subseteq DOMAIN objects) THEN [ok |-> FALSE, got |-> Empty]
    ELSE [ok |-> TRUE, got |-> [k \in keys \cap DOMAIN objects |-> objects[k]]]

(* the round of the L1 segments, all of them required *)
ReadL1 ==
    /\ query.pc = "l1" /\ QuietPhase
    /\ \E keys \in l1_keys_for_query_probe(query.l0) :
          LET round1 == fetch_round(scenario.cold, FALSE, keys, files.l1)
          IN  query' = [query EXCEPT !.pc = IF round1.ok THEN "clusters" ELSE "failed", !.l1 = round1.got]
    /\ UNCHANGED <<vars, queries, scenario>>

(* the members of the clusters that were found *)
decode_clusters_probed(got) == UNION {got[f] : f \in DOMAIN got}

(* the round of the clusters: a centroid without members may have no object *)
ReadClusters ==
    /\ query.pc = "clusters" /\ QuietPhase
    /\ \E fine_ids \in cluster_keys_for_query(query.l0, query.l1) :
          LET round2 == fetch_round(scenario.cold, TRUE, fine_ids, files.clusters)
          IN  query' = [query EXCEPT !.pc = "done", !.fine_ids = fine_ids,
                                     !.found = decode_clusters_probed(round2.got)]
    /\ UNCHANGED <<vars, queries, scenario>>

Answer ==
    /\ query.pc \in {"done", "failed"}
    /\ query' = NoQuery
    /\ UNCHANGED <<vars, queries, scenario>>

(* a step of the namespace; the query notes whether a file was written.    *)
(* An answer leaves at once: nothing it holds can change any more.         *)
IndexStep ==
    /\ query.pc \notin {"done", "failed"}
    /\ \/ Next
       \/ scenario.aborts /\ Abort
    /\ ver' <= scenario.writes /\ Cardinality(tail'.rows) <= scenario.rows
    /\ query' = IF query.pc \in {"l1", "clusters"} /\ files' # files
                THEN [query EXCEPT !.overlapped = TRUE] ELSE query
    /\ UNCHANGED <<queries, scenario>>

QueryNext ==
    \/ IndexStep
    \/ ReadL0 \/ ReadL1 \/ ReadClusters \/ Answer

PassStep == PassSteps /\ IndexStep

Spec == QueryInit /\ [][QueryNext]_allVars
FairSpec == Spec /\ WF_allVars(PassStep) /\ WF_allVars(Answer)

-----------------------------------------------------------------------------
(* Properties.                                                             *)

(* Every centroid of every cell was probed: recall is not in question.     *)
Exhaustive ==
    /\ DOMAIN query.l1 = Coarse(query.l0)
    /\ Cardinality(query.fine_ids) = query.l0.num_fine_total

(* Between passes every document at index_cursor can be reached from L0    *)
(* through the L1 segments to its cluster, unless it was filed outside L0. *)
FilesComplete ==
    phase = "idle" =>
        LET l1  == [c \in Coarse(files) \cap DOMAIN files.l1 |-> files.l1[c]]
            all == probe_fine_centroids_parts(files, l1, [c \in DOMAIN l1 |-> 0..(l1[c].num_fine - 1)])
        IN  {<<id, live[id]>> : id \in DOMAIN live} \ beyond
                \subseteq UNION {files.clusters[f] : f \in all \cap DOMAIN files.clusters}

(* Whatever splits, merges, moves, rebuilds and dropped passes happened,   *)
(* the files are complete (write_vector_index), and a query that probes    *)
(* every centroid finds each document of the index that the tail does not  *)
(* touch, with its current vector, if no publication overlaps its three    *)
(* rounds of requests (finish_cold_vector_probes).  Only documents that    *)
(* apply_delta filed under an id L0 does not count, for a last coarse cell *)
(* without rows, are missed, and only until the next rebuild.              *)
QueryFindsIndexed ==
    /\ FilesComplete
    /\ query.pc = "done" /\ ~query.overlapped /\ Exhaustive => query.wants \ beyond \subseteq query.found

(* A query never fails for an L1 segment that is missing, even when an     *)
(* index pass publishes between its rounds: the L0 it read was written     *)
(* after the L1 segments it counts (write_vector_index, fetch_round).      *)
ProbeNeverFails == query.pc # "failed"

(* A pass ends, although the sharding step reports progress when it made   *)
(* none: split_oversized_clusters stops after MAX_ROUNDS.                  *)
PassEnds == phase # "idle" ~> phase = "idle"
=============================================================================
