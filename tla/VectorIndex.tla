----------------------------- MODULE VectorIndex -----------------------------
(***************************************************************************)
(* The vector index of one field (src/src/index/vector.rs) and its files   *)
(* (src/src/indexer.rs write_vector_index, load_vector_index_full...).     *)
(*                                                                         *)
(* Geometry is left open: which centroid is nearest, how k-means cuts a    *)
(* set and whether it can cut it at all are free choices.  What is kept is *)
(* the bookkeeping: the number of fine centroids per coarse cell, the      *)
(* global ids computed from it, the members of each cluster, and the order *)
(* in which the files are overwritten.  A member is <<id, version>>; two   *)
(* copies of it in one cluster count as one.                               *)
(*                                                                         *)
(* An index is a record                                                    *)
(*   fine_counts   coarse id -> number of fine centroids   (L0)            *)
(*   maintenance_passes                                    (L0)            *)
(*   l1            coarse id -> [global_id_start, num_fine]                *)
(*   clusters      fine id -> set of members, a partial function           *)
(***************************************************************************)
EXTENDS VectorSizing, Integers, Sequences, FiniteSets, FiniteSetsExt, TLC

CONSTANTS Ids,
          MAX_CLUSTER_MEMBERS, MERGE_CLUSTER_MAX_MEMBERS,
          REBUILD_SCHEDULED_MAINTENANCE_PASSES, REBUILD_DOC_MULTIPLIER,
          MAX_ROUNDS,   \* rounds of split_oversized_clusters, 128
          V3,           \* ann_version >= ANN_VERSION_V3
          MaxWrites,    \* committed WAL entries
          MaxRows,      \* rows upserted in one range
          MaxDrift,     \* members that a pass finds drifted
          AbortPhases   \* where a pass may be dropped

VARIABLES docs,     \* id -> version: what the log holds
          live,     \* the same at index_cursor
          tail,     \* [rows, deletes] of the range not yet indexed
          ver,      \* writes so far
          idx,      \* the index in the memory of the indexer
          files,    \* the objects in the bucket
          segment_id,  \* of the field in meta.json, 0 until it is indexed
          phase,    \* where the index pass is
          todo,     \* cluster ids or files the phase has still to treat
          round, moved, \* split_oversized_clusters: round, progress in it
          beyond    \* history: members filed outside the ids of L0 since the last build

vars == <<docs, live, tail, ver, idx, files, segment_id, phase, todo, round, moved, beyond>>
pass == <<idx, phase, todo, round, moved>>

Empty == [x \in {} |-> x]
NoTail == [rows |-> {}, deletes |-> {}]
NoIndex == [fine_counts |-> Empty, maintenance_passes |-> 0, l1 |-> Empty, clusters |-> Empty]

-----------------------------------------------------------------------------
(* Ids and members.                                                        *)

Coarse(x) == DOMAIN x.fine_counts
num_fine_total(x) == FoldSet(LAMBDA c, n : n + x.fine_counts[c], 0, Coarse(x))

global_id_start(x, coarse) ==
    FoldSet(LAMBDA c, n : n + x.fine_counts[c], 0, {c \in Coarse(x) : c < coarse})

global_fine_id(x, coarse, local) == global_id_start(x, coarse) + local

(* the coarse cell a global id falls into, or none *)
coarse_local_from_global(x, fine) ==
    {c \in Coarse(x) : fine \in global_id_start(x, c)..(global_id_start(x, c) + x.fine_counts[c] - 1)}

Members(x) == UNION {x.clusters[f] : f \in DOMAIN x.clusters}
doc_count(x) == FoldSet(LAMBDA f, n : n + Cardinality(x.clusters[f]), 0, DOMAIN x.clusters)
Load(x, fine) == IF fine \in DOMAIN x.clusters THEN Cardinality(x.clusters[fine]) ELSE 0

(* what nearest_fine may return in a cell: any local id, 0 if it has none *)
NearestFine(x, coarse) == IF x.l1[coarse].num_fine = 0 THEN {0} ELSE 0..(x.l1[coarse].num_fine - 1)

Put(map, key, value) == (key :> value) @@ map
AddTo(x, fine, ms) == Put(x.clusters, fine, ms \cup (IF fine \in DOMAIN x.clusters THEN x.clusters[fine] ELSE {}))

prune_empty_clusters(x) ==
    [x EXCEPT !.clusters = [f \in {g \in DOMAIN @ : @[g] # {}} |-> @[f]]]

Oversized(x) == {f \in DOMAIN x.clusters : Cardinality(x.clusters[f]) > MAX_CLUSTER_MEMBERS}
Tiny(x) == {f \in DOMAIN x.clusters : Cardinality(x.clusters[f]) \in 1..MERGE_CLUSTER_MAX_MEMBERS}

max_fine_per_coarse == IF V3 THEN MAX_FINE_PER_COARSE_V3 ELSE MAX_FINE_PER_COARSE

(* while a cluster of the cell is too large, the v2 cap counts *)
can_add_fine_centroid_for_split(x, c) ==
    LET cell == {f \in Oversized(x) : c \in coarse_local_from_global(x, f)}
    IN  x.fine_counts[c] < IF cell = {} THEN max_fine_per_coarse ELSE MAX_FINE_PER_COARSE

needs_full_rebuild(x) ==
    \/ num_fine_total(x) = 0 \/ doc_count(x) = 0
    \/ x.maintenance_passes >= REBUILD_SCHEDULED_MAINTENANCE_PASSES
    \/ /\ \A c \in Coarse(x) : x.fine_counts[c] >= max_fine_per_coarse
       /\ doc_count(x) > num_fine_total(x) * REBUILD_DOC_MULTIPLIER

-----------------------------------------------------------------------------
(* Writes and their delta.                                                 *)

Init ==
    /\ docs = Empty /\ live = Empty /\ tail = NoTail /\ ver = 0
    /\ idx = NoIndex /\ files = NoIndex /\ segment_id = 0
    /\ phase = "idle" /\ todo = {} /\ round = 0 /\ moved = FALSE /\ beyond = {}

(* an acknowledged write: rows of one WAL entry and ids it deletes *)
Write(upserts, deletes) ==
    /\ phase = "idle" /\ ver < MaxWrites /\ upserts \cup deletes # {}
    /\ Cardinality(tail.rows) + Cardinality(upserts) <= MaxRows
    /\ ver' = ver + 1
    /\ docs' = [id \in (DOMAIN docs \ deletes) \cup upserts |-> IF id \in upserts THEN ver' ELSE docs[id]]
    /\ tail' = [rows |-> tail.rows \cup (upserts \X {ver'}), deletes |-> tail.deletes \cup deletes]
    /\ UNCHANGED <<live, files, segment_id, beyond, pass>>

(* the last row of each id in the range *)
LastRows == {r \in tail.rows : \A q \in tail.rows : q[1] = r[1] => q[2] <= r[2]}

Enter(p) == phase' = p /\ todo' = {} /\ round' = 0 /\ moved' = FALSE

-----------------------------------------------------------------------------
(* VectorIndex::build over a set of rows.  k-means may leave a coarse cell *)
(* without rows; it keeps its centroid, and has no fine ones.              *)

BuiltIndex(rows, coarse, fine) ==
    LET k == num_coarse_for_version(Cardinality(rows), V3)
        cell(c) == {r \in rows : coarse[r] = c}
        x == [NoIndex EXCEPT !.fine_counts =
                [c \in 0..(k - 1) |-> num_fine_for_version(Cardinality(cell(c)), V3)]]
        id(r) == global_fine_id(x, coarse[r], fine[r])
    IN  [x EXCEPT !.l1 = [c \in 0..(k - 1) |->
                             [global_id_start |-> global_id_start(x, c), num_fine |-> x.fine_counts[c]]],
                  !.clusters = [f \in {id(r) : r \in rows} |-> {r \in rows : id(r) = f}]]

build(rows) ==
    LET k == num_coarse_for_version(Cardinality(rows), V3)
        most == num_fine_for_version(Cardinality(rows), V3)
    IN  \E coarse \in [rows -> 0..(k - 1)], fine \in [rows -> 0..(most - 1)] :
            /\ \A r \in rows : fine[r] < BuiltIndex(rows, coarse, [q \in rows |-> 0]).fine_counts[coarse[r]]
            /\ idx' = BuiltIndex(rows, coarse, fine)

(* the first pass of a field: the rows of the range, deletes ignored *)
FirstBuild ==
    /\ phase = "idle" /\ tail # NoTail /\ segment_id = 0
    /\ IF tail.rows = {} THEN UNCHANGED <<idx>> /\ Enter("commit")
       ELSE build(tail.rows) /\ Enter("publish")
    /\ UNCHANGED <<docs, live, tail, ver, files, segment_id, beyond>>

-----------------------------------------------------------------------------
(* apply_delta on the index loaded from the files.                         *)

load_vector_index_full_for_field ==
    [files EXCEPT !.l1 = [c \in Coarse(files) |-> @[c]],
                  !.clusters = [f \in DOMAIN @ \cap 0..(num_fine_total(files) - 1) |-> @[f]]]

remove_doc(x, ids) ==
    [x EXCEPT !.clusters = [f \in DOMAIN @ |-> {m \in @[f] : m[1] \notin ids}]]

apply_delta ==
    /\ phase = "idle" /\ tail # NoTail /\ segment_id # 0
    /\ LET x    == remove_doc(load_vector_index_full_for_field,
                              tail.deletes \cup {r[1] : r \in tail.rows})
           spots == UNION {{global_fine_id(x, c, l) : l \in NearestFine(x, c)} : c \in Coarse(x)}
       IN  \E at \in [LastRows -> spots] :  \* assign_doc_to_nearest
              idx' = prune_empty_clusters(
                       [x EXCEPT !.maintenance_passes = @ + 1,
                                 !.clusters = [f \in DOMAIN @ \cup {at[r] : r \in LastRows} |->
                                     (IF f \in DOMAIN @ THEN @[f] ELSE {})
                                       \cup {r \in LastRows : at[r] = f}]])
    /\ Enter("split")
    /\ UNCHANGED <<docs, live, tail, ver, files, segment_id, beyond>>

-----------------------------------------------------------------------------
(* run_incremental_maintenance: split, merge, reassign, split.             *)

Splitting == phase \in {"split", "split2"}

(* a new fine centroid at the end of cell c; ids behind it move up by one *)
append_fine_centroid(x, c) ==
    LET pivot == global_id_start(x, c) + x.l1[c].num_fine
        old(f) == IF f > pivot THEN f - 1 ELSE f
        ids == {f \in DOMAIN x.clusters : f < pivot} \cup {f + 1 : f \in {g \in DOMAIN x.clusters : g >= pivot}}
    IN  [x EXCEPT !.fine_counts[c] = @ + 1,
                  !.l1 = [d \in DOMAIN @ |->
                            IF d = c THEN [@[d] EXCEPT !.num_fine = @ + 1]
                            ELSE IF d > c THEN [@[d] EXCEPT !.global_id_start = @ + 1] ELSE @[d]],
                  !.clusters = [f \in ids |-> @[old(f)]]]

try_binary_split_oversized_cluster(f) ==
    /\ Splitting /\ todo = {} /\ round < MAX_ROUNDS
    /\ f \in Oversized(idx)
    /\ \E c \in coarse_local_from_global(idx, f) :
        /\ can_add_fine_centroid_for_split(idx, c)
        /\ \E part \in SUBSET idx.clusters[f] \ {{}, idx.clusters[f]} :
              LET new == global_fine_id(idx, c, idx.l1[c].num_fine)
                  x   == append_fine_centroid(idx, c)
              IN  idx' = [x EXCEPT !.clusters = Put(Put(@, f, idx.clusters[f] \ part), new, part)]
    /\ moved' = TRUE
    /\ UNCHANGED <<docs, live, tail, ver, files, segment_id, phase, todo, round, beyond>>

(* no (more) binary split: another round if there was one, else the shards *)
EndOfBinarySplits ==
    /\ Splitting /\ todo = {} /\ round < MAX_ROUNDS /\ Oversized(idx) # {}
    /\ moved' = FALSE
    /\ IF moved THEN round' = round + 1 /\ UNCHANGED todo
                ELSE todo' = Oversized(idx) /\ UNCHANGED round
    /\ UNCHANGED <<docs, live, tail, ver, idx, files, segment_id, phase, beyond>>

(* Variant: no bound on the rounds. *)
UnboundedRounds(f) == UNCHANGED round

(* a round is over when its last cluster has been treated *)
CountRound(f) ==
    IF todo = {f} THEN round' = round + 1 ELSE UNCHANGED round

(* spread the members over the existing fine centroids of the cell; all of *)
(* them may land on one, and it counts as progress all the same            *)
try_multishard_oversized_cluster(f) ==
    /\ Splitting /\ f \in todo
    /\ todo' = todo \ {f}
    /\ CountRound(f)
    /\ IF f \in Oversized(idx) /\ coarse_local_from_global(idx, f) # {}
       THEN \E c \in coarse_local_from_global(idx, f) :
              LET ms == idx.clusters[f]
                  n  == Most(idx.l1[c].num_fine, 1)
                  k  == Least(Least(Most(Least(n, DivCeil(Cardinality(ms), MAX_CLUSTER_MEMBERS)), 2), n),
                              Cardinality(ms))
                  x  == [idx EXCEPT !.clusters = [g \in DOMAIN @ \ {f} |-> @[g]]]
              IN  \E at \in [ms -> {global_fine_id(idx, c, l) : l \in 0..(k - 1)}] :
                    idx' = [x EXCEPT !.clusters = [g \in DOMAIN @ \cup {at[m] : m \in ms} |->
                              (IF g \in DOMAIN @ THEN @[g] ELSE {}) \cup {m \in ms : at[m] = g}]]
       ELSE UNCHANGED idx
    /\ UNCHANGED <<docs, live, tail, ver, files, segment_id, phase, moved, beyond>>

EndOfSplit ==
    /\ Splitting /\ todo = {} /\ (Oversized(idx) = {} \/ round >= MAX_ROUNDS)
    /\ IF phase = "split"
       THEN phase' = "merge" /\ todo' = Tiny(idx)
       ELSE phase' = "rebuild?" /\ todo' = {}
    /\ round' = 0 /\ moved' = FALSE
    /\ UNCHANGED <<docs, live, tail, ver, idx, files, segment_id, beyond>>

(* Variant: the cluster is dropped when the target has no room. *)
MergeDropsFull(x, f, target) ==
    IF target = f THEN x
    ELSE LET y == [x EXCEPT !.clusters = [g \in DOMAIN @ \ {f} |-> @[g]]]
         IN  IF Load(x, target) + Load(x, f) > MAX_CLUSTER_MEMBERS THEN y
             ELSE [y EXCEPT !.clusters = AddTo(y, target, x.clusters[f])]

MergeInto(x, f, target) ==
    IF target = f \/ Load(x, target) + Load(x, f) > MAX_CLUSTER_MEMBERS THEN x
    ELSE LET y == [x EXCEPT !.clusters = [g \in DOMAIN @ \ {f} |-> @[g]]]
         IN  [y EXCEPT !.clusters = AddTo(y, target, x.clusters[f])]

merge_tiny_clusters(f) ==
    /\ phase = "merge" /\ f \in todo
    /\ todo' = todo \ {f}
    /\ \/ coarse_local_from_global(idx, f) = {} /\ UNCHANGED idx
       \/ \E c \in coarse_local_from_global(idx, f) : \E l \in NearestFine(idx, c) :
             idx' = IF Load(idx, f) = 0 THEN idx ELSE MergeInto(idx, f, global_fine_id(idx, c, l))
    /\ UNCHANGED <<docs, live, tail, ver, files, segment_id, phase, round, moved, beyond>>

(* members move to another centroid of their cell that has room, all       *)
(* decided on the loads before the first move; a move takes the first copy *)
(* of the document it comes upon.  Then refresh_fine_centroids (geometry   *)
(* only) and prune_empty_clusters                                          *)
reassign_drifted_members ==
    /\ phase = "merge" /\ todo = {}
    /\ LET copies == UNION {{f} \X idx.clusters[f] : f \in DOMAIN idx.clusters}
           mayGo(id) == UNION {
               {global_fine_id(idx, c, l) : l \in NearestFine(idx, c)}
                   \cap {g \in 0..num_fine_total(idx) : Load(idx, g) < MAX_CLUSTER_MEMBERS} :
               c \in UNION {coarse_local_from_global(idx, q[1]) : q \in {p \in copies : p[2][1] = id}}}
       IN  \E taken \in {ps \in SUBSET copies : Cardinality(ps) <= MaxDrift} :
           \E to \in [taken -> UNION {mayGo(p[2][1]) : p \in taken}] :
              /\ \A p \in taken : to[p] \in mayGo(p[2][1])
              /\ idx' = prune_empty_clusters([idx EXCEPT !.clusters =
                    [f \in DOMAIN @ \cup {to[p] : p \in taken} |->
                        (IF f \in DOMAIN @ THEN {m \in @[f] : <<f, m>> \notin taken} ELSE {})
                           \cup {p[2] : p \in {q \in taken : to[q] = f}}]])
    /\ Enter("split2")
    /\ UNCHANGED <<docs, live, tail, ver, files, segment_id, beyond>>

(* needs_full_rebuild: build again from all documents of the log *)
MaybeRebuild ==
    /\ phase = "rebuild?"
    /\ LET rows == {<<id, docs[id]>> : id \in DOMAIN docs}
       IN  IF needs_full_rebuild(idx) /\ rows # {} THEN build(rows) ELSE UNCHANGED idx
    /\ Enter("publish")
    /\ UNCHANGED <<docs, live, tail, ver, files, segment_id, beyond>>

-----------------------------------------------------------------------------
(* write_vector_index: L1 segments, clusters, L0 last; one PUT per step.   *)
(* Only clusters that exist are written, and no object is deleted.         *)

StartWriting ==
    /\ phase = "publish"
    /\ phase' = "put" /\ todo' = {<<"l1", c>> : c \in DOMAIN idx.l1} \cup {<<"cluster", f>> : f \in DOMAIN idx.clusters}
    /\ UNCHANGED <<docs, live, tail, ver, idx, files, segment_id, round, moved, beyond>>

(* Variant: clusters that were written before are not written again. *)
PutNewOnly(key) ==
    IF key[1] = "l1" THEN [files EXCEPT !.l1 = Put(@, key[2], idx.l1[key[2]])]
    ELSE IF key[2] \in DOMAIN files.clusters THEN files
    ELSE [files EXCEPT !.clusters = Put(@, key[2], idx.clusters[key[2]])]

PutFile(key) ==
    IF key[1] = "l1" THEN [files EXCEPT !.l1 = Put(@, key[2], idx.l1[key[2]])]
    ELSE [files EXCEPT !.clusters = Put(@, key[2], idx.clusters[key[2]])]

(* the maps have no order; every order ends the same, the model takes one *)
NextKey == CHOOSE k \in todo : \A q \in todo :
              \/ k[1] = "l1" /\ q[1] = "cluster"
              \/ k[1] = q[1] /\ k[2] <= q[2]

(* Variant: L0 first. *)
WriteL0First ==
    /\ phase = "put"
    /\ IF files.fine_counts # idx.fine_counts
       THEN /\ files' = [files EXCEPT !.fine_counts = idx.fine_counts,
                                      !.maintenance_passes = idx.maintenance_passes]
            /\ UNCHANGED <<phase, todo>>
       ELSE IF todo # {} THEN files' = PutFile(NextKey) /\ todo' = todo \ {NextKey} /\ UNCHANGED phase
       ELSE phase' = "commit" /\ UNCHANGED <<files, todo>>
    /\ UNCHANGED <<docs, live, tail, ver, idx, segment_id, round, moved, beyond>>

write_vector_index ==
    /\ phase = "put"
    /\ IF todo # {}
       THEN files' = PutFile(NextKey) /\ todo' = todo \ {NextKey} /\ UNCHANGED phase
       ELSE /\ files' = [files EXCEPT !.fine_counts = idx.fine_counts,
                                      !.maintenance_passes = idx.maintenance_passes]
            /\ phase' = "commit" /\ UNCHANGED todo
    /\ UNCHANGED <<docs, live, tail, ver, idx, segment_id, round, moved, beyond>>

(* Members under an id that L0 does not count: a row nearest to a last     *)
(* cell without fine centroids is filed there, and no load or probe reads  *)
(* that object.                                                            *)
Outside(x) == UNION {x.clusters[f] : f \in {g \in DOMAIN x.clusters : g >= num_fine_total(x)}}

(* the swap of meta.json: the range counts as indexed *)
CommitIndex ==
    /\ phase = "commit"
    /\ live' = docs /\ tail' = NoTail /\ idx' = NoIndex
    /\ segment_id' = IF idx = NoIndex THEN segment_id ELSE ver
    /\ beyond' = IF idx # NoIndex /\ idx.maintenance_passes = 0 THEN {} ELSE beyond \cup Outside(idx)
    /\ Enter("idle")
    /\ UNCHANGED <<docs, ver, files>>

(* the time slice ends, a request fails or the process stops *)
Abort ==
    /\ phase \in AbortPhases
    /\ idx' = NoIndex /\ Enter("idle")
    /\ UNCHANGED <<docs, live, tail, ver, files, segment_id, beyond>>

PassSteps ==
    \/ \E f \in 0..num_fine_total(idx) :
          \/ try_binary_split_oversized_cluster(f)
          \/ try_multishard_oversized_cluster(f)
          \/ merge_tiny_clusters(f)
    \/ EndOfBinarySplits \/ EndOfSplit \/ reassign_drifted_members
    \/ MaybeRebuild \/ StartWriting \/ write_vector_index \/ CommitIndex

Next ==
    \/ \E upserts \in SUBSET Ids : \E deletes \in SUBSET (DOMAIN docs \ upserts) : Write(upserts, deletes)
    \/ FirstBuild \/ apply_delta
    \/ PassSteps

-----------------------------------------------------------------------------
(* Properties.                                                             *)

(* Types; clusters of the index in memory lie inside the ids of L0, or     *)
(* right behind them.                                                      *)
TypeOK ==
    /\ DOMAIN docs \subseteq Ids /\ DOMAIN live \subseteq Ids
    /\ phase \in {"idle", "split", "merge", "split2", "rebuild?", "publish", "put", "commit"}
    /\ round \in 0..MAX_ROUNDS
    /\ DOMAIN idx.clusters \subseteq 0..num_fine_total(idx)
    /\ \A f \in DOMAIN idx.clusters : idx.clusters[f] \subseteq Ids \X (1..MaxWrites)
    /\ \A f \in DOMAIN files.clusters : files.clusters[f] \subseteq Ids \X (1..MaxWrites)

(* The ids agree: each L1 segment starts where L0's fine_counts say, and   *)
(* has as many centroids.                                                  *)
OffsetsAgree ==
    \A c \in DOMAIN idx.l1 : idx.l1[c] =
        [global_id_start |-> global_id_start(idx, c), num_fine |-> idx.fine_counts[c]]

(* The clusters a member is in.                                            *)
Holding(x, m) == {f \in DOMAIN x.clusters : m \in x.clusters[f]}

(* Maintenance loses no member and makes no copies: after any number of    *)
(* splits, merges and moves each member of the loaded index that the delta *)
(* leaves alone, and the last row of each upserted id, is in some cluster, *)
(* and in no more of them than the files had it in (they do have copies:   *)
(* the file of a merged-away cluster stays and is loaded again); and       *)
(* append_fine_centroid keeps L0 and L1 in step on the way.                *)
MaintenanceKeepsMembers ==
    /\ OffsetsAgree
    /\ phase \in {"split", "merge", "split2", "rebuild?"} =>
          LET gone == tail.deletes \cup {r[1] : r \in tail.rows}
              loaded == remove_doc(load_vector_index_full_for_field, gone)
          IN  /\ Members(idx) = Members(loaded) \cup LastRows
              /\ \A m \in Members(idx) :
                    Cardinality(Holding(idx, m)) <= Most(Cardinality(Holding(loaded, m)), 1)
=============================================================================
