----------------------------- MODULE ColdQuery -----------------------------
(***************************************************************************)
(* A query in a process without a disk cache (src/src/s3_batch.rs, the     *)
(* cold branches of src/src/storage.rs and src/src/view.rs): it reads      *)
(* meta.json once and then fetches, round by round, the objects that meta  *)
(* names, while the writer of the namespace appends, indexes and compacts. *)
(* The preview of its rounds (debug_cold_plan) and the warm call           *)
(* (src/src/warm.rs) work from the same meta.                              *)
(*                                                                         *)
(* Objects are their keys.  What a commit, an index pass and a catch_up do *)
(* in between is the subject of other modules; here each is one step.      *)
(***************************************************************************)
EXTENDS Naturals, Sequences, FiniteSets

CONSTANTS VectorFields,
          Coarse, EmptyCells,       \* coarse cells of an index; those whose cluster has no object
          COLD_MAX_KEYS_PER_ROUND,
          WAL_WARM_MAX_SEGMENTS,
          WAL_COMPACTION_THRESHOLD, WAL_COMPACT_KEEP,
          MaxCommits,
          ColdBudgets               \* how many queries and warm calls: [queries, warms]

ASSUME ColdAssumption ==
    /\ IsFiniteSet(VectorFields)
    /\ COLD_MAX_KEYS_PER_ROUND \in Nat \ {0}
    /\ {WAL_WARM_MAX_SEGMENTS, WAL_COMPACTION_THRESHOLD, WAL_COMPACT_KEEP, MaxCommits} \subseteq Nat

VARIABLES meta, objects,            \* the namespace in the bucket
          compaction,               \* the compaction of its writer
          view,                     \* what the process has pinned
          query, warm,
          budget

coldVars == <<meta, objects, compaction, view, query, warm, budget>>

Wal(seq) == <<"wal", seq>>
Snapshot == <<"snapshot">>
Fts(cursor) == <<"fts", cursor>>
Filter(cursor) == <<"filter", cursor>>
L0(field) == <<"l0", field>>
L1(field, cell) == <<"l1", field, cell>>
ClusterOf(field, cell) == <<"cluster", field, cell>>

NoMeta == [wal_commit_seq |-> 0, index_cursor |-> 0, wal_snapshot_seq |-> 0, vector_fields |-> {}]
NoView == [pinned |-> FALSE, meta |-> NoMeta, last_applied |-> 0]
NoQuery == [pc |-> "idle", strong |-> FALSE, probes |-> {}, near |-> 0, left |-> {}, field |-> "none",
            opened |-> FALSE, first |-> NoMeta, meta |-> NoMeta, todo |-> <<>>, got |-> {},
            rounds |-> 0, keys |-> 0, made |-> {}, gets |-> 0, behind |-> 0, missing |-> <<>>, raced |-> FALSE]
NoWarm == [pc |-> "idle", meta |-> NoMeta, todo |-> <<>>, got |-> {}, wal_segments |-> 0, raced |-> FALSE]

ColdInit ==
    /\ meta = NoMeta /\ objects = {}
    /\ compaction = [pc |-> "idle", left |-> <<>>]
    /\ view = NoView /\ query = NoQuery /\ warm = NoWarm
    /\ budget \in ColdBudgets

-----------------------------------------------------------------------------
(* The writer.  A compaction holds the commit lock to its last delete.     *)

append_wal ==
    /\ compaction.pc = "idle" /\ meta.wal_commit_seq < MaxCommits
    /\ meta' = [meta EXCEPT !.wal_commit_seq = @ + 1]
    /\ objects' = objects \union {Wal(meta.wal_commit_seq + 1)}
    /\ UNCHANGED <<compaction, view, query, warm, budget>>

IndexFiles(to, fields) ==
    {Fts(to), Filter(to)} \union {L0(f) : f \in fields} \union {L1(f, c) : f \in fields, c \in Coarse}
    \union {ClusterOf(f, c) : f \in fields, c \in Coarse \ EmptyCells}

(* A pass indexes up to `to` and publishes an index for each of `fields`. *)
IndexPass ==
    /\ compaction.pc = "idle"
    /\ \E to \in meta.index_cursor + 1..meta.wal_commit_seq, fields \in SUBSET VectorFields :
          /\ meta' = [meta EXCEPT !.index_cursor = to, !.vector_fields = @ \union fields]
          /\ objects' = objects \union IndexFiles(to, fields)
    /\ UNCHANGED <<compaction, view, query, warm, budget>>

needs_wal_compaction(m) ==
    /\ m.index_cursor >= m.wal_commit_seq
    /\ m.wal_commit_seq > WAL_COMPACTION_THRESHOLD
    /\ m.index_cursor > WAL_COMPACT_KEEP
    /\ m.wal_snapshot_seq < m.index_cursor

CompactPut ==
    /\ compaction.pc = "idle" /\ needs_wal_compaction(meta)
    /\ objects' = objects \union {Snapshot}
    /\ compaction' = [compaction EXCEPT !.pc = "commit"]
    /\ UNCHANGED <<meta, view, query, warm, budget>>

CompactCommit ==
    /\ compaction.pc = "commit"
    /\ meta' = [meta EXCEPT !.wal_snapshot_seq = meta.index_cursor]
    /\ compaction' = [pc |-> "delete", left |-> [seq \in 1..meta.index_cursor - WAL_COMPACT_KEEP |-> seq]]
    /\ UNCHANGED <<objects, view, query, warm, budget>>

(* A call in progress is `raced` once a segment goes that it may read. *)
CompactDelete ==
    /\ compaction.pc = "delete"
    /\ LET key == Wal(Head(compaction.left)) IN
       /\ objects' = objects \ {key}
       /\ query' = [query EXCEPT !.raced = @ \/ (query.pc # "idle" /\ key \in objects)]
       /\ warm' = [warm EXCEPT !.raced = @ \/ (warm.pc # "idle" /\ key \in objects)]
    /\ compaction' = [pc |-> IF Len(compaction.left) = 1 THEN "idle" ELSE "delete",
                      left |-> Tail(compaction.left)]
    /\ UNCHANGED <<meta, view, budget>>

Writer == append_wal \/ IndexPass \/ CompactPut \/ CompactCommit \/ CompactDelete

-----------------------------------------------------------------------------
(* The keys of each round, from meta *)

WalRange(from, to) == [i \in 1..(to + 1 - from) |-> Wal(from + i - 1)]

(* Variant: a compacted log is replayed from its first segment. *)
ReplayFromFirst(m) == 1

wal_commit_replay_from(m) == IF m.wal_snapshot_seq > 0 THEN m.wal_snapshot_seq + 1 ELSE 1

SnapshotKey(m) == IF m.wal_snapshot_seq > 0 THEN <<Snapshot>> ELSE <<>>

wal_round_keys(m) ==
    SnapshotKey(m) \o WalRange(wal_commit_replay_from(m), m.wal_commit_seq)

(* The latest FTS and filter segments; both carry the cursor as their id. *)
round2_bootstrap_keys(m) ==
    IF m.index_cursor > 0 THEN <<Filter(m.index_cursor), Fts(m.index_cursor)>> ELSE <<>>

KeySet(keys) == {keys[i] : i \in DOMAIN keys}

(* in the order of a map: any *)
l0_keys_for_meta(m) ==
    LET files == {L0(f) : f \in m.vector_fields} IN
    CHOOSE keys \in [1..Cardinality(files) -> files] : KeySet(keys) = files

l1_keys_for_query_probe(field, near) == <<L1(field, near)>>

cluster_keys_for_query(field, near) == <<ClusterOf(field, near)>>

(* Variant: the tail begins after the first segment that is not indexed. *)
TailFromNext(m) ==
    IF m.index_cursor >= m.wal_commit_seq THEN <<>> ELSE WalRange(m.index_cursor + 2, m.wal_commit_seq)

unindexed_wal_tail_keys(m) ==
    IF m.index_cursor >= m.wal_commit_seq THEN <<>>
    ELSE WalRange(IF m.wal_snapshot_seq > 0 THEN m.wal_snapshot_seq + 1 ELSE m.index_cursor + 1, m.wal_commit_seq)


(* plan_cold_query as debug_cold_plan asks for it: no L1 is loaded, so     *)
(* round 3 has no clusters, and the fetch of the L0 files is in no round.  *)
plan_cold_query(m, strong, pinned, probes, near) ==
    [round1 |-> IF strong /\ ~ pinned THEN KeySet(wal_round_keys(m)) ELSE {},
     round2 |-> KeySet(round2_bootstrap_keys(m)),
     round3 |-> UNION {KeySet(l1_keys_for_query_probe(f, near)) : f \in probes \intersect m.vector_fields},
     round4 |-> IF strong THEN KeySet(unindexed_wal_tail_keys(m)) ELSE {}]

cold_plan_storage_roundtrips(plan) == Cardinality({r \in DOMAIN plan : plan[r] # {}})

-----------------------------------------------------------------------------
(* The query.  `made` and `gets` are what it has sent to the bucket,       *)
(* `rounds` and `keys` what it reports; `behind` is the number of batches  *)
(* that its view did not have when it was caught up.                       *)

(* query_namespace; the views stay locked until the view is pinned *)
StartQuery ==
    /\ query.pc = "idle" /\ warm.pc = "idle" /\ budget.queries > 0 /\ meta.wal_commit_seq > 0
    /\ \E strong \in BOOLEAN, probes \in SUBSET VectorFields, near \in Coarse :
          query' = [NoQuery EXCEPT !.pc = IF view.pinned THEN "refresh" ELSE "open",
                                   !.strong = strong, !.probes = probes, !.near = near, !.left = probes]
    /\ budget' = [budget EXCEPT !.queries = @ - 1]
    /\ UNCHANGED <<meta, objects, compaction, view, warm>>

(* Enter a round: a list of keys that is not empty is one more roundtrip,  *)
(* except the clusters, which share that of the L1 files.                  *)
EnterRound(q, pc, keys) ==
    [q EXCEPT !.pc = pc, !.todo = keys,
              !.rounds = @ + (IF keys = <<>> \/ pc = "clusters" THEN 0 ELSE 1),
              !.keys = @ + Len(keys)]

(* load_cold_batched: cold_load_meta_and_wal or cold_load_meta_only *)
OpenMeta ==
    /\ query.pc = "open"
    /\ LET q == [query EXCEPT !.opened = TRUE, !.first = meta, !.meta = meta, !.rounds = 1,
                                !.made = {<<"meta">>}, !.gets = 1] IN
       query' = EnterRound(q, "wal", IF query.strong THEN wal_round_keys(meta) ELSE <<>>)
    /\ UNCHANGED <<meta, objects, compaction, view, warm, budget>>

(* How many segments and snapshots catch_up reads besides meta.json.  When *)
(* it starts over it reads the tail twice, and the whole log if a          *)
(* compaction has replaced the snapshot that meta.json names.              *)
CatchUpReads(last_applied) ==
    LET all == meta.wal_commit_seq
        tail == all - meta.wal_snapshot_seq IN
    IF all <= last_applied THEN 0
    ELSE IF meta.wal_snapshot_seq > last_applied
    THEN 1 + (IF compaction.pc = "commit" THEN all ELSE tail) + tail
    ELSE all - last_applied

(* catch_up, or the refresh of the metadata by an eventual query: no part  *)
(* of any round, and not reported.                                         *)
CaughtUp(q, last_applied) ==
    [q EXCEPT !.meta = meta, !.made = @ \union {<<"catch_up">>},
              !.gets = @ + 1 + (IF q.strong THEN CatchUpReads(last_applied) ELSE 0),
              !.behind = IF q.strong /\ meta.wal_commit_seq > last_applied
                         THEN meta.wal_commit_seq - last_applied ELSE 0]

(* A view already pinned: catch_up or, for an eventual query, only its meta. *)
RefreshView ==
    /\ query.pc = "refresh"
    /\ view' = [view EXCEPT !.meta = meta, !.last_applied = IF query.strong THEN meta.wal_commit_seq ELSE @]
    /\ query' = EnterRound(CaughtUp([query EXCEPT !.first = meta], view.last_applied), "bootstrap",
                           round2_bootstrap_keys(meta))
    /\ UNCHANGED <<meta, objects, compaction, warm, budget>>

RoundOf(q) == IF q.pc \in {"l1", "clusters"} THEN <<"probe", q.field>> ELSE <<q.pc>>

Chunk(keys) == SubSeq(keys, 1, IF Len(keys) > COLD_MAX_KEYS_PER_ROUND THEN COLD_MAX_KEYS_PER_ROUND ELSE Len(keys))

(* One sub-batch; only a cluster may be absent (fetch_round_optional). *)
fetch_round_batch ==
    /\ query.todo # <<>>
    /\ LET chunk == Chunk(query.todo)
           absent == {i \in DOMAIN chunk : chunk[i] \notin objects}
           q == [query EXCEPT !.todo = SubSeq(@, Len(chunk) + 1, Len(@)), !.got = @ \union (KeySet(chunk) \intersect objects),
                              !.made = @ \union {RoundOf(query)}, !.gets = @ + Len(chunk)] IN
       IF absent = {} \/ query.pc = "clusters" THEN query' = q
       ELSE \E i \in absent : query' = [q EXCEPT !.pc = "failed", !.todo = <<>>, !.missing = chunk[i]]
    /\ UNCHANGED <<meta, objects, compaction, view, warm, budget>>

(* The view is made from the WAL round; a strong query catches it up. *)
BuildView ==
    /\ query.pc = "wal" /\ query.todo = <<>>
    /\ LET q == IF query.strong THEN CaughtUp(query, query.first.wal_commit_seq) ELSE query IN
       query' = EnterRound(q, "bootstrap", round2_bootstrap_keys(q.meta))
    /\ UNCHANGED <<meta, objects, compaction, view, warm, budget>>

(* loaded_from_view *)
FetchTail ==
    /\ query.pc = "bootstrap" /\ query.todo = <<>>
    /\ query' = EnterRound(query, "tail", IF query.strong THEN unindexed_wal_tail_keys(query.meta) ELSE <<>>)
    /\ UNCHANGED <<meta, objects, compaction, view, warm, budget>>

(* The view is pinned and unlocked; finish_cold_vector_probes goes on. *)
PinView ==
    /\ query.pc = "tail" /\ query.todo = <<>>
    /\ view' = IF view.pinned THEN view
               ELSE [pinned |-> TRUE, meta |-> query.meta,
                     last_applied |-> IF query.strong THEN query.meta.wal_commit_seq ELSE 0]
    /\ query' = IF query.probes = {} THEN [query EXCEPT !.pc = "done"]
                ELSE EnterRound(query, "l0", l0_keys_for_meta(query.meta))
    /\ UNCHANGED <<meta, objects, compaction, warm, budget>>

(* The next field that has an L0, in any order; after the last one         *)
(* ensure_cold_fts_for_hybrid, which finds the FTS segment loaded.         *)
ProbeField ==
    /\ query.pc \in {"l0", "clusters"} /\ query.todo = <<>>
    /\ LET fields == {f \in query.left : L0(f) \in query.got} IN
       IF fields = {} THEN query' = [query EXCEPT !.pc = "done"]
       ELSE \E f \in fields :
               query' = EnterRound([query EXCEPT !.field = f, !.left = @ \ {f}], "l1",
                                   l1_keys_for_query_probe(f, query.near))
    /\ UNCHANGED <<meta, objects, compaction, view, warm, budget>>

FetchClusters ==
    /\ query.pc = "l1" /\ query.todo = <<>>
    /\ query' = EnterRound(query, "clusters", cluster_keys_for_query(query.field, query.near))
    /\ UNCHANGED <<meta, objects, compaction, view, warm, budget>>

EndQuery ==
    /\ query.pc \in {"done", "failed"}
    /\ query' = NoQuery
    /\ UNCHANGED <<meta, objects, compaction, view, warm, budget>>

Query ==
    StartQuery \/ OpenMeta \/ RefreshView \/ fetch_round_batch \/ BuildView \/ FetchTail \/ PinView
    \/ ProbeField \/ FetchClusters \/ EndQuery

-----------------------------------------------------------------------------
(* warm_namespace; it holds the views all along *)

index_keys_for_warm(m) == KeySet(round2_bootstrap_keys(m)) \union KeySet(l0_keys_for_meta(m))

(* the L1 and cluster files that an L0 leads to *)
VectorKeys(m) ==
    UNION {{L1(f, c), ClusterOf(f, c)} : f \in m.vector_fields, c \in Coarse}

wal_keys_for_warm(m) ==
    LET from == wal_commit_replay_from(m)
        span == IF m.wal_commit_seq + 1 - from > WAL_WARM_MAX_SEGMENTS THEN WAL_WARM_MAX_SEGMENTS
                ELSE m.wal_commit_seq + 1 - from IN
    SnapshotKey(m) \o WalRange(m.wal_commit_seq + 1 - span, m.wal_commit_seq)

Locked == query.pc \in {"open", "refresh", "wal", "bootstrap", "tail"}

StartWarm ==
    /\ warm.pc = "idle" /\ ~ Locked /\ budget.warms > 0 /\ meta.wal_commit_seq > 0
    /\ warm' = [NoWarm EXCEPT !.pc = "index", !.meta = meta]
    /\ budget' = [budget EXCEPT !.warms = @ - 1]
    /\ UNCHANGED <<meta, objects, compaction, view, query>>

(* Index objects are never deleted: their reads are one step. *)
WarmIndex ==
    /\ warm.pc = "index"
    /\ warm' = [warm EXCEPT !.pc = "wal", !.todo = wal_keys_for_warm(warm.meta),
                            !.wal_segments = Len(wal_keys_for_warm(warm.meta)),
                            !.got = (index_keys_for_warm(warm.meta) \union VectorKeys(warm.meta)) \intersect objects]
    /\ UNCHANGED <<meta, objects, compaction, view, query, budget>>

WarmWal ==
    /\ warm.pc = "wal" /\ warm.todo # <<>>
    /\ warm' = [warm EXCEPT !.todo = Tail(@), !.got = @ \union ({Head(warm.todo)} \intersect objects)]
    /\ UNCHANGED <<meta, objects, compaction, view, query, budget>>

(* NamespaceView::load and catch_up *)
WarmPin ==
    /\ warm.pc = "wal" /\ warm.todo = <<>>
    /\ view' = [pinned |-> TRUE, meta |-> meta, last_applied |-> meta.wal_commit_seq]
    /\ warm' = [warm EXCEPT !.pc = "done"]
    /\ UNCHANGED <<meta, objects, compaction, query, budget>>

EndWarm ==
    /\ warm.pc = "done"
    /\ warm' = NoWarm
    /\ UNCHANGED <<meta, objects, compaction, view, query, budget>>

ColdNext == Writer \/ Query \/ StartWarm \/ WarmIndex \/ WarmWal \/ WarmPin \/ EndWarm

ColdSpec == ColdInit /\ [][ColdNext]_coldVars

-----------------------------------------------------------------------------
Segments(keys) == {key[2] : key \in {k \in keys : k[1] = "wal"}}

(* A query fails only on a segment that a compaction deleted after the     *)
(* query had read meta.json, and that the snapshot of the current meta     *)
(* covers: the rounds never ask for an object that their meta does not     *)
(* vouch for.  So with a warm call: unless a compaction ran meanwhile it   *)
(* finds every WAL object it counts in wal_segments, the newest ones, and  *)
(* never one that is in the snapshot.                                      *)
MissesOnlyIfRaced ==
    /\ query.pc = "failed" =>
          /\ query.raced
          /\ query.missing[1] = "wal" /\ query.missing[2] + WAL_COMPACT_KEEP <= meta.wal_snapshot_seq
    /\ warm.pc = "done" =>
          LET found == Segments(warm.got) IN
          /\ \A seq \in found : seq > warm.meta.wal_snapshot_seq
          /\ ~ warm.raced =>
                /\ Cardinality({k \in warm.got : k[1] \in {"wal", "snapshot"}}) = warm.wal_segments
                /\ \A seq \in warm.meta.wal_snapshot_seq + 1..warm.meta.wal_commit_seq :
                      seq \in found \/ seq + WAL_WARM_MAX_SEGMENTS <= warm.meta.wal_commit_seq

(* A query that answers has all that its meta names: the FTS segment (so   *)
(* that ensure_cold_fts_for_hybrid has nothing to fetch) and the filter    *)
(* segment, for each probed field that is indexed the probed L1 file and   *)
(* the cluster if there is one, and, if it is strong, every segment the    *)
(* index has not seen and, with no view to build on, a snapshot and        *)
(* segments that leave no gap up to the commit.                            *)
ColdLoadComplete ==
    query.pc = "done" =>
        /\ KeySet(round2_bootstrap_keys(query.meta)) \subseteq query.got
        /\ \A f \in query.probes \intersect query.meta.vector_fields :
              /\ L1(f, query.near) \in query.got
              /\ query.near \notin EmptyCells => ClusterOf(f, query.near) \in query.got
        /\ query.strong =>
              /\ query.meta.index_cursor + 1..query.meta.wal_commit_seq \subseteq Segments(query.got)
              /\ query.opened =>
                    1..query.first.wal_commit_seq \subseteq
                       Segments(query.got) \union (IF Snapshot \in query.got THEN 1..query.first.wal_snapshot_seq ELSE {})



-----------------------------------------------------------------------------
(* The inductive invariant behind the first two.                           *)

Meta ==
    [wal_commit_seq : 0..MaxCommits, index_cursor : 0..MaxCommits,
     wal_snapshot_seq : 0..MaxCommits, vector_fields : SUBSET VectorFields]

Key ==
    {Snapshot} \union {Wal(n) : n \in 1..MaxCommits}
    \union {Fts(n) : n \in 1..MaxCommits} \union {Filter(n) : n \in 1..MaxCommits}
    \union {L0(f) : f \in VectorFields} \union {L1(f, c) : f \in VectorFields, c \in Coarse}
    \union {ClusterOf(f, c) : f \in VectorFields, c \in Coarse}

(* where a query is once it has read meta.json *)
Loading == {"wal", "bootstrap", "tail", "l0", "l1", "clusters", "done"}

QueryState ==
    [pc : Loading \union {"idle", "open", "refresh", "failed"}, strong : BOOLEAN,
     probes : SUBSET VectorFields, near : Coarse \union {0}, left : SUBSET VectorFields,
     field : VectorFields \union {"none"}, opened : BOOLEAN, first : Meta, meta : Meta,
     todo : Seq(Key), got : SUBSET Key, rounds : Nat, keys : Nat,
     made : SUBSET ({<<r>> : r \in Loading \union {"meta", "catch_up"}} \union {<<"probe", f>> : f \in VectorFields}),
     gets : Nat, behind : Nat, missing : Key \union {<<>>}, raced : BOOLEAN]

WarmState ==
    [pc : {"idle", "index", "wal", "done"}, meta : Meta, todo : Seq(Key), got : SUBSET Key,
     wal_segments : Nat, raced : BOOLEAN]

ColdTypeOK ==
    /\ meta \in Meta /\ objects \subseteq Key
    /\ compaction \in [pc : {"idle", "commit", "delete"}, left : Seq(1..MaxCommits)]
    /\ view \in [pinned : BOOLEAN, meta : Meta, last_applied : 0..MaxCommits]
    /\ query \in QueryState /\ warm \in WarmState

(* meta.json never names an object that is not there, segments aside: those *)
(* the snapshot covers may go, but for the last WAL_COMPACT_KEEP.           *)
Vouched(m) ==
    /\ m.wal_snapshot_seq <= m.index_cursor /\ m.index_cursor <= m.wal_commit_seq
    /\ m.wal_commit_seq <= meta.wal_commit_seq
    /\ m.wal_snapshot_seq > 0 => Snapshot \in objects
    /\ m.index_cursor > 0 => Fts(m.index_cursor) \in objects /\ Filter(m.index_cursor) \in objects
    /\ \A f \in m.vector_fields : L0(f) \in objects

LiveSegments(m) == m.wal_snapshot_seq + 1..m.wal_commit_seq

StoreInv ==
    /\ Vouched(meta)
    /\ \A n \in 1..meta.wal_commit_seq : Wal(n) \in objects \/ n + WAL_COMPACT_KEEP <= meta.wal_snapshot_seq
    /\ \A f \in VectorFields : L0(f) \in objects =>
         \A c \in Coarse : L1(f, c) \in objects /\ (c \notin EmptyCells => ClusterOf(f, c) \in objects)
    /\ compaction.pc = "commit" => meta.index_cursor > WAL_COMPACT_KEEP /\ Snapshot \in objects
    /\ compaction.pc = "delete" =>
         /\ compaction.left # <<>>
         /\ \A i \in DOMAIN compaction.left : compaction.left[i] + WAL_COMPACT_KEEP <= meta.wal_snapshot_seq

(* What a query asks for is there: an object that is never deleted, or a   *)
(* segment that was live when the query read its meta.                     *)
AskInv ==
    /\ query.pc \in {"idle", "open", "refresh", "done", "failed"} => query.todo = <<>>
    /\ query.pc # "idle" => query.near \in Coarse
    /\ query.pc \in Loading =>
         /\ Vouched(query.first) /\ Vouched(query.meta)
         /\ query.raced \/ \A n \in LiveSegments(query.meta) : Wal(n) \in objects
    /\ \A i \in DOMAIN query.todo :
         IF query.pc = "clusters" THEN query.todo[i] = ClusterOf(query.field, query.near)
         ELSE \/ \E n \in LiveSegments(query.meta) : query.todo[i] = Wal(n)
              \/ query.todo[i] \in objects /\ query.todo[i][1] # "wal"
    /\ query.pc = "failed" =>
         /\ query.raced
         /\ \E n \in 1..MaxCommits : query.missing = Wal(n) /\ n + WAL_COMPACT_KEEP <= meta.wal_snapshot_seq

(* What the rounds so far were to fetch has come, or is still to come.     *)
Has(key) == key \in query.got \union KeySet(query.todo)

LoadInv ==
    /\ \A key \in query.got : key[1] = "wal" \/ key \in objects
    /\ query.pc \in {"open", "refresh", "wal", "bootstrap", "tail", "l0"} => query.left = query.probes
    /\ query.pc = "refresh" => ~ query.opened
    /\ query.pc \in {"l1", "clusters"} => query.field \in VectorFields /\ L0(query.field) \in objects
    /\ query.pc \in Loading =>
         /\ query.strong /\ query.opened => \A key \in KeySet(wal_round_keys(query.first)) : Has(key)
         /\ query.pc # "wal" => \A key \in KeySet(round2_bootstrap_keys(query.meta)) : Has(key)
         /\ query.pc \notin {"wal", "bootstrap"} /\ query.strong =>
              \A key \in KeySet(unindexed_wal_tail_keys(query.meta)) : Has(key)
         /\ query.pc \in {"l0", "l1", "clusters"} => \A f \in query.meta.vector_fields : Has(L0(f))
         /\ \A f \in query.probes \ query.left :
              /\ Has(L1(f, query.near))
              /\ query.near \notin EmptyCells =>
                   Has(ClusterOf(f, query.near)) \/ (query.pc = "l1" /\ query.field = f)
         /\ query.pc = "done" => query.probes \intersect query.meta.vector_fields \intersect query.left = {}

WarmInv ==
    /\ warm.pc # "idle" =>
         Vouched(warm.meta) /\ (warm.raced \/ \A n \in LiveSegments(warm.meta) : Wal(n) \in objects)
    /\ warm.pc \in {"wal", "done"} =>
         LET keys == wal_keys_for_warm(warm.meta) IN
         /\ \A key \in warm.got : key[1] \in {"wal", "snapshot"} => key \in KeySet(keys)
         /\ KeySet(warm.todo) \subseteq KeySet(keys)
         /\ ~ warm.raced => KeySet(keys) \subseteq warm.got \union KeySet(warm.todo)
         /\ warm.wal_segments = Len(keys)
    /\ warm.pc = "done" => warm.todo = <<>>

ColdInv == ColdTypeOK /\ StoreInv /\ AskInv /\ LoadInv /\ WarmInv
=============================================================================
