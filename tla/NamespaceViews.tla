--------------------------- MODULE NamespaceViews ---------------------------
(***************************************************************************)
(* The view of a namespace that a server process keeps pinned in memory    *)
(* (src/src/view.rs, src/src/view_cache.rs) and the requests that read and *)
(* advance it (src/src/storage.rs, src/src/warm.rs, src/src/export.rs).    *)
(*                                                                         *)
(* A request that needs the view holds the lock `views` from its first S3  *)
(* read to its last; commits, the indexer and compaction go on meanwhile.  *)
(* A write passes the group-commit buffer without the lock and takes it    *)
(* after its batch is committed, to bring the batch into the view; several *)
(* writes may do so in any order, and other processes commit to the log    *)
(* without telling this one.                                               *)
(*                                                                         *)
(* The fields solid and mixed of a view and floor, misread and skipped of  *)
(* requests and writers are history.  The documents of a view hold the     *)
(* batches 1..solid in order (and may hold later ones, out of order); it   *)
(* is mixed if doc_last_wal_seq or meta may not belong to them; floor is   *)
(* the log when the request began, misread whether the request took        *)
(* meta.json for absent.                                                   *)
(***************************************************************************)
EXTENDS Filters, SequencesExt

CONSTANTS Writers,
          Modes,             \* how a process runs and what it meets
          Condition,         \* the filter of conditional upserts
          WAL_COMPACT_KEEP

VARIABLES log, index_cursor, wal_snapshot_seq,   \* meta.json and what it stands for
          snapshot, first, compacting,            \* wal/snapshot.bin, first segment left
          view,                                   \* the pinned view
          request,                                \* the request that holds `views`
          writer, pending, draining,              \* writes; buffer; batch being flushed
          mode,                                   \* a member of Modes
          issued, reads, errors

vars == <<log, index_cursor, wal_snapshot_seq, snapshot, first, compacting, view,
          request, writer, pending, draining, mode, issued, reads, errors>>
bucket == <<log, index_cursor, wal_snapshot_seq, snapshot, first, compacting>>
writes == <<writer, pending, draining, mode, issued>>

(* cold: the segment cache is disabled; kinds: the requests it is sent;    *)
(* conditional: whether writes have conditions; elsewhere: whether another *)
(* process writes too; ids: the documents they write; log: what it finds   *)
(* when it starts.  The rest bounds the run: writes, other requests, S3    *)
(* reads that fail or take meta.json for absent.                           *)
ASSUME ModesAssumption ==
    \A m \in Modes :
        /\ m.cold \in BOOLEAN /\ m.elsewhere \in BOOLEAN /\ m.conditional \subseteq BOOLEAN
        /\ m.kinds \subseteq {"strong", "eventual", "export", "warm"}
        /\ m.writes \in Nat /\ m.reads \in Nat /\ m.errors \in Nat
        /\ DOMAIN m.log = 1..Len(m.log)

NoView == [pinned |-> FALSE]
NoRequest == [kind |-> "none", pc |-> "free"]

Meta == [wal_commit_seq |-> Len(log), index_cursor |-> index_cursor,
         wal_snapshot_seq |-> wal_snapshot_seq]

EmptyView ==
    [pinned |-> TRUE, docs |-> EmptyMap, seqs |-> EmptyMap, last_applied_wal_seq |-> 0,
     solid |-> 0, mixed |-> FALSE,
     meta |-> [wal_commit_seq |-> 0, index_cursor |-> 0, wal_snapshot_seq |-> 0]]

Init ==
    /\ mode \in Modes /\ log = mode.log /\ index_cursor \in 0..Len(log)
    /\ wal_snapshot_seq = 0 /\ snapshot = 0 /\ first = 1 /\ compacting = "idle"
    /\ view = NoView /\ request = NoRequest
    /\ writer = [w \in Writers |-> [pc |-> "idle"]]
    /\ pending = <<>> /\ draining = <<>>
    /\ issued = 0 /\ reads = 0 /\ errors = 0

-----------------------------------------------------------------------------
(* The bucket under the requests.                                          *)

IndexPass ==
    /\ index_cursor < Len(log)
    /\ \E to \in (index_cursor + 1)..Len(log) : index_cursor' = to
    /\ UNCHANGED <<log, wal_snapshot_seq, snapshot, first, compacting, view, request, writes, reads, errors>>

DeleteThrough == snapshot - WAL_COMPACT_KEEP

(* maybe_compact_wal under the commit lock: snapshot, meta.json, deletes *)
Compact ==
    /\ \/ /\ compacting = "idle"
          /\ index_cursor >= Len(log) /\ index_cursor > WAL_COMPACT_KEEP
          /\ wal_snapshot_seq < index_cursor
          /\ snapshot' = index_cursor /\ compacting' = "written"
          /\ UNCHANGED <<wal_snapshot_seq, first>>
       \/ /\ compacting = "written"
          /\ wal_snapshot_seq' = snapshot /\ compacting' = "named"
          /\ UNCHANGED <<snapshot, first>>
       \/ /\ compacting = "named"
          /\ first' = DeleteThrough + 1 /\ compacting' = "idle"
          /\ UNCHANGED <<snapshot, wal_snapshot_seq>>
    /\ UNCHANGED <<log, index_cursor, view, request, writes, reads, errors>>

-----------------------------------------------------------------------------
(* Steps of a request under the lock.  request.v is the view it works on:  *)
(* the pinned one (request.hit) or one it is loading.                      *)

(* Variant: one new segment is not worth a read. *)
CatchUpByTwo(m, v) ==
    IF m.wal_commit_seq <= v.last_applied_wal_seq + 1 THEN "current"
    ELSE IF m.wal_snapshot_seq > v.last_applied_wal_seq THEN "reload" ELSE "segments"

(* how catch_up gets from the view v to the metadata m *)
CatchUpBy(m, v) ==
    IF m.wal_commit_seq <= v.last_applied_wal_seq THEN "current"
    ELSE IF m.wal_snapshot_seq > v.last_applied_wal_seq THEN "reload" ELSE "segments"

(* load_docs_at_wal_commit: the snapshot counts if meta.json names it *)
LoadBase(m) == IF m.wal_snapshot_seq > 0 /\ snapshot = m.wal_snapshot_seq THEN snapshot ELSE 0

(* load_cold_batched takes whatever snapshot the round returned *)
ColdBase(m) == IF m.wal_snapshot_seq > 0 THEN snapshot ELSE 0

Available(from, to) == from > to \/ first <= from

NeedsStrong(kind) == kind \in {"strong", "export", "check", "warm"}

(* a query reads its index segments once the view is up to date *)
Ready(kind) == IF kind \in {"strong", "eventual"} THEN "index" ELSE "done"

Later(a, b) == IF a > b THEN a ELSE b

(* the batches 1..solid stay in order under one of them or the next *)
SolidAfter(v, seq) == IF seq \in 1..(v.solid + 1) THEN seq ELSE v.solid

(* what catch_up will never read: the view counts it as applied *)
Skipped(v) == (v.solid + 1)..v.last_applied_wal_seq

(* Variant: a batch that the metadata already counts is not applied. *)
SkipKnownBatch(v, seq, entry) ==
    IF seq <= v.meta.wal_commit_seq
    THEN [v EXCEPT !.last_applied_wal_seq = seq, !.solid = SolidAfter(v, seq)]
    ELSE [v EXCEPT !.seqs = update_doc_wal_seq_map(@, entry, seq),
                   !.docs = apply_entry(@, entry),
                   !.last_applied_wal_seq = seq, !.meta.wal_commit_seq = seq,
                   !.solid = SolidAfter(v, seq)]

apply_committed(v, seq, entry) ==
    [v EXCEPT !.seqs = update_doc_wal_seq_map(@, entry, seq),
              !.docs = apply_entry(@, entry),
              !.last_applied_wal_seq = seq,
              !.meta.wal_commit_seq = Later(seq, @),
              !.solid = SolidAfter(v, seq),
              !.mixed = @ \/ (seq # 0 /\ seq # v.last_applied_wal_seq + 1)]

Begin(kind, w) ==
    /\ request = NoRequest
    /\ LET hit == view # NoView /\ kind # "warm"   \* a warm-up loads anew
       IN  request' = [kind |-> kind, who |-> w, hit |-> hit,
               floor |-> Len(log), misread |-> FALSE, mixed |-> FALSE,
               v |-> IF hit THEN view ELSE EmptyView,
               cold |-> mode.cold /\ kind \notin {"apply", "warm"},
               then |-> IF NeedsStrong(kind) THEN "catch_up" ELSE Ready(kind),
               base |-> 0, next |-> 0, m |-> EmptyView.meta, tail |-> {},
               pc |-> IF ~hit THEN "load" ELSE IF kind = "eventual" THEN "refresh"
                      ELSE IF kind = "apply" THEN "apply" ELSE "catch_up"]

(* load_namespace_for_query, load_view_snapshot (for an export), warm_namespace *)
Read(kind) ==
    /\ kind \in mode.kinds
    /\ reads < mode.reads /\ reads' = reads + 1
    /\ kind \in {"export", "warm"} => log # <<>>
    /\ Begin(kind, "client")
    /\ UNCHANGED <<bucket, view, writes, errors>>

Goto(r) == request' = r /\ UNCHANGED <<bucket, view, writes, reads, errors>>

(* an S3 read failed: the request ends with an error; a pinned view keeps  *)
(* what was done to it so far, a view under construction is dropped        *)
Abort ==
    /\ view' = IF request.hit THEN request.v ELSE view
    /\ request' = NoRequest
    /\ writer' = IF request.kind \in {"apply", "check"}
                 THEN [writer EXCEPT ![request.who] = [pc |-> "idle"]] ELSE writer
    /\ UNCHANGED <<bucket, pending, draining, mode, issued, reads>>

ReadFails ==
    /\ request.pc \in {"load", "load_snapshot", "load_segments", "load_seqs", "catch_up",
                       "catch_up_segments", "index"}
    /\ errors < mode.errors /\ errors' = errors + 1
    /\ Abort

Missing == Abort /\ UNCHANGED errors

(* fetch_meta finds no meta.json: there is none, or S3 answered with an    *)
(* error that get_meta_json takes for its absence                          *)
Absent(r) ==
    \/ log = <<>> /\ Goto(r)
    \/ /\ log # <<>> /\ errors < mode.errors /\ errors' = errors + 1
       /\ request' = [r EXCEPT !.misread = TRUE]
       /\ UNCHANGED <<bucket, view, writes, reads>>

(* NamespaceView::load, load_cold_batched: meta.json first *)
LoadMeta ==
    /\ request.pc = "load"
    /\ LET meta_only == request.cold /\ request.kind = "eventual"
       IN  \/ Absent([request EXCEPT !.v = EmptyView, !.pc = request.then])
           \/ /\ log # <<>>
              /\ Goto([request EXCEPT !.m = Meta, !.v = [EmptyView EXCEPT !.meta = Meta],
                          !.pc = IF meta_only THEN request.then ELSE "load_snapshot"])

LoadSnapshot ==
    /\ request.pc = "load_snapshot"
    /\ Goto([request EXCEPT !.base = IF request.cold THEN ColdBase(request.m) ELSE LoadBase(request.m),
                            !.pc = "load_segments"])

(* cold_load_meta_and_wal asks for all segments after the snapshot of      *)
(* meta.json, whichever snapshot came with them; a missing one is an error *)
LoadSegments ==
    /\ request.pc = "load_segments"
    /\ LET to == request.m.wal_commit_seq
           asked == IF request.cold THEN request.m.wal_snapshot_seq + 1 ELSE request.base + 1
           v == [request.v EXCEPT !.docs = ReplayFrom(Replay(log, request.base), log, request.base + 1, to),
                                  !.solid = to, !.mixed = TRUE]
       IN  IF Available(asked, to)
           THEN Goto([request EXCEPT !.v = v, !.pc = "load_seqs"])
           ELSE Missing

(* build_doc_last_wal_seq reads the segments after the snapshot once more, *)
(* when catch_up has already replaced the documents; load_cold_batched     *)
(* works on the bytes it has and seeds the rest at the end                 *)
LoadSeqs ==
    /\ request.pc = "load_seqs"
    /\ LET m == request.m
           to == m.wal_commit_seq
           seed == IF m.wal_snapshot_seq > 0
                   THEN [id \in DOMAIN request.v.docs |-> m.wal_snapshot_seq] ELSE EmptyMap
           known == IF request.base > m.wal_snapshot_seq THEN request.base ELSE m.wal_snapshot_seq
           v == [request.v EXCEPT !.meta = m, !.last_applied_wal_seq = to, !.mixed = FALSE,
                    !.seqs = IF request.cold THEN SeqMapFrom(EmptyMap, log, known + 1, to) @@ seed
                             ELSE SeqMapFrom(seed, log, m.wal_snapshot_seq + 1, to)]
       IN  IF request.cold \/ Available(m.wal_snapshot_seq + 1, to)
           THEN Goto([request EXCEPT !.v = v, !.pc = request.then])
           ELSE Missing

catch_up ==
    /\ request.pc = "catch_up"
    /\ \/ Absent([request EXCEPT !.pc = Ready(request.kind)])
       \/ /\ log # <<>>
          /\ LET by == CatchUpBy(Meta, request.v)
             IN  Goto([request EXCEPT !.m = Meta, !.v.meta = IF by = "current" THEN Meta ELSE @,
                          !.pc = CASE by = "current" -> Ready(request.kind)
                                   [] by = "reload" -> "load_snapshot"
                                   [] by = "segments" -> "catch_up_segments",
                          !.next = request.v.last_applied_wal_seq + 1, !.mixed = request.v.mixed,
                          !.cold = FALSE, !.then = Ready(request.kind)])

(* one segment after the other, straight into the documents of the view;   *)
(* the view counts them as applied when the last one is in                 *)
CatchUpSegments ==
    /\ request.pc = "catch_up_segments"
    /\ LET seq == request.next
           to == request.m.wal_commit_seq
           v == [request.v EXCEPT !.docs = apply_entry(@, log[seq]),
                                  !.seqs = update_doc_wal_seq_map(@, log[seq], seq),
                                  !.solid = SolidAfter(request.v, seq), !.mixed = TRUE]
       IN  IF ~Available(seq, seq) THEN Missing
           ELSE IF seq < to THEN Goto([request EXCEPT !.v = v, !.next = seq + 1])
           ELSE Goto([request EXCEPT !.pc = Ready(request.kind),
                         !.v = [v EXCEPT !.last_applied_wal_seq = to, !.meta = request.m,
                                         !.mixed = request.mixed]])

(* an eventual query on a pinned view refreshes its metadata only, a       *)
(* finished write likewise; if that fails they go on with what they have   *)
Refresh ==
    /\ request.pc = "refresh"
    /\ LET kept == [request EXCEPT !.pc = Ready(request.kind)]
       IN  \/ Absent(kept)
           \/ log # <<>> /\ Goto([kept EXCEPT !.v.meta = Meta])

(* write_documents after the commit, view pinned: apply_committed, then    *)
(* the metadata as it is now                                               *)
ApplyCommitted ==
    /\ request.pc = "apply"
    /\ LET w == writer[request.who]
       IN  Goto([request EXCEPT !.v = apply_committed(request.v, w.seq, w.entry), !.pc = "refresh"])

docs_for_query(v, skip_wal_tail) ==
    IF ~skip_wal_tail \/ v.meta.index_cursor >= v.meta.wal_commit_seq THEN v.docs
    ELSE [id \in {x \in DOMAIN v.docs : x \in DOMAIN v.seqs => v.seqs[x] <= v.meta.index_cursor} |-> v.docs[id]]

(* the segments a query needs besides the index, <<>> if none: behind the  *)
(* snapshot, else behind the cursor                                        *)
(* Variant: one segment is left out. *)
TailSkipsOne(m) ==
    IF m.index_cursor + 1 >= m.wal_commit_seq THEN <<>> ELSE <<m.index_cursor + 2, m.wal_commit_seq>>

unindexed_wal_tail_range(m) ==
    IF m.index_cursor >= m.wal_commit_seq THEN <<>>
    ELSE IF m.wal_snapshot_seq \in 1..(m.wal_commit_seq - 1) THEN <<m.wal_snapshot_seq + 1, m.wal_commit_seq>>
    ELSE <<m.index_cursor + 1, m.wal_commit_seq>>

(* the index segments of view.meta (objects that never change: what they   *)
(* hold is the subject of SearchNamespace) and the ids in the tail         *)
loaded_from_view ==
    /\ request.pc = "index"
    /\ LET range == unindexed_wal_tail_range(request.v.meta)
       IN  IF request.kind = "eventual" \/ range = <<>>
           THEN Goto([request EXCEPT !.pc = "done"])
           ELSE IF Available(range[1], range[2])
           THEN Goto([request EXCEPT !.tail = TouchedIn(log, range[1], range[2]), !.pc = "done"])
           ELSE Missing

(* the answer leaves, the view is pinned (ViewCache::insert) and the lock  *)
(* released; a conditional write goes on with the rows that pass           *)
Finish ==
    /\ request.pc = "done"
    /\ view' = request.v /\ request' = NoRequest
    /\ writer' = [w \in Writers |->
          IF w # request.who THEN writer[w]
          ELSE IF request.kind = "apply" THEN [pc |-> "idle"]
          ELSE [writer[w] EXCEPT !.pc = "overlay", !.docs = request.v.docs,
                   !.skipped = Skipped(request.v),
                   !.floor = IF request.misread THEN 0 ELSE request.floor]]
    /\ UNCHANGED <<bucket, pending, draining, mode, issued, reads, errors>>

(* another namespace takes the place of this one (ViewCache::evict_if_needed) *)
Evict ==
    /\ request = NoRequest /\ view # NoView
    /\ view' = NoView
    /\ UNCHANGED <<bucket, request, writes, reads, errors>>

-----------------------------------------------------------------------------
(* write_documents up to the commit.                                       *)

Row(n) == "a" :> <<"n", n>>
Patch(n) == "b" :> <<"n", n>>

Entries(id, n) ==
    { WalEntry(id :> Row(n), EmptyMap, {}),
      WalEntry(EmptyMap, id :> Patch(n), {}),
      WalEntry(EmptyMap, EmptyMap, {id}) }

(* a write without condition goes straight to the buffer (the buffer as    *)
(* GroupCommit models it)                                                  *)
Submit(w, entry, conditional) ==
    /\ writer[w].pc = "idle" /\ issued < mode.writes
    /\ issued' = issued + 1
    /\ writer' = [writer EXCEPT ![w] = IF conditional
          THEN [pc |-> "check", entry |-> entry, docs |-> EmptyMap, floor |-> 0, skipped |-> {}]
          ELSE [pc |-> "queued", entry |-> entry]]
    /\ pending' = IF conditional THEN pending ELSE Append(pending, w)
    /\ UNCHANGED <<bucket, view, request, draining, mode, reads, errors>>

(* apply_write_conditions: an empty map if the namespace does not exist,   *)
(* else the documents of load_view_snapshot ...                            *)
Check(w) ==
    /\ writer[w].pc = "check"
    /\ IF log = <<>>
       THEN writer' = [writer EXCEPT ![w].pc = "filter"] /\ UNCHANGED request
       ELSE Begin("check", w) /\ writer' = [writer EXCEPT ![w].pc = "checking"]
    /\ UNCHANGED <<bucket, view, pending, draining, mode, issued, reads, errors>>

MergeOps(a, b) ==
    WalEntry(b.upserts @@ a.upserts,
             [id \in DOMAIN a.patches \cup DOMAIN b.patches |->
                 (IF id \in DOMAIN b.patches THEN b.patches[id] ELSE EmptyMap)
                   @@ (IF id \in DOMAIN a.patches THEN a.patches[id] ELSE EmptyMap)],
             a.deletes \cup b.deletes)

(* WalEntry::from_write of the ops that a list of writers has buffered *)
Batch(ws) == FoldLeft(LAMBDA e, w : MergeOps(e, writer[w].entry), WalEntry(EmptyMap, EmptyMap, {}), ws)

(* ... with the ops in the buffer on top *)
overlay_pending_writes(w) ==
    /\ writer[w].pc = "overlay"
    /\ writer' = [writer EXCEPT ![w].docs = apply_entry(@, Batch(pending)), ![w].pc = "filter"]
    /\ UNCHANGED <<bucket, view, request, pending, draining, mode, issued, reads, errors>>

apply_write_conditions(docs, entry) ==
    [upserts |-> LET u == entry.upserts
                 IN  [id \in {x \in DOMAIN u : should_apply_upsert(Condition, docs, x, u[x])} |-> u[id]],
     patches |-> LET p == entry.patches
                 IN  [id \in {x \in DOMAIN p : should_apply_patch(Condition, docs, x, p[x])} |-> p[id]],
     deletes |-> {id \in entry.deletes : should_apply_delete(Condition, docs, id)}]

(* the rows that pass go to the buffer; a write that kept none waits for   *)
(* the batch like any other                                                *)
FilterRows(w) ==
    /\ writer[w].pc = "filter"
    /\ writer' = [writer EXCEPT ![w] =
          [pc |-> "queued", entry |-> apply_write_conditions(writer[w].docs, writer[w].entry)]]
    /\ pending' = Append(pending, w)
    /\ UNCHANGED <<bucket, view, request, draining, mode, issued, reads, errors>>

Drain ==
    /\ pending # <<>> /\ draining = <<>>
    /\ draining' = pending /\ pending' = <<>>
    /\ UNCHANGED <<bucket, view, request, writer, mode, issued, reads, errors>>

Commit ==
    /\ draining # <<>> /\ compacting = "idle"
    /\ LET entry == Batch(draining)
           empty == wal_touched_doc_ids(entry) = {}   \* the waiters are told sequence number 0
       IN  /\ log' = IF empty THEN log ELSE Append(log, entry)
           /\ writer' = [w \in Writers |-> IF Contains(draining, w)
                  THEN [pc |-> "committed", entry |-> entry, seq |-> IF empty THEN 0 ELSE Len(log) + 1]
                  ELSE writer[w]]
    /\ draining' = <<>>
    /\ UNCHANGED <<index_cursor, wal_snapshot_seq, snapshot, first, compacting, view, request,
                   pending, mode, issued, reads, errors>>

(* another process writes to the namespace (the commit lock is not its     *)
(* own; a commit that makes compaction lose its swap is left out)          *)
CommitElsewhere(entry) ==
    /\ mode.elsewhere /\ issued < mode.writes /\ issued' = issued + 1
    /\ compacting # "written"
    /\ log' = Append(log, entry)
    /\ UNCHANGED <<index_cursor, wal_snapshot_seq, snapshot, first, compacting, view, request,
                   writer, pending, draining, mode, reads, errors>>

(* the answered write takes the lock to bring its batch into the view *)
Apply(w) ==
    /\ writer[w].pc = "committed"
    /\ Begin("apply", w)
    /\ writer' = [writer EXCEPT ![w].pc = "applying"]
    /\ UNCHANGED <<bucket, view, pending, draining, mode, issued, reads, errors>>

RequestStep ==
    ReadFails \/ LoadMeta \/ LoadSnapshot \/ LoadSegments \/ LoadSeqs \/ catch_up \/ CatchUpSegments
    \/ Refresh \/ ApplyCommitted \/ loaded_from_view \/ Finish

Next ==
    \/ IndexPass \/ Compact \/ Evict \/ RequestStep \/ Drain \/ Commit
    \/ \E kind \in {"strong", "eventual", "export", "warm"} : Read(kind)
    \/ \E id \in mode.ids : \E entry \in Entries(id, issued + 1) : CommitElsewhere(entry)
    \/ \E w \in Writers :
          \/ \E id \in mode.ids : \E entry \in Entries(id, issued + 1), c \in mode.conditional : Submit(w, entry, c)
          \/ Check(w) \/ overlay_pending_writes(w) \/ FilterRows(w) \/ Apply(w)

Spec == Init /\ [][Next]_vars

-----------------------------------------------------------------------------
(* Properties.                                                             *)

(* Types; a view never claims more than the log holds.                     *)
TypeOK ==
    /\ index_cursor \in 0..Len(log) /\ wal_snapshot_seq <= index_cursor
    /\ wal_snapshot_seq <= snapshot /\ first \in 1..(snapshot + 1)
    /\ request.pc \in {"free", "load", "load_snapshot", "load_segments", "load_seqs", "catch_up",
                       "catch_up_segments", "refresh", "apply", "index", "done"}
    /\ view # NoView =>
          /\ view.last_applied_wal_seq \in 0..Len(log)
          /\ view.meta.wal_commit_seq \in 0..Len(log)
          /\ DOMAIN view.seqs \subseteq mode.ids /\ DOMAIN view.docs \subseteq mode.ids

(* the replay of a prefix of the log without some of its batches *)
ReplayBut(entries, to, missing) ==
    Replay([k \in 1..to |-> IF k \in missing THEN WalEntry(EmptyMap, EmptyMap, {}) ELSE entries[k]], to)

StrongAnswer(r) == r.pc = "done" /\ NeedsStrong(r.kind) /\ ~r.misread

Touched(seqs) == UNION {wal_touched_doc_ids(log[k]) : k \in seqs}

(* Writes are visible to strong requests once wal_commit_seq has advanced: *)
(* their documents are those of the whole log at the number they report,   *)
(* and no older than the log when the request took the lock.               *)
WritesVisible ==
    StrongAnswer(request) =>
        /\ request.v.meta.wal_commit_seq >= request.floor
        /\ request.v.docs = Replay(log, request.v.meta.wal_commit_seq)

(* The same but for the documents of skipped batches: those that           *)
(* apply_committed (view.rs:64) jumped over or applied behind a later one  *)
(* and then declared applied, when the writers of the process come to the  *)
(* lock out of order, another process has committed, or the view was       *)
(* pinned without documents.  A strong query, an export and the check of a *)
(* conditional write are wrong about nothing else, with writers, other     *)
(* processes, compaction and failing reads between their steps.            *)
StrongReadExact ==
    StrongAnswer(request) =>
        LET v == request.v
            aside == Touched(Skipped(v))
        IN  /\ v.meta.wal_commit_seq >= request.floor
            /\ Without(v.docs, aside) = Without(Replay(log, v.meta.wal_commit_seq), aside)

(* A strong query may take every document that is not in its tail from the *)
(* index: at index_cursor it was what it is in the query's documents, with *)
(* commits, index passes and compactions between the reads of metadata,    *)
(* log and tail (storage.rs loaded_from_view); again but for the documents *)
(* of skipped batches.                                                     *)
TailCoversUnindexed ==
    StrongAnswer(request) /\ request.kind = "strong" =>
        LET v == request.v
            indexed == Replay(log, v.meta.index_cursor)
            aside == request.tail \cup Touched(Skipped(v))
        IN  Without(v.docs, aside) = Without(indexed, aside)

(* The pinned view can be repaired from the log: replaying it from         *)
(* last_applied_wal_seq, or from the first skipped batch, on top of the    *)
(* documents gives the documents of the namespace.  They may hold later    *)
(* batches already (a catch_up that failed midway leaves its work, a late  *)
(* writer sets the number back, an empty batch resets it to 0): replay has *)
(* to be idempotent.                                                       *)
ViewRepairs ==
    view # NoView =>
        LET from == 1 + IF Skipped(view) = {} THEN view.last_applied_wal_seq ELSE view.solid
        IN  ReplayFrom(view.docs, log, from, Len(log)) = Replay(log, Len(log))

(* An eventual query shows no write that is not indexed: each document it  *)
(* returns is a version the log had at or before index_cursor.  Excepted   *)
(* are mixed views: a batch was applied out of order, or a catch_up failed *)
(* after it had changed the documents (view.rs:95-97, 105-109).            *)
EventualNotAhead ==
    request.pc = "done" /\ request.kind = "eventual" /\ ~request.v.mixed =>
        LET docs == docs_for_query(request.v, TRUE)
        IN  \A id \in DOMAIN docs : \E k \in 1..request.v.meta.index_cursor :
                id \in DOMAIN Replay(log, k) /\ Replay(log, k)[id] = docs[id]

(* the log as it will be if the writes under way are committed: the batch  *)
(* being flushed and some of the buffer behind it                          *)
Prospects == {log \o <<Batch(draining), Batch(SubSeq(pending, 1, n))>> : n \in 0..Len(pending)}

(* A conditional write is decided on a state that has every batch that was *)
(* committed when its check began (storage.rs:832-840), but for skipped    *)
(* ones.  It reads the documents and then the buffer: a batch drained in   *)
(* between is in neither and may be missed.                                *)
ConditionSeesCommitted ==
    \A w \in Writers : writer[w].pc = "filter" =>
        LET aside == Touched(writer[w].skipped)
        IN  \E full \in Prospects : \E missing \in SUBSET ((writer[w].floor + 1)..Len(full)) :
                Without(writer[w].docs, aside) = Without(ReplayBut(full, Len(full), missing), aside)
=============================================================================
