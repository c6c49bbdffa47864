--------------------------- MODULE SearchNamespace --------------------------
(***************************************************************************)
(* One namespace from the write to the answer: WAL entries are committed,  *)
(* the indexer merges ranges of them into the full-text, filter and vector *)
(* segments (src/src/indexer.rs), queries combine the segments with the    *)
(* unindexed tail (src/src/storage.rs, src/src/search.rs).                 *)
(*                                                                         *)
(* Commit and index pass are single steps here; modules AppendWal and      *)
(* IndexRange model how they reach the bucket, VectorIndex how the vector  *)
(* files do.                                                               *)
(***************************************************************************)
EXTENDS QueryPlanner

CONSTANTS Entries,      \* entries a client may commit
          MaxLog,       \* commits
          MaxSegments,  \* max_segments of an index pass
          VectorField, Dimensions,
          Requests,     \* queries asked in every state
          Conditions,   \* filters of filter writes, asked in every state
          ExportLimits, \* page sizes
          MaxPages      \* pages of one export

VARIABLES log, index_cursor, fts, filter, vindex,
          export  \* a client paging through the documents

vars == <<log, index_cursor, fts, filter, vindex, export>>

wal_commit_seq == Len(log)

NoLastId == 0
NoExport == [open |-> FALSE, done |-> FALSE, last_id |-> NoLastId, rows |-> <<>>, steady |-> {},
             versions |-> {}, pages |-> 0]

Rows(docs) == {<<id, docs[id]>> : id \in DOMAIN docs}

EmptyVectorIndex == [dimensions |-> 0, members |-> {}]

Init ==
    /\ log = <<>>
    /\ index_cursor = 0
    /\ fts = NoSegment
    /\ filter = NoSegment
    /\ vindex = EmptyVectorIndex
    /\ export = NoExport

(* the export notes what was there all the time and in which versions *)
Commit(entry) ==
    /\ wal_commit_seq < MaxLog
    /\ log' = Append(log, entry)
    /\ export' = LET docs == Replay(log', Len(log'))
                 IN  IF ~export.open THEN export
                     ELSE [export EXCEPT !.steady = @ \cap DOMAIN docs, !.versions = @ \cup Rows(docs)]
    /\ UNCHANGED <<index_cursor, fts, filter, vindex>>

-----------------------------------------------------------------------------
(* Export.  Each page is cut from a view that is caught up with the log    *)
(* and reads no segment, so index passes and exports need not mix.         *)

(* Variant: the page starts with the last row of the page before. *)
ExportFromLast(docs, last_id, limit) ==
    LET ids  == SetToSortSeq({id \in DOMAIN docs : id >= last_id}, LAMBDA a, b : a < b)
        rows == [k \in 1..(IF limit < Len(ids) THEN limit ELSE Len(ids)) |-> <<ids[k], docs[ids[k]]>>]
    IN  [rows |-> rows, next_last_id |-> IF Len(rows) = limit THEN rows[limit][1] ELSE NoLastId]

export_page(docs, last_id, limit) ==
    LET ids  == SetToSortSeq({id \in DOMAIN docs : last_id = NoLastId \/ id > last_id}, LAMBDA a, b : a < b)
        rows == [k \in 1..(IF limit < Len(ids) THEN limit ELSE Len(ids)) |-> <<ids[k], docs[ids[k]]>>]
    IN  [rows |-> rows, next_last_id |-> IF Len(rows) = limit THEN rows[limit][1] ELSE NoLastId]

export_namespace_page(limit) ==
    LET docs == Replay(log, wal_commit_seq)
        page == export_page(docs, export.last_id, limit)
    IN  /\ index_cursor = 0 /\ ~export.done /\ export.pages < MaxPages
        /\ export' = [open |-> page.next_last_id # NoLastId, done |-> page.next_last_id = NoLastId,
                      last_id |-> page.next_last_id, rows |-> export.rows \o page.rows,
                      steady |-> IF export.open THEN export.steady ELSE DOMAIN docs,
                      versions |-> IF export.open THEN export.versions ELSE Rows(docs),
                      pages |-> export.pages + 1]
        /\ UNCHANGED <<log, index_cursor, fts, filter, vindex>>

-----------------------------------------------------------------------------
(* The index pass.                                                         *)

(* FTS and filter segments take the entries one by one; if one of them has *)
(* patches, the whole range is merged as one delta instead                 *)
stream_index_delta_from_wal(segs, from, to) ==
    LET delta == index_delta_from_wal_entries(log, from, to)
        batch(k) == [upserts |-> log[k].upserts, deletes |-> log[k].deletes]
        step[k \in Nat] ==
            IF k < from THEN segs
            ELSE [fts    |-> fts_apply_delta(step[k - 1].fts, batch(k)),
                  filter |-> filter_apply_delta(step[k - 1].filter, batch(k))]
    IN  IF has_patches(log, from, to)
        THEN [fts    |-> fts_apply_delta(segs.fts, delta),
              filter |-> filter_apply_delta(segs.filter, delta)]
        ELSE step[to]

(* the rows of the range as the vector index gets them: without patches an *)
(* id is listed once per upsert                                            *)
IndexedRows(from, to) ==
    IF has_patches(log, from, to)
    THEN LET up == index_delta_from_wal_entries(log, from, to).upserts
         IN  {<<id, up[id]>> : id \in DOMAIN up}
    ELSE UNION {{<<id, log[k].upserts[id]>> : id \in DOMAIN log[k].upserts} : k \in from..to}

VectorMembers(rows) ==
    {<<r[1], extract_vector(r[2], VectorField)>> :
        r \in {q \in rows : extract_vector(q[2], VectorField) # None}}

(* no index yet: build from the rows of the range, deletes are not looked at *)
VectorIndex_build(rows) ==
    IF VectorMembers(rows) = {} THEN EmptyVectorIndex
    ELSE [dimensions |-> Dimensions, members |-> VectorMembers(rows)]

VectorIndex_apply_delta(vidx, delta) ==
    [vidx EXCEPT !.members =
        {m \in @ : m[1] \notin delta.deletes \cup DOMAIN delta.upserts}
        \cup VectorMembers({<<id, delta.upserts[id]>> : id \in DOMAIN delta.upserts})]

index_wal_range(max_segments) ==
    LET from == index_cursor + 1
        to   == IF wal_commit_seq < index_cursor + max_segments
                THEN wal_commit_seq ELSE index_cursor + max_segments
        segs == stream_index_delta_from_wal(
                    [fts    |-> IF fts = NoSegment THEN EmptyFtsSegment ELSE fts,
                     filter |-> IF filter = NoSegment THEN EmptyFilterSegment ELSE filter],
                    from, to)
    IN  /\ index_cursor < wal_commit_seq /\ export = NoExport
        /\ fts' = segs.fts
        /\ filter' = segs.filter
        /\ vindex' = IF vindex.dimensions = 0
                     THEN VectorIndex_build(IndexedRows(from, to))
                     ELSE VectorIndex_apply_delta(vindex, index_delta_from_wal_entries(log, from, to))
        /\ index_cursor' = to
        /\ UNCHANGED <<log, export>>

Next ==
    \/ \E entry \in Entries : Commit(entry)
    \/ \E max_segments \in MaxSegments : index_wal_range(max_segments)
    \/ \E limit \in ExportLimits : export_namespace_page(limit)

Spec == Init /\ [][Next]_vars

-----------------------------------------------------------------------------
(* What a query loads: the view caught up with the log, the segments.      *)


docs_for_query(docs, seqs, skip_wal_tail) ==
    IF ~skip_wal_tail \/ index_cursor >= wal_commit_seq THEN docs
    ELSE [id \in {x \in DOMAIN docs : seqs[x] <= index_cursor} |-> docs[id]]

loaded_from_view(strong, rerank) ==
    [docs         |-> docs_for_query(Replay(log, wal_commit_seq),
                                     SeqMapFrom(EmptyMap, log, 1, wal_commit_seq), ~strong),
     tail_doc_ids |-> IF strong THEN TouchedIn(log, index_cursor + 1, wal_commit_seq) ELSE {},
     strong       |-> strong,
     fts          |-> fts,
     filter_index |-> filter,
     vectors      |-> IF vindex.dimensions = 0 THEN EmptyMap ELSE VectorField :> vindex,
     ann_rerank   |-> rerank]

(* The same planner with no segment to use: it scans the documents.        *)
FullScan(docs) ==
    [docs |-> docs, tail_doc_ids |-> {}, strong |-> TRUE, fts |-> NoSegment,
     filter_index |-> NoSegment, vectors |-> EmptyMap, ann_rerank |-> FALSE]

resolve_ids_for_filter(expr) == matching_doc_ids_for_filter(loaded_from_view(TRUE, FALSE), expr)

-----------------------------------------------------------------------------
(* Types; an index pass never moves past the commit point.                 *)
TypeOK == log \in Seq(Entries) /\ index_cursor \in 0..wal_commit_seq



(* For every live document the segments hold what a build from scratch at  *)
(* the cursor would hold: no stale posting, no missing one, one vector; and *)
(* the statistics BM25 divides by agree with the documents in the segment  *)
(* (fts.rs and filter.rs apply_delta).                                     *)
SegmentsMatchRebuild ==
    LET docs == Replay(log, index_cursor)
        live == DOMAIN docs
    IN  index_cursor > 0 =>
          /\ {p \in fts.postings : p[2] \in live} = fts_build(docs).postings
          /\ fts.num_docs = Cardinality(DOMAIN fts.doc_lengths)
          /\ fts.total_doc_len = FoldSet(LAMBDA id, n : n + fts.doc_lengths[id], 0, DOMAIN fts.doc_lengths)
          /\ {p[2] : p \in fts.postings} = DOMAIN fts.doc_lengths
          /\ {p \in filter.postings : p[3] \in live} = filter_build(docs).postings
          /\ live \subseteq filter.all_doc_ids
          /\ VectorMembers({<<id, docs[id]>> : id \in live}) \subseteq vindex.members


(* An export that was paged to the end while others wrote has each         *)
(* document that was there all the time exactly once, in ascending order   *)
(* of ids, in a version it had during the export (export.rs export_page).  *)
ExportComplete ==
    export.done =>
        /\ \A id \in export.steady : \E k \in DOMAIN export.rows : export.rows[k][1] = id
        /\ \A j, k \in DOMAIN export.rows : j < k => export.rows[j][1] < export.rows[k][1]
        /\ \A k \in DOMAIN export.rows : export.rows[k] \in export.versions
=============================================================================
