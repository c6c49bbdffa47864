---------------------------- MODULE BucketStore ----------------------------
(***************************************************************************)
(* The namespaces of one bucket as the operations that create, delete,     *)
(* copy, list and index whole namespaces see them: the objects under each  *)
(* prefix, the views pinned by the process, and the appends of its write   *)
(* buffers.  The protocols inside one namespace are modelled in Namespace  *)
(* and NamespaceViews; here a strong query is one step.                    *)
(*                                                                         *)
(* A batch is a number of its own, so that a namespace that is deleted and *)
(* written again can be told from what it was.                             *)
(***************************************************************************)
EXTENDS Naturals, Sequences, FiniteSets

CONSTANTS Namespaces,
          Budgets,           \* how many writes of each namespace and other operations of each kind, and
                             \* whether there are queries
          WAL_COMPACTION_THRESHOLD, WAL_COMPACT_KEEP

Allowance ==
    [writes : [Namespaces -> Nat], delete : Nat, copy : Nat, list : Nat, failure : Nat,
     query : BOOLEAN]

NoNamespace == "none"

(* The limits are counts; "none" is no namespace.                          *)
ASSUME StoreAssumption ==
    /\ NoNamespace \notin Namespaces
    /\ Budgets \subseteq Allowance
    /\ WAL_COMPACTION_THRESHOLD \in Nat /\ WAL_COMPACT_KEEP \in Nat

VARIABLES meta, wal, snapshot,   \* meta.json, wal/{seq}.bin, wal/snapshot.bin
          segments,              \* index/fts-{id}.bin and filter-{id}.bin
          view,                  \* the pinned view: documents and last_applied_wal_seq
          appender,              \* the append that holds the commit lock
          compaction,            \* the compaction that does
          issued, budget

store == <<meta, wal, snapshot, segments>>

NoMeta == [commit |-> 0, cursor |-> 0, snap |-> 0, segment |-> 0, exists |-> FALSE]
NoSnapshot == [seq |-> 0, batches |-> {}]
NoView == [pinned |-> FALSE, batches |-> {}, last |-> 0]
Idle == [pc |-> "idle", batch |-> 0, m |-> NoMeta]
NoCompaction == [pc |-> "idle", ns |-> NoNamespace, m |-> NoMeta, batches |-> {}]
Nothing == [k \in {} |-> 0]

StoreInit ==
    /\ meta = [ns \in Namespaces |-> NoMeta]
    /\ wal = [ns \in Namespaces |-> Nothing]
    /\ snapshot = [ns \in Namespaces |-> NoSnapshot]
    /\ segments = [ns \in Namespaces |-> Nothing]
    /\ view = [ns \in Namespaces |-> NoView]
    /\ appender = [ns \in Namespaces |-> Idle] /\ compaction = NoCompaction
    /\ issued = 0 /\ budget \in Budgets

With(f, k, v) == [x \in DOMAIN f \cup {k} |-> IF x = k THEN v ELSE f[x]]
Without(f, S) == [x \in DOMAIN f \ S |-> f[x]]

-----------------------------------------------------------------------------
(* Reading a namespace.                                                    *)

(* meta.json, or any key under the prefix *)
namespace_exists(ns) ==
    meta[ns].exists \/ DOMAIN wal[ns] # {} \/ DOMAIN segments[ns] # {} \/ snapshot[ns] # NoSnapshot

needs_indexing(m) == m.cursor < m.commit

needs_wal_compaction(m) ==
    /\ m.cursor >= m.commit /\ m.commit > WAL_COMPACTION_THRESHOLD /\ m.cursor > WAL_COMPACT_KEEP
    /\ m.snap < m.cursor

SegmentsThere(ns, from, to) == from..to \subseteq DOMAIN wal[ns]

(* the snapshot counts only if meta.json names it *)
Base(ns) == IF meta[ns].snap > 0 /\ snapshot[ns].seq = meta[ns].snap THEN snapshot[ns] ELSE NoSnapshot

Loadable(ns) == SegmentsThere(ns, Base(ns).seq + 1, meta[ns].commit)

Replayed(ns, from, to) == {wal[ns][seq] : seq \in (from..to) \cap DOMAIN wal[ns]}

(* load_docs_at_wal_commit: the batches a cold load shows *)
Loaded(ns) == Base(ns).batches \cup Replayed(ns, Base(ns).seq + 1, meta[ns].commit)

(* NamespaceView::load; without meta.json the view is empty *)
LoadedView(ns) == [pinned |-> TRUE, batches |-> IF meta[ns].exists THEN Loaded(ns) ELSE {}, last |-> meta[ns].commit]

(* load_namespace_for_query, strong: a pinned view catches up, else a load *)
Query(ns) ==
    /\ budget.query /\ namespace_exists(ns)
    /\ LET v == view[ns]
           m == meta[ns]
       IN  \/ /\ ~ v.pinned \/ (v.last < m.commit /\ v.last < m.snap)
              /\ Loadable(ns)
              /\ view' = [view EXCEPT ![ns] = LoadedView(ns)]
           \/ /\ v.pinned /\ v.last < m.commit /\ v.last >= m.snap
              /\ SegmentsThere(ns, v.last + 1, m.commit)
              /\ view' = [view EXCEPT ![ns].batches = @ \cup Replayed(ns, v.last + 1, m.commit),
                                      ![ns].last = m.commit]
    /\ UNCHANGED <<store, appender, compaction, issued, budget>>

-----------------------------------------------------------------------------
(* append_wal and the end of write_documents.                              *)

AppendRead(ns) ==
    /\ appender[ns].pc = "idle" /\ compaction.ns # ns /\ budget.writes[ns] > 0
    /\ budget' = [budget EXCEPT !.writes[ns] = @ - 1]
    /\ issued' = issued + 1
    /\ appender' = [appender EXCEPT ![ns] = [pc |-> "put", batch |-> issued + 1, m |-> meta[ns]]]
    /\ UNCHANGED <<store, view>>

(* the PUT is unconditional *)
put_wal(ns, seq, batch) == wal' = [wal EXCEPT ![ns] = With(@, seq, batch)]

AppendPut(ns) ==
    /\ appender[ns].pc = "put"
    /\ put_wal(ns, appender[ns].m.commit + 1, appender[ns].batch)
    /\ appender' = [appender EXCEPT ![ns].pc = "swap"]
    /\ UNCHANGED <<meta, snapshot, segments, view, issued, budget>>

(* If-None-Match for a first write; If-Match fails with PreconditionFailed *)
(* when meta.json was created or changed meanwhile (the segment is deleted *)
(* and the append starts again) and with another error when it is gone     *)
AppendSwap(ns) ==
    /\ appender[ns].pc = "swap"
    /\ LET a == appender[ns]
           seq == a.m.commit + 1
       IN  \/ /\ meta[ns] = a.m
              /\ meta' = [meta EXCEPT ![ns] = [a.m EXCEPT !.commit = seq, !.exists = TRUE]]
              /\ appender' = [appender EXCEPT ![ns].pc = "apply", ![ns].m.commit = seq]
              /\ UNCHANGED wal
           \/ /\ meta[ns] # a.m /\ meta[ns].exists
              /\ wal' = [wal EXCEPT ![ns] = Without(@, {seq})]
              /\ appender' = [appender EXCEPT ![ns].pc = "put", ![ns].m = meta[ns]]
              /\ UNCHANGED <<meta>>
           \/ /\ meta[ns] # a.m /\ ~ meta[ns].exists
              /\ appender' = [appender EXCEPT ![ns] = Idle]
              /\ UNCHANGED <<meta, wal>>
    /\ UNCHANGED <<snapshot, segments, view, issued, budget>>

apply_committed(v, a) == [v EXCEPT !.batches = @ \cup {a.batch}, !.last = a.m.commit]

(* to a pinned view, else a load *)
AppendApply(ns) ==
    /\ appender[ns].pc = "apply"
    /\ view' = [view EXCEPT ![ns] =
          IF view[ns].pinned THEN apply_committed(view[ns], appender[ns])
          ELSE IF Loadable(ns) THEN LoadedView(ns) ELSE view[ns]]
    /\ appender' = [appender EXCEPT ![ns] = Idle]
    /\ UNCHANGED <<store, issued, budget>>

(* one operation other than a write *)
Count(kind) == budget[kind] > 0 /\ budget' = [budget EXCEPT ![kind] = @ - 1]

Append_(ns) ==
    /\ AppendRead(ns) \/ AppendPut(ns) \/ AppendSwap(ns) \/ AppendApply(ns)
    /\ UNCHANGED compaction

-----------------------------------------------------------------------------
(* maybe_compact_wal.  It holds the commit lock to the end, which keeps    *)
(* appends out, but neither deletes nor copies.                            *)

(* docs_at_index_cursor takes whatever snapshot is there and not newer     *)
(* than the cursor                                                         *)
OldSnapshot(ns) == IF snapshot[ns].seq <= meta[ns].cursor THEN snapshot[ns] ELSE NoSnapshot

CanCompact(ns) ==
    /\ meta[ns].exists /\ needs_wal_compaction(meta[ns])
    /\ SegmentsThere(ns, OldSnapshot(ns).seq + 1, meta[ns].cursor)

docs_at_index_cursor(ns) ==
    OldSnapshot(ns).batches \cup Replayed(ns, OldSnapshot(ns).seq + 1, meta[ns].cursor)

(* nothing to do, or the documents cannot be read *)
CompactSkip(ns) ==
    /\ compaction.pc \in {"idle", "read"} /\ ~ CanCompact(ns)
    /\ compaction' = NoCompaction
    /\ UNCHANGED store

CompactRead(ns) ==
    /\ compaction.pc \in {"idle", "read"} /\ CanCompact(ns)
    /\ appender[ns].pc \notin {"put", "swap"}
    /\ compaction' = [pc |-> "put", ns |-> ns, m |-> meta[ns], batches |-> docs_at_index_cursor(ns)]
    /\ UNCHANGED store

(* the PUT is unconditional *)
CompactPut(ns) ==
    /\ compaction.pc = "put"
    /\ snapshot' = [snapshot EXCEPT ![ns] = [seq |-> compaction.m.cursor, batches |-> compaction.batches]]
    /\ compaction' = [compaction EXCEPT !.pc = "swap", !.batches = {}]
    /\ UNCHANGED <<meta, wal, segments>>

(* If-Match: a changed meta.json is read again, one that is gone is an error *)
CompactSwap(ns) ==
    /\ compaction.pc = "swap"
    /\ \/ /\ meta[ns] = compaction.m
          /\ meta' = [meta EXCEPT ![ns].snap = compaction.m.cursor]
          /\ compaction' = [compaction EXCEPT !.pc = "delete"]
       \/ /\ meta[ns] # compaction.m
          /\ compaction' = IF meta[ns].exists THEN [compaction EXCEPT !.pc = "read"] ELSE NoCompaction
          /\ UNCHANGED meta
    /\ UNCHANGED <<wal, snapshot, segments>>

CompactDelete(ns) ==
    /\ compaction.pc = "delete"
    /\ wal' = [wal EXCEPT ![ns] = Without(@, 1..(compaction.m.cursor - WAL_COMPACT_KEEP))]
    /\ compaction' = NoCompaction
    /\ UNCHANGED <<meta, snapshot, segments>>

(* it has returned when the lock is free again *)
maybe_compact_wal(ns) ==
    /\ CompactSkip(ns) \/ CompactRead(ns) \/ CompactPut(ns) \/ CompactSwap(ns) \/ CompactDelete(ns)
    /\ UNCHANGED <<view, appender, issued, budget>>

(* a request fails or, in a time slice, the call is dropped *)
CompactFails ==
    /\ compaction # NoCompaction /\ Count("failure")
    /\ compaction' = NoCompaction
    /\ UNCHANGED <<store, view, appender, issued>>
=============================================================================
