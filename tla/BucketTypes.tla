---------------------------- MODULE BucketTypes ----------------------------
(***************************************************************************)
(* The invariants of Bucket, part 1: every step keeps the types.  What the *)
(* invariants say of the queue, of deletes, copies and listings is proved  *)
(* in BucketProofs.                                                        *)
(***************************************************************************)
EXTENDS Bucket, TLAPS

-----------------------------------------------------------------------------
(* Types of what the actions read.                                         *)

(* A replay reads numbers from the segments that are there. *)
LEMMA ReplayedType ==
  ASSUME StoreOK, NEW ns \in Namespaces, NEW from, NEW to
  PROVE  Replayed(ns, from, to) \in SUBSET Nat
BY DEF Replayed, StoreOK

LEMMA BaseType ==
  ASSUME StoreOK, NEW ns \in Namespaces
  PROVE  Base(ns) \in [seq : Nat, batches : SUBSET Nat]
<1>1. NoSnapshot \in [seq : Nat, batches : SUBSET Nat]
  BY Zenon DEF NoSnapshot
<1> QED
  BY <1>1, Zenon DEF Base, StoreOK

(* A cold load shows numbers of batches. *)
LEMMA LoadedType ==
  ASSUME StoreOK, NEW ns \in Namespaces
  PROVE  Loaded(ns) \in SUBSET Nat
<1>1. Replayed(ns, Base(ns).seq + 1, meta[ns].commit) \in SUBSET Nat
  BY ReplayedType, Zenon
<1> QED
  BY <1>1, BaseType, Zenon DEF Loaded

LEMMA LoadedViewType ==
  ASSUME StoreOK, NEW ns \in Namespaces
  PROVE  LoadedView(ns) \in [pinned : BOOLEAN, batches : SUBSET Nat, last : Nat]
<1>1. meta[ns].commit \in Nat
  BY Zenon DEF StoreOK, Meta
<1> QED
  BY <1>1, LoadedType, Zenon DEF LoadedView

LEMMA KeysType ==
  ASSUME StoreOK, NEW ns \in Namespaces
  PROVE  Keys(ns) \in Listed
<1>1. meta[ns].exists \in BOOLEAN /\ DOMAIN segments[ns] \in SUBSET Nat /\ DOMAIN wal[ns] \in SUBSET Nat
  BY Zenon DEF StoreOK, Meta
<1> QED
  BY <1>1, Zenon DEF Keys, Listed

-----------------------------------------------------------------------------
(* Each step keeps the types.                                              *)

LEMMA WithType ==
  ASSUME NEW T, NEW f, DOMAIN f \subseteq Nat, f \in [DOMAIN f -> T], NEW k \in Nat, NEW v \in T
  PROVE  /\ DOMAIN With(f, k, v) \subseteq Nat
         /\ With(f, k, v) \in [DOMAIN With(f, k, v) -> T]
BY Zenon DEF With

LEMMA WithoutType ==
  ASSUME NEW T, NEW f, DOMAIN f \subseteq Nat, f \in [DOMAIN f -> T], NEW S
  PROVE  /\ DOMAIN Without(f, S) \subseteq Nat
         /\ Without(f, S) \in [DOMAIN Without(f, S) -> T]
BY Zenon DEF Without

(* One object group of one namespace changes. *)
LEMMA WalType ==
  ASSUME StoreOK, NEW ns \in Namespaces, NEW f, DOMAIN f \subseteq Nat, f \in [DOMAIN f -> Nat],
         wal' = [wal EXCEPT ![ns] = f], UNCHANGED <<meta, snapshot, segments>>
  PROVE  StoreOK'
<1>1. DOMAIN wal' = Namespaces
  BY Zenon DEF StoreOK
<1>2. ASSUME NEW n \in Namespaces
      PROVE  DOMAIN wal'[n] \subseteq Nat /\ wal'[n] \in [DOMAIN wal'[n] -> Nat]
  BY Zenon DEF StoreOK
<1> QED
  BY <1>1, <1>2, Zenon DEF StoreOK

LEMMA AppendReadTypes ==
  ASSUME StoreOK, CallsOK, NEW ns \in Namespaces, AppendRead(ns)
  PROVE  StoreOK' /\ CallsOK'
<1>1. StoreOK'
  BY Zenon DEF StoreOK, AppendRead, store
<1>2. issued' \in Nat /\ view' = view
  BY DEF CallsOK, AppendRead
<1>3. [pc |-> "put", batch |-> issued + 1, m |-> meta[ns]]
      \in [pc : {"idle", "put", "swap", "apply"}, batch : Nat, m : Meta]
  BY DEF CallsOK, StoreOK
<1>4. appender' \in [Namespaces -> [pc : {"idle", "put", "swap", "apply"}, batch : Nat, m : Meta]]
  BY <1>3, Zenon DEF CallsOK, AppendRead
<1>5. budget' \in Allowance
  <2>1. budget.writes \in [Namespaces -> Nat] /\ budget.writes[ns] > 0
    BY Zenon DEF CallsOK, AppendRead, Allowance
  <2>2. [budget.writes EXCEPT ![ns] = @ - 1] \in [Namespaces -> Nat]
    BY <2>1
  <2>3. budget' = [budget EXCEPT !.writes = [budget.writes EXCEPT ![ns] = @ - 1]]
    BY Zenon DEF AppendRead
  <2> QED
    BY <2>2, <2>3, Zenon DEF CallsOK, Allowance
<1> QED
  BY <1>1, <1>2, <1>4, <1>5, Zenon DEF CallsOK

LEMMA AppendPutTypes ==
  ASSUME StoreOK, CallsOK, NEW ns \in Namespaces, AppendPut(ns)
  PROVE  StoreOK' /\ CallsOK'
<1>1. appender[ns].batch \in Nat /\ appender[ns].m.commit + 1 \in Nat
  BY DEF CallsOK, Meta
<1>2. DOMAIN wal[ns] \subseteq Nat /\ wal[ns] \in [DOMAIN wal[ns] -> Nat]
  BY Zenon DEF StoreOK
<1>3. wal' = [wal EXCEPT ![ns] = With(wal[ns], appender[ns].m.commit + 1, appender[ns].batch)]
  BY Zenon DEF AppendPut, put_wal
<1>4. StoreOK'
  BY <1>1, <1>2, <1>3, WithType, WalType, Zenon DEF AppendPut
<1>5. CallsOK'
  BY Zenon DEF CallsOK, AppendPut
<1> QED
  BY <1>4, <1>5, Zenon

LEMMA AppendSwapTypes ==
  ASSUME StoreOK, CallsOK, NEW ns \in Namespaces, AppendSwap(ns)
  PROVE  StoreOK' /\ CallsOK'
<1> DEFINE a == appender[ns]
<1> DEFINE seq == a.m.commit + 1
<1>1. a \in [pc : {"idle", "put", "swap", "apply"}, batch : Nat, m : Meta] /\ meta[ns] \in Meta
  BY Zenon DEF CallsOK, StoreOK
<1>2. seq \in Nat /\ a.m \in Meta
  BY <1>1 DEF Meta
<1>3. DOMAIN wal[ns] \subseteq Nat /\ wal[ns] \in [DOMAIN wal[ns] -> Nat]
  BY Zenon DEF StoreOK
<1>4. [a EXCEPT !.pc = "put", !.m = meta[ns]] \in [pc : {"idle", "put", "swap", "apply"}, batch : Nat, m : Meta]
  BY <1>1, Zenon
<1>5. [a EXCEPT !.pc = "apply", !.m.commit = seq] \in [pc : {"idle", "put", "swap", "apply"}, batch : Nat, m : Meta]
  BY <1>1, <1>2, Zenon DEF Meta
<1>6. Idle \in [pc : {"idle", "put", "swap", "apply"}, batch : Nat, m : Meta]
  BY Zenon DEF Idle, NoMeta, Meta
<1>7. [a.m EXCEPT !.commit = seq, !.exists = TRUE] \in Meta
  BY <1>2, Zenon DEF Meta
<1>8. StoreOK'
  <2>1. CASE meta' = [meta EXCEPT ![ns] = [a.m EXCEPT !.commit = seq, !.exists = TRUE]] /\ UNCHANGED wal
    <3>1. meta' \in [Namespaces -> Meta]
      BY <1>7, <2>1, Zenon DEF StoreOK
    <3> QED
      BY <2>1, <3>1, Zenon DEF StoreOK, AppendSwap
  <2>2. CASE UNCHANGED meta /\ wal' = [wal EXCEPT ![ns] = Without(wal[ns], {seq})]
    <3>1. UNCHANGED <<meta, snapshot, segments>>
      BY <2>2, Zenon DEF AppendSwap
    <3>2. /\ DOMAIN Without(wal[ns], {seq}) \subseteq Nat
          /\ Without(wal[ns], {seq}) \in [DOMAIN Without(wal[ns], {seq}) -> Nat]
      BY <1>3, WithoutType, Zenon
    <3> QED
      BY <2>2, <3>1, <3>2, WalType, Zenon
  <2>3. CASE UNCHANGED <<meta, wal>>
    BY <2>3, Zenon DEF StoreOK, AppendSwap
  <2> QED
    BY <2>1, <2>2, <2>3, Zenon DEF AppendSwap
<1>9. appender' \in [Namespaces -> [pc : {"idle", "put", "swap", "apply"}, batch : Nat, m : Meta]]
  BY SMTT(40), <1>4, <1>5, <1>6 DEF CallsOK, AppendSwap
<1> QED
  BY <1>8, <1>9, Zenon DEF CallsOK, AppendSwap


LEMMA AppendApplyTypes ==
  ASSUME StoreOK, CallsOK, NEW ns \in Namespaces, AppendApply(ns)
  PROVE  StoreOK' /\ CallsOK'
<1>1. StoreOK'
  BY Zenon DEF StoreOK, AppendApply, store
<1>2. appender' \in [Namespaces -> [pc : {"idle", "put", "swap", "apply"}, batch : Nat, m : Meta]]
  BY Zenon DEF CallsOK, AppendApply, Idle, NoMeta, Meta
<1>3. view' \in [Namespaces -> [pinned : BOOLEAN, batches : SUBSET Nat, last : Nat]]
  <2>1. view[ns] \in [pinned : BOOLEAN, batches : SUBSET Nat, last : Nat]
    BY Zenon DEF CallsOK
  <2>2. appender[ns].batch \in Nat /\ appender[ns].m.commit \in Nat
    BY Zenon DEF CallsOK, Meta
  <2>3. apply_committed(view[ns], appender[ns]) \in [pinned : BOOLEAN, batches : SUBSET Nat, last : Nat]
    BY <2>1, <2>2, Zenon DEF apply_committed
  <2> QED
    BY <2>1, <2>3, LoadedViewType, Zenon DEF CallsOK, AppendApply
<1> QED
  BY <1>1, <1>2, <1>3, Zenon DEF CallsOK, AppendApply

LEMMA QueryTypes ==
  ASSUME StoreOK, CallsOK, NEW ns \in Namespaces, Query(ns)
  PROVE  StoreOK' /\ CallsOK'
<1>1. StoreOK'
  BY Zenon DEF StoreOK, Query, store
<1>2. view' \in [Namespaces -> [pinned : BOOLEAN, batches : SUBSET Nat, last : Nat]]
  <2> DEFINE v == view[ns]
  <2>1. v \in [pinned : BOOLEAN, batches : SUBSET Nat, last : Nat] /\ meta[ns].commit \in Nat
    BY Zenon DEF CallsOK, StoreOK, Meta
  <2>2. Replayed(ns, v.last + 1, meta[ns].commit) \in SUBSET Nat
    BY ReplayedType, Zenon
  <2>3. [v EXCEPT !.batches = @ \cup Replayed(ns, v.last + 1, meta[ns].commit), !.last = meta[ns].commit]
        \in [pinned : BOOLEAN, batches : SUBSET Nat, last : Nat]
    BY <2>1, <2>2, Zenon
  <2>4. \/ view' = [view EXCEPT ![ns] = LoadedView(ns)]
        \/ view' = [view EXCEPT ![ns] = [v EXCEPT !.batches = @ \cup Replayed(ns, v.last + 1, meta[ns].commit),
                                                  !.last = meta[ns].commit]]
    BY Zenon DEF Query, CallsOK
  <2> HIDE DEF v
  <2> QED
    BY ZenonT(30), <2>3, <2>4, LoadedViewType DEF CallsOK
<1> QED
  BY <1>1, <1>2, Zenon DEF CallsOK, Query

LEMMA CountTypes ==
  ASSUME CallsOK, NEW kind \in {"delete", "copy", "list", "failure"}, Count(kind)
  PROVE  budget' \in Allowance
BY DEF CallsOK, Count, Allowance

LEMMA GotoTypes ==
  ASSUME StoreOK, CallsOK, NEW t, Goto(t)
  PROVE  StoreOK' /\ CallsOK'
BY Zenon DEF StoreOK, CallsOK, Goto, store


(* The steps of the background task that change objects. *)
LEMMA IndexPutTypes ==
  ASSUME StoreOK, CallsOK, TickOK, tick.ns \in Namespaces, IndexPut
  PROVE  StoreOK' /\ CallsOK'
<1> DEFINE f == With(segments[tick.ns], tick.to, tick.built)
<1>1. tick.to \in Nat /\ tick.built \in SUBSET Nat
  BY Zenon DEF TickOK, TickState
<1>2. DOMAIN f \subseteq Nat /\ f \in [DOMAIN f -> SUBSET Nat]
  BY <1>1, WithType, Zenon DEF StoreOK
<1>3. segments' = [segments EXCEPT ![tick.ns] = f]
  BY Zenon DEF IndexPut
<1> HIDE DEF f
<1>4. DOMAIN segments' = Namespaces
  BY <1>3, Zenon DEF StoreOK
<1>5. ASSUME NEW n \in Namespaces
      PROVE  DOMAIN segments'[n] \subseteq Nat /\ segments'[n] \in [DOMAIN segments'[n] -> SUBSET Nat]
  BY <1>2, <1>3, Zenon DEF StoreOK
<1> QED
  BY <1>4, <1>5, Zenon DEF StoreOK, CallsOK, IndexPut

LEMMA IndexCommitTypes ==
  ASSUME StoreOK, CallsOK, TickOK, tick.ns \in Namespaces, IndexCommit
  PROVE  StoreOK' /\ CallsOK'
<1> DEFINE m == meta[tick.ns]
<1>1. tick.to \in Nat /\ m \in Meta
  BY Zenon DEF TickOK, TickState, StoreOK
<1>2. meta_after_index_commit(m, tick.to) \in Meta
  BY <1>1, Zenon DEF meta_after_index_commit, Meta
<1>3. meta' = meta \/ meta' = [meta EXCEPT ![tick.ns] = meta_after_index_commit(m, tick.to)]
  BY Zenon DEF IndexCommit
<1>4. meta' \in [Namespaces -> Meta]
  BY <1>2, <1>3, Zenon DEF StoreOK
<1> QED
  BY <1>4, Zenon DEF StoreOK, CallsOK, IndexCommit

(* What compaction reads, and what it writes. *)
LEMMA CompactReadTypes ==
  ASSUME StoreOK, NEW ns \in Namespaces, CompactRead(ns)
  PROVE  StoreOK' /\ compaction' \in CompactionState /\ compaction'.ns = ns
<1>1. OldSnapshot(ns) \in [seq : Nat, batches : SUBSET Nat]
  BY Zenon DEF OldSnapshot, StoreOK, NoSnapshot
<1>2. docs_at_index_cursor(ns) \in SUBSET Nat
  <2>1. Replayed(ns, OldSnapshot(ns).seq + 1, meta[ns].cursor) \in SUBSET Nat
    BY ReplayedType, Zenon
  <2> QED
    BY <1>1, <2>1, Zenon DEF docs_at_index_cursor
<1>3. compaction' = [pc |-> "put", ns |-> ns, m |-> meta[ns], batches |-> docs_at_index_cursor(ns)]
  BY Zenon DEF CompactRead
<1>4. meta[ns] \in Meta
  BY Zenon DEF StoreOK
<1>5. compaction' \in CompactionState /\ compaction'.ns = ns
  BY <1>2, <1>3, <1>4, Zenon DEF CompactionState
<1>6. StoreOK'
  BY Zenon DEF CompactRead, StoreOK, store
<1> QED
  BY <1>5, <1>6, Zenon

LEMMA CompactPutTypes ==
  ASSUME StoreOK, compaction \in CompactionState, CompactPut(compaction.ns)
  PROVE  StoreOK' /\ compaction' \in CompactionState /\ compaction'.ns = compaction.ns
<1>1. compaction.ns \in Namespaces /\ compaction.m.cursor \in Nat /\ compaction.batches \in SUBSET Nat
  BY Zenon DEF CompactionState, Meta
<1>2. snapshot' \in [Namespaces -> [seq : Nat, batches : SUBSET Nat]]
  BY <1>1, Zenon DEF StoreOK, CompactPut
<1>3. compaction' \in CompactionState /\ compaction'.ns = compaction.ns
  BY Zenon DEF CompactionState, CompactPut
<1>4. StoreOK'
  BY <1>2, Zenon DEF StoreOK, CompactPut
<1> QED
  BY <1>3, <1>4, Zenon

LEMMA CompactSwapTypes ==
  ASSUME StoreOK, compaction \in CompactionState, CompactSwap(compaction.ns)
  PROVE  /\ StoreOK'
         /\ compaction' = NoCompaction \/ (compaction' \in CompactionState /\ compaction'.ns = compaction.ns)
<1>1. compaction.ns \in Namespaces /\ compaction.m.cursor \in Nat
  BY Zenon DEF CompactionState, Meta
<1>2. [meta[compaction.ns] EXCEPT !.snap = compaction.m.cursor] \in Meta
  BY <1>1, Zenon DEF StoreOK, Meta
<1>3. meta' = meta \/ meta' = [meta EXCEPT ![compaction.ns] = [meta[compaction.ns] EXCEPT !.snap = compaction.m.cursor]]
  BY Zenon DEF CompactSwap
<1>4. meta' \in [Namespaces -> Meta]
  BY <1>1, <1>2, <1>3, Zenon DEF StoreOK
<1>5. StoreOK'
  BY <1>4, Zenon DEF StoreOK, CompactSwap
<1>6. \/ compaction' = NoCompaction
      \/ compaction' = [compaction EXCEPT !.pc = "delete"] \/ compaction' = [compaction EXCEPT !.pc = "read"]
  BY Zenon DEF CompactSwap
<1>7. compaction' = NoCompaction \/ (compaction' \in CompactionState /\ compaction'.ns = compaction.ns)
  BY <1>6, Zenon DEF CompactionState
<1> QED
  BY <1>5, <1>7, Zenon

LEMMA CompactDeleteTypes ==
  ASSUME StoreOK, NEW ns \in Namespaces, CompactDelete(ns)
  PROVE  StoreOK' /\ compaction' = NoCompaction
<1> DEFINE old == 1..(compaction.m.cursor - WAL_COMPACT_KEEP)
<1>1. /\ wal' = [wal EXCEPT ![ns] = Without(wal[ns], old)] /\ UNCHANGED <<meta, snapshot, segments>>
      /\ compaction' = NoCompaction
  BY Zenon DEF CompactDelete
<1> HIDE DEF old
<1>2. /\ DOMAIN Without(wal[ns], old) \subseteq Nat
      /\ Without(wal[ns], old) \in [DOMAIN Without(wal[ns], old) -> Nat]
  BY WithoutType, Zenon DEF StoreOK
<1> QED
  BY <1>1, <1>2, WalType, Zenon

(* A compaction is idle, or at one of its steps. *)
LEMMA CompactionPc ==
  ASSUME CompactionOK
  PROVE  /\ compaction.pc = "idle" <=> compaction = NoCompaction
         /\ compaction = NoCompaction \/ (compaction \in CompactionState /\ compaction.ns = tick.ns)
BY DEF CompactionOK, CompactionState, NoCompaction

LEMMA CompactingTypes ==
  ASSUME StoreOK, CallsOK, CompactionOK, tick.ns \in Namespaces, Compacting
  PROVE  /\ StoreOK' /\ CallsOK'
         /\ compaction' = NoCompaction \/ (compaction' \in CompactionState /\ compaction'.ns = tick.ns)
<1>1. CASE CompactFails
  BY <1>1, CountTypes, Zenon DEF CompactFails, CallsOK, StoreOK, store
<1>2. CASE maybe_compact_wal(tick.ns)
  <2>1. CallsOK'
    BY <1>2, Zenon DEF maybe_compact_wal, CallsOK
  <2>2. CASE CompactSkip(tick.ns)
    BY <2>1, <2>2, Zenon DEF CompactSkip, StoreOK, store
  <2>3. CASE CompactRead(tick.ns)
    BY <2>1, <2>3, CompactReadTypes, Zenon
  <2>4. CASE CompactPut(tick.ns)
    <3>1. compaction \in CompactionState /\ compaction.ns = tick.ns
      BY <2>4, CompactionPc DEF CompactPut
    <3> QED
      BY <2>1, <2>4, <3>1, CompactPutTypes, Zenon
  <2>5. CASE CompactSwap(tick.ns)
    <3>1. compaction \in CompactionState /\ compaction.ns = tick.ns
      BY <2>5, CompactionPc DEF CompactSwap
    <3> QED
      BY <2>1, <2>5, <3>1, CompactSwapTypes, Zenon
  <2>6. CASE CompactDelete(tick.ns)
    BY <2>1, <2>6, CompactDeleteTypes, Zenon
  <2> QED
    BY <1>2, <2>2, <2>3, <2>4, <2>5, <2>6, Zenon DEF maybe_compact_wal
<1> QED
  BY <1>1, <1>2, Zenon DEF Compacting

(* The steps of a delete and of a copy. *)
LEMMA DeletionFields ==
  ASSUME LifecycleOK, deletion.pc \in {"objects", "forget"}
  PROVE  deletion \in DeletionState /\ deletion.ns \in Namespaces /\ deletion # NoDeletion
BY DEF LifecycleOK, NoDeletion, DeletionState

LEMMA CloneFields ==
  ASSUME LifecycleOK, clone.pc \in {"index", "meta", "wal", "forget"}
  PROVE  /\ clone \in CloneState /\ clone.source \in Namespaces /\ clone.dest \in Namespaces
         /\ clone # NoClone
BY DEF LifecycleOK, NoClone, CloneState

LEMMA DeleteObjectsTypes ==
  ASSUME StoreOK, LifecycleOK, NEW part \in {"index", "meta", "wal"}, DeleteObjects(part)
  PROVE  StoreOK'
<1> DEFINE ns == deletion.ns
<1>0. ns \in Namespaces
  BY DeletionFields, Zenon DEF DeleteObjects
<1>1. NoMeta \in Meta /\ NoSnapshot \in [seq : Nat, batches : SUBSET Nat]
  BY Zenon DEF NoMeta, Meta, NoSnapshot
<1>2. /\ meta' = meta \/ meta' = [meta EXCEPT ![ns] = NoMeta]
      /\ snapshot' = snapshot \/ snapshot' = [snapshot EXCEPT ![ns] = NoSnapshot]
      /\ wal' = wal \/ wal' = [wal EXCEPT ![ns] = Without(wal[ns], deletion.keys.wal)]
      /\ segments' = segments \/ segments' = [segments EXCEPT ![ns] = Without(segments[ns], deletion.keys.index)]
  BY Zenon DEF DeleteObjects
<1> HIDE DEF ns
<1>3. meta' \in [Namespaces -> Meta] /\ snapshot' \in [Namespaces -> [seq : Nat, batches : SUBSET Nat]]
  BY SMTT(30), <1>0, <1>1, <1>2 DEF StoreOK
<1>4. DOMAIN wal' = Namespaces /\ DOMAIN segments' = Namespaces
  BY <1>2, Zenon DEF StoreOK
<1>5. ASSUME NEW n \in Namespaces
      PROVE  DOMAIN wal'[n] \subseteq Nat /\ wal'[n] \in [DOMAIN wal'[n] -> Nat]
  <2>1. DOMAIN wal[n] \subseteq Nat /\ wal[n] \in [DOMAIN wal[n] -> Nat] /\ DOMAIN wal = Namespaces
    BY Zenon DEF StoreOK
  <2>2. wal'[n] = wal[n] \/ wal'[n] = Without(wal[n], deletion.keys.wal)
    BY <1>2, <2>1, Zenon
  <2>3. /\ DOMAIN Without(wal[n], deletion.keys.wal) \subseteq Nat
        /\ Without(wal[n], deletion.keys.wal) \in [DOMAIN Without(wal[n], deletion.keys.wal) -> Nat]
    BY <2>1, WithoutType, Zenon
  <2> QED
    BY <2>1, <2>2, <2>3, Zenon
<1>6. ASSUME NEW n \in Namespaces
      PROVE  DOMAIN segments'[n] \subseteq Nat /\ segments'[n] \in [DOMAIN segments'[n] -> SUBSET Nat]
  <2>1. DOMAIN segments[n] \subseteq Nat /\ segments[n] \in [DOMAIN segments[n] -> SUBSET Nat]
        /\ DOMAIN segments = Namespaces
    BY Zenon DEF StoreOK
  <2>2. segments'[n] = segments[n] \/ segments'[n] = Without(segments[n], deletion.keys.index)
    BY <1>2, <2>1, Zenon
  <2>3. /\ DOMAIN Without(segments[n], deletion.keys.index) \subseteq Nat
        /\ Without(segments[n], deletion.keys.index) \in [DOMAIN Without(segments[n], deletion.keys.index) -> SUBSET Nat]
    BY <2>1, WithoutType, Zenon
  <2> QED
    BY <2>1, <2>2, <2>3, Zenon
<1> QED
  BY <1>3, <1>4, <1>5, <1>6, Zenon DEF StoreOK

LEMMA CopyIndexTypes ==
  ASSUME StoreOK, LifecycleOK, CopyIndex
  PROVE  StoreOK'
<1> DEFINE old == segments[clone.dest]
<1> DEFINE listed == clone.keys.index
<1> DEFINE f == [k \in DOMAIN old \cup listed |-> IF k \in listed THEN segments[clone.source][k] ELSE old[k]]
<1>1. clone.source \in Namespaces /\ clone.dest \in Namespaces
  BY CloneFields, Zenon DEF CopyIndex
<1>2. CASE listed \subseteq DOMAIN segments[clone.source]
  <2>1. DOMAIN f \subseteq Nat /\ f \in [DOMAIN f -> SUBSET Nat]
    BY ZenonT(30), <1>1, <1>2 DEF StoreOK
  <2>2. segments' = [segments EXCEPT ![clone.dest] = f] /\ UNCHANGED <<meta, wal, snapshot>>
    BY <1>2, Zenon DEF CopyIndex
  <2> HIDE DEF f
  <2>3. DOMAIN segments' = Namespaces
    BY <2>2, Zenon DEF StoreOK
  <2>4. ASSUME NEW n \in Namespaces
        PROVE  DOMAIN segments'[n] \subseteq Nat /\ segments'[n] \in [DOMAIN segments'[n] -> SUBSET Nat]
    BY <2>1, <2>2, Zenon DEF StoreOK
  <2> QED
    BY <2>2, <2>3, <2>4, Zenon DEF StoreOK
<1>3. CASE ~ listed \subseteq DOMAIN segments[clone.source]
  BY <1>3, Zenon DEF CopyIndex, CopyFails, store, StoreOK
<1> QED
  BY <1>2, <1>3, Zenon

LEMMA CopyMetaTypes ==
  ASSUME StoreOK, LifecycleOK, CopyMeta
  PROVE  StoreOK'
<1>1. clone.source \in Namespaces /\ clone.dest \in Namespaces
  BY CloneFields, Zenon DEF CopyMeta
<1>2. UNCHANGED <<segments, wal, snapshot>>
  BY Zenon DEF CopyMeta, CopyFails, store
<1>3. meta' = meta \/ meta' = [meta EXCEPT ![clone.dest] = meta[clone.source]]
  BY Zenon DEF CopyMeta, CopyFails, store
<1>4. meta' \in [Namespaces -> Meta]
  BY <1>1, <1>3, Zenon DEF StoreOK
<1> QED
  BY <1>2, <1>4, Zenon DEF StoreOK

(* What CopyWal writes when no listed object has gone. *)
CopySucceeds ==
    /\ ListedSegments \subseteq DOMAIN wal[clone.source]
    /\ clone.keys.snapshot => snapshot[clone.source] # NoSnapshot

LEMMA CopyWalTypes ==
  ASSUME StoreOK, LifecycleOK, CopyWal
  PROVE  StoreOK'
<1> DEFINE old == wal[clone.dest]
<1> DEFINE f == [k \in DOMAIN old \cup ListedSegments |->
                    IF k \in ListedSegments THEN wal[clone.source][k] ELSE old[k]]
<1>1. clone.source \in Namespaces /\ clone.dest \in Namespaces
  BY CloneFields, Zenon DEF CopyWal
<1>2. CASE CopySucceeds
  <2>1. DOMAIN f \subseteq Nat /\ f \in [DOMAIN f -> Nat]
    BY <1>1, <1>2, Zenon DEF StoreOK, CopySucceeds
  <2>2. wal' = [wal EXCEPT ![clone.dest] = f] /\ UNCHANGED <<meta, segments>>
    BY <1>2, Zenon DEF CopyWal, CopySucceeds
  <2>3. snapshot' = snapshot \/ snapshot' = [snapshot EXCEPT ![clone.dest] = snapshot[clone.source]]
    BY <1>2, Zenon DEF CopyWal, CopySucceeds
  <2>4. snapshot' \in [Namespaces -> [seq : Nat, batches : SUBSET Nat]]
    BY <1>1, <2>3, Zenon DEF StoreOK
  <2> HIDE DEF f
  <2>5. DOMAIN wal' = Namespaces
    BY <2>2, Zenon DEF StoreOK
  <2>6. ASSUME NEW n \in Namespaces
        PROVE  DOMAIN wal'[n] \subseteq Nat /\ wal'[n] \in [DOMAIN wal'[n] -> Nat]
    BY <2>1, <2>2, Zenon DEF StoreOK
  <2> QED
    BY <2>2, <2>4, <2>5, <2>6, Zenon DEF StoreOK
<1>3. CASE ~ CopySucceeds
  BY <1>3, Zenon DEF CopyWal, CopyFails, CopySucceeds, store, StoreOK
<1> QED
  BY <1>2, <1>3, Zenon


-----------------------------------------------------------------------------
(* The background task.                                                    *)

LEMMA SliceSize ==
  ASSUME NEW lag \in Nat, NEW competing \in Nat
  PROVE  segments_per_background_tick(lag, competing) \in Nat
BY SchedulerAssumption, Zenon DEF segments_per_background_tick, Clamp

LEMMA TickFields ==
  ASSUME TickOK
  PROVE  /\ tick.names \in SUBSET Namespaces /\ tick.start \in Seq(Namespaces)
         /\ tick.served \in Seq(Namespaces) /\ tick.to \in Nat /\ tick.built \in SUBSET Nat
         /\ tick.still \in BOOLEAN
BY Zenon DEF TickOK, TickState

LEMMA WakeTypes ==
  ASSUME TickOK, NEW ns \in Namespaces, Wake(ns)
  PROVE  TickOK'
<1>1. queue \in Seq(Namespaces) /\ queued \in SUBSET Namespaces /\ tick' = tick
  BY Zenon DEF TickOK, Wake
<1>2. queue' = queue \/ queue' = Append(queue, ns)
  BY Zenon DEF Wake, wake
<1>3. queue' \in Seq(Namespaces)
  BY <1>1, <1>2
<1>4. queued' \in SUBSET Namespaces
  BY <1>1, Zenon DEF Wake, wake
<1> QED
  BY <1>1, <1>3, <1>4, Zenon DEF TickOK, Popped

LEMMA ListNamesTypes ==
  ASSUME TickOK, list_namespace_names
  PROVE  TickOK'
BY Zenon DEF TickOK, TickState, list_namespace_names, Goto, Popped

LEMMA RefreshLagsTypes ==
  ASSUME StoreOK, TickOK, RefreshLags
  PROVE  TickOK'
<1> DEFINE active == {ns \in tick.names : meta[ns].exists /\
                          (index_scheduling_lag(meta[ns]) > 0 \/ needs_wal_compaction(meta[ns]))}
<1> DEFINE lag == [ns \in active |-> index_scheduling_lag(meta[ns])]
<1>1. active \subseteq Namespaces
  BY TickFields, Zenon
<1>2. \A ns \in active : index_scheduling_lag(meta[ns]) \in Nat
  BY <1>1 DEF index_scheduling_lag, StoreOK, Meta
<1>3. DOMAIN lag = active /\ lag \in [active -> Nat]
  BY <1>2, Zenon
<1>4. tick' = [tick EXCEPT !.pc = "swap", !.lag = lag] /\ UNCHANGED <<queue, queued>>
  BY Zenon DEF RefreshLags, Goto
<1> HIDE DEF lag, active
<1> QED
  BY <1>1, <1>3, <1>4, Zenon DEF TickOK, TickState, Popped

LEMMA RefreshTypes ==
  ASSUME TickOK, refresh_work_queue
  PROVE  TickOK'
<1>1. PICK n \in 0..Cardinality(DOMAIN tick.lag) : queue' \in [1..n -> DOMAIN tick.lag]
  BY Zenon DEF refresh_work_queue, sort_namespaces_by_index_lag
<1>2. n \in Nat
  BY <1>1
<1>3. queue' \in Seq(Namespaces)
  BY <1>1, <1>2 DEF TickOK
<1>4. DOMAIN Nothing = {} /\ Nothing \in [{} -> Nat]
  BY Zenon DEF Nothing
<1>5. tick' = [tick EXCEPT !.pc = "round", !.names = {}, !.lag = Nothing] /\ queued' = DOMAIN tick.lag
  BY Zenon DEF refresh_work_queue, Goto
<1> QED
  BY <1>3, <1>4, <1>5, Zenon DEF TickOK, TickState, Popped

LEMMA RoundBeginTypes ==
  ASSUME StoreOK, TickOK, RoundBegin
  PROVE  TickOK'
<1> DEFINE lag == [ns \in Names(queue) |-> index_scheduling_lag(meta[ns])]
<1>1. Names(queue) \subseteq Namespaces
  BY DEF Names, TickOK
<1>2. \A ns \in Names(queue) : index_scheduling_lag(meta[ns]) \in Nat
  BY <1>1 DEF index_scheduling_lag, StoreOK, Meta
<1>3. DOMAIN lag = Names(queue) /\ lag \in [Names(queue) -> Nat]
  BY <1>2, Zenon
<1>4. /\ tick' = [tick EXCEPT !.pc = "pop", !.start = queue, !.served = <<>>, !.lag = lag]
      /\ UNCHANGED <<queue, queued>>
  BY Zenon DEF RoundBegin, Goto
<1>5. <<>> \in Seq(Namespaces)
  OBVIOUS
<1> HIDE DEF lag
<1> QED
  BY <1>1, <1>3, <1>4, <1>5, Zenon DEF TickOK, TickState, Popped

LEMMA PopTypes ==
  ASSUME TickOK, Pop
  PROVE  TickOK'
<1>1. CASE Len(tick.served) = Len(tick.start) \/ queue = <<>>
  BY ZenonT(40), <1>1 DEF TickOK, TickState, Pop, Goto, Popped
<1>2. CASE ~ (Len(tick.served) = Len(tick.start) \/ queue = <<>>)
  <2>1. Head(queue) \in Namespaces /\ Tail(queue) \in Seq(Namespaces)
    BY <1>2 DEF TickOK
  <2>2. Append(tick.served, Head(queue)) \in Seq(Namespaces)
    BY <2>1, TickFields
  <2>3. /\ tick' = [tick EXCEPT !.pc = "read", !.ns = Head(queue), !.served = Append(tick.served, Head(queue))]
        /\ queue' = Tail(queue) /\ UNCHANGED queued
    BY <1>2, Zenon DEF Pop, Goto
  <2> QED
    BY <2>1, <2>2, <2>3, Zenon DEF TickOK, TickState, Popped
<1> QED
  BY <1>1, <1>2, Zenon


LEMMA IndexReadTypes ==
  ASSUME StoreOK, TickOK, IndexRead
  PROVE  TickOK'
<1> DEFINE m == meta[tick.ns]
<1> DEFINE max == segments_per_background_tick(LagOf(tick.ns), Competing)
<1> DEFINE to == IF m.commit < m.cursor + max THEN m.commit ELSE m.cursor + max
<1> DEFINE old == IF m.segment \in DOMAIN segments[tick.ns] THEN segments[tick.ns][m.segment] ELSE {}
<1> DEFINE built == old \cup Replayed(tick.ns, m.cursor + 1, to)
<1>1. tick.ns \in Namespaces
  BY Zenon DEF TickOK, Popped, IndexRead
<1>2. max \in Nat
  <2>1. LagOf(tick.ns) \in Nat
    BY Zenon DEF LagOf, TickOK
  <2>2. Competing \in Nat
    BY TickFields DEF Competing
  <2> QED
    BY <2>1, <2>2, SliceSize, Zenon
<1>3. to \in Nat
  BY <1>1, <1>2 DEF StoreOK, Meta
<1>4. built \in SUBSET Nat
  <2>1. old \in SUBSET Nat
    BY <1>1, Zenon DEF StoreOK
  <2>2. Replayed(tick.ns, m.cursor + 1, to) \in SUBSET Nat
    BY <1>1, ReplayedType, Zenon
  <2> QED
    BY <2>1, <2>2, Zenon
<1>5. /\ \/ tick' = [tick EXCEPT !.pc = "check"]
         \/ tick' = [tick EXCEPT !.pc = "put", !.to = to, !.built = built]
         \/ tick' = [tick EXCEPT !.pc = "requeue", !.still = TRUE]
      /\ UNCHANGED <<queue, queued>>
  BY Zenon DEF IndexRead, Goto
<1> HIDE DEF to, built
<1> QED
  BY ZenonT(30), <1>1, <1>3, <1>4, <1>5 DEF TickOK, TickState, Popped

(* A step that moves on in the slice of the same name. *)
LEMMA SliceTypes ==
  ASSUME TickOK, Popped, NEW pc \in {"read", "put", "commit", "compact", "check", "compact_checked", "requeue"},
         NEW still \in BOOLEAN,
         tick' = [tick EXCEPT !.pc = pc, !.still = still], UNCHANGED <<queue, queued>>
  PROVE  TickOK'
BY Zenon DEF TickOK, TickState, Popped

LEMMA MoveTypes ==
  ASSUME TickOK, Popped, NEW pc \in {"read", "put", "commit", "compact", "check", "compact_checked", "requeue"},
         tick' = [tick EXCEPT !.pc = pc], UNCHANGED <<queue, queued>>
  PROVE  TickOK'
BY Zenon DEF TickOK, TickState, Popped

LEMMA RequeueTypes ==
  ASSUME TickOK, Requeue
  PROVE  TickOK'
<1>1. tick.ns \in Namespaces
  BY Zenon DEF TickOK, Popped, Requeue
<1>2. queue' \in Seq(Namespaces) /\ queued' \in SUBSET Namespaces
  BY <1>1 DEF TickOK, Requeue, RequeueLast
<1>3. tick' = [tick EXCEPT !.pc = "pop", !.ns = NoNamespace, !.to = 0, !.built = {}, !.still = FALSE]
  BY Zenon DEF Requeue, Goto
<1> QED
  BY <1>2, <1>3, Zenon DEF TickOK, TickState, Popped

LEMMA WaitingType ==
  ASSUME TickOK, tick' = Waiting, UNCHANGED <<queue, queued>>
  PROVE  TickOK'
<1>1. <<>> \in Seq(Namespaces)
  OBVIOUS
<1>2. DOMAIN Nothing = {} /\ Nothing \in [{} -> Nat]
  BY Zenon DEF Nothing
<1> QED
  BY <1>1, <1>2, Zenon DEF TickOK, TickState, Popped, Waiting


(* The tick goes on with a namespace, or waits. *)
LEMMA ListedTypes ==
  ASSUME TickOK, compaction_pass \/ NextListed
  PROVE  TickOK'
<1>1. CASE compaction_pass
  <2>1. /\ tick' = [tick EXCEPT !.pc = "next", !.names = {ns \in Namespaces : namespace_exists(ns)}]
        /\ UNCHANGED <<queue, queued>>
    BY <1>1, Zenon DEF compaction_pass, Goto
  <2> QED
    BY <2>1, Zenon DEF TickOK, TickState, Popped
<1>2. CASE NextListed
  <2>1. CASE tick' = Waiting
    BY <1>2, <2>1, WaitingType, Zenon DEF NextListed
  <2>2. ASSUME NEW ns \in tick.names,
               tick' = [tick EXCEPT !.pc = "compact_listed", !.ns = ns, !.names = tick.names \ {ns}]
        PROVE  TickOK'
    BY <1>2, <2>2, TickFields, Zenon DEF TickOK, TickState, Popped, NextListed
  <2> QED
    BY <1>2, <2>1, <2>2, Zenon DEF NextListed, Goto
<1> QED
  BY <1>1, <1>2, Zenon

LEMMA CheckTypes ==
  ASSUME StoreOK, TickOK, Check
  PROVE  TickOK'
<1>1. Popped /\ tick.ns \in Namespaces
  BY Zenon DEF Check, Popped, TickOK
<1>2. meta[tick.ns].exists \in BOOLEAN
  BY <1>1, Zenon DEF StoreOK, Meta
<1>3. \E pc \in {"compact_checked", "requeue"}, still \in BOOLEAN : tick' = [tick EXCEPT !.pc = pc, !.still = still]
  BY <1>2, Zenon DEF Check, Goto
<1> QED
  BY <1>1, <1>3, SliceTypes, Zenon DEF Check

(* A step of a compaction: the tick waits for it, or goes on. *)
LEMMA CompactingTick ==
  ASSUME TickOK, Compacting
  PROVE  TickOK' /\ (compaction' # NoCompaction => tick' = tick)
<1>1. tick' = IF compaction' = NoCompaction THEN Compacted ELSE tick
  BY Zenon DEF Compacting
<1>2. UNCHANGED <<queue, queued>> /\ tick.pc \in {"compact", "compact_checked", "compact_listed"}
  BY Zenon DEF Compacting
<1>3. tick' = tick => TickOK'
  BY <1>2, Zenon DEF TickOK, Popped
<1>4. ASSUME tick' = Compacted PROVE TickOK'
  <2>1. CASE tick.pc = "compact"
    <3>1. tick' = [tick EXCEPT !.pc = "check"]
      BY <1>4, <2>1 DEF Compacted
    <3>2. Popped
      BY <2>1, Zenon DEF Popped
    <3> QED
      BY <1>2, <3>1, <3>2, MoveTypes, Zenon
  <2>2. CASE tick.pc = "compact_checked"
    <3>1. tick' = [tick EXCEPT !.pc = "requeue"]
      BY <1>4, <2>2 DEF Compacted
    <3>2. Popped
      BY <2>2, Zenon DEF Popped
    <3> QED
      BY <1>2, <3>1, <3>2, MoveTypes, Zenon
  <2>3. CASE tick.pc = "compact_listed"
    <3>1. tick' = [tick EXCEPT !.pc = "next", !.ns = NoNamespace]
      BY <1>4, <2>3 DEF Compacted
    <3>2. tick \in TickState(tick.lag) /\ queue' = queue /\ queued' = queued
      BY <1>2, Zenon DEF TickOK
    <3>3. tick' \in TickState(tick'.lag) /\ tick'.lag = tick.lag /\ tick'.pc = "next"
      BY <3>1, <3>2, Zenon DEF TickState
    <3> QED
      BY <3>2, <3>3 DEF TickOK, Popped
  <2> QED
    BY <1>2, <2>1, <2>2, <2>3, Zenon
<1> QED
  BY <1>1, <1>3, <1>4, Zenon

-----------------------------------------------------------------------------
(* Deletes, copies and listings.                                           *)

LEMMA KeptType ==
  ASSUME NEW ns
  PROVE  Kept(ns) \in SUBSET Namespaces
BY Zenon DEF Kept

LEMMA InvalidateTypes ==
  ASSUME LifecycleOK, invalidate_namespace_list_cache
  PROVE  /\ list_cache' \in [cached : BOOLEAN, names : SUBSET Namespaces, raced : BOOLEAN]
         /\ listing' \in [pc : {"idle", "listed"}, names : SUBSET Namespaces, raced : BOOLEAN]
<1>1. {} \in SUBSET Namespaces
  OBVIOUS
<1> QED
  BY <1>1, Zenon DEF LifecycleOK, invalidate_namespace_list_cache, NoList

LEMMA DeleteListTypes ==
  ASSUME StoreOK, CallsOK, LifecycleOK, NEW ns \in Namespaces, DeleteList(ns)
  PROVE  StoreOK' /\ CallsOK' /\ LifecycleOK'
<1>1. StoreOK'
  BY Zenon DEF StoreOK, DeleteList, store
<1>2. CallsOK'
  BY CountTypes, Zenon DEF CallsOK, DeleteList
<1>3. [pc |-> "objects", ns |-> ns, keys |-> Keys(ns), left |-> {"index", "meta", "wal"},
       doomed |-> Loaded(ns) \ {appender[ns].batch}] \in DeletionState
  BY KeysType, LoadedType, Zenon DEF DeletionState
<1>4. LifecycleOK'
  BY <1>3, Zenon DEF LifecycleOK, DeleteList
<1> QED
  BY <1>1, <1>2, <1>4, Zenon

LEMMA DeleteObjectsLifecycle ==
  ASSUME LifecycleOK, NEW part \in {"index", "meta", "wal"}, DeleteObjects(part), UNCHANGED <<clone, acked>>
  PROVE  LifecycleOK'
<1>1. deletion \in DeletionState
  BY DeletionFields, Zenon DEF DeleteObjects
<1>2. deletion' \in DeletionState
  BY <1>1, Zenon DEF DeleteObjects, DeletionState
<1> QED
  BY <1>2, Zenon DEF LifecycleOK, DeleteObjects

LEMMA RemoveViewTypes ==
  ASSUME CallsOK, NEW ns \in Namespaces, remove_view(ns), UNCHANGED <<appender, issued, budget>>
  PROVE  CallsOK'
<1>1. NoView \in [pinned : BOOLEAN, batches : SUBSET Nat, last : Nat]
  BY Zenon DEF NoView
<1> QED
  BY <1>1, Zenon DEF CallsOK, remove_view

LEMMA DeleteReturnsTypes ==
  ASSUME StoreOK, CallsOK, LifecycleOK, DeleteReturns, UNCHANGED <<appender, issued, budget, clone, acked>>
  PROVE  StoreOK' /\ CallsOK' /\ LifecycleOK'
<1>1. deletion \in DeletionState /\ deletion.ns \in Namespaces
  BY DeletionFields, Zenon DEF DeleteReturns
<1>2. StoreOK'
  BY Zenon DEF StoreOK, DeleteReturns, store
<1>3. CallsOK'
  BY <1>1, RemoveViewTypes, Zenon DEF DeleteReturns
<1>4. gone' \in [Namespaces -> SUBSET Nat] /\ orphaned' \in SUBSET Namespaces
  BY <1>1, Zenon DEF LifecycleOK, DeletionState, DeleteReturns
<1>5. LifecycleOK'
  BY <1>4, InvalidateTypes, Zenon DEF LifecycleOK, DeleteReturns
<1> QED
  BY <1>2, <1>3, <1>5, Zenon

LEMMA CloneListTypes ==
  ASSUME StoreOK, CallsOK, LifecycleOK, NEW dest \in Namespaces, NEW source \in Namespaces, CloneList(dest, source)
  PROVE  StoreOK' /\ CallsOK' /\ LifecycleOK'
<1>1. StoreOK'
  BY Zenon DEF StoreOK, CloneList, store
<1>2. CallsOK'
  BY CountTypes, Zenon DEF CallsOK, CloneList
<1>3. meta[source] \in Meta /\ issued \in Nat /\ budget.delete \in Nat
  BY Zenon DEF StoreOK, CallsOK, Allowance
<1>4. clone' \in CloneState
  BY <1>3, KeysType, Zenon DEF CloneState, CloneList
<1>5. LifecycleOK'
  BY <1>4, Zenon DEF LifecycleOK, CloneList
<1> QED
  BY <1>1, <1>2, <1>5, Zenon

LEMMA CopyingTypes ==
  ASSUME LifecycleOK, clone \in CloneState, NEW pc \in {"index", "meta", "wal", "forget"}, Copying(pc)
  PROVE  clone' \in CloneState
<1>1. Undisturbed \in BOOLEAN
  BY Zenon DEF Undisturbed
<1>2. (clone.steady /\ Undisturbed) \in BOOLEAN
  OBVIOUS
<1> QED
  BY <1>2, Zenon DEF CloneState, Copying

LEMMA BringBackTypes ==
  ASSUME LifecycleOK, clone.dest \in Namespaces, NEW batches, BringBack(batches)
  PROVE  deletion' \in DeletionState \cup {NoDeletion} /\ gone' \in [Namespaces -> SUBSET Nat]
<1>1. gone' \in [Namespaces -> SUBSET Nat]
  BY Zenon DEF LifecycleOK, BringBack
<1>2. ASSUME deletion \in DeletionState
      PROVE  [deletion EXCEPT !.doomed = @ \ batches] \in DeletionState
  BY <1>2, Zenon DEF DeletionState
<1> QED
  BY <1>1, <1>2, Zenon DEF LifecycleOK, BringBack

LEMMA CopyLifecycle ==
  ASSUME LifecycleOK, CopyIndex \/ CopyMeta \/ CopyWal, UNCHANGED orphaned
  PROVE  LifecycleOK'
<1>1. clone \in CloneState /\ clone.dest \in Namespaces
  BY CloneFields, Zenon DEF CopyIndex, CopyMeta, CopyWal
<1>2. clone' = NoClone \/ \E pc \in {"meta", "wal", "forget"} : Copying(pc)
  BY Zenon DEF CopyIndex, CopyMeta, CopyWal, CopyFails
<1>3. clone' \in CloneState \cup {NoClone}
  BY <1>1, <1>2, CopyingTypes, Zenon
<1>4. UNCHANGED <<deletion, gone>> \/ BringBack(Copied)
  BY Zenon DEF CopyIndex, CopyMeta, CopyWal
<1>5. deletion' \in DeletionState \cup {NoDeletion} /\ gone' \in [Namespaces -> SUBSET Nat]
  BY <1>1, <1>4, BringBackTypes, Zenon DEF LifecycleOK
<1>6. UNCHANGED <<view, list_cache, listing, acked>>
  BY Zenon DEF CopyIndex, CopyMeta, CopyWal
<1> QED
  BY <1>3, <1>5, <1>6, Zenon DEF LifecycleOK

LEMMA CloneReturnsTypes ==
  ASSUME StoreOK, CallsOK, LifecycleOK, CloneReturns, UNCHANGED <<appender, issued, budget, orphaned>>
  PROVE  StoreOK' /\ CallsOK' /\ LifecycleOK'
<1>1. clone.dest \in Namespaces
  BY CloneFields, Zenon DEF CloneReturns
<1>2. StoreOK'
  BY Zenon DEF StoreOK, CloneReturns, store
<1>3. CallsOK'
  BY <1>1, RemoveViewTypes, Zenon DEF CloneReturns
<1>4. acked' \in SUBSET Namespaces
  BY KeptType, Zenon DEF LifecycleOK, CloneReturns
<1>5. LifecycleOK'
  BY <1>4, InvalidateTypes, Zenon DEF LifecycleOK, CloneReturns
<1> QED
  BY <1>2, <1>3, <1>5, Zenon

LEMMA ListingTypes ==
  ASSUME StoreOK, CallsOK, LifecycleOK, list_namespaces
  PROVE  StoreOK' /\ CallsOK' /\ LifecycleOK'
<1>1. StoreOK'
  BY Zenon DEF StoreOK, list_namespaces, store
<1>2. budget' \in Allowance
  BY CountTypes, Zenon DEF CallsOK, list_namespaces, ListBegin, ListEnd, Expire
<1>3. /\ list_cache' \in [cached : BOOLEAN, names : SUBSET Namespaces, raced : BOOLEAN]
      /\ listing' \in [pc : {"idle", "listed"}, names : SUBSET Namespaces, raced : BOOLEAN]
  <2>1. CASE ListBegin
    BY <2>1, Zenon DEF LifecycleOK, ListBegin
  <2>2. CASE ListEnd
    BY <2>2, Zenon DEF LifecycleOK, ListEnd, NoListing
  <2>3. CASE Expire
    BY <2>3, Zenon DEF LifecycleOK, Expire, NoList
  <2> QED
    BY <2>1, <2>2, <2>3, Zenon DEF list_namespaces
<1> QED
  BY <1>1, <1>2, <1>3, Zenon DEF CallsOK, LifecycleOK, list_namespaces


-----------------------------------------------------------------------------
(* The steps of Next by name: what every proof below splits on.            *)

Steps ==
    \/ \E ns \in Namespaces :
          \/ Write(ns)
          \/ Query(ns) /\ UNCHANGED <<scheduler, lifecycle>>
          \/ Wake(ns) /\ UNCHANGED lifecycle
          \/ DeleteList(ns) /\ UNCHANGED scheduler
          \/ \E source \in Namespaces : CloneList(ns, source) /\ UNCHANGED scheduler
    \/ Tick /\ UNCHANGED lifecycle
    \/ delete_namespace /\ UNCHANGED scheduler
    \/ clone_namespace_s3 /\ UNCHANGED scheduler
    \/ list_namespaces /\ UNCHANGED scheduler

LEMMA NextSteps == Next => Steps
BY Zenon DEF Next, Steps, Index, Operate, Copy

LEMMA WriteTypes ==
  ASSUME TypeOK, NEW ns \in Namespaces, Write(ns)
  PROVE  TypeOK'
<1>1. StoreOK' /\ CallsOK'
  BY AppendReadTypes, AppendPutTypes, AppendSwapTypes, AppendApplyTypes, Zenon DEF TypeOK, Write, Append_
<1>2. TickOK'
  BY Zenon DEF TypeOK, TickOK, Popped, Write, scheduler
<1>3. LifecycleOK'
  <2>1. CASE appender[ns].pc = "apply"
    BY <2>1, InvalidateTypes, KeptType, Zenon DEF TypeOK, LifecycleOK, Write
  <2>2. CASE appender[ns].pc # "apply"
    BY <2>2, Zenon DEF TypeOK, LifecycleOK, Write
  <2> QED
    BY <2>1, <2>2, Zenon
<1>4. CompactionOK'
  BY Zenon DEF TypeOK, CompactionOK, Write, Append_, scheduler
<1> QED
  BY <1>1, <1>2, <1>3, <1>4, Zenon DEF TypeOK

(* All steps of the tick but those of a compaction leave it alone, and     *)
(* none of them is taken while there is one. *)
LEMMA TickCompaction ==
  ASSUME CompactionOK, Tick, ~ Compacting
  PROVE  compaction = NoCompaction /\ compaction' = NoCompaction
<1>1. tick.pc \notin {"compact", "compact_checked", "compact_listed"}
  BY DEF Tick, list_namespace_names, RefreshLags, refresh_work_queue, RoundBegin, Pop, IndexRead, IndexPut,
         IndexCommit, IndexFails, Check, Requeue, compaction_pass, NextListed, TickFails
<1>2. UNCHANGED compaction
  BY Zenon DEF Tick, list_namespace_names, RefreshLags, refresh_work_queue, RoundBegin, Pop, IndexRead, IndexPut,
         IndexCommit, IndexFails, Check, Requeue, compaction_pass, NextListed, TickFails, Goto
<1> QED
  BY <1>1, <1>2, Zenon DEF CompactionOK

LEMMA TickTypes ==
  ASSUME TypeOK, Tick, UNCHANGED lifecycle
  PROVE  TypeOK'
<1> USE DEF TypeOK
<1>1. LifecycleOK'
  BY Zenon DEF LifecycleOK, lifecycle
<1>2. StoreOK' /\ CallsOK' /\ TickOK'
  <2>1. CASE list_namespace_names
    BY <2>1, GotoTypes, ListNamesTypes, Zenon DEF list_namespace_names
  <2>2. CASE RefreshLags
    BY <2>2, GotoTypes, RefreshLagsTypes, Zenon DEF RefreshLags
  <2>3. CASE refresh_work_queue
    BY <2>3, GotoTypes, RefreshTypes, Zenon DEF refresh_work_queue
  <2>4. CASE RoundBegin
    BY <2>4, GotoTypes, RoundBeginTypes, Zenon DEF RoundBegin
  <2>5. CASE Pop
    BY <2>5, GotoTypes, PopTypes, Zenon DEF Pop
  <2>6. CASE IndexRead
    BY <2>6, GotoTypes, IndexReadTypes, Zenon DEF IndexRead
  <2>7. CASE IndexPut
    <3>1. Popped /\ tick.ns \in Namespaces
      BY <2>7, Zenon DEF IndexPut, Popped, TickOK
    <3>2. TickOK'
      BY <2>7, <3>1, MoveTypes, Zenon DEF IndexPut
    <3> QED
      BY <2>7, <3>1, <3>2, IndexPutTypes, Zenon
  <2>8. CASE IndexCommit
    <3>1. Popped /\ tick.ns \in Namespaces
      BY <2>8, Zenon DEF IndexCommit, Popped, TickOK
    <3>2. \E pc \in {"compact", "read", "check"} : tick' = [tick EXCEPT !.pc = pc]
      BY <2>8, Zenon DEF IndexCommit
    <3>3. TickOK'
      BY <2>8, <3>1, <3>2, MoveTypes, Zenon DEF IndexCommit
    <3> QED
      BY <2>8, <3>1, <3>3, IndexCommitTypes, Zenon
  <2>9. CASE IndexFails
    <3>1. Popped /\ StoreOK' /\ CallsOK'
      BY <2>9, CountTypes, Zenon DEF IndexFails, Popped, StoreOK, CallsOK, store
    <3>2. tick' = [tick EXCEPT !.pc = "requeue", !.still = TRUE] \/ tick' = [tick EXCEPT !.pc = "check"]
      BY <2>9, Zenon DEF IndexFails
    <3> QED
      BY <2>9, <3>1, <3>2, MoveTypes, SliceTypes, Zenon DEF IndexFails
  <2>10. CASE Compacting
    <3>1. tick.ns \in Namespaces
      BY <2>10, Zenon DEF Compacting, Popped, TickOK
    <3> QED
      BY <2>10, <3>1, CompactingTypes, CompactingTick, Zenon
  <2>11. CASE Requeue
    BY <2>11, GotoTypes, RequeueTypes, Zenon DEF Requeue
  <2>12. CASE compaction_pass \/ NextListed
    BY <2>12, GotoTypes, ListedTypes, Zenon DEF compaction_pass, NextListed
  <2>14. CASE Check
    BY <2>14, GotoTypes, CheckTypes, Zenon DEF Check
  <2>13. CASE TickFails
    <3>1. StoreOK' /\ CallsOK'
      BY <2>13, CountTypes, Zenon DEF TickFails, StoreOK, CallsOK, store
    <3> QED
      BY <2>13, <3>1, WaitingType, Zenon DEF TickFails
  <2> QED
    BY <2>1, <2>2, <2>3, <2>4, <2>5, <2>6, <2>7, <2>8, <2>9, <2>10, <2>11, <2>12, <2>13, <2>14, Zenon DEF Tick
<1>3. CompactionOK'
  <2>1. CASE Compacting
    <3>1. tick.ns \in Namespaces /\ tick.pc \in {"compact", "compact_checked", "compact_listed"}
      BY <2>1, Zenon DEF Compacting, Popped, TickOK
    <3> QED
      BY <2>1, <3>1, CompactingTypes, CompactingTick, Zenon DEF CompactionOK
  <2> QED
    BY <2>1, TickCompaction, Zenon DEF CompactionOK
<1> QED
  BY <1>1, <1>2, <1>3, Zenon

LEMMA LifecycleTypes ==
  ASSUME TypeOK, delete_namespace \/ clone_namespace_s3 \/ list_namespaces, UNCHANGED scheduler
  PROVE  TypeOK'
<1> USE DEF TypeOK
<1>1. TickOK' /\ CompactionOK'
  BY Zenon DEF TickOK, Popped, CompactionOK, scheduler, delete_namespace, clone_namespace_s3, list_namespaces
<1>2. CASE delete_namespace
  <2>1. CASE DeleteReturns
    BY <1>1, <1>2, <2>1, DeleteReturnsTypes, Zenon DEF delete_namespace
  <2>2. ASSUME NEW part \in {"index", "meta", "wal"}, DeleteObjects(part)
        PROVE  TypeOK'
    <3>1. CallsOK'
      BY <1>2, <2>2, Zenon DEF CallsOK, delete_namespace, DeleteObjects
    <3> QED
      BY <1>1, <1>2, <2>2, <3>1, DeleteObjectsTypes, DeleteObjectsLifecycle, Zenon DEF delete_namespace
  <2> QED
    BY <1>2, <2>1, <2>2, Zenon DEF delete_namespace
<1>3. CASE clone_namespace_s3
  <2>1. CASE CloneReturns
    BY <1>1, <1>3, <2>1, CloneReturnsTypes, Zenon DEF clone_namespace_s3
  <2>2. CASE CopyIndex \/ CopyMeta \/ CopyWal
    <3>1. CallsOK'
      BY <1>3, <2>2, Zenon DEF CallsOK, clone_namespace_s3, CopyIndex, CopyMeta, CopyWal
    <3>2. StoreOK'
      BY <2>2, CopyIndexTypes, CopyMetaTypes, CopyWalTypes, Zenon
    <3>3. LifecycleOK'
      BY <1>3, <2>2, CopyLifecycle, Zenon DEF clone_namespace_s3
    <3> QED
      BY <1>1, <3>1, <3>2, <3>3, Zenon
  <2> QED
    BY <1>3, <2>1, <2>2, Zenon DEF clone_namespace_s3
<1>4. CASE list_namespaces
  BY <1>1, <1>4, ListingTypes, Zenon
<1> QED
  BY <1>2, <1>3, <1>4, Zenon

LEMMA TypesKept ==
  ASSUME TypeOK, Steps
  PROVE  TypeOK'
<1>1. ASSUME NEW ns \in Namespaces, Write(ns)
      PROVE  TypeOK'
  BY <1>1, WriteTypes, Zenon
<1>2. ASSUME NEW ns \in Namespaces, Query(ns), UNCHANGED <<scheduler, lifecycle>>
      PROVE  TypeOK'
  BY <1>2, QueryTypes, Zenon DEF TypeOK, TickOK, Popped, CompactionOK, LifecycleOK, Query, scheduler, lifecycle
<1>3. ASSUME NEW ns \in Namespaces, Wake(ns), UNCHANGED lifecycle
      PROVE  TypeOK'
  <2>1. StoreOK' /\ CallsOK' /\ LifecycleOK'
    BY <1>3, Zenon DEF TypeOK, StoreOK, CallsOK, LifecycleOK, Wake, store, lifecycle
  <2> QED
    BY <1>3, <2>1, WakeTypes, Zenon DEF TypeOK, CompactionOK, Wake
<1>4. ASSUME NEW ns \in Namespaces, DeleteList(ns), UNCHANGED scheduler
      PROVE  TypeOK'
  BY <1>4, DeleteListTypes, Zenon DEF TypeOK, TickOK, Popped, CompactionOK, DeleteList, scheduler
<1>5. ASSUME NEW ns \in Namespaces, NEW source \in Namespaces, CloneList(ns, source), UNCHANGED scheduler
      PROVE  TypeOK'
  BY <1>5, CloneListTypes, Zenon DEF TypeOK, TickOK, Popped, CompactionOK, CloneList, scheduler
<1> QED
  BY <1>1, <1>2, <1>3, <1>4, <1>5, TickTypes, LifecycleTypes, Zenon DEF Steps


LEMMA TypesInit == Init => TypeOK
<1> SUFFICES ASSUME Init
             PROVE  TypeOK
  OBVIOUS
<1> USE DEF Init, StoreInit, SchedulerInit, LifecycleInit
<1>1. DOMAIN Nothing = {} /\ Nothing \in [{} -> Nat] /\ Nothing \in [{} -> SUBSET Nat]
  BY Zenon DEF Nothing
<1>2. StoreOK
  BY <1>1, Zenon DEF StoreOK, NoMeta, Meta, NoSnapshot
<1>3. CallsOK
  BY StoreAssumption, Zenon DEF CallsOK, NoView, Idle, NoMeta, Meta
<1>4. TickOK
  <2>1. <<>> \in Seq(Namespaces)
    OBVIOUS
  <2> QED
    BY <1>1, <2>1, Zenon DEF TickOK, TickState, Popped, Waiting
<1>5. LifecycleOK
  BY Zenon DEF LifecycleOK, NoListing, NoList
<1> QED
  BY <1>2, <1>3, <1>4, <1>5, Zenon DEF TypeOK, CompactionOK

(* The objects, the views, the queue and the calls in progress have their  *)
(* types in every reachable state.                                         *)
THEOREM TypeCorrect == Spec => []TypeOK
<1>1. TypeOK /\ UNCHANGED vars => TypeOK'
  BY Zenon DEF TypeOK, StoreOK, CallsOK, TickOK, Popped, CompactionOK, LifecycleOK, vars, store, scheduler, lifecycle
<1>2. TypeOK /\ [Next]_vars => TypeOK'
  BY <1>1, NextSteps, TypesKept, Zenon
<1> QED
  BY <1>2, TypesInit, PTL DEF Spec
=============================================================================
