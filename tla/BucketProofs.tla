---------------------------- MODULE BucketProofs ----------------------------
(***************************************************************************)
(* The invariants of Bucket, part 2: the order of what meta.json counts,   *)
(* the work queue of the background task, the cached listing, what a       *)
(* delete has removed, and what a copy has copied.                         *)
(***************************************************************************)
EXTENDS BucketTypes

-----------------------------------------------------------------------------
(* What each step does to meta.json and to the snapshot of a namespace.    *)

(* The steps of a compaction. *)
LEMMA CompactingCases ==
  ASSUME TypeOK, Compacting
  PROVE  /\ tick.ns \in Namespaces /\ UNCHANGED <<view, appender, issued, segments>>
         /\ \/ CompactFails \/ CompactSkip(tick.ns) \/ CompactRead(tick.ns)
            \/ /\ compaction \in CompactionState /\ compaction.ns = tick.ns
               /\ CompactPut(tick.ns) \/ CompactSwap(tick.ns) \/ CompactDelete(tick.ns)
<1>1. tick.ns \in Namespaces
  BY Zenon DEF TypeOK, TickOK, Popped, Compacting
<1>2. UNCHANGED <<view, appender, issued, segments>>
  BY Zenon DEF Compacting, maybe_compact_wal, CompactFails, CompactSkip, CompactRead, CompactPut, CompactSwap, CompactDelete,
     store
<1>3. CompactPut(tick.ns) \/ CompactSwap(tick.ns) \/ CompactDelete(tick.ns) => compaction.pc # "idle"
  BY DEF CompactPut, CompactSwap, CompactDelete
<1>4. compaction.pc # "idle" => compaction \in CompactionState /\ compaction.ns = tick.ns
  BY CompactionPc, Zenon DEF TypeOK
<1> QED
  BY <1>1, <1>2, <1>3, <1>4, Zenon DEF Compacting, maybe_compact_wal

LEMMA CompactInvKept ==
  ASSUME TypeOK, OrderInv, CompactInv, Steps
  PROVE  CompactInv'
<1>0. ASSUME compaction' = compaction \/ compaction' = NoCompaction
      PROVE  CompactInv'
  BY <1>0 DEF CompactInv, NoCompaction
<1>1. CASE Compacting
  <2>1. CASE CompactRead(tick.ns)
    <3>1. meta[tick.ns] \in Meta /\ Ordered(meta[tick.ns]) /\ needs_wal_compaction(meta[tick.ns])
      BY <1>1, <2>1, CompactingCases, Zenon DEF TypeOK, StoreOK, OrderInv, CompactRead, CanCompact
    <3>2. meta[tick.ns].snap < meta[tick.ns].cursor /\ meta[tick.ns].cursor = meta[tick.ns].commit
      BY <3>1 DEF needs_wal_compaction, Ordered, Meta
    <3>3. compaction'.pc = "put" /\ compaction'.m = meta[tick.ns]
      BY <2>1, Zenon DEF CompactRead
    <3> QED
      BY <3>2, <3>3, Zenon DEF CompactInv
  <2>2. CASE compaction \in CompactionState /\ CompactPut(tick.ns)
    <3>1. compaction.pc = "put" /\ compaction'.pc = "swap" /\ compaction'.m = compaction.m /\ compaction'.batches = {}
      BY <2>2, Zenon DEF CompactPut, CompactionState
    <3> QED
      BY <3>1, Zenon DEF CompactInv
  <2>3. CASE compaction \in CompactionState /\ CompactSwap(tick.ns)
    <3>1. \/ compaction' = NoCompaction
          \/ /\ compaction'.pc \in {"delete", "read"} /\ compaction'.m = compaction.m
             /\ compaction'.batches = compaction.batches /\ compaction.pc = "swap"
      BY <2>3, Zenon DEF CompactSwap, CompactionState
    <3> QED
      BY <1>0, <3>1 DEF CompactInv
  <2> QED
    BY <1>0, <1>1, <2>1, <2>2, <2>3, CompactingCases, Zenon DEF CompactFails, CompactSkip, CompactDelete
<1>2. CASE Tick /\ ~ Compacting
  BY <1>0, <1>2, TickCompaction, Zenon DEF TypeOK
<1> QED
  BY <1>0, <1>1, <1>2, Zenon DEF Steps, Write, Append_, Query, Wake, DeleteList, CloneList, delete_namespace, clone_namespace_s3,
     list_namespaces

LEMMA CompactingOrder ==
  ASSUME TypeOK, OrderInv, CompactInv, Compacting
  PROVE  OrderInv'
<1>0. ASSUME UNCHANGED <<meta, snapshot>>
      PROVE  OrderInv'
  BY <1>0, Zenon DEF OrderInv, Ordered
<1>1. PICK ns \in Namespaces : ns = tick.ns
  BY CompactingCases, Zenon
<1>2. meta \in [Namespaces -> Meta] /\ DOMAIN snapshot = Namespaces
  BY Zenon DEF TypeOK, StoreOK
<1>3. CASE compaction \in CompactionState /\ CompactPut(ns)
  <2>1. compaction.m.snap \in Nat /\ compaction.m.cursor \in Nat /\ compaction.m.snap < compaction.m.cursor
    BY <1>3, Zenon DEF CompactionState, Meta, CompactInv, CompactPut
  <2>2. compaction.m.cursor # 0
    BY <2>1
  <2>3. meta' = meta /\ snapshot' = [snapshot EXCEPT ![ns] = [seq |-> compaction.m.cursor, batches |-> compaction.batches]]
    BY <1>3, Zenon DEF CompactPut
  <2>4. ASSUME NEW n \in Namespaces
        PROVE  snapshot'[n].seq = 0 => snapshot'[n] = NoSnapshot
    <3>1. CASE n = ns
      BY <1>2, <2>2, <2>3, <3>1, Zenon
    <3>2. CASE n # ns
      BY <1>2, <2>3, <3>2, Zenon DEF OrderInv
    <3> QED
      BY <3>1, <3>2, Zenon
  <2> QED
    BY <2>3, <2>4, Zenon DEF OrderInv, Ordered
<1>4. CASE compaction \in CompactionState /\ CompactSwap(ns)
  <2>1. snapshot' = snapshot
    BY <1>4, Zenon DEF CompactSwap
  <2>2. \/ meta' = meta
        \/ meta[ns] = compaction.m /\ meta' = [meta EXCEPT ![ns] = [meta[ns] EXCEPT !.snap = meta[ns].cursor]]
    BY <1>4, Zenon DEF CompactSwap
  <2>3. Ordered([meta[ns] EXCEPT !.snap = meta[ns].cursor])
    <3>1. meta[ns] \in Meta /\ Ordered(meta[ns])
      BY <1>2, Zenon DEF OrderInv
    <3> QED
      BY <3>1 DEF Ordered, Meta
  <2>4. \A n \in Namespaces : Ordered(meta'[n])
    BY <1>2, <2>2, <2>3, Zenon DEF OrderInv
  <2> QED
    BY <2>1, <2>4, Zenon DEF OrderInv, Ordered
<1> QED
  BY <1>0, <1>1, <1>3, <1>4, CompactingCases, Zenon DEF CompactFails, CompactSkip, CompactRead, CompactDelete, store

LEMMA AppendSwapOrder ==
  ASSUME StoreOK, CallsOK, OrderInv, NEW ns \in Namespaces, AppendSwap(ns)
  PROVE  OrderInv'
<1>1. snapshot' = snapshot
  BY Zenon DEF AppendSwap
<1>2. \/ meta' = meta
      \/ meta' = [meta EXCEPT ![ns] = [meta[ns] EXCEPT !.commit = meta[ns].commit + 1, !.exists = TRUE]]
  BY Zenon DEF AppendSwap
<1>3. ASSUME NEW n \in Namespaces
      PROVE  Ordered(meta'[n])
  <2>1. meta[n] \in Meta /\ meta[ns] \in Meta /\ Ordered(meta[n])
    BY Zenon DEF StoreOK, OrderInv
  <2>2. meta'[n] = meta[n] \/ meta'[n] = [meta[n] EXCEPT !.commit = meta[n].commit + 1, !.exists = TRUE]
    <3>1. meta \in [Namespaces -> Meta]
      BY Zenon DEF StoreOK
    <3>2. CASE n = ns
      BY <1>2, <3>1, <3>2, Zenon
    <3>3. CASE n # ns
      BY <1>2, <3>1, <3>3, Zenon
    <3> QED
      BY <3>2, <3>3, Zenon
  <2> DEFINE m == meta[n]
  <2>3. m.commit \in Nat /\ m.cursor \in Nat /\ m.snap \in Nat /\ m.snap <= m.cursor /\ m.cursor <= m.commit
    BY <2>1, Zenon DEF Ordered, Meta
  <2>4. ASSUME meta'[n] = [m EXCEPT !.commit = m.commit + 1, !.exists = TRUE]
        PROVE  meta'[n].commit = m.commit + 1 /\ meta'[n].cursor = m.cursor /\ meta'[n].snap = m.snap
    BY <2>1, <2>4, Zenon DEF Meta
  <2> HIDE DEF m
  <2> QED
    BY <2>1, <2>2, <2>3, <2>4 DEF Ordered, m
<1> QED
  BY <1>1, <1>3, Zenon DEF OrderInv, Ordered

LEMMA IndexCommitOrder ==
  ASSUME StoreOK, TickOK, OrderInv, IndexCommit
  PROVE  OrderInv'
<1>1. snapshot' = snapshot /\ tick.to \in Nat
  BY TickFields, Zenon DEF IndexCommit
<1>2. ASSUME NEW n \in Namespaces
      PROVE  Ordered(meta'[n])
  <2>1. meta[n] \in Meta /\ Ordered(meta[n])
    BY Zenon DEF StoreOK, OrderInv
  <2>2. \/ meta'[n] = meta[n]
        \/ /\ meta'[n] = meta_after_index_commit(meta[n], tick.to)
           /\ meta[n].cursor < tick.to /\ tick.to <= meta[n].commit
    <3>1. meta \in [Namespaces -> Meta]
      BY Zenon DEF StoreOK
    <3>2. \/ meta' = meta
          \/ /\ meta' = [meta EXCEPT ![tick.ns] = meta_after_index_commit(meta[tick.ns], tick.to)]
             /\ meta[tick.ns].cursor < tick.to /\ tick.to <= meta[tick.ns].commit
      BY Zenon DEF IndexCommit
    <3>3. CASE n = tick.ns
      BY <3>1, <3>2, <3>3, Zenon
    <3>4. CASE n # tick.ns
      BY <3>1, <3>2, <3>4, Zenon
    <3> QED
      BY <3>3, <3>4, Zenon
  <2> DEFINE m == meta[n]
  <2>3. m.commit \in Nat /\ m.cursor \in Nat /\ m.snap \in Nat /\ m.snap <= m.cursor /\ m.cursor <= m.commit
    BY <2>1, Zenon DEF Ordered, Meta
  <2>4. ASSUME meta'[n] = meta_after_index_commit(m, tick.to)
        PROVE  meta'[n].commit = m.commit /\ meta'[n].cursor = tick.to /\ meta'[n].snap = m.snap
    BY <2>1, <2>4, Zenon DEF Meta, meta_after_index_commit
  <2> QED
    BY <1>1, <2>1, <2>2, <2>3, <2>4 DEF Ordered
<1> QED
  BY <1>1, <1>2, Zenon DEF OrderInv, Ordered

LEMMA DeleteObjectsOrder ==
  ASSUME StoreOK, OrderInv, NEW part, DeleteObjects(part)
  PROVE  OrderInv'
<1> SUFFICES ASSUME NEW n \in Namespaces
             PROVE  Ordered(meta'[n]) /\ (snapshot'[n].seq = 0 => snapshot'[n] = NoSnapshot)
  BY Zenon DEF OrderInv, Ordered
<1>1. meta'[n] = meta[n] \/ meta'[n] = NoMeta
  BY Zenon DEF DeleteObjects, StoreOK
<1>2. snapshot'[n] = snapshot[n] \/ snapshot'[n] = NoSnapshot
  BY Zenon DEF DeleteObjects, StoreOK
<1>3. Ordered(NoMeta)
  BY DEF Ordered, NoMeta
<1> QED
  BY <1>1, <1>2, <1>3, Zenon DEF OrderInv, Ordered

LEMMA CopyOrder ==
  ASSUME StoreOK, LifecycleOK, OrderInv, CopyIndex \/ CopyMeta \/ CopyWal
  PROVE  OrderInv'
<1> SUFFICES ASSUME NEW n \in Namespaces
             PROVE  Ordered(meta'[n]) /\ (snapshot'[n].seq = 0 => snapshot'[n] = NoSnapshot)
  BY Zenon DEF OrderInv, Ordered
<1>1. clone.source \in Namespaces
  BY CloneFields, Zenon DEF CopyIndex, CopyMeta, CopyWal
<1>2. meta'[n] = meta[n] \/ meta'[n] = meta[clone.source]
  BY Zenon DEF CopyIndex, CopyMeta, CopyWal, CopyFails, store, StoreOK
<1>3. snapshot'[n] = snapshot[n] \/ snapshot'[n] = snapshot[clone.source]
  BY Zenon DEF CopyIndex, CopyMeta, CopyWal, CopyFails, store, StoreOK
<1> QED
  BY <1>1, <1>2, <1>3, Zenon DEF OrderInv, Ordered


LEMMA OrderKept ==
  ASSUME TypeOK, OrderInv, CompactInv, Steps
  PROVE  OrderInv'
<1> USE DEF TypeOK
<1>0. ASSUME UNCHANGED <<meta, snapshot>>
      PROVE  OrderInv'
  BY <1>0, Zenon DEF OrderInv, Ordered
<1>1. ASSUME NEW ns \in Namespaces, Write(ns)
      PROVE  OrderInv'
  <2>1. CASE AppendSwap(ns)
    BY <2>1, AppendSwapOrder, Zenon
  <2>2. CASE ~ AppendSwap(ns)
    BY <1>0, <1>1, <2>2, Zenon DEF Write, Append_, AppendRead, AppendPut, AppendApply, store
  <2> QED
    BY <2>1, <2>2, Zenon
<1>2. ASSUME NEW ns \in Namespaces,
             Query(ns) \/ Wake(ns) \/ DeleteList(ns) \/ \E source \in Namespaces : CloneList(ns, source)
      PROVE  OrderInv'
  BY <1>0, <1>2, Zenon DEF Query, Wake, DeleteList, CloneList, store
<1>3. CASE Tick
  <2>1. CASE IndexCommit
    BY <2>1, IndexCommitOrder, Zenon
  <2>2. CASE Compacting
    BY <2>2, CompactingOrder, Zenon
  <2>3. CASE ~ (IndexCommit \/ Compacting)
    BY <1>0, <1>3, <2>3, Zenon DEF Tick, list_namespace_names, RefreshLags, refresh_work_queue, RoundBegin, Pop, IndexRead,
       IndexPut, IndexFails, Check, Requeue, compaction_pass, NextListed, TickFails, Goto, store
  <2> QED
    BY <2>1, <2>2, <2>3, Zenon
<1>4. CASE delete_namespace
  BY <1>0, <1>4, DeleteObjectsOrder, Zenon DEF delete_namespace, DeleteReturns, store
<1>5. CASE clone_namespace_s3
  BY <1>0, <1>5, CopyOrder, Zenon DEF clone_namespace_s3, CloneReturns, store
<1>6. CASE list_namespaces
  BY <1>0, <1>6, Zenon DEF list_namespaces, store
<1> QED
  BY <1>1, <1>2, <1>3, <1>4, <1>5, <1>6, Zenon DEF Steps

-----------------------------------------------------------------------------
(* The work queue.                                                         *)

(* An order of S names each of S: as many positions as names, all different. *)
LEMMA SortNames ==
  ASSUME NEW S, NEW lag, NEW q \in sort_namespaces_by_index_lag(S, lag)
  PROVE  Names(q) = S /\ \A i, j \in DOMAIN q : i # j => q[i] # q[j]
<1>1. PICK n \in 0..Cardinality(S) : q \in [1..n -> S]
  BY Zenon DEF sort_namespaces_by_index_lag
<1>2. Names(q) = S /\ \A i, j \in 1..n : i < j => q[i] # q[j]
  BY <1>1, Zenon DEF sort_namespaces_by_index_lag
<1>3. n \in Nat
  BY <1>1
<1>4. \A i, j \in 1..n : i # j => q[i] # q[j]
  BY <1>2, <1>3
<1> QED
  BY <1>1, <1>2, <1>4, Zenon

(* How a round goes through the queue. *)
LEMMA ServingAppend ==
  ASSUME NEW s \in Seq(Namespaces), NEW t \in Seq(Namespaces), NEW q \in Seq(Namespaces), NEW ns \in Namespaces,
         Serving(s, t, q)
  PROVE  Serving(s, t, Append(q, ns))
<1>1. Len(s) \in Nat /\ Len(t) \in Nat /\ Len(q) \in Nat
  OBVIOUS
<1>2. Len(Append(q, ns)) = Len(q) + 1 /\ \A i \in 1..Len(q) : Append(q, ns)[i] = q[i]
  OBVIOUS
<1> QED
  BY <1>1, <1>2 DEF Serving

LEMMA ServingPop ==
  ASSUME NEW s \in Seq(Namespaces), NEW t \in Seq(Namespaces), NEW q \in Seq(Namespaces),
         Serving(s, t, q), Len(s) # Len(t), q # <<>>
  PROVE  Serving(Append(s, Head(q)), t, Tail(q))
<1>1. Len(s) \in Nat /\ Len(t) \in Nat /\ Len(q) \in Nat \ {0}
  OBVIOUS
<1>2. /\ Len(Append(s, Head(q))) = Len(s) + 1 /\ \A i \in 1..Len(s) : Append(s, Head(q))[i] = s[i]
      /\ Append(s, Head(q))[Len(s) + 1] = q[1]
  OBVIOUS
<1>3. Len(Tail(q)) = Len(q) - 1 /\ \A i \in 1..(Len(q) - 1) : Tail(q)[i] = q[i + 1]
  OBVIOUS
<1>4. Len(s) + 1 <= Len(t) /\ q[1] = t[Len(s) + 1]
  BY <1>1 DEF Serving
<1>5. \A i \in 1..(Len(t) - (Len(s) + 1)) : Tail(q)[i] = t[Len(s) + 1 + i]
  BY <1>1, <1>3 DEF Serving
<1>6. \A i \in 1..(Len(s) + 1) : Append(s, Head(q))[i] = t[i]
  BY <1>1, <1>2, <1>4 DEF Serving
<1>7. Len(t) - (Len(s) + 1) <= Len(q) - 1
  BY <1>1 DEF Serving
<1> QED
  BY <1>2, <1>3, <1>4, <1>5, <1>6, <1>7, Zenon DEF Serving

LEMMA ServingDone ==
  ASSUME NEW s \in Seq(Namespaces), NEW t \in Seq(Namespaces), NEW q \in Seq(Namespaces),
         Serving(s, t, q), Len(s) = Len(t) \/ q = <<>>
  PROVE  s = t
<1>1. Len(s) \in Nat /\ Len(t) \in Nat /\ (q = <<>> => Len(q) = 0)
  OBVIOUS
<1>2. Len(s) = Len(t) /\ \A i \in 1..Len(s) : s[i] = t[i]
  BY <1>1 DEF Serving
<1> QED
  BY <1>2

(* A step that leaves the queue and the name of the slice as they are. *)
LEMMA QuietQueue ==
  ASSUME QueueInv, UNCHANGED <<queue, queued>>,
         tick'.pc # "compaction_pass",
         (tick.pc = "pop" \/ Popped) <=> (tick'.pc = "pop" \/ Popped'), Popped <=> Popped',
         tick'.ns = tick.ns, tick'.start = tick.start, tick'.served = tick.served
  PROVE  QueueInv'
<1>1. QueueConsistent'
  BY Zenon DEF QueueInv, QueueConsistent, Names
<1>2. RoundInv'
  BY Zenon DEF QueueInv, RoundInv
<1>3. RoundServesAll'
  BY Zenon DEF RoundServesAll
<1> QED
  BY <1>1, <1>2, <1>3, Zenon DEF QueueInv

LEMMA WakeQueue ==
  ASSUME TickOK, QueueInv, NEW ns \in Namespaces, Wake(ns)
  PROVE  QueueInv'
<1>1. CASE ns \in queued
  BY <1>1, Zenon DEF Wake, wake, QueueInv, QueueConsistent, RoundInv, RoundServesAll, Popped, Names
<1>2. CASE ns \notin queued
  <2>1. queue' = Append(queue, ns) /\ queued' = queued \cup {ns} /\ tick' = tick /\ queue \in Seq(Namespaces)
    BY <1>2, Zenon DEF Wake, wake, TickOK
  <2>2. /\ Len(queue') = Len(queue) + 1 /\ Len(queue) \in Nat
        /\ DOMAIN queue' = 1..(Len(queue) + 1) /\ DOMAIN queue = 1..Len(queue)
        /\ \A i \in 1..Len(queue) : queue'[i] = queue[i]
        /\ queue'[Len(queue) + 1] = ns
    BY <2>1
  <2>3. Names(queue') = Names(queue) \cup {ns}
    BY <2>2 DEF Names
  <2>4. ns \notin Names(queue) /\ (Popped => ns # tick.ns)
    BY <1>2, Zenon DEF QueueInv, QueueConsistent
  <2>5. \A i, j \in DOMAIN queue' : i # j => queue'[i] # queue'[j]
    <3>1. \A i \in 1..Len(queue) : queue[i] # ns
      BY <2>2, <2>4, Zenon DEF Names
    <3>2. \A i, j \in 1..Len(queue) : i # j => queue[i] # queue[j]
      BY <2>2, Zenon DEF QueueInv, QueueConsistent
    <3> QED
      BY <2>2, <3>1, <3>2
  <2>6. QueueConsistent'
    BY <2>1, <2>3, <2>4, <2>5, Zenon DEF QueueInv, QueueConsistent, Popped
  <2>7. RoundInv'
    BY <2>1, TickFields, ServingAppend, Zenon DEF QueueInv, RoundInv, Popped
  <2>8. RoundServesAll'
    BY <2>1, Zenon DEF QueueInv, RoundServesAll
  <2> QED
    BY <2>6, <2>7, <2>8, Zenon DEF QueueInv
<1> QED
  BY <1>1, <1>2, Zenon


LEMMA RefreshQueue ==
  ASSUME TickOK, refresh_work_queue
  PROVE  QueueInv'
<1>1. queue' \in sort_namespaces_by_index_lag(DOMAIN tick.lag, tick.lag) /\ queued' = DOMAIN tick.lag
  BY Zenon DEF refresh_work_queue
<1>2. tick'.pc = "round"
  BY Zenon DEF refresh_work_queue, Goto, TickOK, TickState
<1>3. Names(queue') = DOMAIN tick.lag /\ \A i, j \in DOMAIN queue' : i # j => queue'[i] # queue'[j]
  BY <1>1, SortNames, Zenon
<1> QED
  BY <1>1, <1>2, <1>3, Zenon DEF QueueInv, QueueConsistent, RoundInv, RoundServesAll, Popped

LEMMA RoundBeginQueue ==
  ASSUME TickOK, QueueInv, RoundBegin
  PROVE  QueueInv'
<1>1. /\ tick'.pc = "pop" /\ tick'.start = queue /\ tick'.served = <<>>
      /\ UNCHANGED <<queue, queued>>
  BY Zenon DEF RoundBegin, Goto, TickOK, TickState
<1>2. ~ Popped /\ ~ Popped'
  BY <1>1, Zenon DEF Popped, RoundBegin
<1>3. Serving(<<>>, queue, queue)
  <2>1. queue \in Seq(Namespaces)
    BY Zenon DEF TickOK
  <2>2. Len(queue) \in Nat
    BY <2>1
  <2>3. Len(<<>>) = 0
    OBVIOUS
  <2> QED
    BY <2>2, <2>3 DEF Serving
<1>4. QueueConsistent'
  BY SMTT(40), <1>1, <1>2 DEF QueueInv, QueueConsistent, Names
<1>5. RoundInv'
  BY <1>1, <1>3, Zenon DEF RoundInv
<1>6. RoundServesAll'
  BY <1>1, Zenon DEF RoundServesAll
<1> QED
  BY <1>4, <1>5, <1>6, Zenon DEF QueueInv

LEMMA PopQueue ==
  ASSUME TickOK, QueueInv, Pop
  PROVE  QueueInv'
<1>0. /\ queue \in Seq(Namespaces) /\ tick.start \in Seq(Namespaces) /\ tick.served \in Seq(Namespaces)
      /\ ~ Popped /\ tick.pc = "pop" /\ Serving(tick.served, tick.start, queue)
  BY TickFields, Zenon DEF TickOK, Popped, Pop, QueueInv, RoundInv
<1>1. CASE Len(tick.served) = Len(tick.start) \/ queue = <<>>
  <2>1. /\ tick'.pc = "compaction_pass" /\ tick'.start = tick.start /\ tick'.served = tick.served
        /\ UNCHANGED <<queue, queued>>
    BY <1>1, Zenon DEF Pop, Goto, TickOK, TickState
  <2>2. ~ Popped'
    BY <2>1, Zenon DEF Popped
  <2>3. tick.served = tick.start
    BY <1>0, <1>1, ServingDone, Zenon
  <2>4. QueueConsistent'
    BY <1>0, <2>1, <2>2, Zenon DEF QueueInv, QueueConsistent, Names
  <2> QED
    BY <2>1, <2>2, <2>3, <2>4, Zenon DEF QueueInv, RoundInv, RoundServesAll
<1>2. CASE ~ (Len(tick.served) = Len(tick.start) \/ queue = <<>>)
  <2>1. /\ tick'.pc = "read" /\ tick'.start = tick.start /\ tick'.served = Append(tick.served, Head(queue))
        /\ tick'.ns = Head(queue) /\ queue' = Tail(queue) /\ UNCHANGED queued
    BY <1>2, Zenon DEF Pop, Goto, TickOK, TickState
  <2>2. Popped'
    BY <2>1, Zenon DEF Popped
  <2>3. /\ Len(queue) \in Nat \ {0} /\ DOMAIN queue = 1..Len(queue) /\ Head(queue) = queue[1]
        /\ DOMAIN queue' = 1..(Len(queue) - 1) /\ \A i \in 1..(Len(queue) - 1) : queue'[i] = queue[i + 1]
    BY <1>0, <1>2, <2>1
  <2>4. \A i, j \in 1..Len(queue) : i # j => queue[i] # queue[j]
    BY <2>3, Zenon DEF QueueInv, QueueConsistent
  <2>5. Names(queue) = Names(queue') \cup {Head(queue)}
    <3>1. ASSUME NEW i \in 1..Len(queue)
          PROVE  i = 1 \/ (i - 1 \in 1..(Len(queue) - 1) /\ queue[i] = queue'[i - 1])
      BY <2>3
    <3>2. ASSUME NEW i \in 1..(Len(queue) - 1)
          PROVE  i + 1 \in 1..Len(queue) /\ queue'[i] = queue[i + 1]
      BY <2>3
    <3>3. 1 \in 1..Len(queue)
      BY <2>3
    <3> QED
      BY SMTT(30), <2>3, <3>1, <3>2, <3>3 DEF Names
  <2>6. Head(queue) \notin Names(queue')
    BY <2>3, <2>4 DEF Names
  <2>7. \A i, j \in DOMAIN queue' : i # j => queue'[i] # queue'[j]
    BY <2>3, <2>4
  <2>8. QueueConsistent'
    <3>1. queued = Names(queue)
      BY <1>0, Zenon DEF QueueInv, QueueConsistent
    <3> QED
      BY <2>1, <2>2, <2>5, <2>6, <2>7, <3>1, Zenon DEF QueueConsistent
  <2>9. RoundInv'
    BY <1>0, <1>2, <2>1, ServingPop, Zenon DEF RoundInv
  <2> QED
    BY <2>1, <2>8, <2>9, Zenon DEF QueueInv, RoundServesAll
<1> QED
  BY <1>1, <1>2, Zenon

LEMMA RequeueQueue ==
  ASSUME TickOK, QueueInv, Requeue
  PROVE  QueueInv'
<1>0. Popped /\ tick.ns \in Namespaces /\ queue \in Seq(Namespaces) /\ tick.ns \notin Names(queue)
      /\ queued = Names(queue) \cup {tick.ns}
  BY Zenon DEF TickOK, Popped, Requeue, QueueInv, QueueConsistent
<1>1. tick'.pc = "pop" /\ tick'.start = tick.start /\ tick'.served = tick.served
  BY Zenon DEF Requeue, Goto, TickOK, TickState
<1>2. ~ Popped'
  BY <1>1, Zenon DEF Popped
<1>3. CASE tick.still
  <2>1. queue' = Append(queue, tick.ns) /\ queued' = queued
    BY <1>3, Zenon DEF Requeue, RequeueLast
  <2>2. /\ Len(queue) \in Nat
        /\ DOMAIN queue' = 1..(Len(queue) + 1) /\ DOMAIN queue = 1..Len(queue)
        /\ \A i \in 1..Len(queue) : queue'[i] = queue[i]
        /\ queue'[Len(queue) + 1] = tick.ns
    BY <1>0, <2>1
  <2>3. Names(queue') = Names(queue) \cup {tick.ns}
    BY <2>2 DEF Names
  <2>4. \A i, j \in DOMAIN queue' : i # j => queue'[i] # queue'[j]
    <3>1. \A i \in 1..Len(queue) : queue[i] # tick.ns
      BY <1>0, <2>2, Zenon DEF Names
    <3>2. \A i, j \in 1..Len(queue) : i # j => queue[i] # queue[j]
      BY <2>2, Zenon DEF QueueInv, QueueConsistent
    <3> QED
      BY <2>2, <3>1, <3>2
  <2>5. QueueConsistent'
    BY <1>0, <1>2, <2>1, <2>3, <2>4, Zenon DEF QueueConsistent
  <2>6. RoundInv'
    BY <1>0, <1>1, <2>1, TickFields, ServingAppend, Zenon DEF QueueInv, RoundInv
  <2> QED
    BY <1>1, <2>5, <2>6, Zenon DEF QueueInv, RoundServesAll
<1>4. CASE ~ tick.still
  <2>1. queue' = queue /\ queued' = queued \ {tick.ns}
    BY <1>4, Zenon DEF Requeue, RequeueLast
  <2>2. QueueConsistent'
    BY <1>0, <1>2, <2>1, Zenon DEF QueueInv, QueueConsistent, Names
  <2>3. RoundInv'
    BY <1>0, <1>1, <2>1, Zenon DEF QueueInv, RoundInv
  <2> QED
    BY <1>1, <2>2, <2>3, Zenon DEF QueueInv, RoundServesAll
<1> QED
  BY <1>3, <1>4, Zenon


LEMMA WaitingQueue ==
  ASSUME QueueInv, ~ Popped, tick' = Waiting, UNCHANGED <<queue, queued>>
  PROVE  QueueInv'
<1>1. tick'.pc = "wait" /\ ~ Popped'
  BY Zenon DEF Waiting, Popped
<1>2. QueueConsistent'
  BY <1>1, Zenon DEF QueueInv, QueueConsistent, Names
<1> QED
  BY <1>1, <1>2, Zenon DEF QueueInv, RoundInv, RoundServesAll

LEMMA TickQueue ==
  ASSUME TickOK, QueueInv, Tick
  PROVE  QueueInv'
<1>1. CASE list_namespace_names \/ RefreshLags
  <2>1. /\ tick'.pc \in {"lags", "swap"} /\ tick.pc \in {"wait", "lags"} /\ tick'.ns = tick.ns
        /\ tick'.start = tick.start /\ tick'.served = tick.served /\ UNCHANGED <<queue, queued>>
    BY <1>1, Zenon DEF list_namespace_names, RefreshLags, Goto, TickOK, TickState
  <2> QED
    BY <2>1, QuietQueue, Zenon DEF Popped
<1>2. CASE IndexRead \/ IndexPut \/ IndexCommit \/ IndexFails \/ Check \/ (Compacting /\ Popped)
  <2>1. UNCHANGED <<queue, queued>> /\ Popped
    BY <1>2, Zenon DEF IndexRead, IndexPut, IndexCommit, IndexFails, Check, Compacting, Popped
  <2>2. /\ tick'.pc \in {"read", "put", "commit", "compact", "check", "compact_checked", "requeue"} /\ tick'.ns = tick.ns
        /\ tick'.start = tick.start /\ tick'.served = tick.served
    <3>1. CASE IndexRead
      BY ZenonT(30), <3>1 DEF IndexRead, Goto, TickOK, TickState
    <3>2. CASE IndexPut
      BY <3>2, Zenon DEF IndexPut, TickOK, TickState
    <3>3. CASE IndexCommit
      BY <3>3, Zenon DEF IndexCommit, TickOK, TickState
    <3>4. CASE IndexFails
      BY <3>4, Zenon DEF IndexFails, TickOK, TickState
    <3>5. CASE Check
      BY <3>5, Zenon DEF Check, Goto, TickOK, TickState
    <3>6. CASE Compacting /\ Popped
      <4>1. tick.pc \in {"compact", "compact_checked"}
        BY <3>6 DEF Compacting, Popped
      <4>2. tick' = tick \/ \E pc \in {"check", "requeue"} : tick' = [tick EXCEPT !.pc = pc]
        BY <3>6, <4>1 DEF Compacting, Compacted
      <4> QED
        BY <4>1, <4>2, Zenon DEF TickOK, TickState
    <3> QED
      BY <1>2, <3>1, <3>2, <3>3, <3>4, <3>5, <3>6, Zenon
  <2> QED
    BY <2>1, <2>2, QuietQueue, Zenon DEF Popped
<1>3. CASE TickFails
  BY <1>3, WaitingQueue, Zenon DEF TickFails, Popped
<1>4. CASE compaction_pass \/ NextListed \/ (Compacting /\ ~ Popped)
  <2>1. tick' = Waiting \/ tick'.pc \in {"next", "compact_listed"}
    <3>1. CASE compaction_pass
      BY <3>1, Zenon DEF compaction_pass, Goto, TickOK, TickState
    <3>2. CASE NextListed
      BY <3>2, Zenon DEF NextListed, Goto, TickOK, TickState
    <3>3. CASE Compacting /\ ~ Popped
      <4>1. tick.pc = "compact_listed"
        BY <3>3, Zenon DEF Compacting, Popped
      <4>2. tick' = tick \/ tick' = [tick EXCEPT !.pc = "next", !.ns = NoNamespace]
        BY <3>3, <4>1, Zenon DEF Compacting, Compacted
      <4> QED
        BY <4>1, <4>2, Zenon DEF TickOK, TickState
    <3> QED
      BY <1>4, <3>1, <3>2, <3>3, Zenon
  <2>2. ~ Popped /\ ~ Popped' /\ tick'.pc \notin {"pop", "compaction_pass"} /\ UNCHANGED <<queue, queued>>
    <3>1. ~ Popped /\ UNCHANGED <<queue, queued>>
      BY <1>4, Zenon DEF compaction_pass, NextListed, Compacting, Popped
    <3> QED
      BY <2>1, <3>1 DEF Popped, Waiting
  <2>3. QueueConsistent'
    BY <2>2, Zenon DEF QueueInv, QueueConsistent, Names
  <2> QED
    BY <2>2, <2>3, Zenon DEF QueueInv, RoundInv, RoundServesAll
<1> QED
  BY <1>1, <1>2, <1>3, <1>4, RefreshQueue, RoundBeginQueue, PopQueue, RequeueQueue, Zenon DEF Tick

LEMMA QueueKept ==
  ASSUME TypeOK, QueueInv, Steps
  PROVE  QueueInv'
<1>1. ASSUME UNCHANGED scheduler
      PROVE  QueueInv'
  BY <1>1, Zenon DEF QueueInv, QueueConsistent, RoundInv, RoundServesAll, Popped, Names, scheduler
<1>2. ASSUME NEW ns \in Namespaces, Write(ns)
      PROVE  QueueInv'
  BY <1>1, <1>2, Zenon DEF Write
<1> QED
  BY <1>1, <1>2, WakeQueue, TickQueue, Zenon DEF TypeOK, Steps, scheduler


-----------------------------------------------------------------------------
(* The cached listing.                                                     *)

(* meta.json goes only by a delete. *)
LEMMA MetaStays ==
  ASSUME TypeOK, Steps, NEW n \in Namespaces, meta[n].exists, ~ BeingDeleted(n)
  PROVE  meta'[n].exists
<1>0. meta \in [Namespaces -> Meta] /\ meta[n] \in Meta
  BY Zenon DEF TypeOK, StoreOK
<1>1. ASSUME NEW ns \in Namespaces, Write(ns)
      PROVE  meta'[n].exists
  <2>1. meta' = meta \/ meta' = [meta EXCEPT ![ns] = [appender[ns].m EXCEPT !.commit = appender[ns].m.commit + 1,
                                                                           !.exists = TRUE]]
    BY <1>1, Zenon DEF Write, Append_, AppendRead, AppendPut, AppendSwap, AppendApply, store
  <2>2. [appender[ns].m EXCEPT !.commit = appender[ns].m.commit + 1, !.exists = TRUE].exists
    BY ZenonT(30) DEF TypeOK, CallsOK, Meta
  <2> QED
    BY <1>0, <2>1, <2>2, Zenon
<1>2. CASE Tick
  <2>1. CASE IndexCommit
    <3>1. meta' = meta \/ meta' = [meta EXCEPT ![tick.ns] = meta_after_index_commit(meta[tick.ns], tick.to)]
      BY <2>1, Zenon DEF IndexCommit
    <3>2. meta_after_index_commit(meta[n], tick.to).exists
      BY <1>0, Zenon DEF meta_after_index_commit, Meta
    <3> QED
      BY <1>0, <3>1, <3>2, Zenon
  <2>2. CASE Compacting
    <3>1. meta' = meta \/ meta' = [meta EXCEPT ![tick.ns] = [meta[tick.ns] EXCEPT !.snap = compaction.m.cursor]]
      BY <2>2, CompactingCases, Zenon DEF CompactFails, CompactSkip, CompactRead, CompactPut, CompactSwap, CompactDelete, store
    <3>2. [meta[n] EXCEPT !.snap = compaction.m.cursor].exists = meta[n].exists
      BY <1>0, Zenon DEF Meta
    <3> QED
      BY <1>0, <3>1, <3>2, Zenon
  <2>3. CASE ~ (IndexCommit \/ Compacting)
    BY <1>2, <2>3, Zenon DEF Tick, list_namespace_names, RefreshLags, refresh_work_queue, RoundBegin, Pop, IndexRead,
       IndexPut, IndexFails, Check, Requeue, compaction_pass, NextListed, TickFails, Goto, store
  <2> QED
    BY <2>1, <2>2, <2>3, Zenon
<1>3. CASE delete_namespace
  <2>1. CASE DeleteReturns
    BY <2>1, Zenon DEF DeleteReturns, store
  <2>2. ASSUME NEW part \in {"index", "meta", "wal"}, DeleteObjects(part)
        PROVE  meta'[n].exists
    <3>1. deletion.ns # n
      BY <2>2, DeletionFields, Zenon DEF TypeOK, DeleteObjects, BeingDeleted
    <3>2. meta' = meta \/ meta' = [meta EXCEPT ![deletion.ns] = NoMeta]
      BY <2>2, Zenon DEF DeleteObjects
    <3> QED
      BY <1>0, <3>1, <3>2, Zenon
  <2> QED
    BY <1>3, <2>1, <2>2, Zenon DEF delete_namespace
<1>4. CASE clone_namespace_s3
  <2>1. \/ meta' = meta
        \/ meta[clone.source].exists /\ meta' = [meta EXCEPT ![clone.dest] = meta[clone.source]]
    BY <1>4, Zenon DEF clone_namespace_s3, CopyIndex, CopyMeta, CopyWal, CloneReturns, CopyFails, store
  <2> QED
    BY <1>0, <2>1, Zenon
<1>5. CASE \E ns \in Namespaces :
              Query(ns) \/ Wake(ns) \/ DeleteList(ns) \/ \E source \in Namespaces : CloneList(ns, source)
  BY <1>5, Zenon DEF Query, Wake, DeleteList, CloneList, store
<1>6. CASE list_namespaces
  BY <1>6, Zenon DEF list_namespaces, store
<1> QED
  BY <1>1, <1>2, <1>3, <1>4, <1>5, <1>6, Zenon DEF Steps

LEMMA InvalidateDrops ==
  ASSUME LifecycleOK, invalidate_namespace_list_cache
  PROVE  ~ list_cache'.cached /\ (listing'.pc = "listed" => listing'.raced)
BY Zenon DEF LifecycleOK, invalidate_namespace_list_cache, NoList

(* A write or a copy returns. *)
LEMMA ReturnListing ==
  ASSUME TypeOK, ListingInv, Steps, NEW ns \in Namespaces, UNCHANGED deletion,
         invalidate_namespace_list_cache, acked' = acked \cup Kept(ns)
  PROVE  ListingInv'
<1>1. ~ list_cache'.cached /\ (listing'.pc = "listed" => listing'.raced)
  BY InvalidateDrops, Zenon DEF TypeOK
<1>2. \A n \in acked' : n \in Namespaces /\ meta[n].exists /\ ~ BeingDeleted(n)
  BY Zenon DEF TypeOK, LifecycleOK, ListingInv, Kept, BeingDeleted
<1>3. \A n \in acked' : meta'[n].exists /\ ~ BeingDeleted(n)'
  BY <1>2, MetaStays, Zenon DEF BeingDeleted
<1> QED
  BY <1>1, <1>3, Zenon DEF ListingInv, ListingShowsAcked

(* A step that leaves the listing and what has returned as they are. *)
LEMMA QuietListing ==
  ASSUME TypeOK, ListingInv, Steps, UNCHANGED <<listing, list_cache, acked>>,
         \A n \in Namespaces : BeingDeleted(n)' => BeingDeleted(n)
  PROVE  ListingInv'
<1>1. \A n \in acked : n \in Namespaces /\ meta[n].exists /\ ~ BeingDeleted(n)
  BY Zenon DEF TypeOK, LifecycleOK, ListingInv
<1>2. \A n \in acked' : meta'[n].exists /\ ~ BeingDeleted(n)'
  BY <1>1, MetaStays, Zenon
<1> QED
  BY <1>2, Zenon DEF ListingInv, ListingShowsAcked


LEMMA DeleteListing ==
  ASSUME TypeOK, ListingInv, Steps, delete_namespace
  PROVE  ListingInv'
<1>1. CASE DeleteReturns
  <2>1. ~ list_cache'.cached /\ (listing'.pc = "listed" => listing'.raced)
    BY <1>1, InvalidateDrops, Zenon DEF TypeOK, DeleteReturns
  <2>2. acked' = acked /\ \A n \in Namespaces : ~ BeingDeleted(n)'
    BY <1>1, Zenon DEF delete_namespace, DeleteReturns, BeingDeleted
  <2>3. \A n \in acked : n \in Namespaces /\ meta[n].exists /\ ~ BeingDeleted(n)
    BY Zenon DEF TypeOK, LifecycleOK, ListingInv
  <2>4. \A n \in acked' : meta'[n].exists /\ ~ BeingDeleted(n)'
    BY <2>2, <2>3, MetaStays, Zenon
  <2> QED
    BY <2>1, <2>4, Zenon DEF ListingInv, ListingShowsAcked
<1>2. ASSUME NEW part \in {"index", "meta", "wal"}, DeleteObjects(part)
      PROVE  ListingInv'
  <2>1. deletion \in DeletionState /\ deletion # NoDeletion
    BY <1>2, DeletionFields, Zenon DEF TypeOK, DeleteObjects
  <2>2. deletion'.ns = deletion.ns
    BY <1>2, <2>1, Zenon DEF DeleteObjects, DeletionState
  <2>3. \A n \in Namespaces : BeingDeleted(n)' => BeingDeleted(n)
    BY <2>1, <2>2, Zenon DEF BeingDeleted
  <2>4. UNCHANGED <<listing, list_cache, acked>>
    BY <1>2, Zenon DEF delete_namespace, DeleteObjects
  <2> QED
    BY <2>3, <2>4, QuietListing, Zenon
<1> QED
  BY <1>1, <1>2, Zenon DEF delete_namespace

LEMMA CloneListing ==
  ASSUME TypeOK, ListingInv, Steps, clone_namespace_s3
  PROVE  ListingInv'
<1>1. CASE CloneReturns
  <2>1. clone.dest \in Namespaces
    BY <1>1, CloneFields, Zenon DEF TypeOK, CloneReturns
  <2> QED
    BY <1>1, <2>1, ReturnListing, Zenon DEF CloneReturns
<1>2. CASE CopyIndex \/ CopyMeta \/ CopyWal
  <2>1. UNCHANGED <<listing, list_cache, acked>>
    BY <1>2, Zenon DEF CopyIndex, CopyMeta, CopyWal
  <2>2. \/ deletion' = deletion
        \/ deletion # NoDeletion /\ deletion' = [deletion EXCEPT !.doomed = deletion.doomed \ Copied]
    BY <1>2, Zenon DEF CopyIndex, CopyMeta, CopyWal, BringBack
  <2>3. deletion # NoDeletion => deletion \in DeletionState
    BY Zenon DEF TypeOK, LifecycleOK
  <2>4. deletion # NoDeletion => [deletion EXCEPT !.doomed = deletion.doomed \ Copied].ns = deletion.ns
    BY <2>3, Zenon DEF DeletionState
  <2>5. \A n \in Namespaces : BeingDeleted(n)' => BeingDeleted(n)
    BY <2>2, <2>4, Zenon DEF BeingDeleted
  <2> QED
    BY <2>1, <2>5, QuietListing, Zenon
<1> QED
  BY <1>1, <1>2, Zenon DEF clone_namespace_s3

LEMMA ListingKept ==
  ASSUME TypeOK, ListingInv, Steps
  PROVE  ListingInv'
<1>1. ASSUME NEW ns \in Namespaces, Write(ns)
      PROVE  ListingInv'
  <2>1. deletion' = deletion
    BY <1>1, Zenon DEF Write
  <2>2. CASE appender[ns].pc = "apply"
    BY <1>1, <2>1, <2>2, ReturnListing, Zenon DEF Write
  <2>3. CASE appender[ns].pc # "apply"
    BY <1>1, <2>1, <2>3, QuietListing, Zenon DEF Write, BeingDeleted
  <2> QED
    BY <2>2, <2>3, Zenon
<1>2. ASSUME NEW ns \in Namespaces, DeleteList(ns)
      PROVE  ListingInv'
  <2>1. deletion' # NoDeletion /\ deletion'.ns = ns /\ acked' = acked \ {ns}
        /\ UNCHANGED <<meta, listing, list_cache>>
    BY <1>2, Zenon DEF DeleteList, NoDeletion, store
  <2> QED
    BY <2>1, Zenon DEF ListingInv, ListingShowsAcked, BeingDeleted
<1>3. CASE \E ns \in Namespaces :
              \/ Query(ns) /\ UNCHANGED <<scheduler, lifecycle>>
              \/ Wake(ns) /\ UNCHANGED lifecycle
              \/ \E source \in Namespaces : CloneList(ns, source) /\ UNCHANGED scheduler
  <2>1. UNCHANGED <<deletion, listing, list_cache, acked>>
    BY <1>3, Zenon DEF lifecycle, CloneList
  <2> QED
    BY <2>1, QuietListing, Zenon DEF BeingDeleted
<1>4. CASE Tick /\ UNCHANGED lifecycle
  BY <1>4, QuietListing, Zenon DEF BeingDeleted, lifecycle
<1>5. CASE list_namespaces
  <2>1. UNCHANGED <<meta, deletion, acked>>
    BY <1>5, Zenon DEF list_namespaces, store
  <2>2. \A n \in acked : n \in Namespaces /\ meta[n].exists /\ ~ BeingDeleted(n)
    BY Zenon DEF TypeOK, LifecycleOK, ListingInv
  <2>3. acked \subseteq {n \in Namespaces : namespace_exists(n)}
    BY <2>2, Zenon DEF namespace_exists
  <2>4. CASE ListBegin
    <3>1. listing'.names = {n \in Namespaces : namespace_exists(n)} /\ list_cache' = list_cache
      BY <2>4, Zenon DEF ListBegin
    <3> QED
      BY <2>1, <2>2, <2>3, <3>1, Zenon DEF ListingInv, ListingShowsAcked, BeingDeleted
  <2>5. CASE ListEnd
    <3>1. /\ listing.pc = "listed" /\ listing'.pc # "listed"
          /\ list_cache'.names = listing.names /\ list_cache'.raced = listing.raced
      BY <2>5, Zenon DEF ListEnd, NoListing
    <3> QED
      BY <2>1, <2>2, <3>1, Zenon DEF ListingInv, ListingShowsAcked, BeingDeleted
  <2>6. CASE Expire
    <3>1. ~ list_cache'.cached /\ listing' = listing
      BY <2>6, Zenon DEF Expire, NoList
    <3> QED
      BY <2>1, <2>2, <3>1, Zenon DEF ListingInv, ListingShowsAcked, BeingDeleted
  <2> QED
    BY <1>5, <2>4, <2>5, <2>6, Zenon DEF list_namespaces
<1> QED
  BY <1>1, <1>2, <1>3, <1>4, <1>5, DeleteListing, CloneListing, Zenon DEF Steps


-----------------------------------------------------------------------------
(* What a delete has removed.                                              *)

Stored(n) == {wal[n][k] : k \in DOMAIN wal[n]}

(* What is read from the objects of a namespace is held there. *)
LEMMA LoadedHeld ==
  ASSUME NEW n
  PROVE  /\ \A from, to : Replayed(n, from, to) \subseteq Stored(n)
         /\ Base(n).batches \subseteq snapshot[n].batches
         /\ Stored(n) \cup snapshot[n].batches \cup view[n].batches \subseteq Held(n)
         /\ compaction.ns = n => compaction.batches \subseteq Held(n)
         /\ Loaded(n) \subseteq Held(n)
<1>1. \A from, to : Replayed(n, from, to) \subseteq Stored(n)
  BY Zenon DEF Replayed, Stored
<1>2. Base(n).batches \subseteq snapshot[n].batches
  BY Zenon DEF Base, NoSnapshot
<1>3. Stored(n) \cup snapshot[n].batches \cup view[n].batches \subseteq Held(n)
  BY Zenon DEF Held, Stored
<1>5. compaction.ns = n => compaction.batches \subseteq Held(n)
  BY Zenon DEF Held
<1>4. Loaded(n) \subseteq Stored(n) \cup snapshot[n].batches
  BY <1>1, <1>2, Zenon DEF Loaded
<1> QED
  BY <1>1, <1>2, <1>3, <1>4, <1>5, Zenon

(* The step brings no batch to the namespace that was not held there. *)
Retains(n) ==
    /\ appender'[n].pc = "idle" \/ (appender[n].pc # "idle" /\ appender'[n].batch = appender[n].batch)
    /\ \A k \in DOMAIN wal'[n] :
          \/ k \in DOMAIN wal[n] /\ wal'[n][k] = wal[n][k]
          \/ appender[n].pc # "idle" /\ wal'[n][k] = appender[n].batch
    /\ snapshot'[n].batches \subseteq Held(n)
    /\ view'[n].batches \subseteq Held(n)
    /\ compaction'.ns = n => compaction'.batches \subseteq Held(n)

LEMMA RetainsHeld ==
  ASSUME NEW n, Retains(n)
  PROVE  Held(n)' \subseteq Held(n)
<1> SUFFICES ASSUME NEW x \in Held(n)'
             PROVE  x \in Held(n)
  OBVIOUS
<1>1. CASE \E k \in DOMAIN wal'[n] : x = wal'[n][k]
  BY <1>1, Zenon DEF Held, Retains
<1>2. CASE x \in snapshot'[n].batches \cup view'[n].batches
  BY <1>2, Zenon DEF Retains
<1>3. CASE appender'[n].pc # "idle" /\ x = appender'[n].batch
  BY <1>3, Zenon DEF Held, Retains
<1>4. CASE compaction'.ns = n /\ x \in compaction'.batches
  BY <1>4, Zenon DEF Retains
<1> QED
  BY <1>1, <1>2, <1>3, <1>4, Zenon DEF Held

LEMMA RetainingGone ==
  ASSUME TypeOK, GoneInv, \A n \in Namespaces : Retains(n), UNCHANGED <<deletion, gone, orphaned, issued>>
  PROVE  GoneInv'
<1>1. ASSUME NEW n \in Namespaces
      PROVE  /\ (Held(n) \cup gone[n] \subseteq 1..issued)'
             /\ (n \notin orphaned => Held(n) \cap gone[n] = {})'
  <2>1. Held(n)' \subseteq Held(n)
    BY RetainsHeld, Zenon
  <2> QED
    BY <2>1, Zenon DEF GoneInv
<1>2. ASSUME deletion # NoDeletion
      PROVE  /\ appender'[deletion.ns].pc = "idle" \/ appender'[deletion.ns].batch \notin deletion.doomed
             /\ \A k \in DOMAIN wal'[deletion.ns] : wal'[deletion.ns][k] \in deletion.doomed
                   => "wal" \in deletion.left /\ k \in deletion.keys.wal
  <2>1. Retains(deletion.ns)
    BY <1>2, Zenon DEF TypeOK, LifecycleOK, DeletionState
  <2> QED
    BY <1>2, <2>1, Zenon DEF Retains, GoneInv
<1> QED
  BY <1>1, <1>2, Zenon DEF GoneInv

LEMMA AppendPutGone ==
  ASSUME TypeOK, GoneInv, NEW ns \in Namespaces, AppendPut(ns), UNCHANGED <<compaction, deletion, gone, orphaned>>
  PROVE  GoneInv'
<1> DEFINE a == appender[ns]
           f == With(wal[ns], a.m.commit + 1, a.batch)
<1>1. a.pc = "put" /\ wal' = [wal EXCEPT ![ns] = f] /\ appender' = [appender EXCEPT ![ns].pc = "swap"]
  BY Zenon DEF AppendPut, put_wal
<1>2. \A k \in DOMAIN f : (k \in DOMAIN wal[ns] /\ f[k] = wal[ns][k]) \/ f[k] = a.batch
  BY Zenon DEF With
<1>3. DOMAIN wal = Namespaces /\ DOMAIN appender = Namespaces /\ UNCHANGED <<snapshot, view, issued>>
  BY Zenon DEF TypeOK, StoreOK, CallsOK, AppendPut
<1> HIDE DEF f
<1>4. ASSUME NEW n \in Namespaces
      PROVE  Retains(n)
  <2>1. /\ snapshot'[n].batches \subseteq Held(n) /\ view'[n].batches \subseteq Held(n)
        /\ compaction'.ns = n => compaction'.batches \subseteq Held(n)
    BY <1>3, LoadedHeld, Zenon
  <2>2. appender'[n].batch = appender[n].batch /\ (appender[n].pc = "idle" => appender'[n].pc = "idle")
    BY <1>1, <1>3, Zenon DEF TypeOK, CallsOK
  <2>3. CASE n = ns
    <3>1. wal'[n] = f
      BY <1>1, <1>3, <2>3, Zenon
    <3> QED
      BY <1>1, <1>2, <2>1, <2>2, <2>3, <3>1, Zenon DEF Retains
  <2>4. CASE n # ns
    <3>1. wal'[n] = wal[n]
      BY <1>1, <1>3, <2>4, Zenon
    <3> QED
      BY <2>1, <2>2, <3>1, Zenon DEF Retains
  <2> QED
    BY <2>3, <2>4, Zenon
<1> QED
  BY <1>3, <1>4, RetainingGone, Zenon

LEMMA AppendSwapGone ==
  ASSUME TypeOK, GoneInv, NEW ns \in Namespaces, AppendSwap(ns), UNCHANGED <<compaction, deletion, gone, orphaned>>
  PROVE  GoneInv'
<1>1. UNCHANGED <<snapshot, view, issued>> /\ DOMAIN wal = Namespaces
      /\ appender \in [Namespaces -> [pc : {"idle", "put", "swap", "apply"}, batch : Nat, m : Meta]]
  BY Zenon DEF AppendSwap, TypeOK, StoreOK, CallsOK
<1>2. wal' = wal \/ \E S : wal' = [wal EXCEPT ![ns] = Without(wal[ns], S)]
  BY Zenon DEF AppendSwap
<1>3. appender[ns].pc = "swap" /\ DOMAIN appender' = Namespaces
      /\ \A n \in Namespaces \ {ns} : appender'[n] = appender[n]
  BY <1>1, Zenon DEF AppendSwap
<1>4. appender'[ns].pc = "idle" \/ appender'[ns].batch = appender[ns].batch
  BY <1>1 DEF AppendSwap, Idle
<1>5. ASSUME NEW n \in Namespaces
      PROVE  Retains(n)
  <2>1. /\ snapshot'[n].batches \subseteq Held(n) /\ view'[n].batches \subseteq Held(n)
        /\ compaction'.ns = n => compaction'.batches \subseteq Held(n)
    BY <1>1, LoadedHeld, Zenon
  <2>2. appender'[n].pc = "idle" \/ (appender[n].pc # "idle" /\ appender'[n].batch = appender[n].batch)
    BY <1>3, <1>4, Zenon
  <2>3. wal'[n] = wal[n] \/ \E S : wal'[n] = Without(wal[n], S)
    BY <1>1, <1>2, Zenon
  <2>4. \A k \in DOMAIN wal'[n] : k \in DOMAIN wal[n] /\ wal'[n][k] = wal[n][k]
    BY <2>3, Zenon DEF Without
  <2> QED
    BY <2>1, <2>2, <2>4, Zenon DEF Retains
<1> QED
  BY <1>1, <1>5, RetainingGone, Zenon


(* A new batch has a number of its own. *)
LEMMA AppendReadGone ==
  ASSUME TypeOK, GoneInv, NEW ns \in Namespaces, AppendRead(ns), UNCHANGED <<compaction, deletion, gone, orphaned>>
  PROVE  GoneInv'
<1>1. issued \in Nat /\ issued' = issued + 1 /\ DOMAIN appender = Namespaces
  BY Zenon DEF TypeOK, CallsOK, AppendRead
<1>2. UNCHANGED <<wal, snapshot, view>>
      /\ appender' = [appender EXCEPT ![ns] = [pc |-> "put", batch |-> issued + 1, m |-> meta[ns]]]
  BY Zenon DEF AppendRead, store
<1>3. 1..issued \subseteq 1..issued' /\ issued + 1 \in 1..issued' /\ issued + 1 \notin 1..issued
  BY <1>1
<1>4. \A n \in Namespaces : appender'[n] = appender[n] \/ appender'[n].batch = issued + 1
  BY <1>1, <1>2, Zenon
<1>5. ASSUME NEW n \in Namespaces
      PROVE  /\ (Held(n) \cup gone[n] \subseteq 1..issued)'
             /\ (n \notin orphaned => Held(n) \cap gone[n] = {})'
  <2>1. Held(n)' \subseteq Held(n) \cup {issued + 1}
    BY ZenonT(30), <1>2, <1>4 DEF Held
  <2>2. Held(n) \cup gone[n] \subseteq 1..issued /\ (n \notin orphaned => Held(n) \cap gone[n] = {})
    BY Zenon DEF GoneInv
  <2> QED
    BY <1>3, <2>1, <2>2, Zenon
<1>6. ASSUME deletion # NoDeletion
      PROVE  /\ deletion.doomed \subseteq 1..issued'
             /\ appender'[deletion.ns].pc = "idle" \/ appender'[deletion.ns].batch \notin deletion.doomed
  <2>1. deletion.ns \in Namespaces /\ deletion.doomed \subseteq 1..issued
        /\ (appender[deletion.ns].pc = "idle" \/ appender[deletion.ns].batch \notin deletion.doomed)
    BY <1>6, Zenon DEF TypeOK, LifecycleOK, DeletionState, GoneInv
  <2> QED
    BY <1>3, <1>4, <2>1, Zenon
<1> QED
  BY <1>2, <1>5, <1>6, Zenon DEF GoneInv

(* A view is loaded, caught up, applied to or dropped. *)
LEMMA ViewGone ==
  ASSUME TypeOK, GoneInv, UNCHANGED <<wal, snapshot, compaction, deletion, gone, orphaned, issued>>,
         \A n \in Namespaces : appender'[n] = appender[n] \/ appender'[n] = Idle,
         \A n \in Namespaces : view'[n].batches \subseteq Held(n)
  PROVE  GoneInv'
<1>1. ASSUME NEW n \in Namespaces
      PROVE  Retains(n)
  <2>1. snapshot'[n].batches \subseteq Held(n) /\ (compaction'.ns = n => compaction'.batches \subseteq Held(n))
    BY LoadedHeld, Zenon
  <2>2. appender'[n].pc = "idle" \/ appender'[n] = appender[n]
    BY DEF Idle
  <2> QED
    BY <2>1, <2>2, Zenon DEF Retains
<1> QED
  BY <1>1, RetainingGone, Zenon

LEMMA LoadedViewHeld ==
  ASSUME NEW n
  PROVE  LoadedView(n).batches \subseteq Held(n)
BY LoadedHeld, Zenon DEF LoadedView

LEMMA AppendApplyGone ==
  ASSUME TypeOK, GoneInv, NEW ns \in Namespaces, AppendApply(ns), UNCHANGED <<compaction, deletion, gone, orphaned>>
  PROVE  GoneInv'
<1> DEFINE w == IF view[ns].pinned THEN apply_committed(view[ns], appender[ns])
                ELSE IF Loadable(ns) THEN LoadedView(ns) ELSE view[ns]
<1>1. /\ view' = [view EXCEPT ![ns] = w] /\ appender' = [appender EXCEPT ![ns] = Idle]
      /\ appender[ns].pc = "apply" /\ UNCHANGED <<wal, snapshot, issued>>
  BY Zenon DEF AppendApply, store
<1>2. DOMAIN view = Namespaces /\ DOMAIN appender = Namespaces /\ view[ns] \in [pinned : BOOLEAN, batches : SUBSET Nat, last : Nat]
  BY Zenon DEF TypeOK, CallsOK
<1>3. view[ns].batches \subseteq Held(ns) /\ appender[ns].batch \in Held(ns)
  BY <1>1, Zenon DEF Held
<1>4. w.batches \subseteq Held(ns)
  <2>1. apply_committed(view[ns], appender[ns]).batches = view[ns].batches \cup {appender[ns].batch}
    BY <1>2, Zenon DEF apply_committed
  <2> QED
    BY <1>3, <2>1, LoadedViewHeld, Zenon
<1> HIDE DEF w
<1>5. ASSUME NEW n \in Namespaces
      PROVE  view'[n].batches \subseteq Held(n) /\ (appender'[n] = appender[n] \/ appender'[n] = Idle)
  <2>1. view[n].batches \subseteq Held(n)
    BY Zenon DEF Held
  <2> QED
    BY <1>1, <1>2, <1>4, <2>1, Zenon
<1> QED
  BY <1>1, <1>5, ViewGone, Zenon

LEMMA QueryGone ==
  ASSUME TypeOK, GoneInv, NEW ns \in Namespaces, Query(ns), UNCHANGED <<deletion, gone, orphaned>>
  PROVE  GoneInv'
<1>1. UNCHANGED <<wal, snapshot, appender, compaction, issued>>
  BY Zenon DEF Query, store
<1>2. /\ view \in [Namespaces -> [pinned : BOOLEAN, batches : SUBSET Nat, last : Nat]]
      /\ view[ns] \in [pinned : BOOLEAN, batches : SUBSET Nat, last : Nat]
  BY Zenon DEF TypeOK, CallsOK
<1>3. \A n \in Namespaces : view[n].batches \subseteq Held(n)
  BY Zenon DEF Held
<1>4. CASE view' = [view EXCEPT ![ns] = LoadedView(ns)]
  BY <1>1, <1>2, <1>3, <1>4, LoadedViewHeld, ViewGone, Zenon
<1>5. CASE view' = [view EXCEPT ![ns].batches = @ \cup Replayed(ns, view[ns].last + 1, meta[ns].commit),
                                ![ns].last = meta[ns].commit]
  <2> DEFINE R == Replayed(ns, view[ns].last + 1, meta[ns].commit)
  <2>1. R \subseteq Held(ns)
    BY LoadedHeld, Zenon
  <2> HIDE DEF R
  <2>2. view'[ns].batches = view[ns].batches \cup R /\ \A n \in Namespaces \ {ns} : view'[n] = view[n]
    BY <1>2, <1>5, Zenon DEF R
  <2>3. \A n \in Namespaces : view'[n].batches \subseteq Held(n)
    BY <1>3, <2>1, <2>2, Zenon
  <2> QED
    BY <1>1, <2>3, ViewGone, Zenon
<1> QED
  BY <1>4, <1>5, Zenon DEF Query

LEMMA CompactingGone ==
  ASSUME TypeOK, GoneInv, Compacting, UNCHANGED <<deletion, gone, orphaned>>
  PROVE  GoneInv'
<1>0. PICK ns \in Namespaces : ns = tick.ns
  BY CompactingCases, Zenon
<1>1. UNCHANGED <<view, appender, issued>> /\ DOMAIN wal = Namespaces /\ DOMAIN snapshot = Namespaces
  BY CompactingCases, Zenon DEF TypeOK, StoreOK
<1>2. ASSUME \A n \in Namespaces : \A k \in DOMAIN wal'[n] : k \in DOMAIN wal[n] /\ wal'[n][k] = wal[n][k],
             \A n \in Namespaces : snapshot'[n].batches \subseteq Held(n),
             \A n \in Namespaces : compaction'.ns = n => compaction'.batches \subseteq Held(n)
      PROVE  GoneInv'
  <2>1. \A n \in Namespaces : view'[n].batches \subseteq Held(n)
    BY <1>1, LoadedHeld, Zenon
  <2>2. \A n \in Namespaces : Retains(n)
    BY <1>1, <1>2, <2>1, Zenon DEF Retains
  <2> QED
    BY <1>1, <2>2, RetainingGone, Zenon
<1>3. \A n \in Namespaces : snapshot[n].batches \subseteq Held(n)
  BY LoadedHeld, Zenon
<1>4. ASSUME UNCHANGED <<wal, snapshot>>,
             compaction'.batches = {} \/ (compaction'.ns = compaction.ns /\ compaction'.batches = compaction.batches)
      PROVE  GoneInv'
  <2>1. \A n \in Namespaces : compaction'.ns = n => compaction'.batches \subseteq Held(n)
    BY <1>4, LoadedHeld, Zenon
  <2> QED
    BY <1>2, <1>3, <1>4, <2>1, Zenon
<1>5. CASE CompactFails \/ CompactSkip(ns)
  <2>1. UNCHANGED <<wal, snapshot>> /\ compaction'.batches = {}
    <3>1. UNCHANGED <<wal, snapshot>> /\ compaction' = NoCompaction
      BY <1>5, Zenon DEF CompactFails, CompactSkip, store
    <3> QED
      BY <3>1 DEF NoCompaction
  <2> QED
    BY <1>4, <2>1, Zenon
<1>6. CASE CompactRead(ns)
  <2>1. UNCHANGED <<wal, snapshot>> /\ compaction'.ns = ns /\ compaction'.batches = docs_at_index_cursor(ns)
    BY <1>6, Zenon DEF CompactRead, store
  <2>2. OldSnapshot(ns).batches \subseteq snapshot[ns].batches
    BY Zenon DEF OldSnapshot, NoSnapshot
  <2>3. docs_at_index_cursor(ns) \subseteq Held(ns)
    BY <2>2, LoadedHeld, Zenon DEF docs_at_index_cursor
  <2> QED
    BY <1>2, <1>3, <2>1, <2>3, Zenon
<1>7. CASE compaction \in CompactionState /\ compaction.ns = ns /\ CompactPut(ns)
  <2>1. /\ wal' = wal /\ compaction'.batches = {}
        /\ snapshot' = [snapshot EXCEPT ![ns] = [seq |-> compaction.m.cursor, batches |-> compaction.batches]]
    BY <1>7, Zenon DEF CompactPut, CompactionState
  <2>2. compaction.batches \subseteq Held(ns)
    BY <1>7, LoadedHeld, Zenon
  <2>3. \A n \in Namespaces : snapshot'[n].batches \subseteq Held(n)
    BY <1>1, <1>3, <2>1, <2>2, Zenon
  <2> QED
    BY <1>2, <2>1, <2>3, Zenon
<1>8. CASE compaction \in CompactionState /\ CompactSwap(ns)
  <2>1. \/ compaction'.batches = {}
        \/ compaction'.ns = compaction.ns /\ compaction'.batches = compaction.batches
    <3>1. compaction' = NoCompaction \/ \E pc : compaction' = [compaction EXCEPT !.pc = pc]
      BY <1>8, Zenon DEF CompactSwap
    <3> QED
      BY <1>8, <3>1 DEF CompactionState, NoCompaction
  <2> QED
    BY <1>4, <1>8, <2>1, Zenon DEF CompactSwap
<1>9. CASE CompactDelete(ns)
  <2>1. snapshot' = snapshot /\ compaction'.batches = {}
    BY <1>9, Zenon DEF CompactDelete, NoCompaction
  <2>2. \E K : wal' = [wal EXCEPT ![ns] = Without(wal[ns], K)]
    BY <1>9, Zenon DEF CompactDelete
  <2>3. ASSUME NEW n \in Namespaces
        PROVE  \A k \in DOMAIN wal'[n] : k \in DOMAIN wal[n] /\ wal'[n][k] = wal[n][k]
    <3>1. wal'[n] = wal[n] \/ \E K : wal'[n] = Without(wal[n], K)
      BY <1>1, <2>2, Zenon
    <3> QED
      BY <3>1, Zenon DEF Without
  <2> QED
    BY <1>2, <1>3, <2>1, <2>3, Zenon
<1> QED
  BY <1>0, <1>5, <1>6, <1>7, <1>8, <1>9, CompactingCases, Zenon


(* The batches that a delete is to remove, and where they are. *)
LEMMA DeleteListGone ==
  ASSUME TypeOK, GoneInv, NEW ns \in Namespaces, DeleteList(ns)
  PROVE  GoneInv'
<1>1. UNCHANGED <<wal, snapshot, view, appender, compaction, issued, gone, orphaned>>
  BY Zenon DEF DeleteList, store
<1>2. /\ deletion'.ns = ns /\ deletion'.pc = "objects" /\ deletion'.doomed = Loaded(ns) \ {appender[ns].batch}
      /\ deletion'.left = {"index", "meta", "wal"} /\ deletion'.keys.wal = DOMAIN wal[ns]
  BY Zenon DEF DeleteList, Keys
<1>3. \A n \in Namespaces : Held(n)' = Held(n)
  BY <1>1, Zenon DEF Held
<1>4. Loaded(ns) \subseteq 1..issued
  BY LoadedHeld, Zenon DEF GoneInv
<1> QED
  BY <1>1, <1>2, <1>3, <1>4, Zenon DEF GoneInv

LEMMA DeleteObjectsGone ==
  ASSUME TypeOK, GoneInv, NEW part \in {"index", "meta", "wal"}, DeleteObjects(part), UNCHANGED <<appender, compaction, issued>>
  PROVE  GoneInv'
<1> DEFINE ns == deletion.ns
           keys == deletion.keys
<1>1. deletion \in DeletionState /\ ns \in Namespaces /\ deletion # NoDeletion
  BY DeletionFields, Zenon DEF TypeOK, DeleteObjects
<1>2. /\ deletion'.ns = ns /\ deletion'.keys = keys /\ deletion'.doomed = deletion.doomed
      /\ deletion'.left = deletion.left \ {part} /\ (deletion'.pc = "forget" => deletion'.left = {})
      /\ UNCHANGED <<view, gone, orphaned>>
  BY <1>1, Zenon DEF DeleteObjects, DeletionState
<1>3. \A n \in Namespaces \ {ns} : wal'[n] = wal[n] /\ snapshot'[n] = snapshot[n]
  BY Zenon DEF DeleteObjects, TypeOK, StoreOK
<1>4. /\ snapshot'[ns] = snapshot[ns] \/ snapshot'[ns].batches = {}
      /\ wal'[ns] = IF part = "wal" THEN Without(wal[ns], keys.wal) ELSE wal[ns]
  BY <1>1, Zenon DEF DeleteObjects, TypeOK, StoreOK, NoSnapshot
<1>5. \A k \in DOMAIN wal'[ns] :
         k \in DOMAIN wal[ns] /\ wal'[ns][k] = wal[ns][k] /\ (part = "wal" => k \notin keys.wal)
  BY <1>4, Zenon DEF Without
<1>6. ASSUME NEW n \in Namespaces
      PROVE  /\ (Held(n) \cup gone[n] \subseteq 1..issued)'
             /\ (n \notin orphaned => Held(n) \cap gone[n] = {})'
  <2>1. \A k \in DOMAIN wal'[n] : k \in DOMAIN wal[n] /\ wal'[n][k] = wal[n][k]
    BY <1>3, <1>5, Zenon
  <2>2. snapshot'[n].batches \subseteq snapshot[n].batches
    BY <1>3, <1>4, Zenon
  <2>3. Held(n)' \subseteq Held(n)
    BY SMTT(40), <1>2, <2>1, <2>2 DEF Held
  <2> QED
    BY <1>2, <2>3, Zenon DEF GoneInv
<1>7. \A k \in DOMAIN wal'[ns] : wal'[ns][k] \in deletion.doomed => "wal" \in deletion'.left /\ k \in keys.wal
  BY <1>1, <1>2, <1>5, Zenon DEF GoneInv
<1> HIDE DEF ns, keys
<1>8. /\ deletion.doomed \subseteq 1..issued
      /\ appender[ns].pc = "idle" \/ appender[ns].batch \notin deletion.doomed
  BY <1>1, Zenon DEF GoneInv, ns
<1> QED
  BY <1>2, <1>6, <1>7, <1>8, Zenon DEF GoneInv

LEMMA DeleteReturnsGone ==
  ASSUME TypeOK, CompactInv, GoneInv, DeleteReturns, UNCHANGED <<appender, compaction, issued>>
  PROVE  GoneInv'
<1>0. PICK ns \in Namespaces : ns = deletion.ns
  BY DeletionFields, Zenon DEF TypeOK, DeleteReturns
<1>1. deletion \in DeletionState /\ deletion # NoDeletion /\ deletion.pc = "forget"
  BY DeletionFields, Zenon DEF TypeOK, DeleteReturns
<1>2. UNCHANGED <<wal, snapshot>> /\ deletion' = NoDeletion
  BY Zenon DEF DeleteReturns, store
<1>3. \A n \in Namespaces \ {ns} : UNCHANGED <<view[n], gone[n]>> /\ (n \in orphaned' <=> n \in orphaned)
  BY <1>0, <1>1, Zenon DEF DeleteReturns, remove_view, TypeOK, CallsOK, LifecycleOK
<1>4. view'[ns].batches = {} /\ gone'[ns] = gone[ns] \cup deletion.doomed
  BY <1>0, <1>1, Zenon DEF DeleteReturns, remove_view, NoView, TypeOK, CallsOK, LifecycleOK
<1>5. ns \notin orphaned'
      => ns \notin orphaned /\ snapshot[ns].batches = {} /\ (compaction.ns = ns => compaction.batches = {})
  BY <1>0 DEF DeleteReturns, NoSnapshot, ToBeWritten, CompactInv
<1>6. ASSUME NEW n \in Namespaces \ {ns}
      PROVE  /\ (Held(n) \cup gone[n] \subseteq 1..issued)'
             /\ (n \notin orphaned => Held(n) \cap gone[n] = {})'
  <2>1. Held(n)' = Held(n)
    BY ZenonT(30), <1>2, <1>3 DEF Held
  <2> QED
    BY <1>3, <2>1, Zenon DEF GoneInv
<1>7. /\ deletion.doomed \subseteq 1..issued
      /\ appender[ns].pc = "idle" \/ appender[ns].batch \notin deletion.doomed
      /\ \A k \in DOMAIN wal[ns] : wal[ns][k] \notin deletion.doomed
      /\ Held(ns) \cup gone[ns] \subseteq 1..issued /\ (ns \notin orphaned => Held(ns) \cap gone[ns] = {})
  BY <1>0, <1>1, Zenon DEF GoneInv
<1>8. Held(ns)' \subseteq Held(ns)
  BY <1>2, <1>4, Zenon DEF Held
<1>9. (Held(ns) \cup gone[ns] \subseteq 1..issued)'
  BY <1>4, <1>7, <1>8, Zenon
<1>10. ASSUME ns \notin orphaned'
       PROVE  Held(ns)' \cap gone'[ns] = {}
  <2>1. Held(ns)' = Stored(ns) \cup (IF appender[ns].pc = "idle" THEN {} ELSE {appender[ns].batch})
    BY <1>2, <1>4, <1>5, <1>10, Zenon DEF Held, Stored
  <2>2. Held(ns)' \cap deletion.doomed = {}
    BY <1>7, <2>1, Zenon DEF Stored
  <2> QED
    BY <1>4, <1>5, <1>7, <1>8, <1>10, <2>2, Zenon
<1> QED
  BY <1>2, <1>6, <1>9, <1>10, Zenon DEF GoneInv


(* A copy brings batches of its source, and takes them from what a delete  *)
(* of the destination has removed or is to remove.                         *)
LEMMA CopyWalGone ==
  ASSUME TypeOK, GoneInv, clone.pc = "wal", CopySucceeds, CopyWal, UNCHANGED <<appender, compaction, issued, orphaned>>
  PROVE  GoneInv'
<1>1. PICK dest \in Namespaces, source \in Namespaces, C \in {Copied} :
         dest = clone.dest /\ source = clone.source /\ C = Copied
  BY CloneFields, Zenon DEF TypeOK
<1>2. /\ wal' = [wal EXCEPT ![dest] =
                    [k \in DOMAIN wal[dest] \cup ListedSegments |->
                        IF k \in ListedSegments THEN wal[source][k] ELSE wal[dest][k]]]
      /\ snapshot' = IF clone.keys.snapshot THEN [snapshot EXCEPT ![dest] = snapshot[source]] ELSE snapshot
      /\ BringBack(C) /\ UNCHANGED view
  BY <1>1, Zenon DEF CopyWal, CopySucceeds
<1>3. /\ gone' = [gone EXCEPT ![dest] = gone[dest] \ C]
      /\ deletion' = IF deletion # NoDeletion /\ deletion.ns = dest
                     THEN [deletion EXCEPT !.doomed = deletion.doomed \ C] ELSE deletion
  BY <1>1, <1>2, Zenon DEF BringBack
<1>4. DOMAIN wal = Namespaces /\ DOMAIN snapshot = Namespaces /\ DOMAIN gone = Namespaces
  BY Zenon DEF TypeOK, StoreOK, LifecycleOK
<1>5. C \subseteq 1..issued
  <2>1. C \subseteq Stored(source) \cup snapshot[source].batches
    BY <1>1, Zenon DEF Copied, CopySucceeds, Stored
  <2> QED
    BY <2>1, LoadedHeld, Zenon DEF GoneInv
<1>6. \A k \in DOMAIN wal'[dest] : (k \in DOMAIN wal[dest] /\ wal'[dest][k] = wal[dest][k]) \/ wal'[dest][k] \in C
  BY <1>1, <1>2, <1>4, Zenon DEF Copied
<1>7. snapshot'[dest].batches \subseteq snapshot[dest].batches \cup C
  BY <1>1, <1>2, <1>4, Zenon DEF Copied
<1>8. /\ gone'[dest] = gone[dest] \ C
      /\ \A n \in Namespaces \ {dest} : UNCHANGED <<wal[n], snapshot[n], gone[n]>>
  BY <1>2, <1>3, <1>4, Zenon
<1>9. ASSUME NEW n \in Namespaces
      PROVE  /\ (Held(n) \cup gone[n] \subseteq 1..issued)'
             /\ (n \notin orphaned => Held(n) \cap gone[n] = {})'
  <2>1. Held(n) \cup gone[n] \subseteq 1..issued /\ (n \notin orphaned => Held(n) \cap gone[n] = {})
    BY Zenon DEF GoneInv
  <2>2. CASE n = dest
    <3>1. \A k \in DOMAIN wal'[n] : (k \in DOMAIN wal[n] /\ wal'[n][k] = wal[n][k]) \/ wal'[n][k] \in C
      BY <1>6, <2>2, Zenon
    <3>2. snapshot'[n].batches \subseteq snapshot[n].batches \cup C /\ view'[n] = view[n] /\ appender'[n] = appender[n]
      BY <1>2, <1>7, <2>2, Zenon
    <3>3. Held(n)' \subseteq Held(n) \cup C
      BY ZenonT(30), <3>1, <3>2 DEF Held
    <3>4. gone'[n] = gone[n] \ C /\ orphaned' = orphaned /\ issued' = issued
      BY <1>8, <2>2, Zenon
    <3> QED
      BY <1>5, <2>1, <3>3, <3>4, Zenon
  <2>3. CASE n # dest
    <3>1. wal'[n] = wal[n] /\ snapshot'[n] = snapshot[n] /\ gone'[n] = gone[n]
      BY <1>8, <2>3, Zenon
    <3>2. view'[n] = view[n] /\ appender'[n] = appender[n] /\ orphaned' = orphaned /\ issued' = issued
      BY <1>2, Zenon
    <3>3. Held(n)' = Held(n)
      BY <3>1, <3>2, Zenon DEF Held
    <3> QED
      BY <2>1, <3>1, <3>2, <3>3, Zenon
  <2> QED
    BY <2>2, <2>3, Zenon
<1>10. ASSUME deletion' # NoDeletion
       PROVE  (/\ deletion.doomed \subseteq 1..issued
               /\ deletion.pc = "forget" => deletion.left = {}
               /\ appender[deletion.ns].pc = "idle" \/ appender[deletion.ns].batch \notin deletion.doomed
               /\ \A k \in DOMAIN wal[deletion.ns] : wal[deletion.ns][k] \in deletion.doomed
                     => "wal" \in deletion.left /\ k \in deletion.keys.wal)'
  <2>1. deletion # NoDeletion /\ deletion \in DeletionState /\ deletion.ns \in Namespaces
    BY <1>3, <1>10, Zenon DEF TypeOK, LifecycleOK, DeletionState
  <2>2. PICK ns \in Namespaces : ns = deletion.ns
    BY <2>1, Zenon
  <2>3. /\ deletion.doomed \subseteq 1..issued
        /\ deletion.pc = "forget" => deletion.left = {}
        /\ appender[ns].pc = "idle" \/ appender[ns].batch \notin deletion.doomed
        /\ \A k \in DOMAIN wal[ns] : wal[ns][k] \in deletion.doomed => "wal" \in deletion.left /\ k \in deletion.keys.wal
    BY <2>1, <2>2, Zenon DEF GoneInv
  <2>4. CASE ns = dest
    <3>1. /\ deletion'.ns = ns /\ deletion'.pc = deletion.pc /\ deletion'.left = deletion.left
          /\ deletion'.keys = deletion.keys /\ deletion'.doomed = deletion.doomed \ C
      BY <1>3, <2>1, <2>2, <2>4, Zenon DEF DeletionState
    <3> QED
      BY <1>6, <2>3, <2>4, <3>1, Zenon
  <2>5. CASE ns # dest
    <3>1. deletion' = deletion /\ wal'[ns] = wal[ns]
      BY <1>3, <1>8, <2>2, <2>5, Zenon
    <3> QED
      BY <2>2, <2>3, <3>1, Zenon
  <2> QED
    BY <2>4, <2>5, Zenon
<1> QED
  BY <1>9, <1>10, Zenon DEF GoneInv

LEMMA RemoveViewGone ==
  ASSUME TypeOK, GoneInv, NEW ns \in Namespaces, remove_view(ns),
         UNCHANGED <<wal, snapshot, appender, compaction, deletion, gone, orphaned, issued>>
  PROVE  GoneInv'
<1>1. ASSUME NEW n \in Namespaces
      PROVE  view'[n].batches \subseteq Held(n)
  <2>1. view[n].batches \subseteq Held(n)
    BY Zenon DEF Held
  <2> QED
    BY <2>1, Zenon DEF remove_view, NoView, TypeOK, CallsOK
<1> QED
  BY <1>1, ViewGone, Zenon

LEMMA CopyGone ==
  ASSUME TypeOK, GoneInv, clone_namespace_s3
  PROVE  GoneInv'
<1>0. UNCHANGED <<appender, compaction, issued, orphaned>> /\ \A n \in Namespaces : view[n].batches \subseteq Held(n)
  BY Zenon DEF clone_namespace_s3, Held
<1>1. CASE CopyIndex \/ CopyMeta \/ (CopyWal /\ ~ CopySucceeds)
  <2>1. UNCHANGED <<wal, snapshot, view, deletion, gone>>
    BY <1>1, Zenon DEF CopyIndex, CopyMeta, CopyWal, CopySucceeds, CopyFails, store
  <2> QED
    BY <1>0, <2>1, ViewGone, Zenon
<1>2. CASE CopyWal /\ CopySucceeds
  BY <1>0, <1>2, CopyWalGone, Zenon DEF CopyWal
<1>3. CASE CloneReturns
  <2>1. clone.dest \in Namespaces
    BY <1>3, CloneFields, Zenon DEF TypeOK, CloneReturns
  <2> QED
    BY <1>0, <1>3, <2>1, RemoveViewGone, Zenon DEF CloneReturns, store
<1> QED
  BY <1>1, <1>2, <1>3, Zenon DEF clone_namespace_s3

LEMMA GoneKept ==
  ASSUME TypeOK, CompactInv, GoneInv, Steps
  PROVE  GoneInv'
<1>0. \A n \in Namespaces : view[n].batches \subseteq Held(n)
  BY Zenon DEF Held
<1>1. ASSUME NEW ns \in Namespaces, Write(ns)
      PROVE  GoneInv'
  BY <1>1, AppendReadGone, AppendPutGone, AppendSwapGone, AppendApplyGone, Zenon DEF Write, Append_
<1>2. ASSUME NEW ns \in Namespaces, Query(ns), UNCHANGED lifecycle
      PROVE  GoneInv'
  BY <1>2, QueryGone, Zenon DEF lifecycle
<1>3. ASSUME NEW ns \in Namespaces, DeleteList(ns)
      PROVE  GoneInv'
  BY <1>3, DeleteListGone, Zenon
<1>4. CASE Tick /\ UNCHANGED lifecycle
  <2>1. CASE Compacting
    BY <1>4, <2>1, CompactingGone, Zenon DEF lifecycle
  <2>2. CASE ~ Compacting
    <3>1. UNCHANGED <<wal, snapshot, view, appender, issued>>
      BY <1>4, <2>2, Zenon DEF Tick, list_namespace_names, RefreshLags, refresh_work_queue, RoundBegin, Pop, IndexRead,
         IndexPut, IndexCommit, IndexFails, Check, Requeue, compaction_pass, NextListed, TickFails, Goto, store
    <3>2. compaction' = compaction
      BY <1>4, <2>2, TickCompaction, Zenon DEF TypeOK
    <3> QED
      BY <1>0, <1>4, <3>1, <3>2, ViewGone, Zenon DEF lifecycle
  <2> QED
    BY <2>1, <2>2, Zenon
<1>5. CASE delete_namespace
  BY <1>5, DeleteObjectsGone, DeleteReturnsGone, Zenon DEF delete_namespace
<1>6. CASE \E ns \in Namespaces :
              \/ Wake(ns) /\ UNCHANGED lifecycle
              \/ \E source \in Namespaces : CloneList(ns, source)
  <2>1. UNCHANGED <<wal, snapshot, view, appender, compaction, issued, deletion, gone, orphaned>>
    BY <1>6, Zenon DEF Wake, CloneList, store, lifecycle
  <2> QED
    BY <1>0, <2>1, ViewGone, Zenon
<1>7. CASE list_namespaces
  <2>1. UNCHANGED <<wal, snapshot, view, appender, compaction, issued, deletion, gone, orphaned>>
    BY <1>7, Zenon DEF list_namespaces, store
  <2> QED
    BY <1>0, <2>1, ViewGone, Zenon
<1> QED
  BY <1>1, <1>2, <1>3, <1>4, <1>5, <1>6, <1>7, CopyGone, Zenon DEF Steps

(* A view and a cold load show nothing but what is held. *)
LEMMA GoneSuffices == GoneInv => NoResurrection
<1> SUFFICES ASSUME GoneInv, NEW ns \in Namespaces \ orphaned
             PROVE  view[ns].batches \cap gone[ns] = {} /\ Loaded(ns) \cap gone[ns] = {}
  BY Zenon DEF NoResurrection
<1>1. Held(ns) \cap gone[ns] = {}
  BY Zenon DEF GoneInv
<1>2. view[ns].batches \subseteq Held(ns)
  BY Zenon DEF Held
<1> QED
  BY <1>1, <1>2, LoadedHeld, Zenon


-----------------------------------------------------------------------------
(* What a copy has copied.                                                 *)

(* The log of the namespace stays as it is; it may be indexed when it is   *)
(* not being compacted.                                                    *)
Unmoved(n) ==
    /\ meta'[n].commit = meta[n].commit /\ meta'[n].snap = meta[n].snap /\ meta'[n].exists = meta[n].exists
    /\ meta'[n].cursor \in Nat /\ meta[n].cursor <= meta'[n].cursor /\ wal'[n] = wal[n] /\ snapshot'[n] = snapshot[n]
    /\ compaction'.ns = n => compaction' = compaction /\ meta'[n] = meta[n]

(* A compaction of the namespace goes on. *)
Compacts(n) ==
    /\ appender[n].pc \in {"idle", "apply"}
    /\ \/ CompactRead(n)
       \/ /\ compaction \in CompactionState /\ compaction.ns = n
          /\ CompactPut(n) \/ CompactSwap(n) \/ CompactDelete(n)

LEMMA UnmovedLoad ==
  ASSUME NEW n \in Namespaces, Unmoved(n)
  PROVE  (Sound(n)' <=> Sound(n)) /\ Loaded(n)' = Loaded(n) /\ (SnapshotNamed(n)' <=> SnapshotNamed(n))
<1>1. Base(n)' = Base(n)
  BY Zenon DEF Unmoved, Base
<1>2. Loadable(n)' <=> Loadable(n)
  BY <1>1, Zenon DEF Unmoved, Loadable, SegmentsThere
<1>3. Loaded(n)' = Loaded(n)
  BY <1>1, Zenon DEF Unmoved, Loaded, Replayed
<1>4. SnapshotNamed(n)' <=> SnapshotNamed(n)
  BY <1>1, Zenon DEF Unmoved, SnapshotNamed
<1> QED
  BY <1>2, <1>3, <1>4, Zenon DEF Sound

(* What a step of a compaction does, on the metadata that is there. *)
LEMMA CompactsSteps ==
  ASSUME StoreOK, CompactInv, NEW n \in Namespaces, Compacts(n), InStep(n)
  PROVE  LET c == compaction.m.cursor
         IN  \/ /\ CanCompact(n) /\ UNCHANGED <<meta[n], wal[n], snapshot[n]>> /\ compaction'.pc = "put"
                /\ compaction'.m = meta[n] /\ compaction'.ns = n /\ compaction'.batches = docs_at_index_cursor(n)
             \/ /\ compaction.ns = n /\ meta[n] = compaction.m /\ meta[n].snap < c /\ meta[n].commit = c
                /\ compaction.pc = "put" /\ UNCHANGED <<meta[n], wal[n]>>
                /\ snapshot'[n] = [seq |-> c, batches |-> compaction.batches]
                /\ compaction'.pc = "swap" /\ compaction'.m = meta[n] /\ compaction'.ns = n
             \/ /\ compaction.ns = n /\ meta[n] = compaction.m /\ meta[n].snap < c /\ meta[n].commit = c
                /\ compaction.pc = "swap" /\ snapshot[n].seq = c /\ UNCHANGED <<wal[n], snapshot[n]>>
                /\ meta'[n] = [meta[n] EXCEPT !.snap = c]
                /\ compaction'.pc = "delete" /\ compaction'.m = meta[n] /\ compaction'.ns = n
             \/ /\ compaction.ns = n /\ compaction.pc = "delete" /\ snapshot[n].seq = c /\ UNCHANGED <<meta[n], snapshot[n]>>
                /\ meta[n].commit = c /\ DOMAIN wal'[n] \subseteq DOMAIN wal[n] /\ compaction' = NoCompaction
<1>0. meta \in [Namespaces -> Meta] /\ DOMAIN wal = Namespaces /\ DOMAIN snapshot = Namespaces
  BY Zenon DEF StoreOK
<1>1. CASE CompactRead(n)
  BY <1>1, Zenon DEF CompactRead, store
<1>2. CASE compaction \in CompactionState /\ compaction.ns = n /\ CompactPut(n)
  <2>1. compaction.pc = "put" /\ meta[n] = compaction.m
    BY <1>2 DEF CompactPut, InStep
  <2>2. compaction.m.snap < compaction.m.cursor /\ compaction.m.commit = compaction.m.cursor
    BY <2>1, Zenon DEF CompactInv
  <2>3. /\ UNCHANGED <<meta, wal>> /\ snapshot'[n] = [seq |-> compaction.m.cursor, batches |-> compaction.batches]
        /\ compaction'.pc = "swap" /\ compaction'.m = compaction.m /\ compaction'.ns = n
    BY <1>0, <1>2, Zenon DEF CompactPut, CompactionState
  <2> QED
    BY <1>2, <2>1, <2>2, <2>3, Zenon
<1>3. CASE compaction \in CompactionState /\ compaction.ns = n /\ CompactSwap(n)
  <2>1. compaction.pc = "swap" /\ meta[n] = compaction.m /\ snapshot[n].seq = compaction.m.cursor
    BY <1>3 DEF CompactSwap, InStep
  <2>2. compaction.m.snap < compaction.m.cursor /\ compaction.m.commit = compaction.m.cursor
    BY <2>1, Zenon DEF CompactInv
  <2>3. /\ UNCHANGED <<wal, snapshot>> /\ meta'[n] = [meta[n] EXCEPT !.snap = compaction.m.cursor]
        /\ compaction'.pc = "delete" /\ compaction'.m = compaction.m /\ compaction'.ns = n
    BY <1>0, <1>3, <2>1, Zenon DEF CompactSwap, CompactionState
  <2> QED
    BY <1>3, <2>1, <2>2, <2>3, Zenon
<1>4. CASE compaction \in CompactionState /\ compaction.ns = n /\ CompactDelete(n)
  <2>1. /\ compaction.pc = "delete" /\ meta[n] = [compaction.m EXCEPT !.snap = compaction.m.cursor]
        /\ snapshot[n].seq = compaction.m.cursor
    BY <1>4 DEF CompactDelete, InStep
  <2>2. compaction.m.commit = compaction.m.cursor /\ compaction.m \in Meta
    BY <1>4, <2>1, Zenon DEF CompactInv, CompactionState
  <2>3. meta[n].commit = compaction.m.cursor
    BY <2>1, <2>2, Zenon DEF Meta
  <2>4. UNCHANGED <<meta, snapshot>> /\ compaction' = NoCompaction /\ DOMAIN wal'[n] \subseteq DOMAIN wal[n]
    BY <1>0, <1>4, Zenon DEF CompactDelete, Without
  <2> QED
    BY <1>4, <2>1, <2>3, <2>4, Zenon
<1> QED
  BY <1>1, <1>2, <1>3, <1>4, Zenon DEF Compacts

LEMMA InStepKept ==
  ASSUME StoreOK, CompactInv, NEW n \in Namespaces, InStep(n), Unmoved(n) \/ Compacts(n)
  PROVE  InStep(n)'
<1>1. CASE Unmoved(n)
  BY <1>1, Zenon DEF InStep, Unmoved
<1>2. CASE Compacts(n)
  <2>1. compaction' = NoCompaction => compaction'.ns # n
    BY StoreAssumption DEF NoCompaction
  <2>2. ASSUME compaction'.pc = "put", compaction'.m = meta[n], meta'[n] = meta[n]
        PROVE  InStep(n)'
    BY <2>2 DEF InStep
  <2>3. ASSUME compaction'.pc = "swap", compaction'.m = meta[n], meta'[n] = meta[n], meta[n] = compaction.m,
               snapshot'[n] = [seq |-> compaction.m.cursor, batches |-> compaction.batches]
        PROVE  InStep(n)'
    BY <2>3 DEF InStep
  <2>4. ASSUME compaction'.pc = "delete", compaction'.m = meta[n], meta'[n] = [meta[n] EXCEPT !.snap = compaction.m.cursor],
               meta[n] = compaction.m, snapshot[n].seq = compaction.m.cursor, snapshot'[n] = snapshot[n]
        PROVE  InStep(n)'
    BY <2>4 DEF InStep
  <2>5. compaction' = NoCompaction => InStep(n)'
    BY <2>1, Zenon DEF InStep
  <2> QED
    BY <1>2, <2>2, <2>3, <2>4, <2>5, CompactsSteps, Zenon
<1> QED
  BY <1>1, <1>2, Zenon

(* Compaction leaves what is under wal/. *)
LEMMA HoldsKept ==
  ASSUME StoreOK, OrderInv, CompactInv, NEW n \in Namespaces, InStep(n), Unmoved(n) \/ Compacts(n),
         NEW B, Holds(n, B)
  PROVE  Holds(n, B)'
<1> DEFINE c == compaction.m.cursor
<1>0. /\ meta[n] \in Meta /\ meta[n].cursor \in Nat /\ meta[n].commit \in Nat /\ meta[n].snap \in Nat
      /\ snapshot[n].seq \in Nat /\ meta[n].cursor <= meta[n].commit
  BY Zenon DEF StoreOK, Meta, OrderInv, Ordered
<1>1. CASE Unmoved(n)
  <2>1. snapshot'[n].seq <= meta'[n].cursor
    <3>1. /\ snapshot[n].seq <= meta[n].cursor /\ meta[n].cursor <= meta'[n].cursor /\ meta'[n].cursor \in Nat
          /\ snapshot'[n] = snapshot[n]
      BY <1>1, Zenon DEF Holds, Unmoved
    <3> QED
      BY <1>0, <3>1
  <2>2. (SegmentsThere(n, snapshot[n].seq + 1, meta[n].commit)
         /\ snapshot[n].batches \cup Replayed(n, snapshot[n].seq + 1, meta[n].commit) = B)'
    BY <1>1, Zenon DEF Holds, Unmoved, SegmentsThere, Replayed
  <2>3. compaction'.ns = n /\ compaction'.pc = "put" => compaction'.batches = B
    BY <1>1, Zenon DEF Holds, Unmoved
  <2> QED
    BY <2>1, <2>2, <2>3, Zenon DEF Holds
<1>2. ASSUME CanCompact(n), UNCHANGED <<meta[n], wal[n], snapshot[n]>>, compaction'.batches = docs_at_index_cursor(n)
      PROVE  Holds(n, B)'
  <2>1. OldSnapshot(n) = snapshot[n]
    BY Zenon DEF OldSnapshot, Holds
  <2>2. meta[n].cursor = meta[n].commit
    BY <1>0, <1>2 DEF CanCompact, needs_wal_compaction
  <2>3. docs_at_index_cursor(n) = B
    BY <2>1, <2>2, Zenon DEF docs_at_index_cursor, Holds
  <2> QED
    BY <1>2, <2>3, Zenon DEF Holds, SegmentsThere, Replayed
<1>3. ASSUME snapshot'[n].seq = c, snapshot'[n].batches = B, meta'[n].commit = c, meta'[n].cursor = c, c \in Nat,
             compaction'.pc # "put"
      PROVE  Holds(n, B)'
  <2>1. (c + 1)..c = {} /\ c <= c
    BY <1>3
  <2>2. (SegmentsThere(n, snapshot[n].seq + 1, meta[n].commit) /\ Replayed(n, snapshot[n].seq + 1, meta[n].commit) = {})'
    BY <1>3, <2>1, Zenon DEF SegmentsThere, Replayed
  <2> QED
    BY <1>3, <2>1, <2>2, Zenon DEF Holds
<1>4. ASSUME snapshot[n].seq = meta[n].commit
      PROVE  snapshot[n].batches = B
  <2>1. (meta[n].commit + 1)..meta[n].commit = {}
    BY <1>0
  <2> QED
    BY <1>4, <2>1, Zenon DEF Holds, Replayed
<1>5. CASE Compacts(n)
  <2>1. ASSUME compaction.ns = n, meta[n] = compaction.m, meta[n].commit = c, compaction.pc = "put", meta'[n] = meta[n],
               snapshot'[n] = [seq |-> c, batches |-> compaction.batches], compaction'.pc = "swap"
        PROVE  Holds(n, B)'
    <3>1. compaction.batches = B
      BY <2>1, Zenon DEF Holds
    <3>2. snapshot'[n].seq = c /\ snapshot'[n].batches = B /\ meta'[n].commit = c /\ meta'[n].cursor = c /\ c \in Nat
      BY <1>0, <2>1, <3>1
    <3>3. compaction'.pc # "put"
      BY <2>1
    <3> QED
      BY <1>3, <3>2, <3>3, Zenon
  <2>2. ASSUME meta[n] = compaction.m, meta[n].commit = c, snapshot[n].seq = c, snapshot'[n] = snapshot[n],
               meta'[n] = [meta[n] EXCEPT !.snap = c], compaction'.pc = "delete"
        PROVE  Holds(n, B)'
    <3>1. snapshot'[n].seq = c /\ snapshot'[n].batches = B
      BY <1>4, <2>2, Zenon
    <3>2. meta'[n].commit = c /\ meta'[n].cursor = c /\ c \in Nat
      BY <1>0, <2>2, Zenon DEF Meta
    <3>3. compaction'.pc # "put"
      BY <2>2
    <3> QED
      BY <1>3, <3>1, <3>2, <3>3, Zenon
  <2>3. ASSUME compaction.ns = n, compaction.pc = "delete", meta[n].commit = c, snapshot[n].seq = c,
               UNCHANGED <<meta[n], snapshot[n]>>, compaction' = NoCompaction
        PROVE  Holds(n, B)'
    <3>1. snapshot'[n].seq = c /\ snapshot'[n].batches = B /\ meta'[n].commit = c
      BY <1>4, <2>3, Zenon
    <3>2. meta'[n].cursor = c /\ c \in Nat
      <4>1. snapshot[n].seq <= meta[n].cursor
        BY Zenon DEF Holds
      <4> QED
        BY <1>0, <2>3, <4>1
    <3>3. compaction'.pc # "put"
      BY <2>3 DEF NoCompaction
    <3> QED
      BY <1>3, <3>1, <3>2, <3>3, Zenon
  <2> HIDE DEF c
  <2> QED
    BY <1>2, <1>5, <2>1, <2>2, <2>3, CompactsSteps, Zenon DEF c
<1> QED
  BY <1>1, <1>5, Zenon

(* A source that is being compacted: its snapshot is not the one that      *)
(* meta.json names, or meta.json is not the one that was copied.           *)
LEMMA SourceCompacts ==
  ASSUME StoreOK, CompactInv, NEW n \in Namespaces, InStep(n), Compacts(n)
  PROVE  /\ meta'[n].commit = meta[n].commit /\ meta'[n].exists = meta[n].exists /\ meta'[n].snap >= meta[n].snap
         /\ \/ UNCHANGED <<meta[n], wal[n], snapshot[n]>> /\ compaction'.pc = "put"
            \/ UNCHANGED <<meta[n], wal[n]>> /\ ~ SnapshotNamed(n)' /\ compaction'.pc = "swap"
            \/ meta'[n].snap > meta[n].snap
            \/ compaction.ns = n /\ compaction.pc = "delete" /\ meta'[n] = meta[n]
<1>0. meta[n] \in Meta /\ meta[n].snap \in Nat /\ meta[n].cursor \in Nat
  BY Zenon DEF StoreOK, Meta
<1>1. ASSUME meta[n] = compaction.m, meta[n].snap < compaction.m.cursor, meta'[n] = meta[n],
             snapshot'[n] = [seq |-> compaction.m.cursor, batches |-> compaction.batches]
      PROVE  ~ SnapshotNamed(n)'
  <2>1. snapshot'[n].seq # meta'[n].snap /\ snapshot'[n].seq # 0
    BY <1>0, <1>1
  <2>2. snapshot'[n] # NoSnapshot
    BY <2>1 DEF NoSnapshot
  <2> QED
    BY <2>1, <2>2, Zenon DEF SnapshotNamed, Base
<1>2. ASSUME meta[n] = compaction.m, meta[n].snap < compaction.m.cursor, meta'[n] = [meta[n] EXCEPT !.snap = compaction.m.cursor]
      PROVE  meta'[n].commit = meta[n].commit /\ meta'[n].exists = meta[n].exists /\ meta'[n].snap > meta[n].snap
             /\ meta'[n].snap >= meta[n].snap
  <2>1. meta'[n].commit = meta[n].commit /\ meta'[n].exists = meta[n].exists /\ meta'[n].snap = compaction.m.cursor
    BY <1>0, <1>2, Zenon DEF Meta
  <2> QED
    BY <1>0, <1>2, <2>1
<1>3. meta'[n] = meta[n] => meta'[n].commit = meta[n].commit /\ meta'[n].exists = meta[n].exists /\ meta'[n].snap >= meta[n].snap
  BY <1>0
<1> QED
  BY <1>1, <1>2, <1>3, CompactsSteps, Zenon

(* Around a copy that nobody disturbs, its source and its destination are  *)
(* left alone, indexed or compacted.                                       *)
LEMMA CopyInvKept ==
  ASSUME StoreOK, OrderInv, CompactInv,
         NEW pc \in {"index", "meta", "wal", "forget"}, NEW d \in Namespaces, NEW s \in Namespaces,
         NEW m \in Meta, NEW keys, CopyInv(pc, d, s, m, keys),
         \A n \in {d, s} : Unmoved(n) \/ Compacts(n)
  PROVE  CopyInv(pc, d, s, m, keys)'
<1>0. InStep(s) /\ InStep(d) /\ InStep(s)' /\ InStep(d)'
  BY InStepKept, Zenon DEF CopyInv
<1>1. /\ meta[s].snap \in Nat /\ m.snap \in Nat /\ meta[s].commit = m.commit /\ meta[s].snap >= m.snap
  BY Zenon DEF StoreOK, Meta, CopyInv
<1>2. /\ meta'[s].commit = meta[s].commit /\ meta'[s].snap >= meta[s].snap
      /\ meta'[d].commit = meta[d].commit /\ meta'[d].exists = meta[d].exists
  <2>1. Unmoved(s) => meta'[s].commit = meta[s].commit /\ meta'[s].snap >= meta[s].snap
    BY <1>1 DEF Unmoved
  <2>2. Unmoved(d) => meta'[d].commit = meta[d].commit /\ meta'[d].exists = meta[d].exists
    BY Zenon DEF Unmoved
  <2> QED
    BY <1>0, <2>1, <2>2, SourceCompacts, Zenon
<1>3. meta'[s].commit = m.commit /\ meta'[s].snap >= m.snap /\ (meta'[s].snap = m.snap => meta[s].snap = m.snap)
  <2>1. meta'[s].snap \in Nat
    <3>1. Compacts(s) => meta' = meta \/ meta'[s] = [meta[s] EXCEPT !.snap = compaction.m.cursor]
      BY Zenon DEF Compacts, CompactRead, CompactPut, CompactSwap, CompactDelete, store, StoreOK
    <3>2. Compacts(s) /\ meta'[s] # meta[s] => compaction.m.cursor \in Nat
      BY Zenon DEF Compacts, CompactRead, store, CompactionState, Meta
    <3> QED
      BY <1>1, <3>1, <3>2, Zenon DEF Unmoved, StoreOK, Meta
  <2> QED
    BY <1>1, <1>2, <2>1
<1>4. ASSUME meta'[s].snap = m.snap
      PROVE  /\ DOMAIN wal'[s] = keys.wal /\ ~ (compaction'.ns = s /\ compaction'.pc = "delete")
             /\ SnapshotNamed(s)' => SnapshotNamed(s) /\ snapshot'[s] = snapshot[s]
             /\ Sound(s)' => Sound(s) /\ Loaded(s)' = Loaded(s)
  <2>1. meta[s].snap = m.snap /\ DOMAIN wal[s] = keys.wal /\ ~ (compaction.ns = s /\ compaction.pc = "delete")
    BY <1>3, <1>4, Zenon DEF CopyInv
  <2>2. CASE Unmoved(s)
    BY <2>1, <2>2, UnmovedLoad, Zenon DEF Unmoved
  <2>3. ASSUME UNCHANGED <<meta[s], wal[s], snapshot[s]>>, compaction'.pc = "put"
        PROVE  /\ DOMAIN wal'[s] = keys.wal /\ ~ (compaction'.ns = s /\ compaction'.pc = "delete")
               /\ SnapshotNamed(s)' => SnapshotNamed(s) /\ snapshot'[s] = snapshot[s]
               /\ Sound(s)' => Sound(s) /\ Loaded(s)' = Loaded(s)
    <3>1. Base(s)' = Base(s)
      BY <2>3, Zenon DEF Base
    <3>2. Loaded(s)' = Loaded(s) /\ (Loadable(s)' <=> Loadable(s)) /\ (SnapshotNamed(s)' <=> SnapshotNamed(s))
      BY <2>3, <3>1, Zenon DEF Loaded, Replayed, Loadable, SegmentsThere, SnapshotNamed
    <3>3. compaction'.pc # "delete"
      BY <2>3
    <3> QED
      BY <2>1, <2>3, <3>2, <3>3, Zenon DEF Sound
  <2>4. ASSUME UNCHANGED <<meta[s], wal[s]>>, ~ SnapshotNamed(s)', compaction'.pc = "swap"
        PROVE  /\ DOMAIN wal'[s] = keys.wal /\ ~ (compaction'.ns = s /\ compaction'.pc = "delete")
               /\ ~ Sound(s)'
    <3>1. compaction'.pc # "delete"
      BY <2>4
    <3> QED
      BY <2>1, <2>4, <3>1, Zenon DEF Sound
  <2>5. ~ (meta'[s].snap > meta[s].snap)
    BY <1>1, <1>4, <2>1
  <2> QED
    BY <1>0, <2>1, <2>2, <2>3, <2>4, <2>5, SourceCompacts, Zenon
<1>5. ASSUME pc # "forget"
      PROVE  Unmoved(d) /\ compaction'.ns # d
  <2>1. compaction.ns # d /\ DOMAIN wal[d] = {} /\ snapshot[d] = NoSnapshot
    BY <1>5, Zenon DEF CopyInv
  <2>2. ~ CanCompact(d)
    <3> SUFFICES ASSUME CanCompact(d)
                 PROVE  FALSE
      OBVIOUS
    <3>1. meta[d].cursor \in Nat /\ WAL_COMPACT_KEEP \in Nat
      BY StoreAssumption, Zenon DEF StoreOK, Meta
    <3>2. WAL_COMPACT_KEEP < meta[d].cursor
      BY Zenon DEF CanCompact, needs_wal_compaction
    <3>3. 1..meta[d].cursor \subseteq {}
      BY <2>1 DEF CanCompact, SegmentsThere, OldSnapshot, NoSnapshot
    <3>4. 1 \in 1..meta[d].cursor
      BY <3>1, <3>2
    <3> QED
      BY <3>3, <3>4, Zenon
  <2>3. ~ Compacts(d)
    BY <2>1, <2>2, Zenon DEF Compacts, CompactRead
  <2> QED
    BY <2>1, <2>3, Zenon DEF Unmoved
<1>6. ASSUME pc = "forget", meta'[s].snap = m.snap, Sound(s)'
      PROVE  Holds(d, Loaded(s))'
  <2>1. PICK B : B = Loaded(s) /\ B = Loaded(s)' /\ Sound(s) /\ meta[s].snap = m.snap
    BY <1>3, <1>4, <1>6, Zenon
  <2>2. Holds(d, B)
    BY <1>6, <2>1, Zenon DEF CopyInv
  <2>3. Holds(d, B)'
    BY <1>0, <2>2, HoldsKept, Zenon
  <2> QED
    BY <2>1, <2>3, Zenon DEF Holds
<1>7. meta'[s].snap = m.snap /\ SnapshotNamed(s)' => (keys.snapshot <=> snapshot'[s] # NoSnapshot)
  BY <1>3, <1>4, Zenon DEF CopyInv
<1>8. pc # "forget" => DOMAIN wal'[d] = {} /\ snapshot'[d] = NoSnapshot /\ compaction'.ns # d
  BY <1>5, Zenon DEF CopyInv, Unmoved
<1>9. IF pc \in {"index", "meta"} THEN ~ meta'[d].exists ELSE meta'[d].exists /\ meta'[d].commit = m.commit
  BY <1>2, Zenon DEF CopyInv
<1>10. pc = "wal" => meta'[d].snap = m.snap
  BY <1>5, Zenon DEF CopyInv, Unmoved
<1> QED
  BY <1>0, <1>3, <1>4, <1>6, <1>7, <1>8, <1>9, <1>10, Zenon DEF CopyInv

Around ==
    /\ deletion' = NoDeletion
    /\ \A n \in {clone.dest, clone.source} :
          appender'[n].pc \in {"idle", "apply"} /\ (Unmoved(n) \/ Compacts(n))

LEMMA AroundClone ==
  ASSUME TypeOK, OrderInv, CompactInv, CloneInv, UNCHANGED clone,
         issued' \in Nat, issued <= issued', budget'.delete \in Nat, budget'.delete <= budget.delete,
         Steady /\ issued' = issued /\ budget'.delete = budget.delete => Around
  PROVE  CloneInv'
<1>1. CASE clone = NoClone
  BY <1>1, Zenon DEF CloneInv, Steady
<1>2. CASE clone # NoClone
  <2>1. /\ clone \in CloneState /\ clone.dest \in Namespaces /\ clone.source \in Namespaces /\ clone.m \in Meta
        /\ clone.pc \in {"index", "meta", "wal", "forget"} /\ clone.then \in Nat /\ clone.deletes \in Nat
        /\ issued \in Nat /\ budget.delete \in Nat
    BY <1>2, Zenon DEF TypeOK, LifecycleOK, CloneState, CallsOK, Allowance
  <2>2. /\ clone.then <= issued /\ budget.delete <= clone.deletes
        /\ clone.dest # clone.source /\ clone.keys.meta = clone.m.exists
    BY <1>2, Zenon DEF CloneInv
  <2>3. clone.then <= issued' /\ budget'.delete <= clone.deletes
    BY <2>1, <2>2
  <2>4. Steady' => Steady /\ Around
    <3>1. Steady' => clone.then = issued' /\ clone.deletes = budget'.delete /\ clone.steady
      BY Zenon DEF Steady
    <3>2. Steady' => issued' = issued /\ budget'.delete = budget.delete
      BY <2>1, <2>2, <3>1
    <3> QED
      BY <1>2, <3>1, <3>2, Zenon DEF Steady
  <2>5. Steady' => deletion' = NoDeletion /\ NotAppending({clone.dest, clone.source})'
    BY <2>4, Zenon DEF Around, NotAppending
  <2>6. Steady' /\ clone.m.exists => CopyInv(clone.pc, clone.dest, clone.source, clone.m, clone.keys)'
    <3> SUFFICES ASSUME Steady', clone.m.exists
                 PROVE  CopyInv(clone.pc, clone.dest, clone.source, clone.m, clone.keys)'
      OBVIOUS
    <3>1. PICK pc \in {"index", "meta", "wal", "forget"}, d \in Namespaces, s \in Namespaces, m \in Meta, keys \in {clone.keys} :
             pc = clone.pc /\ d = clone.dest /\ s = clone.source /\ m = clone.m /\ keys = clone.keys
      BY <2>1, Zenon
    <3>2. CopyInv(pc, d, s, m, keys)
      BY <2>4, <3>1, Zenon DEF CloneInv
    <3>3. \A n \in {d, s} : Unmoved(n) \/ Compacts(n)
      BY <2>4, <3>1, Zenon DEF Around
    <3>4. StoreOK
      BY Zenon DEF TypeOK
    <3>5. CopyInv(pc, d, s, m, keys)'
      BY <3>2, <3>3, <3>4, CopyInvKept, Zenon
    <3> QED
      BY <3>1, <3>5, Zenon
  <2> QED
    BY <2>2, <2>3, <2>5, <2>6, Zenon DEF CloneInv
<1> QED
  BY <1>1, <1>2, Zenon


LEMMA WriteAround ==
  ASSUME TypeOK, CloneInv, Steady, NEW ns \in Namespaces, Write(ns), issued' = issued
  PROVE  Around
<1>1. deletion' = NoDeletion
  BY Zenon DEF Write, CloneInv
<1>2. \A n \in {clone.dest, clone.source} : n \in Namespaces /\ appender[n].pc \in {"idle", "apply"}
  BY Zenon DEF TypeOK, LifecycleOK, CloneState, Steady, CloneInv, NotAppending
<1>3. ~ AppendRead(ns)
  BY DEF AppendRead, TypeOK, CallsOK
<1>4. ASSUME NEW n \in {clone.dest, clone.source}
      PROVE  appender'[n].pc \in {"idle", "apply"} /\ Unmoved(n)
  <2>1. CASE n = ns
    <3>1. AppendApply(ns)
      BY <1>2, <1>3, <2>1, Zenon DEF Write, Append_, AppendPut, AppendSwap
    <3>2. UNCHANGED <<meta, wal, snapshot, compaction>> /\ meta[n].cursor <= meta[n].cursor /\ meta[n].cursor \in Nat
      BY <1>2, <3>1 DEF AppendApply, store, Write, Append_, TypeOK, StoreOK, Meta
    <3>3. appender'[n].pc = "idle"
      BY <1>2, <2>1, <3>1 DEF AppendApply, Idle, TypeOK, CallsOK
    <3> QED
      BY <3>2, <3>3, Zenon DEF Unmoved
  <2>2. CASE n # ns
    <3>1. meta'[n] = meta[n] /\ wal'[n] = wal[n] /\ snapshot'[n] = snapshot[n] /\ appender'[n] = appender[n]
      BY <1>2, <1>3, <2>2 DEF Write, Append_, AppendPut, put_wal, AppendSwap, AppendApply, store, TypeOK, StoreOK, CallsOK
    <3>2. compaction' = compaction /\ meta[n].cursor <= meta[n].cursor /\ meta[n].cursor \in Nat
      BY <1>2 DEF Write, Append_, TypeOK, StoreOK, Meta
    <3> QED
      BY <1>2, <3>1, <3>2, Zenon DEF Unmoved
  <2> QED
    BY <2>1, <2>2, Zenon
<1> QED
  BY <1>1, <1>4, Zenon DEF Around

LEMMA TickAround ==
  ASSUME TypeOK, CloneInv, Steady, Tick, UNCHANGED lifecycle
  PROVE  Around
<1>1. deletion' = NoDeletion /\ appender' = appender
  BY Zenon DEF CloneInv, lifecycle, Tick, list_namespace_names, RefreshLags, refresh_work_queue, RoundBegin, Pop, IndexRead,
     IndexPut, IndexCommit, IndexFails, Compacting, maybe_compact_wal, CompactFails, Check, Requeue, compaction_pass, NextListed,
     TickFails, Goto
<1>2. \A n \in {clone.dest, clone.source} : n \in Namespaces /\ appender[n].pc \in {"idle", "apply"}
  BY Zenon DEF TypeOK, LifecycleOK, CloneState, Steady, CloneInv, NotAppending
<1>3. ASSUME NEW n \in Namespaces, appender[n].pc \in {"idle", "apply"}
      PROVE  Unmoved(n) \/ Compacts(n)
  <2>0. /\ meta \in [Namespaces -> Meta] /\ meta[n] \in Meta /\ meta[n].cursor \in Nat
        /\ DOMAIN wal = Namespaces /\ DOMAIN snapshot = Namespaces /\ n # NoNamespace
    BY StoreAssumption, Zenon DEF TypeOK, StoreOK, Meta
  <2>1. ASSUME UNCHANGED <<meta[n], wal[n], snapshot[n]>>, compaction' = compaction \/ compaction'.ns # n
        PROVE  Unmoved(n)
    <3>1. meta[n].cursor <= meta[n].cursor
      BY <2>0
    <3> QED
      BY <2>0, <2>1, <3>1, Zenon DEF Unmoved
  <2>2. CASE Compacting
    <3>1. CASE CompactFails \/ CompactSkip(tick.ns)
      <4>1. UNCHANGED <<meta, wal, snapshot>> /\ compaction'.ns = NoNamespace
        <5>1. UNCHANGED <<meta, wal, snapshot>> /\ compaction' = NoCompaction
          BY <3>1, Zenon DEF CompactFails, CompactSkip, store
        <5> QED
          BY <5>1 DEF NoCompaction
      <4> QED
        BY <2>0, <2>1, <4>1, Zenon
    <3>2. ASSUME \/ CompactRead(tick.ns)
                 \/ /\ compaction \in CompactionState /\ compaction.ns = tick.ns
                    /\ CompactPut(tick.ns) \/ CompactSwap(tick.ns) \/ CompactDelete(tick.ns)
          PROVE  Unmoved(n) \/ Compacts(n)
      <4>1. CASE n = tick.ns
        BY <1>3, <3>2, <4>1, Zenon DEF Compacts
      <4>2. CASE n # tick.ns
        <5>1. meta'[n] = meta[n] /\ wal'[n] = wal[n] /\ snapshot'[n] = snapshot[n]
          BY <2>0, <3>2, <4>2, Zenon DEF CompactRead, CompactPut, CompactSwap, CompactDelete, store
        <5>2. compaction'.ns \in {tick.ns, NoNamespace}
          <6>1. CASE CompactRead(tick.ns)
            BY <6>1 DEF CompactRead
          <6>2. CASE compaction \in CompactionState /\ compaction.ns = tick.ns /\ CompactPut(tick.ns)
            BY <6>2, Zenon DEF CompactPut, CompactionState
          <6>3. CASE compaction \in CompactionState /\ compaction.ns = tick.ns /\ CompactSwap(tick.ns)
            <7>1. compaction' = NoCompaction \/ \E pc : compaction' = [compaction EXCEPT !.pc = pc]
              BY <6>3, Zenon DEF CompactSwap
            <7> QED
              BY <6>3, <7>1 DEF CompactionState, NoCompaction
          <6>4. CASE CompactDelete(tick.ns)
            BY <6>4 DEF CompactDelete, NoCompaction
          <6> QED
            BY <3>2, <6>1, <6>2, <6>3, <6>4, Zenon
        <5> QED
          BY <2>0, <2>1, <4>2, <5>1, <5>2, Zenon
      <4> QED
        BY <4>1, <4>2, Zenon
    <3> QED
      BY <2>2, <3>1, <3>2, CompactingCases, Zenon
  <2>3. CASE IndexCommit
    <3>1. wal' = wal /\ snapshot' = snapshot
          /\ \/ meta' = meta
             \/ /\ meta' = [meta EXCEPT ![tick.ns] = meta_after_index_commit(meta[tick.ns], tick.to)]
                /\ meta[tick.ns].cursor < tick.to
      BY <2>3, Zenon DEF IndexCommit
    <3>2. compaction' = NoCompaction
      <4>1. ~ Compacting
        BY <2>3 DEF IndexCommit, Compacting
      <4> QED
        BY <4>1, TickCompaction, Zenon DEF TypeOK
    <3>3. compaction'.ns # n
      BY <2>0, <3>2, Zenon DEF NoCompaction
    <3>4. meta'[n] = meta[n] \/ (meta'[n] = meta_after_index_commit(meta[n], tick.to) /\ meta[n].cursor < tick.to)
      BY <2>0, <3>1, Zenon
    <3>5. ASSUME meta'[n] = meta_after_index_commit(meta[n], tick.to), meta[n].cursor < tick.to
          PROVE  Unmoved(n)
      <4>1. tick.to \in Nat
        BY Zenon DEF TypeOK, TickOK, TickState
      <4>2. /\ meta'[n].commit = meta[n].commit /\ meta'[n].snap = meta[n].snap /\ meta'[n].exists = meta[n].exists
            /\ meta'[n].cursor = tick.to
        BY <2>0, <3>5, <4>1, Zenon DEF meta_after_index_commit, Meta
      <4>3. meta'[n].cursor \in Nat /\ meta[n].cursor <= meta'[n].cursor
        BY <2>0, <3>5, <4>1, <4>2
      <4> QED
        BY <3>1, <3>3, <4>2, <4>3, Zenon DEF Unmoved
    <3> QED
      BY <2>1, <3>1, <3>3, <3>4, <3>5, Zenon
  <2>4. CASE ~ (Compacting \/ IndexCommit)
    <3>1. UNCHANGED <<meta, wal, snapshot>>
      BY <2>4, Zenon DEF Tick, list_namespace_names, RefreshLags, refresh_work_queue, RoundBegin, Pop, IndexRead,
         IndexPut, IndexFails, Check, Requeue, compaction_pass, NextListed, TickFails, Goto, store
    <3>2. compaction' = compaction
      BY <2>4, TickCompaction, Zenon DEF TypeOK
    <3> QED
      BY <2>1, <3>1, <3>2, Zenon
  <2> QED
    BY <2>2, <2>3, <2>4, Zenon
<1> QED
  BY <1>1, <1>2, <1>3, Zenon DEF Around

(* The objects and the appends stay as they are. *)
LEMMA QuietAround ==
  ASSUME TypeOK, CloneInv, Steady, UNCHANGED <<meta, wal, snapshot, appender, compaction, deletion>>
  PROVE  Around
<1>1. /\ deletion = NoDeletion
      /\ \A n \in {clone.dest, clone.source} : n \in Namespaces /\ appender[n].pc \in {"idle", "apply"}
  BY Zenon DEF CloneInv, NotAppending, TypeOK, LifecycleOK, CloneState, Steady
<1>2. \A n \in Namespaces : meta[n].cursor <= meta[n].cursor /\ meta[n].cursor \in Nat
  BY DEF TypeOK, StoreOK, Meta
<1>3. \A n \in Namespaces : Unmoved(n)
  BY <1>2, Zenon DEF Unmoved
<1> QED
  BY <1>1, <1>3, Zenon DEF Around

LEMMA CloneListClone ==
  ASSUME TypeOK, NEW dest \in Namespaces, NEW source \in Namespaces, CloneList(dest, source)
  PROVE  CloneInv'
<1>1. /\ clone' # NoClone /\ clone'.pc = "index" /\ clone'.dest = dest /\ clone'.source = source /\ clone'.keys = Keys(source)
      /\ clone'.m = meta[source] /\ clone'.then = issued /\ clone'.deletes = budget.delete
      /\ clone'.steady = (deletion = NoDeletion /\ NotAppending({dest, source}) /\ compaction.ns \notin {dest, source})
  BY Zenon DEF CloneList, NoClone
<1>2. UNCHANGED <<meta, wal, snapshot, issued, appender, compaction, deletion>> /\ dest # source /\ ~ namespace_exists(dest)
  BY Zenon DEF CloneList, store
<1>3. budget'.delete = budget.delete
  BY Zenon DEF CloneList, Count, TypeOK, CallsOK, Allowance
<1>4. issued \in Nat /\ budget.delete \in Nat /\ meta[source].snap \in Nat
  BY Zenon DEF TypeOK, CallsOK, Allowance, StoreOK, Meta
<1>5. PICK m, keys : m = meta[source] /\ keys = Keys(source)
  OBVIOUS
<1>6. keys.wal = DOMAIN wal[source] /\ (keys.snapshot <=> snapshot[source] # NoSnapshot) /\ keys.meta = m.exists
  BY <1>5, Zenon DEF Keys
<1>7. DOMAIN wal[dest] = {} /\ snapshot[dest] = NoSnapshot /\ ~ meta[dest].exists
  BY <1>2, Zenon DEF namespace_exists
<1>8. compaction.ns \notin {dest, source} => CopyInv("index", dest, source, m, keys)'
  BY <1>2, <1>4, <1>5, <1>6, <1>7 DEF CopyInv, InStep
<1>9. Steady' => CopyInv(clone.pc, clone.dest, clone.source, clone.m, clone.keys)'
  BY <1>1, <1>5, <1>8, Zenon DEF Steady
<1>10. Steady' => (deletion = NoDeletion /\ NotAppending({clone.dest, clone.source}))'
  BY <1>1, <1>2, Zenon DEF Steady, NotAppending
<1>11. (/\ clone.then <= issued /\ budget.delete <= clone.deletes
        /\ clone.dest # clone.source /\ clone.keys.meta = clone.m.exists)'
  BY <1>1, <1>2, <1>3, <1>4, <1>5, <1>6
<1> QED
  BY <1>9, <1>10, <1>11, Zenon DEF CloneInv


LEMMA CopyingSteady ==
  ASSUME TypeOK, CloneInv, clone.pc \in {"index", "meta", "wal"}, NEW pc \in {"meta", "wal", "forget"}, Copying(pc),
         UNCHANGED <<issued, budget>>
  PROVE  /\ clone' # NoClone /\ clone'.pc = pc /\ UNCHANGED <<clone.dest, clone.source, clone.keys, clone.m, clone.then, clone.deletes>>
         /\ clone # NoClone /\ clone.dest \in Namespaces /\ clone.source \in Namespaces /\ clone.m \in Meta
         /\ Steady' => Steady /\ meta[clone.source] = clone.m
<1>1. clone \in CloneState /\ clone # NoClone
  BY CloneFields, Zenon DEF TypeOK, CloneState, NoClone
<1>2. /\ clone'.pc = pc /\ clone'.dest = clone.dest /\ clone'.source = clone.source /\ clone'.keys = clone.keys
      /\ clone'.m = clone.m /\ clone'.then = clone.then /\ clone'.deletes = clone.deletes
      /\ clone'.steady = (clone.steady /\ Undisturbed)
  BY <1>1, Zenon DEF Copying, CloneState
<1>3. clone.dest \in Namespaces /\ clone.source \in Namespaces /\ clone.m \in Meta
  BY <1>1, Zenon DEF CloneState
<1>4. clone' # NoClone
  BY <1>2 DEF NoClone
<1>5. Steady' => Steady /\ meta[clone.source] = clone.m
  BY <1>1, <1>2, Zenon DEF Steady, Undisturbed
<1> QED
  BY <1>1, <1>2, <1>3, <1>4, <1>5, Zenon

(* A group of objects is copied: what is left to show. *)
LEMMA CopyingClone ==
  ASSUME TypeOK, CloneInv, clone.pc \in {"index", "meta", "wal"}, NEW pc \in {"meta", "wal", "forget"}, Copying(pc),
         UNCHANGED <<issued, budget, appender>>, deletion = NoDeletion => deletion' = NoDeletion,
         \A d, s \in Namespaces, m \in Meta, keys \in {clone.keys} :
            /\ d = clone.dest /\ s = clone.source /\ m = clone.m /\ keys = clone.keys
            /\ d # s /\ m.exists /\ keys.meta /\ meta[s] = m /\ CopyInv(clone.pc, d, s, m, keys)
            => CopyInv(pc, d, s, m, keys)'
  PROVE  CloneInv'
<1>1. PICK d \in Namespaces, s \in Namespaces, m \in Meta, keys \in {clone.keys} :
         d = clone.dest /\ s = clone.source /\ m = clone.m /\ keys = clone.keys
  BY CopyingSteady, Zenon
<1>2. clone'.pc = pc /\ clone'.dest = d /\ clone'.source = s /\ clone'.m = m /\ clone'.keys = keys
      /\ clone'.then = clone.then /\ clone'.deletes = clone.deletes
      /\ clone # NoClone
  BY <1>1, CopyingSteady, Zenon
<1>3. clone.then <= issued /\ budget.delete <= clone.deletes /\ d # s /\ keys.meta = m.exists
  BY <1>1, <1>2, Zenon DEF CloneInv
<1>4. Steady' => Steady /\ meta[s] = m
  BY <1>1, CopyingSteady, Zenon
<1>5. Steady => deletion = NoDeletion /\ NotAppending({d, s})
  BY <1>1, Zenon DEF CloneInv
<1>6. Steady' => deletion' = NoDeletion /\ NotAppending({clone.dest, clone.source})'
  BY <1>2, <1>4, <1>5, Zenon DEF NotAppending
<1>7. Steady' /\ m.exists => CopyInv(pc, d, s, m, keys)'
  <2>1. Steady /\ m.exists => CopyInv(clone.pc, d, s, m, keys)
    BY <1>1, Zenon DEF CloneInv
  <2> QED
    BY <1>1, <1>3, <1>4, <2>1, Zenon
<1>8. Steady' /\ clone'.m.exists => CopyInv(clone.pc, clone.dest, clone.source, clone.m, clone.keys)'
  BY <1>2, <1>7, Zenon
<1>9. (/\ clone.then <= issued /\ budget.delete <= clone.deletes
       /\ clone.dest # clone.source /\ clone.keys.meta = clone.m.exists)'
  BY <1>2, <1>3, Zenon
<1> QED
  BY <1>6, <1>8, <1>9, Zenon DEF CloneInv

LEMMA CopyIndexClone ==
  ASSUME TypeOK, CloneInv, CopyIndex, UNCHANGED <<issued, budget, appender, compaction>>
  PROVE  CloneInv'
<1>1. CASE clone' = NoClone
  BY <1>1, Zenon DEF CloneInv, Steady
<1>2. CASE clone' # NoClone
  <2>1. Copying("meta") /\ UNCHANGED <<meta, wal, snapshot, deletion>> /\ clone.pc = "index"
    BY <1>2, Zenon DEF CopyIndex, CopyFails
  <2>2. ASSUME NEW d, NEW s, NEW m, NEW keys, CopyInv("index", d, s, m, keys)
        PROVE  CopyInv("meta", d, s, m, keys)'
    <3>1. UNCHANGED <<meta, wal, snapshot, compaction>>
      BY <2>1, Zenon
    <3>2. CopyInv("index", d, s, m, keys)'
      BY <2>2, <3>1, Zenon DEF CopyInv, InStep, Holds, SegmentsThere, Replayed, Sound, Loadable, Loaded, SnapshotNamed, Base
    <3> QED
      BY <3>2, Zenon DEF CopyInv
  <2> QED
    BY <2>1, <2>2, CopyingClone, Zenon
<1> QED
  BY <1>1, <1>2, Zenon

LEMMA CopyMetaClone ==
  ASSUME TypeOK, CloneInv, CopyMeta, UNCHANGED <<issued, budget, appender, compaction>>
  PROVE  CloneInv'
<1>1. CASE clone' = NoClone
  BY <1>1, Zenon DEF CloneInv, Steady
<1>2. CASE clone' # NoClone
  <2>1. Copying("wal") /\ UNCHANGED <<wal, snapshot, deletion>> /\ clone.pc = "meta"
    BY <1>2, Zenon DEF CopyMeta, CopyFails, store
  <2>2. ASSUME NEW d \in Namespaces, NEW s \in Namespaces, NEW m \in Meta, NEW keys,
               d = clone.dest, s = clone.source, m = clone.m, keys = clone.keys,
               d # s, m.exists, keys.meta, meta[s] = m, CopyInv("meta", d, s, m, keys)
        PROVE  CopyInv("wal", d, s, m, keys)'
    <3>1. meta' = [meta EXCEPT ![d] = m] /\ DOMAIN meta = Namespaces
      BY <1>2, <2>2, Zenon DEF CopyMeta, CopyFails, TypeOK, StoreOK
    <3>2. meta'[d] = m /\ meta'[s] = m
      BY <2>2, <3>1, Zenon
    <3>3. m.snap \in Nat
      BY Zenon DEF Meta
    <3>4. InStep(s)' /\ InStep(d)' /\ (SnapshotNamed(s)' => SnapshotNamed(s))
      BY <2>1, <2>2, <3>2, Zenon DEF CopyInv, InStep, SnapshotNamed, Base
    <3> QED
      BY <2>1, <2>2, <3>2, <3>3, <3>4, Zenon DEF CopyInv
  <2> QED
    BY ZenonT(30), <2>1, <2>2, CopyingClone
<1> QED
  BY <1>1, <1>2, Zenon

LEMMA CopyWalClone ==
  ASSUME TypeOK, OrderInv, CloneInv, CopyWal, UNCHANGED <<issued, budget, appender, compaction>>
  PROVE  CloneInv'
<1>1. CASE clone' = NoClone
  BY <1>1, Zenon DEF CloneInv, Steady
<1>2. CASE clone' # NoClone
  <2>1. Copying("forget") /\ meta' = meta /\ clone.pc = "wal" /\ CopySucceeds
    BY <1>2, Zenon DEF CopyWal, CopyFails, CopySucceeds
  <2>2. deletion = NoDeletion => deletion' = NoDeletion
    BY <1>2, Zenon DEF CopyWal, CopyFails, BringBack
  <2>3. ASSUME NEW d \in Namespaces, NEW s \in Namespaces, NEW m \in Meta, NEW keys,
               d = clone.dest, s = clone.source, m = clone.m, keys = clone.keys,
               d # s, m.exists, keys.meta, meta[s] = m, CopyInv("wal", d, s, m, keys)
        PROVE  CopyInv("forget", d, s, m, keys)'
    <3>1. /\ wal' = [wal EXCEPT ![d] = [k \in DOMAIN wal[d] \cup keys.wal |->
                                           IF k \in keys.wal THEN wal[s][k] ELSE wal[d][k]]]
          /\ snapshot' = IF keys.snapshot THEN [snapshot EXCEPT ![d] = snapshot[s]] ELSE snapshot
      BY <2>1, <2>3, Zenon DEF CopyWal, CopySucceeds, ListedSegments
    <3>2. /\ DOMAIN wal[s] = keys.wal /\ (SnapshotNamed(s) => (keys.snapshot <=> snapshot[s] # NoSnapshot))
          /\ DOMAIN wal[d] = {} /\ snapshot[d] = NoSnapshot /\ compaction.ns # d
          /\ ~ (compaction.ns = s /\ compaction.pc = "delete")
          /\ meta[d].exists /\ meta[d].commit = m.commit /\ meta[d].snap = m.snap
      BY <2>3, Zenon DEF CopyInv
    <3>3. /\ DOMAIN wal = Namespaces /\ DOMAIN snapshot = Namespaces
          /\ wal[s] \in [DOMAIN wal[s] -> Nat]
      BY Zenon DEF TypeOK, StoreOK
    <3>4. wal'[s] = wal[s] /\ snapshot'[s] = snapshot[s]
      BY <2>3, <3>1, <3>3, Zenon
    <3>5. SnapshotNamed(s) => snapshot'[d] = snapshot[s]
      BY <3>1, <3>2, <3>3, Zenon
    <3>6. wal'[d] = wal[s]
      <4>1. wal'[d] = [k \in keys.wal |-> wal[s][k]]
        BY <3>1, <3>2, <3>3, Zenon
      <4> QED
        BY <3>2, <3>3, <4>1, Zenon
    <3>7. Base(s)' = Base(s) /\ (Sound(s)' => Sound(s)) /\ (SnapshotNamed(s)' => SnapshotNamed(s)) /\ Loaded(s)' = Loaded(s)
      <4>1. Base(s)' = Base(s)
        BY <2>1, <3>4, Zenon DEF Base
      <4> QED
        BY <2>1, <3>4, <4>1, Zenon DEF Sound, Loadable, SegmentsThere, SnapshotNamed, Loaded, Replayed
    <3>8. Sound(s) => Holds(d, Loaded(s))'
      <4> SUFFICES ASSUME Sound(s)
                   PROVE  Holds(d, Loaded(s))'
        OBVIOUS
      <4>1. Base(s) = snapshot[s] /\ Loadable(s) /\ snapshot'[d] = snapshot[s]
        BY <3>5, Zenon DEF Sound, SnapshotNamed
      <4>2. meta'[d].commit = meta[s].commit /\ meta'[d] = meta[d]
        BY <2>1, <2>3, <3>2, Zenon
      <4>3. snapshot[s].seq <= meta[d].cursor
        <5>1. snapshot[s].seq = meta[s].snap \/ snapshot[s].seq = 0
          BY <4>1 DEF Base, NoSnapshot
        <5>2. meta[d].snap <= meta[d].cursor /\ meta[s].snap = meta[d].snap /\ meta[d].cursor \in Nat
          BY <2>3, <3>2, Zenon DEF OrderInv, Ordered, TypeOK, StoreOK, Meta
        <5> QED
          BY <5>1, <5>2
      <4>4. SegmentsThere(d, snapshot[s].seq + 1, meta[s].commit)' /\ Replayed(d, snapshot[s].seq + 1, meta[s].commit)' = Replayed(s, snapshot[s].seq + 1, meta[s].commit)
        BY <2>1, <3>4, <3>6, <4>1, Zenon DEF Loadable, SegmentsThere, Replayed
      <4>5. Loaded(s)' = snapshot[s].batches \cup Replayed(s, snapshot[s].seq + 1, meta[s].commit)
        BY <3>7, <4>1, Zenon DEF Loaded
      <4>6. (snapshot[d].seq <= meta[d].cursor /\ SegmentsThere(d, snapshot[d].seq + 1, meta[d].commit))'
        BY <2>1, <3>4, <4>1, <4>2, <4>3, <4>4, Zenon
      <4>7. (snapshot[d].batches \cup Replayed(d, snapshot[d].seq + 1, meta[d].commit) = Loaded(s))'
        BY <2>1, <3>4, <4>1, <4>2, <4>4, <4>5, Zenon
      <4> QED
        BY <3>2, <4>6, <4>7, Zenon DEF Holds
    <3>9. m.snap \in Nat
      BY Zenon DEF Meta
    <3>10. InStep(s)' /\ InStep(d)'
      BY <2>1, <2>3, <3>2, <3>4, Zenon DEF CopyInv, InStep
    <3>11. SnapshotNamed(s)' => (keys.snapshot <=> snapshot'[s] # NoSnapshot)
      BY <3>2, <3>4, <3>7, Zenon
    <3> QED
      BY <2>1, <2>3, <3>2, <3>4, <3>7, <3>8, <3>9, <3>10, <3>11, Zenon DEF CopyInv
  <2> QED
    BY ZenonT(30), <2>1, <2>2, <2>3, CopyingClone
<1> QED
  BY <1>1, <1>2, Zenon


(* Counting another operation leaves the deletes that may still begin. *)
LEMMA CountOthers ==
  ASSUME CallsOK, NEW kind \in {"copy", "list", "failure"}, Count(kind)
  PROVE  budget'.delete = budget.delete
BY Zenon DEF CallsOK, Allowance, Count

LEMMA CloneKept ==
  ASSUME TypeOK, OrderInv, CompactInv, CloneInv, Steps
  PROVE  CloneInv'
<1>0. issued \in Nat /\ budget.delete \in Nat /\ CallsOK
  BY Zenon DEF TypeOK, CallsOK, Allowance
<1>1. ASSUME NEW ns \in Namespaces, Write(ns)
      PROVE  CloneInv'
  <2>1. clone' = clone /\ (issued' = issued \/ issued' = issued + 1)
    BY <1>1, Zenon DEF Write, Append_, AppendRead, AppendPut, AppendSwap, AppendApply
  <2>2. budget'.delete = budget.delete
    BY <1>1, Zenon DEF Write, Append_, AppendRead, AppendPut, AppendSwap, AppendApply, TypeOK, CallsOK, Allowance
  <2>3. issued' \in Nat /\ issued <= issued' /\ budget'.delete \in Nat /\ budget'.delete <= budget.delete
    BY <1>0, <2>1, <2>2
  <2>4. Steady /\ issued' = issued => Around
    BY <1>1, WriteAround, Zenon
  <2> QED
    BY <2>1, <2>3, <2>4, AroundClone, Zenon
<1>2. CASE Tick /\ UNCHANGED lifecycle
  <2>1. clone' = clone /\ issued' = issued /\ (budget' = budget \/ Count("failure"))
    BY <1>2, Zenon DEF lifecycle, Tick, list_namespace_names, RefreshLags, refresh_work_queue, RoundBegin, Pop, IndexRead,
       IndexPut, IndexCommit, IndexFails, Compacting, maybe_compact_wal, CompactFails, Check, Requeue, compaction_pass, NextListed,
       TickFails, Goto
  <2>2. budget'.delete = budget.delete
    BY <1>0, <2>1, CountOthers, Zenon
  <2>3. Steady => Around
    BY <1>2, TickAround, Zenon
  <2> QED
    BY <1>0, <2>1, <2>2, <2>3, AroundClone
<1>3. CASE (\E ns \in Namespaces : \/ Query(ns) /\ UNCHANGED lifecycle
                                   \/ Wake(ns) /\ UNCHANGED lifecycle) \/ list_namespaces
  <2>1. UNCHANGED <<meta, wal, snapshot, appender, compaction, deletion, clone, issued>> /\ (budget' = budget \/ Count("list"))
    BY <1>3, Zenon DEF Query, Wake, list_namespaces, ListBegin, ListEnd, Expire, store, lifecycle
  <2>2. budget'.delete = budget.delete
    BY <1>0, <2>1, CountOthers, Zenon
  <2>3. Steady => Around
    BY <2>1, QuietAround, Zenon
  <2> QED
    BY <1>0, <2>1, <2>2, <2>3, AroundClone
<1>4. ASSUME NEW ns \in Namespaces, DeleteList(ns)
      PROVE  CloneInv'
  <2>1. UNCHANGED <<clone, issued>> /\ budget.delete > 0 /\ budget'.delete = budget.delete - 1
    BY <1>4, Zenon DEF DeleteList, Count, TypeOK, CallsOK, Allowance
  <2>2. budget'.delete \in Nat /\ budget'.delete <= budget.delete /\ budget'.delete # budget.delete
    BY <1>0, <2>1
  <2> QED
    BY <1>0, <2>1, <2>2, AroundClone
<1>5. CASE delete_namespace
  <2>1. UNCHANGED <<clone, issued, budget>> /\ deletion # NoDeletion
    BY <1>5 DEF delete_namespace, DeleteReturns, DeleteObjects, NoDeletion
  <2>2. ~ Steady
    BY <2>1, Zenon DEF CloneInv
  <2> QED
    BY <1>0, <2>1, <2>2, AroundClone
<1>6. CASE clone_namespace_s3
  <2>1. UNCHANGED <<appender, compaction, issued, budget>>
    BY <1>6, Zenon DEF clone_namespace_s3
  <2>2. CASE CloneReturns
    BY <2>2, Zenon DEF CloneReturns, CloneInv, Steady
  <2> QED
    BY <1>6, <2>1, <2>2, CopyIndexClone, CopyMetaClone, CopyWalClone, Zenon DEF clone_namespace_s3
<1> QED
  BY <1>1, <1>2, <1>3, <1>4, <1>5, <1>6, CloneListClone, Zenon DEF Steps

LEMMA CloneSuffices == TypeOK /\ CloneInv => CloneFaithful
<1> SUFFICES ASSUME TypeOK, CloneInv, clone.pc = "forget", clone.steady, Undisturbed, clone.m.exists,
                    Sound(clone.source), SnapshotNamed(clone.dest)
             PROVE  Loadable(clone.dest) /\ Loaded(clone.dest) = Loaded(clone.source)
  BY Zenon DEF CloneFaithful, Sound
<1>1. Steady
  BY DEF Steady, Undisturbed, NoClone
<1>2. meta[clone.source].snap = clone.m.snap
  BY Zenon DEF Undisturbed
<1>3. Holds(clone.dest, Loaded(clone.source))
  BY <1>1, <1>2, Zenon DEF CloneInv, CopyInv
<1> QED
  BY <1>3, Zenon DEF Holds, SnapshotNamed, Loadable, Loaded

-----------------------------------------------------------------------------
(* The inductive invariant and what it gives.                              *)

LEMMA InvariantInit == Init => IInv
<1> SUFFICES ASSUME Init
             PROVE  IInv
  OBVIOUS
<1> USE DEF Init, StoreInit, SchedulerInit, LifecycleInit
<1>1. OrderInv
  BY DEF OrderInv, Ordered, NoMeta, NoSnapshot
<1>2. QueueInv
  <2>1. ~ Popped /\ tick.pc = "wait" /\ Names(<<>>) = {}
    BY DEF Popped, Waiting, Names
  <2> QED
    BY <2>1 DEF QueueInv, QueueConsistent, RoundInv, RoundServesAll
<1>3. ListingInv
  BY Zenon DEF ListingInv, ListingShowsAcked, NoListing, NoList
<1>4. GoneInv
  <2>1. ASSUME NEW ns \in Namespaces
        PROVE  Held(ns) = {} /\ gone[ns] = {}
    <3>1. /\ DOMAIN wal[ns] = {} /\ snapshot[ns].batches = {} /\ view[ns].batches = {} /\ appender[ns].pc = "idle"
          /\ compaction.batches = {}
      BY Zenon DEF Nothing, NoSnapshot, NoView, Idle, NoCompaction
    <3> QED
      BY <3>1, Zenon DEF Held
  <2> QED
    BY <2>1, Zenon DEF GoneInv
<1>5. CloneInv
  BY Zenon DEF CloneInv, Steady
<1>6. CompactInv
  BY DEF CompactInv, NoCompaction
<1> QED
  BY <1>1, <1>2, <1>3, <1>4, <1>5, <1>6, TypesInit, Zenon DEF IInv

LEMMA InvariantKept == IInv /\ [Next]_vars => IInv'
<1>1. IInv /\ Steps => IInv'
  BY TypesKept, OrderKept, CompactInvKept, QueueKept, ListingKept, GoneKept, CloneKept, Zenon DEF IInv
<1>2. IInv /\ UNCHANGED vars => IInv'
  <2> SUFFICES ASSUME IInv, UNCHANGED vars
               PROVE  IInv'
    OBVIOUS
  <2> USE DEF IInv, vars, store, scheduler, lifecycle
  <2>1. TypeOK'
    BY Zenon DEF TypeOK, StoreOK, CallsOK, TickOK, Popped, CompactionOK, LifecycleOK
  <2>2. OrderInv' /\ CompactInv' /\ QueueInv'
    BY Zenon DEF OrderInv, CompactInv, QueueInv, QueueConsistent, RoundInv, RoundServesAll, Popped
  <2>3. ListingInv'
    BY Zenon DEF ListingInv, ListingShowsAcked, BeingDeleted
  <2>4. GoneInv'
    <3>1. \A n \in Namespaces : view'[n].batches \subseteq Held(n)
      BY Zenon DEF Held
    <3> QED
      BY <3>1, ViewGone, Zenon
  <2>5. CloneInv'
    <3>1. issued \in Nat /\ budget.delete \in Nat
      BY Zenon DEF TypeOK, CallsOK, Allowance
    <3>2. Steady => Around
      BY QuietAround, Zenon
    <3> QED
      BY <3>1, <3>2, AroundClone
  <2> QED
    BY <2>1, <2>2, <2>3, <2>4, <2>5, Zenon
<1> QED
  BY <1>1, <1>2, NextSteps, Zenon

(* The inductive invariant holds in every reachable state. *)
THEOREM Invariance == Spec => []IInv
BY InvariantInit, InvariantKept, PTL DEF Spec

(* BackgroundIndexer's `queue` and `queued` agree: every queued name is in *)
(* the queue once or is the one the tick works on, whatever wakes come     *)
(* between a pop and the requeue.                                          *)
THEOREM QueueAgrees == Spec => []QueueConsistent
<1>1. IInv => QueueConsistent
  BY Zenon DEF IInv, QueueInv
<1> QED
  BY <1>1, Invariance, PTL

(* A round of BackgroundIndexer::tick gives each namespace that was queued *)
(* when it began one slice, in order.                                      *)
THEOREM RoundsServeAll == Spec => []RoundServesAll
<1>1. IInv => RoundServesAll
  BY Zenon DEF IInv, QueueInv
<1> QED
  BY <1>1, Invariance, PTL

(* list_namespaces, when it answers from a cache that no invalidation      *)
(* raced, names every namespace whose write or copy has returned.          *)
THEOREM ListingComplete == Spec => []ListingShowsAcked
<1>1. IInv => ListingShowsAcked
  BY Zenon DEF IInv, ListingInv
<1> QED
  BY <1>1, Invariance, PTL

(* A batch that delete_namespace has removed is never loaded or shown by a *)
(* view again, unless a snapshot was there, or maybe_compact_wal was about *)
(* to write one, when the delete returned.                                 *)
THEOREM DeletedStaysDeleted == Spec => []NoResurrection
<1>1. IInv => NoResurrection
  BY GoneSuffices, Zenon DEF IInv
<1> QED
  BY <1>1, Invariance, PTL

(* When clone_namespace_s3 has copied a namespace that nobody disturbed,   *)
(* the copy loads to the batches of its source, provided that the          *)
(* snapshots are the ones that their meta.json names.                      *)
THEOREM CopiesFaithful == Spec => []CloneFaithful
<1>1. IInv => CloneFaithful
  BY CloneSuffices, Zenon DEF IInv
<1> QED
  BY <1>1, Invariance, PTL
=============================================================================
