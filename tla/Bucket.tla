------------------------------ MODULE Bucket ------------------------------
(***************************************************************************)
(* One server process on a bucket: writes and queries of each namespace,   *)
(* the background indexer, and deletes, copies and listings, interleaved   *)
(* at their S3 calls.                                                      *)
(***************************************************************************)
EXTENDS Scheduler, Lifecycle

vars == <<store, view, appender, compaction, issued, budget, scheduler, lifecycle>>

Init == StoreInit /\ SchedulerInit /\ LifecycleInit

(* write_documents drops the cached listing once the batch is committed *)
Write(ns) ==
    /\ Append_(ns)
    /\ IF appender[ns].pc = "apply"
       THEN invalidate_namespace_list_cache /\ acked' = acked \cup Kept(ns)
       ELSE UNCHANGED <<list_cache, listing, acked>>
    /\ UNCHANGED <<scheduler, deletion, gone, orphaned, clone>>

Index == Tick /\ UNCHANGED lifecycle

Operate == delete_namespace /\ UNCHANGED scheduler
Copy == clone_namespace_s3 /\ UNCHANGED scheduler

Next ==
    \/ \E ns \in Namespaces : Write(ns) \/ (Query(ns) /\ UNCHANGED <<scheduler, lifecycle>>)
    \/ Index
    \/ \E ns \in Namespaces : (Wake(ns) /\ UNCHANGED lifecycle) \/ (DeleteList(ns) /\ UNCHANGED scheduler)
    \/ \E dest, source \in Namespaces : CloneList(dest, source) /\ UNCHANGED scheduler
    \/ Operate \/ Copy
    \/ list_namespaces /\ UNCHANGED scheduler

Spec == Init /\ [][Next]_vars

FairSpec ==
    /\ Spec /\ WF_vars(Index)
    /\ \A ns \in Namespaces : WF_vars(appender[ns].pc # "idle" /\ Write(ns))

-----------------------------------------------------------------------------
(* Types.  An object group is a function from the keys that are there.     *)
Meta == [commit : Nat, cursor : Nat, snap : Nat, segment : Nat, exists : BOOLEAN]

Listed == [index : SUBSET Nat, meta : BOOLEAN, wal : SUBSET Nat, snapshot : BOOLEAN]

TickState(lag) ==
    [pc : {"wait", "lags", "swap", "round", "pop", "read", "put", "commit", "compact",
           "check", "compact_checked", "requeue", "compaction_pass", "next", "compact_listed"},
     names : SUBSET Namespaces, lag : {lag},
     start : Seq(Namespaces), served : Seq(Namespaces), ns : Namespaces \cup {NoNamespace},
     to : Nat, built : SUBSET Nat, still : BOOLEAN]

DeletionState ==
    [pc : {"objects", "forget"}, ns : Namespaces, keys : Listed,
     left : SUBSET {"index", "meta", "wal"}, doomed : SUBSET Nat]

CloneState ==
    [pc : {"index", "meta", "wal", "forget"}, dest : Namespaces, source : Namespaces, keys : Listed,
     m : Meta, then : Nat, deletes : Nat, steady : BOOLEAN]

StoreOK ==
    /\ meta \in [Namespaces -> Meta]
    /\ DOMAIN wal = Namespaces /\ DOMAIN segments = Namespaces
    /\ \A ns \in Namespaces :
          /\ DOMAIN wal[ns] \subseteq Nat /\ wal[ns] \in [DOMAIN wal[ns] -> Nat]
          /\ DOMAIN segments[ns] \subseteq Nat /\ segments[ns] \in [DOMAIN segments[ns] -> SUBSET Nat]
    /\ snapshot \in [Namespaces -> [seq : Nat, batches : SUBSET Nat]]

CallsOK ==
    /\ view \in [Namespaces -> [pinned : BOOLEAN, batches : SUBSET Nat, last : Nat]]
    /\ appender \in [Namespaces -> [pc : {"idle", "put", "swap", "apply"}, batch : Nat, m : Meta]]
    /\ issued \in Nat /\ budget \in Allowance

(* the tick has taken a name from the queue and is at its slice *)
Popped == tick.pc \in {"read", "put", "commit", "compact", "check", "compact_checked", "requeue"}

TickOK ==
    /\ queue \in Seq(Namespaces) /\ queued \in SUBSET Namespaces
    /\ tick \in TickState(tick.lag)
    /\ DOMAIN tick.lag \subseteq Namespaces /\ tick.lag \in [DOMAIN tick.lag -> Nat]
    /\ Popped \/ tick.pc = "compact_listed" => tick.ns \in Namespaces

CompactionState ==
    [pc : {"read", "put", "swap", "delete"}, ns : Namespaces, m : Meta, batches : SUBSET Nat]

(* the tick calls maybe_compact_wal and waits for it *)
CompactionOK ==
    \/ compaction = NoCompaction
    \/ /\ compaction \in CompactionState /\ compaction.ns = tick.ns
       /\ tick.pc \in {"compact", "compact_checked", "compact_listed"}

LifecycleOK ==
    /\ deletion \in DeletionState \cup {NoDeletion} /\ gone \in [Namespaces -> SUBSET Nat]
    /\ orphaned \in SUBSET Namespaces /\ clone \in CloneState \cup {NoClone}
    /\ listing \in [pc : {"idle", "listed"}, names : SUBSET Namespaces, raced : BOOLEAN]
    /\ list_cache \in [cached : BOOLEAN, names : SUBSET Namespaces, raced : BOOLEAN]
    /\ acked \in SUBSET Namespaces

TypeOK == StoreOK /\ CallsOK /\ TickOK /\ CompactionOK /\ LifecycleOK

(* `queued` names exactly the namespaces of the queue and the one that the *)
(* tick has popped and not yet put back or let go, each once: a wake that  *)
(* finds the name there may rely on a slice that is still to come, and no  *)
(* namespace is queued twice.                                              *)
QueueConsistent ==
    /\ queued = Names(queue) \cup (IF Popped THEN {tick.ns} ELSE {})
    /\ Popped => tick.ns \notin Names(queue)
    /\ \A i, j \in DOMAIN queue : i # j => queue[i] # queue[j]

(* Round-robin: a round gives one slice to each namespace that was queued  *)
(* when it began, however many wakes and requeues happen meanwhile.        *)
RoundServesAll == tick.pc = "compaction_pass" => tick.served = tick.start

(* What a delete has removed stays removed: a batch that was acknowledged  *)
(* before the delete began is never seen again after it has returned, in   *)
(* S3 or in the pinned view, though appends, index passes and compactions  *)
(* that were under way leave objects behind and the name may be written    *)
(* again.  The one exception is a delete that returns while a snapshot is  *)
(* there or a compaction has yet to write the one it has read the          *)
(* documents for (DeletedForGood).                                         *)
NoResurrection ==
    \A ns \in Namespaces \ orphaned :
        /\ view[ns].batches \cap gone[ns] = {}
        /\ meta[ns].exists /\ Loadable(ns) => Loaded(ns) \cap gone[ns] = {}

(* The snapshot, if there is one, is the one that meta.json names.  (It is *)
(* not while a compaction is between its PUT and its swap.)                *)
SnapshotNamed(ns) == Base(ns) = snapshot[ns]

(* A copy of a namespace that nobody writes, indexes, compacts or deletes  *)
(* meanwhile loads to the batches of its source, also when the background  *)
(* task has indexed and compacted the copy before clone_namespace_s3       *)
(* returns.  The snapshot of the source is the one that its meta.json      *)
(* names: compaction of the copy would take any other for its own.         *)
CloneFaithful ==
    /\ clone.pc = "forget" /\ clone.steady /\ Undisturbed /\ clone.m.exists
    /\ Loadable(clone.source) /\ SnapshotNamed(clone.source) /\ SnapshotNamed(clone.dest)
    => Loadable(clone.dest) /\ Loaded(clone.dest) = Loaded(clone.source)

(* A cached listing names every namespace whose write or copy has returned *)
(* and that no delete has begun to remove since, unless the listing was    *)
(* under way when that write dropped the cache: then it is set afterwards. *)
ListingShowsAcked == list_cache.cached /\ ~ list_cache.raced => acked \subseteq list_cache.names

(* Whatever wakes are lost between a check and its `queued.remove`, and    *)
(* whatever the swap of the queue drops, a namespace whose segments can be *)
(* read is indexed in the end.                                             *)
Lags(ns) == meta[ns].exists /\ needs_indexing(meta[ns]) /\ SegmentsThere(ns, meta[ns].cursor + 1, meta[ns].commit)
EventuallyIndexed == \A ns \in Namespaces : Lags(ns) ~> ~ Lags(ns)

(* The same of every delete: what is under the prefix when it returns, or *)
(* is written there later, cannot bring a batch back.  It can: a snapshot  *)
(* that a compaction writes after the listing, be it before or after the   *)
(* delete has returned, stays, and the first compaction of the namespace   *)
(* written next under the name takes it for its own.                       *)
DeletedForGood ==
    \A ns \in Namespaces : meta[ns].exists /\ Loadable(ns) => Loaded(ns) \cap gone[ns] = {}

-----------------------------------------------------------------------------
(* What the invariants above rest on.                                      *)

(* What meta.json counts is ordered; a snapshot that is there covers one   *)
(* segment at least.                                                       *)
Ordered(m) == m.snap <= m.cursor /\ m.cursor <= m.commit

OrderInv ==
    \A ns \in Namespaces :
        Ordered(meta[ns]) /\ (snapshot[ns].seq = 0 => snapshot[ns] = NoSnapshot)

(* A compaction writes a snapshot of all that was committed when it read   *)
(* meta.json, and more than the last covers.                               *)
CompactInv ==
    /\ compaction.pc \in {"put", "swap", "delete"} =>
          compaction.m.snap < compaction.m.cursor /\ compaction.m.cursor = compaction.m.commit
    /\ compaction.pc # "put" => compaction.batches = {}

(* A round has given a slice to the names before the ones that are still   *)
(* at the head of the queue.                                               *)
Serving(served, start, q) ==
    LET k == Len(served)
    IN  /\ k <= Len(start) /\ Len(start) - k <= Len(q)
        /\ \A i \in 1..k : served[i] = start[i]
        /\ \A i \in 1..(Len(start) - k) : q[i] = start[k + i]

RoundInv == tick.pc = "pop" \/ Popped => Serving(tick.served, tick.start, queue)

QueueInv == QueueConsistent /\ RoundInv /\ RoundServesAll

BeingDeleted(ns) == deletion # NoDeletion /\ deletion.ns = ns

ListingInv ==
    /\ \A ns \in acked : meta[ns].exists /\ ~ BeingDeleted(ns)
    /\ listing.pc = "listed" /\ ~ listing.raced => acked \subseteq listing.names
    /\ ListingShowsAcked

(* Where a batch of the namespace may be read from, or written from again. *)
Held(ns) ==
    {wal[ns][k] : k \in DOMAIN wal[ns]} \cup snapshot[ns].batches \cup view[ns].batches
    \cup (IF appender[ns].pc = "idle" THEN {} ELSE {appender[ns].batch})
    \cup (IF compaction.ns = ns THEN compaction.batches ELSE {})

GoneInv ==
    /\ \A ns \in Namespaces :
          /\ Held(ns) \cup gone[ns] \subseteq 1..issued
          /\ ns \notin orphaned => Held(ns) \cap gone[ns] = {}
    /\ deletion # NoDeletion =>
          /\ deletion.doomed \subseteq 1..issued
          /\ deletion.pc = "forget" => deletion.left = {}
          /\ appender[deletion.ns].pc = "idle" \/ appender[deletion.ns].batch \notin deletion.doomed
          /\ \A k \in DOMAIN wal[deletion.ns] :
                wal[deletion.ns][k] \in deletion.doomed => "wal" \in deletion.left /\ k \in deletion.keys.wal

(* No append and no delete has begun since the copy did.                   *)
Steady == clone # NoClone /\ clone.steady /\ clone.then = issued /\ clone.deletes = budget.delete

(* The namespace loads, from all that is under wal/.                       *)
Sound(ns) == Loadable(ns) /\ SnapshotNamed(ns)

(* A compaction works on the metadata that is there.                       *)
InStep(ns) ==
    compaction.ns = ns =>
        /\ compaction.pc # "read"
        /\ meta[ns] = IF compaction.pc = "delete" THEN [compaction.m EXCEPT !.snap = compaction.m.cursor]
                      ELSE compaction.m
        /\ compaction.pc # "put" => snapshot[ns].seq = compaction.m.cursor

(* What is under wal/ holds these batches, whatever meta.json says of the  *)
(* snapshot.                                                               *)
Holds(ns, batches) ==
    /\ snapshot[ns].seq <= meta[ns].cursor
    /\ SegmentsThere(ns, snapshot[ns].seq + 1, meta[ns].commit)
    /\ snapshot[ns].batches \cup Replayed(ns, snapshot[ns].seq + 1, meta[ns].commit) = batches
    /\ compaction.ns = ns /\ compaction.pc = "put" => compaction.batches = batches

(* A copy that nobody disturbs: the source is as it was listed unless the  *)
(* background task compacts it, the destination has what was copied.       *)
CopyInv(pc, dest, source, m, keys) ==
    LET still == meta[source].snap = m.snap
    IN  /\ meta[source].commit = m.commit /\ meta[source].snap >= m.snap
        /\ InStep(source) /\ InStep(dest)
        /\ still => DOMAIN wal[source] = keys.wal /\ ~ (compaction.ns = source /\ compaction.pc = "delete")
        /\ still /\ SnapshotNamed(source) => (keys.snapshot <=> snapshot[source] # NoSnapshot)
        /\ pc # "forget" => DOMAIN wal[dest] = {} /\ snapshot[dest] = NoSnapshot /\ compaction.ns # dest
        /\ IF pc \in {"index", "meta"} THEN ~ meta[dest].exists
           ELSE meta[dest].exists /\ meta[dest].commit = m.commit
        /\ pc = "wal" => meta[dest].snap = m.snap
        /\ pc = "forget" /\ still /\ Sound(source) => Holds(dest, Loaded(source))

CloneInv ==
    /\ clone # NoClone =>
          /\ clone.then <= issued /\ budget.delete <= clone.deletes
          /\ clone.dest # clone.source /\ clone.keys.meta = clone.m.exists
    /\ Steady => deletion = NoDeletion /\ NotAppending({clone.dest, clone.source})
    /\ Steady /\ clone.m.exists => CopyInv(clone.pc, clone.dest, clone.source, clone.m, clone.keys)

IInv == TypeOK /\ OrderInv /\ CompactInv /\ QueueInv /\ ListingInv /\ GoneInv /\ CloneInv
=============================================================================
