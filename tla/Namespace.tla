------------------------------ MODULE Namespace ------------------------------
(***************************************************************************)
(* One namespace as the server processes that share the bucket see it:     *)
(* flush tasks append batches, the background indexer of every process     *)
(* indexes and compacts, cold loads read, and requests fail, time out or   *)
(* lose their process at any step.                                         *)
(***************************************************************************)
EXTENDS AppendWal, IndexRange, CompactWal, LoadDocs

(* The time slice of index_namespace_timeboxed runs out: the future is     *)
(* dropped wherever it is.                                                 *)
Timeout(t) ==
    /\ pc[t] # "idle"
    /\ Fault("timeout")
    /\ Return(t)
    /\ UNCHANGED <<bucket, submitted, history>>

Background(t) == IndexStart(t) \/ IndexStep(t) \/ CompactStart(t) \/ CompactStep(t)

Next ==
    \/ \E t \in Flusher : AppendStart(t) \/ AppendStep(t)
    \/ \E t \in Indexer : Background(t) \/ Timeout(t)
    \/ \E t \in Reader : LoadStart(t) \/ LoadStep(t)
    \/ \E t \in Task : RequestFails(t)
    \/ \E p \in Proc : Crash(p)

Spec == Init /\ [][Next]_vars

(* A spawned task keeps running, the commit lock is a FIFO mutex, and the  *)
(* background loop ticks at least every INDEX_POLL_INTERVAL.  Clients need *)
(* not write, nor readers load.                                            *)
Fairness ==
    /\ \A t \in Flusher : WF_vars(AppendStep(t)) /\ SF_vars(AppendLock(t))
    /\ \A t \in Indexer : /\ WF_vars(Background(t))
                          /\ SF_vars(IndexLock(t)) /\ SF_vars(CompactLock(t))
    /\ \A t \in Reader : WF_vars(LoadStep(t))

FairSpec == Spec /\ Fairness

-----------------------------------------------------------------------------
(* The deployments in which the guarantees below are stated: one server    *)
(* process, and a client library that reports what a request did.          *)
SingleInstance == \A p, q \in Proc : p = q

FaithfulClient == Faults \subseteq {"crash", "error", "timeout"}

-----------------------------------------------------------------------------
(* Every variable has its type.                                            *)
TypeOK ==
    /\ meta \in NamespaceMeta
    /\ wal \in [Seqs -> Entry \cup {NoEntry}]
    /\ snapshot \in [seq : 0..MaxSeq, docs : Seq(Entry)]
    /\ idx \in [Seqs -> Seq(Entry)]
    /\ lock \in [Proc -> Task \cup {NoTask}]
    /\ pc \in [Task -> {"idle"} \cup FlushPc \cup IndexPc \cup CompactPc \cup LoadPc]
    /\ seen \in [Task -> NamespaceMeta]
    /\ att \in [Task -> 0..META_RETRIES]
    /\ buf \in [Task -> Seq(Entry)]
    /\ upto \in [Task -> Nat]
    /\ job \in [Task -> Entry \cup {NoEntry}]
    /\ submitted \subseteq Entry
    /\ faults \in 0..MaxFaults
    /\ log \in Seq(Entry)
    /\ acked \subseteq [seq : Seqs, entry : Entry]

(* The log the bucket holds: the snapshot, then the segments after it, as  *)
(* docs_at_index_cursor reads them.                                        *)
StoredLog ==
    [n \in 1..meta.wal_commit_seq |->
        IF n <= snapshot.seq THEN snapshot.docs[n] ELSE wal[n]]

(* Commit point, index cursor and snapshot point stay in order, and the    *)
(* commit point counts the successful commits: no swap of append_wal,      *)
(* index_wal_range or maybe_compact_wal overwrites another's update.       *)
MetaOrdered ==
    /\ meta.wal_snapshot_seq <= meta.index_cursor
    /\ meta.index_cursor <= meta.wal_commit_seq
    /\ meta.wal_commit_seq = Len(log)

(* Every committed batch can be read back, unchanged and in commit order,  *)
(* from the snapshot and the segments in the bucket, whatever compaction   *)
(* has deleted and wherever a task stopped.                                *)
Durable == snapshot.seq <= meta.wal_commit_seq /\ StoredLog = log

(* A write that append_wal acknowledged with sequence number seq is stored *)
(* at seq.                                                                 *)
AckedDurable ==
    \A a \in acked : /\ a.seq <= meta.wal_commit_seq
                     /\ StoredLog[a.seq] = a.entry

(* A batch is committed at most once, however often append_wal retries.    *)
CommittedOnce ==
    \A m, n \in DOMAIN log : log[m] = log[n] => m = n

(* The index segments meta.json names hold exactly the batches up to the   *)
(* index cursor, although index_wal_range writes them outside the lock.    *)
IndexFaithful ==
    meta.index_cursor > 0 =>
        idx[meta.index_cursor] = SubSeq(log, 1, meta.index_cursor)

(* What a cold load returns is the committed log up to the commit point it *)
(* read, although segments are appended and deleted while it replays.      *)
LoadedPrefix ==
    \A t \in Reader : pc[t] = "r_done" =>
        buf[t] = SubSeq(log, 1, seen[t].wal_commit_seq)

(* A cold load started now, and left alone, finds every segment it needs.  *)
Loadable ==
    \A n \in 1..meta.wal_commit_seq :
        n > Len(LoadBase(meta, snapshot)) => wal[n] # NoEntry

(* What the bucket holds behaves as the append-only log DurableLog         *)
(* promises: indexing, compaction, retries and crashes do not show.        *)
Promise == INSTANCE DurableLog WITH log <- StoredLog
ImplementsDurableLog == Promise!Spec

(* No write of meta.json ever takes the commit point, the cursor or the    *)
(* snapshot point back.                                                    *)
MetaNeverRegresses ==
    [][/\ meta'.wal_commit_seq >= meta.wal_commit_seq
       /\ meta'.index_cursor >= meta.index_cursor
       /\ meta'.wal_snapshot_seq >= meta.wal_snapshot_seq]_vars

(* The background indexer catches up with the commit point.                *)
EventuallyIndexed == NeedsIndexing(meta) ~> ~ NeedsIndexing(meta)

(* A namespace that a crash in the middle of compaction made unloadable    *)
(* becomes loadable again.                                                 *)
AlwaysEventuallyLoadable == []<>Loadable

(* append_wal returns: no flush waits for the commit lock for ever.        *)
AppendReturns == \A t \in Flusher : pc[t] # "idle" ~> pc[t] = "idle"
=============================================================================
