---------------------------- MODULE NamespaceInv ----------------------------
(***************************************************************************)
(* The inductive invariant behind the safety properties of Namespace: what *)
(* the bucket holds, and what each task knows at each of its steps.        *)
(***************************************************************************)
EXTENDS Namespace

PrefixOfLog(s) ==
    Len(s) <= Len(log) /\ \A n \in 1..Len(s) : s[n] = log[n]

(* Metadata that some past state of the namespace had.                     *)
PastMeta(m) ==
    /\ m.wal_snapshot_seq <= m.index_cursor
    /\ m.index_cursor <= m.wal_commit_seq
    /\ m.wal_commit_seq <= Len(log)

(* Steps taken with the commit lock held.                                  *)
LockedPc == {"a_meta", "a_put", "a_cas", "i_meta", "i_cas", "c_fetch",
             "c_snap", "c_read", "c_put", "c_cas", "c_del"}

(* Of those, the ones between the GET of meta.json and the swap.           *)
FreshPc == {"a_put", "a_cas", "i_cas", "c_snap", "c_read", "c_put", "c_cas"}

(* A segment is missing only below the snapshot point.                     *)
WalInv ==
    \A n \in 1..Len(log) :
        wal[n] = log[n] \/ (wal[n] = NoEntry /\ n <= meta.wal_snapshot_seq)

(* The stored snapshot is the named one or a newer one.                    *)
SnapshotInv ==
    /\ meta.wal_snapshot_seq <= snapshot.seq
    /\ snapshot.seq <= meta.index_cursor
    /\ Len(snapshot.docs) = snapshot.seq
    /\ PrefixOfLog(snapshot.docs)

IndexInv ==
    /\ \A n \in Seqs : idx[n] # <<>> => Len(idx[n]) = n /\ PrefixOfLog(idx[n])
    /\ meta.index_cursor > 0 => idx[meta.index_cursor] # <<>>

AckedInv ==
    \A a \in acked : a.seq <= Len(log) /\ log[a.seq] = a.entry

(* No conflict arises within one process, so nothing is cleaned up.        *)
PcInv(t) ==
    /\ t \in Flusher => pc[t] \in {"idle"} \cup (FlushPc \ {"a_del"})
    /\ t \in Indexer => pc[t] \in {"idle"} \cup IndexPc \cup CompactPc
    /\ t \in Reader => pc[t] \in {"idle"} \cup LoadPc

(* A flush owns its batch, which is not committed yet.                     *)
JobInv(t) ==
    /\ pc[t] \in FlushPc =>
         /\ job[t] \in submitted
         /\ \A n \in 1..Len(log) : log[n] # job[t]
         /\ \A u \in Flusher : u # t /\ pc[u] \in FlushPc => job[u] # job[t]
    /\ pc[t] \in {"a_put", "a_cas"} => seen[t].wal_commit_seq < MaxSeq
    /\ pc[t] = "a_cas" => wal[seen[t].wal_commit_seq + 1] = job[t]

(* The range an indexer works on, and what it has folded so far.           *)
RangeInv(t) ==
    /\ pc[t] \in IndexPc \ {"i_fetch"} => upto[t] \in Seqs /\ upto[t] <= Len(log)
    /\ pc[t] \in {"i_load", "i_read", "i_put"} => seen[t].index_cursor < upto[t]
    /\ pc[t] = "i_load" =>
         (seen[t].index_cursor > 0 => idx[seen[t].index_cursor] # <<>>)
    /\ pc[t] = "i_read" => Len(buf[t]) <= upto[t]
    /\ pc[t] = "i_put" => Len(buf[t]) = upto[t]
    /\ pc[t] \in {"i_check", "i_lock", "i_meta", "i_cas"} => idx[upto[t]] # <<>>
    /\ pc[t] = "i_cas" => seen[t].index_cursor < upto[t]

CompactInv(t) ==
    /\ pc[t] \in {"c_snap", "c_read", "c_put", "c_cas", "c_del"} =>
         seen[t].index_cursor > WAL_COMPACT_KEEP
    /\ pc[t] = "c_read" => Len(buf[t]) <= seen[t].index_cursor
    /\ pc[t] = "c_put" => Len(buf[t]) = seen[t].index_cursor
    /\ pc[t] = "c_cas" => snapshot.seq = seen[t].index_cursor
    /\ pc[t] = "c_del" => /\ upto[t] \in Nat \ {0}
                          /\ seen[t].index_cursor = meta.wal_snapshot_seq

LoadInv(t) ==
    /\ pc[t] = "idle" => buf[t] = <<>>
    /\ pc[t] = "r_read" => Len(buf[t]) <= seen[t].wal_commit_seq
    /\ pc[t] = "r_done" => Len(buf[t]) = seen[t].wal_commit_seq

TaskInv(t) ==
    /\ PcInv(t) /\ JobInv(t) /\ RangeInv(t) /\ CompactInv(t) /\ LoadInv(t)
    /\ PrefixOfLog(buf[t])
    /\ PastMeta(seen[t])
    /\ pc[t] \in LockedPc => lock[Host[t]] = t
    /\ pc[t] \in FreshPc => seen[t] = meta

BucketInv ==
    /\ MetaOrdered
    /\ WalInv /\ SnapshotInv /\ IndexInv /\ AckedInv
    /\ CommittedOnce
    /\ \A n \in 1..Len(log) : log[n] \in submitted

(* With one process and a faithful client, every step preserves this.      *)
IInv == TypeOK /\ BucketInv /\ \A t \in Task : TaskInv(t)
=============================================================================
