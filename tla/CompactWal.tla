----------------------------- MODULE CompactWal -----------------------------
(***************************************************************************)
(* maybe_compact_wal: once the index has caught up, write the documents at *)
(* the cursor as wal/snapshot.bin, record the snapshot point in meta.json  *)
(* by compare-and-swap, and only then delete the segments it covers, all   *)
(* under the commit lock.                                                  *)
(***************************************************************************)
EXTENDS NamespaceStore

ShouldCompactWal(m) ==
    /\ m.index_cursor >= m.wal_commit_seq
    /\ m.wal_commit_seq > WAL_COMPACTION_THRESHOLD
    /\ m.index_cursor > WAL_COMPACT_KEEP

NeedsWalCompaction(m) ==
    ShouldCompactWal(m) /\ m.wal_snapshot_seq < m.index_cursor

(* The last of the segments 1, 2, ... that compaction at cursor deletes.   *)
DeleteThrough(cursor) == cursor - WAL_COMPACT_KEEP

MetaAfterCompaction(m) == [m EXCEPT !.wal_snapshot_seq = m.index_cursor]

(* compaction_pass, and the call after an indexing slice.                  *)
CompactStart(t) ==
    /\ pc[t] = "idle"
    /\ NeedsWalCompaction(meta)
    /\ Goto(t, "c_meta")
    /\ UNCHANGED <<bucket, lock, seen, att, buf, upto, job, env, history>>

(* The check before the lock; what it reads is used for nothing else.      *)
CompactCheck(t) ==
    /\ pc[t] = "c_meta"
    /\ \E m \in {meta, NoMeta} :
         /\ FetchMeta(m)
         /\ \/ /\ ~ NeedsWalCompaction(m)
               /\ Return(t)
            \/ /\ NeedsWalCompaction(m)
               /\ Goto(t, "c_lock")
               /\ att' = [att EXCEPT ![t] = 0]
               /\ UNCHANGED <<lock, seen, buf, upto, job>>
    /\ UNCHANGED <<bucket, submitted, history>>

CompactLock(t) ==
    /\ pc[t] = "c_lock"
    /\ TakeLock(t, "c_fetch")
    /\ UNCHANGED <<bucket, seen, att, buf, upto, job, env, history>>

CompactMeta(t) ==
    /\ pc[t] = "c_fetch"
    /\ \E m \in {meta, NoMeta} :
         /\ FetchMeta(m)
         /\ \/ /\ ~ NeedsWalCompaction(m)
               /\ Return(t)
            \/ /\ NeedsWalCompaction(m)
               /\ seen' = [seen EXCEPT ![t] = m]
               /\ Goto(t, "c_snap")
               /\ UNCHANGED <<lock, att, buf, upto, job>>
    /\ UNCHANGED <<bucket, submitted, history>>

(* Variant: only the snapshot the metadata names is a base.                *)
CompactSnapshotNamed(t) ==
    /\ pc[t] = "c_snap"
    /\ buf' = [buf EXCEPT ![t] =
                 IF snapshot.seq = seen[t].wal_snapshot_seq
                 THEN snapshot.docs ELSE <<>>]
    /\ Goto(t, "c_read")
    /\ UNCHANGED <<bucket, lock, seen, att, upto, job, env, history>>

(* docs_at_index_cursor: any snapshot at or before the cursor is a base... *)
CompactSnapshot(t) ==
    /\ pc[t] = "c_snap"
    /\ buf' = [buf EXCEPT ![t] =
                 IF snapshot.seq <= seen[t].index_cursor
                 THEN snapshot.docs ELSE <<>>]
    /\ Goto(t, "c_read")
    /\ UNCHANGED <<bucket, lock, seen, att, upto, job, env, history>>

(* ... and the segments after it are replayed up to the cursor.            *)
CompactRead(t) ==
    /\ pc[t] = "c_read"
    /\ LET n == Len(buf[t]) + 1
           to == seen[t].index_cursor IN
         \/ /\ n <= to /\ wal[n] # NoEntry
            /\ buf' = [buf EXCEPT ![t] = Append(@, wal[n])]
            /\ UNCHANGED <<lock, pc, seen, att, upto, job>>
         \/ /\ n <= to /\ wal[n] = NoEntry
            /\ Return(t)
         \/ /\ n > to
            /\ Goto(t, "c_put")
            /\ UNCHANGED <<lock, seen, att, buf, upto, job>>
    /\ UNCHANGED <<bucket, env, history>>

(* Variant: a failed PUT of the snapshot is ignored.                       *)
CompactPutUnchecked(t) ==
    /\ pc[t] = "c_put"
    /\ \/ /\ NoFault
          /\ snapshot' = [seq |-> seen[t].index_cursor, docs |-> buf[t]]
       \/ Fault("error") /\ UNCHANGED snapshot
    /\ Goto(t, "c_cas")
    /\ UNCHANGED <<meta, wal, idx, lock, seen, att, buf, upto, job, submitted,
                   history>>

CompactPut(t) ==
    /\ pc[t] = "c_put"
    /\ snapshot' = [seq |-> seen[t].index_cursor, docs |-> buf[t]]
    /\ \/ /\ NoFault
          /\ Goto(t, "c_cas")
          /\ UNCHANGED <<lock, seen, att, buf, upto, job>>
       \/ /\ Fault("error")
          /\ Return(t)
    /\ UNCHANGED <<meta, wal, idx, submitted, history>>

CompactConflict(t) ==
    \/ /\ att[t] + 1 < META_RETRIES
       /\ Goto(t, "c_fetch")
       /\ att' = [att EXCEPT ![t] = @ + 1]
       /\ UNCHANGED <<lock, seen, buf, upto, job>>
    \/ /\ att[t] + 1 >= META_RETRIES
       /\ Return(t)

(* From here on upto is the next segment to delete.                        *)
CompactCommit(t) ==
    /\ pc[t] = "c_cas"
    /\ CasSucceeds(t)
    /\ meta' = MetaAfterCompaction(seen[t])
    /\ \/ /\ NoFault
          /\ Goto(t, "c_del")
          /\ upto' = [upto EXCEPT ![t] = 1]
          /\ UNCHANGED <<lock, seen, att, buf, job>>
       \/ /\ Fault("error")
          /\ Return(t)
       \/ /\ Fault("resend")
          /\ CompactConflict(t)
    /\ UNCHANGED <<wal, snapshot, idx, submitted, history>>

CompactLoses(t) ==
    /\ pc[t] = "c_cas"
    /\ ~ CasSucceeds(t)
    /\ CompactConflict(t)
    /\ UNCHANGED <<bucket, env, history>>

(* One DELETE per segment; a failed one is logged and skipped.             *)
CompactDelete(t) ==
    /\ pc[t] = "c_del"
    /\ \/ /\ upto[t] <= DeleteThrough(seen[t].index_cursor)
          /\ \/ wal' = [wal EXCEPT ![upto[t]] = NoEntry] /\ NoFault
             \/ Fault("error") /\ UNCHANGED wal
          /\ upto' = [upto EXCEPT ![t] = @ + 1]
          /\ UNCHANGED <<lock, pc, seen, att, buf, job>>
       \/ /\ upto[t] > DeleteThrough(seen[t].index_cursor)
          /\ Return(t)
          /\ UNCHANGED <<wal, faults>>
    /\ UNCHANGED <<meta, snapshot, idx, submitted, history>>

CompactStep(t) ==
    \/ CompactCheck(t) \/ CompactLock(t) \/ CompactMeta(t)
    \/ CompactSnapshot(t) \/ CompactRead(t) \/ CompactPut(t)
    \/ CompactCommit(t) \/ CompactLoses(t) \/ CompactDelete(t)
=============================================================================
