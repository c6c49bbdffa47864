----------------------------- MODULE IndexRange -----------------------------
(***************************************************************************)
(* index_wal_range: the background indexer folds the segments after the    *)
(* index cursor into new filter and full-text segments, written before and *)
(* outside the commit lock, then moves the cursor under the lock by        *)
(* compare-and-swap on the metadata it reads there.                        *)
(***************************************************************************)
EXTENDS NamespaceStore

NeedsIndexing(m) == m.index_cursor < m.wal_commit_seq

(* Variant: the cursor jumps to the commit point.                          *)
MetaAfterIndexCommitAll(m, to) == [m EXCEPT !.index_cursor = m.wal_commit_seq]

(* meta_after_index_commit, without the slots of vector columns, which the *)
(* pass overwrites as well: WriteRequests has those.                       *)
MetaAfterIndexCommit(m, to) == [m EXCEPT !.index_cursor = to]

(* Variant: the last committed segment is left out.                        *)
RangeEndShort(m) ==
    {to \in Seqs : /\ m.index_cursor < to /\ to < m.wal_commit_seq
                   /\ to <= m.index_cursor + MaxSegments}

(* Ends of the range one tick may take: at most MaxSegments segments.      *)
RangeEnd(m) ==
    {to \in Seqs : /\ m.index_cursor < to /\ to <= m.wal_commit_seq
                   /\ to <= m.index_cursor + MaxSegments}

(* An attempt ends and the loop goes round, or is exhausted.               *)
IndexRetry(t) ==
    \/ /\ att[t] + 1 < META_RETRIES
       /\ Goto(t, "i_fetch")
       /\ att' = [att EXCEPT ![t] = @ + 1]
       /\ ReleaseLock(t)
       /\ UNCHANGED <<seen, buf, upto, job>>
    \/ /\ att[t] + 1 >= META_RETRIES
       /\ Return(t)

IndexStart(t) ==
    /\ pc[t] = "idle"
    /\ NeedsIndexing(meta)
    /\ Goto(t, "i_fetch")
    /\ UNCHANGED <<bucket, lock, seen, att, buf, upto, job, env, history>>

IndexFetch(t) ==
    /\ pc[t] = "i_fetch"
    /\ \E m \in {meta, NoMeta} :
         /\ FetchMeta(m)
         /\ \/ /\ ~ NeedsIndexing(m)
               /\ Return(t)
            \/ /\ NeedsIndexing(m)
               /\ \E to \in RangeEnd(m) : upto' = [upto EXCEPT ![t] = to]
               /\ seen' = [seen EXCEPT ![t] = m]
               /\ Goto(t, "i_load")
               /\ UNCHANGED <<lock, att, buf, job>>
    /\ UNCHANGED <<bucket, submitted, history>>

(* The segments named by the metadata; cursor 0 or a missing object means  *)
(* an empty segment.                                                       *)
IndexLoad(t) ==
    /\ pc[t] = "i_load"
    /\ buf' = [buf EXCEPT ![t] =
                 IF seen[t].index_cursor = 0 THEN <<>>
                 ELSE idx[seen[t].index_cursor]]
    /\ Goto(t, "i_read")
    /\ UNCHANGED <<bucket, lock, seen, att, upto, job, env, history>>

(* The next WAL segment of the range; a missing one is an error.           *)
IndexRead(t) ==
    /\ pc[t] = "i_read"
    /\ LET n == Len(buf[t]) + 1 IN
         \/ /\ n <= upto[t] /\ wal[n] # NoEntry
            /\ buf' = [buf EXCEPT ![t] = Append(@, wal[n])]
            /\ UNCHANGED <<lock, pc, seen, att, upto, job>>
         \/ /\ n <= upto[t] /\ wal[n] = NoEntry
            /\ Return(t)
         \/ /\ n > upto[t]
            /\ Goto(t, "i_put")
            /\ UNCHANGED <<lock, seen, att, buf, upto, job>>
    /\ UNCHANGED <<bucket, env, history>>

IndexPut(t) ==
    /\ pc[t] = "i_put"
    /\ idx' = [idx EXCEPT ![upto[t]] = buf[t]]
    /\ \/ /\ NoFault
          /\ Goto(t, "i_check")
          /\ UNCHANGED <<lock, seen, att, buf, upto, job>>
       \/ /\ Fault("error")
          /\ Return(t)
    /\ UNCHANGED <<meta, wal, snapshot, submitted, history>>

(* Another indexer may have got there first, or meta.json may be older     *)
(* than the range.                                                         *)
IndexCheck(t) ==
    /\ pc[t] = "i_check"
    /\ \E m \in {meta, NoMeta} :
         /\ FetchMeta(m)
         /\ \/ /\ ~ NeedsIndexing(m) \/ m.index_cursor >= upto[t]
               /\ Return(t)
            \/ /\ NeedsIndexing(m) /\ m.index_cursor < upto[t]
               /\ IF upto[t] > m.wal_commit_seq
                    THEN IndexRetry(t)
                    ELSE /\ Goto(t, "i_lock")
                         /\ UNCHANGED <<lock, seen, att, buf, upto, job>>
    /\ UNCHANGED <<bucket, submitted, history>>

IndexLock(t) ==
    /\ pc[t] = "i_lock"
    /\ TakeLock(t, "i_meta")
    /\ UNCHANGED <<bucket, seen, att, buf, upto, job, env, history>>

IndexMeta(t) ==
    /\ pc[t] = "i_meta"
    /\ \E m \in {meta, NoMeta} :
         /\ FetchMeta(m)
         /\ \/ /\ m = NoMeta \/ m.index_cursor >= upto[t]
               /\ Return(t)
            \/ /\ m # NoMeta /\ m.index_cursor < upto[t]
               /\ IF upto[t] > m.wal_commit_seq
                    THEN IndexRetry(t)
                    ELSE /\ seen' = [seen EXCEPT ![t] = m]
                         /\ Goto(t, "i_cas")
                         /\ UNCHANGED <<lock, att, buf, upto, job>>
    /\ UNCHANGED <<bucket, submitted, history>>

(* Variant: compaction is called with the commit lock still held.          *)
IndexCommitHoldsLock(t) ==
    /\ pc[t] = "i_cas"
    /\ CasSucceeds(t)
    /\ meta' = MetaAfterIndexCommit(seen[t], upto[t])
    /\ NoFault
    /\ Goto(t, "c_meta")
    /\ UNCHANGED <<wal, snapshot, idx, lock, seen, att, buf, upto, job,
                   submitted, history>>

(* After the swap the lock is dropped and compaction is attempted.         *)
IndexCommit(t) ==
    /\ pc[t] = "i_cas"
    /\ CasSucceeds(t)
    /\ meta' = MetaAfterIndexCommit(seen[t], upto[t])
    /\ \/ /\ NoFault
          /\ ReleaseLock(t)
          /\ Goto(t, "c_meta")
          /\ UNCHANGED <<seen, att, buf, upto, job>>
       \/ /\ Fault("error")
          /\ Return(t)
       \/ /\ Fault("resend")
          /\ IndexRetry(t)
    /\ UNCHANGED <<wal, snapshot, idx, submitted, history>>

IndexLoses(t) ==
    /\ pc[t] = "i_cas"
    /\ ~ CasSucceeds(t)
    /\ IndexRetry(t)
    /\ UNCHANGED <<bucket, env, history>>

IndexStep(t) ==
    \/ IndexFetch(t) \/ IndexLoad(t) \/ IndexRead(t) \/ IndexPut(t)
    \/ IndexCheck(t) \/ IndexLock(t) \/ IndexMeta(t) \/ IndexCommit(t)
    \/ IndexLoses(t)
=============================================================================
