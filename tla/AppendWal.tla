------------------------------ MODULE AppendWal ------------------------------
(***************************************************************************)
(* append_wal: a flush task makes one batch durable.  Under the commit     *)
(* lock of its process it reads meta.json, PUTs the batch as the next WAL  *)
(* segment and advances meta.json by compare-and-swap.  When the swap      *)
(* loses it deletes the segment it has just written and starts over.       *)
(***************************************************************************)
EXTENDS NamespaceStore

NextWalSeq(m) == m.wal_commit_seq + 1

(* The segment task t writes, numbered from the metadata it has read.      *)
SegmentOf(t) == NextWalSeq(seen[t])

MetaAfterWalCommit(m) == [m EXCEPT !.wal_commit_seq = NextWalSeq(m)]

(* A flush hands the batch it drained to append_wal.                       *)
AppendStart(t) ==
    /\ pc[t] = "idle"
    /\ \E e \in Entry \ submitted :
         /\ job' = [job EXCEPT ![t] = e]
         /\ submitted' = submitted \cup {e}
    /\ Goto(t, "a_lock")
    /\ UNCHANGED <<bucket, lock, seen, att, buf, upto, faults, history>>

(* Variant: no commit lock.                                                *)
AppendLockSkipped(t) ==
    /\ pc[t] = "a_lock"
    /\ Goto(t, "a_meta")
    /\ UNCHANGED <<bucket, lock, seen, att, buf, upto, job, env, history>>

AppendLock(t) ==
    /\ pc[t] = "a_lock"
    /\ TakeLock(t, "a_meta")
    /\ UNCHANGED <<bucket, seen, att, buf, upto, job, env, history>>

AppendMeta(t) ==
    /\ pc[t] = "a_meta"
    /\ \E m \in {meta, NoMeta} :
         /\ FetchMeta(m)
         /\ NextWalSeq(m) \in Seqs
         /\ seen' = [seen EXCEPT ![t] = m]
    /\ Goto(t, "a_put")
    /\ UNCHANGED <<bucket, lock, att, buf, upto, job, submitted, history>>

(* The PUT is unconditional.  A PUT whose answer is lost is sent again (the *)
(* task stays where it is) or, after the last try, ends the handler.        *)
AppendPut(t) ==
    /\ pc[t] = "a_put"
    /\ wal' = [wal EXCEPT ![SegmentOf(t)] = job[t]]
    /\ \/ /\ NoFault
          /\ Goto(t, "a_cas")
          /\ UNCHANGED <<lock, seen, att, buf, upto, job>>
       \/ /\ Fault("error")
          /\ UNCHANGED <<lock, local>>
       \/ /\ Fault("error")
          /\ Return(t)
    /\ UNCHANGED <<meta, snapshot, idx, submitted, history>>

(* The schema patch or the distance metric of the batch does not fit the   *)
(* metadata: an error after the PUT, before the swap.                      *)
AppendReject(t) ==
    /\ pc[t] = "a_cas"
    /\ Return(t)
    /\ UNCHANGED <<bucket, env, history>>

(* After a lost swap: give up at the last attempt, else clean up.          *)
AppendConflict(t) ==
    \/ /\ att[t] + 1 < META_RETRIES
       /\ Goto(t, "a_del")
       /\ UNCHANGED <<lock, seen, att, buf, upto, job>>
    \/ /\ att[t] + 1 >= META_RETRIES
       /\ Return(t)

(* The swap takes effect; the answer may be lost ("error"), or the client  *)
(* library may send the applied request again and report that one          *)
(* ("resend").                                                             *)
AppendCommit(t) ==
    /\ pc[t] = "a_cas"
    /\ CasSucceeds(t)
    /\ meta' = MetaAfterWalCommit(seen[t])
    /\ log' = Append(log, job[t])
    /\ \/ /\ NoFault
          /\ acked' = acked \cup {[seq |-> SegmentOf(t), entry |-> job[t]]}
          /\ Return(t)
       \/ /\ Fault("error")
          /\ Return(t)
          /\ UNCHANGED acked
       \/ /\ Fault("resend")
          /\ AppendConflict(t)
          /\ UNCHANGED acked
    /\ UNCHANGED <<wal, snapshot, idx, submitted>>

AppendLoses(t) ==
    /\ pc[t] = "a_cas"
    /\ ~ CasSucceeds(t)
    /\ AppendConflict(t)
    /\ UNCHANGED <<bucket, env, history>>

(* The result of the DELETE is ignored.                                    *)
AppendDelete(t) ==
    /\ pc[t] = "a_del"
    /\ \/ wal' = [wal EXCEPT ![SegmentOf(t)] = NoEntry] /\ NoFault
       \/ Fault("error") /\ UNCHANGED wal
    /\ att' = [att EXCEPT ![t] = @ + 1]
    /\ Goto(t, "a_meta")
    /\ UNCHANGED <<meta, snapshot, idx, lock, seen, buf, upto, job, submitted,
                   history>>

AppendStep(t) ==
    \/ AppendLock(t) \/ AppendMeta(t) \/ AppendPut(t) \/ AppendReject(t)
    \/ AppendCommit(t) \/ AppendLoses(t) \/ AppendDelete(t)
=============================================================================
