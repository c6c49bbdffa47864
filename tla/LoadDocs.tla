------------------------------ MODULE LoadDocs ------------------------------
(***************************************************************************)
(* load_docs_at_wal_commit: a task that opens the namespace reads          *)
(* meta.json, takes wal/snapshot.bin as a base when it is exactly the      *)
(* snapshot meta.json names, and replays the segments after it.  It holds  *)
(* no lock, so commits, indexing and compaction run between its reads.     *)
(***************************************************************************)
EXTENDS NamespaceStore

(* Variant: any snapshot is a base.                                        *)
LoadBaseAny(m, snap) ==
    IF m.wal_snapshot_seq > 0 THEN snap.docs ELSE <<>>

(* A snapshot is a base only if it is the one the metadata names.          *)
LoadBase(m, snap) ==
    IF m.wal_snapshot_seq > 0 /\ snap.seq = m.wal_snapshot_seq
    THEN snap.docs ELSE <<>>

(* No meta.json means an empty namespace.                                  *)
LoadStart(t) ==
    /\ pc[t] = "idle"
    /\ \E m \in {meta, NoMeta} :
         /\ FetchMeta(m)
         /\ seen' = [seen EXCEPT ![t] = m]
         /\ Goto(t, IF m = NoMeta THEN "r_done" ELSE "r_snap")
    /\ UNCHANGED <<bucket, lock, att, buf, upto, job, submitted, history>>

LoadSnapshot(t) ==
    /\ pc[t] = "r_snap"
    /\ buf' = [buf EXCEPT ![t] = LoadBase(seen[t], snapshot)]
    /\ Goto(t, "r_read")
    /\ UNCHANGED <<bucket, lock, seen, att, upto, job, env, history>>

(* replay_wal_range; a missing segment fails the load.                     *)
LoadRead(t) ==
    /\ pc[t] = "r_read"
    /\ LET n == Len(buf[t]) + 1
           to == seen[t].wal_commit_seq IN
         \/ /\ n <= to /\ wal[n] # NoEntry
            /\ buf' = [buf EXCEPT ![t] = Append(@, wal[n])]
            /\ UNCHANGED <<lock, pc, seen, att, upto, job>>
         \/ /\ n <= to /\ wal[n] = NoEntry
            /\ Return(t)
         \/ /\ n > to
            /\ Goto(t, "r_done")
            /\ UNCHANGED <<lock, seen, att, buf, upto, job>>
    /\ UNCHANGED <<bucket, env, history>>

LoadReturn(t) ==
    /\ pc[t] = "r_done"
    /\ Return(t)
    /\ UNCHANGED <<bucket, env, history>>

LoadStep(t) == LoadSnapshot(t) \/ LoadRead(t) \/ LoadReturn(t)
=============================================================================
