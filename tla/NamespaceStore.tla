--------------------------- MODULE NamespaceStore ---------------------------
(***************************************************************************)
(* The objects one namespace keeps in the bucket, the tasks of the server  *)
(* processes that work on them, and the requests the tasks send.           *)
(*                                                                         *)
(*   meta      meta.json: commit point, index cursor, snapshot point       *)
(*   wal       wal/{seq}.bin, one batch of writes each                     *)
(*   snapshot  wal/snapshot.bin, the documents after a prefix of the log   *)
(*   idx       index/filter-{n}.bin and index/fts-{n}.bin                  *)
(*                                                                         *)
(* Documents are abstracted to the sequence of batches they were built     *)
(* from: two document maps are equal whenever they replay the same batches *)
(* in the same order, so a lost, repeated or reordered batch is visible.   *)
(***************************************************************************)
EXTENDS Integers, Sequences, FiniteSets

CONSTANTS
    Proc,                       \* server processes sharing the bucket
    Flusher, Indexer, Reader,   \* tasks: flush, background indexer, cold load
    Host,                       \* the process every task runs in
    NoTask,                     \* the holder of a free commit lock
    Entry,                      \* batches of writes
    NoEntry,                    \* an absent WAL object
    META_RETRIES,
    WAL_COMPACTION_THRESHOLD,
    WAL_COMPACT_KEEP,
    MaxSegments,                \* largest segments_per_background_tick result
    MaxSeq,                     \* bound: WAL sequence numbers explored
    Faults,                     \* kinds of failure the environment may cause
    MaxFaults                   \* bound: how many failures happen

Task == Flusher \cup Indexer \cup Reader

FaultKind == {"crash", "error", "timeout", "resend", "misread"}

ASSUME TaskAssumption ==
    /\ Flusher \cap Indexer = {} /\ Flusher \cap Reader = {}
    /\ Indexer \cap Reader = {}
    /\ Host \in [Task -> Proc]
    /\ NoTask \notin Task

ASSUME DataAssumption == NoEntry \notin Entry

ASSUME BoundAssumption ==
    /\ META_RETRIES \in Nat \ {0}
    /\ WAL_COMPACTION_THRESHOLD \in Nat
    /\ WAL_COMPACT_KEEP \in Nat
    /\ MaxSegments \in Nat \ {0}
    /\ MaxSeq \in Nat /\ MaxFaults \in Nat
    /\ Faults \subseteq FaultKind

VARIABLES
    meta, wal, snapshot, idx,   \* objects in the bucket
    lock,                       \* commit lock of each process
    pc, seen, att, buf, upto, job,  \* local state of each task
    submitted, faults,          \* what the environment has done so far
    log, acked                  \* history: batches committed, batches ACKed

bucket == <<meta, wal, snapshot, idx>>
local == <<pc, seen, att, buf, upto, job>>
env == <<submitted, faults>>
history == <<log, acked>>
vars == <<bucket, lock, local, env, history>>

(* The default metadata stands for an absent meta.json: the first commit   *)
(* writes wal_commit_seq = 1, so no stored object equals it.               *)
NoMeta == [wal_commit_seq |-> 0, index_cursor |-> 0, wal_snapshot_seq |-> 0]

NamespaceMeta == [wal_commit_seq : 0..MaxSeq, index_cursor : 0..MaxSeq,
                  wal_snapshot_seq : 0..MaxSeq]

NoSnapshot == [seq |-> 0, docs |-> <<>>]

Seqs == 1..MaxSeq

FlushPc == {"a_lock", "a_meta", "a_put", "a_cas", "a_del"}
IndexPc == {"i_fetch", "i_load", "i_read", "i_put", "i_check", "i_lock",
            "i_meta", "i_cas"}
CompactPc == {"c_meta", "c_lock", "c_fetch", "c_snap", "c_read", "c_put",
              "c_cas", "c_del"}
LoadPc == {"r_snap", "r_read", "r_done"}

Init ==
    /\ meta = NoMeta
    /\ wal = [n \in Seqs |-> NoEntry]
    /\ snapshot = NoSnapshot
    /\ idx = [n \in Seqs |-> <<>>]
    /\ lock = [p \in Proc |-> NoTask]
    /\ pc = [t \in Task |-> "idle"]
    /\ seen = [t \in Task |-> NoMeta]
    /\ att = [t \in Task |-> 0]
    /\ buf = [t \in Task |-> <<>>]
    /\ upto = [t \in Task |-> 0]
    /\ job = [t \in Task |-> NoEntry]
    /\ submitted = {} /\ faults = 0
    /\ log = <<>> /\ acked = {}

-----------------------------------------------------------------------------
(* Steps shared by the tasks.                                              *)

Goto(t, l) == pc' = [pc EXCEPT ![t] = l]

NoFault == UNCHANGED faults

Fault(kind) == kind \in Faults /\ faults < MaxFaults /\ faults' = faults + 1

(* Task t waits for the commit lock of its process.                        *)
TakeLock(t, next) ==
    /\ lock[Host[t]] = NoTask
    /\ lock' = [lock EXCEPT ![Host[t]] = t]
    /\ Goto(t, next)

ReleaseLock(t) ==
    lock' = [lock EXCEPT ![Host[t]] = IF @ = t THEN NoTask ELSE @]

(* Every way out of a handler drops the lock guard and the local state.    *)
Leave(S) ==
    /\ pc' = [t \in Task |-> IF t \in S THEN "idle" ELSE pc[t]]
    /\ seen' = [t \in Task |-> IF t \in S THEN NoMeta ELSE seen[t]]
    /\ att' = [t \in Task |-> IF t \in S THEN 0 ELSE att[t]]
    /\ buf' = [t \in Task |-> IF t \in S THEN <<>> ELSE buf[t]]
    /\ upto' = [t \in Task |-> IF t \in S THEN 0 ELSE upto[t]]
    /\ job' = [t \in Task |-> IF t \in S THEN NoEntry ELSE job[t]]
    /\ lock' = [p \in Proc |-> IF lock[p] \in S THEN NoTask ELSE lock[p]]

Return(t) == Leave({t})

(* GET meta.json: its content, or "absent" after an error the client does  *)
(* not name, which get_meta_json takes for a missing object.               *)
FetchMeta(m) ==
    \/ m = meta /\ NoFault
    \/ m = NoMeta /\ m # meta /\ Fault("misread")

(* Variant: the PUT carries no condition.                                  *)
CasIgnored(t) == TRUE

(* PUT meta.json with if_match (or if_none_match "*" when it was absent):  *)
(* the ETag of an object stands for its content.                           *)
CasSucceeds(t) == meta = seen[t]

(* A GET or a lock wait that ends the handler, the bucket untouched.       *)
RequestFails(t) ==
    /\ pc[t] \in {"a_meta", "a_put", "a_cas", "i_fetch", "i_load", "i_read",
                  "i_put", "i_check", "i_meta", "i_cas", "c_meta", "c_fetch",
                  "c_snap", "c_read", "c_put", "c_cas", "r_snap", "r_read"}
    /\ Fault("error")
    /\ Return(t)
    /\ UNCHANGED <<bucket, submitted, history>>

(* The process stops: its tasks and its lock are gone, the bucket is not.  *)
Crash(p) ==
    /\ Fault("crash")
    /\ \E t \in Task : Host[t] = p /\ pc[t] # "idle"
    /\ Leave({t \in Task : Host[t] = p})
    /\ UNCHANGED <<bucket, submitted, history>>
=============================================================================
