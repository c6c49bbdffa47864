-------------------------- MODULE NamespaceProofs ---------------------------
(***************************************************************************)
(* Proofs about Namespace.  First what a step of one task leaves alone in  *)
(* the bucket and in the other tasks; then that every step of append_wal,  *)
(* of index_wal_range, of compaction, of a document load and of a crash    *)
(* preserves IInv.  So IInv is inductive with one server process and a     *)
(* client library that reports what a request did, whatever the numbers of *)
(* tasks, batches, segments, retries and failures; last, what follows.     *)
(***************************************************************************)
EXTENDS NamespaceInv, TLAPS

AllPc == {"idle"} \cup FlushPc \cup IndexPc \cup CompactPc \cup LoadPc

(* What a step of other tasks must respect for what task u knows to stay   *)
(* true: u's own variables, the log so far, and the bucket if u holds the  *)
(* lock.                                                                   *)
Respects(u) ==
    /\ pc'[u] = pc[u] /\ seen'[u] = seen[u] /\ buf'[u] = buf[u]
    /\ upto'[u] = upto[u] /\ job'[u] = job[u]
    /\ log' \in Seq(Entry) /\ Len(log') >= Len(log)
    /\ \A n \in 1..Len(log) : log'[n] = log[n]
    /\ submitted \subseteq submitted'
    /\ \A n \in Seqs : idx[n] # <<>> => idx'[n] # <<>>
    /\ pc[u] \in LockedPc => /\ meta' = meta /\ wal' = wal
                             /\ snapshot' = snapshot
                             /\ lock'[Host[u]] = u
    /\ pc[u] \in FlushPc =>
         /\ \A n \in 1..Len(log') : log'[n] # job[u]
         /\ \A v \in Flusher : v # u /\ pc'[v] \in FlushPc => job'[v] # job[u]

(* What task u knows survives a step that respects u.                      *)
LEMMA Frame ==
    ASSUME IInv, NEW u \in Task, Respects(u)
    PROVE  TaskInv(u)'
<1> USE DEF Respects
<1>t. TaskInv(u) /\ TypeOK
  BY Zenon DEF IInv
<1>1. PcInv(u)'
  BY <1>t, Zenon DEF TaskInv, PcInv
<1>2. JobInv(u)'
  BY <1>t, Zenon DEF TaskInv, JobInv, LockedPc
<1>3. RangeInv(u)'
  <2>1. /\ seen[u].index_cursor \in 0..MaxSeq
        /\ Len(log) \in Nat /\ Len(log') \in Nat
    BY SMTT(30), <1>t DEF TypeOK, NamespaceMeta
  <2>2. pc[u] \in IndexPc \ {"i_fetch"} => upto[u] \in Seqs /\ upto[u] <= Len(log')
    BY <1>t, <2>1, BoundAssumption DEF TaskInv, RangeInv, Seqs
  <2>3. pc[u] = "i_load" =>
          (seen[u].index_cursor > 0 => idx'[seen[u].index_cursor] # <<>>)
    BY <1>t, <2>1, BoundAssumption DEF TaskInv, RangeInv, Seqs
  <2>4. pc[u] \in {"i_check", "i_lock", "i_meta", "i_cas"} => idx'[upto[u]] # <<>>
    BY <1>t, <2>2, Zenon DEF TaskInv, RangeInv, IndexPc
  <2> QED
    BY <1>t, <2>2, <2>3, <2>4, Zenon DEF TaskInv, RangeInv
<1>4. CompactInv(u)'
  BY <1>t, Zenon DEF TaskInv, CompactInv, LockedPc
<1>5. LoadInv(u)'
  BY <1>t, Zenon DEF TaskInv, LoadInv
<1>6. PrefixOfLog(buf[u])'
  <2>1. /\ Len(buf[u]) \in Nat /\ Len(log) \in Nat /\ Len(log') \in Nat
        /\ PrefixOfLog(buf[u])
    BY <1>t DEF TaskInv, TypeOK
  <2>2. \A n \in 1..Len(buf[u]) : n \in 1..Len(log) /\ buf[u][n] = log[n]
    BY <2>1 DEF PrefixOfLog
  <2>3. Len(buf[u]) <= Len(log') /\ \A n \in 1..Len(buf[u]) : buf[u][n] = log'[n]
    BY <2>1, <2>2 DEF PrefixOfLog
  <2> QED
    BY <2>3, Zenon DEF PrefixOfLog
<1>7. PastMeta(seen[u])'
  BY SMTT(30), <1>t DEF TaskInv, PastMeta, TypeOK, NamespaceMeta
<1>8. pc'[u] \in LockedPc => lock'[Host[u]] = u
  OBVIOUS
<1>9. pc'[u] \in FreshPc => seen'[u] = meta'
  BY <1>t, Zenon DEF TaskInv, LockedPc, FreshPc
<1> QED
  BY <1>1, <1>2, <1>3, <1>4, <1>5, <1>6, <1>7, <1>8, <1>9, Zenon DEF TaskInv

(* Two tasks of the one process never hold the commit lock together.       *)
LEMMA MutualExclusion ==
    ASSUME IInv, SingleInstance, NEW t \in Task, NEW u \in Task, t # u,
           pc[t] \in LockedPc
    PROVE  pc[u] \notin LockedPc
<1>1. Host[t] = Host[u]
  BY TaskAssumption, Zenon DEF SingleInstance
<1> QED
  BY <1>1, Zenon DEF IInv, TaskInv

(* Only task t moves: the variables of the others, and the lock if one of  *)
(* them holds it, stay.                                                    *)
OnlyTask(t) ==
    \A u \in Task \ {t} :
        /\ pc'[u] = pc[u] /\ seen'[u] = seen[u] /\ buf'[u] = buf[u]
        /\ upto'[u] = upto[u] /\ job'[u] = job[u]
        /\ lock[Host[u]] = u => lock'[Host[u]] = u

(* What task t may do to what the tasks share.                             *)
SharedStep(t) ==
    /\ log' \in Seq(Entry) /\ Len(log') >= Len(log)
    /\ \A n \in 1..Len(log) : log'[n] = log[n]
    /\ submitted \subseteq submitted'
    /\ \A n \in Seqs : idx[n] # <<>> => idx'[n] # <<>>
    /\ UNCHANGED <<meta, wal, snapshot>> \/ pc[t] \in LockedPc
    /\ \A u \in Flusher \ {t} : pc[u] \in FlushPc =>
         /\ \A n \in 1..Len(log') : log'[n] # job[u]
         /\ t \in Flusher /\ pc'[t] \in FlushPc => job'[t] # job[u]

(* Every other task still knows what it knew.                              *)
LEMMA Others ==
    ASSUME IInv, SingleInstance, NEW t \in Task, OnlyTask(t), SharedStep(t)
    PROVE  \A u \in Task \ {t} : TaskInv(u)'
<1> SUFFICES ASSUME NEW u \in Task \ {t} PROVE TaskInv(u)'
  OBVIOUS
<1>1. Respects(u)
  <2>1. pc[u] \in LockedPc => /\ meta' = meta /\ wal' = wal
                              /\ snapshot' = snapshot
                              /\ lock'[Host[u]] = u
    BY MutualExclusion, Zenon DEF OnlyTask, SharedStep, IInv, TaskInv
  <2>2. ASSUME pc[u] \in FlushPc
        PROVE  /\ u \in Flusher
               /\ \A v \in Flusher : v # u /\ pc'[v] \in FlushPc => job'[v] # job[u]
    <3>1. u \in Flusher
      BY <2>2, TaskAssumption, Zenon
         DEF IInv, TaskInv, PcInv, FlushPc, IndexPc, CompactPc, LoadPc, Task
    <3>2. ASSUME NEW v \in Flusher, v # u, v # t, pc'[v] \in FlushPc
          PROVE  job'[v] # job[u]
      BY <2>2, <3>1, <3>2 DEF OnlyTask, IInv, TaskInv, JobInv, Task
    <3> QED
      BY <2>2, <3>1, <3>2, Zenon DEF SharedStep
  <2> QED
    BY <2>1, <2>2, Zenon DEF Respects, OnlyTask, SharedStep
<1> QED
  BY <1>1, Frame, Zenon

(* The bucket and the history unchanged, the bucket part of the invariant  *)
(* holds as before.                                                        *)
LEMMA QuietBucket ==
    ASSUME IInv, UNCHANGED <<bucket, history>>, submitted \subseteq submitted'
    PROVE  BucketInv'
<1> USE DEF bucket, history, IInv
<1>1. MetaOrdered' /\ WalInv' /\ AckedInv' /\ CommittedOnce'
  BY Zenon DEF BucketInv, MetaOrdered, WalInv, AckedInv, CommittedOnce
<1>2. SnapshotInv' /\ IndexInv'
  BY Zenon DEF BucketInv, SnapshotInv, IndexInv, PrefixOfLog
<1>3. \A n \in 1..Len(log') : log'[n] \in submitted'
  BY Zenon DEF BucketInv
<1> QED
  BY <1>1, <1>2, <1>3, Zenon DEF BucketInv

(* A step in which task t only reads.                                      *)
LEMMA QuietStep ==
    ASSUME IInv, SingleInstance, NEW t \in Task, OnlyTask(t), TypeOK',
           UNCHANGED <<bucket, submitted, history>>, TaskInv(t)',
           pc'[t] \in FlushPc => pc[t] \in FlushPc /\ job'[t] = job[t]
    PROVE  IInv'
<1>1. BucketInv'
  BY QuietBucket, Zenon
<1>2. SharedStep(t)
  <2>1. log' = log /\ idx' = idx /\ submitted' = submitted
    BY Zenon DEF history, bucket
  <2>2. UNCHANGED <<meta, wal, snapshot>>
    BY Zenon DEF bucket
  <2>3. log \in Seq(Entry) /\ Len(log) \in Nat
    BY DEF IInv, TypeOK
  <2>4. ASSUME NEW u \in Flusher \ {t}, pc[u] \in FlushPc
        PROVE  /\ \A n \in 1..Len(log) : log[n] # job[u]
               /\ t \in Flusher /\ pc'[t] \in FlushPc => job'[t] # job[u]
    BY <2>4 DEF IInv, TaskInv, JobInv, Task
  <2> QED
    BY <2>1, <2>2, <2>3, <2>4 DEF SharedStep
<1> QED
  BY <1>1, <1>2, Others, Zenon DEF IInv

-----------------------------------------------------------------------------
(* Leaving a handler.                                                      *)

LocalTypeOK ==
    /\ lock \in [Proc -> Task \cup {NoTask}]
    /\ pc \in [Task -> AllPc]
    /\ seen \in [Task -> NamespaceMeta]
    /\ att \in [Task -> 0..META_RETRIES]
    /\ buf \in [Task -> Seq(Entry)]
    /\ upto \in [Task -> Nat]
    /\ job \in [Task -> Entry \cup {NoEntry}]

(* Counting a failure keeps the count within its bound.                    *)
LEMMA FaultType ==
    ASSUME TypeOK, NoFault \/ (\E k \in FaultKind : Fault(k))
    PROVE  faults' \in 0..MaxFaults
BY BoundAssumption DEF TypeOK, NoFault, Fault

(* Leaving a handler (return, crash or time-out) keeps the type of every   *)
(* task and of the lock.                                                   *)
LEMMA LeaveType ==
    ASSUME TypeOK, NEW S \in SUBSET Task, Leave(S)
    PROVE  LocalTypeOK'
<1>1. /\ NoMeta \in NamespaceMeta /\ 0 \in 0..META_RETRIES
      /\ <<>> \in Seq(Entry) /\ "idle" \in AllPc
  BY BoundAssumption DEF NoMeta, NamespaceMeta, AllPc
<1>2. lock' \in [Proc -> Task \cup {NoTask}] /\ pc' \in [Task -> AllPc]
  BY <1>1, Zenon DEF Leave, TypeOK, AllPc
<1>3. seen' \in [Task -> NamespaceMeta] /\ att' \in [Task -> 0..META_RETRIES]
  BY <1>1, Zenon DEF Leave, TypeOK
<1>4. buf' \in [Task -> Seq(Entry)] /\ upto' \in [Task -> Nat]
  BY <1>1, Zenon DEF Leave, TypeOK
<1>5. job' \in [Task -> Entry \cup {NoEntry}]
  BY Zenon DEF Leave, TypeOK
<1> QED
  BY <1>2, <1>3, <1>4, <1>5, Zenon DEF LocalTypeOK

(* A task that has left knows nothing, truly.                              *)
LEMMA LeaveTask ==
    ASSUME NEW S \in SUBSET Task, NEW t \in S, Leave(S), log' \in Seq(Entry)
    PROVE  TaskInv(t)'
<1>1. pc'[t] = "idle" /\ seen'[t] = NoMeta /\ buf'[t] = <<>>
  BY Zenon DEF Leave
<1>2. "idle" \notin FlushPc \cup IndexPc \cup CompactPc \cup LoadPc \cup LockedPc \cup FreshPc
  BY Zenon DEF FlushPc, IndexPc, CompactPc, LoadPc, LockedPc, FreshPc
<1>3. PrefixOfLog(buf[t])'
  BY <1>1 DEF PrefixOfLog
<1>4. PastMeta(seen[t])'
  BY <1>1 DEF PastMeta, NoMeta
<1>5. PcInv(t)' /\ LoadInv(t)'
  BY <1>1, Zenon DEF PcInv, LoadInv
<1>6. JobInv(t)'
  BY <1>1, <1>2, Zenon DEF JobInv
<1>7. RangeInv(t)' /\ CompactInv(t)'
  BY <1>1, <1>2, Zenon DEF RangeInv, CompactInv
<1> QED
  BY <1>1, <1>2, <1>3, <1>4, <1>5, <1>6, <1>7, Zenon DEF TaskInv

(* A task that does not leave keeps its local state, and the lock if it    *)
(* holds it.                                                               *)
LEMMA LeaveOthers ==
    ASSUME IInv, NEW S \in SUBSET Task, Leave(S), NEW u \in Task \ S
    PROVE  /\ pc'[u] = pc[u] /\ seen'[u] = seen[u] /\ buf'[u] = buf[u]
           /\ upto'[u] = upto[u] /\ job'[u] = job[u]
           /\ lock[Host[u]] = u => lock'[Host[u]] = u
BY TaskAssumption, Zenon DEF Leave

(* Returning from a handler changes the state of that task only.           *)
LEMMA ReturnOnly ==
    ASSUME IInv, NEW t \in Task, Return(t)
    PROVE  OnlyTask(t) /\ TypeOK /\ pc'[t] = "idle" /\ LocalTypeOK'
<1>1. TypeOK /\ Leave({t}) /\ {t} \in SUBSET Task
  BY Zenon DEF IInv, Return
<1>2. OnlyTask(t)
  BY <1>1, LeaveOthers, Zenon DEF OnlyTask
<1>3. pc'[t] = "idle"
  BY SMTT(30), <1>1 DEF Leave
<1> QED
  BY <1>1, <1>2, <1>3, LeaveType, Zenon

(* With the bucket untouched, only the types of the tasks are in           *)
(* question.                                                               *)
LEMMA TypeFromLocal ==
    ASSUME TypeOK, LocalTypeOK', faults' \in 0..MaxFaults,
           UNCHANGED <<bucket, submitted, history>>
    PROVE  TypeOK'
BY Zenon DEF TypeOK, LocalTypeOK, bucket, history, AllPc

(* The handler ends, the bucket untouched.                                 *)
LEMMA QuietReturn ==
    ASSUME IInv, SingleInstance, NEW t \in Task, Return(t),
           faults' \in 0..MaxFaults, UNCHANGED <<bucket, submitted, history>>
    PROVE  IInv'
<1>1. OnlyTask(t) /\ TypeOK /\ pc'[t] = "idle" /\ LocalTypeOK'
  BY ReturnOnly, Zenon
<1>2. TypeOK'
  BY <1>1, TypeFromLocal, Zenon
<1>3. TaskInv(t)'
  <2>1. Leave({t}) /\ {t} \in SUBSET Task /\ log' \in Seq(Entry)
    BY <1>2, Zenon DEF Return, TypeOK
  <2> QED
    BY <2>1, LeaveTask, Zenon
<1>4. pc'[t] \notin FlushPc
  BY <1>1, Zenon DEF FlushPc
<1> QED
  BY <1>1, <1>2, <1>3, <1>4, QuietStep, Zenon

-----------------------------------------------------------------------------
(* append_wal.                                                             *)

(* With a faithful client a GET of meta.json returns its content.          *)
LEMMA Faithful ==
    ASSUME FaithfulClient
    PROVE  /\ ~ Fault("misread") /\ ~ Fault("resend")
           /\ \A m : FetchMeta(m) => m = meta /\ NoFault
BY Zenon DEF FaithfulClient, Fault, FetchMeta

(* A flush that hands a new batch to append_wal preserves the invariant:   *)
(* no other flush has this batch.                                          *)
LEMMA AppendStartStep ==
    ASSUME IInv, SingleInstance, NEW t \in Flusher, AppendStart(t)
    PROVE  IInv'
<1>1. t \in Task /\ TypeOK /\ TaskInv(t)
  BY Zenon DEF Task, IInv
<1>2. PICK e \in Entry \ submitted :
         job' = [job EXCEPT ![t] = e] /\ submitted' = submitted \cup {e}
  BY Zenon DEF AppendStart
<1>3. /\ pc[t] = "idle" /\ pc' = [pc EXCEPT ![t] = "a_lock"]
      /\ UNCHANGED <<bucket, lock, seen, att, buf, upto, faults, history>>
  BY Zenon DEF AppendStart, Goto
<1>4. TypeOK'
  BY <1>1, <1>2, <1>3, Zenon DEF TypeOK, bucket, history, FlushPc
<1>5. pc'[t] = "a_lock" /\ job'[t] = e
  BY <1>1, <1>2, <1>3, Zenon DEF TypeOK
<1>6. OnlyTask(t)
  BY <1>1, <1>2, <1>3, Zenon DEF OnlyTask, TypeOK
<1>7. \A u \in Flusher \ {t} : pc[u] \in FlushPc => job[u] # e
  BY <1>2, Zenon DEF IInv, TaskInv, JobInv, Task
<1>8. \A n \in 1..Len(log) : log[n] # e
  BY <1>2, Zenon DEF IInv, BucketInv
<1>9. SharedStep(t)
  <2>1. log' = log /\ idx' = idx /\ UNCHANGED <<meta, wal, snapshot>>
    BY <1>3, Zenon DEF bucket, history
  <2>2. log \in Seq(Entry) /\ Len(log) \in Nat
    BY <1>1 DEF TypeOK
  <2>3. \A u \in Flusher \ {t} : pc[u] \in FlushPc =>
           \A n \in 1..Len(log) : log[n] # job[u]
    BY Zenon DEF IInv, TaskInv, JobInv, Task
  <2> QED
    BY <1>2, <1>5, <1>7, <2>1, <2>2, <2>3 DEF SharedStep
<1>10. BucketInv'
  BY <1>2, <1>3, QuietBucket, Zenon
<1>11. TaskInv(t)'
  <2>1. /\ "a_lock" \in FlushPc \ {"a_del"} /\ "a_lock" \notin LockedPc \cup FreshPc
        /\ "a_lock" \notin IndexPc \cup CompactPc \cup LoadPc
    BY Zenon DEF FlushPc, IndexPc, CompactPc, LoadPc, LockedPc, FreshPc
  <2>2. PrefixOfLog(buf[t])' /\ PastMeta(seen[t])'
    BY <1>1, <1>3, Zenon DEF TaskInv, PrefixOfLog, PastMeta, history
  <2>3. PcInv(t)'
    BY <1>5, <2>1, TaskAssumption, Zenon DEF PcInv
  <2>4. JobInv(t)'
    <3>1. \A u \in Flusher : u # t /\ pc'[u] \in FlushPc => job'[u] # job'[t]
      BY <1>5, <1>6, <1>7, Zenon DEF OnlyTask, Task
    <3> QED
      BY <1>2, <1>3, <1>5, <1>8, <3>1 DEF JobInv, history
  <2>5. RangeInv(t)' /\ CompactInv(t)' /\ LoadInv(t)'
    BY <1>5, <2>1, Zenon DEF RangeInv, CompactInv, LoadInv
  <2> QED
    BY <1>5, <2>1, <2>2, <2>3, <2>4, <2>5, Zenon DEF TaskInv
<1> QED
  BY <1>1, <1>4, <1>6, <1>9, <1>10, <1>11, Others, Zenon DEF IInv

(* Taking the free lock disturbs no other task.                            *)
LEMMA LockOnly ==
    ASSUME TypeOK, NEW t \in Task, NEW l \in AllPc, TakeLock(t, l),
           UNCHANGED <<seen, att, buf, upto, job>>
    PROVE  /\ OnlyTask(t) /\ LocalTypeOK'
           /\ pc'[t] = l /\ lock'[Host[t]] = t
<1>1. Host[t] \in Proc /\ \A u \in Task : Host[u] \in Proc /\ u # NoTask
  BY TaskAssumption, Zenon
<1>2. /\ lock[Host[t]] = NoTask /\ lock' = [lock EXCEPT ![Host[t]] = t]
      /\ pc' = [pc EXCEPT ![t] = l]
  BY Zenon DEF TakeLock, Goto
<1>3. OnlyTask(t)
  BY <1>1, <1>2, Zenon DEF OnlyTask, TypeOK
<1>4. LocalTypeOK'
  BY <1>1, <1>2, Zenon DEF TypeOK, LocalTypeOK, AllPc
<1> QED
  BY <1>1, <1>2, <1>3, <1>4, Zenon DEF TypeOK

(* append_wal taking the commit lock preserves the invariant.              *)
LEMMA AppendLockStep ==
    ASSUME IInv, SingleInstance, NEW t \in Flusher, AppendLock(t)
    PROVE  IInv'
<1>1. /\ t \in Task /\ TypeOK /\ TaskInv(t) /\ pc[t] = "a_lock"
      /\ TakeLock(t, "a_meta") /\ "a_meta" \in AllPc
      /\ UNCHANGED <<bucket, seen, att, buf, upto, job, env, history>>
  BY Zenon DEF Task, IInv, AppendLock, AllPc, FlushPc
<1>2. /\ OnlyTask(t) /\ LocalTypeOK'
      /\ pc'[t] = "a_meta" /\ lock'[Host[t]] = t
  BY SMTT(30), <1>1, LockOnly
<1>3. TypeOK'
  BY SMTT(30), <1>1, <1>2, TypeFromLocal DEF env, TypeOK
<1>4. TaskInv(t)'
  <2>1. /\ "a_meta" \in FlushPc \ {"a_del"} /\ "a_meta" \notin FreshPc
        /\ "a_meta" \notin IndexPc \cup CompactPc \cup LoadPc
        /\ "a_lock" \in FlushPc
    BY Zenon DEF FlushPc, IndexPc, CompactPc, LoadPc, FreshPc
  <2>2. PrefixOfLog(buf[t])' /\ PastMeta(seen[t])'
    BY <1>1, Zenon DEF TaskInv, PrefixOfLog, PastMeta, history
  <2>3. PcInv(t)'
    BY SMTT(30), <1>2, <2>1, TaskAssumption DEF PcInv
  <2>4. JobInv(t)'
    BY <1>1, <1>2, <2>1, Zenon DEF TaskInv, JobInv, history, env, OnlyTask, Task
  <2>5. RangeInv(t)' /\ CompactInv(t)' /\ LoadInv(t)'
    BY <1>2, <2>1, Zenon DEF RangeInv, CompactInv, LoadInv
  <2> QED
    BY Zenon, <1>2, <2>1, <2>2, <2>3, <2>4, <2>5 DEF TaskInv
<1>5. pc'[t] \in FlushPc => pc[t] \in FlushPc /\ job'[t] = job[t]
  BY <1>1, Zenon DEF FlushPc
<1> QED
  BY <1>1, <1>2, <1>3, <1>4, <1>5, QuietStep, Zenon DEF env

(* append_wal reading meta.json under the lock preserves the invariant:    *)
(* what it reads stays current.                                            *)
LEMMA AppendMetaStep ==
    ASSUME IInv, SingleInstance, FaithfulClient, NEW t \in Flusher, AppendMeta(t)
    PROVE  IInv'
<1>1. t \in Task /\ TypeOK /\ TaskInv(t) /\ BucketInv
  BY Zenon DEF Task, IInv
<1>2. /\ pc[t] = "a_meta" /\ pc' = [pc EXCEPT ![t] = "a_put"]
      /\ seen' = [seen EXCEPT ![t] = meta] /\ NoFault
      /\ meta.wal_commit_seq + 1 \in Seqs
      /\ UNCHANGED <<bucket, lock, att, buf, upto, job, submitted, history>>
  BY Zenon, Faithful DEF AppendMeta, Goto, NextWalSeq
<1>3. pc'[t] = "a_put" /\ seen'[t] = meta /\ OnlyTask(t)
  BY <1>1, <1>2, Zenon DEF TypeOK, OnlyTask
<1>4. TypeOK'
  BY SMTT(30), <1>1, <1>2 DEF TypeOK, bucket, history, NoFault, FlushPc
<1>5. TaskInv(t)'
  <2>1. /\ "a_put" \in FlushPc \ {"a_del"} /\ "a_put" # "a_cas"
        /\ "a_put" \notin IndexPc \cup CompactPc \cup LoadPc
        /\ "a_meta" \in FlushPc \cap LockedPc
    BY Zenon DEF FlushPc, IndexPc, CompactPc, LoadPc, LockedPc
  <2>2. PrefixOfLog(buf[t])' /\ PastMeta(seen[t])'
    <3>1. PastMeta(meta) /\ PrefixOfLog(buf[t])
      BY <1>1 DEF TaskInv, PastMeta, BucketInv, MetaOrdered, TypeOK, NamespaceMeta
    <3> QED
      BY <1>2, <1>3, <3>1, Zenon DEF PrefixOfLog, PastMeta, history
  <2>3. PcInv(t)'
    BY SMTT(30), <1>3, <2>1, TaskAssumption DEF PcInv
  <2>4. JobInv(t)'
    <3>1. meta.wal_commit_seq < MaxSeq
      BY <1>1, <1>2, BoundAssumption DEF TypeOK, NamespaceMeta, Seqs
    <3> QED
      BY <1>1, <1>2, <1>3, <2>1, <3>1, Zenon DEF TaskInv, JobInv, history, OnlyTask, Task
  <2>5. RangeInv(t)' /\ CompactInv(t)' /\ LoadInv(t)'
    BY SMTT(30), <1>3, <2>1 DEF RangeInv, CompactInv, LoadInv
  <2>6. lock'[Host[t]] = t /\ meta' = meta
    BY <1>1, <1>2, <2>1, Zenon DEF TaskInv, bucket
  <2> QED
    BY <1>3, <2>1, <2>2, <2>3, <2>4, <2>5, <2>6, Zenon DEF TaskInv
<1>6. pc'[t] \in FlushPc => pc[t] \in FlushPc /\ job'[t] = job[t]
  BY SMTT(30), <1>2 DEF FlushPc
<1> QED
  BY <1>1, <1>2, <1>3, <1>4, <1>5, <1>6, QuietStep, Zenon

(* A step of t that writes the bucket and commits nothing.                 *)
LEMMA BucketStep ==
    ASSUME IInv, SingleInstance, NEW t \in Task, OnlyTask(t), TypeOK',
           BucketInv', TaskInv(t)', UNCHANGED <<submitted, history>>,
           UNCHANGED <<meta, wal, snapshot>> \/ pc[t] \in LockedPc,
           \A n \in Seqs : idx[n] # <<>> => idx'[n] # <<>>,
           pc'[t] \in FlushPc => pc[t] \in FlushPc /\ job'[t] = job[t]
    PROVE  IInv'
<1>1. SharedStep(t)
  <2>1. log' = log /\ submitted' = submitted
    BY SMTT(30) DEF history
  <2>2. log \in Seq(Entry) /\ Len(log) \in Nat
    BY SMTT(30) DEF IInv, TypeOK
  <2>3. ASSUME NEW u \in Flusher \ {t}, pc[u] \in FlushPc
        PROVE  /\ \A n \in 1..Len(log) : log[n] # job[u]
               /\ t \in Flusher /\ pc'[t] \in FlushPc => job'[t] # job[u]
    BY SMTT(30), <2>3 DEF IInv, TaskInv, JobInv, Task
  <2> QED
    BY <2>1, <2>2, <2>3 DEF SharedStep
<1> QED
  BY SMTT(30), <1>1, Others DEF IInv

(* The PUT of the segment, once, again or with its answer lost, preserves  *)
(* the invariant: its number is above every committed one.                 *)
LEMMA AppendPutStep ==
    ASSUME IInv, SingleInstance, NEW t \in Flusher, AppendPut(t)
    PROVE  IInv'
<1> DEFINE k == seen[t].wal_commit_seq + 1
<1>1. /\ t \in Task /\ TypeOK /\ TaskInv(t) /\ BucketInv /\ pc[t] = "a_put"
      /\ wal' = [wal EXCEPT ![k] = job[t]]
      /\ UNCHANGED <<meta, snapshot, idx, submitted, history>>
  BY Zenon DEF Task, IInv, AppendPut, SegmentOf, NextWalSeq
<1>2. /\ "a_put" \in FlushPc \cap LockedPc \cap FreshPc
      /\ "a_cas" \in (FlushPc \ {"a_del"}) \cap LockedPc \cap FreshPc
      /\ "a_cas" \notin IndexPc \cup CompactPc \cup LoadPc
      /\ {"a_cas", "a_put"} \subseteq AllPc
  BY Zenon DEF FlushPc, IndexPc, CompactPc, LoadPc, LockedPc, FreshPc, AllPc
<1>3. /\ seen[t] = meta /\ k = Len(log) + 1 /\ k \in Seqs
      /\ job[t] \in Entry /\ lock[Host[t]] = t
  <2>1. seen[t] = meta /\ meta.wal_commit_seq = Len(log) /\ lock[Host[t]] = t
    BY <1>1, <1>2, Zenon DEF TaskInv, BucketInv, MetaOrdered
  <2>2. meta.wal_commit_seq \in 0..MaxSeq /\ seen[t].wal_commit_seq < MaxSeq
    BY <1>1, Zenon DEF TypeOK, NamespaceMeta, TaskInv, JobInv
  <2>3. job[t] \in submitted /\ submitted \subseteq Entry
    BY <1>1, <1>2, Zenon DEF TaskInv, JobInv, TypeOK
  <2> QED
    BY SMTT(30), <2>1, <2>2, <2>3, BoundAssumption DEF Seqs
<1>4. BucketInv'
  <2>1. \A n \in 1..Len(log) : wal'[n] = wal[n]
    BY SMTT(30), <1>1, <1>3 DEF TypeOK, Seqs
  <2>2. WalInv'
    BY <1>1, <2>1, Zenon DEF WalInv, BucketInv, history
  <2>3. MetaOrdered' /\ SnapshotInv' /\ IndexInv' /\ AckedInv' /\ CommittedOnce'
    BY <1>1, Zenon DEF BucketInv, MetaOrdered, SnapshotInv, IndexInv, AckedInv,
                CommittedOnce, PrefixOfLog, history
  <2>4. \A n \in 1..Len(log') : log'[n] \in submitted'
    BY <1>1, Zenon DEF BucketInv, history
  <2> QED
    BY <2>2, <2>3, <2>4, Zenon DEF BucketInv
<1>5. wal' \in [Seqs -> Entry \cup {NoEntry}]
  BY <1>1, <1>3, Zenon DEF TypeOK
<1>6. CASE /\ pc' = [pc EXCEPT ![t] = "a_cas"] /\ NoFault
           /\ UNCHANGED <<lock, seen, att, buf, upto, job>>
  <2>1. TypeOK'
    BY ZenonT(30), <1>1, <1>2, <1>5, <1>6 DEF TypeOK, history, NoFault, AllPc
  <2>2. pc'[t] = "a_cas" /\ OnlyTask(t)
    BY <1>1, <1>6, Zenon DEF TypeOK, OnlyTask
  <2>3. TaskInv(t)'
    <3>1. PrefixOfLog(buf[t])' /\ PastMeta(seen[t])'
      BY Zenon, <1>1, <1>6 DEF TaskInv, PrefixOfLog, PastMeta, history
    <3>2. PcInv(t)'
      BY Zenon, <1>2, <2>2, TaskAssumption DEF PcInv
    <3>3. JobInv(t)'
      <4>1. wal'[k] = job[t]
        BY <1>1, <1>3, Zenon DEF TypeOK
      <4>2. \A u \in Flusher : u # t /\ pc'[u] \in FlushPc => job'[u] # job[t]
        BY ZenonT(30), <1>1, <1>2, <2>2 DEF TaskInv, JobInv, OnlyTask, Task
      <4> QED
        BY <1>1, <1>2, <1>6, <2>2, <4>1, <4>2, Zenon DEF TaskInv, JobInv, history
    <3>4. RangeInv(t)' /\ CompactInv(t)' /\ LoadInv(t)'
      BY Zenon, <1>2, <2>2 DEF RangeInv, CompactInv, LoadInv
    <3> QED
      BY Zenon, <1>1, <1>2, <1>3, <1>6, <2>2, <3>1, <3>2, <3>3, <3>4 DEF TaskInv
  <2> QED
    BY Zenon, <1>1, <1>2, <1>4, <1>6, <2>1, <2>2, <2>3, BucketStep
<1>7. CASE Fault("error") /\ UNCHANGED <<lock, local>>
  <2>1. TypeOK'
    BY ZenonT(30), <1>1, <1>5, <1>7, FaultType DEF TypeOK, history, local, FaultKind
  <2>2. OnlyTask(t) /\ pc'[t] = pc[t]
    BY <1>7, Zenon DEF OnlyTask, local
  <2>3. TaskInv(t)'
    <3>1. PrefixOfLog(buf[t])' /\ PastMeta(seen[t])'
      BY Zenon, <1>1, <1>7 DEF TaskInv, PrefixOfLog, PastMeta, history, local
    <3>2. PcInv(t)'
      BY Zenon, <1>1, <1>7 DEF PcInv, TaskInv, local
    <3>3. JobInv(t)'
      BY Zenon, <1>1, <1>7 DEF TaskInv, JobInv, history, local
    <3>4. RangeInv(t)' /\ CompactInv(t)' /\ LoadInv(t)'
      BY ZenonT(30), <1>1, <1>2, <2>2 DEF RangeInv, CompactInv, LoadInv, IndexPc
    <3> QED
      BY Zenon, <1>1, <1>3, <1>7, <3>1, <3>2, <3>3, <3>4 DEF TaskInv, local
  <2> QED
    BY Zenon, <1>1, <1>2, <1>4, <1>7, <2>1, <2>2, <2>3, BucketStep DEF local
<1>8. CASE Fault("error") /\ Return(t)
  <2>1. OnlyTask(t) /\ pc'[t] = "idle" /\ LocalTypeOK'
    BY <1>1, <1>8, ReturnOnly, Zenon
  <2>2. TypeOK'
    BY Zenon, <1>1, <1>5, <1>8, <2>1, FaultType
       DEF TypeOK, LocalTypeOK, history, FaultKind, AllPc
  <2>3. TaskInv(t)'
    BY Zenon, <1>1, <1>8, <2>2, LeaveTask DEF Return, TypeOK
  <2> QED
    BY ZenonT(30), <1>1, <1>2, <1>4, <2>1, <2>2, <2>3, BucketStep DEF FlushPc
<1> QED
  BY <1>6, <1>7, <1>8, Zenon DEF AppendPut, Goto

(* A prefix of the log is a prefix of every longer log.                    *)
LEMMA PrefixGrows ==
    ASSUME NEW s \in Seq(Entry), log \in Seq(Entry), log' \in Seq(Entry),
           Len(log') >= Len(log), \A n \in 1..Len(log) : log'[n] = log[n],
           Len(s) <= Len(log), \A n \in 1..Len(s) : s[n] = log[n]
    PROVE  Len(s) <= Len(log') /\ \A n \in 1..Len(s) : s[n] = log'[n]
<1>1. Len(s) \in Nat /\ Len(log) \in Nat /\ Len(log') \in Nat
  BY SMTT(30)
<1>2. \A n \in 1..Len(s) : n \in 1..Len(log)
  BY <1>1
<1> QED
  BY SMTT(30), <1>1, <1>2

(* The swap of append_wal preserves the invariant: the log grows by the    *)
(* batch whose segment is in place.                                        *)
LEMMA AppendCommitStep ==
    ASSUME IInv, SingleInstance, FaithfulClient, NEW t \in Flusher, AppendCommit(t)
    PROVE  IInv'
<1> DEFINE k == Len(log) + 1
           e == job[t]
<1>1. /\ t \in Task /\ TypeOK /\ TaskInv(t) /\ BucketInv /\ pc[t] = "a_cas"
      /\ seen[t] = meta /\ log' = Append(log, e)
      /\ UNCHANGED <<wal, snapshot, idx, submitted>>
  BY Zenon DEF Task, IInv, AppendCommit, CasSucceeds
<1>2. /\ "a_cas" \in FlushPc \cap LockedPc
      /\ "idle" \notin FlushPc
  BY Zenon DEF FlushPc, LockedPc
<1>3. /\ log \in Seq(Entry) /\ Len(log) \in Nat /\ meta.wal_commit_seq = Len(log)
      /\ k \in Seqs /\ e \in submitted /\ e \in Entry /\ wal[k] = e
      /\ \A n \in 1..Len(log) : log[n] # e
  <2>1. /\ meta.wal_commit_seq = Len(log) /\ log \in Seq(Entry)
        /\ seen[t].wal_commit_seq < MaxSeq
    BY <1>1, Zenon DEF TaskInv, JobInv, BucketInv, MetaOrdered, TypeOK
  <2>2. /\ e \in submitted /\ submitted \subseteq Entry
        /\ \A n \in 1..Len(log) : log[n] # e
        /\ wal[seen[t].wal_commit_seq + 1] = e
    BY ZenonT(30), <1>1, <1>2 DEF TaskInv, JobInv, TypeOK
  <2> QED
    BY SMTT(30), <1>1, <2>1, <2>2, BoundAssumption DEF Seqs
<1>4. /\ log' \in Seq(Entry) /\ Len(log') = k /\ log'[k] = e
      /\ Len(log') >= Len(log)
      /\ \A n \in 1..Len(log) : log'[n] = log[n]
  <2>1. k = Len(log) + 1
    BY <1>1, <1>3, Zenon
  <2> HIDE DEF k, e
  <2>2. log' = Append(log, e) /\ log \in Seq(Entry) /\ e \in Entry
    BY <1>1, <1>3, Zenon
  <2> QED
    BY <2>1, <2>2, SMTT(30)
<1>5. /\ meta' = [meta EXCEPT !.wal_commit_seq = k] /\ Return(t)
      /\ \/ acked' = acked \cup {[seq |-> k, entry |-> e]} /\ NoFault
         \/ acked' = acked /\ Fault("error")
  BY <1>1, <1>3, Faithful, Zenon
     DEF AppendCommit, MetaAfterWalCommit, NextWalSeq, SegmentOf
<1>6. OnlyTask(t) /\ pc'[t] = "idle" /\ LocalTypeOK'
  BY Zenon, <1>1, <1>5, ReturnOnly
<1>7. TypeOK'
  <2>1. meta' \in NamespaceMeta
    <3>1. k \in 0..MaxSeq /\ meta \in NamespaceMeta
      BY <1>1, <1>3, BoundAssumption DEF TypeOK, Seqs
    <3> HIDE DEF k
    <3> QED
      BY <1>5, <3>1, Zenon DEF NamespaceMeta
  <2>2. acked' \subseteq [seq : Seqs, entry : Entry]
    BY <1>1, <1>3, <1>5 DEF TypeOK
  <2>3. faults' \in 0..MaxFaults
    BY <1>1, <1>5, FaultType, Zenon DEF FaultKind
  <2> QED
    BY ZenonT(30), <1>1, <1>4, <1>6, <2>1, <2>2, <2>3 DEF TypeOK, LocalTypeOK, AllPc
<1>8. BucketInv'
  <2>1. /\ meta'.wal_commit_seq = k /\ meta'.index_cursor = meta.index_cursor
        /\ meta'.wal_snapshot_seq = meta.wal_snapshot_seq
    BY <1>1, <1>5, Zenon DEF TypeOK, NamespaceMeta
  <2>2. MetaOrdered'
    <3>1. /\ meta.wal_snapshot_seq <= meta.index_cursor
          /\ meta.index_cursor <= Len(log)
          /\ meta.index_cursor \in Nat
      BY <1>1, <1>3, BoundAssumption DEF BucketInv, MetaOrdered, TypeOK, NamespaceMeta
    <3> QED
      BY <1>3, <1>4, <2>1, <3>1 DEF MetaOrdered
  <2>3. WalInv'
    <3>1. ASSUME NEW n \in 1..Len(log'), n # k
          PROVE  n \in 1..Len(log) /\ log'[n] = log[n]
      BY SMTT(30), <1>3, <1>4, <3>1
    <3> QED
      BY <1>1, <1>3, <1>4, <2>1, <3>1, Zenon DEF BucketInv, WalInv
  <2>4. SnapshotInv'
    <3>1. snapshot.docs \in Seq(Entry) /\ PrefixOfLog(snapshot.docs)
      BY Zenon, <1>1 DEF TypeOK, BucketInv, SnapshotInv
    <3>2. PrefixOfLog(snapshot.docs)'
      BY <1>1, <1>3, <1>4, <3>1, PrefixGrows, Zenon DEF PrefixOfLog
    <3> QED
      BY <1>1, <2>1, <3>2, Zenon DEF BucketInv, SnapshotInv
  <2>5. IndexInv'
    <3>1. ASSUME NEW n \in Seqs, idx[n] # <<>>
          PROVE  Len(idx[n]) = n /\ PrefixOfLog(idx[n])'
      <4>1. idx[n] \in Seq(Entry) /\ Len(idx[n]) = n /\ PrefixOfLog(idx[n])
        BY <1>1, <3>1, Zenon DEF TypeOK, BucketInv, IndexInv
      <4> QED
        BY <1>1, <1>3, <1>4, <4>1, PrefixGrows, Zenon DEF PrefixOfLog
    <3> QED
      BY Zenon, <1>1, <2>1, <3>1 DEF BucketInv, IndexInv
  <2>6. AckedInv'
    <3>1. \A a \in acked : a.seq \in 1..Len(log) /\ log[a.seq] = a.entry
      BY SMTT(30), <1>1, <1>3 DEF BucketInv, AckedInv, TypeOK, Seqs
    <3> QED
      BY SMTT(30), <1>3, <1>4, <1>5, <3>1 DEF AckedInv
  <2>7. CommittedOnce'
    <3>1. DOMAIN log = 1..Len(log) /\ DOMAIN log' = 1..k
      BY <1>3, <1>4
    <3>2. \A n \in 1..k : n = k \/ n \in 1..Len(log)
      BY <1>3
    <3>3. \A m, n \in 1..Len(log) : log[m] = log[n] => m = n
      BY <1>1, <3>1, Zenon DEF BucketInv, CommittedOnce
    <3> QED
      BY <1>3, <1>4, <3>1, <3>2, <3>3, Zenon DEF CommittedOnce
  <2>8. \A n \in 1..Len(log') : log'[n] \in submitted'
    <3>1. \A n \in 1..k : n = k \/ n \in 1..Len(log)
      BY <1>3
    <3> QED
      BY SMTT(30), <1>1, <1>3, <1>4, <3>1 DEF BucketInv
  <2> QED
    BY <2>2, <2>3, <2>4, <2>5, <2>6, <2>7, <2>8, Zenon DEF BucketInv
<1>9. SharedStep(t)
  <2>1. ASSUME NEW u \in Flusher \ {t}, pc[u] \in FlushPc, NEW n \in 1..Len(log')
        PROVE  log'[n] # job[u]
    <3>1. /\ \A m \in 1..Len(log) : log[m] # job[u]
          /\ job[u] # e
      BY ZenonT(30), <1>1, <1>2, <2>1 DEF IInv, TaskInv, JobInv, Task
    <3>2. n = k \/ n \in 1..Len(log)
      BY <1>3, <1>4
    <3> QED
      BY SMTT(30), <1>4, <3>1, <3>2
  <2>2. Len(log') >= Len(log)
    BY <1>3, <1>4
  <2> QED
    BY Zenon, <1>1, <1>2, <1>4, <1>6, <2>1, <2>2 DEF SharedStep
<1>10. TaskInv(t)'
  BY <1>1, <1>4, <1>5, LeaveTask, Zenon DEF Return
<1> QED
  BY SMTT(30), <1>1, <1>6, <1>7, <1>8, <1>9, <1>10, Others DEF IInv

(* Within one process append_wal never loses the swap.                     *)
LEMMA AppendStepInv ==
    ASSUME IInv, SingleInstance, FaithfulClient, NEW t \in Flusher, AppendStep(t)
    PROVE  IInv'
<1>1. t \in Task /\ TaskInv(t) /\ TypeOK
  BY Zenon DEF Task, IInv
<1>2. CASE AppendReject(t)
  <2>1. UNCHANGED <<bucket, submitted, history>> /\ Return(t) /\ faults' \in 0..MaxFaults
    BY SMTT(30), <1>1, <1>2 DEF AppendReject, env, TypeOK
  <2> QED
    BY <1>1, <2>1, QuietReturn, Zenon
<1>3. ~ AppendLoses(t)
  BY <1>1, Zenon DEF AppendLoses, CasSucceeds, TaskInv, FreshPc
<1>4. ~ AppendDelete(t)
  BY Zenon, <1>1 DEF AppendDelete, TaskInv, PcInv
<1> QED
  BY <1>2, <1>3, <1>4, AppendLockStep, AppendMetaStep, AppendPutStep, AppendCommitStep, Zenon
     DEF AppendStep

-----------------------------------------------------------------------------
(* What is to be shown of an indexer that is at work: the conjuncts about  *)
(* flushes and loads do not concern it.                                    *)
LEMMA IndexerTask ==
    ASSUME NEW t \in Indexer, pc'[t] \in IndexPc \cup CompactPc,
           RangeInv(t)', CompactInv(t)', PrefixOfLog(buf[t])', PastMeta(seen[t])',
           pc'[t] \in LockedPc => lock'[Host[t]] = t,
           pc'[t] \in FreshPc => seen'[t] = meta'
    PROVE  TaskInv(t)' /\ pc'[t] \notin FlushPc
<1>1. pc'[t] \notin FlushPc \cup LoadPc \cup {"idle"}
  BY Zenon DEF FlushPc, IndexPc, CompactPc, LoadPc
<1>2. PcInv(t)'
  BY TaskAssumption, Zenon DEF PcInv
<1>3. JobInv(t)' /\ LoadInv(t)'
  BY <1>1, Zenon DEF JobInv, LoadInv, FlushPc, LoadPc
<1> QED
  BY ZenonT(30), <1>1, <1>2, <1>3 DEF TaskInv

(* An indexer moves on with its segment, its metadata and the lock kept.   *)
LEMMA IndexerMoves ==
    ASSUME IInv, SingleInstance, NEW t \in Indexer,
           NEW l \in IndexPc \cup CompactPc, Goto(t, l), NoFault,
           UNCHANGED <<lock, seen, buf, upto, job>>,
           att' \in [Task -> 0..META_RETRIES],
           UNCHANGED <<bucket, submitted, history>>,
           RangeInv(t)', CompactInv(t)',
           l \in LockedPc => lock[Host[t]] = t,
           l \in FreshPc => seen[t] = meta
    PROVE  IInv'
<1>1. t \in Task /\ TypeOK /\ TaskInv(t) /\ l \in AllPc
  BY Zenon DEF Task, IInv, AllPc
<1>2. pc' = [pc EXCEPT ![t] = l] /\ pc'[t] = l
  BY <1>1, Zenon DEF Goto, TypeOK
<1>3. OnlyTask(t)
  BY <1>1, <1>2, Zenon DEF OnlyTask, TypeOK
<1>4. TypeOK'
  BY Zenon, <1>1, <1>2 DEF TypeOK, AllPc, bucket, history, NoFault
<1>5. PrefixOfLog(buf[t])' /\ PastMeta(seen[t])'
  BY Zenon, <1>1 DEF TaskInv, PrefixOfLog, PastMeta, history
<1>6. TaskInv(t)' /\ pc'[t] \notin FlushPc
  BY Zenon, <1>2, <1>5, IndexerTask DEF bucket
<1> QED
  BY <1>1, <1>3, <1>4, <1>6, QuietStep, Zenon

(* index_wal_range going round its loop, or giving up, preserves the       *)
(* invariant.                                                              *)
LEMMA IndexRetryStep ==
    ASSUME IInv, SingleInstance, NEW t \in Indexer, IndexRetry(t),
           faults' \in 0..MaxFaults, UNCHANGED <<bucket, submitted, history>>
    PROVE  IInv'
<1>1. t \in Task /\ TypeOK /\ TaskInv(t)
  BY Zenon DEF Task, IInv
<1>2. CASE Return(t)
  BY <1>1, <1>2, QuietReturn, Zenon
<1>3. CASE /\ att[t] + 1 < META_RETRIES /\ Goto(t, "i_fetch")
           /\ att' = [att EXCEPT ![t] = @ + 1] /\ ReleaseLock(t)
           /\ UNCHANGED <<seen, buf, upto, job>>
  <2>1. /\ pc' = [pc EXCEPT ![t] = "i_fetch"] /\ pc'[t] = "i_fetch"
        /\ "i_fetch" \in IndexPc /\ "i_fetch" \notin LockedPc \cup FreshPc \cup CompactPc
    BY <1>1, <1>3, Zenon DEF Goto, TypeOK, IndexPc, CompactPc, LockedPc, FreshPc
  <2>2. Host[t] \in Proc /\ lock' = [lock EXCEPT ![Host[t]] = IF @ = t THEN NoTask ELSE @]
    BY <1>1, <1>3, TaskAssumption, Zenon DEF ReleaseLock
  <2>3. OnlyTask(t)
    BY <1>1, <1>3, <2>1, <2>2, TaskAssumption, Zenon DEF OnlyTask, TypeOK
  <2>4. att' \in [Task -> 0..META_RETRIES]
    BY SMTT(30), <1>1, <1>3, BoundAssumption DEF TypeOK
  <2>5. TypeOK'
    BY ZenonT(30), <1>1, <1>3, <2>1, <2>2, <2>4 DEF TypeOK, bucket, history
  <2>6. RangeInv(t)' /\ CompactInv(t)'
    BY <2>1, Zenon DEF RangeInv, CompactInv
  <2>7. PrefixOfLog(buf[t])' /\ PastMeta(seen[t])'
    BY <1>1, <1>3, Zenon DEF TaskInv, PrefixOfLog, PastMeta, history
  <2>8. TaskInv(t)' /\ pc'[t] \notin FlushPc
    BY <2>1, <2>6, <2>7, IndexerTask, Zenon
  <2> QED
    BY <1>1, <2>3, <2>5, <2>8, QuietStep, Zenon
<1> QED
  BY <1>2, <1>3, Zenon DEF IndexRetry

(* The start of an indexing slice preserves the invariant.                 *)
LEMMA IndexStartStep ==
    ASSUME IInv, SingleInstance, NEW t \in Indexer, IndexStart(t)
    PROVE  IInv'
<1>1. /\ "i_fetch" \in IndexPc /\ "i_fetch" \notin LockedPc \cup FreshPc \cup CompactPc
      /\ Goto(t, "i_fetch") /\ t \in Task /\ TypeOK
      /\ UNCHANGED <<bucket, lock, seen, att, buf, upto, job, env, history>>
  BY Zenon DEF IndexStart, IndexPc, CompactPc, LockedPc, FreshPc, Task, IInv
<1>2. pc'[t] = "i_fetch"
  BY <1>1, Zenon DEF Goto, TypeOK
<1>3. RangeInv(t)' /\ CompactInv(t)'
  BY <1>1, <1>2, Zenon DEF RangeInv, CompactInv
<1>4. att' \in [Task -> 0..META_RETRIES] /\ NoFault
  BY <1>1, Zenon DEF TypeOK, NoFault, env
<1> QED
  BY <1>1, <1>3, <1>4, IndexerMoves, Zenon DEF env

(* An indexer changes only variables of its own, and keeps the lock.       *)
LEMMA IndexerReads ==
    ASSUME IInv, SingleInstance, NEW t \in Indexer,
           NEW l \in IndexPc \cup CompactPc, pc' = [pc EXCEPT ![t] = l], NoFault,
           NEW m \in NamespaceMeta, seen' = [seen EXCEPT ![t] = m],
           NEW b \in Seq(Entry), buf' = [buf EXCEPT ![t] = b],
           NEW k \in Nat, upto' = [upto EXCEPT ![t] = k],
           UNCHANGED <<lock, att, job>>, UNCHANGED <<bucket, submitted, history>>,
           RangeInv(t)', CompactInv(t)', PrefixOfLog(b), PastMeta(m),
           l \in LockedPc => lock[Host[t]] = t,
           l \in FreshPc => m = meta
    PROVE  IInv'
<1>1. t \in Task /\ TypeOK /\ TaskInv(t) /\ l \in AllPc
  BY Zenon DEF Task, IInv, AllPc
<1>2. pc'[t] = l /\ seen'[t] = m /\ buf'[t] = b
  BY <1>1, Zenon DEF TypeOK
<1>3. OnlyTask(t)
  BY <1>1, Zenon DEF OnlyTask, TypeOK
<1>4. TypeOK'
  BY Zenon, <1>1 DEF TypeOK, AllPc, bucket, history, NoFault
<1>5. PrefixOfLog(buf[t])' /\ PastMeta(seen[t])'
  BY Zenon, <1>2 DEF PrefixOfLog, PastMeta, history
<1>6. TaskInv(t)' /\ pc'[t] \notin FlushPc
  BY Zenon, <1>2, <1>5, IndexerTask DEF bucket
<1> QED
  BY Zenon, <1>1, <1>3, <1>4, <1>6, QuietStep

(* The metadata in the bucket is metadata some state has had.              *)
LEMMA CurrentMeta ==
    ASSUME IInv
    PROVE  meta \in NamespaceMeta /\ PastMeta(meta)
BY DEF IInv, BucketInv, MetaOrdered, PastMeta, TypeOK, NamespaceMeta

(* Choosing the range from meta.json preserves the invariant: the range    *)
(* ends at or before the commit point.                                     *)
LEMMA IndexFetchStep ==
    ASSUME IInv, SingleInstance, FaithfulClient, NEW t \in Indexer, IndexFetch(t)
    PROVE  IInv'
<1>1. t \in Task /\ TypeOK /\ TaskInv(t) /\ NoFault /\ faults' \in 0..MaxFaults
  BY Faithful, FaultType, Zenon DEF Task, IInv, IndexFetch
<1>2. UNCHANGED <<bucket, submitted, history>>
  BY Zenon DEF IndexFetch
<1>3. CASE Return(t)
  BY <1>1, <1>2, <1>3, QuietReturn, Zenon
<1>4. CASE /\ \E to \in RangeEnd(meta) : upto' = [upto EXCEPT ![t] = to]
           /\ seen' = [seen EXCEPT ![t] = meta] /\ Goto(t, "i_load")
           /\ UNCHANGED <<lock, att, buf, job>>
  <2>1. PICK to \in RangeEnd(meta) : upto' = [upto EXCEPT ![t] = to]
    BY Zenon, <1>4
  <2>2. /\ to \in Seqs /\ to \in Nat /\ meta.index_cursor < to /\ to <= Len(log)
        /\ meta.index_cursor \in 0..MaxSeq
    BY BoundAssumption, <1>1
       DEF RangeEnd, Seqs, IInv, BucketInv, MetaOrdered, TypeOK, NamespaceMeta
  <2>3. /\ pc' = [pc EXCEPT ![t] = "i_load"] /\ "i_load" \in IndexPc
        /\ "i_load" \notin LockedPc \cup FreshPc \cup CompactPc
    BY <1>4, Zenon DEF Goto, IndexPc, CompactPc, LockedPc, FreshPc
  <2>4. pc'[t] = "i_load" /\ seen'[t] = meta /\ upto'[t] = to
    BY <1>1, <1>4, <2>1, <2>3, Zenon DEF TypeOK
  <2>5. buf[t] \in Seq(Entry) /\ buf' = [buf EXCEPT ![t] = buf[t]]
    BY <1>1, <1>4, Zenon DEF TypeOK
  <2>6. RangeInv(t)'
    <3>1. meta.index_cursor > 0 => idx[meta.index_cursor] # <<>>
      BY Zenon DEF IInv, BucketInv, IndexInv
    <3> QED
      BY <1>2, <2>2, <2>4, <3>1, Zenon DEF RangeInv, bucket, history
  <2>7. CompactInv(t)'
    BY SMTT(30), <2>4 DEF CompactInv
  <2>8. PrefixOfLog(buf[t])
    BY <1>1, Zenon DEF TaskInv
  <2> QED
    BY Zenon, <1>1, <1>2, <1>4, <2>1, <2>2, <2>3, <2>5, <2>6, <2>7, <2>8,
       CurrentMeta, IndexerReads
<1> QED
  BY <1>3, <1>4, Faithful, Zenon DEF IndexFetch

(* Loading the segments the metadata names preserves the invariant: they   *)
(* hold a prefix of the log, though the metadata may be old.               *)
LEMMA IndexLoadStep ==
    ASSUME IInv, SingleInstance, NEW t \in Indexer, IndexLoad(t)
    PROVE  IInv'
<1> DEFINE c == seen[t].index_cursor
           b == IF c = 0 THEN <<>> ELSE idx[c]
<1>1. /\ t \in Task /\ TypeOK /\ TaskInv(t) /\ pc[t] = "i_load"
      /\ buf' = [buf EXCEPT ![t] = b] /\ pc' = [pc EXCEPT ![t] = "i_read"]
      /\ UNCHANGED <<bucket, lock, seen, att, upto, job, env, history>>
  BY Zenon DEF Task, IInv, IndexLoad, Goto
<1>2. c \in 0..MaxSeq /\ c < upto[t] /\ upto[t] \in Seqs /\ upto[t] <= Len(log)
      /\ (c > 0 => idx[c] # <<>>)
  BY <1>1, Zenon DEF TypeOK, NamespaceMeta, TaskInv, RangeInv, IndexPc
<1>3. b \in Seq(Entry) /\ PrefixOfLog(b) /\ Len(b) = c
  <2>1. CASE c = 0
    BY <1>1, <2>1 DEF PrefixOfLog, TypeOK
  <2>2. CASE c # 0
    <3>1. c \in Seqs /\ c > 0
      BY <1>2, <2>2, BoundAssumption DEF Seqs
    <3> QED
      BY ZenonT(30), <1>1, <1>2, <2>2, <3>1 DEF TypeOK, IInv, BucketInv, IndexInv
  <2> QED
    BY <2>1, <2>2, Zenon
<1>4. pc'[t] = "i_read" /\ buf'[t] = b
  BY <1>1, Zenon DEF TypeOK
<1>5. RangeInv(t)'
  <2>1. UNCHANGED <<log, idx, seen, upto>> /\ upto[t] \in Seqs /\ upto[t] <= Len(log)
    BY <1>1, <1>2, Zenon DEF history, bucket
  <2>2. Len(b) <= upto[t]
    <3>1. Len(b) = c /\ c \in 0..MaxSeq /\ c < upto[t] /\ upto[t] \in Seqs
      BY <1>2, <1>3, Zenon
    <3> HIDE DEF b, c
    <3> QED
      BY <3>1, BoundAssumption DEF Seqs
  <2> QED
    BY <1>2, <1>4, <2>1, <2>2, ZenonT(30) DEF RangeInv
<1>6. CompactInv(t)'
  BY ZenonT(30), <1>4 DEF CompactInv
<1>7. /\ "i_read" \in IndexPc /\ "i_read" \notin LockedPc \cup FreshPc
      /\ seen[t] \in NamespaceMeta /\ upto[t] \in Nat /\ PastMeta(seen[t]) /\ NoFault
      /\ seen' = [seen EXCEPT ![t] = seen[t]] /\ upto' = [upto EXCEPT ![t] = upto[t]]
  BY <1>1, Zenon DEF IndexPc, LockedPc, FreshPc, TypeOK, TaskInv, NoFault, env
<1> HIDE DEF b, c
<1> QED
  BY Zenon, <1>1, <1>3, <1>5, <1>6, <1>7, IndexerReads DEF env

(* A segment read while replaying the log extends the prefix.              *)
LEMMA ReplayExtends ==
    ASSUME IInv, NEW s \in Seq(Entry), PrefixOfLog(s), Len(s) + 1 <= Len(log),
           wal[Len(s) + 1] # NoEntry
    PROVE  /\ Append(s, wal[Len(s) + 1]) \in Seq(Entry)
           /\ Len(Append(s, wal[Len(s) + 1])) = Len(s) + 1
           /\ PrefixOfLog(Append(s, wal[Len(s) + 1]))
<1> DEFINE n == Len(s) + 1
<1>1. log \in Seq(Entry) /\ Len(log) \in Nat /\ Len(s) \in Nat /\ n \in 1..Len(log)
  BY DEF IInv, TypeOK
<1>2. wal[n] = log[n]
  BY <1>1, Zenon DEF IInv, BucketInv, WalInv
<1>3. wal[n] \in Entry
  BY <1>1, <1>2
<1>4. /\ Append(s, wal[n]) \in Seq(Entry) /\ Len(Append(s, wal[n])) = n
      /\ Append(s, wal[n])[n] = wal[n]
      /\ \A i \in 1..Len(s) : Append(s, wal[n])[i] = s[i]
  BY <1>1, <1>3
<1>5. \A i \in 1..n : i = n \/ i \in 1..Len(s)
  BY <1>1
<1> QED
  BY <1>1, <1>2, <1>4, <1>5, Zenon DEF PrefixOfLog

(* Folding in one WAL segment preserves the invariant.                     *)
LEMMA IndexReadStep ==
    ASSUME IInv, SingleInstance, NEW t \in Indexer, IndexRead(t)
    PROVE  IInv'
<1> DEFINE n == Len(buf[t]) + 1
<1>1. /\ t \in Task /\ TypeOK /\ TaskInv(t) /\ pc[t] = "i_read" /\ NoFault
      /\ UNCHANGED <<bucket, submitted, history>> /\ faults' \in 0..MaxFaults
  BY ZenonT(30) DEF Task, IInv, IndexRead, NoFault, env, TypeOK
<1>2. /\ upto[t] \in Seqs /\ upto[t] \in Nat /\ upto[t] <= Len(log)
      /\ seen[t].index_cursor < upto[t] /\ Len(buf[t]) <= upto[t]
      /\ buf[t] \in Seq(Entry) /\ Len(buf[t]) \in Nat /\ PrefixOfLog(buf[t])
      /\ seen[t] \in NamespaceMeta /\ PastMeta(seen[t])
      /\ Len(log) \in Nat
  BY <1>1 DEF TypeOK, TaskInv, RangeInv, IndexPc
<1>3. /\ {"i_read", "i_put"} \subseteq IndexPc
      /\ {"i_read", "i_put"} \cap (LockedPc \cup FreshPc \cup CompactPc) = {}
  BY Zenon DEF IndexPc, LockedPc, FreshPc, CompactPc
<1>4. CASE /\ n <= upto[t] /\ wal[n] # NoEntry
           /\ buf' = [buf EXCEPT ![t] = Append(@, wal[n])]
           /\ UNCHANGED <<lock, pc, seen, att, upto, job>>
  <2> DEFINE b == Append(buf[t], wal[n])
  <2>1. b \in Seq(Entry) /\ Len(b) = n /\ PrefixOfLog(b)
    <3>1. Len(buf[t]) + 1 <= Len(log)
      BY <1>2, <1>4
    <3> QED
      BY <1>2, <1>4, <3>1, ReplayExtends, Zenon
  <2>2. pc'[t] = "i_read" /\ buf'[t] = b
    BY ZenonT(30), <1>1, <1>4 DEF TypeOK
  <2>3. RangeInv(t)' /\ CompactInv(t)'
    BY <1>1, <1>2, <1>4, <2>1, <2>2, Zenon DEF RangeInv, CompactInv, history
  <2>4. /\ seen' = [seen EXCEPT ![t] = seen[t]] /\ upto' = [upto EXCEPT ![t] = upto[t]]
        /\ pc' = [pc EXCEPT ![t] = "i_read"] /\ buf' = [buf EXCEPT ![t] = b]
    BY <1>1, <1>4, Zenon DEF TypeOK
  <2> HIDE DEF b
  <2> QED
    BY Zenon, <1>1, <1>2, <1>3, <1>4, <2>1, <2>3, <2>4, IndexerReads
<1>5. CASE Return(t)
  BY <1>1, <1>5, QuietReturn, Zenon
<1>6. CASE /\ n > upto[t] /\ Goto(t, "i_put")
           /\ UNCHANGED <<lock, seen, att, buf, upto, job>>
  <2>1. pc'[t] = "i_put" /\ Len(buf[t]) = upto[t]
    BY <1>1, <1>2, <1>6 DEF TypeOK, Goto
  <2>2. RangeInv(t)' /\ CompactInv(t)'
    BY Zenon, <1>1, <1>2, <1>6, <2>1 DEF RangeInv, CompactInv, history
  <2>3. att' \in [Task -> 0..META_RETRIES]
    BY <1>1, <1>6, Zenon DEF TypeOK
  <2> QED
    BY SMTT(30), <1>1, <1>3, <1>6, <2>2, <2>3, IndexerMoves
<1> QED
  BY <1>4, <1>5, <1>6, Zenon DEF IndexRead

(* The PUT of the new index segments preserves the invariant although it   *)
(* happens outside the lock: whoever writes a key writes the same prefix.  *)
LEMMA IndexPutStep ==
    ASSUME IInv, SingleInstance, NEW t \in Indexer, IndexPut(t)
    PROVE  IInv'
<1>1. /\ t \in Task /\ TypeOK /\ TaskInv(t) /\ BucketInv /\ pc[t] = "i_put"
      /\ idx' = [idx EXCEPT ![upto[t]] = buf[t]]
      /\ UNCHANGED <<meta, wal, snapshot, submitted, history>>
  BY Zenon DEF Task, IInv, IndexPut
<1>2. /\ upto[t] \in Seqs /\ upto[t] \in Nat /\ upto[t] > 0 /\ upto[t] <= Len(log)
      /\ Len(buf[t]) = upto[t] /\ buf[t] \in Seq(Entry) /\ PrefixOfLog(buf[t])
      /\ buf[t] # <<>>
  BY <1>1 DEF TypeOK, TaskInv, RangeInv, IndexPc, Seqs
<1>3. /\ idx' \in [Seqs -> Seq(Entry)] /\ idx'[upto[t]] = buf[t]
      /\ \A n \in Seqs : n # upto[t] => idx'[n] = idx[n]
  BY <1>1, <1>2, Zenon DEF TypeOK
<1>4. \A n \in Seqs : idx[n] # <<>> => idx'[n] # <<>>
  BY <1>2, <1>3, Zenon
<1>5. BucketInv'
  <2>1. IndexInv'
    <3>1. \A n \in Seqs : idx'[n] # <<>> => Len(idx'[n]) = n /\ PrefixOfLog(idx'[n])
      BY <1>1, <1>2, <1>3, Zenon DEF BucketInv, IndexInv
    <3>2. meta.index_cursor > 0 => meta.index_cursor \in Seqs
      BY <1>1, BoundAssumption DEF TypeOK, NamespaceMeta, Seqs
    <3> QED
      BY <1>1, <1>4, <3>1, <3>2 DEF BucketInv, IndexInv, PrefixOfLog, history
  <2>2. MetaOrdered' /\ SnapshotInv' /\ WalInv' /\ AckedInv' /\ CommittedOnce'
    BY Zenon, <1>1 DEF BucketInv, MetaOrdered, SnapshotInv, WalInv, AckedInv,
                CommittedOnce, PrefixOfLog, history
  <2>3. \A n \in 1..Len(log') : log'[n] \in submitted'
    BY Zenon, <1>1 DEF BucketInv, history
  <2> QED
    BY SMTT(30), <2>1, <2>2, <2>3 DEF BucketInv
<1>6. CASE /\ NoFault /\ Goto(t, "i_check")
           /\ UNCHANGED <<lock, seen, att, buf, upto, job>>
  <2>1. /\ pc' = [pc EXCEPT ![t] = "i_check"] /\ pc'[t] = "i_check"
        /\ "i_check" \in IndexPc /\ "i_check" \notin LockedPc \cup FreshPc
    BY <1>1, <1>6, Zenon DEF Goto, TypeOK, IndexPc, LockedPc, FreshPc
  <2>2. OnlyTask(t)
    BY <1>1, <1>6, <2>1, Zenon DEF OnlyTask, TypeOK
  <2>3. TypeOK'
    BY Zenon, <1>1, <1>3, <1>6, <2>1 DEF TypeOK, history, NoFault
  <2>4. RangeInv(t)' /\ CompactInv(t)'
    BY Zenon, <1>1, <1>2, <1>3, <1>6, <2>1 DEF RangeInv, CompactInv, history
  <2>5. PrefixOfLog(buf[t])' /\ PastMeta(seen[t])'
    BY Zenon, <1>1, <1>6 DEF TaskInv, PrefixOfLog, PastMeta, history
  <2>6. TaskInv(t)' /\ pc'[t] \notin FlushPc
    BY ZenonT(30), <2>1, <2>4, <2>5, IndexerTask
  <2> QED
    BY ZenonT(30), <1>1, <1>4, <1>5, <2>2, <2>3, <2>6, BucketStep
<1>7. CASE Fault("error") /\ Return(t)
  <2>1. OnlyTask(t) /\ pc'[t] = "idle" /\ LocalTypeOK'
    BY <1>1, <1>7, ReturnOnly, Zenon
  <2>2. TypeOK'
    BY Zenon, <1>1, <1>3, <1>7, <2>1, FaultType
       DEF TypeOK, LocalTypeOK, history, FaultKind, AllPc
  <2>3. TaskInv(t)'
    BY ZenonT(30), <1>1, <1>7, <2>2, LeaveTask DEF Return, TypeOK
  <2> QED
    BY ZenonT(30), <1>1, <1>4, <1>5, <2>1, <2>2, <2>3, BucketStep DEF FlushPc
<1> QED
  BY Zenon, <1>6, <1>7 DEF IndexPut

(* The look at meta.json before the lock preserves the invariant.          *)
LEMMA IndexCheckStep ==
    ASSUME IInv, SingleInstance, FaithfulClient, NEW t \in Indexer, IndexCheck(t)
    PROVE  IInv'
<1>1. /\ t \in Task /\ TypeOK /\ TaskInv(t) /\ pc[t] = "i_check" /\ NoFault
      /\ UNCHANGED <<bucket, submitted, history>> /\ faults' \in 0..MaxFaults
  BY Faithful, FaultType, Zenon DEF Task, IInv, IndexCheck
<1>2. CASE Return(t)
  BY <1>1, <1>2, QuietReturn, Zenon
<1>3. CASE IndexRetry(t)
  BY Zenon, <1>1, <1>3, IndexRetryStep
<1>4. CASE Goto(t, "i_lock") /\ UNCHANGED <<lock, seen, att, buf, upto, job>>
  <2>1. /\ pc'[t] = "i_lock" /\ "i_lock" \in IndexPc
        /\ "i_lock" \notin LockedPc \cup FreshPc
    BY <1>1, <1>4, Zenon DEF Goto, TypeOK, IndexPc, LockedPc, FreshPc
  <2>2. RangeInv(t)' /\ CompactInv(t)'
    BY Zenon, <1>1, <1>4, <2>1 DEF TaskInv, RangeInv, IndexPc, CompactInv, history, bucket
  <2>3. att' \in [Task -> 0..META_RETRIES]
    BY <1>1, <1>4, Zenon DEF TypeOK
  <2> QED
    BY Zenon, <1>1, <1>4, <2>1, <2>2, <2>3, IndexerMoves
<1> QED
  BY Zenon, <1>2, <1>3, <1>4, Faithful DEF IndexCheck

(* An indexer takes the commit lock.                                       *)
LEMMA IndexerLocks ==
    ASSUME IInv, SingleInstance, NEW t \in Indexer,
           NEW l \in IndexPc \cup CompactPc, l \notin FreshPc, TakeLock(t, l),
           UNCHANGED <<bucket, seen, att, buf, upto, job, env, history>>,
           RangeInv(t)', CompactInv(t)'
    PROVE  IInv'
<1>1. t \in Task /\ TypeOK /\ TaskInv(t) /\ l \in AllPc
  BY Zenon DEF Task, IInv, AllPc
<1>2. OnlyTask(t) /\ LocalTypeOK' /\ pc'[t] = l /\ lock'[Host[t]] = t
  BY Zenon, <1>1, LockOnly
<1>3. TypeOK'
  BY Zenon, <1>1, <1>2, TypeFromLocal DEF env, TypeOK
<1>4. PrefixOfLog(buf[t])' /\ PastMeta(seen[t])'
  BY Zenon, <1>1 DEF TaskInv, PrefixOfLog, PastMeta, history
<1>5. TaskInv(t)' /\ pc'[t] \notin FlushPc
  BY Zenon, <1>2, <1>4, IndexerTask
<1> QED
  BY <1>1, <1>2, <1>3, <1>5, QuietStep, Zenon DEF env

(* index_wal_range taking the commit lock preserves the invariant.         *)
LEMMA IndexLockStep ==
    ASSUME IInv, SingleInstance, NEW t \in Indexer, IndexLock(t)
    PROVE  IInv'
<1>1. /\ t \in Task /\ TypeOK /\ TaskInv(t) /\ pc[t] = "i_lock"
      /\ TakeLock(t, "i_meta") /\ "i_meta" \in IndexPc /\ "i_meta" \notin FreshPc
      /\ UNCHANGED <<bucket, seen, att, buf, upto, job, env, history>>
  BY Zenon DEF Task, IInv, IndexLock, IndexPc, FreshPc
<1>2. pc'[t] = "i_meta"
  BY <1>1, Zenon DEF TakeLock, Goto, TypeOK
<1>3. RangeInv(t)' /\ CompactInv(t)'
  BY Zenon, <1>1, <1>2 DEF TaskInv, RangeInv, IndexPc, CompactInv, history, bucket
<1> QED
  BY <1>1, <1>3, IndexerLocks, Zenon

(* Reading meta.json under the lock preserves the invariant.               *)
LEMMA IndexMetaStep ==
    ASSUME IInv, SingleInstance, FaithfulClient, NEW t \in Indexer, IndexMeta(t)
    PROVE  IInv'
<1>1. /\ t \in Task /\ TypeOK /\ TaskInv(t) /\ pc[t] = "i_meta" /\ NoFault
      /\ UNCHANGED <<bucket, submitted, history>> /\ faults' \in 0..MaxFaults
  BY Faithful, FaultType, Zenon DEF Task, IInv, IndexMeta
<1>2. CASE Return(t)
  BY <1>1, <1>2, QuietReturn, Zenon
<1>3. CASE IndexRetry(t)
  BY <1>1, <1>3, IndexRetryStep, Zenon
<1>4. CASE /\ meta.index_cursor < upto[t]
           /\ seen' = [seen EXCEPT ![t] = meta] /\ Goto(t, "i_cas")
           /\ UNCHANGED <<lock, att, buf, upto, job>>
  <2>1. /\ pc' = [pc EXCEPT ![t] = "i_cas"] /\ "i_cas" \in IndexPc
        /\ pc'[t] = "i_cas" /\ seen'[t] = meta
    BY <1>1, <1>4, Zenon DEF Goto, TypeOK, IndexPc
  <2>2. RangeInv(t)' /\ CompactInv(t)'
    BY Zenon, <1>1, <1>4, <2>1 DEF TaskInv, RangeInv, IndexPc, CompactInv, history, bucket
  <2>3. /\ buf[t] \in Seq(Entry) /\ buf' = [buf EXCEPT ![t] = buf[t]]
        /\ upto[t] \in Nat /\ upto' = [upto EXCEPT ![t] = upto[t]]
        /\ PrefixOfLog(buf[t]) /\ lock[Host[t]] = t
    BY <1>1, <1>4, Zenon DEF TypeOK, TaskInv, LockedPc
  <2> QED
    BY ZenonT(30), <1>1, <1>4, <2>1, <2>2, <2>3, CurrentMeta, IndexerReads
<1> QED
  BY ZenonT(30), <1>2, <1>3, <1>4, Faithful DEF IndexMeta

(* The swap that moves the cursor preserves the invariant: the segments    *)
(* it names are in the bucket.                                             *)
LEMMA IndexCommitStep ==
    ASSUME IInv, SingleInstance, FaithfulClient, NEW t \in Indexer, IndexCommit(t)
    PROVE  IInv'
<1>1. /\ t \in Task /\ TypeOK /\ TaskInv(t) /\ BucketInv /\ pc[t] = "i_cas"
      /\ seen[t] = meta /\ meta' = [meta EXCEPT !.index_cursor = upto[t]]
      /\ UNCHANGED <<wal, snapshot, idx, submitted, history>>
  BY Zenon DEF Task, IInv, IndexCommit, CasSucceeds, MetaAfterIndexCommit
<1>2. /\ upto[t] \in Seqs /\ upto[t] <= Len(log) /\ meta.index_cursor < upto[t]
      /\ idx[upto[t]] # <<>> /\ pc[t] \in LockedPc
  BY <1>1, Zenon DEF TaskInv, RangeInv, IndexPc, LockedPc
<1>3. /\ meta'.index_cursor = upto[t] /\ meta' \in NamespaceMeta
      /\ meta'.wal_commit_seq = meta.wal_commit_seq
      /\ meta'.wal_snapshot_seq = meta.wal_snapshot_seq
  <2>1. upto[t] \in 0..MaxSeq /\ meta \in NamespaceMeta
    BY <1>1, <1>2, BoundAssumption DEF TypeOK, Seqs
  <2> QED
    BY <1>1, <2>1, Zenon DEF NamespaceMeta
<1>4. BucketInv'
  <2>1. /\ meta.wal_snapshot_seq \in Nat /\ meta.index_cursor \in Nat
        /\ meta.wal_commit_seq \in Nat /\ upto[t] \in Nat /\ snapshot.seq \in Nat
    BY <1>1, <1>2, BoundAssumption DEF TypeOK, NamespaceMeta, Seqs
  <2>2. MetaOrdered'
    BY <1>1, <1>2, <1>3, <2>1 DEF BucketInv, MetaOrdered, history
  <2>3. SnapshotInv'
    BY <1>1, <1>2, <1>3, <2>1 DEF BucketInv, SnapshotInv, PrefixOfLog, history
  <2>4. IndexInv'
    BY <1>1, <1>2, <1>3, Zenon DEF BucketInv, IndexInv, PrefixOfLog, history
  <2>5. WalInv' /\ AckedInv' /\ CommittedOnce'
    BY <1>1, <1>3, Zenon DEF BucketInv, WalInv, AckedInv, CommittedOnce, history
  <2>6. \A n \in 1..Len(log') : log'[n] \in submitted'
    BY <1>1, Zenon DEF BucketInv, history
  <2> QED
    BY <2>2, <2>3, <2>4, <2>5, <2>6, Zenon DEF BucketInv
<1>5. CASE /\ NoFault /\ ReleaseLock(t) /\ Goto(t, "c_meta")
           /\ UNCHANGED <<seen, att, buf, upto, job>>
  <2>1. /\ pc' = [pc EXCEPT ![t] = "c_meta"] /\ pc'[t] = "c_meta"
        /\ "c_meta" \in CompactPc /\ "c_meta" \notin LockedPc \cup FreshPc \cup IndexPc
    BY <1>1, <1>5, Zenon DEF Goto, TypeOK, IndexPc, CompactPc, LockedPc, FreshPc
  <2>2. Host[t] \in Proc /\ lock' = [lock EXCEPT ![Host[t]] = IF @ = t THEN NoTask ELSE @]
    BY <1>1, <1>5, TaskAssumption, Zenon DEF ReleaseLock
  <2>3. OnlyTask(t)
    BY <1>1, <1>5, <2>1, <2>2, TaskAssumption, Zenon DEF OnlyTask, TypeOK
  <2>4. TypeOK'
    BY SMTT(30), <1>1, <1>3, <1>5, <2>1, <2>2 DEF TypeOK, history, NoFault
  <2>5. RangeInv(t)' /\ CompactInv(t)'
    BY <2>1, Zenon DEF RangeInv, CompactInv, IndexPc
  <2>6. PrefixOfLog(buf[t])' /\ PastMeta(seen[t])'
    BY <1>1, <1>5, Zenon DEF TaskInv, PrefixOfLog, PastMeta, history
  <2>7. TaskInv(t)' /\ pc'[t] \notin FlushPc
    BY Zenon, <2>1, <2>5, <2>6, IndexerTask
  <2> QED
    BY <1>1, <1>2, <1>4, <2>3, <2>4, <2>7, BucketStep, Zenon
<1>6. CASE Fault("error") /\ Return(t)
  <2>1. OnlyTask(t) /\ pc'[t] = "idle" /\ LocalTypeOK'
    BY <1>1, <1>6, ReturnOnly, Zenon
  <2>2. TypeOK'
    BY Zenon, <1>1, <1>3, <1>6, <2>1, FaultType
       DEF TypeOK, LocalTypeOK, history, FaultKind, AllPc
  <2>3. TaskInv(t)'
    BY Zenon, <1>1, <1>6, <2>2, LeaveTask DEF Return, TypeOK
  <2> QED
    BY <1>1, <1>2, <1>4, <2>1, <2>2, <2>3, BucketStep, Zenon DEF FlushPc
<1> QED
  BY Zenon, <1>5, <1>6, Faithful DEF IndexCommit

(* No step of index_wal_range breaks the invariant, and within one         *)
(* process it never loses the swap.                                        *)
LEMMA IndexStepInv ==
    ASSUME IInv, SingleInstance, FaithfulClient, NEW t \in Indexer, IndexStep(t)
    PROVE  IInv'
<1>1. t \in Task /\ TaskInv(t)
  BY Zenon DEF Task, IInv
<1>2. ~ IndexLoses(t)
  BY Zenon, <1>1 DEF IndexLoses, CasSucceeds, TaskInv, FreshPc
<1> QED
  BY <1>2, IndexFetchStep, IndexLoadStep, IndexReadStep, IndexPutStep,
     IndexCheckStep, IndexLockStep, IndexMetaStep, IndexCommitStep, Zenon DEF IndexStep

-----------------------------------------------------------------------------
(* Compaction, document loads and crashes.                                 *)

(* The start of compaction preserves the invariant.                        *)
LEMMA CompactStartStep ==
    ASSUME IInv, SingleInstance, NEW t \in Indexer, CompactStart(t)
    PROVE  IInv'
<1>1. /\ "c_meta" \in CompactPc /\ "c_meta" \notin LockedPc \cup FreshPc \cup IndexPc
      /\ Goto(t, "c_meta") /\ t \in Task /\ TypeOK
      /\ UNCHANGED <<bucket, lock, seen, att, buf, upto, job, env, history>>
  BY Zenon DEF CompactStart, IndexPc, CompactPc, LockedPc, FreshPc, Task, IInv
<1>2. pc'[t] = "c_meta" /\ att' \in [Task -> 0..META_RETRIES]
  BY <1>1, Zenon DEF Goto, TypeOK
<1>3. RangeInv(t)' /\ CompactInv(t)'
  BY <1>1, <1>2, Zenon DEF RangeInv, CompactInv, IndexPc
<1> QED
  BY Zenon, <1>1, <1>2, <1>3, IndexerMoves DEF env, NoFault

(* The check before the lock preserves the invariant.                      *)
LEMMA CompactCheckStep ==
    ASSUME IInv, SingleInstance, FaithfulClient, NEW t \in Indexer, CompactCheck(t)
    PROVE  IInv'
<1>1. /\ t \in Task /\ TypeOK /\ NoFault
      /\ UNCHANGED <<bucket, submitted, history>> /\ faults' \in 0..MaxFaults
  BY Faithful, FaultType, Zenon DEF Task, IInv, CompactCheck
<1>2. CASE Return(t)
  BY <1>1, <1>2, QuietReturn, Zenon
<1>3. CASE /\ Goto(t, "c_lock") /\ att' = [att EXCEPT ![t] = 0]
           /\ UNCHANGED <<lock, seen, buf, upto, job>>
  <2>1. /\ pc'[t] = "c_lock" /\ "c_lock" \in CompactPc
        /\ "c_lock" \notin LockedPc \cup FreshPc \cup IndexPc
    BY <1>1, <1>3, Zenon DEF Goto, TypeOK, CompactPc, IndexPc, LockedPc, FreshPc
  <2>2. RangeInv(t)' /\ CompactInv(t)'
    BY <2>1, Zenon DEF RangeInv, CompactInv, IndexPc
  <2>3. att' \in [Task -> 0..META_RETRIES]
    BY <1>1, <1>3, BoundAssumption DEF TypeOK
  <2> QED
    BY <1>1, <1>3, <2>1, <2>2, <2>3, IndexerMoves, Zenon
<1> QED
  BY <1>2, <1>3, Zenon DEF CompactCheck

(* maybe_compact_wal taking the commit lock preserves the invariant.       *)
LEMMA CompactLockStep ==
    ASSUME IInv, SingleInstance, NEW t \in Indexer, CompactLock(t)
    PROVE  IInv'
<1>1. /\ t \in Task /\ TypeOK /\ pc[t] = "c_lock"
      /\ TakeLock(t, "c_fetch") /\ "c_fetch" \in CompactPc
      /\ "c_fetch" \notin FreshPc \cup IndexPc
      /\ UNCHANGED <<bucket, seen, att, buf, upto, job, env, history>>
  BY Zenon DEF Task, IInv, CompactLock, CompactPc, IndexPc, FreshPc
<1>2. pc'[t] = "c_fetch"
  BY <1>1, Zenon DEF TakeLock, Goto, TypeOK
<1>3. RangeInv(t)' /\ CompactInv(t)'
  BY <1>1, <1>2, Zenon DEF RangeInv, CompactInv, IndexPc
<1> QED
  BY <1>1, <1>3, IndexerLocks, Zenon

(* Reading meta.json under the lock preserves the invariant.               *)
LEMMA CompactMetaStep ==
    ASSUME IInv, SingleInstance, FaithfulClient, NEW t \in Indexer, CompactMeta(t)
    PROVE  IInv'
<1>1. /\ t \in Task /\ TypeOK /\ TaskInv(t) /\ pc[t] = "c_fetch" /\ NoFault
      /\ UNCHANGED <<bucket, submitted, history>> /\ faults' \in 0..MaxFaults
  BY Faithful, FaultType, Zenon DEF Task, IInv, CompactMeta
<1>2. CASE Return(t)
  BY <1>1, <1>2, QuietReturn, Zenon
<1>3. CASE /\ NeedsWalCompaction(meta)
           /\ seen' = [seen EXCEPT ![t] = meta] /\ Goto(t, "c_snap")
           /\ UNCHANGED <<lock, att, buf, upto, job>>
  <2>1. /\ pc' = [pc EXCEPT ![t] = "c_snap"] /\ "c_snap" \in CompactPc
        /\ pc'[t] = "c_snap" /\ seen'[t] = meta /\ "c_snap" \notin IndexPc
    BY <1>1, <1>3, Zenon DEF Goto, TypeOK, CompactPc, IndexPc
  <2>2. RangeInv(t)' /\ CompactInv(t)'
    BY Zenon, <1>1, <1>3, <2>1 DEF RangeInv, IndexPc, CompactInv, NeedsWalCompaction,
       ShouldCompactWal
  <2>3. /\ buf[t] \in Seq(Entry) /\ buf' = [buf EXCEPT ![t] = buf[t]]
        /\ upto[t] \in Nat /\ upto' = [upto EXCEPT ![t] = upto[t]]
        /\ PrefixOfLog(buf[t]) /\ lock[Host[t]] = t
    BY <1>1, <1>3, Zenon DEF TypeOK, TaskInv, LockedPc
  <2> QED
    BY ZenonT(30), <1>1, <1>3, <2>1, <2>2, <2>3, CurrentMeta, IndexerReads
<1> QED
  BY <1>2, <1>3, Faithful, Zenon DEF CompactMeta

(* Taking the stored snapshot as base preserves the invariant: it holds a  *)
(* prefix of the log, also when meta.json does not name it.                *)
LEMMA CompactSnapshotStep ==
    ASSUME IInv, SingleInstance, NEW t \in Indexer, CompactSnapshot(t)
    PROVE  IInv'
<1> DEFINE b == IF snapshot.seq <= seen[t].index_cursor THEN snapshot.docs ELSE <<>>
<1>1. /\ t \in Task /\ TypeOK /\ TaskInv(t) /\ BucketInv /\ pc[t] = "c_snap"
      /\ buf' = [buf EXCEPT ![t] = b] /\ pc' = [pc EXCEPT ![t] = "c_read"]
      /\ UNCHANGED <<bucket, lock, seen, att, upto, job, env, history>>
  BY Zenon DEF Task, IInv, CompactSnapshot, Goto
<1>2. /\ seen[t] = meta /\ lock[Host[t]] = t /\ seen[t] \in NamespaceMeta
      /\ seen[t].index_cursor > WAL_COMPACT_KEEP
      /\ PastMeta(seen[t]) /\ upto[t] \in Nat
  BY <1>1, Zenon DEF TaskInv, CompactInv, FreshPc, LockedPc, TypeOK
<1>3. /\ b \in Seq(Entry) /\ PrefixOfLog(b) /\ Len(b) <= seen[t].index_cursor
  BY <1>1, <1>2, Zenon DEF BucketInv, SnapshotInv, TypeOK
<1>4. /\ pc'[t] = "c_read" /\ "c_read" \in CompactPc /\ "c_read" \notin IndexPc
      /\ buf'[t] = b /\ seen'[t] = seen[t]
      /\ seen' = [seen EXCEPT ![t] = seen[t]] /\ upto' = [upto EXCEPT ![t] = upto[t]]
  BY <1>1, Zenon DEF TypeOK, CompactPc, IndexPc
<1>5. RangeInv(t)' /\ CompactInv(t)'
  BY <1>2, <1>3, <1>4, Zenon DEF RangeInv, CompactInv, IndexPc
<1> HIDE DEF b
<1> QED
  BY ZenonT(30), <1>1, <1>2, <1>3, <1>4, <1>5, IndexerReads DEF env, NoFault

(* Replaying one segment on top of the snapshot preserves the invariant.   *)
LEMMA CompactReadStep ==
    ASSUME IInv, SingleInstance, NEW t \in Indexer, CompactRead(t)
    PROVE  IInv'
<1> DEFINE n == Len(buf[t]) + 1
           to == seen[t].index_cursor
<1>1. /\ t \in Task /\ TypeOK /\ TaskInv(t) /\ pc[t] = "c_read" /\ NoFault
      /\ UNCHANGED <<bucket, submitted, history>> /\ faults' \in 0..MaxFaults
  BY ZenonT(30) DEF Task, IInv, CompactRead, NoFault, env, TypeOK
<1>2. /\ seen[t] = meta /\ lock[Host[t]] = t /\ Len(buf[t]) <= to
      /\ to > WAL_COMPACT_KEEP /\ to \in Nat /\ to <= Len(log)
      /\ buf[t] \in Seq(Entry) /\ Len(buf[t]) \in Nat /\ PrefixOfLog(buf[t])
      /\ seen[t] \in NamespaceMeta /\ PastMeta(seen[t])
      /\ Len(log) \in Nat /\ upto[t] \in Nat
  BY SMTT(30), <1>1, BoundAssumption
     DEF TaskInv, CompactInv, FreshPc, LockedPc, TypeOK, PastMeta, NamespaceMeta
<1>3. CASE n <= to /\ wal[n] = NoEntry /\ Return(t)
  BY <1>1, <1>3, QuietReturn, Zenon
<1>4. CASE /\ n <= to /\ wal[n] # NoEntry
           /\ buf' = [buf EXCEPT ![t] = Append(@, wal[n])]
           /\ UNCHANGED <<lock, pc, seen, att, upto, job>>
  <2> DEFINE b == Append(buf[t], wal[n])
  <2>1. b \in Seq(Entry) /\ Len(b) = n /\ PrefixOfLog(b)
    BY SMTT(30), <1>2, <1>4, ReplayExtends
  <2>2. /\ buf' = [buf EXCEPT ![t] = b] /\ buf'[t] = b /\ seen'[t] = seen[t]
        /\ pc'[t] = "c_read" /\ pc' = [pc EXCEPT ![t] = "c_read"]
        /\ "c_read" \in CompactPc /\ "c_read" \notin IndexPc
        /\ seen' = [seen EXCEPT ![t] = seen[t]]
        /\ upto' = [upto EXCEPT ![t] = upto[t]]
    BY <1>1, <1>4, Zenon DEF TypeOK, CompactPc, IndexPc
  <2>3. RangeInv(t)' /\ CompactInv(t)'
    BY <1>2, <1>4, <2>1, <2>2, Zenon DEF RangeInv, CompactInv, IndexPc
  <2> HIDE DEF b
  <2> QED
    BY Zenon, <1>1, <1>2, <1>4, <2>1, <2>2, <2>3, IndexerReads
<1>5. CASE n > to /\ Goto(t, "c_put") /\ UNCHANGED <<lock, seen, att, buf, upto, job>>
  <2>1. /\ pc'[t] = "c_put" /\ "c_put" \in CompactPc /\ "c_put" \notin IndexPc
        /\ att' \in [Task -> 0..META_RETRIES]
    BY <1>1, <1>5, Zenon DEF Goto, TypeOK, CompactPc, IndexPc
  <2>2. Len(buf'[t]) = seen'[t].index_cursor
    BY <1>2, <1>5
  <2>3. RangeInv(t)' /\ CompactInv(t)'
    BY <1>2, <1>5, <2>1, <2>2, Zenon DEF RangeInv, CompactInv, IndexPc
  <2> QED
    BY ZenonT(30), <1>1, <1>2, <1>5, <2>1, <2>3, IndexerMoves
<1> QED
  BY Zenon, <1>3, <1>4, <1>5 DEF CompactRead


(* Overwriting wal/snapshot.bin preserves the invariant: the new snapshot  *)
(* is a longer prefix, and the deleted segments lie below the old one.     *)
LEMMA CompactPutStep ==
    ASSUME IInv, SingleInstance, FaithfulClient, NEW t \in Indexer, CompactPut(t)
    PROVE  IInv'
<1>1. /\ t \in Task /\ TypeOK /\ TaskInv(t) /\ BucketInv /\ pc[t] = "c_put"
      /\ snapshot' = [seq |-> seen[t].index_cursor, docs |-> buf[t]]
      /\ UNCHANGED <<meta, wal, idx, submitted, history>>
  BY ZenonT(30) DEF Task, IInv, CompactPut
<1>2. /\ seen[t] = meta /\ pc[t] \in LockedPc /\ lock[Host[t]] = t
      /\ Len(buf[t]) = meta.index_cursor /\ meta.index_cursor > WAL_COMPACT_KEEP
      /\ buf[t] \in Seq(Entry) /\ PrefixOfLog(buf[t])
      /\ meta.index_cursor \in 0..MaxSeq
  BY SMTT(30), <1>1 DEF TaskInv, CompactInv, FreshPc, LockedPc, TypeOK, NamespaceMeta
<1>3. /\ snapshot'.seq = meta.index_cursor /\ snapshot'.docs = buf[t]
      /\ snapshot' \in [seq : 0..MaxSeq, docs : Seq(Entry)]
  BY <1>1, <1>2, Zenon
<1>4. BucketInv'
  <2>1. MetaOrdered' /\ WalInv' /\ IndexInv' /\ AckedInv' /\ CommittedOnce'
    BY <1>1, Zenon DEF BucketInv, MetaOrdered, WalInv, IndexInv, PrefixOfLog, AckedInv,
       CommittedOnce, history
  <2>2. SnapshotInv'
    BY <1>1, <1>2, <1>3, BoundAssumption
       DEF BucketInv, MetaOrdered, SnapshotInv, PrefixOfLog, history
  <2>3. \A n \in 1..Len(log') : log'[n] \in submitted'
    BY <1>1, Zenon DEF BucketInv, history
  <2> QED
    BY <2>1, <2>2, <2>3, Zenon DEF BucketInv
<1>5. CASE NoFault /\ Goto(t, "c_cas") /\ UNCHANGED <<lock, seen, att, buf, upto, job>>
  <2>1. /\ pc' = [pc EXCEPT ![t] = "c_cas"] /\ pc'[t] = "c_cas"
        /\ "c_cas" \in CompactPc /\ "c_cas" \notin IndexPc
        /\ \A u \in Task \ {t} : pc'[u] = pc[u]
    BY <1>1, <1>5, Zenon DEF Goto, TypeOK, CompactPc, IndexPc
  <2>2. OnlyTask(t)
    BY Zenon, <1>5, <2>1 DEF OnlyTask
  <2>3. TypeOK'
    BY Zenon, <1>1, <1>3, <1>5, <2>1 DEF TypeOK, history, NoFault
  <2>4. RangeInv(t)' /\ CompactInv(t)'
    BY Zenon, <1>1, <1>2, <1>3, <1>5, <2>1 DEF RangeInv, CompactInv, IndexPc
  <2>5. PrefixOfLog(buf[t])' /\ PastMeta(seen[t])'
    BY Zenon, <1>1, <1>5 DEF TaskInv, PrefixOfLog, PastMeta, history
  <2>6. TaskInv(t)' /\ pc'[t] \notin FlushPc
    BY Zenon, <1>1, <1>2, <1>5, <2>1, <2>4, <2>5, IndexerTask
  <2> QED
    BY ZenonT(30), <1>1, <1>2, <1>4, <2>2, <2>3, <2>6, BucketStep
<1>6. CASE Fault("error") /\ Return(t)
  <2>1. OnlyTask(t) /\ pc'[t] = "idle" /\ LocalTypeOK'
    BY <1>1, <1>6, ReturnOnly, Zenon
  <2>2. TypeOK'
    BY Zenon, <1>1, <1>3, <1>6, <2>1, FaultType
       DEF TypeOK, LocalTypeOK, history, FaultKind, AllPc
  <2>3. TaskInv(t)'
    BY Zenon, <1>1, <1>6, <2>2, LeaveTask DEF Return, TypeOK
  <2> QED
    BY ZenonT(30), <1>1, <1>2, <1>4, <2>1, <2>2, <2>3, BucketStep DEF FlushPc
<1> QED
  BY Zenon, <1>5, <1>6 DEF CompactPut

(* The swap that records the snapshot preserves the invariant.             *)
LEMMA CompactCommitStep ==
    ASSUME IInv, SingleInstance, FaithfulClient, NEW t \in Indexer, CompactCommit(t)
    PROVE  IInv'
<1>1. /\ t \in Task /\ TypeOK /\ TaskInv(t) /\ BucketInv /\ pc[t] = "c_cas"
      /\ seen[t] = meta
      /\ meta' = [meta EXCEPT !.wal_snapshot_seq = meta.index_cursor]
      /\ UNCHANGED <<wal, snapshot, idx, submitted, history>>
  BY Zenon DEF Task, IInv, CompactCommit, CasSucceeds, MetaAfterCompaction
<1>2. /\ pc[t] \in LockedPc /\ lock[Host[t]] = t /\ meta \in NamespaceMeta
      /\ snapshot.seq = meta.index_cursor /\ meta.index_cursor > WAL_COMPACT_KEEP
      /\ meta.wal_snapshot_seq <= meta.index_cursor
      /\ meta.index_cursor \in Nat /\ meta.wal_snapshot_seq \in Nat
  BY <1>1, BoundAssumption
     DEF TaskInv, CompactInv, LockedPc, TypeOK, NamespaceMeta, BucketInv, MetaOrdered
<1>3. /\ meta' \in NamespaceMeta /\ meta'.wal_snapshot_seq = meta.index_cursor
      /\ meta'.wal_commit_seq = meta.wal_commit_seq
      /\ meta'.index_cursor = meta.index_cursor
  BY <1>1, <1>2, Zenon DEF NamespaceMeta
<1>4. BucketInv'
  <2>1. MetaOrdered' /\ IndexInv' /\ AckedInv' /\ CommittedOnce'
    BY <1>1, <1>2, <1>3 DEF BucketInv, MetaOrdered, IndexInv, PrefixOfLog, AckedInv,
       CommittedOnce, history
  <2>2. SnapshotInv'
    BY <1>1, <1>2, <1>3, Zenon DEF BucketInv, SnapshotInv, PrefixOfLog, history
  <2>3. WalInv'
    <3>1. Len(log) \in Nat
      BY <1>1 DEF TypeOK
    <3>2. \A n \in 1..Len(log) : n <= meta.wal_snapshot_seq => n <= meta.index_cursor
      BY <1>2, <3>1
    <3> QED
      BY <1>1, <1>3, <3>2, Zenon DEF BucketInv, WalInv, history
  <2>4. \A n \in 1..Len(log') : log'[n] \in submitted'
    BY <1>1, Zenon DEF BucketInv, history
  <2> QED
    BY <2>1, <2>2, <2>3, <2>4, Zenon DEF BucketInv
<1>5. CASE /\ NoFault /\ Goto(t, "c_del") /\ upto' = [upto EXCEPT ![t] = 1]
           /\ UNCHANGED <<lock, seen, att, buf, job>>
  <2>1. /\ pc' = [pc EXCEPT ![t] = "c_del"] /\ pc'[t] = "c_del" /\ upto'[t] = 1
        /\ "c_del" \in CompactPc /\ "c_del" \notin IndexPc \cup FreshPc
    BY <1>1, <1>5, Zenon DEF Goto, TypeOK, CompactPc, IndexPc, FreshPc
  <2>2. OnlyTask(t)
    BY <1>1, <1>5, <2>1, Zenon DEF OnlyTask, TypeOK
  <2>3. TypeOK'
    BY <1>1, <1>3, <1>5, <2>1, Zenon DEF TypeOK, history, NoFault
  <2>4. RangeInv(t)' /\ CompactInv(t)'
    BY <1>1, <1>2, <1>3, <1>5, <2>1 DEF RangeInv, CompactInv, IndexPc
  <2>5. PrefixOfLog(buf[t])' /\ PastMeta(seen[t])'
    BY <1>1, <1>5, Zenon DEF TaskInv, PrefixOfLog, PastMeta, history
  <2>6. TaskInv(t)' /\ pc'[t] \notin FlushPc
    BY <1>1, <1>2, <1>5, <2>1, <2>4, <2>5, IndexerTask, Zenon
  <2> QED
    BY <1>1, <1>2, <1>4, <2>2, <2>3, <2>6, BucketStep, Zenon
<1>6. CASE Fault("error") /\ Return(t)
  <2>1. OnlyTask(t) /\ pc'[t] = "idle" /\ LocalTypeOK'
    BY <1>1, <1>6, ReturnOnly, Zenon
  <2>2. TypeOK'
    <3>1. faults' \in 0..MaxFaults
      BY <1>1, <1>6, FaultType, Zenon DEF FaultKind
    <3> QED
      BY <1>1, <1>3, <2>1, <3>1, ZenonT(30) DEF TypeOK, LocalTypeOK, history, AllPc
  <2>3. TaskInv(t)'
    BY ZenonT(30), <1>1, <1>6, <2>2, LeaveTask DEF Return, TypeOK
  <2> QED
    BY <1>1, <1>2, <1>4, <2>1, <2>2, <2>3, BucketStep, Zenon DEF FlushPc
<1> QED
  BY Zenon, <1>5, <1>6, Faithful DEF CompactCommit

(* Deleting a segment preserves the invariant: it lies below the recorded  *)
(* snapshot.                                                               *)
LEMMA CompactDeleteStep ==
    ASSUME IInv, SingleInstance, FaithfulClient, NEW t \in Indexer, CompactDelete(t)
    PROVE  IInv'
<1> DEFINE k == upto[t]
<1>1. /\ t \in Task /\ TypeOK /\ TaskInv(t) /\ BucketInv /\ pc[t] = "c_del"
      /\ UNCHANGED <<meta, snapshot, idx, submitted, history>>
  BY Zenon DEF Task, IInv, CompactDelete
<1>2. /\ pc[t] \in LockedPc /\ lock[Host[t]] = t /\ "c_del" \notin FreshPc
      /\ k \in Nat \ {0} /\ seen[t].index_cursor = meta.wal_snapshot_seq
      /\ meta.wal_snapshot_seq \in 0..MaxSeq /\ seen[t].index_cursor > WAL_COMPACT_KEEP
      /\ PrefixOfLog(buf[t]) /\ PastMeta(seen[t])
  BY <1>1, Zenon DEF TaskInv, CompactInv, LockedPc, FreshPc, TypeOK, NamespaceMeta
<1>3. CASE k > DeleteThrough(seen[t].index_cursor) /\ Return(t) /\ UNCHANGED <<wal, faults>>
  BY <1>1, <1>3, QuietReturn, Zenon DEF TypeOK, bucket
<1>4. CASE /\ k <= DeleteThrough(seen[t].index_cursor)
           /\ \/ wal' = [wal EXCEPT ![k] = NoEntry] /\ NoFault
              \/ Fault("error") /\ UNCHANGED wal
           /\ upto' = [upto EXCEPT ![t] = @ + 1]
           /\ UNCHANGED <<lock, pc, seen, att, buf, job>>
  <2>1. k \in Seqs /\ k <= meta.wal_snapshot_seq
    BY <1>2, <1>4, BoundAssumption DEF DeleteThrough, Seqs
  <2>2. /\ wal' \in [Seqs -> Entry \cup {NoEntry}]
        /\ \A n \in Seqs : wal'[n] = wal[n] \/ (n = k /\ wal'[n] = NoEntry)
    BY Zenon, <1>1, <1>4, <2>1 DEF TypeOK
  <2>3. faults' \in 0..MaxFaults
    BY Zenon, <1>1, <1>4, FaultType DEF FaultKind
  <2>4. TypeOK'
    BY SMTT(30), <1>1, <1>2, <1>4, <2>2, <2>3 DEF TypeOK, history
  <2>5. BucketInv'
    <3>1. MetaOrdered' /\ SnapshotInv' /\ IndexInv' /\ AckedInv' /\ CommittedOnce'
      BY <1>1, Zenon DEF BucketInv, MetaOrdered, SnapshotInv, IndexInv, PrefixOfLog,
         AckedInv, CommittedOnce, history
    <3>2. WalInv'
      <4>1. \A n \in 1..Len(log) : n \in Seqs
        BY <1>1, BoundAssumption
           DEF BucketInv, MetaOrdered, TypeOK, NamespaceMeta, Seqs
      <4> HIDE DEF k
      <4> QED
        BY <1>1, <2>1, <2>2, <4>1, Zenon DEF BucketInv, WalInv, history
    <3>3. \A n \in 1..Len(log') : log'[n] \in submitted'
      BY <1>1, Zenon DEF BucketInv, history
    <3> QED
      BY <3>1, <3>2, <3>3, Zenon DEF BucketInv
  <2>6. /\ pc'[t] = "c_del" /\ upto'[t] = k + 1
        /\ "c_del" \in CompactPc /\ "c_del" \notin IndexPc
    BY <1>1, <1>4, Zenon DEF TypeOK, CompactPc, IndexPc
  <2>7. OnlyTask(t)
    BY SMTT(30), <1>1, <1>4 DEF OnlyTask, TypeOK
  <2>8. RangeInv(t)' /\ CompactInv(t)'
    BY <1>1, <1>2, <1>4, <2>6 DEF RangeInv, CompactInv, IndexPc
  <2>9. PrefixOfLog(buf[t])' /\ PastMeta(seen[t])'
    BY Zenon, <1>1, <1>2, <1>4 DEF PrefixOfLog, PastMeta, history
  <2>10. TaskInv(t)' /\ pc'[t] \notin FlushPc
    BY Zenon, <1>2, <1>4, <2>6, <2>8, <2>9, IndexerTask
  <2> QED
    BY Zenon, <1>1, <1>2, <2>4, <2>5, <2>7, <2>10, BucketStep
<1> QED
  BY <1>3, <1>4, Zenon DEF CompactDelete

(* No step of maybe_compact_wal breaks the invariant, and within one       *)
(* process it never loses the swap.                                        *)
LEMMA CompactStepInv ==
    ASSUME IInv, SingleInstance, FaithfulClient, NEW t \in Indexer, CompactStep(t)
    PROVE  IInv'
<1>1. t \in Task /\ TaskInv(t)
  BY Zenon DEF Task, IInv
<1>2. ~ CompactLoses(t)
  BY <1>1, Zenon DEF CompactLoses, CasSucceeds, TaskInv, FreshPc
<1> QED
  BY <1>2, CompactCheckStep, CompactLockStep, CompactMetaStep, CompactSnapshotStep,
     CompactReadStep, CompactPutStep, CompactCommitStep, CompactDeleteStep, Zenon
  DEF CompactStep


-----------------------------------------------------------------------------
(* A reader takes no lock and writes nothing.                              *)
LEMMA ReaderMoves ==
    ASSUME IInv, SingleInstance, NEW t \in Reader,
           NEW l \in LoadPc, pc' = [pc EXCEPT ![t] = l], NoFault,
           NEW m \in NamespaceMeta, seen' = [seen EXCEPT ![t] = m],
           NEW b \in Seq(Entry), buf' = [buf EXCEPT ![t] = b],
           UNCHANGED <<lock, att, upto, job>>, UNCHANGED <<bucket, submitted, history>>,
           LoadInv(t)', PrefixOfLog(b), PastMeta(m)
    PROVE  IInv'
<1>1. t \in Task /\ TypeOK /\ l \in AllPc
  BY Zenon DEF Task, IInv, AllPc
<1>2. /\ pc'[t] = l /\ seen'[t] = m /\ buf'[t] = b
      /\ l \notin {"idle"} \cup FlushPc \cup IndexPc \cup CompactPc \cup LockedPc \cup FreshPc
  BY <1>1, Zenon DEF TypeOK, FlushPc, IndexPc, CompactPc, LoadPc, LockedPc, FreshPc
<1>3. OnlyTask(t)
  BY <1>1, Zenon DEF OnlyTask, TypeOK
<1>4. TypeOK'
  BY Zenon, <1>1 DEF TypeOK, NoFault, bucket, history, AllPc
<1>5. PrefixOfLog(buf[t])' /\ PastMeta(seen[t])'
  BY ZenonT(30), <1>2 DEF PrefixOfLog, PastMeta, history
<1>6. PcInv(t)'
  BY <1>2, TaskAssumption, Zenon DEF PcInv
<1>7. JobInv(t)' /\ RangeInv(t)' /\ CompactInv(t)'
  BY Zenon, <1>2 DEF JobInv, RangeInv, CompactInv, FlushPc, IndexPc, CompactPc
<1>8. TaskInv(t)'
  BY ZenonT(30), <1>2, <1>5, <1>6, <1>7 DEF TaskInv
<1> QED
  BY <1>1, <1>2, <1>3, <1>4, <1>8, QuietStep, Zenon

(* A cold load reading meta.json preserves the invariant.                  *)
LEMMA LoadStartStep ==
    ASSUME IInv, SingleInstance, FaithfulClient, NEW t \in Reader, LoadStart(t)
    PROVE  IInv'
<1> DEFINE l == IF meta = NoMeta THEN "r_done" ELSE "r_snap"
<1>1. /\ t \in Task /\ TypeOK /\ TaskInv(t) /\ pc[t] = "idle" /\ NoFault
      /\ seen' = [seen EXCEPT ![t] = meta] /\ pc' = [pc EXCEPT ![t] = l]
      /\ UNCHANGED <<bucket, lock, att, buf, upto, job, submitted, history>>
  BY ZenonT(30), Faithful DEF Task, IInv, LoadStart, Goto
<1>2. /\ buf[t] = <<>> /\ buf[t] \in Seq(Entry) /\ PrefixOfLog(buf[t])
      /\ buf' = [buf EXCEPT ![t] = buf[t]] /\ l \in LoadPc
      /\ pc'[t] = l /\ seen'[t] = meta
  BY <1>1, Zenon DEF TaskInv, LoadInv, TypeOK, LoadPc
<1>3. LoadInv(t)'
  BY <1>1, <1>2 DEF LoadInv, NoMeta
<1> HIDE DEF l
<1> QED
  BY Zenon, <1>1, <1>2, <1>3, CurrentMeta, ReaderMoves

(* A cold load taking the snapshot it was told of preserves the            *)
(* invariant.                                                              *)
LEMMA LoadSnapshotStep ==
    ASSUME IInv, SingleInstance, NEW t \in Reader, LoadSnapshot(t)
    PROVE  IInv'
<1> DEFINE b == LoadBase(seen[t], snapshot)
<1>1. /\ t \in Task /\ TypeOK /\ TaskInv(t) /\ BucketInv
      /\ buf' = [buf EXCEPT ![t] = b] /\ pc' = [pc EXCEPT ![t] = "r_read"]
      /\ UNCHANGED <<bucket, lock, seen, att, upto, job, env, history>>
  BY Zenon DEF Task, IInv, LoadSnapshot, Goto
<1>2. /\ seen[t] \in NamespaceMeta /\ PastMeta(seen[t]) /\ log \in Seq(Entry)
      /\ seen' = [seen EXCEPT ![t] = seen[t]] /\ seen'[t] = seen[t]
      /\ pc'[t] = "r_read" /\ buf'[t] = b /\ "r_read" \in LoadPc
  BY SMTT(30), <1>1 DEF TaskInv, TypeOK, LoadPc
<1>3. b \in Seq(Entry) /\ PrefixOfLog(b) /\ Len(b) <= seen[t].wal_commit_seq
  <2>1. CASE b = <<>>
    BY SMTT(30), <1>2, <2>1, BoundAssumption DEF PrefixOfLog, NamespaceMeta
  <2>2. CASE b = snapshot.docs /\ snapshot.seq = seen[t].wal_snapshot_seq
    BY SMTT(30), <1>1, <1>2, <2>2, BoundAssumption
       DEF BucketInv, SnapshotInv, TypeOK, PastMeta, NamespaceMeta
  <2> QED
    BY <2>1, <2>2, Zenon DEF LoadBase
<1>4. LoadInv(t)'
  BY SMTT(30), <1>2, <1>3 DEF LoadInv
<1> HIDE DEF b
<1> QED
  BY ZenonT(30), <1>1, <1>2, <1>3, <1>4, ReaderMoves DEF env, NoFault

(* A cold load replaying a segment, or failing on a missing one,           *)
(* preserves the invariant.                                                *)
LEMMA LoadReadStep ==
    ASSUME IInv, SingleInstance, NEW t \in Reader, LoadRead(t)
    PROVE  IInv'
<1> DEFINE n == Len(buf[t]) + 1
           to == seen[t].wal_commit_seq
<1>1. /\ t \in Task /\ TypeOK /\ TaskInv(t) /\ pc[t] = "r_read" /\ NoFault
      /\ UNCHANGED <<bucket, submitted, history>> /\ faults' \in 0..MaxFaults
  BY ZenonT(30) DEF Task, IInv, LoadRead, NoFault, env, TypeOK
<1>2. /\ Len(buf[t]) <= to /\ to \in Nat /\ to <= Len(log)
      /\ buf[t] \in Seq(Entry) /\ Len(buf[t]) \in Nat /\ PrefixOfLog(buf[t])
      /\ seen[t] \in NamespaceMeta /\ PastMeta(seen[t]) /\ Len(log) \in Nat
  BY SMTT(30), <1>1, BoundAssumption DEF TaskInv, LoadInv, TypeOK, PastMeta, NamespaceMeta
<1>3. CASE n <= to /\ wal[n] = NoEntry /\ Return(t)
  BY <1>1, <1>3, QuietReturn, Zenon
<1>4. CASE /\ n <= to /\ wal[n] # NoEntry
           /\ buf' = [buf EXCEPT ![t] = Append(@, wal[n])]
           /\ UNCHANGED <<lock, pc, seen, att, upto, job>>
  <2> DEFINE b == Append(buf[t], wal[n])
  <2>1. b \in Seq(Entry) /\ Len(b) = n /\ PrefixOfLog(b)
    BY SMTT(30), <1>2, <1>4, ReplayExtends
  <2>2. /\ buf' = [buf EXCEPT ![t] = b] /\ buf'[t] = b /\ seen'[t] = seen[t]
        /\ pc'[t] = "r_read" /\ pc' = [pc EXCEPT ![t] = "r_read"]
        /\ seen' = [seen EXCEPT ![t] = seen[t]] /\ "r_read" \in LoadPc
    BY <1>1, <1>4, Zenon DEF TypeOK, LoadPc
  <2>3. LoadInv(t)'
    BY <1>4, <2>1, <2>2, Zenon DEF LoadInv
  <2> HIDE DEF b
  <2> QED
    BY Zenon, <1>1, <1>2, <1>4, <2>1, <2>2, <2>3, ReaderMoves
<1>5. CASE n > to /\ Goto(t, "r_done") /\ UNCHANGED <<lock, seen, att, buf, upto, job>>
  <2>1. /\ pc' = [pc EXCEPT ![t] = "r_done"] /\ pc'[t] = "r_done" /\ "r_done" \in LoadPc
        /\ seen' = [seen EXCEPT ![t] = seen[t]] /\ buf' = [buf EXCEPT ![t] = buf[t]]
    BY <1>1, <1>5, Zenon DEF Goto, TypeOK, LoadPc
  <2>2. LoadInv(t)'
    BY <1>2, <1>5, <2>1 DEF LoadInv
  <2> QED
    BY ZenonT(30), <1>1, <1>2, <1>5, <2>1, <2>2, ReaderMoves
<1> QED
  BY <1>3, <1>4, <1>5, Zenon DEF LoadRead

(* No step of a cold load breaks the invariant.                            *)
LEMMA LoadStepInv ==
    ASSUME IInv, SingleInstance, NEW t \in Reader, LoadStep(t)
    PROVE  IInv'
<1>1. t \in Task /\ TypeOK
  BY Zenon DEF Task, IInv
<1>2. CASE LoadReturn(t)
  BY <1>1, <1>2, QuietReturn, Zenon DEF LoadReturn, env, TypeOK
<1> QED
  BY <1>2, LoadSnapshotStep, LoadReadStep, Zenon DEF LoadStep

(* A crash of the one process ends every task; the bucket stays.           *)
LEMMA CrashStep ==
    ASSUME IInv, SingleInstance, NEW p \in Proc, Crash(p)
    PROVE  IInv'
<1>1. /\ TypeOK /\ UNCHANGED <<bucket, submitted, history>>
      /\ {t \in Task : Host[t] = p} = Task /\ Leave(Task) /\ faults' \in 0..MaxFaults
  BY TaskAssumption, FaultType, Zenon DEF Crash, IInv, SingleInstance, FaultKind
<1>2. TypeOK'
  BY SMTT(30), <1>1, LeaveType, TypeFromLocal
<1>3. \A t \in Task : TaskInv(t)'
  BY <1>1, <1>2, LeaveTask, Zenon DEF TypeOK
<1>4. BucketInv'
  BY <1>1, QuietBucket, Zenon
<1> QED
  BY <1>2, <1>3, <1>4, Zenon DEF IInv

-----------------------------------------------------------------------------
(* An empty bucket and idle tasks satisfy the invariant.                   *)
LEMMA InitInv ==
    ASSUME Init
    PROVE  IInv
<1> USE DEF Init
<1>1. /\ NoMeta \in NamespaceMeta /\ <<>> \in Seq(Entry) /\ Len(<<>>) = 0
      /\ NoMeta.wal_commit_seq = 0 /\ NoMeta.index_cursor = 0
      /\ NoMeta.wal_snapshot_seq = 0 /\ NoSnapshot.seq = 0 /\ NoSnapshot.docs = <<>>
      /\ NoSnapshot \in [seq : 0..MaxSeq, docs : Seq(Entry)]
  BY BoundAssumption DEF NoMeta, NamespaceMeta, NoSnapshot
<1>2. TypeOK
  BY <1>1, BoundAssumption DEF TypeOK
<1>3. BucketInv
  BY <1>1 DEF BucketInv, MetaOrdered, WalInv, SnapshotInv, IndexInv, AckedInv,
     CommittedOnce, PrefixOfLog
<1>4. ASSUME NEW t \in Task PROVE TaskInv(t)
  <2>1. /\ pc[t] = "idle" /\ seen[t] = NoMeta /\ buf[t] = <<>>
        /\ "idle" \notin FlushPc \cup IndexPc \cup CompactPc \cup LoadPc
                          \cup LockedPc \cup FreshPc
    BY Zenon DEF FlushPc, IndexPc, CompactPc, LoadPc, LockedPc, FreshPc
  <2>2. PrefixOfLog(buf[t]) /\ PastMeta(seen[t])
    BY <1>1, <2>1 DEF PrefixOfLog, PastMeta
  <2>3. PcInv(t) /\ JobInv(t) /\ RangeInv(t) /\ CompactInv(t) /\ LoadInv(t)
    BY <2>1, Zenon DEF PcInv, JobInv, RangeInv, CompactInv, LoadInv, IndexPc
  <2> QED
    BY <2>1, <2>2, <2>3, Zenon DEF TaskInv
<1> QED
  BY <1>2, <1>3, <1>4, Zenon DEF IInv

(* Every step of the system preserves the invariant.                       *)
LEMMA NextInv ==
    ASSUME IInv, SingleInstance, FaithfulClient, [Next]_vars
    PROVE  IInv'
<1>1. ASSUME NEW t \in Flusher, AppendStart(t) \/ AppendStep(t) PROVE IInv'
  BY <1>1, AppendStartStep, AppendStepInv, Zenon
<1>2. ASSUME NEW t \in Indexer, Background(t) PROVE IInv'
  BY <1>2, IndexStartStep, IndexStepInv, CompactStartStep, CompactStepInv, Zenon DEF Background
<1>3. ASSUME NEW t \in Indexer, Timeout(t) PROVE IInv'
  BY <1>3, QuietReturn, FaultType, Zenon DEF Timeout, FaultKind, IInv, Task
<1>4. ASSUME NEW t \in Reader, LoadStart(t) \/ LoadStep(t) PROVE IInv'
  BY <1>4, LoadStartStep, LoadStepInv, Zenon
<1>5. ASSUME NEW t \in Task, RequestFails(t) PROVE IInv'
  BY <1>5, QuietReturn, FaultType, Zenon DEF RequestFails, FaultKind, IInv
<1>6. ASSUME NEW p \in Proc, Crash(p) PROVE IInv'
  BY <1>6, CrashStep, Zenon
<1>7. CASE UNCHANGED vars
  <2>1. BucketInv' /\ TypeOK'
    BY Zenon, <1>7, QuietBucket DEF vars, env, local, bucket, history, IInv, TypeOK
  <2>2. ASSUME NEW u \in Task PROVE TaskInv(u)'
    <3>1. /\ UNCHANGED <<meta, wal, snapshot, idx, lock, pc, seen>>
          /\ UNCHANGED <<buf, upto, job, submitted, log>>
      BY <1>7, Zenon DEF vars, env, local, bucket, history
    <3>2. TaskInv(u)
      BY Zenon DEF IInv
    <3>3. PcInv(u)' /\ JobInv(u)'
      BY <3>1, <3>2, Zenon DEF TaskInv, PcInv, JobInv
    <3>4. RangeInv(u)' /\ CompactInv(u)' /\ LoadInv(u)'
      <4>1. RangeInv(u)'
        BY <3>1, <3>2, Zenon DEF TaskInv, RangeInv
      <4>2. CompactInv(u)' /\ LoadInv(u)'
        BY <3>1, <3>2, Zenon DEF TaskInv, CompactInv, LoadInv
      <4> QED
        BY <4>1, <4>2, Zenon
    <3>5. PrefixOfLog(buf[u])' /\ PastMeta(seen[u])'
      BY <3>1, <3>2, Zenon DEF TaskInv, PrefixOfLog, PastMeta
    <3> QED
      BY <3>1, <3>2, <3>3, <3>4, <3>5, Zenon DEF TaskInv
  <2> QED
    BY <2>1, <2>2, Zenon DEF IInv
<1> QED
  BY <1>1, <1>2, <1>3, <1>4, <1>5, <1>6, <1>7, Zenon DEF Next

(* Every reachable state of a single server process with a faithful client *)
(* satisfies the inductive invariant: what the bucket holds, and what each *)
(* task of append_wal, index_wal_range, maybe_compact_wal and              *)
(* load_docs_at_wal_commit knows at each of its awaits.                    *)
THEOREM Invariance ==
    ASSUME SingleInstance, FaithfulClient
    PROVE  Spec => []IInv
<1>1. Init => IInv
  BY InitInv, Zenon
<1>2. IInv /\ [Next]_vars => IInv'
  BY NextInv, Zenon
<1> QED
  BY <1>1, <1>2, PTL DEF Spec


-----------------------------------------------------------------------------
(* A sequence that agrees with the first k batches of the log is the       *)
(* subsequence of them.                                                    *)
LEMMA PrefixIsSubSeq ==
    ASSUME log \in Seq(Entry), NEW s \in Seq(Entry), PrefixOfLog(s)
    PROVE  s = SubSeq(log, 1, Len(s))
<1>1. Len(s) \in Nat /\ Len(log) \in Nat /\ Len(s) <= Len(log)
  BY DEF PrefixOfLog
<1>2. /\ SubSeq(log, 1, Len(s)) \in Seq(Entry) /\ Len(SubSeq(log, 1, Len(s))) = Len(s)
      /\ \A n \in 1..Len(s) : SubSeq(log, 1, Len(s))[n] = log[n]
  BY <1>1
<1>3. \A n \in 1..Len(s) : s[n] = SubSeq(log, 1, Len(s))[n]
  BY <1>2, Zenon DEF PrefixOfLog
<1> QED
  BY <1>1, <1>2, <1>3

(* The snapshot and the segments after it spell out the log.               *)
LEMMA StoredLogIsLog ==
    ASSUME IInv
    PROVE  StoredLog = log /\ snapshot.seq <= meta.wal_commit_seq
<1>1. TypeOK /\ MetaOrdered /\ WalInv /\ SnapshotInv
  BY Zenon DEF IInv, BucketInv
<1>2. /\ log \in Seq(Entry) /\ Len(log) \in Nat /\ meta.wal_commit_seq = Len(log)
      /\ snapshot.seq \in Nat /\ meta.wal_snapshot_seq \in Nat
      /\ meta.index_cursor \in Nat
  BY <1>1, BoundAssumption DEF TypeOK, MetaOrdered, NamespaceMeta
<1>3. snapshot.seq <= meta.wal_commit_seq
  BY <1>1, <1>2 DEF MetaOrdered, SnapshotInv
<1>4. ASSUME NEW n \in 1..Len(log)
      PROVE  (IF n <= snapshot.seq THEN snapshot.docs[n] ELSE wal[n]) = log[n]
  BY <1>1, <1>2 DEF WalInv, SnapshotInv, PrefixOfLog
<1>5. log = [n \in 1..Len(log) |-> log[n]]
  BY <1>2
<1>6. StoredLog = [n \in 1..Len(log) |-> log[n]]
  BY <1>2, <1>4, Zenon DEF StoredLog
<1> QED
  BY <1>3, <1>5, <1>6, Zenon

(* Every variable keeps its type, whatever fails and whenever the process  *)
(* stops: sequence numbers stay within the WAL, locks are held by tasks.   *)
THEOREM TypeCorrect ==
    ASSUME SingleInstance, FaithfulClient
    PROVE  Spec => []TypeOK
BY Invariance, PTL DEF IInv

(* No committed batch is lost, altered or reordered: the snapshot and the  *)
(* segments in the bucket always spell out the committed log, although     *)
(* maybe_compact_wal overwrites the snapshot and deletes segments.         *)
THEOREM Durability ==
    ASSUME SingleInstance, FaithfulClient
    PROVE  Spec => []Durable
<1>1. IInv => Durable
  BY StoredLogIsLog, Zenon DEF Durable
<1> QED
  BY <1>1, Invariance, PTL

(* What append_wal acknowledged stays stored under the sequence number it  *)
(* returned.                                                               *)
THEOREM AcknowledgedWritesSurvive ==
    ASSUME SingleInstance, FaithfulClient
    PROVE  Spec => []AckedDurable
<1>1. IInv => AckedDurable
  BY StoredLogIsLog, Zenon DEF IInv, BucketInv, AckedInv, AckedDurable, MetaOrdered
<1> QED
  BY <1>1, Invariance, PTL

(* No retry of append_wal commits a batch twice.                           *)
THEOREM NoDuplicateCommit ==
    ASSUME SingleInstance, FaithfulClient
    PROVE  Spec => []CommittedOnce
BY Invariance, PTL DEF IInv, BucketInv

(* meta.json stays ordered, and its commit point counts the commits.       *)
THEOREM MetadataOrdered ==
    ASSUME SingleInstance, FaithfulClient
    PROVE  Spec => []MetaOrdered
BY Invariance, PTL DEF IInv, BucketInv

(* The index segments meta.json names cover exactly the batches up to its  *)
(* index cursor.                                                           *)
THEOREM IndexCorrect ==
    ASSUME SingleInstance, FaithfulClient
    PROVE  Spec => []IndexFaithful
<1>1. ASSUME IInv PROVE IndexFaithful
  <2>1. TypeOK /\ IndexInv /\ MetaOrdered
    BY <1>1, Zenon DEF IInv, BucketInv
  <2>2. SUFFICES ASSUME meta.index_cursor > 0
                 PROVE  idx[meta.index_cursor] = SubSeq(log, 1, meta.index_cursor)
    BY Zenon DEF IndexFaithful
  <2>3. meta.index_cursor \in Seqs
    BY <2>1, <2>2, BoundAssumption DEF TypeOK, NamespaceMeta, Seqs
  <2> QED
    BY <2>1, <2>2, <2>3, PrefixIsSubSeq, Zenon DEF IndexInv, TypeOK
<1> QED
  BY <1>1, Invariance, PTL

(* A cold load that returns has read exactly the log up to the commit      *)
(* point it started from.                                                  *)
THEOREM LoadCorrect ==
    ASSUME SingleInstance, FaithfulClient
    PROVE  Spec => []LoadedPrefix
<1>1. ASSUME IInv PROVE LoadedPrefix
  <2>1. SUFFICES ASSUME NEW t \in Reader, pc[t] = "r_done"
                 PROVE  buf[t] = SubSeq(log, 1, seen[t].wal_commit_seq)
    BY Zenon DEF LoadedPrefix
  <2>2. t \in Task /\ TypeOK /\ TaskInv(t)
    BY <1>1, Zenon DEF IInv, Task
  <2> QED
    BY <2>1, <2>2, PrefixIsSubSeq, Zenon DEF TaskInv, LoadInv, TypeOK
<1> QED
  BY <1>1, Invariance, PTL


(* Only the three swaps write meta.json, and only append_wal's grows the   *)
(* log.                                                                    *)
LEMMA OnlySwapsCommit ==
    ASSUME Next
    PROVE  \/ UNCHANGED <<meta, history>>
           \/ \E t \in Flusher : AppendCommit(t)
           \/ \E t \in Indexer : IndexCommit(t) \/ CompactCommit(t)
<1> USE DEF bucket, history
<1>1. ASSUME NEW t \in Flusher, AppendStart(t) \/ AppendStep(t), ~ AppendCommit(t)
      PROVE  UNCHANGED <<meta, history>>
  BY <1>1, Zenon DEF AppendStart, AppendStep, AppendLock, AppendMeta, AppendPut,
     AppendReject, AppendLoses, AppendDelete
<1>2. ASSUME NEW t \in Indexer, IndexStart(t) \/ IndexStep(t), ~ IndexCommit(t)
      PROVE  UNCHANGED <<meta, history>>
  BY Zenon, <1>2 DEF IndexStart, IndexStep, IndexFetch, IndexLoad, IndexRead, IndexPut,
     IndexCheck, IndexLock, IndexMeta, IndexLoses
<1>3. ASSUME NEW t \in Indexer, CompactStart(t) \/ CompactStep(t), ~ CompactCommit(t)
      PROVE  UNCHANGED <<meta, history>>
  BY ZenonT(30), <1>3 DEF CompactStart, CompactStep, CompactCheck, CompactLock, CompactMeta,
     CompactSnapshot, CompactRead, CompactPut, CompactLoses, CompactDelete
<1>4. ASSUME NEW t \in Reader, LoadStart(t) \/ LoadStep(t)
      PROVE  UNCHANGED <<meta, history>>
  BY <1>4, Zenon DEF LoadStart, LoadStep, LoadSnapshot, LoadRead, LoadReturn
<1>5. ASSUME NEW t \in Task, Timeout(t) \/ RequestFails(t)
      PROVE  UNCHANGED <<meta, history>>
  BY <1>5, Zenon DEF Timeout, RequestFails
<1>6. ASSUME NEW p \in Proc, Crash(p) PROVE UNCHANGED <<meta, history>>
  BY <1>6, Zenon DEF Crash
<1> QED
  BY SMTT(30), <1>1, <1>2, <1>3, <1>4, <1>5, <1>6 DEF Next, Background, Task

(* No swap of meta.json takes the commit point, the index cursor or the    *)
(* snapshot point back.                                                    *)
THEOREM MetadataMonotonic ==
    ASSUME SingleInstance, FaithfulClient
    PROVE  Spec => MetaNeverRegresses
<1> DEFINE Forward == /\ meta'.wal_commit_seq >= meta.wal_commit_seq
                      /\ meta'.index_cursor >= meta.index_cursor
                      /\ meta'.wal_snapshot_seq >= meta.wal_snapshot_seq
<1>1. ASSUME IInv, [Next]_vars PROVE [Forward]_vars
  <2>1. /\ meta.wal_commit_seq \in Nat /\ meta.index_cursor \in Nat
        /\ meta.wal_snapshot_seq \in Nat /\ meta \in NamespaceMeta
        /\ meta.wal_snapshot_seq <= meta.index_cursor
    BY <1>1, BoundAssumption DEF IInv, TypeOK, NamespaceMeta, BucketInv, MetaOrdered
  <2>2. CASE meta' = meta
    BY <2>1, <2>2
  <2>3. ASSUME NEW t \in Flusher, AppendCommit(t) PROVE Forward
    BY <2>1, <2>3 DEF AppendCommit, CasSucceeds, MetaAfterWalCommit, NextWalSeq,
       NamespaceMeta
  <2>4. ASSUME NEW t \in Indexer, IndexCommit(t) PROVE Forward
    <3>1. pc[t] = "i_cas" /\ seen[t] = meta /\ TaskInv(t)
          /\ meta' = [meta EXCEPT !.index_cursor = upto[t]]
      BY <1>1, <2>4, Zenon DEF IndexCommit, CasSucceeds, MetaAfterIndexCommit, IInv, Task
    <3>2. upto[t] \in Nat /\ meta.index_cursor < upto[t]
      BY <3>1, BoundAssumption DEF TaskInv, RangeInv, IndexPc, Seqs
    <3> QED
      BY <2>1, <3>1, <3>2 DEF NamespaceMeta
  <2>5. ASSUME NEW t \in Indexer, CompactCommit(t) PROVE Forward
    BY <2>1, <2>5 DEF CompactCommit, CasSucceeds, MetaAfterCompaction, NamespaceMeta
  <2>6. CASE UNCHANGED vars
    BY <2>6, Zenon
  <2> QED
    BY SMTT(30), <1>1, <2>2, <2>3, <2>4, <2>5, <2>6, OnlySwapsCommit
<1> QED
  BY <1>1, Invariance, PTL DEF Spec, MetaNeverRegresses

(* The bucket implements the append-only log of DurableLog: read through   *)
(* StoredLog, every step of every task is a commit or changes nothing.     *)
THEOREM Refinement ==
    ASSUME SingleInstance, FaithfulClient
    PROVE  Spec => ImplementsDurableLog
<1>1. ASSUME Init PROVE Promise!Init
  <2>1. log = <<>> /\ acked = {}
    BY <1>1, Zenon DEF Init
  <2> QED
    BY <1>1, <2>1, InitInv, StoredLogIsLog, Zenon DEF Promise!Init
<1>i. IInv => StoredLog = log
  BY StoredLogIsLog, Zenon
<1>n. IInv' => (StoredLog = log)'
  BY <1>i, PTL
<1>2. ASSUME IInv, IInv', [Next]_vars
      PROVE  [Promise!Next]_<<StoredLog, acked>>
  <2>1. StoredLog = log
    BY <1>2, StoredLogIsLog, Zenon
  <2>2. StoredLog' = log'
    BY <1>2, <1>n, Zenon
  <2>3. CASE UNCHANGED <<log, acked>>
    BY <2>1, <2>2, <2>3, Zenon
  <2>4. ASSUME NEW t \in Flusher, AppendCommit(t) PROVE Promise!Next
    <3>1. /\ pc[t] = "a_cas" /\ seen[t] = meta /\ TaskInv(t) /\ TypeOK
          /\ log' = Append(log, job[t])
          /\ \/ acked' = acked \cup {[seq |-> seen[t].wal_commit_seq + 1, entry |-> job[t]]}
             \/ UNCHANGED acked
      BY Zenon, <1>2, <2>4 DEF AppendCommit, CasSucceeds, IInv, Task, SegmentOf, NextWalSeq
    <3>2. /\ job[t] \in Entry /\ log \in Seq(Entry) /\ meta.wal_commit_seq = Len(log)
          /\ \A n \in 1..Len(log) : log[n] # job[t]
      BY Zenon, <1>2, <3>1 DEF TaskInv, JobInv, FlushPc, TypeOK, IInv, BucketInv, MetaOrdered
    <3>3. DOMAIN log = 1..Len(log)
      BY <3>2
    <3> QED
      BY <2>1, <2>2, <3>1, <3>2, <3>3, Zenon DEF Promise!Next, Promise!Commit
  <2>5. ASSUME NEW t \in Indexer, IndexCommit(t) \/ CompactCommit(t)
        PROVE  UNCHANGED <<log, acked>>
    BY Zenon, <2>5 DEF IndexCommit, CompactCommit, history
  <2>6. CASE UNCHANGED vars
    BY <2>3, <2>6, Zenon DEF vars, history
  <2> QED
    BY <1>2, <2>3, <2>4, <2>5, <2>6, OnlySwapsCommit, Zenon DEF history
<1> QED
  BY <1>1, <1>2, Invariance, PTL DEF Spec, ImplementsDurableLog, Promise!Spec
=============================================================================
