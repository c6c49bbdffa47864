------------------------- MODULE GroupCommitProofs --------------------------
(***************************************************************************)
(* Proofs about GroupCommit: write(), the timers, the readers and every    *)
(* step of a flush preserve the inductive invariant IInv.  So the group    *)
(* commit never loses, reorders or acknowledges too early, for any number  *)
(* of writes, buffers and flush tasks and whatever fails.                  *)
(***************************************************************************)
EXTENDS GroupCommit, TLAPS

(* What a step does to a buffer as far as writes can tell.                 *)
SameContent(s, t) == t.ops = s.ops /\ t.schema = s.schema /\ t.waiters = s.waiters

(* A step that moves no operation and no waiter: a write() goes on, a      *)
(* timer, a reader or a task does, but no task enters or leaves its append.*)
Quiet ==
    /\ \A b \in Buffer : SameContent(buf[b], buf'[b])
    /\ \A w \in Write :
         /\ wpc[w] # "new" => on'[w] = on[w]
         /\ \/ wpc'[w] = wpc[w]
            \/ wpc[w] \in {"new", "lock"} /\ wpc'[w] \in {"lock", "enqueue"}
            \/ wpc[w] \in {"flush", "request"} /\ wpc'[w] \in {"request", "wait"}
    /\ \A f \in Task :
         \/ tpc'[f] = tpc[f] /\ got'[f] = got[f]
         \/ tpc[f] \notin {"append", "commit"} /\ tpc'[f] \notin {"append", "commit"}
    /\ UNCHANGED <<ans, batch, log, arrived>>

-----------------------------------------------------------------------------
(* Assigning one field of a BufferState, and the operators built from it.  *)

LEMMA SetHeld ==
    ASSUME NEW s \in BufferState, NEW h \in Write \cup {Nobody, Overlay}
    PROVE  LET t == [s EXCEPT !.held = h] IN
           /\ t \in BufferState /\ SameContent(s, t)
           /\ t.flush_lock = s.flush_lock /\ t.cooling = s.cooling
BY Zenon DEF BufferState, SameContent

LEMMA SetTimer ==
    ASSUME NEW s \in BufferState, NEW x \in {"none", "live", "spent"}
    PROVE  LET t == [s EXCEPT !.timer = x] IN
           /\ t \in BufferState /\ SameContent(s, t)
           /\ t.flush_lock = s.flush_lock /\ t.cooling = s.cooling
BY Zenon DEF BufferState, SameContent

LEMMA SetStray ==
    ASSUME NEW s \in BufferState, s.stray > 0
    PROVE  LET t == [s EXCEPT !.stray = @ - 1] IN
           /\ t \in BufferState /\ SameContent(s, t)
           /\ t.flush_lock = s.flush_lock /\ t.cooling = s.cooling
BY DEF BufferState, SameContent

LEMMA SetRunning ==
    ASSUME NEW s \in BufferState, NEW x \in BOOLEAN
    PROVE  LET t == [s EXCEPT !.flush_running = x] IN
           /\ t \in BufferState /\ SameContent(s, t)
           /\ t.flush_lock = s.flush_lock /\ t.cooling = s.cooling
BY Zenon DEF BufferState, SameContent

LEMMA SetCooling ==
    ASSUME NEW s \in BufferState, NEW x \in BOOLEAN
    PROVE  LET t == [s EXCEPT !.cooling = x] IN
           /\ t \in BufferState /\ SameContent(s, t)
           /\ t.flush_lock = s.flush_lock /\ t.cooling = x
BY Zenon DEF BufferState, SameContent

LEMMA SetFlushLock ==
    ASSUME NEW s \in BufferState, NEW x \in Task \cup {Nobody}
    PROVE  LET t == [s EXCEPT !.flush_lock = x] IN
           /\ t \in BufferState /\ SameContent(s, t)
           /\ t.flush_lock = x /\ t.cooling = s.cooling
BY Zenon DEF BufferState, SameContent

LEMMA TakeTimerEffect ==
    ASSUME NEW s \in BufferState
    PROVE  LET t == TakeTimer(s) IN
           /\ t \in BufferState /\ SameContent(s, t) /\ t.metric = s.metric
           /\ t.flush_lock = s.flush_lock /\ t.cooling = s.cooling
<1> DEFINE n == IF s.timer = "live" THEN s.stray + 1 ELSE s.stray
           t == [s EXCEPT !.timer = "none", !.stray = n]
<1>1. n \in Nat
  BY DEF BufferState
<1>2. TakeTimer(s) = t
  BY Zenon DEF TakeTimer
<1> HIDE DEF n
<1>3. /\ t \in BufferState /\ SameContent(s, t) /\ t.metric = s.metric
      /\ t.flush_lock = s.flush_lock /\ t.cooling = s.cooling
  BY <1>1, Zenon DEF BufferState, SameContent
<1>4. QED
  BY <1>2, <1>3, Zenon

LEMMA WithOpsEffect ==
    ASSUME NEW s \in BufferState, NEW w \in Write
    PROVE  LET t == WithOps(s, w) IN
           /\ t \in BufferState /\ t.schema = s.schema /\ t.waiters = s.waiters
           /\ t.ops = (IF w \in DataWrite THEN Append(s.ops, w) ELSE s.ops)
           /\ t.flush_lock = s.flush_lock /\ t.cooling = s.cooling
<1> DEFINE o == IF w \in DataWrite THEN Append(s.ops, w) ELSE s.ops
           t == [s EXCEPT !.held = Nobody, !.ops = o]
<1>1. o \in Seq(DataWrite)
  BY DEF BufferState
<1>2. WithOps(s, w) = t
  BY Zenon DEF WithOps
<1> HIDE DEF o
<1>3. /\ t \in BufferState /\ t.schema = s.schema /\ t.waiters = s.waiters
      /\ t.ops = o /\ t.flush_lock = s.flush_lock /\ t.cooling = s.cooling
  BY <1>1, Zenon DEF BufferState
<1>4. QED
  BY <1>2, <1>3, Zenon DEF o

LEMMA WithWriteEffect ==
    ASSUME NEW s \in BufferState, NEW w \in Write
    PROVE  LET t == WithWrite(s, w) IN
           /\ t \in BufferState
           /\ t.ops = (IF w \in DataWrite THEN Append(s.ops, w) ELSE s.ops)
           /\ t.schema = (IF w \in SchemaWrite THEN s.schema \cup {w} ELSE s.schema)
           /\ t.waiters = s.waiters \cup {w}
           /\ t.flush_lock = s.flush_lock /\ t.cooling = s.cooling
<1> DEFINE t == WithOps(s, w)
<1>1. /\ t \in BufferState /\ t.schema = s.schema /\ t.waiters = s.waiters
      /\ t.ops = (IF w \in DataWrite THEN Append(s.ops, w) ELSE s.ops)
      /\ t.flush_lock = s.flush_lock /\ t.cooling = s.cooling
  BY WithOpsEffect, Zenon
<1> HIDE DEF t
<1> DEFINE x == IF w \in SchemaWrite THEN t.schema \cup {w} ELSE t.schema
           m == IF w \in MetricWrite THEN {w} ELSE t.metric
           r == [t EXCEPT !.schema = x, !.metric = m, !.waiters = t.waiters \cup {w}]
<1>2. /\ x \in SUBSET SchemaWrite /\ m \in SUBSET MetricWrite
      /\ t.waiters \cup {w} \in SUBSET Write
  BY <1>1, Zenon DEF BufferState
<1>3. WithWrite(s, w) = r
  BY Zenon DEF WithWrite, t
<1> HIDE DEF x, m
<1>4. /\ r \in BufferState /\ r.ops = t.ops /\ r.schema = x /\ r.waiters = t.waiters \cup {w}
      /\ r.flush_lock = t.flush_lock /\ r.cooling = t.cooling
  BY <1>1, <1>2, Zenon DEF BufferState
<1>5. QED
  BY <1>1, <1>3, <1>4, Zenon DEF x

-----------------------------------------------------------------------------
(* The quiet steps.                                                        *)

LocksKept ==
    \A b \in Buffer : /\ buf'[b].flush_lock = buf[b].flush_lock
                      /\ buf'[b].cooling => buf[b].cooling

LEMMA QuietUpdate ==
    ASSUME TypeOK, NEW b \in Buffer, NEW t \in BufferState, SameContent(buf[b], t),
           t.flush_lock = buf[b].flush_lock, t.cooling => buf[b].cooling,
           buf' = [buf EXCEPT ![b] = t]
    PROVE  /\ buf' \in [Buffer -> BufferState]
           /\ \A c \in Buffer : SameContent(buf[c], buf'[c])
           /\ LocksKept
BY Zenon DEF TypeOK, SameContent, LocksKept

LEMMA QuietSame ==
    ASSUME TypeOK, buf' = buf
    PROVE  /\ buf' \in [Buffer -> BufferState]
           /\ \A c \in Buffer : SameContent(buf[c], buf'[c])
           /\ LocksKept
BY Zenon DEF TypeOK, SameContent, LocksKept

(* The first steps of write().                                             *)
LEMMA WriterQuiet ==
    ASSUME TypeOK, LockInv, NEW w \in Write,
           WriteStart(w) \/ WriteLock(w) \/ WriteAbortTimer(w)
    PROVE  TypeOK' /\ Quiet /\ LocksKept /\ LockInv'
<1>1. CASE WriteStart(w)
  <2>1. /\ buf' \in [Buffer -> BufferState]
        /\ \A c \in Buffer : SameContent(buf[c], buf'[c])
        /\ LocksKept
    BY <1>1, QuietSame, Zenon DEF WriteStart
  <2>2. TypeOK' /\ Quiet
    BY <1>1, <2>1, Zenon DEF WriteStart, TypeOK, Quiet, task, env
  <2>3. LockInv'
    BY <1>1, <2>1 DEF WriteStart, TypeOK, LockInv, TaskLock, task, LocksKept
  <2>4. QED
    BY <2>1, <2>2, <2>3, Zenon
<1>2. CASE WriteLock(w)
  <2> DEFINE t == [buf[on[w]] EXCEPT !.held = w]
  <2>1. on[w] \in Buffer /\ buf[on[w]] \in BufferState
    BY <1>2, Zenon DEF WriteLock, LockInv, TypeOK
  <2>2. /\ t \in BufferState /\ SameContent(buf[on[w]], t)
        /\ t.flush_lock = buf[on[w]].flush_lock /\ t.cooling = buf[on[w]].cooling
    BY <2>1, SetHeld, Zenon
  <2>3. buf' = [buf EXCEPT ![on[w]] = t]
    BY <1>2, Zenon DEF WriteLock
  <2> HIDE DEF t
  <2>4. /\ buf' \in [Buffer -> BufferState]
        /\ \A c \in Buffer : SameContent(buf[c], buf'[c])
        /\ LocksKept
    BY <2>1, <2>2, <2>3, QuietUpdate, Zenon
  <2>5. TypeOK' /\ Quiet
    BY <1>2, <2>4, Zenon DEF WriteLock, TypeOK, Quiet, task, env
  <2>6. LockInv'
    BY <1>2, <2>4 DEF WriteLock, TypeOK, LockInv, TaskLock, task, LocksKept
  <2>7. QED
    BY <2>4, <2>5, <2>6, Zenon
<1>3. CASE WriteAbortTimer(w)
  <2> DEFINE t == AbortTimer(buf[on[w]])
  <2>1. on[w] \in Buffer /\ buf[on[w]] \in BufferState
    BY <1>3, Zenon DEF WriteAbortTimer, LockInv, TypeOK
  <2>2. /\ t \in BufferState /\ SameContent(buf[on[w]], t)
        /\ t.flush_lock = buf[on[w]].flush_lock /\ t.cooling = buf[on[w]].cooling
    BY <2>1, SetTimer, Zenon DEF AbortTimer
  <2> HIDE DEF t
  <2>3. buf' = [buf EXCEPT ![on[w]] = t]
    BY <1>3, Zenon DEF WriteAbortTimer, t
  <2>4. /\ buf' \in [Buffer -> BufferState]
        /\ \A c \in Buffer : SameContent(buf[c], buf'[c])
        /\ LocksKept
    BY <2>1, <2>2, <2>3, QuietUpdate, Zenon
  <2>5. TypeOK' /\ Quiet
    BY <1>3, <2>4, Zenon DEF WriteAbortTimer, TypeOK, Quiet, task, env
  <2>6. LockInv'
    BY <1>3, <2>4 DEF WriteAbortTimer, TypeOK, LockInv, TaskLock, task, LocksKept
  <2>7. QED
    BY <2>4, <2>5, <2>6, Zenon
<1>4. QED
  BY <1>1, <1>2, <1>3, Zenon

LEMMA RequestEffect ==
    ASSUME TypeOK, NEW b \in Buffer, NEW s \in BufferState, SameContent(buf[b], s),
           s.flush_lock = buf[b].flush_lock, s.cooling = buf[b].cooling,
           RequestFlush(b, s)
    PROVE  /\ buf' \in [Buffer -> BufferState]
           /\ \A c \in Buffer : SameContent(buf[c], buf'[c])
           /\ LocksKept
           /\ tpc' \in [Task -> {"off", "look", "lock", "cool", "drain", "empty", "append",
                                 "commit", "store", "check", "again", "arm", "set", "more"}]
           /\ arg' \in [Task -> Buffer \cup {NoBuffer}]
           /\ \A f \in Task : \/ tpc'[f] = tpc[f] /\ arg'[f] = arg[f]
                              \/ tpc[f] = "off" /\ tpc'[f] = "look" /\ arg'[f] = b
           /\ got' = got /\ batch' = batch
<1>1. CASE s.flush_running
  <2>1. buf' = [buf EXCEPT ![b] = s] /\ UNCHANGED task
    BY <1>1, Zenon DEF RequestFlush
  <2>2. /\ buf' \in [Buffer -> BufferState]
        /\ \A c \in Buffer : SameContent(buf[c], buf'[c])
        /\ LocksKept
    BY <2>1, QuietUpdate, Zenon
  <2>3. QED
    BY <2>1, <2>2, Zenon DEF task, TypeOK
<1>2. CASE ~ s.flush_running
  <2> DEFINE t == [s EXCEPT !.flush_running = TRUE]
  <2>1. /\ t \in BufferState /\ SameContent(s, t)
        /\ t.flush_lock = s.flush_lock /\ t.cooling = s.cooling
    BY SetRunning, Zenon
  <2>2. buf' = [buf EXCEPT ![b] = t]
    BY <1>2, Zenon DEF RequestFlush
  <2> HIDE DEF t
  <2>3. SameContent(buf[b], t)
    BY <2>1, Zenon DEF SameContent
  <2>4. /\ buf' \in [Buffer -> BufferState]
        /\ \A c \in Buffer : SameContent(buf[c], buf'[c])
        /\ LocksKept
    BY <2>1, <2>2, <2>3, QuietUpdate, Zenon
  <2>5. PICK f \in Flush : /\ tpc[f] = "off"
                           /\ tpc' = [tpc EXCEPT ![f] = "look"]
                           /\ arg' = [arg EXCEPT ![f] = b]
    BY <1>2, Zenon DEF RequestFlush
  <2>6. got' = got /\ batch' = batch
    BY <1>2, Zenon DEF RequestFlush
  <2>7. QED
    BY <2>4, <2>5, <2>6, Zenon DEF TypeOK, Task
<1>3. QED
  BY <1>1, <1>2, Zenon

LEMMA RequestQuiet ==
    ASSUME TypeOK, LockInv,
           \/ \E w \in Write : WriteRequest(w)
           \/ \E b \in Buffer : TimerFires(b)
    PROVE  TypeOK' /\ Quiet /\ LockInv'
<1>1. ASSUME NEW w \in Write, WriteRequest(w)
      PROVE  TypeOK' /\ Quiet /\ LockInv'
  <2>1. on[w] \in Buffer /\ buf[on[w]] \in BufferState /\ RequestFlush(on[w], buf[on[w]])
    BY <1>1, Zenon DEF WriteRequest, LockInv, TypeOK
  <2>2. /\ buf' \in [Buffer -> BufferState]
        /\ \A c \in Buffer : SameContent(buf[c], buf'[c])
        /\ LocksKept
        /\ tpc' \in [Task -> {"off", "look", "lock", "cool", "drain", "empty", "append",
                              "commit", "store", "check", "again", "arm", "set", "more"}]
        /\ arg' \in [Task -> Buffer \cup {NoBuffer}]
        /\ \A f \in Task : \/ tpc'[f] = tpc[f] /\ arg'[f] = arg[f]
                           \/ tpc[f] = "off" /\ tpc'[f] = "look" /\ arg'[f] = on[w]
        /\ got' = got /\ batch' = batch
    BY <2>1, RequestEffect, Zenon DEF SameContent
  <2>3. TypeOK' /\ Quiet
    BY <1>1, <2>2, Zenon DEF WriteRequest, TypeOK, Quiet, env
  <2>4. LockInv'
    <3>1. \A v \in Write : wpc'[v] # "new" => on'[v] \in Buffer
      BY <1>1, Zenon DEF WriteRequest, TypeOK, LockInv
    <3>2. ASSUME NEW f \in Task, tpc'[f] = tpc[f] /\ arg'[f] = arg[f]
          PROVE  TaskLock(f)'
      BY <2>2, <3>2 DEF LockInv, TaskLock, LocksKept, Flushing
    <3>3. ASSUME NEW f \in Task, tpc[f] = "off" /\ tpc'[f] = "look" /\ arg'[f] = on[w]
          PROVE  TaskLock(f)'
      BY <2>1, <3>3, Zenon DEF TaskLock, Flushing
    <3>4. QED
      BY <2>2, <3>1, <3>2, <3>3, Zenon DEF LockInv
  <2>5. QED
    BY <2>3, <2>4, Zenon
<1>2. ASSUME NEW b \in Buffer, TimerFires(b)
      PROVE  TypeOK' /\ Quiet /\ LockInv'
  <2>1. PICK s \in BufferState :
          /\ SameContent(buf[b], s) /\ s.flush_lock = buf[b].flush_lock
          /\ s.cooling = buf[b].cooling /\ RequestFlush(b, s)
    <3>1. buf[b] \in BufferState
      BY Zenon DEF TypeOK
    <3>2. CASE buf[b].timer = "live" /\ RequestFlush(b, [buf[b] EXCEPT !.timer = "spent"])
      BY <3>1, <3>2, SetTimer, Zenon
    <3>3. CASE buf[b].stray > 0 /\ RequestFlush(b, [buf[b] EXCEPT !.stray = @ - 1])
      BY <3>1, <3>3, SetStray, Zenon
    <3>4. QED
      BY <1>2, <3>2, <3>3, Zenon DEF TimerFires
  <2>2. /\ buf' \in [Buffer -> BufferState]
        /\ \A c \in Buffer : SameContent(buf[c], buf'[c])
        /\ LocksKept
        /\ tpc' \in [Task -> {"off", "look", "lock", "cool", "drain", "empty", "append",
                              "commit", "store", "check", "again", "arm", "set", "more"}]
        /\ arg' \in [Task -> Buffer \cup {NoBuffer}]
        /\ \A f \in Task : \/ tpc'[f] = tpc[f] /\ arg'[f] = arg[f]
                           \/ tpc[f] = "off" /\ tpc'[f] = "look" /\ arg'[f] = b
        /\ got' = got /\ batch' = batch
    BY <2>1, RequestEffect, Zenon
  <2>3. TypeOK' /\ Quiet
    BY <1>2, <2>2, Zenon DEF TimerFires, TypeOK, Quiet, writer, env
  <2>4. LockInv'
    <3>1. \A v \in Write : wpc'[v] # "new" => on'[v] \in Buffer
      BY <1>2, Zenon DEF TimerFires, TypeOK, LockInv, writer
    <3>2. ASSUME NEW f \in Task, tpc'[f] = tpc[f] /\ arg'[f] = arg[f]
          PROVE  TaskLock(f)'
      BY <2>2, <3>2 DEF LockInv, TaskLock, LocksKept, Flushing
    <3>3. ASSUME NEW f \in Task, tpc[f] = "off" /\ tpc'[f] = "look" /\ arg'[f] = b
          PROVE  TaskLock(f)'
      BY <3>3, Zenon DEF TaskLock, Flushing
    <3>4. QED
      BY <2>2, <3>1, <3>2, <3>3, Zenon DEF LockInv
  <2>5. QED
    BY <2>3, <2>4, Zenon
<1>3. QED
  BY <1>1, <1>2, Zenon

(* The cooldown, readers of the buffer and drop_namespace.                 *)
LEMMA OtherQuiet ==
    ASSUME TypeOK, LockInv,
           \/ \E b \in Buffer : CooldownEnds(b) \/ OverlayUnlock(b)
           \/ OverlayLock \/ DropNamespace
    PROVE  TypeOK' /\ Quiet /\ LockInv'
<1> DEFINE Done == /\ buf' \in [Buffer -> BufferState]
                   /\ \A c \in Buffer : SameContent(buf[c], buf'[c])
                   /\ LocksKept
<1>1. ASSUME NEW b \in Buffer, CooldownEnds(b) PROVE Done
  <2> DEFINE t == [buf[b] EXCEPT !.cooling = FALSE]
  <2>1. /\ t \in BufferState /\ SameContent(buf[b], t)
        /\ t.flush_lock = buf[b].flush_lock /\ ~ t.cooling
    BY SetCooling, Zenon DEF TypeOK
  <2>2. buf' = [buf EXCEPT ![b] = t]
    BY <1>1, Zenon DEF CooldownEnds
  <2> HIDE DEF t
  <2>3. QED
    BY <2>1, <2>2, QuietUpdate, Zenon
<1>2. ASSUME NEW b \in Buffer, OverlayUnlock(b) PROVE Done
  <2> DEFINE t == [buf[b] EXCEPT !.held = Nobody]
  <2>1. /\ t \in BufferState /\ SameContent(buf[b], t)
        /\ t.flush_lock = buf[b].flush_lock /\ t.cooling = buf[b].cooling
    BY SetHeld, Zenon DEF TypeOK
  <2>2. buf' = [buf EXCEPT ![b] = t]
    BY <1>2, Zenon DEF OverlayUnlock
  <2> HIDE DEF t
  <2>3. QED
    BY <2>1, <2>2, QuietUpdate, Zenon
<1>3. ASSUME OverlayLock PROVE Done
  <2> DEFINE t == [buf[buffers] EXCEPT !.held = Overlay]
  <2>1. /\ buffers \in Buffer
        /\ t \in BufferState /\ SameContent(buf[buffers], t)
        /\ t.flush_lock = buf[buffers].flush_lock /\ t.cooling = buf[buffers].cooling
    BY <1>3, SetHeld, Zenon DEF TypeOK, OverlayLock
  <2>2. buf' = [buf EXCEPT ![buffers] = t]
    BY <1>3, Zenon DEF OverlayLock
  <2> HIDE DEF t
  <2>3. QED
    BY <2>1, <2>2, QuietUpdate, Zenon
<1>4. ASSUME DropNamespace PROVE Done
  BY <1>4, QuietSame, Zenon DEF DropNamespace
<1>5. Done
  BY <1>1, <1>2, <1>3, <1>4, Zenon
<1>6. /\ UNCHANGED <<wpc, on, ans, tpc, arg, got, batch, log, arrived>>
      /\ buffers' \in {buffers, NoBuffer}
  BY Zenon DEF CooldownEnds, OverlayUnlock, OverlayLock, DropNamespace, writer, task
<1>7. QED
  BY <1>5, <1>6 DEF TypeOK, Quiet, LockInv, TaskLock, LocksKept, Flushing

(* A task moves on, its buffer's content as it was.                        *)
LEMMA TaskLocks ==
    ASSUME TypeOK, LockInv, NEW f \in Task, LocksKept, wpc' = wpc, on' = on,
           \A g \in Task \ {f} : tpc'[g] = tpc[g] /\ arg'[g] = arg[g] /\ got'[g] = got[g],
           TaskLock(f)'
    PROVE  LockInv'
<1>1. ASSUME NEW g \in Task \ {f} PROVE TaskLock(g)'
  BY DEF LockInv, TaskLock, LocksKept, Flushing
<1>2. QED
  BY <1>1, Zenon DEF LockInv

(* after_flush_task keeps the content and the locks of the buffers.        *)
LEMMA AfterFlushQuiet ==
    ASSUME TypeOK, LockInv, NEW f \in Task, AfterFlushTask(f)
    PROVE  TypeOK' /\ Quiet /\ LockInv'
<1> DEFINE Done == /\ buf' \in [Buffer -> BufferState]
                   /\ \A c \in Buffer : SameContent(buf[c], buf'[c])
                   /\ LocksKept
<1>1. arg[f] \in Buffer /\ buf[arg[f]] \in BufferState
  BY Zenon DEF AfterFlushTask, AfterStore, AfterCheck, AfterRequest, ArmCheck, ArmSet, LockInv,
         TaskLock, TypeOK
<1>2. ASSUME NEW t \in BufferState, buf' = [buf EXCEPT ![arg[f]] = t],
             SameContent(buf[arg[f]], t), t.flush_lock = buf[arg[f]].flush_lock,
             t.cooling = buf[arg[f]].cooling
      PROVE  Done
  BY <1>1, <1>2, QuietUpdate, Zenon
<1>3. CASE AfterStore(f)
  <2>1. buf' = [buf EXCEPT ![arg[f]] = [buf[arg[f]] EXCEPT !.flush_running = FALSE]]
    BY <1>3, Zenon DEF AfterStore
  <2>2. Done
    BY <1>1, <1>2, <2>1, SetRunning, Zenon
  <2>3. QED
    BY <1>1, <1>3, <2>2, TaskLocks, Zenon DEF AfterStore, Goto, TypeOK, Quiet, TaskLock, Flushing, writer
<1>4. CASE AfterRequest(f)
  <2>1. buf' = [buf EXCEPT ![arg[f]] = [buf[arg[f]] EXCEPT !.flush_running = TRUE]]
    BY <1>4, Zenon DEF AfterRequest
  <2>2. Done
    BY <1>1, <1>2, <2>1, SetRunning, Zenon
  <2>3. QED
    BY <1>1, <1>4, <2>2, TaskLocks, Zenon DEF AfterRequest, Goto, TypeOK, Quiet, TaskLock, Flushing, writer
<1>5. CASE ArmSet(f)
  <2>1. Done
    <3>1. CASE buf' = [buf EXCEPT ![arg[f]].timer = "live"]
      <4>1. buf' = [buf EXCEPT ![arg[f]] = [buf[arg[f]] EXCEPT !.timer = "live"]]
        BY <3>1, Zenon
      <4>2. QED
        BY <1>1, <1>2, <4>1, SetTimer, Zenon
    <3>2. CASE buf' = buf
      BY <3>2, QuietSame, Zenon
    <3>3. QED
      BY <1>5, <3>1, <3>2, Zenon DEF ArmSet
  <2>2. QED
    BY <1>1, <1>5, <2>1, TaskLocks, Zenon DEF ArmSet, Goto, TypeOK, Quiet, TaskLock, Flushing, writer
<1>6. CASE AfterCheck(f) \/ ArmCheck(f)
  <2>1. Done
    BY <1>6, QuietSame, Zenon DEF AfterCheck, ArmCheck
  <2>2. PICK l \in {"off", "again", "arm", "set"} : tpc' = [tpc EXCEPT ![f] = l]
    BY <1>6, Zenon DEF AfterCheck, ArmCheck, Goto
  <2>3. UNCHANGED <<buffers, wpc, on, ans, arg, got, batch, log, arrived>>
    BY <1>6, Zenon DEF AfterCheck, ArmCheck, writer
  <2>4. tpc[f] \in {"check", "arm"}
    BY <1>6, Zenon DEF AfterCheck, ArmCheck
  <2>5. QED
    BY <1>1, <2>1, <2>2, <2>3, <2>4, TaskLocks, Zenon DEF TypeOK, Quiet, TaskLock, Flushing
<1>7. QED
  BY <1>3, <1>4, <1>5, <1>6, Zenon DEF AfterFlushTask

(* So do the first steps of flush_namespace, up to the drain, and those    *)
(* of flush_all.                                                           *)
LEMMA FlushQuiet ==
    ASSUME TypeOK, LockInv, NEW f \in Task,
           \/ FlushLook(f) \/ FlushLock(f) \/ WaitCommitCooldown(f)
           \/ FlushAllMore(f) \/ FlushAllStart(f)
    PROVE  TypeOK' /\ Quiet /\ LockInv'
<1> DEFINE Done == /\ buf' \in [Buffer -> BufferState]
                   /\ \A c \in Buffer : SameContent(buf[c], buf'[c])
                   /\ LocksKept
<1>1. CASE FlushLook(f)
  <2>1. Done
    BY <1>1, QuietSame, Zenon DEF FlushLook
  <2>2. QED
    BY <1>1, <2>1, TaskLocks DEF FlushLook, Goto, AfterFlush, TypeOK, Quiet, LockInv, TaskLock, Flushing, writer
<1>2. CASE WaitCommitCooldown(f)
  <2>1. Done
    BY <1>2, QuietSame, Zenon DEF WaitCommitCooldown
  <2>2. QED
    BY <1>2, <2>1, TaskLocks DEF WaitCommitCooldown, Goto, TypeOK, Quiet, LockInv, TaskLock, Flushing, writer
<1>3. CASE FlushAllMore(f)
  <2>1. Done
    BY <1>3, QuietSame, Zenon DEF FlushAllMore
  <2>2. QED
    BY <1>3, <2>1, TaskLocks DEF FlushAllMore, Goto, TypeOK, Quiet, LockInv, TaskLock, Flushing, writer
<1>4. CASE FlushAllStart(f)
  <2>1. Done
    BY <1>4, QuietSame, Zenon DEF FlushAllStart
  <2>2. QED
    BY <1>4, <2>1, TaskLocks DEF FlushAllStart, Goto, TypeOK, Quiet, LockInv, TaskLock, Flushing, writer
<1>5. CASE FlushLock(f)
  <2> DEFINE b == got[f]
             t == [buf[b] EXCEPT !.flush_lock = f]
  <2>1. b \in Buffer /\ buf[b] \in BufferState
    BY <1>5, Zenon DEF FlushLock, LockInv, TaskLock, TypeOK
  <2>2. /\ t \in BufferState /\ SameContent(buf[b], t)
        /\ t.flush_lock = f /\ t.cooling = buf[b].cooling
    BY <2>1, SetFlushLock, Zenon
  <2>3. buf' = [buf EXCEPT ![b] = t]
    BY <1>5, Zenon DEF FlushLock
  <2> HIDE DEF t
  <2>4. /\ buf' \in [Buffer -> BufferState]
        /\ \A c \in Buffer : SameContent(buf[c], buf'[c])
    BY <2>1, <2>2, <2>3, Zenon DEF TypeOK, SameContent
  <2>5. TypeOK' /\ Quiet
    BY <1>5, <2>4, Zenon DEF FlushLock, Goto, TypeOK, Quiet, writer
  <2>6. TaskLock(f)'
    BY <1>5, <2>1, <2>2, <2>3, BufferAssumption
       DEF FlushLock, Goto, TypeOK, LockInv, TaskLock, Flushing, Task
  <2>7. ASSUME NEW g \in Task \ {f} PROVE TaskLock(g)'
    BY <1>5, <2>1, <2>2, <2>3, BufferAssumption
       DEF FlushLock, Goto, TypeOK, LockInv, TaskLock, Flushing
  <2>8. QED
    BY <1>5, <2>5, <2>6, <2>7, Zenon DEF FlushLock, LockInv, writer
<1>6. QED
  BY <1>1, <1>2, <1>3, <1>4, <1>5, Zenon

-----------------------------------------------------------------------------
(* Quiet steps keep the rest of the invariant.                             *)

LEMMA QuietKeepsBatches ==
    ASSUME TypeOK, BatchInv, AckedWriteDurable, NoWaiterLost, Quiet, LockInv
    PROVE  BatchInv' /\ AckedWriteDurable' /\ NoWaiterLost'
<1>1. (\A v \in Write : wpc'[v] # "failed") => \A v \in Write : wpc[v] # "failed"
  BY Zenon DEF Quiet
<1>2. BatchInv'
  <2>1. ASSUME NEW b \in Buffer PROVE Carries(buf[b])'
    BY <1>1 DEF BatchInv, Carries, Quiet, SameContent, In
  <2>2. ASSUME NEW f \in Task PROVE Carries(batch[f])'
    BY <1>1 DEF BatchInv, Carries, Quiet, In
  <2>3. QED
    BY <2>1, <2>2, Zenon DEF BatchInv, Quiet
<1>3. AckedWriteDurable'
  BY <1>1 DEF AckedWriteDurable, Quiet, In
<1>4. NoWaiterLost'
  <2> SUFFICES ASSUME NEW w \in Write, wpc'[w] \in {"flush", "request", "wait"}, ans'[w] = "none"
               PROVE  w \in buf'[on'[w]].waiters \/ \E f \in Task : w \in batch'[f].waiters
    BY Zenon DEF NoWaiterLost
  <2>1. /\ wpc[w] \in {"flush", "request", "wait"} /\ ans[w] = "none"
        /\ on'[w] = on[w] /\ on[w] \in Buffer
    BY Zenon DEF Quiet, LockInv
  <2>2. QED
    BY <2>1, Zenon DEF NoWaiterLost, Quiet, SameContent
<1>5. QED
  BY <1>2, <1>3, <1>4, Zenon

LEMMA QuietKeepsOrder ==
    ASSUME TypeOK, LockInv, OrderInv, CommitOrder, Quiet
    PROVE  OrderInv' /\ CommitOrder'
<1>1. /\ arrived' = arrived /\ log' = log /\ batch' = batch
      /\ \A n \in DOMAIN arrived : arrived[n] \in Write
      /\ \A n \in DOMAIN arrived : on'[arrived[n]] = on[arrived[n]]
      /\ \A b \in Buffer : buf'[b].ops = buf[b].ops
      /\ \A f \in Task : tpc'[f] = "append" => tpc[f] = "append" /\ got'[f] = got[f]
  BY DEF Quiet, OrderInv, SameContent, TypeOK
<1>2. \A n \in DOMAIN log : \A i \in DOMAIN log[n].ops :
         In(log[n].ops[i], arrived) /\ on'[log[n].ops[i]] = on[log[n].ops[i]]
  BY <1>1 DEF OrderInv, In
<1>3. OrderInv'
  <2>1. \A n \in DOMAIN arrived : wpc'[arrived[n]] \notin {"new", "lock", "enqueue"}
    BY <1>1, Zenon DEF Quiet, OrderInv
  <2>2. ASSUME NEW b \in Buffer PROVE (Ordered(arrived, buf[b].ops) /\ FromBuffer(buf[b].ops, b))'
    BY <1>1 DEF OrderInv, Ordered, FromBuffer, In, Before
  <2>3. ASSUME NEW f \in Task
        PROVE  (tpc[f] = "append" =>
                 /\ Ordered(arrived, batch[f].ops) /\ FromBuffer(batch[f].ops, got[f])
                 /\ \A i \in DOMAIN batch[f].ops : Precedes(arrived, batch[f].ops[i], buf[got[f]].ops))'
    <3> HAVE (tpc[f] = "append")'
    <3>1. /\ tpc[f] = "append" /\ got'[f] = got[f] /\ got[f] \in Buffer
          /\ batch'[f].ops = batch[f].ops /\ buf'[got[f]].ops = buf[got[f]].ops
      BY <1>1, Zenon DEF LockInv, TaskLock, Flushing
    <3>2. /\ Ordered(arrived, batch[f].ops) /\ FromBuffer(batch[f].ops, got[f])
          /\ \A i \in DOMAIN batch[f].ops : Precedes(arrived, batch[f].ops[i], buf[got[f]].ops)
      BY <3>1, Zenon DEF OrderInv
    <3>3. Ordered(arrived, batch[f].ops)' /\ FromBuffer(batch[f].ops, got[f])'
      BY <1>1, <3>1, <3>2 DEF Ordered, FromBuffer, In, Before
    <3>4. (\A i \in DOMAIN batch[f].ops : Precedes(arrived, batch[f].ops[i], buf[got[f]].ops))'
      BY <1>1, <3>1, <3>2 DEF Precedes, Before
    <3>5. QED
      BY <3>3, <3>4, Zenon
  <2>4. ASSUME NEW n \in DOMAIN log, NEW i \in DOMAIN log[n].ops
        PROVE  (LET v == log[n].ops[i] IN
                /\ \A b \in Buffer : on[v] = b => Precedes(arrived, v, buf[b].ops)
                /\ \A f \in Task : tpc[f] = "append" /\ on[v] = got[f] => Precedes(arrived, v, batch[f].ops))'
    <3> DEFINE v == log[n].ops[i]
    <3>1. /\ \A b \in Buffer : on[v] = b => Precedes(arrived, v, buf[b].ops)
          /\ \A f \in Task : tpc[f] = "append" /\ on[v] = got[f] => Precedes(arrived, v, batch[f].ops)
      BY Zenon DEF OrderInv
    <3>2. log'[n].ops[i] = v /\ on'[v] = on[v]
      BY <1>1, <1>2, Zenon
    <3> HIDE DEF v
    <3>3. QED
      BY <1>1, <3>1, <3>2, Zenon
  <2>5. QED
    BY <1>1, <1>2, <2>1, <2>2, <2>3, <2>4 DEF OrderInv, In
<1>4. CommitOrder'
  BY <1>1, <1>2 DEF CommitOrder, Before
<1>5. QED
  BY <1>3, <1>4, Zenon

-----------------------------------------------------------------------------
(* write() puts its operations in, and is refused or waits.                *)

LEMMA BufferUpdate ==
    ASSUME TypeOK, NEW b \in Buffer, NEW t \in BufferState, buf' = [buf EXCEPT ![b] = t]
    PROVE  /\ buf' \in [Buffer -> BufferState] /\ buf'[b] = t
           /\ \A c \in Buffer \ {b} : buf'[c] = buf[c]
           /\ t.flush_lock = buf[b].flush_lock /\ t.cooling = buf[b].cooling => LocksKept
BY Zenon DEF TypeOK, LocksKept

Enters(w) ==
    /\ on[w] \in Buffer /\ wpc[w] = "enqueue" /\ wpc' = [wpc EXCEPT ![w] = wpc'[w]]
    /\ arrived' = Append(arrived, w) /\ on' = on /\ log' = log
    /\ tpc' = tpc /\ arg' = arg /\ got' = got /\ batch' = batch
    /\ \A c \in Buffer \ {on[w]} : buf'[c] = buf[c]
    /\ buf'[on[w]].ops = IF w \in DataWrite THEN Append(buf[on[w]].ops, w) ELSE buf[on[w]].ops

LEMMA ClashEffect ==
    ASSUME TypeOK, LockInv, NEW w \in Write, WriteClash(w)
    PROVE  /\ TypeOK' /\ LockInv' /\ Enters(w)
           /\ buf'[on[w]].waiters = buf[on[w]].waiters
           /\ wpc'[w] = "failed" /\ ans' = [ans EXCEPT ![w] = "error"]
<1> DEFINE b == on[w]
           s == WithOps(buf[b], w)
           t == [s EXCEPT !.schema = {}]
<1>1. b \in Buffer /\ buf[b] \in BufferState
  BY Zenon DEF WriteClash, LockInv, TypeOK
<1>2. /\ s \in BufferState /\ s.waiters = buf[b].waiters
      /\ s.ops = (IF w \in DataWrite THEN Append(buf[b].ops, w) ELSE buf[b].ops)
      /\ s.flush_lock = buf[b].flush_lock /\ s.cooling = buf[b].cooling
  BY <1>1, WithOpsEffect, Zenon
<1>3. buf' = [buf EXCEPT ![b] = t]
  BY Zenon DEF WriteClash
<1> HIDE DEF s
<1>4. /\ t \in BufferState /\ t.waiters = s.waiters /\ t.ops = s.ops
      /\ t.flush_lock = s.flush_lock /\ t.cooling = s.cooling
  BY <1>2, Zenon DEF BufferState
<1> HIDE DEF t
<1>5. /\ buf' \in [Buffer -> BufferState] /\ buf'[b] = t
      /\ \A c \in Buffer \ {b} : buf'[c] = buf[c]
      /\ LocksKept
  BY <1>1, <1>2, <1>3, <1>4, BufferUpdate, Zenon
<1>6. TypeOK' /\ Enters(w)
  <2>1. arrived' \in Seq(Write)
    BY DEF WriteClash, TypeOK
  <2>2. TypeOK'
    BY <1>5, <2>1, Zenon DEF WriteClash, TypeOK, task
  <2>3. wpc' = [wpc EXCEPT ![w] = wpc'[w]]
    BY Zenon DEF WriteClash, TypeOK
  <2>4. Enters(w)
    BY <1>1, <1>2, <1>4, <1>5, <2>3, Zenon DEF WriteClash, Enters, task
  <2>5. QED
    BY <2>2, <2>4, Zenon
<1>7. LockInv'
  BY <1>5 DEF WriteClash, TypeOK, LockInv, TaskLock, LocksKept, task
<1>8. QED
  BY <1>2, <1>4, <1>5, <1>6, <1>7, Zenon DEF WriteClash, TypeOK

LEMMA EnqueueEffect ==
    ASSUME TypeOK, LockInv, NEW w \in Write, WriteEnqueue(w)
    PROVE  /\ TypeOK' /\ LockInv' /\ Enters(w)
           /\ buf'[on[w]].waiters = buf[on[w]].waiters \cup {w}
           /\ buf'[on[w]].schema = IF w \in SchemaWrite THEN buf[on[w]].schema \cup {w}
                                   ELSE buf[on[w]].schema
           /\ wpc'[w] \in {"flush", "wait"} /\ ans' = ans
<1> DEFINE b == on[w]
           s == WithWrite(buf[b], w)
<1>1. b \in Buffer /\ buf[b] \in BufferState
  BY Zenon DEF WriteEnqueue, LockInv, TypeOK
<1>2. /\ s \in BufferState /\ s.waiters = buf[b].waiters \cup {w}
      /\ s.ops = (IF w \in DataWrite THEN Append(buf[b].ops, w) ELSE buf[b].ops)
      /\ s.schema = (IF w \in SchemaWrite THEN buf[b].schema \cup {w} ELSE buf[b].schema)
      /\ s.flush_lock = buf[b].flush_lock /\ s.cooling = buf[b].cooling
  BY <1>1, WithWriteEffect, Zenon
<1>3. PICK t \in BufferState :
        /\ SameContent(s, t) /\ t.flush_lock = s.flush_lock /\ t.cooling = s.cooling
        /\ buf' = [buf EXCEPT ![b] = t]
  <2>1. CASE buf' = [buf EXCEPT ![b] = s]
    BY <1>2, <2>1, Zenon DEF SameContent
  <2>2. CASE buf' = [buf EXCEPT ![b] = [s EXCEPT !.timer = IF @ = "none" THEN "live" ELSE @]]
    <3> DEFINE x == IF s.timer = "none" THEN "live" ELSE s.timer
               t == [s EXCEPT !.timer = x]
    <3>1. x \in {"none", "live", "spent"}
      BY <1>2, Zenon DEF BufferState
    <3>2. buf' = [buf EXCEPT ![b] = t]
      BY <2>2, Zenon
    <3> HIDE DEF x
    <3>3. QED
      BY <1>2, <3>1, <3>2, SetTimer, Zenon
  <2>3. QED
    BY <2>1, <2>2, Zenon DEF WriteEnqueue
<1> HIDE DEF s
<1>4. /\ buf' \in [Buffer -> BufferState] /\ buf'[b] = t
      /\ \A c \in Buffer \ {b} : buf'[c] = buf[c]
      /\ LocksKept
  BY <1>1, <1>2, <1>3, BufferUpdate, Zenon
<1>5. PICK l \in {"flush", "wait"} : wpc' = [wpc EXCEPT ![w] = l]
  BY Zenon DEF WriteEnqueue
<1>6. TypeOK' /\ Enters(w)
  <2>1. arrived' \in Seq(Write)
    BY DEF WriteEnqueue, TypeOK
  <2>2. TypeOK'
    BY <1>4, <1>5, <2>1, Zenon DEF WriteEnqueue, TypeOK, task
  <2>3. wpc' = [wpc EXCEPT ![w] = wpc'[w]]
    BY <1>5, Zenon DEF TypeOK
  <2>4. Enters(w)
    BY <1>1, <1>2, <1>3, <1>4, <2>3, Zenon DEF WriteEnqueue, Enters, SameContent, task
  <2>5. QED
    BY <2>2, <2>4, Zenon
<1>7. LockInv'
  <2>1. \A v \in Write : wpc'[v] # "new" => on'[v] \in Buffer
    BY <1>5, <1>6, Zenon DEF Enters, TypeOK, LockInv
  <2>2. ASSUME NEW f \in Task PROVE TaskLock(f)'
    BY <1>4, <1>6, Zenon DEF Enters, LockInv, TaskLock, LocksKept, Flushing
  <2>3. QED
    BY <2>1, <2>2, Zenon DEF LockInv
<1>8. wpc'[w] \in {"flush", "wait"} /\ ans' = ans
  BY <1>5, Zenon DEF WriteEnqueue, TypeOK
<1>9. QED
  BY <1>2, <1>3, <1>4, <1>6, <1>7, <1>8, Zenon DEF SameContent

(* What the history of arrivals says, it says for good.                    *)
LEMMA HistoryGrows ==
    ASSUME NEW h \in Seq(Write), NEW w \in Write
    PROVE  LET g == Append(h, w) IN
           /\ \A u, v : Before(h, u, v) => Before(g, u, v)
           /\ \A v : In(v, h) => In(v, g) /\ Before(g, v, w)
           /\ In(w, g)
<1> DEFINE g == Append(h, w)
<1>1. /\ Len(h) \in Nat /\ DOMAIN h = 1..Len(h) /\ DOMAIN g = 1..Len(h) + 1
      /\ \A n \in DOMAIN h : g[n] = h[n]
      /\ g[Len(h) + 1] = w
  OBVIOUS
<1> HIDE DEF g
<1>2. \A u, v : Before(h, u, v) => Before(g, u, v)
  BY <1>1 DEF Before
<1>3. \A v : In(v, h) => In(v, g) /\ Before(g, v, w)
  BY <1>1 DEF Before, In
<1>4. In(w, g)
  BY <1>1 DEF In
<1>5. QED
  BY <1>2, <1>3, <1>4, Zenon DEF g

LEMMA OrderGrows ==
    ASSUME NEW h \in Seq(Write), NEW w \in Write, NEW s \in Seq(DataWrite)
    PROVE  LET g == Append(h, w) IN
           /\ Ordered(h, s) => Ordered(g, s)
           /\ Ordered(h, s) /\ (\A i \in DOMAIN s : In(s[i], h)) => Ordered(g, Append(s, w))
           /\ \A v : Precedes(h, v, s) => Precedes(g, v, s)
           /\ \A v : Precedes(h, v, s) /\ In(v, h) => Precedes(g, v, Append(s, w))
<1> DEFINE g == Append(h, w)
           t == Append(s, w)
<1>1. /\ \A u, v : Before(h, u, v) => Before(g, u, v)
      /\ \A v : In(v, h) => Before(g, v, w)
  BY HistoryGrows, Zenon
<1>2. /\ Len(s) \in Nat /\ DOMAIN s = 1..Len(s) /\ DOMAIN t = 1..Len(s) + 1
      /\ \A n \in DOMAIN s : t[n] = s[n]
      /\ t[Len(s) + 1] = w
  OBVIOUS
<1> HIDE DEF g, t
<1>3. Ordered(h, s) => Ordered(g, s)
  BY <1>1, Zenon DEF Ordered
<1>4. Ordered(h, s) /\ (\A i \in DOMAIN s : In(s[i], h)) => Ordered(g, t)
  BY <1>1, <1>2 DEF Ordered
<1>5. \A v : Precedes(h, v, s) => Precedes(g, v, s)
  BY <1>1, Zenon DEF Precedes
<1>6. \A v : Precedes(h, v, s) /\ In(v, h) => Precedes(g, v, t)
  BY <1>1, <1>2 DEF Precedes
<1>7. QED
  BY <1>3, <1>4, <1>5, <1>6, Zenon DEF g, t

LEMMA EntersKeepsOrder ==
    ASSUME TypeOK, LockInv, OrderInv, CommitOrder, NEW w \in Write, Enters(w),
           wpc'[w] \in {"failed", "flush", "wait"}
    PROVE  OrderInv' /\ CommitOrder'
<1> DEFINE g == Append(arrived, w)
<1>1. arrived \in Seq(Write) /\ arrived' = g /\ on[w] \in Buffer
  BY Zenon DEF TypeOK, Enters
<1>2. /\ \A u, v : Before(arrived, u, v) => Before(g, u, v)
      /\ \A v : In(v, arrived) => In(v, g)
      /\ In(w, g)
  BY <1>1, HistoryGrows, Zenon
<1>3. \A b \in Buffer :
        /\ buf[b].ops \in Seq(DataWrite)
        /\ buf'[b].ops = buf[b].ops \/ (b = on[w] /\ buf'[b].ops = Append(buf[b].ops, w))
  BY Zenon DEF TypeOK, BufferState, Enters
<1>4. ASSUME NEW n \in DOMAIN g PROVE wpc'[g[n]] \notin {"new", "lock", "enqueue"}
  BY <1>1 DEF OrderInv, Enters, TypeOK
<1>5. ASSUME NEW m \in DOMAIN g, NEW n \in DOMAIN g, g[m] = g[n] PROVE m = n
  <2>1. \A k \in DOMAIN arrived : arrived[k] # w
    BY Zenon DEF OrderInv, Enters
  <2>2. QED
    BY <1>1, <1>5, <2>1 DEF OrderInv
<1>6. ASSUME NEW b \in Buffer PROVE Ordered(g, buf'[b].ops) /\ FromBuffer(buf[b].ops, b)'
  <2>1. /\ Ordered(arrived, buf[b].ops)
        /\ \A i \in DOMAIN buf[b].ops : on[buf[b].ops[i]] = b /\ In(buf[b].ops[i], arrived)
    BY Zenon DEF OrderInv, FromBuffer
  <2>2. Ordered(g, buf'[b].ops)
    <3>1. buf[b].ops \in Seq(DataWrite)
      BY <1>3, Zenon
    <3>2. Ordered(g, buf[b].ops) /\ Ordered(g, Append(buf[b].ops, w))
      BY <1>1, <2>1, <3>1, OrderGrows, Zenon
    <3>3. QED
      BY <1>3, <3>2, Zenon
  <2>3. \A i \in DOMAIN buf'[b].ops : on[buf'[b].ops[i]] = b /\ In(buf'[b].ops[i], g)
    BY SMTT(40), <1>2, <1>3, <2>1
  <2>4. QED
    BY <1>1, <2>2, <2>3, Zenon DEF FromBuffer, Enters
<1>7. ASSUME NEW f \in Task, tpc[f] = "append"
      PROVE  /\ Ordered(g, batch[f].ops)
             /\ \A i \in DOMAIN batch[f].ops : on[batch[f].ops[i]] = got[f] /\ In(batch[f].ops[i], g)
             /\ \A i \in DOMAIN batch[f].ops : Precedes(g, batch[f].ops[i], buf'[got[f]].ops)
  <2>1. /\ Ordered(arrived, batch[f].ops)
        /\ \A i \in DOMAIN batch[f].ops : on[batch[f].ops[i]] = got[f] /\ In(batch[f].ops[i], arrived)
        /\ \A i \in DOMAIN batch[f].ops : Precedes(arrived, batch[f].ops[i], buf[got[f]].ops)
    BY <1>7, Zenon DEF OrderInv, FromBuffer
  <2>2. got[f] \in Buffer /\ batch[f].ops \in Seq(DataWrite)
    BY <1>7, Zenon DEF LockInv, TaskLock, Flushing, TypeOK, Batch
  <2>3. ASSUME NEW i \in DOMAIN batch[f].ops PROVE Precedes(g, batch[f].ops[i], buf'[got[f]].ops)
    <3>1. buf[got[f]].ops \in Seq(DataWrite)
      BY <1>3, <2>2, Zenon
    <3>2. /\ Precedes(g, batch[f].ops[i], buf[got[f]].ops)
          /\ Precedes(g, batch[f].ops[i], Append(buf[got[f]].ops, w))
      BY <1>1, <2>1, <3>1, OrderGrows, Zenon
    <3>3. QED
      BY <1>3, <2>2, <3>2, Zenon
  <2>4. QED
    BY <1>1, <1>2, <2>1, <2>2, <2>3, OrderGrows, Zenon
<1>8. ASSUME NEW n \in DOMAIN log, NEW i \in DOMAIN log[n].ops
      PROVE  LET v == log[n].ops[i] IN
             /\ In(v, g)
             /\ \A b \in Buffer : on[v] = b => Precedes(g, v, buf'[b].ops)
             /\ \A f \in Task : tpc[f] = "append" /\ on[v] = got[f] => Precedes(g, v, batch[f].ops)
  <2> DEFINE v == log[n].ops[i]
  <2>1. /\ In(v, arrived)
        /\ \A b \in Buffer : on[v] = b => Precedes(arrived, v, buf[b].ops)
        /\ \A f \in Task : tpc[f] = "append" /\ on[v] = got[f] => Precedes(arrived, v, batch[f].ops)
    BY Zenon DEF OrderInv
  <2> HIDE DEF v
  <2>2. ASSUME NEW b \in Buffer, on[v] = b PROVE Precedes(g, v, buf'[b].ops)
    <3>1. buf[b].ops \in Seq(DataWrite)
      BY <1>3, Zenon
    <3>2. Precedes(g, v, buf[b].ops) /\ Precedes(g, v, Append(buf[b].ops, w))
      BY <1>1, <2>1, <2>2, <3>1, OrderGrows, Zenon
    <3>3. QED
      BY <1>3, <3>2, Zenon
  <2>3. ASSUME NEW f \in Task, tpc[f] = "append" /\ on[v] = got[f] PROVE Precedes(g, v, batch[f].ops)
    <3>1. batch[f].ops \in Seq(DataWrite)
      BY Zenon DEF TypeOK, Batch
    <3>2. QED
      BY <1>1, <2>1, <2>3, <3>1, OrderGrows, Zenon
  <2>4. QED
    BY <1>2, <2>1, <2>2, <2>3, Zenon DEF v
<1> HIDE DEF g
<1>9. OrderInv'
  <2>1. /\ arrived' = g /\ on' = on /\ log' = log /\ tpc' = tpc /\ got' = got /\ batch' = batch
    BY <1>1, Zenon DEF Enters
  <2>2. (\A f \in Task : tpc[f] = "append" =>
           /\ Ordered(arrived, batch[f].ops) /\ FromBuffer(batch[f].ops, got[f])
           /\ \A i \in DOMAIN batch[f].ops : Precedes(arrived, batch[f].ops[i], buf[got[f]].ops))'
    BY <1>7, <2>1, Zenon DEF FromBuffer
  <2>3. (\A b \in Buffer : Ordered(arrived, buf[b].ops) /\ FromBuffer(buf[b].ops, b))'
    BY <1>6, <2>1, Zenon
  <2>4. QED
    BY ZenonT(40), <1>4, <1>5, <1>8, <2>1, <2>2, <2>3 DEF OrderInv
<1>10. CommitOrder'
  <2>1. arrived' = g /\ on' = on /\ log' = log
    BY <1>1, Zenon DEF Enters
  <2>2. QED
    BY <1>2, <2>1, SMTT(30) DEF CommitOrder
<1>11. QED
  BY <1>9, <1>10, Zenon

LEMMA InAppend ==
    ASSUME NEW s \in Seq(DataWrite), NEW w
    PROVE  In(w, Append(s, w)) /\ \A v : In(v, s) => In(v, Append(s, w))
<1> DEFINE t == Append(s, w)
<1>1. /\ Len(s) \in Nat /\ DOMAIN s = 1..Len(s) /\ DOMAIN t = 1..Len(s) + 1
      /\ \A n \in DOMAIN s : t[n] = s[n]
      /\ t[Len(s) + 1] = w
  OBVIOUS
<1> HIDE DEF t
<1>2. QED
  BY <1>1 DEF In, t

LEMMA ClashKeepsBatches ==
    ASSUME TypeOK, LockInv, BatchInv, AckedWriteDurable, NoWaiterLost, NEW w \in Write, Enters(w),
           buf'[on[w]].waiters = buf[on[w]].waiters,
           wpc'[w] = "failed", ans' = [ans EXCEPT ![w] = "error"]
    PROVE  BatchInv' /\ AckedWriteDurable' /\ NoWaiterLost'
<1>1. ~ \A v \in Write : wpc'[v] # "failed"
  OBVIOUS
<1>2. ASSUME NEW b \in Buffer, NEW v PROVE In(v, buf[b].ops) => In(v, buf'[b].ops)
  <2>1. buf[b].ops \in Seq(DataWrite)
    BY Zenon DEF TypeOK, BufferState
  <2>2. QED
    BY <2>1, InAppend DEF Enters
<1>3. ASSUME NEW b \in Buffer PROVE Carries(buf[b])'
  <2>1. buf'[b].waiters = buf[b].waiters
    BY Zenon DEF Enters
  <2>2. QED
    BY <1>1, <1>2, <2>1, Zenon DEF BatchInv, Carries
<1>4. ASSUME NEW f \in Task PROVE Carries(batch[f])'
  BY <1>1, Zenon DEF BatchInv, Carries, Enters
<1>5. BatchInv'
  BY <1>3, <1>4, Zenon DEF BatchInv, Enters
<1>6. AckedWriteDurable'
  BY <1>1 DEF AckedWriteDurable, Enters, TypeOK
<1>7. NoWaiterLost'
  <2> SUFFICES ASSUME NEW v \in Write, wpc'[v] \in {"flush", "request", "wait"}, ans'[v] = "none"
               PROVE  v \in buf'[on'[v]].waiters \/ \E f \in Task : v \in batch'[f].waiters
    BY Zenon DEF NoWaiterLost
  <2>1. /\ wpc[v] \in {"flush", "request", "wait"} /\ ans[v] = "none"
        /\ on'[v] = on[v] /\ on[v] \in Buffer
    BY Zenon DEF Enters, LockInv, TypeOK
  <2>2. QED
    BY <2>1, Zenon DEF NoWaiterLost, Enters
<1>8. QED
  BY <1>5, <1>6, <1>7, Zenon

LEMMA EnqueueKeepsBatches ==
    ASSUME TypeOK, LockInv, BatchInv, AckedWriteDurable, NoWaiterLost, NEW w \in Write, Enters(w),
           buf'[on[w]].waiters = buf[on[w]].waiters \cup {w},
           buf'[on[w]].schema = IF w \in SchemaWrite THEN buf[on[w]].schema \cup {w}
                                ELSE buf[on[w]].schema,
           wpc'[w] \in {"flush", "wait"}, ans' = ans
    PROVE  BatchInv' /\ AckedWriteDurable' /\ NoWaiterLost'
<1>1. (\A v \in Write : wpc'[v] # "failed") => \A v \in Write : wpc[v] # "failed"
  BY DEF Enters, TypeOK
<1>2. ASSUME NEW b \in Buffer, NEW v PROVE In(v, buf[b].ops) => In(v, buf'[b].ops)
  <2>1. buf[b].ops \in Seq(DataWrite)
    BY Zenon DEF TypeOK, BufferState
  <2>2. QED
    BY <2>1, InAppend DEF Enters
<1>3. ASSUME NEW b \in Buffer PROVE Carries(buf[b])'
  <2>1. CASE b # on[w]
    <3>1. buf'[b] = buf[b]
      BY <2>1, Zenon DEF Enters
    <3>2. QED
      BY <1>1, <3>1, Zenon DEF BatchInv, Carries
  <2>2. CASE b = on[w]
    <3>1. w \in DataWrite => In(w, buf'[b].ops)
      <4>1. buf[b].ops \in Seq(DataWrite)
        BY Zenon DEF TypeOK, BufferState
      <4>2. QED
        BY ZenonT(40), <2>2, <4>1, InAppend DEF Enters
    <3>2. QED
      BY <1>1, <1>2, <2>2, <3>1 DEF BatchInv, Carries
  <2>3. QED
    BY <2>1, <2>2, Zenon
<1>4. ASSUME NEW f \in Task PROVE Carries(batch[f])'
  BY <1>1, Zenon DEF BatchInv, Carries, Enters
<1>5. BatchInv'
  BY <1>3, <1>4, Zenon DEF BatchInv, Enters
<1>6. AckedWriteDurable'
  BY <1>1, Zenon DEF AckedWriteDurable, Enters
<1>7. NoWaiterLost'
  <2> SUFFICES ASSUME NEW v \in Write, wpc'[v] \in {"flush", "request", "wait"}, ans'[v] = "none"
               PROVE  v \in buf'[on'[v]].waiters \/ \E f \in Task : v \in batch'[f].waiters
    BY Zenon DEF NoWaiterLost
  <2>1. CASE v = w
    BY <2>1, Zenon DEF Enters
  <2>2. CASE v # w
    <3>1. /\ wpc[v] \in {"flush", "request", "wait"} /\ ans[v] = "none"
          /\ on'[v] = on[v] /\ on[v] \in Buffer
      BY <2>2, Zenon DEF Enters, LockInv, TypeOK
    <3>2. QED
      BY <3>1, Zenon DEF NoWaiterLost, Enters
  <2>3. QED
    BY <2>1, <2>2, Zenon
<1>8. QED
  BY <1>5, <1>6, <1>7, Zenon

-----------------------------------------------------------------------------
(* The steps of flush_namespace from the drain on.                         *)

(* Only the holder of a flush lock works on the buffer.                    *)
LEMMA LockExcludes ==
    ASSUME LockInv, NEW f \in Task, tpc[f] \in Flushing, NEW g \in Task \ {f}, tpc[g] \in Flushing
    PROVE  got[g] # got[f]
BY Zenon DEF LockInv, TaskLock

(* A flush returns: it gives its lock back.                                *)
LEMMA ReleaseLock ==
    ASSUME TypeOK, LockInv, NEW f \in Task, tpc[f] \in Flushing,
           NEW l \in {"store", "more", "off"}, tpc' = [tpc EXCEPT ![f] = l],
           \A c \in Buffer \ {got[f]} : buf'[c] = buf[c],
           UNCHANGED <<wpc, on, arg, got>>
    PROVE  LockInv'
<1>1. TaskLock(f)'
  BY Zenon DEF LockInv, TaskLock, Flushing, TypeOK
<1>2. ASSUME NEW g \in Task \ {f} PROVE TaskLock(g)'
  <2>1. tpc'[g] = tpc[g]
    BY Zenon DEF TypeOK
  <2>2. CASE tpc[g] \in Flushing
    <3>1. got[g] # got[f]
      BY <2>2, LockExcludes, Zenon
    <3>2. QED
      BY <2>1, <2>2, <3>1, Zenon DEF LockInv, TaskLock
  <2>3. CASE tpc[g] \notin Flushing
    BY <2>1, <2>3, Zenon DEF LockInv, TaskLock, Flushing
  <2>4. QED
    BY <2>2, <2>3, Zenon
<1>3. QED
  BY <1>1, <1>2, Zenon DEF LockInv

(* The drain empties the buffer into the batch of the task.                *)
Drains(f) ==
    /\ got[f] \in Buffer /\ tpc[f] = "drain" /\ tpc' = [tpc EXCEPT ![f] = "append"]
    /\ batch' = [batch EXCEPT ![f] = batch'[f]]
    /\ batch'[f].ops = buf[got[f]].ops /\ batch'[f].schema = buf[got[f]].schema
    /\ batch'[f].waiters = buf[got[f]].waiters
    /\ buf'[got[f]].ops = <<>> /\ buf'[got[f]].waiters = {}
    /\ \A c \in Buffer \ {got[f]} : buf'[c] = buf[c]
    /\ UNCHANGED <<wpc, on, ans, arg, got, log, arrived>>

LEMMA DrainEffect ==
    ASSUME TypeOK, LockInv, NEW f \in Task, FlushDrain(f)
    PROVE  TypeOK' /\ LockInv' /\ (Quiet \/ Drains(f))
<1> DEFINE b == got[f]
           s == buf[b]
<1>1. b \in Buffer /\ s \in BufferState /\ tpc[f] = "drain"
  BY Zenon DEF FlushDrain, LockInv, TaskLock, Flushing, TypeOK
<1>2. UNCHANGED <<buffers, wpc, on, ans, arg, got, log, arrived>>
  BY Zenon DEF FlushDrain, writer
<1>3. CASE tpc' = [tpc EXCEPT ![f] = "empty"] /\ UNCHANGED <<buf, batch>>
  BY <1>1, <1>2, <1>3, TaskLocks, QuietSame DEF TypeOK, Quiet, TaskLock, LockInv, Flushing
<1>4. CASE /\ batch' = [batch EXCEPT ![f] = [ops |-> s.ops, schema |-> s.schema,
                                             metric |-> s.metric, waiters |-> s.waiters]]
           /\ buf' = [buf EXCEPT ![b] = [TakeTimer(s) EXCEPT !.ops = <<>>, !.schema = {},
                                                             !.metric = {}, !.waiters = {}]]
           /\ tpc' = [tpc EXCEPT ![f] = "append"]
  <2> DEFINE r == TakeTimer(s)
             t == [r EXCEPT !.ops = <<>>, !.schema = {}, !.metric = {}, !.waiters = {}]
             x == [ops |-> s.ops, schema |-> s.schema, metric |-> s.metric, waiters |-> s.waiters]
  <2>1. r \in BufferState /\ r.flush_lock = s.flush_lock /\ r.cooling = s.cooling
    BY <1>1, TakeTimerEffect, Zenon
  <2>2. buf' = [buf EXCEPT ![b] = t] /\ batch' = [batch EXCEPT ![f] = x]
    BY <1>4, Zenon
  <2>3. x \in Batch
    BY <1>1, Zenon DEF BufferState, Batch
  <2> HIDE DEF r
  <2>4. /\ t \in BufferState /\ t.ops = <<>> /\ t.waiters = {}
        /\ t.flush_lock = s.flush_lock /\ t.cooling = s.cooling
    <3>1. <<>> \in Seq(DataWrite) /\ {} \in SUBSET SchemaWrite /\ {} \in SUBSET MetricWrite
      OBVIOUS
    <3>2. QED
      BY <2>1, <3>1, Zenon DEF BufferState
  <2> HIDE DEF t
  <2>5. /\ buf' \in [Buffer -> BufferState] /\ buf'[b] = t
        /\ \A c \in Buffer \ {b} : buf'[c] = buf[c]
        /\ LocksKept
    BY <1>1, <2>2, <2>4, BufferUpdate, Zenon
  <2>6. batch'[f] = x /\ batch' \in [Task -> Batch]
    BY <2>2, <2>3, Zenon DEF TypeOK
  <2>7. TypeOK'
    BY <1>2, <1>4, <2>5, <2>6, Zenon DEF TypeOK
  <2>8. TaskLock(f)'
    <3>1. tpc'[f] = "append" /\ arg'[f] = arg[f] /\ got'[f] = b
      BY <1>2, <1>4, Zenon DEF TypeOK
    <3>2. arg[f] \in Buffer /\ buf[b].flush_lock = f
      BY <1>1, Zenon DEF LockInv, TaskLock, Flushing
    <3>3. QED
      BY <1>1, <2>5, <3>1, <3>2, Zenon DEF TaskLock, LocksKept, Flushing
  <2>9. LockInv'
    BY <1>2, <1>4, <2>5, <2>8, TaskLocks, Zenon DEF TypeOK
  <2>10. Drains(f)
    BY <1>1, <1>2, <1>4, <2>2, <2>4, <2>5, <2>6 DEF Drains
  <2>11. QED
    BY <2>7, <2>9, <2>10, Zenon
<1>5. QED
  BY <1>3, <1>4, Zenon DEF FlushDrain, Goto

LEMMA DrainKeeps ==
    ASSUME TypeOK, LockInv, BatchInv, OrderInv, AckedWriteDurable, CommitOrder, NoWaiterLost,
           NEW f \in Task, Drains(f)
    PROVE  BatchInv' /\ OrderInv' /\ AckedWriteDurable' /\ CommitOrder' /\ NoWaiterLost'
<1> DEFINE b == got[f]
<1>1. b \in Buffer /\ \A c \in Buffer \ {b} : buf'[c] = buf[c]
  BY Zenon DEF Drains
<1>2. /\ tpc'[f] = "append"
      /\ \A g \in Task \ {f} : tpc'[g] = tpc[g] /\ batch'[g] = batch[g]
  BY Zenon DEF Drains, TypeOK
<1>3. BatchInv'
  <2>1. ASSUME NEW c \in Buffer PROVE Carries(buf[c])'
    BY ZenonT(30), <1>1 DEF BatchInv, Carries, Drains
  <2>2. Carries(batch[f])'
    BY <1>1, Zenon DEF BatchInv, Carries, Drains
  <2>3. ASSUME NEW g \in Task \ {f} PROVE Carries(batch[g])'
    BY <1>2, Zenon DEF BatchInv, Carries, Drains
  <2>4. ASSUME NEW g \in Task \ {f}
        PROVE  (/\ tpc[g] \notin {"append", "commit"} => batch[g] = NoBatch
                /\ tpc[g] = "commit" => \E n \in DOMAIN log :
                     log[n].ops = batch[g].ops /\ log[n].schema = batch[g].schema)'
    <3>1. tpc'[g] = tpc[g] /\ batch'[g] = batch[g] /\ log' = log
      BY <1>2, Zenon DEF Drains
    <3>2. /\ tpc[g] \notin {"append", "commit"} => batch[g] = NoBatch
          /\ tpc[g] = "commit" => \E n \in DOMAIN log :
               log[n].ops = batch[g].ops /\ log[n].schema = batch[g].schema
      BY Zenon DEF BatchInv
    <3>3. QED
      BY <3>1, <3>2, Zenon
  <2>5. tpc'[f] \in {"append", "commit"} /\ tpc'[f] # "commit"
    BY <1>2, Zenon
  <2>6. ASSUME NEW g \in Task
        PROVE  (/\ Carries(batch[g])
                /\ tpc[g] \notin {"append", "commit"} => batch[g] = NoBatch
                /\ tpc[g] = "commit" => \E n \in DOMAIN log :
                     log[n].ops = batch[g].ops /\ log[n].schema = batch[g].schema)'
    <3>1. CASE g = f
      BY <2>2, <2>5, <3>1, Zenon
    <3>2. CASE g # f
      BY <2>3, <2>4, <3>2, Zenon
    <3>3. QED
      BY <3>1, <3>2, Zenon
  <2>7. QED
    BY <2>1, <2>6, Zenon DEF BatchInv
<1>4. AckedWriteDurable' /\ CommitOrder'
  <2>1. ans' = ans /\ wpc' = wpc /\ on' = on /\ log' = log /\ arrived' = arrived
    BY Zenon DEF Drains
  <2>2. AckedWriteDurable'
    BY <2>1, Zenon DEF AckedWriteDurable
  <2>3. CommitOrder'
    BY <2>1, SMTT(30) DEF CommitOrder
  <2>4. QED
    BY <2>2, <2>3, Zenon
<1>5. NoWaiterLost'
  <2> SUFFICES ASSUME NEW v \in Write, wpc[v] \in {"flush", "request", "wait"}, ans[v] = "none"
               PROVE  v \in buf'[on[v]].waiters \/ \E g \in Task : v \in batch'[g].waiters
    BY Zenon DEF NoWaiterLost, Drains
  <2>1. CASE v \in buf[on[v]].waiters
    <3>1. on[v] \in Buffer
      BY Zenon DEF LockInv
    <3>2. QED
      BY <1>1, <2>1, <3>1, Zenon DEF Drains
  <2>2. ASSUME NEW g \in Task, v \in batch[g].waiters PROVE v \in batch'[g].waiters
    <3>1. g # f
      <4>1. batch[f] = NoBatch /\ NoBatch.waiters = {}
        BY Zenon DEF BatchInv, Drains, NoBatch
      <4>2. QED
        BY <2>2, <4>1, Zenon
    <3>2. QED
      BY <1>2, <2>2, <3>1, Zenon
  <2>3. QED
    BY <2>1, <2>2, Zenon DEF NoWaiterLost
<1>6. OrderInv'
  <2>a. arrived' = arrived /\ on' = on /\ got' = got /\ log' = log /\ wpc' = wpc
    BY Zenon DEF Drains
  <2>e. DOMAIN <<>> = {}
    OBVIOUS
  <2>1. ASSUME NEW c \in Buffer PROVE (Ordered(arrived, buf[c].ops) /\ FromBuffer(buf[c].ops, c))'
    <3>1. CASE c = b
      <4>1. buf'[c].ops = <<>>
        BY <3>1, Zenon DEF Drains
      <4>2. QED
        BY <2>e, <4>1, Zenon DEF Ordered, FromBuffer
    <3>2. CASE c # b
      <4>1. buf'[c] = buf[c]
        BY <1>1, <3>2, Zenon
      <4>2. QED
        BY <2>a, <4>1, Zenon DEF OrderInv, FromBuffer
    <3>3. QED
      BY <3>1, <3>2, Zenon
  <2>2. (/\ Ordered(arrived, batch[f].ops) /\ FromBuffer(batch[f].ops, got[f])
         /\ \A i \in DOMAIN batch[f].ops : Precedes(arrived, batch[f].ops[i], buf[got[f]].ops))'
    <3>1. batch'[f].ops = buf[b].ops /\ buf'[b].ops = <<>>
      BY Zenon DEF Drains
    <3>2. Ordered(arrived, buf[b].ops) /\ FromBuffer(buf[b].ops, b)
      BY <1>1, Zenon DEF OrderInv
    <3>3. QED
      BY <2>a, <2>e, <3>1, <3>2, Zenon DEF FromBuffer, Precedes
  <2>3. ASSUME NEW g \in Task \ {f}
        PROVE  (tpc[g] = "append" =>
                 /\ Ordered(arrived, batch[g].ops) /\ FromBuffer(batch[g].ops, got[g])
                 /\ \A i \in DOMAIN batch[g].ops : Precedes(arrived, batch[g].ops[i], buf[got[g]].ops))'
    <3> HAVE (tpc[g] = "append")'
    <3>1. tpc[g] = "append" /\ got[g] \in Buffer
      BY <1>2, Zenon DEF LockInv, TaskLock, Flushing
    <3>2. got[g] # b
      BY <3>1, LockExcludes, Zenon DEF Drains, Flushing
    <3>3. QED
      <4>1. batch'[g] = batch[g] /\ buf'[got[g]] = buf[got[g]]
        BY <1>1, <1>2, <3>1, <3>2, Zenon
      <4>2. /\ Ordered(arrived, batch[g].ops) /\ FromBuffer(batch[g].ops, got[g])
            /\ \A i \in DOMAIN batch[g].ops : Precedes(arrived, batch[g].ops[i], buf[got[g]].ops)
        BY <3>1, Zenon DEF OrderInv
      <4>3. QED
        BY <2>a, <4>1, <4>2, Zenon DEF FromBuffer
  <2>4. ASSUME NEW n \in DOMAIN log, NEW i \in DOMAIN log[n].ops
        PROVE  LET v == log[n].ops[i] IN
               /\ In(v, arrived)
               /\ \A c \in Buffer : on[v] = c => Precedes(arrived, v, buf'[c].ops)
               /\ \A g \in Task : tpc'[g] = "append" /\ on[v] = got[g] => Precedes(arrived, v, batch'[g].ops)
    <3> DEFINE v == log[n].ops[i]
    <3>1. /\ In(v, arrived)
          /\ \A c \in Buffer : on[v] = c => Precedes(arrived, v, buf[c].ops)
          /\ \A g \in Task : tpc[g] = "append" /\ on[v] = got[g] => Precedes(arrived, v, batch[g].ops)
      BY Zenon DEF OrderInv
    <3> HIDE DEF v
    <3>2. ASSUME NEW c \in Buffer, on[v] = c PROVE Precedes(arrived, v, buf'[c].ops)
      BY <1>1, <3>1, <3>2 DEF Precedes, Drains
    <3>3. ASSUME NEW g \in Task, tpc'[g] = "append" /\ on[v] = got[g]
          PROVE  Precedes(arrived, v, batch'[g].ops)
      BY ZenonT(40), <1>1, <1>2, <3>1, <3>3 DEF Drains
    <3>4. QED
      BY <3>1, <3>2, <3>3, Zenon DEF v
  <2>5. QED
    <3>1. (/\ \A n \in DOMAIN arrived : wpc[arrived[n]] \notin {"new", "lock", "enqueue"}
           /\ \A m, n \in DOMAIN arrived : arrived[m] = arrived[n] => m = n)'
      BY <2>a, Zenon DEF OrderInv
    <3>2. (\A g \in Task : tpc[g] = "append" =>
             /\ Ordered(arrived, batch[g].ops) /\ FromBuffer(batch[g].ops, got[g])
             /\ \A i \in DOMAIN batch[g].ops :
                  Precedes(arrived, batch[g].ops[i], buf[got[g]].ops))'
      BY <2>2, <2>3, Zenon
    <3>3. QED
      BY ZenonT(40), <2>a, <2>1, <2>4, <3>1, <3>2 DEF OrderInv
<1>7. QED
  BY <1>3, <1>4, <1>5, <1>6, Zenon

(* A flush that finds nothing to commit answers those who wait.            *)
AnswersIdle(f) ==
    /\ got[f] \in Buffer /\ tpc[f] = "empty" /\ tpc' = [tpc EXCEPT ![f] = AfterFlush(f)]
    /\ buf[got[f]].ops = <<>> /\ buf[got[f]].schema = {}
    /\ ans' = [w \in Write |-> IF w \in buf[got[f]].waiters THEN "ok" ELSE ans[w]]
    /\ buf'[got[f]].ops = <<>> /\ buf'[got[f]].waiters = {}
    /\ \A c \in Buffer \ {got[f]} : buf'[c] = buf[c]
    /\ UNCHANGED <<wpc, on, arg, got, batch, log, arrived>>

LEMMA EmptyEffect ==
    ASSUME TypeOK, LockInv, NEW f \in Task, FlushEmpty(f)
    PROVE  TypeOK' /\ LockInv' /\ (Quiet \/ AnswersIdle(f))
<1> DEFINE b == got[f]
           r == TakeTimer(buf[b])
           s == [r EXCEPT !.flush_lock = Nobody]
           t == [s EXCEPT !.waiters = {}]
<1>1. b \in Buffer /\ buf[b] \in BufferState /\ tpc[f] = "empty" /\ tpc[f] \in Flushing
  BY Zenon DEF FlushEmpty, LockInv, TaskLock, Flushing, TypeOK
<1>2. /\ UNCHANGED <<buffers, wpc, on, arg, got, batch, log, arrived>>
      /\ tpc' = [tpc EXCEPT ![f] = AfterFlush(f)]
  BY Zenon DEF FlushEmpty, Goto, writer
<1>3. /\ r \in BufferState /\ SameContent(buf[b], r)
  BY <1>1, TakeTimerEffect, Zenon
<1>4. \/ /\ NothingBuffered(s) /\ ans' = [w \in Write |-> IF w \in s.waiters THEN "ok" ELSE ans[w]]
         /\ buf' = [buf EXCEPT ![b] = t]
      \/ buf' = [buf EXCEPT ![b] = s] /\ ans' = ans
  BY Zenon DEF FlushEmpty, Answer
<1>5. AfterFlush(f) \in {"store", "more", "off"}
  BY Zenon DEF AfterFlush
<1> HIDE DEF r
<1>6. s \in BufferState /\ SameContent(buf[b], s)
  BY <1>3, Zenon DEF BufferState, SameContent
<1> HIDE DEF s
<1>7. t \in BufferState /\ t.ops = s.ops /\ t.waiters = {}
  BY <1>6, Zenon DEF BufferState
<1> HIDE DEF t
<1>8. /\ buf' \in [Buffer -> BufferState]
      /\ \A c \in Buffer \ {b} : buf'[c] = buf[c]
  BY <1>1, <1>4, <1>6, <1>7, BufferUpdate, Zenon
<1>9. TypeOK'
  BY <1>2, <1>4, <1>5, <1>8 DEF TypeOK
<1>10. LockInv'
  BY <1>1, <1>2, <1>5, <1>8, ReleaseLock, Zenon
<1>11. CASE buf' = [buf EXCEPT ![b] = s] /\ ans' = ans
  <2>1. \A c \in Buffer : SameContent(buf[c], buf'[c])
    BY <1>1, <1>6, <1>8, <1>11, Zenon DEF SameContent, TypeOK
  <2>2. Quiet
    BY <1>1, <1>2, <1>5, <1>11, <2>1, Zenon DEF Quiet, TypeOK
  <2>3. QED
    BY <1>9, <1>10, <2>2, Zenon
<1>12. CASE /\ NothingBuffered(s) /\ ans' = [w \in Write |-> IF w \in s.waiters THEN "ok" ELSE ans[w]]
            /\ buf' = [buf EXCEPT ![b] = t]
  <2>1. AnswersIdle(f)
    BY <1>1, <1>2, <1>6, <1>7, <1>8, <1>12, Zenon DEF AnswersIdle, NothingBuffered, SameContent, TypeOK
  <2>2. QED
    BY <1>9, <1>10, <2>1, Zenon
<1>13. QED
  BY <1>4, <1>11, <1>12, Zenon

LEMMA AnswersIdleKeeps ==
    ASSUME TypeOK, LockInv, BatchInv, OrderInv, AckedWriteDurable, CommitOrder, NoWaiterLost,
           NEW f \in Task, AnswersIdle(f)
    PROVE  BatchInv' /\ OrderInv' /\ AckedWriteDurable' /\ CommitOrder' /\ NoWaiterLost'
<1> DEFINE b == got[f]
<1>1. b \in Buffer /\ \A c \in Buffer \ {b} : buf'[c] = buf[c]
  BY Zenon DEF AnswersIdle
<1>2. \A c \in Buffer : buf'[c].ops = buf[c].ops
  BY <1>1, Zenon DEF AnswersIdle
<1>3. \A g \in Task : tpc'[g] \in {"append", "commit"} <=> tpc[g] \in {"append", "commit"}
  BY Zenon DEF AnswersIdle, AfterFlush, TypeOK
<1>4. \A g \in Task : tpc'[g] \in {"append", "commit"} => tpc'[g] = tpc[g]
  BY Zenon DEF AnswersIdle, AfterFlush, TypeOK
<1>5. BatchInv'
  <2>1. ASSUME NEW c \in Buffer PROVE Carries(buf[c])'
    BY <1>1, Zenon DEF BatchInv, Carries, AnswersIdle
  <2>2. ASSUME NEW g \in Task PROVE Carries(batch[g])'
    BY Zenon DEF BatchInv, Carries, AnswersIdle
  <2>3. QED
    BY <1>3, <1>4, <2>1, <2>2, Zenon DEF BatchInv, AnswersIdle
<1>6. AckedWriteDurable'
  <2>1. ASSUME NEW w \in buf[b].waiters
        PROVE  w \notin DataWrite /\ ((\A v \in Write : wpc[v] # "failed") => w \notin SchemaWrite)
    BY <1>1 DEF BatchInv, Carries, In, AnswersIdle
  <2>2. QED
    BY <2>1, BufferAssumption, Zenon DEF AckedWriteDurable, AnswersIdle
<1>7. NoWaiterLost'
  <2> SUFFICES ASSUME NEW v \in Write, wpc[v] \in {"flush", "request", "wait"}, ans'[v] = "none"
               PROVE  v \in buf'[on[v]].waiters \/ \E g \in Task : v \in batch'[g].waiters
    BY Zenon DEF NoWaiterLost, AnswersIdle
  <2>1. v \notin buf[b].waiters /\ ans[v] = "none"
    BY Zenon DEF AnswersIdle
  <2>2. on[v] \in Buffer
    BY Zenon DEF LockInv
  <2>3. QED
    BY <1>1, <2>1, <2>2, Zenon DEF NoWaiterLost, AnswersIdle
<1>8. OrderInv'
  <2>1. ASSUME NEW c \in Buffer PROVE (Ordered(arrived, buf[c].ops) /\ FromBuffer(buf[c].ops, c))'
    <3>1. buf'[c].ops = buf[c].ops /\ arrived' = arrived /\ on' = on
      BY <1>2, Zenon DEF AnswersIdle
    <3>2. QED
      BY ZenonT(40), <3>1 DEF OrderInv, FromBuffer
  <2>2. ASSUME NEW g \in Task
        PROVE  (tpc[g] = "append" =>
                 /\ Ordered(arrived, batch[g].ops) /\ FromBuffer(batch[g].ops, got[g])
                 /\ \A i \in DOMAIN batch[g].ops : Precedes(arrived, batch[g].ops[i], buf[got[g]].ops))'
    <3> HAVE (tpc[g] = "append")'
    <3>1. tpc[g] = "append" /\ got[g] \in Buffer
      BY <1>4, Zenon DEF LockInv, TaskLock, Flushing
    <3>2. QED
      <4>1. /\ buf'[got[g]].ops = buf[got[g]].ops /\ batch' = batch
            /\ arrived' = arrived /\ on' = on /\ got' = got
        BY <1>2, <1>4, <3>1, Zenon DEF AnswersIdle
      <4>2. QED
        BY ZenonT(30), <3>1, <4>1 DEF OrderInv, FromBuffer
  <2>3. ASSUME NEW n \in DOMAIN log, NEW i \in DOMAIN log[n].ops
        PROVE  LET v == log[n].ops[i] IN
               /\ In(v, arrived)
               /\ \A c \in Buffer : on[v] = c => Precedes(arrived, v, buf'[c].ops)
               /\ \A g \in Task : tpc'[g] = "append" /\ on[v] = got[g] => Precedes(arrived, v, batch[g].ops)
    BY <1>2, <1>4, Zenon DEF OrderInv
  <2>4. QED
    <3>1. arrived' = arrived /\ on' = on /\ got' = got /\ log' = log /\ wpc' = wpc
          /\ batch' = batch
      BY <1>4, Zenon DEF AnswersIdle
    <3>2. (/\ \A n \in DOMAIN arrived : wpc[arrived[n]] \notin {"new", "lock", "enqueue"}
           /\ \A m, n \in DOMAIN arrived : arrived[m] = arrived[n] => m = n)'
      BY <3>1, Zenon DEF OrderInv
    <3>3. QED
      BY ZenonT(40), <2>1, <2>2, <2>3, <3>1, <3>2 DEF OrderInv
<1>9. CommitOrder'
  BY DEF CommitOrder, AnswersIdle
<1>10. QED
  BY <1>5, <1>6, <1>7, <1>8, <1>9, Zenon

-----------------------------------------------------------------------------
(* The end of a flush: its batch becomes durable, or not, and its waiters  *)
(* hear of it.                                                             *)

Leaves(f) ==
    /\ tpc[f] \in {"append", "commit"}
    /\ \E l \in {"commit", "store", "more", "off"} : tpc' = [tpc EXCEPT ![f] = l]
    /\ \A c \in Buffer : SameContent(buf[c], buf'[c])
    /\ \A g \in Task \ {f} : batch'[g] = batch[g]
    /\ log' = log \/ (tpc[f] = "append" /\ Durable(f))
    /\ UNCHANGED <<wpc, on, got, arrived>>

(* append_wal adds the batch at the end of the log.                        *)
LEMMA LogGrows ==
    ASSUME TypeOK, NEW f \in Task, Durable(f)
    PROVE  /\ Len(log) \in Nat /\ DOMAIN log = 1..Len(log) /\ DOMAIN log' = 1..Len(log) + 1
           /\ \A n \in DOMAIN log : log'[n] = log[n]
           /\ log'[Len(log) + 1].ops = batch[f].ops
           /\ log'[Len(log) + 1].schema = batch[f].schema
           /\ log' \in Seq([ops : Seq(DataWrite), schema : SUBSET SchemaWrite,
                            metric : SUBSET MetricWrite])
<1> DEFINE E == [ops : Seq(DataWrite), schema : SUBSET SchemaWrite, metric : SUBSET MetricWrite]
           e == [ops |-> batch[f].ops, schema |-> batch[f].schema, metric |-> batch[f].metric]
<1>1. e \in E /\ log \in Seq(E) /\ log' = Append(log, e)
  BY Zenon DEF TypeOK, Batch, Durable
<1>2. e.ops = batch[f].ops /\ e.schema = batch[f].schema
  OBVIOUS
<1> HIDE DEF E, e
<1>3. /\ Len(log) \in Nat /\ DOMAIN log = 1..Len(log) /\ DOMAIN log' = 1..Len(log) + 1
      /\ \A n \in DOMAIN log : log'[n] = log[n]
      /\ log'[Len(log) + 1] = e
      /\ log' \in Seq(E)
  BY <1>1
<1>4. QED
  BY <1>2, <1>3, Zenon DEF E

LEMMA BeforeDiffers ==
    ASSUME TypeOK, OrderInv, NEW v, NEW w, Before(arrived, v, w)
    PROVE  v # w
<1>1. PICK m, n \in DOMAIN arrived : m < n /\ arrived[m] = v /\ arrived[n] = w
  BY Zenon DEF Before
<1>2. m \in Nat /\ n \in Nat
  BY DEF TypeOK
<1>3. QED
  <2>1. \A k, l \in DOMAIN arrived : arrived[k] = arrived[l] => k = l
    BY Zenon DEF OrderInv
  <2>2. m # n
    BY <1>1, <1>2
  <2>3. QED
    BY <1>1, <2>1, <2>2, Zenon

LEMMA LeavesKeepsOrder ==
    ASSUME TypeOK, LockInv, OrderInv, CommitOrder, NEW f \in Task, Leaves(f)
    PROVE  OrderInv' /\ CommitOrder'
<1>1. /\ \A c \in Buffer : buf'[c].ops = buf[c].ops
      /\ UNCHANGED <<wpc, on, got, arrived>>
  BY Zenon DEF Leaves, SameContent
<1>2. ASSUME NEW g \in Task, tpc'[g] = "append"
      PROVE  /\ g # f /\ tpc[g] = "append" /\ batch'[g] = batch[g]
             /\ got[g] \in Buffer /\ got[f] \in Buffer /\ got[g] # got[f]
  <2>1. g # f /\ tpc[g] = "append" /\ batch'[g] = batch[g]
    BY <1>2, Zenon DEF Leaves, TypeOK
  <2>2. tpc[f] \in Flushing /\ tpc[g] \in Flushing
    BY <2>1, Zenon DEF Leaves, Flushing
  <2>3. QED
    BY <2>1, <2>2, LockExcludes, Zenon DEF LockInv, TaskLock
<1> DEFINE Old(v) == /\ In(v, arrived)
                     /\ \A b \in Buffer : on[v] = b => Precedes(arrived, v, buf[b].ops)
                     /\ \A g \in Task : tpc[g] = "append" /\ on[v] = got[g] =>
                          Precedes(arrived, v, batch[g].ops)
           New(v) == /\ In(v, arrived)
                     /\ \A b \in Buffer : on[v] = b => Precedes(arrived, v, buf'[b].ops)
                     /\ \A g \in Task : tpc'[g] = "append" /\ on[v] = got[g] =>
                          Precedes(arrived, v, batch'[g].ops)
<1>3. ASSUME NEW n \in DOMAIN log, NEW i \in DOMAIN log[n].ops PROVE New(log[n].ops[i])
  <2>1. Old(log[n].ops[i])
    BY Zenon DEF OrderInv
  <2>2. QED
    BY <1>1, <1>2, <2>1, Zenon
<1>4. ASSUME tpc[f] = "append", NEW i \in DOMAIN batch[f].ops PROVE New(batch[f].ops[i])
  <2> DEFINE v == batch[f].ops[i]
  <2>1. In(v, arrived) /\ on[v] = got[f] /\ Precedes(arrived, v, buf[got[f]].ops)
    BY <1>4, Zenon DEF OrderInv, FromBuffer
  <2> HIDE DEF v
  <2>2. \A b \in Buffer : on[v] = b => Precedes(arrived, v, buf'[b].ops)
    BY <1>1, <2>1, Zenon
  <2>3. \A g \in Task : tpc'[g] = "append" => on[v] # got[g]
    BY <1>2, <2>1, Zenon
  <2>4. New(v)
    BY <2>1, <2>2, <2>3, Zenon
  <2>5. QED
    BY <2>4, Zenon DEF v
<1>5. ASSUME NEW n \in DOMAIN log', NEW i \in DOMAIN log'[n].ops PROVE New(log'[n].ops[i])
  <2>1. CASE log' = log
    BY <1>3, <2>1, Zenon
  <2>2. CASE tpc[f] = "append" /\ Durable(f)
    <3>1. CASE n \in DOMAIN log
      <4>1. log'[n] = log[n]
        BY <2>2, <3>1, LogGrows, Zenon
      <4>2. QED
        BY <1>3, <3>1, <4>1, Zenon
    <3>2. CASE n \notin DOMAIN log
      <4>1. log'[n].ops = batch[f].ops
        BY <2>2, <3>2, LogGrows
      <4>2. QED
        BY <1>4, <2>2, <4>1, Zenon
    <3>3. QED
      BY <3>1, <3>2, Zenon
  <2>3. QED
    BY <2>1, <2>2, Zenon DEF Leaves
<1>6. OrderInv'
  <2>1. ASSUME NEW b \in Buffer PROVE (Ordered(arrived, buf[b].ops) /\ FromBuffer(buf[b].ops, b))'
    BY ZenonT(30), <1>1 DEF OrderInv, FromBuffer
  <2>2. ASSUME NEW g \in Task
        PROVE  (tpc[g] = "append" =>
                 /\ Ordered(arrived, batch[g].ops) /\ FromBuffer(batch[g].ops, got[g])
                 /\ \A i \in DOMAIN batch[g].ops : Precedes(arrived, batch[g].ops[i], buf[got[g]].ops))'
    <3> HAVE (tpc[g] = "append")'
    <3>1. tpc[g] = "append" /\ batch'[g] = batch[g] /\ got[g] \in Buffer
      BY <1>2, Zenon
    <3>2. buf'[got[g]].ops = buf[got[g]].ops /\ arrived' = arrived /\ on' = on /\ got' = got
      BY <1>1, <3>1, Zenon
    <3>3. /\ Ordered(arrived, batch[g].ops) /\ FromBuffer(batch[g].ops, got[g])
          /\ \A i \in DOMAIN batch[g].ops : Precedes(arrived, batch[g].ops[i], buf[got[g]].ops)
      BY <3>1, Zenon DEF OrderInv
    <3>4. QED
      BY <3>1, <3>2, <3>3, Zenon DEF FromBuffer
  <2>3. (\A n \in DOMAIN log : \A i \in DOMAIN log[n].ops :
           LET v == log[n].ops[i] IN
           /\ In(v, arrived)
           /\ \A b \in Buffer : on[v] = b => Precedes(arrived, v, buf[b].ops)
           /\ \A g \in Task : tpc[g] = "append" /\ on[v] = got[g] =>
                Precedes(arrived, v, batch[g].ops))'
    BY <1>1, <1>5, Zenon
  <2>4. QED
    BY <1>1, <2>1, <2>2, <2>3, Zenon DEF OrderInv
<1>7. CASE log' = log
  BY <1>1, <1>6, <1>7 DEF CommitOrder
<1>8. CASE tpc[f] = "append" /\ Durable(f)
  <2> SUFFICES ASSUME NEW m \in DOMAIN log', NEW n \in DOMAIN log',
                      NEW i \in DOMAIN log'[m].ops, NEW j \in DOMAIN log'[n].ops,
                      m < n \/ (m = n /\ i < j), on[log'[m].ops[i]] = on[log'[n].ops[j]]
               PROVE  log'[m].ops[i] # log'[n].ops[j]
                      /\ Before(arrived, log'[m].ops[i], log'[n].ops[j])
    <3>1. on' = on /\ arrived' = arrived
      BY <1>1, Zenon
    <3>2. QED
      BY ZenonT(40), <1>6, <3>1 DEF CommitOrder
  <2>1. CASE n \in DOMAIN log
    <3>1. m \in DOMAIN log
      BY <1>8, <2>1, LogGrows
    <3>2. log'[m] = log[m] /\ log'[n] = log[n]
      BY <1>8, <2>1, <3>1, LogGrows, Zenon
    <3>3. QED
      BY ZenonT(60), <2>1, <3>1, <3>2 DEF CommitOrder
  <2>2. CASE n \notin DOMAIN log
    <3>1. n = Len(log) + 1 /\ log'[n].ops = batch[f].ops
      BY <1>8, <2>2, LogGrows
    <3>2. on[log'[n].ops[j]] = got[f]
      <4>1. FromBuffer(batch[f].ops, got[f])
        BY <1>8, Zenon DEF OrderInv
      <4>2. QED
        BY <3>1, <4>1, Zenon DEF FromBuffer
    <3>3. Before(arrived, log'[m].ops[i], log'[n].ops[j])
      <4>1. CASE m \in DOMAIN log
        <5>1. log'[m] = log[m]
          BY <1>8, <4>1, LogGrows, Zenon
        <5>2. Precedes(arrived, log[m].ops[i], batch[f].ops)
          BY <1>8, <3>2, <4>1, <5>1, Zenon DEF OrderInv
        <5>3. QED
          BY <3>1, <5>1, <5>2, Zenon DEF Precedes
      <4>2. CASE m \notin DOMAIN log
        <5>1. m = n /\ i < j
          BY SMTT(40), <1>8, <3>1, <4>2, LogGrows
        <5>2. Ordered(arrived, batch[f].ops)
          BY <1>8, Zenon DEF OrderInv
        <5>3. QED
          BY <3>1, <5>1, <5>2, Zenon DEF Ordered
      <4>3. QED
        BY <4>1, <4>2, Zenon
    <3>4. QED
      BY <3>3, BeforeDiffers, Zenon
  <2>3. QED
    BY <2>1, <2>2, Zenon
<1>9. QED
  BY <1>6, <1>7, <1>8, Zenon DEF Leaves

LEMMA SucceedsEffect ==
    ASSUME TypeOK, LockInv, NEW f \in Task, AppendSucceeds(f)
    PROVE  TypeOK' /\ LockInv' /\ Leaves(f)
<1>1. /\ tpc[f] = "append" /\ tpc' = [tpc EXCEPT ![f] = "commit"] /\ Durable(f)
      /\ UNCHANGED <<buffers, buf, wpc, on, ans, arg, got, batch, arrived>>
  BY Zenon DEF AppendSucceeds, Goto, writer
<1>2. TypeOK'
  BY <1>1, LogGrows, Zenon DEF TypeOK
<1>3. TaskLock(f)'
  BY <1>1, Zenon DEF LockInv, TaskLock, Flushing, TypeOK
<1>4. LockInv'
  BY <1>1, <1>3, QuietSame, TaskLocks, Zenon DEF TypeOK
<1>5. Leaves(f)
  BY <1>1, QuietSame, Zenon DEF Leaves
<1>6. QED
  BY <1>2, <1>4, <1>5, Zenon

(* What was durable stays so.                                              *)
LEMMA LogKept ==
    ASSUME TypeOK, NEW f \in Task, Leaves(f)
    PROVE  /\ \A n \in DOMAIN log : n \in DOMAIN log' /\ log'[n] = log[n]
           /\ AckedWriteDurable /\ ans' = ans => AckedWriteDurable'
<1>1. \A n \in DOMAIN log : n \in DOMAIN log' /\ log'[n] = log[n]
  BY LogGrows DEF Leaves
<1>2. wpc' = wpc
  BY Zenon DEF Leaves
<1>3. QED
  BY <1>1, <1>2, Zenon DEF AckedWriteDurable

LEMMA SucceedsKeeps ==
    ASSUME TypeOK, LockInv, BatchInv, AckedWriteDurable, NoWaiterLost,
           NEW f \in Task, AppendSucceeds(f)
    PROVE  BatchInv' /\ AckedWriteDurable' /\ NoWaiterLost'
<1>1. /\ tpc[f] = "append" /\ tpc' = [tpc EXCEPT ![f] = "commit"] /\ Durable(f)
      /\ UNCHANGED <<buffers, buf, wpc, on, ans, arg, got, batch, arrived>>
  BY Zenon DEF AppendSucceeds, Goto, writer
<1>2. Leaves(f)
  BY SucceedsEffect, Zenon
<1>3. BatchInv'
  <2>1. ASSUME NEW b \in Buffer PROVE Carries(buf[b])'
    BY <1>1, Zenon DEF BatchInv, Carries
  <2>2. ASSUME NEW g \in Task
        PROVE  (/\ Carries(batch[g])
                /\ tpc[g] \notin {"append", "commit"} => batch[g] = NoBatch)'
    BY <1>1, Zenon DEF BatchInv, Carries, TypeOK
  <2>3. ASSUME NEW g \in Task, tpc'[g] = "commit"
        PROVE  \E n \in DOMAIN log' : log'[n].ops = batch[g].ops /\ log'[n].schema = batch[g].schema
    <3>1. CASE g = f
      BY <1>1, <3>1, LogGrows
    <3>2. CASE g # f
      <4>1. tpc[g] = "commit"
        BY <1>1, <2>3, <3>2, Zenon DEF TypeOK
      <4>2. QED
        BY ZenonT(40), <1>2, <4>1, LogKept DEF BatchInv
    <3>3. QED
      BY <3>1, <3>2, Zenon
  <2>4. QED
    BY <1>1, <2>1, <2>2, <2>3, Zenon DEF BatchInv
<1>4. AckedWriteDurable'
  BY <1>1, <1>2, LogKept, Zenon
<1>5. NoWaiterLost'
  BY <1>1, Zenon DEF NoWaiterLost
<1>6. QED
  BY <1>3, <1>4, <1>5, Zenon

(* The waiters of the batch are told that it failed, or that it is         *)
(* durable.                                                                *)
Tells(f, a) ==
    /\ Leaves(f) /\ tpc'[f] \in {"store", "more", "off"}
    /\ tpc' = [tpc EXCEPT ![f] = tpc'[f]]
    /\ ans' = [w \in Write |-> IF w \in batch[f].waiters THEN a ELSE ans[w]]
    /\ batch' = [batch EXCEPT ![f] = NoBatch]
    /\ a = "ok" => tpc[f] = "commit"

LEMMA TellsEffect ==
    ASSUME TypeOK, LockInv, NEW f \in Task, AppendFails(f) \/ FlushCommit(f)
    PROVE  TypeOK' /\ LockInv' /\ \E a \in {"ok", "error"} : Tells(f, a)
<1> DEFINE b == got[f]
<1>1. b \in Buffer /\ buf[b] \in BufferState /\ tpc[f] \in Flushing /\ tpc[f] \in {"append", "commit"}
  BY Zenon DEF AppendFails, FlushCommit, LockInv, TaskLock, Flushing, TypeOK
<1>2. PICK a \in {"ok", "error"}, l \in {"store", "more", "off"} :
        /\ ans' = [w \in Write |-> IF w \in batch[f].waiters THEN a ELSE ans[w]]
        /\ tpc' = [tpc EXCEPT ![f] = l]
        /\ a = "ok" => tpc[f] = "commit"
  BY Zenon DEF AppendFails, FlushCommit, Answer, Goto, AfterFlush
<1>3. /\ UNCHANGED <<buffers, wpc, on, arg, got, arrived>>
      /\ batch' = [batch EXCEPT ![f] = NoBatch]
      /\ log' = log \/ (tpc[f] = "append" /\ Durable(f))
  BY Zenon DEF AppendFails, FlushCommit, writer
<1>4. PICK t \in BufferState : SameContent(buf[b], t) /\ buf' = [buf EXCEPT ![b] = t]
  <2>1. CASE AppendFails(f)
    <3>1. buf' = [buf EXCEPT ![b] = [buf[b] EXCEPT !.flush_lock = Nobody]]
      BY <2>1, Zenon DEF AppendFails
    <3>2. QED
      BY <1>1, <3>1, SetFlushLock, Zenon
  <2>2. CASE FlushCommit(f)
    <3> DEFINE t == [buf[b] EXCEPT !.cooling = TRUE, !.flush_lock = Nobody]
    <3>1. buf' = [buf EXCEPT ![b] = t]
      BY <2>2, Zenon DEF FlushCommit
    <3>2. t \in BufferState /\ SameContent(buf[b], t)
      BY <1>1, Zenon DEF BufferState, SameContent
    <3>3. QED
      BY <3>1, <3>2, Zenon
  <2>3. QED
    BY <2>1, <2>2, Zenon
<1>5. /\ buf' \in [Buffer -> BufferState] /\ buf'[b] = t
      /\ \A c \in Buffer \ {b} : buf'[c] = buf[c]
  BY <1>1, <1>4, BufferUpdate, Zenon
<1>6. NoBatch \in Batch
  <2>1. <<>> \in Seq(DataWrite) /\ {} \in SUBSET SchemaWrite /\ {} \in SUBSET MetricWrite
    OBVIOUS
  <2>2. QED
    BY <2>1, Zenon DEF NoBatch, Batch
<1>7. TypeOK'
  <2>1. log' \in Seq([ops : Seq(DataWrite), schema : SUBSET SchemaWrite,
                      metric : SUBSET MetricWrite])
    BY <1>3, LogGrows, Zenon DEF TypeOK
  <2>2. batch' \in [Task -> Batch]
    BY <1>3, <1>6, Zenon DEF TypeOK
  <2>3. QED
    BY <1>2, <1>3, <1>5, <2>1, <2>2, Zenon DEF TypeOK
<1>8. LockInv'
  BY <1>1, <1>2, <1>3, <1>5, ReleaseLock, Zenon
<1>9. Leaves(f)
  <2>1. \A c \in Buffer : SameContent(buf[c], buf'[c])
    BY <1>1, <1>4, <1>5, Zenon DEF SameContent
  <2>2. \A g \in Task \ {f} : batch'[g] = batch[g]
    BY <1>3, Zenon DEF TypeOK
  <2>3. QED
    BY <1>1, <1>2, <1>3, <2>1, <2>2, Zenon DEF Leaves
<1>10. Tells(f, a)
  <2>1. tpc'[f] = l
    BY <1>2, Zenon DEF TypeOK
  <2>2. QED
    BY <1>2, <1>3, <1>9, <2>1, Zenon DEF Tells
<1>11. QED
  BY <1>7, <1>8, <1>10, Zenon

LEMMA TellsKeeps ==
    ASSUME TypeOK, LockInv, BatchInv, AckedWriteDurable, NoWaiterLost,
           NEW f \in Task, NEW a \in {"ok", "error"}, Tells(f, a)
    PROVE  BatchInv' /\ AckedWriteDurable' /\ NoWaiterLost'
<1>1. Leaves(f) /\ UNCHANGED <<wpc, on>> /\ \A c \in Buffer : SameContent(buf[c], buf'[c])
  BY Zenon DEF Tells, Leaves
<1>2. /\ batch'[f] = NoBatch /\ \A g \in Task \ {f} : batch'[g] = batch[g]
      /\ tpc'[f] \notin {"append", "commit"} /\ \A g \in Task \ {f} : tpc'[g] = tpc[g]
  BY Zenon DEF Tells, TypeOK
<1>3. BatchInv'
  <2>1. ASSUME NEW b \in Buffer PROVE Carries(buf[b])'
    BY <1>1, Zenon DEF BatchInv, Carries, SameContent
  <2>2. ASSUME NEW g \in Task PROVE Carries(batch[g])'
    <3>1. CASE g = f
      <4>1. NoBatch.waiters = {}
        BY Zenon DEF NoBatch
      <4>2. QED
        BY <1>2, <3>1, <4>1, Zenon DEF Carries
    <3>2. CASE g # f
      <4>1. batch'[g] = batch[g] /\ wpc' = wpc /\ Carries(batch[g])
        BY <1>1, <1>2, <3>2, Zenon DEF BatchInv
      <4>2. QED
        BY <4>1, Zenon DEF Carries
    <3>3. QED
      BY <3>1, <3>2, Zenon
  <2>3. ASSUME NEW g \in Task
        PROVE  (/\ tpc[g] \notin {"append", "commit"} => batch[g] = NoBatch
                /\ tpc[g] = "commit" => \E n \in DOMAIN log :
                     log[n].ops = batch[g].ops /\ log[n].schema = batch[g].schema)'
    <3>1. CASE g = f
      BY <1>2, <3>1, Zenon
    <3>2. CASE g # f
      BY <1>1, <1>2, <3>2, LogKept DEF BatchInv
    <3>3. QED
      BY <3>1, <3>2, Zenon
  <2>4. QED
    BY <2>1, <2>2, <2>3, Zenon DEF BatchInv
<1>4. AckedWriteDurable'
  <2>1. ASSUME NEW w \in batch[f].waiters, a = "ok"
        PROVE  /\ w \in DataWrite => \E n \in DOMAIN log : In(w, log[n].ops)
               /\ (\A v \in Write : wpc[v] # "failed") /\ w \in SchemaWrite =>
                    \E n \in DOMAIN log : w \in log[n].schema
    <3>1. PICK n \in DOMAIN log : log[n].ops = batch[f].ops /\ log[n].schema = batch[f].schema
      BY <2>1, Zenon DEF Tells, BatchInv
    <3>2. Carries(batch[f])
      BY Zenon DEF BatchInv
    <3>3. QED
      BY <3>1, <3>2, Zenon DEF Carries
  <2>2. ASSUME NEW w \in DataWrite, ans'[w] = "ok"
        PROVE  \E n \in DOMAIN log : In(w, log[n].ops)
    BY <2>1, <2>2, BufferAssumption, Zenon DEF Tells, AckedWriteDurable
  <2>3. ASSUME NEW w \in SchemaWrite, ans'[w] = "ok", \A v \in Write : wpc[v] # "failed"
        PROVE  \E n \in DOMAIN log : w \in log[n].schema
    BY <2>1, <2>3, BufferAssumption, Zenon DEF Tells, AckedWriteDurable
  <2>4. QED
    BY <1>1, <2>2, <2>3, LogKept, Zenon DEF AckedWriteDurable
<1>5. NoWaiterLost'
  <2> SUFFICES ASSUME NEW w \in Write, wpc[w] \in {"flush", "request", "wait"}, ans'[w] = "none"
               PROVE  w \in buf'[on[w]].waiters \/ \E g \in Task : w \in batch'[g].waiters
    BY <1>1, Zenon DEF NoWaiterLost
  <2>1. w \notin batch[f].waiters /\ ans[w] = "none" /\ on[w] \in Buffer
    BY Zenon DEF Tells, LockInv
  <2>2. QED
    BY <1>1, <1>2, <2>1, Zenon DEF NoWaiterLost, SameContent
<1>6. QED
  BY <1>3, <1>4, <1>5, Zenon

-----------------------------------------------------------------------------
(* The inductive invariant: it holds at the start.                         *)
LEMMA InitHolds ==
    ASSUME Init PROVE IInv
<1>1. <<>> \in Seq(DataWrite) /\ {} \in SUBSET SchemaWrite /\ {} \in SUBSET MetricWrite
      /\ {} \in SUBSET Write
  OBVIOUS
<1>2. NewBuffer \in BufferState /\ NewBuffer.ops = <<>> /\ NewBuffer.waiters = {}
  BY <1>1, Zenon DEF NewBuffer, BufferState
<1>3. NoBatch \in Batch /\ NoBatch.ops = <<>> /\ NoBatch.waiters = {}
  BY <1>1, Zenon DEF NoBatch, Batch
<1> USE DEF Init
<1>4. TypeOK
  BY <1>2, <1>3 DEF TypeOK
<1>5. LockInv
  BY Zenon DEF LockInv, TaskLock, Flushing
<1>6. BatchInv
  BY <1>2, <1>3, Zenon DEF BatchInv, Carries
<1>7. OrderInv
  BY <1>2, <1>3 DEF OrderInv, Ordered, FromBuffer
<1>8. AckedWriteDurable /\ CommitOrder /\ NoWaiterLost
  BY BufferAssumption DEF AckedWriteDurable, CommitOrder, NoWaiterLost
<1>9. QED
  BY <1>4, <1>5, <1>6, <1>7, <1>8, Zenon DEF IInv

LEMMA QuietKeeps ==
    ASSUME IInv, TypeOK', LockInv', Quiet PROVE IInv'
BY QuietKeepsBatches, QuietKeepsOrder, Zenon DEF IInv

(* ... and every step of a write(), a timer, a reader or a task keeps it.  *)
LEMMA StepKeeps ==
    ASSUME IInv, Next PROVE IInv'
<1> USE DEF IInv
<1>1. ASSUME NEW w \in Write, WriteStart(w) \/ WriteLock(w) \/ WriteAbortTimer(w) PROVE IInv'
  BY <1>1, WriterQuiet, QuietKeeps, Zenon
<1>2. ASSUME NEW w \in Write, WriteClash(w) PROVE IInv'
  BY <1>2, ClashEffect, ClashKeepsBatches, EntersKeepsOrder, Zenon
<1>3. ASSUME NEW w \in Write, WriteEnqueue(w) PROVE IInv'
  BY <1>3, EnqueueEffect, EnqueueKeepsBatches, EntersKeepsOrder, Zenon
<1>4. ASSUME NEW w \in Write, WriteRequest(w) PROVE IInv'
  BY <1>4, RequestQuiet, QuietKeeps, Zenon
<1>5. ASSUME NEW b \in Buffer, TimerFires(b) PROVE IInv'
  BY <1>5, RequestQuiet, QuietKeeps, Zenon
<1>6. ASSUME NEW b \in Buffer, CooldownEnds(b) \/ OverlayUnlock(b) PROVE IInv'
  BY <1>6, OtherQuiet, QuietKeeps, Zenon
<1>7. CASE OverlayLock \/ DropNamespace
  BY <1>7, OtherQuiet, QuietKeeps, Zenon
<1>8. ASSUME NEW f \in Task,
             \/ FlushLook(f) \/ FlushLock(f) \/ WaitCommitCooldown(f)
             \/ FlushAllMore(f) \/ FlushAllStart(f)
      PROVE  IInv'
  BY <1>8, FlushQuiet, QuietKeeps, Zenon
<1>9. ASSUME NEW f \in Task, FlushDrain(f) PROVE IInv'
  <2>1. TypeOK' /\ LockInv' /\ (Quiet \/ Drains(f))
    BY <1>9, DrainEffect, Zenon
  <2>2. QED
    BY <2>1, QuietKeeps, DrainKeeps, Zenon
<1>10. ASSUME NEW f \in Task, FlushEmpty(f) PROVE IInv'
  <2>1. TypeOK' /\ LockInv' /\ (Quiet \/ AnswersIdle(f))
    BY <1>10, EmptyEffect, Zenon
  <2>2. QED
    BY <2>1, QuietKeeps, AnswersIdleKeeps, Zenon
<1>11. ASSUME NEW f \in Task, AppendSucceeds(f) PROVE IInv'
  BY <1>11, SucceedsEffect, SucceedsKeeps, LeavesKeepsOrder, Zenon
<1>12. ASSUME NEW f \in Task, AppendFails(f) \/ FlushCommit(f) PROVE IInv'
  <2>1. PICK a \in {"ok", "error"} : TypeOK' /\ LockInv' /\ Tells(f, a)
    BY <1>12, TellsEffect, Zenon
  <2>2. BatchInv' /\ AckedWriteDurable' /\ NoWaiterLost'
    BY <2>1, TellsKeeps, Zenon
  <2>3. OrderInv' /\ CommitOrder'
    BY <2>1, LeavesKeepsOrder, Zenon DEF Tells
  <2>4. QED
    BY <2>1, <2>2, <2>3, Zenon
<1>13. ASSUME NEW f \in Task, AfterFlushTask(f) PROVE IInv'
  BY <1>13, AfterFlushQuiet, QuietKeeps, Zenon
<1>14. QED
  BY <1>1, <1>2, <1>3, <1>4, <1>5, <1>6, <1>7, <1>8, <1>9, <1>10, <1>11, <1>12, <1>13, Zenon
     DEF Next, WriteStep, FlushStep, FlushNamespace

LEMMA Invariance == Spec => []IInv
<1>1. ASSUME IInv, UNCHANGED vars PROVE IInv'
  <2>1. /\ UNCHANGED <<buffers, buf, wpc, on, ans, tpc, arg, got, batch, log, arrived>>
    BY <1>1, Zenon DEF vars, writer, task
  <2>2. TypeOK /\ LockInv
    BY <1>1, Zenon DEF IInv
  <2>3. TypeOK' /\ LockInv'
    BY <2>1, <2>2, Zenon DEF TypeOK, LockInv, TaskLock
  <2>4. Quiet
    BY <2>1, Zenon DEF Quiet, SameContent
  <2>5. QED
    BY <1>1, <2>3, <2>4, QuietKeeps, Zenon
<1>2. QED
  BY <1>1, InitHolds, StepKeeps, PTL DEF Spec

(* write() returns success only for what is in the log, for any number of  *)
(* concurrent writes, flushes and buffers: also when append_wal fails, a   *)
(* flush finds nothing to do, or the namespace is dropped (buffer.rs       *)
(* write, flush_namespace).                                                *)
THEOREM AcknowledgedIsDurable == Spec => []AckedWriteDurable
BY Invariance, PTL DEF IInv

(* The flush lock keeps the operations of a buffer in the order in which   *)
(* write() took them, and none is committed twice, however many flushes    *)
(* timers, full batches and flush_all start (buffer.rs flush_lock).        *)
THEOREM CommitsInOrder == Spec => []CommitOrder
BY Invariance, PTL DEF IInv

(* No waiter is dropped between the buffer and a batch: whoever is not     *)
(* answered yet is in one of them (buffer.rs flush_namespace).             *)
THEOREM WaitersKept == Spec => []NoWaiterLost
BY Invariance, PTL DEF IInv

(* A flush task appends no sooner than min_commit_interval after the last  *)
(* commit of its buffer (buffer.rs wait_commit_cooldown): nobody           *)
(* commits between its wait and its drain.                                 *)
THEOREM CommitsRateLimited == Spec => RateLimited
<1>1. IInv => \A f \in Flush : tpc[f] = "drain" /\ tpc'[f] = "append" => ~ buf[got[f]].cooling
  BY Zenon DEF IInv, LockInv, TaskLock, Task
<1>2. QED
  BY <1>1, Invariance, PTL DEF RateLimited

(* Two tasks that are past the flush lock work on different buffers.       *)
FlushExclusive ==
    \A f, g \in Task : f # g /\ tpc[f] \in Flushing /\ tpc[g] \in Flushing => got[f] # got[g]

(* At most one flush works on a buffer at a time (buffer.rs flush_lock).   *)
THEOREM OneFlushPerBuffer == Spec => []FlushExclusive
<1>1. IInv => FlushExclusive
  BY LockExcludes, Zenon DEF IInv, FlushExclusive
<1>2. QED
  BY <1>1, Invariance, PTL
=============================================================================
