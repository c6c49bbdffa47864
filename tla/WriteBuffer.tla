---------------------------- MODULE WriteBuffer ----------------------------
(***************************************************************************)
(* The group-commit buffer of one namespace in one process.  Handlers of   *)
(* write requests put their operations into the buffer and wait; timers    *)
(* and full batches request a flush; a flush task drains the buffer and    *)
(* calls append_wal, of which DurableLog says what it does.                *)
(*                                                                         *)
(* A data write carries one operation, so max_batch_ops counts writes.     *)
(* Time is abstracted to the order of events: a sleeping timer may fire    *)
(* and a cooldown may end at any moment.                                   *)
(***************************************************************************)
EXTENDS Naturals, Sequences, FiniteSets

CONSTANTS
    Write,              \* calls of write()
    DataWrite,          \* those with upserts, patches or deletes
    SchemaWrite,        \* those with a schema patch
    MetricWrite,        \* those with a distance metric
    Buffer,             \* NamespaceBuffer objects, in the map or dropped
    NoBuffer,
    Flush,              \* slots for the tasks request_flush spawns
    Drainer,            \* callers of flush_all
    Nobody, Overlay,    \* no holder, and a reader as holder, of a state lock
    max_batch_ops,
    SlowStore,          \* may append_wal outlast max_delay?
    Quotas              \* bounds: see quota

Task == Flush \cup Drainer

ASSUME BufferAssumption ==
    /\ DataWrite \subseteq Write /\ SchemaWrite \subseteq Write
    /\ MetricWrite \subseteq Write
    /\ NoBuffer \notin Buffer /\ Flush \cap Drainer = {}
    /\ Nobody \notin Write \cup Task /\ Overlay \notin Write \cup {Nobody}
    /\ max_batch_ops \in Nat \ {0} /\ SlowStore \in BOOLEAN
    /\ \A q \in Quotas :
         /\ q.errors \in Nat /\ q.overlays \in Nat /\ q.drops \in Nat
         /\ q.flush_alls \in Nat /\ q.clash \subseteq SchemaWrite

VARIABLES
    buffers,    \* the buffer the map holds for the namespace, or NoBuffer
    buf,        \* the state of every NamespaceBuffer
    wpc, on,    \* where each write() is, and the buffer it got
    ans,        \* what was sent to each write()
    tpc, arg, got, batch,   \* each flush task: step, its buf, the one it found
    log,        \* batches append_wal made durable
    arrived,    \* history: writes in the order they were buffered
    quota       \* what may still happen: failing append_wal calls, calls of
                \* overlay_pending_writes, drop_namespace and flush_all; and
                \* the writes whose patch merge_schema refuses to merge

writer == <<wpc, on>>
task == <<tpc, arg, got, batch>>
env == quota
vars == <<buffers, buf, writer, ans, task, log, arrived, env>>

(* BufferState and the other fields of NamespaceBuffer.  The timer field   *)
(* holds no handle, that of a sleeping timer or that of one that has       *)
(* fired; stray counts sleeping timers whose handle was dropped.           *)
NewBuffer ==
    [ops |-> <<>>, schema |-> {}, metric |-> {}, waiters |-> {},
     timer |-> "none", stray |-> 0, held |-> Nobody, flush_lock |-> Nobody,
     cooling |-> FALSE, flush_running |-> FALSE]

NoBatch == [ops |-> <<>>, schema |-> {}, metric |-> {}, waiters |-> {}]

Init ==
    /\ buffers = NoBuffer
    /\ buf = [b \in Buffer |-> NewBuffer]
    /\ wpc = [w \in Write |-> "new"]
    /\ on = [w \in Write |-> NoBuffer]
    /\ ans = [w \in Write |-> "none"]
    /\ tpc = [f \in Task |-> "off"]
    /\ arg = [f \in Task |-> NoBuffer]
    /\ got = [f \in Task |-> NoBuffer]
    /\ batch = [f \in Task |-> NoBatch]
    /\ log = <<>> /\ arrived = <<>>
    /\ quota \in Quotas

Spend(kind) == quota[kind] > 0 /\ quota' = [quota EXCEPT ![kind] = @ - 1]

-----------------------------------------------------------------------------
MetadataOnly(s) == s.ops = <<>> /\ (s.schema # {} \/ s.metric # {})

Pending(s) == s.ops # <<>> \/ MetadataOnly(s)

(* The lock of the buffer state is free for a task that waits for it.      *)
Unlocked(b) == buf[b].held = Nobody

(* Taking the handle of a sleeping timer does not abort the timer.         *)
TakeTimer(s) ==
    [s EXCEPT !.timer = "none",
              !.stray = IF s.timer = "live" THEN @ + 1 ELSE @]

AbortTimer(s) == [s EXCEPT !.timer = "none"]

(* request_flush with buffer b in state s: at most one task at a time.     *)
RequestFlush(b, s) ==
    \/ /\ s.flush_running
       /\ buf' = [buf EXCEPT ![b] = s]
       /\ UNCHANGED task
    \/ /\ ~ s.flush_running
       /\ buf' = [buf EXCEPT ![b] = [s EXCEPT !.flush_running = TRUE]]
       /\ \E f \in Flush :
            /\ tpc[f] = "off"
            /\ tpc' = [tpc EXCEPT ![f] = "look"]
            /\ arg' = [arg EXCEPT ![f] = b]
       /\ UNCHANGED <<got, batch>>

-----------------------------------------------------------------------------
(* write().                                                                *)

(* buffer_for: the buffer in the map, or a new one.                        *)
WriteStart(w) ==
    /\ wpc[w] = "new"
    /\ \E b \in Buffer :
         /\ \/ b = buffers
            \/ buffers = NoBuffer /\ \A v \in Write : on[v] # b
         /\ buffers' = b
         /\ on' = [on EXCEPT ![w] = b]
    /\ wpc' = [wpc EXCEPT ![w] = "lock"]
    /\ UNCHANGED <<buf, ans, task, log, arrived, env>>

WriteLock(w) ==
    /\ wpc[w] = "lock"
    /\ Unlocked(on[w])
    /\ buf' = [buf EXCEPT ![on[w]].held = w]
    /\ wpc' = [wpc EXCEPT ![w] = "enqueue"]
    /\ UNCHANGED <<buffers, on, ans, task, log, arrived, env>>

(* The buffer once the operations of w are in it.                          *)
WithOps(s, w) ==
    [s EXCEPT !.held = Nobody,
              !.ops = IF w \in DataWrite THEN Append(@, w) ELSE @]

(* ... and its metadata and its waiter too.                                *)
WithWrite(s, w) ==
    [WithOps(s, w) EXCEPT
        !.schema = IF w \in SchemaWrite THEN @ \cup {w} ELSE @,
        !.metric = IF w \in MetricWrite THEN {w} ELSE @,
        !.waiters = @ \cup {w}]

(* merge_schema refuses: write() returns the error after the operations    *)
(* went in, and the patch that was in the buffer has been taken out.       *)
WriteClash(w) ==
    /\ wpc[w] = "enqueue"
    /\ w \in quota.clash /\ buf[on[w]].schema # {}
    /\ buf' = [buf EXCEPT ![on[w]] = [WithOps(@, w) EXCEPT !.schema = {}]]
    /\ wpc' = [wpc EXCEPT ![w] = "failed"]
    /\ ans' = [ans EXCEPT ![w] = "error"]
    /\ arrived' = Append(arrived, w)
    /\ UNCHANGED <<buffers, on, task, log, env>>

WriteEnqueue(w) ==
    /\ wpc[w] = "enqueue"
    /\ w \notin quota.clash \/ buf[on[w]].schema = {}
    /\ LET s == WithWrite(buf[on[w]], w) IN
         \/ /\ Len(s.ops) >= max_batch_ops \/ MetadataOnly(s)
            /\ buf' = [buf EXCEPT ![on[w]] = s]
            /\ wpc' = [wpc EXCEPT ![w] = "flush"]
         \/ /\ Len(s.ops) < max_batch_ops /\ ~ MetadataOnly(s)
            /\ buf' = [buf EXCEPT ![on[w]] =
                         [s EXCEPT !.timer = IF @ = "none" THEN "live" ELSE @]]
            /\ wpc' = [wpc EXCEPT ![w] = "wait"]
    /\ arrived' = Append(arrived, w)
    /\ UNCHANGED <<buffers, on, ans, task, log, env>>

(* flush_now: abort the timer, then request a flush.                       *)
WriteAbortTimer(w) ==
    /\ wpc[w] = "flush"
    /\ Unlocked(on[w])
    /\ buf' = [buf EXCEPT ![on[w]] = AbortTimer(@)]
    /\ wpc' = [wpc EXCEPT ![w] = "request"]
    /\ UNCHANGED <<buffers, on, ans, task, log, arrived, env>>

WriteRequest(w) ==
    /\ wpc[w] = "request"
    /\ RequestFlush(on[w], buf[on[w]])
    /\ wpc' = [wpc EXCEPT ![w] = "wait"]
    /\ UNCHANGED <<buffers, on, ans, log, arrived, env>>

WriteStep(w) ==
    \/ WriteLock(w) \/ WriteClash(w) \/ WriteEnqueue(w)
    \/ WriteAbortTimer(w) \/ WriteRequest(w)

-----------------------------------------------------------------------------
(* Timers, the cooldown, readers of the buffer and drop_namespace.         *)

(* With a fast store, append_wal returns before a timer armed meanwhile.   *)
TimerMayFire(b) ==
    SlowStore \/ \A f \in Task :
        got[f] = b => tpc[f] \notin {"append", "commit", "store"}

TimerFires(b) ==
    /\ TimerMayFire(b)
    /\ \/ /\ buf[b].timer = "live"
          /\ RequestFlush(b, [buf[b] EXCEPT !.timer = "spent"])
       \/ /\ buf[b].stray > 0
          /\ RequestFlush(b, [buf[b] EXCEPT !.stray = @ - 1])
    /\ UNCHANGED <<buffers, writer, ans, log, arrived, env>>

(* min_commit_interval has passed since last_committed_at.                 *)
CooldownEnds(b) ==
    /\ buf[b].cooling
    /\ buf' = [buf EXCEPT ![b].cooling = FALSE]
    /\ UNCHANGED <<buffers, writer, ans, task, log, arrived, env>>

(* overlay_pending_writes holds the state lock while it copies.            *)
OverlayLock ==
    /\ buffers # NoBuffer /\ Spend("overlays")
    /\ Unlocked(buffers)
    /\ buf' = [buf EXCEPT ![buffers].held = Overlay]
    /\ UNCHANGED <<buffers, writer, ans, task, log, arrived>>

OverlayUnlock(b) ==
    /\ buf[b].held = Overlay
    /\ buf' = [buf EXCEPT ![b].held = Nobody]
    /\ UNCHANGED <<buffers, writer, ans, task, log, arrived, env>>

(* drop_namespace waits for readers, which keep the map locked.            *)
DropNamespace ==
    /\ buffers # NoBuffer /\ Spend("drops")
    /\ \A b \in Buffer : buf[b].held # Overlay
    /\ buffers' = NoBuffer
    /\ UNCHANGED <<buf, writer, ans, task, log, arrived>>
=============================================================================
