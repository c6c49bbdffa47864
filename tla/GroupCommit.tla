---------------------------- MODULE GroupCommit ----------------------------
(***************************************************************************)
(* The group commit of one namespace: write requests, timers, flush tasks, *)
(* flush_all, readers of the buffer and drop_namespace.                    *)
(***************************************************************************)
EXTENDS FlushTask

Next ==
    \/ \E w \in Write : WriteStart(w) \/ WriteStep(w)
    \/ \E b \in Buffer : TimerFires(b) \/ CooldownEnds(b) \/ OverlayUnlock(b)
    \/ \E f \in Task : FlushStep(f) \/ FlushAllStart(f)
    \/ OverlayLock
    \/ DropNamespace

Spec == Init /\ [][Next]_vars

(* Spawned tasks and started requests go on, sleeps end, and the locks of  *)
(* tokio are FIFO.  Requests need not come in.                             *)
Fairness ==
    /\ \A w \in Write : WF_vars(WriteStep(w)) /\ SF_vars(WriteLock(w))
    /\ \A b \in Buffer : /\ WF_vars(TimerFires(b)) /\ WF_vars(CooldownEnds(b))
                         /\ WF_vars(OverlayUnlock(b))
    /\ \A f \in Task : WF_vars(FlushStep(f)) /\ SF_vars(FlushLock(f))

FairSpec == Spec /\ Fairness

-----------------------------------------------------------------------------
(* Every variable has its type.                                            *)
Batch == [ops : Seq(DataWrite), schema : SUBSET SchemaWrite,
          metric : SUBSET MetricWrite, waiters : SUBSET Write]

BufferState ==
    [ops : Seq(DataWrite), schema : SUBSET SchemaWrite,
     metric : SUBSET MetricWrite, waiters : SUBSET Write,
     timer : {"none", "live", "spent"}, stray : Nat,
     held : Write \cup {Nobody, Overlay}, flush_lock : Task \cup {Nobody},
     cooling : BOOLEAN, flush_running : BOOLEAN]

TypeOK ==
    /\ buffers \in Buffer \cup {NoBuffer}
    /\ buf \in [Buffer -> BufferState]
    /\ wpc \in [Write -> {"new", "lock", "enqueue", "flush", "request", "wait",
                          "failed"}]
    /\ ans \in [Write -> {"none", "ok", "error"}]
    /\ on \in [Write -> Buffer \cup {NoBuffer}]
    /\ tpc \in [Task -> {"off", "look", "lock", "cool", "drain", "empty",
                         "append", "commit", "store", "check", "again", "arm",
                         "set", "more"}]
    /\ arg \in [Task -> Buffer \cup {NoBuffer}]
    /\ got \in [Task -> Buffer \cup {NoBuffer}]
    /\ batch \in [Task -> Batch]
    /\ log \in Seq([ops : Seq(DataWrite), schema : SUBSET SchemaWrite,
                    metric : SUBSET MetricWrite])
    /\ arrived \in Seq(Write)

In(w, s) == \E i \in DOMAIN s : s[i] = w

(* A write() that was answered with success is durable: its operations are *)
(* in a committed batch, even when it was answered by a flush that found   *)
(* the buffer empty, and so is its schema patch: patches that wait in the  *)
(* buffer are merged, not lost.  A write whose patch merge_schema refuses  *)
(* takes the waiting ones along, so that the latter holds only as long as  *)
(* none was refused.                                                       *)
AckedWriteDurable ==
    /\ \A w \in DataWrite : ans[w] = "ok" => \E n \in DOMAIN log : In(w, log[n].ops)
    /\ (\A v \in Write : wpc[v] # "failed") => \A w \in SchemaWrite : ans[w] = "ok" =>
          \E n \in DOMAIN log : w \in log[n].schema

Before(s, v, w) == \E m, n \in DOMAIN s : m < n /\ s[m] = v /\ s[n] = w

(* What one buffer took in is committed in the order in which it came, and *)
(* no operation twice, although timers, full batches and flush_all start   *)
(* flushes concurrently.                                                   *)
CommitOrder ==
    \A m, n \in DOMAIN log : \A i \in DOMAIN log[m].ops, j \in DOMAIN log[n].ops :
        LET v == log[m].ops[i]
            w == log[n].ops[j] IN
        (m < n \/ (m = n /\ i < j)) /\ on[v] = on[w] => v # w /\ Before(arrived, v, w)

(* A buffered write is still to be answered: none is dropped on the way    *)
(* from the buffer to a batch.                                             *)
NoWaiterLost ==
    \A w \in Write : wpc[w] \in {"flush", "request", "wait"} /\ ans[w] = "none" =>
        \/ w \in buf[on[w]].waiters
        \/ \E f \in Task : w \in batch[f].waiters

(* Within min_commit_interval of a commit no flush task starts another;    *)
(* flush_all may.                                                          *)
RateLimited ==
    [][\A f \in Flush : tpc[f] = "drain" /\ tpc'[f] = "append" =>
         ~ buf[got[f]].cooling]_vars

(* Every write() returns.                                                  *)
EveryWriteReturns ==
    \A w \in Write : wpc[w] # "new" ~> ans[w] # "none"

-----------------------------------------------------------------------------
(* The inductive invariant behind these.                                   *)

Flushing == {"cool", "drain", "empty", "append", "commit"}

(* Whoever works on a buffer has one, and a task holds the flush lock of   *)
(* its buffer from flush_lock to the return of flush_namespace.            *)
TaskLock(f) ==
    /\ tpc[f] # "off" => arg[f] \in Buffer
    /\ tpc[f] = "lock" => got[f] \in Buffer
    /\ tpc[f] \in Flushing => got[f] \in Buffer /\ buf[got[f]].flush_lock = f
    /\ f \in Flush /\ tpc[f] = "drain" => ~ buf[got[f]].cooling

LockInv ==
    /\ \A w \in Write : wpc[w] # "new" => on[w] \in Buffer
    /\ \A f \in Task : TaskLock(f)

(* Waiters travel with what they wait for.                                 *)
Carries(s) ==
    \A w \in s.waiters :
        /\ w \in DataWrite => In(w, s.ops)
        /\ w \in SchemaWrite /\ (\A v \in Write : wpc[v] # "failed") => w \in s.schema

BatchInv ==
    /\ \A b \in Buffer : Carries(buf[b])
    /\ \A f \in Task :
         /\ Carries(batch[f])
         /\ tpc[f] \notin {"append", "commit"} => batch[f] = NoBatch
         /\ tpc[f] = "commit" => \E n \in DOMAIN log :
              log[n].ops = batch[f].ops /\ log[n].schema = batch[f].schema

(* For each buffer: first what is in the log, then the batch that is being *)
(* appended, then what is still in the buffer.                             *)
Ordered(h, s) == \A i, j \in DOMAIN s : i < j => Before(h, s[i], s[j])
FromBuffer(s, b) == \A i \in DOMAIN s : on[s[i]] = b /\ In(s[i], arrived)
Precedes(h, v, s) == \A j \in DOMAIN s : Before(h, v, s[j])

OrderInv ==
    /\ \A n \in DOMAIN arrived : wpc[arrived[n]] \notin {"new", "lock", "enqueue"}
    /\ \A m, n \in DOMAIN arrived : arrived[m] = arrived[n] => m = n
    /\ \A b \in Buffer : Ordered(arrived, buf[b].ops) /\ FromBuffer(buf[b].ops, b)
    /\ \A f \in Task : tpc[f] = "append" =>
         /\ Ordered(arrived, batch[f].ops) /\ FromBuffer(batch[f].ops, got[f])
         /\ \A i \in DOMAIN batch[f].ops : Precedes(arrived, batch[f].ops[i], buf[got[f]].ops)
    /\ \A n \in DOMAIN log : \A i \in DOMAIN log[n].ops :
         LET v == log[n].ops[i] IN
         /\ In(v, arrived)
         /\ \A b \in Buffer : on[v] = b => Precedes(arrived, v, buf[b].ops)
         /\ \A f \in Task : tpc[f] = "append" /\ on[v] = got[f] => Precedes(arrived, v, batch[f].ops)

IInv ==
    /\ TypeOK /\ LockInv /\ BatchInv /\ OrderInv
    /\ AckedWriteDurable /\ CommitOrder /\ NoWaiterLost
=============================================================================
