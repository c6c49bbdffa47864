----------------------------- MODULE FlushTask -----------------------------
(***************************************************************************)
(* The tasks that drain a write buffer: those request_flush spawns, which  *)
(* run flush_namespace and then after_flush_task, and flush_all, which     *)
(* runs flush_namespace without the rate limit until nothing is pending.   *)
(***************************************************************************)
EXTENDS WriteBuffer

Goto(f, l) == tpc' = [tpc EXCEPT ![f] = l]

(* After flush_namespace: after_flush_task, or the loop of flush_all.      *)
AfterFlush(f) == IF f \in Flush THEN "store" ELSE "more"

Answer(W, a) == ans' = [w \in Write |-> IF w \in W THEN a ELSE ans[w]]

NothingBuffered(s) == s.ops = <<>> /\ s.schema = {} /\ s.metric = {}

(* flush_namespace looks the namespace up again.                           *)
FlushLook(f) ==
    /\ tpc[f] = "look"
    /\ got' = [got EXCEPT ![f] = buffers]
    /\ Goto(f, IF buffers = NoBuffer THEN AfterFlush(f) ELSE "lock")
    /\ UNCHANGED <<buffers, buf, writer, ans, arg, batch, log, arrived, env>>

(* Variant: the flush lock is not waited for.                              *)
FlushLockShared(f) ==
    /\ tpc[f] = "lock"
    /\ Goto(f, IF f \in Drainer THEN "drain" ELSE "cool")
    /\ UNCHANGED <<buffers, buf, writer, ans, arg, got, batch, log, arrived, env>>

(* Variant: the commit cooldown is always bypassed.                        *)
FlushLockBypass(f) ==
    /\ tpc[f] = "lock"
    /\ buf[got[f]].flush_lock = Nobody
    /\ buf' = [buf EXCEPT ![got[f]].flush_lock = f]
    /\ Goto(f, "drain")
    /\ UNCHANGED <<buffers, writer, ans, arg, got, batch, log, arrived, env>>

FlushLock(f) ==
    /\ tpc[f] = "lock"
    /\ buf[got[f]].flush_lock = Nobody
    /\ buf' = [buf EXCEPT ![got[f]].flush_lock = f]
    /\ Goto(f, IF f \in Drainer THEN "drain" ELSE "cool")
    /\ UNCHANGED <<buffers, writer, ans, arg, got, batch, log, arrived, env>>

WaitCommitCooldown(f) ==
    /\ tpc[f] = "cool"
    /\ ~ buf[got[f]].cooling
    /\ Goto(f, "drain")
    /\ UNCHANGED <<buffers, buf, writer, ans, arg, got, batch, log, arrived, env>>

FlushDrain(f) ==
    /\ tpc[f] = "drain"
    /\ Unlocked(got[f])
    /\ LET s == buf[got[f]] IN
         \/ /\ NothingBuffered(s)
            /\ Goto(f, "empty")
            /\ UNCHANGED <<buf, batch>>
         \/ /\ ~ NothingBuffered(s)
            /\ batch' = [batch EXCEPT ![f] =
                           [ops |-> s.ops, schema |-> s.schema,
                            metric |-> s.metric, waiters |-> s.waiters]]
            /\ buf' = [buf EXCEPT ![got[f]] =
                         [TakeTimer(s) EXCEPT !.ops = <<>>, !.schema = {},
                                              !.metric = {}, !.waiters = {}]]
            /\ Goto(f, "append")
    /\ UNCHANGED <<buffers, writer, ans, arg, got, log, arrived, env>>

(* Variant: no second look; whoever waits by now is told "committed".      *)
FlushEmptyAnswersAll(f) ==
    /\ tpc[f] = "empty"
    /\ Unlocked(got[f])
    /\ LET s == [TakeTimer(buf[got[f]]) EXCEPT !.flush_lock = Nobody] IN
         /\ Answer(s.waiters, "ok")
         /\ buf' = [buf EXCEPT ![got[f]] = [s EXCEPT !.waiters = {}]]
    /\ Goto(f, AfterFlush(f))
    /\ UNCHANGED <<buffers, writer, arg, got, batch, log, arrived, env>>

(* Variant: the waiters are taken before the second look.                  *)
FlushEmptyForgets(f) ==
    /\ tpc[f] = "empty"
    /\ Unlocked(got[f])
    /\ LET s == [TakeTimer(buf[got[f]]) EXCEPT !.flush_lock = Nobody] IN
         /\ Answer(IF NothingBuffered(s) THEN s.waiters ELSE {}, "ok")
         /\ buf' = [buf EXCEPT ![got[f]] = [s EXCEPT !.waiters = {}]]
    /\ Goto(f, AfterFlush(f))
    /\ UNCHANGED <<buffers, writer, arg, got, batch, log, arrived, env>>

(* Writes without effect are answered, unless others came in meanwhile.    *)
FlushEmpty(f) ==
    /\ tpc[f] = "empty"
    /\ Unlocked(got[f])
    /\ LET s == [TakeTimer(buf[got[f]]) EXCEPT !.flush_lock = Nobody] IN
         \/ /\ NothingBuffered(s)
            /\ Answer(s.waiters, "ok")
            /\ buf' = [buf EXCEPT ![got[f]] = [s EXCEPT !.waiters = {}]]
         \/ /\ ~ NothingBuffered(s)
            /\ buf' = [buf EXCEPT ![got[f]] = s]
            /\ UNCHANGED ans
    /\ Goto(f, AfterFlush(f))
    /\ UNCHANGED <<buffers, writer, arg, got, batch, log, arrived, env>>

Durable(f) ==
    log' = Append(log, [ops |-> batch[f].ops, schema |-> batch[f].schema,
                        metric |-> batch[f].metric])

(* append_wal returns the sequence number.                                 *)
AppendSucceeds(f) ==
    /\ tpc[f] = "append"
    /\ Durable(f)
    /\ Goto(f, "commit")
    /\ UNCHANGED <<buffers, buf, writer, ans, arg, got, batch, arrived, env>>

(* append_wal returns an error; the batch may be durable nevertheless.     *)
AppendFails(f) ==
    /\ tpc[f] = "append"
    /\ Spend("errors")
    /\ Durable(f) \/ UNCHANGED log
    /\ Answer(batch[f].waiters, "error")
    /\ batch' = [batch EXCEPT ![f] = NoBatch]
    /\ buf' = [buf EXCEPT ![got[f]].flush_lock = Nobody]
    /\ Goto(f, IF f \in Flush THEN "store" ELSE "off")
    /\ UNCHANGED <<buffers, writer, arg, got, arrived>>

(* last_committed_at is set, then the waiters hear of it.                  *)
FlushCommit(f) ==
    /\ tpc[f] = "commit"
    /\ Answer(batch[f].waiters, "ok")
    /\ batch' = [batch EXCEPT ![f] = NoBatch]
    /\ buf' = [buf EXCEPT ![got[f]] =
                 [@ EXCEPT !.cooling = TRUE, !.flush_lock = Nobody]]
    /\ Goto(f, AfterFlush(f))
    /\ UNCHANGED <<buffers, writer, arg, got, log, arrived, env>>

FlushNamespace(f) ==
    \/ FlushLook(f) \/ FlushLock(f) \/ WaitCommitCooldown(f) \/ FlushDrain(f)
    \/ FlushEmpty(f) \/ AppendSucceeds(f) \/ AppendFails(f) \/ FlushCommit(f)

-----------------------------------------------------------------------------
(* after_flush_task, for the buffer the task was spawned with.             *)

AfterStore(f) ==
    /\ tpc[f] = "store"
    /\ buf' = [buf EXCEPT ![arg[f]].flush_running = FALSE]
    /\ Goto(f, "check")
    /\ UNCHANGED <<buffers, writer, ans, arg, got, batch, log, arrived, env>>

(* Variant: what came in during the flush is left to its timer.            *)
AfterCheckNothing(f) ==
    /\ tpc[f] = "check"
    /\ Unlocked(arg[f])
    /\ Goto(f, "off")
    /\ UNCHANGED <<buffers, buf, writer, ans, arg, got, batch, log, arrived, env>>

AfterCheck(f) ==
    /\ tpc[f] = "check"
    /\ Unlocked(arg[f])
    /\ LET s == buf[arg[f]] IN
         Goto(f, IF ~ Pending(s) THEN "off"
                 ELSE IF s.cooling THEN "arm" ELSE "again")
    /\ UNCHANGED <<buffers, buf, writer, ans, arg, got, batch, log, arrived, env>>

(* request_flush as the last act of the task, which frees its slot.        *)
AfterRequest(f) ==
    /\ tpc[f] = "again"
    /\ buf' = [buf EXCEPT ![arg[f]].flush_running = TRUE]
    /\ Goto(f, IF buf[arg[f]].flush_running THEN "off" ELSE "look")
    /\ UNCHANGED <<buffers, writer, ans, arg, got, batch, log, arrived, env>>

(* Another task or request is about to hold the state lock for a moment,   *)
(* or to read or set last_committed_at.                                    *)
StateContended(f) ==
    \/ \E w \in Write : on[w] = arg[f] /\ wpc[w] = "flush"
    \/ \E g \in Task \ {f} :
         \/ got[g] = arg[f] /\ tpc[g] \in {"drain", "empty"}
         \/ arg[g] = arg[f] /\ tpc[g] = "check"
         \/ buffers = arg[f] /\ tpc[g] = "more"

CooldownContended(f) ==
    \E g \in Task \ {f} :
        \/ got[g] = arg[f] /\ tpc[g] \in {"cool", "commit"}
        \/ arg[g] = arg[f] /\ tpc[g] = "check"

(* arm_cooldown_flush_timer gives up when it would have to wait for a lock *)
(* or finds a timer handle, spent or not.                                  *)
ArmCheck(f) ==
    /\ tpc[f] = "arm"
    /\ LET ready == Pending(buf[arg[f]]) /\ buf[arg[f]].timer = "none" IN
         \/ /\ Unlocked(arg[f]) /\ ready
            /\ Goto(f, "set")
         \/ /\ ~ Unlocked(arg[f]) \/ ~ ready \/ StateContended(f)
            /\ Goto(f, "off")
    /\ UNCHANGED <<buffers, buf, writer, ans, arg, got, batch, log, arrived, env>>

ArmSet(f) ==
    /\ tpc[f] = "set"
    /\ \/ /\ Unlocked(arg[f]) /\ buf[arg[f]].timer = "none"
          /\ buf' = [buf EXCEPT ![arg[f]].timer = "live"]
       \/ /\ \/ ~ Unlocked(arg[f]) \/ buf[arg[f]].timer # "none"
             \/ StateContended(f) \/ CooldownContended(f)
          /\ UNCHANGED buf
    /\ Goto(f, "off")
    /\ UNCHANGED <<buffers, writer, ans, arg, got, batch, log, arrived, env>>

AfterFlushTask(f) ==
    AfterStore(f) \/ AfterCheck(f) \/ AfterRequest(f) \/ ArmCheck(f) \/ ArmSet(f)

-----------------------------------------------------------------------------
(* flush_all, called once when the process is told to shut down; it goes   *)
(* on serving.                                                             *)
FlushAllStart(f) ==
    /\ tpc[f] = "off" /\ f \in Drainer /\ arg[f] = NoBuffer
    /\ buffers # NoBuffer /\ Spend("flush_alls")
    /\ arg' = [arg EXCEPT ![f] = buffers]
    /\ Goto(f, "look")
    /\ UNCHANGED <<buffers, buf, writer, ans, got, batch, log, arrived>>

FlushAllMore(f) ==
    /\ tpc[f] = "more"
    /\ buffers # NoBuffer => Unlocked(buffers)
    /\ Goto(f, IF buffers = NoBuffer \/ NothingBuffered(buf[buffers])
               THEN "off" ELSE "look")
    /\ UNCHANGED <<buffers, buf, writer, ans, arg, got, batch, log, arrived, env>>

FlushStep(f) == FlushNamespace(f) \/ AfterFlushTask(f) \/ FlushAllMore(f)
=============================================================================
