----------------------------- MODULE Scheduler -----------------------------
(***************************************************************************)
(* BackgroundIndexer (src/src/indexer.rs): one task that wakes up on a     *)
(* notification or every INDEX_POLL_INTERVAL, rebuilds its work queue from *)
(* the bucket, gives each namespace of the queue one slice, and compacts.  *)
(*                                                                         *)
(* `queued` is what wake looks at, `queue` what the round pops; the tick   *)
(* pops a name long before it leaves `queued`.                             *)
(***************************************************************************)
EXTENDS BucketStore

CONSTANTS HIGH_INDEX_LAG_SEGMENTS, BURST_INDEX_LAG_SEGMENTS, MAX_SEGMENTS_BURST_PER_TICK

ASSUME SchedulerAssumption ==
    /\ HIGH_INDEX_LAG_SEGMENTS \in Nat /\ BURST_INDEX_LAG_SEGMENTS \in Nat
    /\ MAX_SEGMENTS_BURST_PER_TICK \in Nat \ {0}

VARIABLES queue, queued,
          tick        \* where the task is, and its local variables

scheduler == <<queue, queued, tick>>

Waiting == [pc |-> "wait", names |-> {}, lag |-> Nothing, start |-> <<>>, served |-> <<>>,
            ns |-> NoNamespace, to |-> 0, built |-> {}, still |-> FALSE]

SchedulerInit == queue = <<>> /\ queued = {} /\ tick = Waiting

Names(q) == {q[i] : i \in DOMAIN q}

index_scheduling_lag(m) == IF m.commit <= m.cursor THEN 0 ELSE m.commit - m.cursor

Clamp(n, low, high) == IF n < low THEN low ELSE IF n > high THEN high ELSE n

segments_per_background_tick(lag, competing) ==
    IF lag = 0 THEN 1
    ELSE IF competing <= 1 \/ lag >= BURST_INDEX_LAG_SEGMENTS THEN Clamp(lag, 1, MAX_SEGMENTS_BURST_PER_TICK)
    ELSE IF lag >= HIGH_INDEX_LAG_SEGMENTS THEN 2 ELSE 1

(* a pass runs against the clock *)
background_tick_time_limit(lag, competing) == competing > 1 /\ lag < BURST_INDEX_LAG_SEGMENTS

(* the orders sort_namespaces_by_index_lag may leave a set of names in *)
sort_namespaces_by_index_lag(S, lag) ==
    { s \in UNION {[1..n -> S] : n \in 0..Cardinality(S)} :
        /\ Names(s) = S
        /\ \A i, j \in DOMAIN s : i < j => s[i] # s[j] /\ lag[s[i]] >= lag[s[j]] }

-----------------------------------------------------------------------------
(* Variant: the name is queued whether or not it is there. *)
WakeAlways(ns) == queue' = Append(queue, ns) /\ queued' = queued \cup {ns}

(* the notification only cuts the poll interval short *)
wake(ns) ==
    IF ns \in queued THEN UNCHANGED <<queue, queued>>
    ELSE queue' = Append(queue, ns) /\ queued' = queued \cup {ns}

(* by the write buffer some time after a commit, and by each poll of       *)
(* wait_until_indexed                                                      *)
Wake(ns) ==
    /\ namespace_exists(ns) /\ (meta[ns].exists => needs_indexing(meta[ns]))
    /\ wake(ns)
    /\ UNCHANGED <<store, view, appender, compaction, issued, budget, tick>>

-----------------------------------------------------------------------------
Goto(t) == tick' = t /\ UNCHANGED <<store, view, appender, compaction, issued, budget>>

(* Variant: only the woken names. *)
WokenNames ==
    /\ tick.pc = "wait"
    /\ Goto([tick EXCEPT !.pc = "lags", !.names = queued])
    /\ UNCHANGED <<queue, queued>>

(* run: the poll interval is over, or notified() returns.  What           *)
(* refresh_work_queue looks at: the queued names and the ones that exist,  *)
(* their lags, the new queue.                                              *)
list_namespace_names ==
    /\ tick.pc = "wait"
    /\ Goto([tick EXCEPT !.pc = "lags", !.names = queued \cup {ns \in Namespaces : namespace_exists(ns)}])
    /\ UNCHANGED <<queue, queued>>

RefreshLags ==
    /\ tick.pc = "lags"
    /\ LET active == {ns \in tick.names : meta[ns].exists /\
                          (index_scheduling_lag(meta[ns]) > 0 \/ needs_wal_compaction(meta[ns]))}
       IN  Goto([tick EXCEPT !.pc = "swap", !.lag = [ns \in active |-> index_scheduling_lag(meta[ns])]])
    /\ UNCHANGED <<queue, queued>>

refresh_work_queue ==
    /\ tick.pc = "swap"
    /\ queue' \in sort_namespaces_by_index_lag(DOMAIN tick.lag, tick.lag)
    /\ queued' = DOMAIN tick.lag
    /\ Goto([tick EXCEPT !.pc = "round", !.names = {}, !.lag = Nothing])

(* tick: the lags once more, under the lock of the queue *)
RoundBegin ==
    /\ tick.pc = "round"
    /\ Goto([tick EXCEPT !.pc = "pop", !.start = queue, !.served = <<>>,
                 !.lag = [ns \in Names(queue) |-> index_scheduling_lag(meta[ns])]])
    /\ UNCHANGED <<queue, queued>>

Pop ==
    /\ tick.pc = "pop"
    /\ IF Len(tick.served) = Len(tick.start) \/ queue = <<>>
       THEN Goto([tick EXCEPT !.pc = "compaction_pass"]) /\ UNCHANGED queue
       ELSE /\ Goto([tick EXCEPT !.pc = "read", !.ns = Head(queue), !.served = Append(@, Head(queue))])
            /\ queue' = Tail(queue)
    /\ UNCHANGED <<queued>>

Competing == Len(tick.start)

LagOf(ns) == IF ns \in DOMAIN tick.lag THEN tick.lag[ns] ELSE 0

(* index_wal_range reads meta.json, the segments and the last index segment *)
IndexRead ==
    /\ tick.pc = "read"
    /\ LET m == meta[tick.ns]
           max == segments_per_background_tick(LagOf(tick.ns), Competing)
           to == IF m.commit < m.cursor + max THEN m.commit ELSE m.cursor + max
           old == IF m.segment \in DOMAIN segments[tick.ns] THEN segments[tick.ns][m.segment] ELSE {}
       IN  IF ~ m.exists \/ ~ needs_indexing(m) THEN Goto([tick EXCEPT !.pc = "check"])
           ELSE IF SegmentsThere(tick.ns, m.cursor + 1, to)
           THEN Goto([tick EXCEPT !.pc = "put", !.to = to,
                          !.built = old \cup Replayed(tick.ns, m.cursor + 1, to)])
           ELSE Goto([tick EXCEPT !.pc = "requeue", !.still = TRUE])
    /\ UNCHANGED <<queue, queued>>

(* put_and_cache of the filter and the full-text segment *)
IndexPut ==
    /\ tick.pc = "put"
    /\ segments' = [segments EXCEPT ![tick.ns] = With(@, tick.to, tick.built)]
    /\ tick' = [tick EXCEPT !.pc = "commit"]
    /\ UNCHANGED <<meta, wal, snapshot, view, appender, compaction, issued, budget, queue, queued>>

meta_after_index_commit(m, to) == [m EXCEPT !.cursor = to, !.segment = to]

(* the swap, under the commit lock, on the metadata as it is now *)
IndexCommit ==
    /\ tick.pc = "commit"
    /\ appender[tick.ns].pc \notin {"put", "swap"}
    /\ LET m == meta[tick.ns]
           go == m.exists /\ m.cursor < tick.to /\ tick.to <= m.commit
       IN  /\ meta' = IF go THEN [meta EXCEPT ![tick.ns] = meta_after_index_commit(m, tick.to)] ELSE meta
           /\ tick' = [tick EXCEPT !.pc = IF go THEN "compact" ELSE IF m.exists /\ m.cursor < tick.to THEN "read" ELSE "check"]
    /\ UNCHANGED <<wal, snapshot, segments, view, appender, compaction, issued, budget, queue, queued>>

(* index_namespace_timeboxed: the pass fails, or its time slice is over *)
IndexFails ==
    /\ tick.pc \in {"read", "put", "commit"}
    /\ Count("failure")
    /\ \/ tick' = [tick EXCEPT !.pc = "requeue", !.still = TRUE]
       \/ /\ background_tick_time_limit(LagOf(tick.ns), Competing)
          /\ tick' = [tick EXCEPT !.pc = "check"]
    /\ UNCHANGED <<store, view, appender, compaction, issued, queue, queued>>

(* index_namespace_timeboxed: the metadata after the pass decides whether  *)
(* there is more to do, and whether it is only the log that may be cut     *)
Check ==
    /\ tick.pc = "check"
    /\ LET m == meta[tick.ns]
       IN  Goto([tick EXCEPT !.pc = IF m.exists /\ ~ needs_indexing(m) THEN "compact_checked" ELSE "requeue",
                             !.still = m.exists /\ (needs_indexing(m) \/ needs_wal_compaction(m))])
    /\ UNCHANGED <<queue, queued>>

(* what comes after the compaction that ends index_wal_range, the one of   *)
(* index_namespace_timeboxed and one of compaction_pass; that it failed is *)
(* only logged                                                             *)
Compacted ==
    IF tick.pc = "compact_listed" THEN [tick EXCEPT !.pc = "next", !.ns = NoNamespace]
    ELSE [tick EXCEPT !.pc = IF tick.pc = "compact" THEN "check" ELSE "requeue"]

Compacting ==
    /\ tick.pc \in {"compact", "compact_checked", "compact_listed"}
    /\ maybe_compact_wal(tick.ns) \/ CompactFails
    /\ tick' = IF compaction' = NoCompaction THEN Compacted ELSE tick
    /\ UNCHANGED <<queue, queued>>

(* Variant: the name goes back to the head. *)
RequeueFirst ==
    IF tick.still THEN queue' = <<tick.ns>> \o queue /\ UNCHANGED queued
    ELSE queued' = queued \ {tick.ns} /\ UNCHANGED queue

RequeueLast ==
    IF tick.still THEN queue' = Append(queue, tick.ns) /\ UNCHANGED queued
    ELSE queued' = queued \ {tick.ns} /\ UNCHANGED queue

Requeue ==
    /\ tick.pc = "requeue"
    /\ RequeueLast
    /\ Goto([tick EXCEPT !.pc = "pop", !.ns = NoNamespace, !.to = 0, !.built = {}, !.still = FALSE])

(* every listed namespace in turn *)
compaction_pass ==
    /\ tick.pc = "compaction_pass"
    /\ Goto([tick EXCEPT !.pc = "next", !.names = {ns \in Namespaces : namespace_exists(ns)}])
    /\ UNCHANGED <<queue, queued>>

NextListed ==
    /\ tick.pc = "next"
    /\ \/ tick.names = {} /\ Goto(Waiting)
       \/ \E ns \in tick.names :
             Goto([tick EXCEPT !.pc = "compact_listed", !.ns = ns, !.names = tick.names \ {ns}])
    /\ UNCHANGED <<queue, queued>>

(* a read of the refresh, the round or the pass fails: the tick is over *)
TickFails ==
    /\ tick.pc \in {"lags", "round", "compaction_pass", "next"}
    /\ Count("failure")
    /\ tick' = Waiting
    /\ UNCHANGED <<store, view, appender, compaction, issued, queue, queued>>

Tick ==
    list_namespace_names \/ RefreshLags \/ refresh_work_queue \/ RoundBegin \/ Pop
    \/ IndexRead \/ IndexPut \/ IndexCommit \/ IndexFails \/ Check \/ Compacting \/ Requeue
    \/ compaction_pass \/ NextListed \/ TickFails
=============================================================================
