----------------------------- MODULE ColdProofs -----------------------------
(***************************************************************************)
(* MissesOnlyIfRaced and ColdLoadComplete of ColdQuery, for any number of  *)
(* queries and warm calls, any fields, cells and commits, and any size of  *)
(* a sub-batch.                                                            *)
(***************************************************************************)
EXTENDS ColdQuery, FiniteSetTheorems, TLAPS

-----------------------------------------------------------------------------
(* Keys, and lists of them.                                                *)

(* The kind of a key tells the objects apart.                              *)
LEMMA KeyKinds ==
    /\ \A n : Wal(n)[1] = "wal" /\ Wal(n)[2] = n /\ Fts(n)[1] = "fts" /\ Filter(n)[1] = "filter"
    /\ Snapshot[1] = "snapshot"
    /\ \A f : L0(f)[1] = "l0"
    /\ \A f, c : L1(f, c)[1] = "l1" /\ ClusterOf(f, c)[1] = "cluster"
BY DEF Wal, Fts, Filter, Snapshot, L0, L1, ClusterOf

(* Every key that a round may ask for is a key of the bucket.              *)
LEMMA KeyTypes ==
    /\ \A n \in 1..MaxCommits : Wal(n) \in Key /\ Fts(n) \in Key /\ Filter(n) \in Key
    /\ Snapshot \in Key
    /\ \A f \in VectorFields : L0(f) \in Key
    /\ \A f \in VectorFields, c \in Coarse : L1(f, c) \in Key /\ ClusterOf(f, c) \in Key
<1>1. \A n \in 1..MaxCommits : Wal(n) \in Key /\ Fts(n) \in Key /\ Filter(n) \in Key
  BY SMT DEF Key
<1>2. Snapshot \in Key /\ \A f \in VectorFields : L0(f) \in Key
  BY SMT DEF Key
<1>3. \A f \in VectorFields, c \in Coarse : L1(f, c) \in Key /\ ClusterOf(f, c) \in Key
  BY SMT DEF Key
<1> QED
  BY <1>1, <1>2, <1>3, Zenon

(* What a list of keys holds.                                              *)
LEMMA KeySetOf ==
    /\ KeySet(<<>>) = {} /\ <<>> \in Seq(Key)
    /\ \A a \in Key : KeySet(<<a>>) = {a} /\ <<a>> \in Seq(Key) /\ Len(<<a>>) = 1
    /\ \A a, b \in Key : KeySet(<<a, b>>) = {a, b} /\ <<a, b>> \in Seq(Key)
BY DEF KeySet

(* Two lists of keys, one after the other.                                 *)
LEMMA KeySetJoin ==
    ASSUME NEW s \in Seq(Key), NEW t \in Seq(Key)
    PROVE  s \o t \in Seq(Key) /\ KeySet(s \o t) = KeySet(s) \union KeySet(t) /\ Len(s \o t) = Len(s) + Len(t)
<1>1. /\ s \o t \in Seq(Key) /\ Len(s \o t) = Len(s) + Len(t) /\ Len(s) \in Nat /\ Len(t) \in Nat
      /\ DOMAIN s = 1..Len(s) /\ DOMAIN t = 1..Len(t) /\ DOMAIN (s \o t) = 1..Len(s) + Len(t)
  OBVIOUS
<1>2. /\ \A i \in 1..Len(s) : (s \o t)[i] = s[i]
      /\ \A i \in 1..Len(t) : (s \o t)[Len(s) + i] = t[i]
  BY <1>1
<1>3. ASSUME NEW k \in KeySet(s \o t) PROVE k \in KeySet(s) \union KeySet(t)
  <2>1. PICK i \in 1..Len(s) + Len(t) : (s \o t)[i] = k
    BY <1>1, <1>3 DEF KeySet
  <2>2. i \in 1..Len(s) \/ (i - Len(s) \in 1..Len(t) /\ i = Len(s) + (i - Len(s)))
    BY <1>1, <2>1
  <2> QED
    BY <1>1, <1>2, <2>1, <2>2 DEF KeySet
<1>4. ASSUME NEW k \in KeySet(s) \union KeySet(t) PROVE k \in KeySet(s \o t)
  <2>1. CASE k \in KeySet(s)
    <3>1. PICK i \in 1..Len(s) : s[i] = k
      BY <1>1, <2>1 DEF KeySet
    <3>2. i \in 1..Len(s) + Len(t)
      BY <1>1, <3>1
    <3> QED
      BY <1>1, <1>2, <3>1, <3>2 DEF KeySet
  <2>2. CASE k \in KeySet(t)
    <3>1. PICK i \in 1..Len(t) : t[i] = k
      BY <1>1, <2>2 DEF KeySet
    <3>2. Len(s) + i \in 1..Len(s) + Len(t)
      BY <1>1, <3>1
    <3> QED
      BY Zenon, <1>1, <1>2, <3>1, <3>2 DEF KeySet
  <2> QED
    BY <1>4, <2>1, <2>2
<1> QED
  BY <1>1, <1>3, <1>4, Zenon

(* A range of segments, in order.                                          *)
LEMMA WalRangeKeys ==
    ASSUME NEW from \in 1..MaxCommits + 1, NEW to \in 0..MaxCommits, from <= to + 1
    PROVE  /\ WalRange(from, to) \in Seq(Key) /\ Len(WalRange(from, to)) = to + 1 - from
           /\ KeySet(WalRange(from, to)) = {Wal(n) : n \in from..to}
           /\ \A i \in 1..(to + 1 - from) : WalRange(from, to)[i] = Wal(from + i - 1)
<1> DEFINE w == WalRange(from, to)
<1>1. to + 1 - from \in Nat
  BY ColdAssumption
<1>2. \A i \in 1..(to + 1 - from) : from + i - 1 \in from..to /\ from + i - 1 \in 1..MaxCommits
  BY ColdAssumption
<1>3. w \in [1..(to + 1 - from) -> Key] /\ \A i \in 1..(to + 1 - from) : w[i] = Wal(from + i - 1)
  BY <1>2, KeyTypes, Zenon DEF WalRange
<1> HIDE DEF w
<1>4. w \in Seq(Key) /\ Len(w) = to + 1 - from /\ DOMAIN w = 1..(to + 1 - from)
  BY <1>1, <1>3
<1>5. ASSUME NEW n \in from..to PROVE Wal(n) \in KeySet(w)
  <2>1. n + 1 - from \in 1..(to + 1 - from) /\ from + (n + 1 - from) - 1 = n
    BY ColdAssumption
  <2> QED
    BY <1>3, <1>4, <2>1 DEF KeySet
<1>6. ASSUME NEW k \in KeySet(w) PROVE k \in {Wal(n) : n \in from..to}
  BY <1>2, <1>3, <1>4, <1>6, Zenon DEF KeySet
<1> QED
  BY <1>3, <1>4, <1>5, <1>6, Zenon DEF w

-----------------------------------------------------------------------------
(* The keys of each round, for any meta.json that is in order.             *)

InOrder(m) == m.wal_snapshot_seq <= m.index_cursor /\ m.index_cursor <= m.wal_commit_seq

(* The fields of a meta.json.                                              *)
LEMMA MetaFields ==
    ASSUME NEW m \in Meta
    PROVE  /\ m.wal_commit_seq \in 0..MaxCommits /\ m.index_cursor \in 0..MaxCommits
           /\ m.wal_snapshot_seq \in 0..MaxCommits /\ m.vector_fields \subseteq VectorFields
           /\ m.wal_commit_seq \in Nat /\ m.index_cursor \in Nat /\ m.wal_snapshot_seq \in Nat
BY ColdAssumption DEF Meta

(* The snapshot, if there is one.                                          *)
LEMMA SnapshotKeys ==
    ASSUME NEW m \in Meta
    PROVE  /\ SnapshotKey(m) \in Seq(Key)
           /\ KeySet(SnapshotKey(m)) = IF m.wal_snapshot_seq > 0 THEN {Snapshot} ELSE {}
<1>1. CASE m.wal_snapshot_seq > 0
  <2>1. SnapshotKey(m) = <<Snapshot>>
    BY <1>1, Zenon DEF SnapshotKey
  <2> QED
    BY <1>1, <2>1, KeyTypes, KeySetOf, Zenon
<1>2. CASE ~ (m.wal_snapshot_seq > 0)
  BY <1>2, KeySetOf, Zenon DEF SnapshotKey
<1> QED
  BY <1>1, <1>2, Zenon

(* The WAL round asks for the snapshot and the segments after it.          *)
LEMMA WalRound ==
    ASSUME NEW m \in Meta, InOrder(m)
    PROVE  /\ wal_round_keys(m) \in Seq(Key)
           /\ KeySet(wal_round_keys(m)) =
                (IF m.wal_snapshot_seq > 0 THEN {Snapshot} ELSE {}) \union {Wal(n) : n \in LiveSegments(m)}
<1> DEFINE from == wal_commit_replay_from(m)
           to == m.wal_commit_seq
<1>1. from = m.wal_snapshot_seq + 1
  BY MetaFields DEF wal_commit_replay_from
<1>2. from \in 1..MaxCommits + 1 /\ to \in 0..MaxCommits /\ from <= to + 1
  BY <1>1, MetaFields, ColdAssumption DEF InOrder
<1> HIDE DEF from, to
<1>3. WalRange(from, to) \in Seq(Key) /\ KeySet(WalRange(from, to)) = {Wal(n) : n \in from..to}
  BY <1>2, WalRangeKeys, Zenon
<1>4. wal_round_keys(m) = SnapshotKey(m) \o WalRange(from, to) /\ from..to = LiveSegments(m)
  BY <1>1, Zenon DEF wal_round_keys, LiveSegments, from, to
<1>5. SnapshotKey(m) \in Seq(Key)
  BY SnapshotKeys, Zenon
<1>6. /\ SnapshotKey(m) \o WalRange(from, to) \in Seq(Key)
      /\ KeySet(SnapshotKey(m) \o WalRange(from, to)) = KeySet(SnapshotKey(m)) \union KeySet(WalRange(from, to))
  BY <1>3, <1>5, KeySetJoin, Zenon
<1> QED
  BY <1>3, <1>4, <1>6, SnapshotKeys, Zenon

(* The bootstrap round asks for the filter and FTS files of the cursor.    *)
LEMMA BootstrapRound ==
    ASSUME NEW m \in Meta
    PROVE  /\ round2_bootstrap_keys(m) \in Seq(Key)
           /\ KeySet(round2_bootstrap_keys(m)) =
                IF m.index_cursor > 0 THEN {Filter(m.index_cursor), Fts(m.index_cursor)} ELSE {}
<1>1. CASE m.index_cursor > 0
  <2> DEFINE a == Filter(m.index_cursor)
             b == Fts(m.index_cursor)
  <2>1. m.index_cursor \in 1..MaxCommits
    BY <1>1, MetaFields
  <2>2. a \in Key /\ b \in Key /\ round2_bootstrap_keys(m) = <<a, b>>
    BY <1>1, <2>1, KeyTypes, Zenon DEF round2_bootstrap_keys
  <2> HIDE DEF a, b
  <2>3. <<a, b>> \in Seq(Key) /\ KeySet(<<a, b>>) = {a, b}
    BY <2>2, KeySetOf, Zenon
  <2> QED
    BY <1>1, <2>2, <2>3, Zenon DEF a, b
<1>2. CASE ~ (m.index_cursor > 0)
  BY <1>2, KeySetOf, Zenon DEF round2_bootstrap_keys
<1> QED
  BY <1>1, <1>2, Zenon

(* The tail round asks for every segment that is not indexed, and for none *)
(* that the snapshot covers.                                               *)
LEMMA TailRound ==
    ASSUME NEW m \in Meta, InOrder(m)
    PROVE  /\ unindexed_wal_tail_keys(m) \in Seq(Key)
           /\ KeySet(unindexed_wal_tail_keys(m)) \subseteq {Wal(n) : n \in LiveSegments(m)}
           /\ {Wal(n) : n \in m.index_cursor + 1..m.wal_commit_seq} \subseteq KeySet(unindexed_wal_tail_keys(m))
<1>1. CASE m.index_cursor >= m.wal_commit_seq
  <2>1. unindexed_wal_tail_keys(m) = <<>>
    BY <1>1, Zenon DEF unindexed_wal_tail_keys
  <2>2. m.index_cursor + 1..m.wal_commit_seq = {}
    BY <1>1, MetaFields
  <2> QED
    BY <2>1, <2>2, KeySetOf
<1>2. CASE ~ (m.index_cursor >= m.wal_commit_seq)
  <2> DEFINE from == IF m.wal_snapshot_seq > 0 THEN m.wal_snapshot_seq + 1 ELSE m.index_cursor + 1
             to == m.wal_commit_seq
  <2>1. unindexed_wal_tail_keys(m) = WalRange(from, to)
    BY <1>2, Zenon DEF unindexed_wal_tail_keys
  <2>2. /\ from \in 1..MaxCommits + 1 /\ to \in 0..MaxCommits /\ from <= to + 1
        /\ \A n \in from..to : n \in LiveSegments(m)
        /\ \A n \in m.index_cursor + 1..m.wal_commit_seq : n \in from..to
    BY <1>2, MetaFields, ColdAssumption DEF InOrder, LiveSegments
  <2> HIDE DEF from, to
  <2>3. WalRange(from, to) \in Seq(Key) /\ KeySet(WalRange(from, to)) = {Wal(n) : n \in from..to}
    BY <2>2, WalRangeKeys, Zenon
  <2> QED
    BY <2>1, <2>2, <2>3, Zenon
<1> QED
  BY <1>1, <1>2, Zenon

(* The L0 round asks for the L0 file of each vector field.                 *)
LEMMA L0Round ==
    ASSUME NEW m \in Meta
    PROVE  /\ l0_keys_for_meta(m) \in Seq(Key)
           /\ KeySet(l0_keys_for_meta(m)) = {L0(f) : f \in m.vector_fields}
<1> DEFINE S == {L0(f) : f \in m.vector_fields}
<1>1. m.vector_fields \subseteq VectorFields /\ IsFiniteSet(m.vector_fields)
  BY MetaFields, ColdAssumption, FS_Subset
<1>2. IsFiniteSet(S) /\ S \subseteq Key
  <2> DEFINE g == [f \in m.vector_fields |-> L0(f)]
  <2>1. g \in Surjection(m.vector_fields, S)
    BY Zenon DEF Surjection
  <2> QED
    BY <1>1, <2>1, FS_Surjection, KeyTypes, Zenon
<1> HIDE DEF S
<1>3. Cardinality(S) \in Nat /\ ExistsBijection(1..Cardinality(S), S)
  BY <1>2, FS_CardinalityType
<1> DEFINE s == CHOOSE keys \in [1..Cardinality(S) -> S] : KeySet(keys) = S
<1>4. s \in [1..Cardinality(S) -> S] /\ KeySet(s) = S
  <2>1. PICK keys \in [1..Cardinality(S) -> S] : \A y \in S : \E i \in 1..Cardinality(S) : keys[i] = y
    BY <1>3, Zenon DEF ExistsBijection, Bijection, Surjection
  <2>2. KeySet(keys) = S
    BY <2>1 DEF KeySet
  <2> QED
    BY <2>2, Zenon
<1> HIDE DEF s
<1>5. s \in Seq(Key)
  BY <1>2, <1>3, <1>4
<1> QED
  BY <1>4, <1>5, Zenon DEF l0_keys_for_meta, s, S

-----------------------------------------------------------------------------
(* Entering a round changes the list of keys and the counts only.          *)
SameRequest(q, r) ==
    /\ r.strong = q.strong /\ r.probes = q.probes /\ r.near = q.near
    /\ r.opened = q.opened /\ r.raced = q.raced

SameLoad(q, r) == r.first = q.first /\ r.meta = q.meta /\ r.got = q.got

(* What EnterRound sets.                                                   *)
LEMMA EnterFields ==
    ASSUME NEW q \in QueryState, NEW pc \in Loading, NEW keys \in Seq(Key)
    PROVE  LET r == EnterRound(q, pc, keys) IN
           /\ r \in QueryState /\ r.pc = pc /\ r.todo = keys
           /\ SameRequest(q, r) /\ SameLoad(q, r) /\ r.left = q.left /\ r.field = q.field
<1> DEFINE n == q.rounds + (IF keys = <<>> \/ pc = "clusters" THEN 0 ELSE 1)
           k == q.keys + Len(keys)
           r == [q EXCEPT !.pc = pc, !.todo = keys, !.rounds = n, !.keys = k]
<1>1. EnterRound(q, pc, keys) = r
  BY Zenon DEF EnterRound
<1>2. n \in Nat /\ k \in Nat
  BY DEF QueryState
<1> HIDE DEF n, k
<1>3. r \in QueryState
  BY Zenon, <1>2 DEF QueryState
<1>4. r.pc = pc /\ r.todo = keys /\ SameRequest(q, r) /\ SameLoad(q, r) /\ r.left = q.left /\ r.field = q.field
  BY DEF QueryState, SameRequest, SameLoad
<1> QED
  BY <1>1, <1>3, <1>4, Zenon

(* A sub-batch splits the list of keys.                                    *)
LEMMA ChunkSplits ==
    ASSUME NEW s \in Seq(Key), s # <<>>
    PROVE  LET c == Chunk(s)
               r == SubSeq(s, Len(c) + 1, Len(s)) IN
           /\ c \in Seq(Key) /\ r \in Seq(Key) /\ KeySet(s) = KeySet(c) \union KeySet(r)
           /\ \A i \in DOMAIN c : i \in DOMAIN s /\ c[i] = s[i]
           /\ Len(c) + Len(r) = Len(s)
<1> DEFINE n == IF Len(s) > COLD_MAX_KEYS_PER_ROUND THEN COLD_MAX_KEYS_PER_ROUND ELSE Len(s)
           c == SubSeq(s, 1, n)
           r == SubSeq(s, n + 1, Len(s))
<1>1. Len(s) \in Nat /\ n \in 1..Len(s)
  BY ColdAssumption
<1> HIDE DEF n
<1>2. /\ c \in Seq(Key) /\ Len(c) = n /\ DOMAIN c = 1..n /\ DOMAIN s = 1..Len(s)
      /\ \A i \in 1..n : c[i] = s[i]
  BY <1>1
<1>3. /\ r \in Seq(Key) /\ Len(r) = Len(s) - n /\ DOMAIN r = 1..(Len(s) - n)
      /\ \A i \in 1..(Len(s) - n) : r[i] = s[n + i]
  BY <1>1
<1>4. Chunk(s) = c
  BY Zenon DEF Chunk, n
<1> HIDE DEF c, r
<1>5. ASSUME NEW k \in KeySet(s) PROVE k \in KeySet(c) \union KeySet(r)
  <2>1. PICK i \in 1..Len(s) : s[i] = k
    BY <1>2, <1>5 DEF KeySet
  <2>2. i \in 1..n \/ (i - n \in 1..(Len(s) - n) /\ n + (i - n) = i)
    BY <1>1, <2>1
  <2> QED
    BY Zenon, <1>2, <1>3, <2>1, <2>2 DEF KeySet
<1>6. ASSUME NEW k \in KeySet(c) \union KeySet(r) PROVE k \in KeySet(s)
  <2>1. \A i \in 1..n : i \in 1..Len(s)
    BY <1>1
  <2>2. \A i \in 1..(Len(s) - n) : n + i \in 1..Len(s)
    BY <1>1
  <2> QED
    BY <1>2, <1>3, <1>6, <2>1, <2>2 DEF KeySet
<1>7. Len(c) + Len(r) = Len(s) /\ \A i \in DOMAIN c : i \in DOMAIN s /\ c[i] = s[i]
  BY <1>1, <1>2, <1>3
<1>8. SubSeq(s, Len(c) + 1, Len(s)) = r
  BY <1>2, Zenon DEF r
<1> QED
  BY <1>2, <1>3, <1>4, <1>5, <1>6, <1>7, <1>8, Zenon

-----------------------------------------------------------------------------
(* What a step keeps that leaves the objects in place, segments aside.     *)
Keeps ==
    /\ \A k \in objects : k[1] # "wal" => k \in objects'
    /\ meta'.wal_commit_seq >= meta.wal_commit_seq /\ meta'.wal_snapshot_seq >= meta.wal_snapshot_seq

(* What a meta.json names stays in place.                                  *)
LEMMA StillVouched ==
    ASSUME ColdTypeOK, meta' \in Meta, Keeps, NEW m \in Meta, Vouched(m)
    PROVE  /\ m.wal_snapshot_seq <= m.index_cursor /\ m.index_cursor <= m.wal_commit_seq
           /\ m.wal_commit_seq <= meta'.wal_commit_seq
           /\ m.wal_snapshot_seq > 0 => Snapshot \in objects'
           /\ m.index_cursor > 0 => Fts(m.index_cursor) \in objects' /\ Filter(m.index_cursor) \in objects'
           /\ \A f \in m.vector_fields : L0(f) \in objects'
<1>1. m.wal_commit_seq <= meta'.wal_commit_seq
  <2>1. meta \in Meta
    BY Zenon DEF ColdTypeOK
  <2> QED
    BY <2>1, MetaFields DEF Keeps, Vouched
<1>2. \A k \in objects : k[1] # "wal" => k \in objects'
  BY Zenon DEF Keeps
<1> QED
  BY <1>1, <1>2, KeyKinds, Zenon DEF Vouched

(* A query that a step of the writer does not touch is as sound after it   *)
(* as before, unless a segment it may read goes: then it is raced.         *)
SameQuery ==
    /\ query'.pc = query.pc /\ query'.strong = query.strong /\ query'.probes = query.probes
    /\ query'.near = query.near /\ query'.left = query.left /\ query'.field = query.field
    /\ query'.opened = query.opened /\ query'.first = query.first /\ query'.meta = query.meta
    /\ query'.todo = query.todo /\ query'.got = query.got /\ query'.missing = query.missing
    /\ query.raced => query'.raced

Unraced(pc, raced) == raced \/ pc = "idle" \/ \A n \in Nat : Wal(n) \in objects => Wal(n) \in objects'

(* So with a query in any round.                                           *)
LEMMA QueryUndisturbed ==
    ASSUME ColdTypeOK, meta' \in Meta, Keeps, AskInv, LoadInv, SameQuery, Unraced(query.pc, query'.raced)
    PROVE  AskInv' /\ LoadInv'
<1>1. /\ query.first \in Meta /\ query.meta \in Meta /\ meta \in Meta
      /\ query.got \subseteq Key /\ query.todo \in Seq(Key)
  BY DEF ColdTypeOK, QueryState
<1>2. \A k \in objects : k[1] # "wal" => k \in objects'
  BY Zenon DEF Keeps
<1>3. AskInv'
  <2>1. query'.pc \in {"idle", "open", "refresh", "done", "failed"} => query'.todo = <<>>
    BY Zenon DEF AskInv, SameQuery
  <2>2. query'.pc # "idle" => query'.near \in Coarse
    BY Zenon DEF AskInv, SameQuery
  <2>3. ASSUME query'.pc \in Loading
        PROVE  Vouched(query.first)' /\ Vouched(query.meta)' /\ (query'.raced \/ \A n \in LiveSegments(query'.meta) : Wal(n) \in objects')
    <3>1. query.pc \in Loading /\ query.pc # "idle" /\ query'.meta = query.meta /\ query'.first = query.first
      BY <2>3 DEF SameQuery, Loading
    <3>2. Vouched(query.first) /\ Vouched(query.meta) /\ (query.raced \/ \A n \in LiveSegments(query.meta) : Wal(n) \in objects)
      BY <3>1, Zenon DEF AskInv
    <3>3. Vouched(query.first)' /\ Vouched(query.meta)'
      BY <1>1, <3>1, <3>2, StillVouched, Zenon DEF Vouched
    <3>4. \A n \in LiveSegments(query.meta) : n \in Nat
      BY <1>1, MetaFields DEF LiveSegments
    <3>5. query'.raced \/ \A n \in LiveSegments(query.meta) : Wal(n) \in objects'
      BY <3>1, <3>2, <3>4, Zenon DEF Unraced, SameQuery
    <3> QED
      BY <3>1, <3>3, <3>5, Zenon
  <2>4. \A i \in DOMAIN query'.todo :
         IF query'.pc = "clusters" THEN query'.todo[i] = ClusterOf(query'.field, query'.near)
         ELSE \/ \E n \in LiveSegments(query'.meta) : query'.todo[i] = Wal(n)
              \/ query'.todo[i] \in objects' /\ query'.todo[i][1] # "wal"
    BY ZenonT(30), <1>2 DEF AskInv, SameQuery
  <2>5. query'.pc = "failed" =>
         /\ query'.raced
         /\ \E n \in 1..MaxCommits : query'.missing = Wal(n) /\ n + WAL_COMPACT_KEEP <= meta'.wal_snapshot_seq
    <3>1. \A n \in 1..MaxCommits : n + WAL_COMPACT_KEEP <= meta.wal_snapshot_seq =>
            n + WAL_COMPACT_KEEP <= meta'.wal_snapshot_seq
      BY <1>1, MetaFields, ColdAssumption DEF Keeps
    <3> QED
      BY <3>1, Zenon DEF AskInv, SameQuery
  <2> QED
    BY <2>1, <2>2, <2>3, <2>4, <2>5, Zenon DEF AskInv
<1>4. LoadInv'
  <2>1. \A key \in query'.got : key[1] = "wal" \/ key \in objects'
    BY <1>2, Zenon DEF LoadInv, SameQuery
  <2>2. query'.pc \in {"l1", "clusters"} => query'.field \in VectorFields /\ L0(query'.field) \in objects'
    BY <1>2, KeyKinds, Zenon DEF LoadInv, SameQuery
  <2>3. \A key : Has(key)' <=> Has(key)
    BY Zenon DEF Has, SameQuery
  <2> QED
    BY <2>1, <2>2, <2>3, Zenon DEF LoadInv, SameQuery
<1> QED
  BY <1>3, <1>4, Zenon

SameWarm ==
    /\ warm'.pc = warm.pc /\ warm'.meta = warm.meta /\ warm'.todo = warm.todo /\ warm'.got = warm.got
    /\ warm'.wal_segments = warm.wal_segments
    /\ warm.raced => warm'.raced

(* So with a warm call.                                                    *)
LEMMA WarmUndisturbed ==
    ASSUME ColdTypeOK, meta' \in Meta, Keeps, WarmInv, SameWarm, Unraced(warm.pc, warm'.raced)
    PROVE  WarmInv'
<1>1. warm.meta \in Meta
  BY DEF ColdTypeOK, WarmState
<1>2. ASSUME warm'.pc # "idle"
      PROVE  /\ Vouched(warm.meta)'
             /\ warm'.raced \/ \A n \in LiveSegments(warm'.meta) : Wal(n) \in objects'
  <2>1. warm.pc # "idle" /\ warm'.meta = warm.meta
    BY <1>2, Zenon DEF SameWarm
  <2>2. Vouched(warm.meta) /\ (warm.raced \/ \A n \in LiveSegments(warm.meta) : Wal(n) \in objects)
    BY <2>1, Zenon DEF WarmInv
  <2>3. Vouched(warm.meta)'
    BY <1>1, <2>1, <2>2, StillVouched, Zenon DEF Vouched
  <2>4. \A n \in LiveSegments(warm.meta) : n \in Nat
    BY <1>1, MetaFields DEF LiveSegments
  <2> QED
    BY <2>1, <2>2, <2>3, <2>4, Zenon DEF Unraced, SameWarm
<1> QED
  BY <1>2, Zenon DEF WarmInv, SameWarm

(* A step of the writer that deletes nothing.                              *)
LEMMA WriterStep ==
    ASSUME ColdInv, meta' \in Meta, objects \subseteq objects', objects' \subseteq Key, StoreInv',
           compaction' \in [pc : {"idle", "commit", "delete"}, left : Seq(1..MaxCommits)],
           meta'.wal_commit_seq >= meta.wal_commit_seq, meta'.wal_snapshot_seq >= meta.wal_snapshot_seq,
           UNCHANGED <<view, query, warm>>
    PROVE  ColdInv'
<1>1. Keeps /\ SameQuery /\ SameWarm
  BY Zenon DEF Keeps, SameQuery, SameWarm
<1>2. Unraced(query.pc, query'.raced) /\ Unraced(warm.pc, warm'.raced)
  BY Zenon DEF Unraced
<1>3. AskInv' /\ LoadInv' /\ WarmInv'
  BY <1>1, <1>2, QueryUndisturbed, WarmUndisturbed, Zenon DEF ColdInv
<1>4. ColdTypeOK'
  BY Zenon DEF ColdInv, ColdTypeOK
<1> QED
  BY <1>3, <1>4, Zenon DEF ColdInv

(* A commit adds a segment after those that any meta.json names.           *)
LEMMA AppendKeeps ==
    ASSUME ColdInv, append_wal PROVE ColdInv'
<1> DEFINE n == meta.wal_commit_seq + 1
<1>1. /\ meta \in Meta /\ objects \subseteq Key /\ StoreInv /\ compaction.pc = "idle"
      /\ compaction \in [pc : {"idle", "commit", "delete"}, left : Seq(1..MaxCommits)]
      /\ meta.wal_commit_seq < MaxCommits
      /\ meta' = [meta EXCEPT !.wal_commit_seq = n] /\ objects' = objects \union {Wal(n)}
      /\ UNCHANGED <<compaction, view, query, warm>>
  BY Zenon DEF ColdInv, ColdTypeOK, append_wal
<1>2. n \in 1..MaxCommits /\ n >= meta.wal_commit_seq
  BY <1>1, MetaFields, ColdAssumption
<1>3. /\ meta' \in Meta /\ meta'.wal_commit_seq = n /\ meta'.index_cursor = meta.index_cursor
      /\ meta'.wal_snapshot_seq = meta.wal_snapshot_seq /\ meta'.vector_fields = meta.vector_fields
  <2>1. n \in 0..MaxCommits
    BY <1>2
  <2> HIDE DEF n
  <2> QED
    BY <1>1, <2>1, Zenon DEF Meta
<1>4. Wal(n) \in Key
  BY <1>2, KeyTypes, Zenon
<1>5. /\ meta.wal_snapshot_seq <= meta.index_cursor /\ meta.index_cursor <= n
      /\ meta.wal_snapshot_seq >= meta.wal_snapshot_seq /\ n <= n
      /\ \A k \in 1..n : k = n \/ k \in 1..meta.wal_commit_seq
  BY <1>1, <1>2, MetaFields DEF StoreInv, Vouched
<1> HIDE DEF n
<1>6. StoreInv'
  <2>1. Vouched(meta)'
    BY <1>1, <1>3, <1>5 DEF StoreInv, Vouched
  <2>2. \A k \in 1..n : Wal(k) \in objects' \/ k + WAL_COMPACT_KEEP <= meta.wal_snapshot_seq
    BY <1>1, <1>5, Zenon DEF StoreInv
  <2>3. \A f \in VectorFields : L0(f) \in objects' => L0(f) \in objects
    <3>1. \A f : L0(f) # Wal(n)
      BY KeyKinds
    <3> QED
      BY <1>1, <3>1, Zenon
  <2>4. compaction'.pc = "idle"
    BY <1>1, Zenon
  <2> QED
    BY <1>1, <1>3, <2>1, <2>2, <2>3, <2>4 DEF StoreInv
<1> QED
  BY <1>1, <1>2, <1>3, <1>4, <1>5, <1>6, WriterStep, Zenon

(* What an index pass puts.                                                *)
LEMMA IndexFilesKeys ==
    ASSUME NEW to \in 1..MaxCommits, NEW fields \in SUBSET VectorFields
    PROVE  /\ IndexFiles(to, fields) \subseteq Key
           /\ Fts(to) \in IndexFiles(to, fields) /\ Filter(to) \in IndexFiles(to, fields)
           /\ \A f \in fields : L0(f) \in IndexFiles(to, fields)
           /\ \A f \in fields, c \in Coarse : L1(f, c) \in IndexFiles(to, fields)
           /\ \A f \in fields, c \in Coarse \ EmptyCells : ClusterOf(f, c) \in IndexFiles(to, fields)
           /\ \A f : L0(f) \in IndexFiles(to, fields) => f \in fields
<1>1. IndexFiles(to, fields) \subseteq Key
  BY KeyTypes, SMTT(20) DEF IndexFiles
<1>2. /\ Fts(to) \in IndexFiles(to, fields) /\ Filter(to) \in IndexFiles(to, fields)
      /\ \A f \in fields : L0(f) \in IndexFiles(to, fields)
  BY SMT DEF IndexFiles
<1>3. /\ \A f \in fields, c \in Coarse : L1(f, c) \in IndexFiles(to, fields)
      /\ \A f \in fields, c \in Coarse \ EmptyCells : ClusterOf(f, c) \in IndexFiles(to, fields)
  BY SMT DEF IndexFiles
<1>4. ASSUME NEW f, L0(f) \in IndexFiles(to, fields) PROVE f \in fields
  <2>1. L0(f) # Fts(to) /\ L0(f) # Filter(to) /\ \A g, c : L0(f) # L1(g, c) /\ L0(f) # ClusterOf(g, c)
    BY KeyKinds
  <2>2. \A g : L0(f) = L0(g) => f = g
    BY DEF L0
  <2> QED
    BY <1>4, <2>1, <2>2, SMTT(20) DEF IndexFiles
<1> QED
  BY <1>1, <1>2, <1>3, <1>4, Zenon

(* An index pass puts the files before the meta.json that names them.      *)
LEMMA IndexPassKeeps ==
    ASSUME ColdInv, IndexPass PROVE ColdInv'
<1>1. PICK to \in meta.index_cursor + 1..meta.wal_commit_seq, fields \in SUBSET VectorFields :
        /\ meta' = [meta EXCEPT !.index_cursor = to, !.vector_fields = @ \union fields]
        /\ objects' = objects \union IndexFiles(to, fields)
  BY Zenon DEF IndexPass
<1>2. /\ meta \in Meta /\ objects \subseteq Key /\ StoreInv /\ compaction.pc = "idle"
      /\ compaction \in [pc : {"idle", "commit", "delete"}, left : Seq(1..MaxCommits)]
      /\ UNCHANGED <<compaction, view, query, warm>>
  BY Zenon DEF ColdInv, ColdTypeOK, IndexPass
<1>3. /\ to \in 1..MaxCommits /\ to <= meta.wal_commit_seq /\ meta.wal_snapshot_seq <= to
      /\ to > 0 /\ meta.wal_commit_seq >= meta.wal_commit_seq /\ meta.wal_snapshot_seq >= meta.wal_snapshot_seq
  BY SMTT(30), <1>1, <1>2, MetaFields, ColdAssumption DEF StoreInv, Vouched
<1>4. /\ meta' \in Meta /\ meta'.wal_commit_seq = meta.wal_commit_seq /\ meta'.index_cursor = to
      /\ meta'.wal_snapshot_seq = meta.wal_snapshot_seq
      /\ meta'.vector_fields = meta.vector_fields \union fields
  <2> DEFINE v == meta.vector_fields \union fields
  <2>1. meta' = [meta EXCEPT !.index_cursor = to, !.vector_fields = v]
    BY <1>1, Zenon
  <2>2. v \subseteq VectorFields /\ to \in 0..MaxCommits
    BY <1>2, <1>3, MetaFields
  <2> HIDE DEF v
  <2>3. /\ meta' \in Meta /\ meta'.wal_commit_seq = meta.wal_commit_seq /\ meta'.index_cursor = to
        /\ meta'.wal_snapshot_seq = meta.wal_snapshot_seq /\ meta'.vector_fields = v
    BY Zenon, <1>2, <2>1, <2>2 DEF Meta
  <2> QED
    BY <2>3, Zenon DEF v
<1>5. /\ objects \subseteq objects' /\ Fts(to) \in objects' /\ Filter(to) \in objects'
      /\ \A f \in fields : L0(f) \in objects' /\ \A c \in Coarse : L1(f, c) \in objects'
      /\ \A f \in fields, c \in Coarse \ EmptyCells : ClusterOf(f, c) \in objects'
  BY <1>1, <1>3, IndexFilesKeys, Zenon
<1>6. objects' \subseteq Key
  BY <1>1, <1>2, <1>3, IndexFilesKeys, Zenon
<1>7. ASSUME NEW f \in VectorFields, L0(f) \in objects' PROVE L0(f) \in objects \/ f \in fields
  BY <1>1, <1>3, <1>7, IndexFilesKeys, Zenon
<1>8. StoreInv'
  <2>1. Vouched(meta)'
    BY <1>2, <1>3, <1>4, <1>5 DEF StoreInv, Vouched
  <2>2. \A n \in 1..meta'.wal_commit_seq : Wal(n) \in objects' \/ n + WAL_COMPACT_KEEP <= meta'.wal_snapshot_seq
    BY <1>2, <1>4, <1>5, Zenon DEF StoreInv
  <2>3. ASSUME NEW f \in VectorFields, L0(f) \in objects', NEW c \in Coarse
        PROVE  L1(f, c) \in objects' /\ (c \notin EmptyCells => ClusterOf(f, c) \in objects')
    <3>1. CASE L0(f) \in objects
      BY <1>2, <1>5, <3>1, Zenon DEF StoreInv
    <3>2. CASE f \in fields
      BY <1>5, <3>2, Zenon
    <3> QED
      BY <1>7, <2>3, <3>1, <3>2, Zenon
  <2>4. compaction'.pc = "idle"
    BY <1>2, Zenon
  <2> QED
    BY <2>1, <2>2, <2>3, <2>4 DEF StoreInv
<1> QED
  BY <1>2, <1>3, <1>4, <1>5, <1>6, <1>8, WriterStep, Zenon

(* The snapshot is put before a meta.json names it.                        *)
LEMMA CompactPutKeeps ==
    ASSUME ColdInv, CompactPut PROVE ColdInv'
<1>1. /\ meta \in Meta /\ objects \subseteq Key /\ StoreInv /\ compaction.pc = "idle"
      /\ compaction \in [pc : {"idle", "commit", "delete"}, left : Seq(1..MaxCommits)]
      /\ meta.index_cursor > WAL_COMPACT_KEEP /\ objects' = objects \union {Snapshot}
      /\ compaction' = [compaction EXCEPT !.pc = "commit"]
      /\ UNCHANGED <<meta, view, query, warm>>
  BY Zenon DEF ColdInv, ColdTypeOK, CompactPut, needs_wal_compaction
<1>2. /\ compaction' \in [pc : {"idle", "commit", "delete"}, left : Seq(1..MaxCommits)]
      /\ compaction'.pc = "commit"
  BY <1>1
<1>3. \A f : L0(f) # Snapshot
  BY KeyKinds
<1>4. /\ meta' \in Meta /\ objects \subseteq objects' /\ objects' \subseteq Key
      /\ meta'.wal_commit_seq >= meta.wal_commit_seq /\ meta'.wal_snapshot_seq >= meta.wal_snapshot_seq
  <2>1. meta.wal_commit_seq >= meta.wal_commit_seq /\ meta.wal_snapshot_seq >= meta.wal_snapshot_seq
    BY <1>1, MetaFields
  <2> QED
    BY <1>1, <2>1, KeyTypes, Zenon
<1>5. StoreInv'
  <2>1. Vouched(meta)'
    BY <1>1, Zenon DEF StoreInv, Vouched
  <2>2. Snapshot \in objects' /\ compaction'.pc # "delete"
    BY <1>1, <1>2, Zenon
  <2>3. \A f \in VectorFields : L0(f) \in objects' => L0(f) \in objects
    BY <1>1, <1>3, Zenon
  <2> QED
    BY <1>1, <2>1, <2>2, <2>3, Zenon DEF StoreInv
<1> QED
  BY <1>1, <1>2, <1>4, <1>5, WriterStep, Zenon

(* What a compaction will delete, the snapshot of the new meta.json        *)
(* covers.                                                                 *)
LEMMA CompactCommitKeeps ==
    ASSUME ColdInv, CompactCommit PROVE ColdInv'
<1> DEFINE n == meta.index_cursor - WAL_COMPACT_KEEP
           l == [seq \in 1..n |-> seq]
<1>1. /\ meta \in Meta /\ objects \subseteq Key /\ StoreInv /\ compaction.pc = "commit"
      /\ meta' = [meta EXCEPT !.wal_snapshot_seq = meta.index_cursor]
      /\ compaction' = [pc |-> "delete", left |-> l]
      /\ UNCHANGED <<objects, view, query, warm>>
  BY Zenon DEF ColdInv, ColdTypeOK, CompactCommit
<1>2. /\ n \in 1..MaxCommits /\ meta.wal_snapshot_seq <= meta.index_cursor
      /\ meta.index_cursor \in 0..MaxCommits
      /\ \A i \in 1..n : i \in 1..MaxCommits /\ i + WAL_COMPACT_KEEP <= meta.index_cursor
  BY SMTT(30), <1>1, MetaFields, ColdAssumption DEF StoreInv, Vouched
<1> HIDE DEF n
<1>3. l \in Seq(1..MaxCommits) /\ l # <<>> /\ DOMAIN l = 1..n /\ \A i \in 1..n : l[i] = i
  BY <1>2
<1>4. /\ meta' \in Meta /\ meta'.wal_commit_seq = meta.wal_commit_seq /\ meta'.index_cursor = meta.index_cursor
      /\ meta'.wal_snapshot_seq = meta.index_cursor /\ meta'.vector_fields = meta.vector_fields
  BY <1>1, <1>2 DEF Meta
<1>5. meta'.wal_commit_seq >= meta.wal_commit_seq /\ meta'.wal_snapshot_seq >= meta.wal_snapshot_seq
  BY <1>1, <1>2, <1>4, MetaFields
<1> HIDE DEF l
<1>6. StoreInv'
  <2>1. Vouched(meta)'
    BY <1>1, <1>2, <1>4, MetaFields DEF StoreInv, Vouched
  <2>2. \A k \in 1..meta.wal_commit_seq : k + WAL_COMPACT_KEEP <= meta.wal_snapshot_seq =>
          k + WAL_COMPACT_KEEP <= meta.index_cursor
    BY <1>1, <1>2, MetaFields, ColdAssumption
  <2>3. compaction'.pc = "delete" /\ compaction'.left = l
    BY <1>1
  <2> QED
    BY <1>1, <1>2, <1>3, <1>4, <2>1, <2>2, <2>3 DEF StoreInv
<1>7. compaction' \in [pc : {"idle", "commit", "delete"}, left : Seq(1..MaxCommits)]
  BY <1>1, <1>3
<1> QED
  BY <1>1, <1>4, <1>5, <1>6, <1>7, WriterStep, Zenon

(* A query that a deletion may have raced.                                 *)
LEMMA RacedQuery ==
    ASSUME query \in QueryState, NEW b \in BOOLEAN, query' = [query EXCEPT !.raced = b], query.raced => b
    PROVE  query' \in QueryState /\ SameQuery /\ query'.raced = b
<1>1. query' \in QueryState /\ query'.raced = b
  BY SMTT(30) DEF QueryState
<1>2. SameQuery
  BY <1>1, Zenon DEF QueryState, SameQuery
<1> QED
  BY <1>1, <1>2, Zenon

(* The head and the tail of a list.                                        *)
LEMMA TailOf ==
    ASSUME NEW S, NEW l \in Seq(S), l # <<>>
    PROVE  /\ Head(l) \in S /\ Head(l) = l[1] /\ 1 \in 1..Len(l)
           /\ Tail(l) \in Seq(S) /\ Len(Tail(l)) = Len(l) - 1 /\ DOMAIN Tail(l) = 1..Len(l) - 1
           /\ \A i \in 1..Len(l) - 1 : Tail(l)[i] = l[i + 1] /\ i + 1 \in 1..Len(l)
           /\ Len(l) # 1 => Tail(l) # <<>>
<1>1. Len(l) \in Nat \ {0} /\ Head(l) = l[1] /\ DOMAIN l = 1..Len(l)
  OBVIOUS
<1>2. Tail(l) \in Seq(S) /\ Len(Tail(l)) = Len(l) - 1 /\ DOMAIN Tail(l) = 1..Len(l) - 1
  BY <1>1
<1>3. \A i \in 1..Len(l) - 1 : Tail(l)[i] = l[i + 1] /\ i + 1 \in 1..Len(l)
  BY <1>1, <1>2
<1>4. Head(l) \in S /\ 1 \in 1..Len(l)
  BY <1>1
<1>5. Len(l) # 1 => Tail(l) # <<>>
  <2>1. Tail(l) = <<>> => Len(Tail(l)) = Len(<<>>)
    BY Zenon
  <2>2. Len(<<>>) = 0
    OBVIOUS
  <2>3. Len(l) # 1 => Len(Tail(l)) # 0
    BY <1>1, <1>2
  <2> QED
    BY <2>1, <2>2, <2>3, Zenon
<1> QED
  BY <1>1, <1>2, <1>3, <1>4, <1>5, Zenon

(* One segment goes that the snapshot covers; the calls in progress that   *)
(* may read it are raced.                                                  *)
LEMMA CompactDeleteKeeps ==
    ASSUME ColdInv, CompactDelete PROVE ColdInv'
<1> DEFINE l == compaction.left
           h == Head(l)
           e == query.raced \/ (query.pc # "idle" /\ Wal(h) \in objects)
           d == warm.raced \/ (warm.pc # "idle" /\ Wal(h) \in objects)
<1>1. /\ ColdTypeOK /\ StoreInv /\ AskInv /\ LoadInv /\ WarmInv /\ meta \in Meta /\ objects \subseteq Key
      /\ query \in QueryState /\ warm \in WarmState /\ compaction.pc = "delete"
      /\ l \in Seq(1..MaxCommits)
  BY DEF ColdInv, ColdTypeOK, CompactDelete
<1>2. /\ objects' = objects \ {Wal(h)}
      /\ query' = [query EXCEPT !.raced = e] /\ warm' = [warm EXCEPT !.raced = d]
      /\ compaction' = [pc |-> IF Len(l) = 1 THEN "idle" ELSE "delete", left |-> Tail(l)]
      /\ UNCHANGED <<meta, view>>
  BY Zenon DEF CompactDelete
<1>3. /\ l # <<>> /\ Len(l) \in Nat /\ DOMAIN l = 1..Len(l)
      /\ \A i \in 1..Len(l) : l[i] + WAL_COMPACT_KEEP <= meta.wal_snapshot_seq
  BY <1>1 DEF StoreInv
<1> HIDE DEF l
<1>4. /\ h \in 1..MaxCommits /\ h = l[1] /\ h + WAL_COMPACT_KEEP <= meta.wal_snapshot_seq
      /\ Tail(l) \in Seq(1..MaxCommits) /\ Len(Tail(l)) = Len(l) - 1
      /\ \A i \in DOMAIN Tail(l) : Tail(l)[i] = l[i + 1] /\ i + 1 \in 1..Len(l)
      /\ Len(l) # 1 => Tail(l) # <<>>
  <2>1. /\ h \in 1..MaxCommits /\ h = l[1] /\ 1 \in 1..Len(l)
        /\ Tail(l) \in Seq(1..MaxCommits) /\ Len(Tail(l)) = Len(l) - 1
        /\ DOMAIN Tail(l) = 1..Len(l) - 1
        /\ \A i \in 1..Len(l) - 1 : Tail(l)[i] = l[i + 1] /\ i + 1 \in 1..Len(l)
        /\ Len(l) # 1 => Tail(l) # <<>>
    BY Zenon, <1>1, <1>3, TailOf
  <2> QED
    BY <1>3, <2>1, Zenon
<1>5. /\ compaction' \in [pc : {"idle", "commit", "delete"}, left : Seq(1..MaxCommits)]
      /\ compaction'.pc \in {"idle", "delete"} /\ compaction'.left = Tail(l)
      /\ compaction'.pc = "delete" => Tail(l) # <<>>
  BY <1>2, <1>4
<1> HIDE DEF h
<1>6. e \in BOOLEAN /\ d \in BOOLEAN /\ (query.raced => e) /\ (warm.raced => d)
  BY <1>1, Zenon DEF QueryState, WarmState
<1>7. (e \/ query.pc = "idle" \/ Wal(h) \notin objects) /\ (d \/ warm.pc = "idle" \/ Wal(h) \notin objects)
  BY <1>6, Zenon
<1> HIDE DEF e, d
<1>8. query' \in QueryState /\ SameQuery /\ query'.raced = e
  BY <1>1, <1>2, <1>6, RacedQuery, Zenon
<1>9. warm' \in WarmState /\ SameWarm /\ warm'.raced = d
  <2>1. warm' \in WarmState /\ warm'.raced = d
    BY SMTT(30), <1>1, <1>2, <1>6 DEF WarmState
  <2> QED
    BY <1>1, <1>2, <1>6, <2>1, Zenon DEF WarmState, SameWarm
<1>10. Keeps /\ meta' \in Meta
  <2>1. meta.wal_commit_seq >= meta.wal_commit_seq /\ meta.wal_snapshot_seq >= meta.wal_snapshot_seq
    BY <1>1, MetaFields
  <2> QED
    BY <1>1, <1>2, <2>1, KeyKinds, Zenon DEF Keeps
<1>11. Unraced(query.pc, query'.raced) /\ Unraced(warm.pc, warm'.raced)
  BY <1>2, <1>7, <1>8, <1>9, Zenon DEF Unraced
<1>12. AskInv' /\ LoadInv' /\ WarmInv'
  BY <1>1, <1>8, <1>9, <1>10, <1>11, QueryUndisturbed, WarmUndisturbed, Zenon
<1>13. StoreInv'
  <2>1. Vouched(meta)'
    BY <1>1, <1>2, <1>10, StillVouched, Zenon DEF StoreInv, Vouched
  <2>2. ASSUME NEW n \in 1..meta.wal_commit_seq
        PROVE  Wal(n) \in objects' \/ n + WAL_COMPACT_KEEP <= meta.wal_snapshot_seq
    <3>1. Wal(n) = Wal(h) => n = h
      BY KeyKinds
    <3> QED
      BY <1>1, <1>2, <1>4, <3>1, Zenon DEF StoreInv
  <2>3. ASSUME NEW f \in VectorFields, L0(f) \in objects', NEW c \in Coarse
        PROVE  L1(f, c) \in objects' /\ (c \notin EmptyCells => ClusterOf(f, c) \in objects')
    <3>1. L1(f, c) # Wal(h) /\ ClusterOf(f, c) # Wal(h)
      BY KeyKinds
    <3> QED
      BY <1>1, <1>2, <2>3, <3>1, Zenon DEF StoreInv
  <2>4. \A i \in DOMAIN Tail(l) : Tail(l)[i] + WAL_COMPACT_KEEP <= meta.wal_snapshot_seq
    BY <1>3, <1>4, Zenon
  <2>5. compaction'.pc # "commit"
    BY <1>5
  <2> QED
    BY <1>2, <1>5, <2>1, <2>2, <2>3, <2>4, <2>5, Zenon DEF StoreInv
<1>14. ColdTypeOK'
  BY <1>1, <1>2, <1>5, <1>8, <1>9, Zenon DEF ColdTypeOK
<1> QED
  BY <1>12, <1>13, <1>14, Zenon DEF ColdInv

-----------------------------------------------------------------------------
(* The steps of a query, which leave the bucket alone.                     *)

(* A step of the query is judged by the query alone.                       *)
LEMMA QueryStep ==
    ASSUME ColdInv, UNCHANGED <<meta, objects, compaction, warm>>, query' \in QueryState,
           view' \in [pinned : BOOLEAN, meta : Meta, last_applied : 0..MaxCommits],
           AskInv', LoadInv'
    PROVE  ColdInv'
<1>1. StoreInv'
  BY Zenon DEF ColdInv, StoreInv, Vouched
<1>2. WarmInv'
  <2>1. WarmInv
    BY Zenon DEF ColdInv
  <2> QED
    BY <2>1, Zenon DEF WarmInv, Vouched
<1> QED
  BY <1>1, <1>2, Zenon DEF ColdInv, ColdTypeOK

(* Any live segment of the current meta.json is there.                     *)
LEMMA CurrentLive ==
    ASSUME ColdTypeOK, StoreInv
    PROVE  \A n \in LiveSegments(meta) : Wal(n) \in objects
<1>1. meta \in Meta
  BY Zenon DEF ColdTypeOK
<1>2. \A n \in LiveSegments(meta) :
        n \in 1..meta.wal_commit_seq /\ ~ (n + WAL_COMPACT_KEEP <= meta.wal_snapshot_seq)
  BY <1>1, MetaFields, ColdAssumption DEF LiveSegments
<1> QED
  BY <1>2, Zenon DEF StoreInv

Askable(q, k) ==
    IF q.pc = "clusters" THEN k = ClusterOf(q.field, q.near)
    ELSE (\E n \in LiveSegments(q.meta) : k = Wal(n)) \/ (k \in objects /\ k[1] # "wal")

(* The keys of a new round.                                                *)
LEMMA AskNext ==
    ASSUME UNCHANGED <<meta, objects>>, query'.pc \in Loading, query'.near \in Coarse,
           query'.pc = "done" => query'.todo = <<>>,
           Vouched(query'.first), Vouched(query'.meta),
           query'.raced \/ \A n \in LiveSegments(query'.meta) : Wal(n) \in objects,
           \A k \in KeySet(query'.todo) : Askable(query', k)
    PROVE  AskInv'
<1>1. query'.pc \notin {"idle", "open", "refresh", "failed"}
  BY DEF Loading
<1>2. Vouched(query.first)' /\ Vouched(query.meta)'
  BY Zenon DEF Vouched
<1>3. \A i \in DOMAIN query'.todo : query'.todo[i] \in KeySet(query'.todo)
  BY Zenon DEF KeySet
<1>4. \A i \in DOMAIN query'.todo :
         IF query'.pc = "clusters" THEN query'.todo[i] = ClusterOf(query'.field, query'.near)
         ELSE \/ \E n \in LiveSegments(query'.meta) : query'.todo[i] = Wal(n)
              \/ query'.todo[i] \in objects' /\ query'.todo[i][1] # "wal"
  BY <1>3, Zenon DEF Askable
<1> QED
  BY <1>1, <1>2, <1>4, Zenon DEF AskInv

(* A query starts with nothing fetched.                                    *)
LEMMA StartQueryKeeps ==
    ASSUME ColdInv, StartQuery PROVE ColdInv'
<1>1. PICK strong \in BOOLEAN, probes \in SUBSET VectorFields, near \in Coarse :
        query' = [NoQuery EXCEPT !.pc = IF view.pinned THEN "refresh" ELSE "open",
                                 !.strong = strong, !.probes = probes, !.near = near, !.left = probes]
  BY Zenon DEF StartQuery
<1> DEFINE pc == IF view.pinned THEN "refresh" ELSE "open"
<1>2. /\ UNCHANGED <<meta, objects, compaction, view, warm>> /\ pc \in {"open", "refresh"}
      /\ view \in [pinned : BOOLEAN, meta : Meta, last_applied : 0..MaxCommits]
  BY Zenon DEF StartQuery, ColdInv, ColdTypeOK
<1>3. NoMeta \in Meta
  BY ColdAssumption DEF NoMeta, Meta
<1> HIDE DEF pc
<1>4. /\ query' \in QueryState /\ query'.pc = pc /\ query'.near = near /\ query'.todo = <<>>
      /\ query'.left = probes /\ query'.probes = probes /\ query'.got = {} /\ ~ query'.opened
  <2>1. query' = [pc |-> pc, strong |-> strong, probes |-> probes, near |-> near, left |-> probes,
                  field |-> "none", opened |-> FALSE, first |-> NoMeta, meta |-> NoMeta, todo |-> <<>>,
                  got |-> {}, rounds |-> 0, keys |-> 0, made |-> {}, gets |-> 0, behind |-> 0, missing |-> <<>>,
                  raced |-> FALSE]
    BY Zenon, <1>1 DEF NoQuery, pc
  <2> HIDE DEF NoMeta
  <2>2. query'.pc = pc /\ query'.near = near /\ query'.todo = <<>>
        /\ query'.left = probes /\ query'.probes = probes /\ query'.got = {} /\ ~ query'.opened
    BY <2>1
  <2>3. query' \in QueryState
    BY <1>2, <1>3, <2>1 DEF QueryState
  <2> QED
    BY <2>2, <2>3, Zenon
<1>5. query'.pc \notin Loading /\ query'.pc \notin {"l1", "clusters", "failed"}
  BY <1>2, <1>4 DEF Loading
<1>6. DOMAIN <<>> = {}
  OBVIOUS
<1>7. AskInv'
  BY <1>4, <1>5, <1>6, Zenon DEF AskInv
<1>8. LoadInv'
  BY <1>4, <1>5, Zenon DEF LoadInv
<1> QED
  BY <1>2, <1>4, <1>7, <1>8, QueryStep, Zenon

(* A query ends.                                                           *)
LEMMA EndQueryKeeps ==
    ASSUME ColdInv, EndQuery PROVE ColdInv'
<1>1. /\ UNCHANGED <<meta, objects, compaction, view, warm>> /\ query' = NoQuery
      /\ view \in [pinned : BOOLEAN, meta : Meta, last_applied : 0..MaxCommits]
  BY Zenon DEF EndQuery, ColdInv, ColdTypeOK
<1>2. NoMeta \in Meta
  BY ColdAssumption DEF NoMeta, Meta
<1> HIDE DEF NoMeta
<1>3. NoQuery \in QueryState
  BY <1>2 DEF NoQuery, QueryState
<1>4. NoQuery.pc = "idle" /\ NoQuery.todo = <<>> /\ NoQuery.got = {} /\ "idle" \notin Loading
  BY DEF NoQuery, Loading
<1>5. DOMAIN <<>> = {}
  OBVIOUS
<1>6. AskInv' /\ LoadInv'
  BY <1>1, <1>4, <1>5 DEF AskInv, LoadInv
<1> QED
  BY <1>1, <1>3, <1>6, QueryStep, Zenon

(* The first read of meta.json, and the WAL round it leads to.             *)
LEMMA OpenMetaKeeps ==
    ASSUME ColdInv, OpenMeta PROVE ColdInv'
<1> DEFINE q == [query EXCEPT !.opened = TRUE, !.first = meta, !.meta = meta, !.rounds = 1,
                             !.made = {<<"meta">>}, !.gets = 1]
           keys == IF query.strong THEN wal_round_keys(meta) ELSE <<>>
<1>1. /\ ColdTypeOK /\ StoreInv /\ AskInv /\ LoadInv /\ query \in QueryState /\ meta \in Meta
      /\ view \in [pinned : BOOLEAN, meta : Meta, last_applied : 0..MaxCommits]
      /\ UNCHANGED <<meta, objects, compaction, view, warm>>
      /\ query.pc = "open" /\ query' = EnterRound(q, "wal", keys)
  BY Zenon DEF OpenMeta, ColdInv, ColdTypeOK
<1>2. Vouched(meta) /\ InOrder(meta)
  BY <1>1, Zenon DEF StoreInv, Vouched, InOrder
<1>3. /\ keys \in Seq(Key) /\ (query.strong => keys = wal_round_keys(meta))
      /\ \A k \in KeySet(keys) : (k = Snapshot /\ Snapshot \in objects) \/ \E n \in LiveSegments(meta) : k = Wal(n)
  <2>1. CASE query.strong
    BY <1>1, <1>2, <2>1, WalRound DEF Vouched
  <2>2. CASE ~ query.strong
    BY <2>2, KeySetOf, Zenon
  <2> QED
    BY <2>1, <2>2, Zenon
<1> HIDE DEF keys
<1>4. /\ q \in QueryState /\ q.first = meta /\ q.meta = meta /\ q.got = query.got /\ q.probes = query.probes
      /\ q.left = query.left /\ q.near = query.near /\ q.strong = query.strong
  BY ZenonT(30), <1>1 DEF QueryState
<1> HIDE DEF q
<1>5. "wal" \in Loading
  BY DEF Loading
<1>6. /\ query' \in QueryState /\ query'.pc = "wal" /\ query'.todo = keys /\ query'.first = meta
      /\ query'.meta = meta /\ query'.got = query.got /\ query'.left = query.left
      /\ query'.probes = query.probes /\ query'.near = query.near /\ query'.strong = query.strong
  BY ZenonT(30), <1>1, <1>3, <1>4, <1>5, EnterFields DEF SameRequest, SameLoad
<1>7. AskInv'
  <2>1. \A n \in LiveSegments(meta) : Wal(n) \in objects
    BY <1>1, CurrentLive, Zenon
  <2>2. Snapshot[1] # "wal"
    BY KeyKinds
  <2>3. \A k \in KeySet(query'.todo) : Askable(query', k)
    BY <1>3, <1>6, <2>2, Zenon DEF Askable
  <2>4. query'.near \in Coarse /\ query'.pc # "done" /\ query'.pc # "clusters"
    BY <1>1, <1>6 DEF AskInv
  <2> QED
    BY <1>1, <1>2, <1>5, <1>6, <2>1, <2>3, <2>4, AskNext, Zenon
<1>8. LoadInv'
  <2>1. query.left = query.probes /\ \A key \in query.got : key[1] = "wal" \/ key \in objects
    BY <1>1 DEF LoadInv
  <2>2. query'.strong => \A key \in KeySet(wal_round_keys(query'.first)) : Has(key)'
    BY <1>3, <1>6, Zenon DEF Has
  <2>3. query'.probes \ query'.left = {}
    BY <1>6, <2>1, Zenon
  <2> QED
    BY <1>1, <1>6, <2>1, <2>2, <2>3 DEF LoadInv
<1> QED
  BY <1>1, <1>6, <1>7, <1>8, QueryStep, Zenon

(* The bootstrap round, from a view in place or from one just made.        *)
LEMMA BootstrapEnters ==
    ASSUME ColdInv, UNCHANGED <<meta, objects>>, NEW q \in QueryState,
           query.pc \in {"refresh", "wal"}, query.todo = <<>>,
           SameRequest(query, q), q.left = query.left, q.got = query.got,
           Vouched(q.first), Vouched(q.meta), q.raced \/ \A n \in LiveSegments(q.meta) : Wal(n) \in objects,
           q.opened => q.first = query.first /\ query.pc = "wal",
           query' = EnterRound(q, "bootstrap", round2_bootstrap_keys(q.meta))
    PROVE  query' \in QueryState /\ AskInv' /\ LoadInv'
<1> DEFINE keys == round2_bootstrap_keys(q.meta)
<1>1. AskInv /\ LoadInv /\ query \in QueryState /\ q.meta \in Meta
  BY DEF ColdInv, ColdTypeOK, QueryState
<1>2. /\ keys \in Seq(Key)
      /\ \A k \in KeySet(keys) : k \in objects /\ k[1] # "wal"
  <2>1. keys \in Seq(Key)
    BY <1>1, BootstrapRound, Zenon
  <2>2. \A k \in KeySet(keys) :
          q.meta.index_cursor > 0 /\ (k = Filter(q.meta.index_cursor) \/ k = Fts(q.meta.index_cursor))
    BY <1>1, BootstrapRound
  <2>3. Filter(q.meta.index_cursor)[1] # "wal" /\ Fts(q.meta.index_cursor)[1] # "wal"
    BY KeyKinds
  <2> QED
    BY <2>1, <2>2, <2>3, Zenon DEF Vouched
<1>3. "bootstrap" \in Loading /\ "wal" \in Loading
  BY DEF Loading
<1>4. /\ query' \in QueryState /\ query'.pc = "bootstrap" /\ query'.todo = keys
      /\ query'.meta = q.meta /\ query'.first = q.first /\ query'.got = query.got /\ query'.left = query.left
      /\ query'.probes = query.probes /\ query'.near = query.near /\ query'.strong = query.strong
      /\ query'.opened = query.opened /\ query'.raced = query.raced /\ q.opened = query.opened
      /\ q.raced = query.raced
  BY ZenonT(30), <1>2, <1>3, EnterFields DEF SameRequest, SameLoad
<1> HIDE DEF keys
<1>5. AskInv'
  <2>1. \A k \in KeySet(query'.todo) : Askable(query', k)
    BY <1>2, <1>4, Zenon DEF Askable
  <2>2. query'.near \in Coarse /\ query'.pc # "done"
    BY <1>1, <1>4 DEF AskInv
  <2> QED
    BY <1>3, <1>4, <2>1, <2>2, AskNext, Zenon
<1>6. LoadInv'
  <2>1. query.left = query.probes /\ \A key \in query.got : key[1] = "wal" \/ key \in objects
    BY <1>1, Zenon DEF LoadInv
  <2>2. \A key : (Has(key) => key \in query.got) /\ (key \in query.got \/ key \in KeySet(keys) => Has(key)')
    BY <1>4, KeySetOf, Zenon DEF Has
  <2>3. query'.strong /\ query'.opened => \A key \in KeySet(wal_round_keys(query'.first)) : Has(key)'
    BY <1>1, <1>3, <1>4, <2>2, Zenon DEF LoadInv
  <2>4. \A key \in KeySet(round2_bootstrap_keys(query'.meta)) : Has(key)'
    BY <1>4, <2>2, Zenon DEF keys
  <2>5. query'.probes \ query'.left = {}
    BY <1>4, <2>1, Zenon
  <2> QED
    BY <1>4, <2>1, <2>3, <2>4, <2>5 DEF LoadInv
<1> QED
  BY <1>4, <1>5, <1>6, Zenon

(* What a refresh of the view sets.                                        *)
LEMMA CaughtUpFields ==
    ASSUME ColdInv, NEW q \in QueryState, NEW last \in 0..MaxCommits
    PROVE  LET r == CaughtUp(q, last) IN
           /\ r \in QueryState /\ r.meta = meta /\ r.first = q.first
           /\ SameRequest(q, r) /\ r.left = q.left /\ r.got = q.got
<1> DEFINE n == q.gets + 1 + (IF q.strong THEN CatchUpReads(last) ELSE 0)
           b == IF q.strong /\ meta.wal_commit_seq > last THEN meta.wal_commit_seq - last ELSE 0
           s == q.made \union {<<"catch_up">>}
           r == [q EXCEPT !.meta = meta, !.made = s, !.gets = n, !.behind = b]
<1>1. CaughtUp(q, last) = r
  BY Zenon DEF CaughtUp
<1>2. meta \in Meta /\ meta.wal_snapshot_seq <= meta.wal_commit_seq
  <2>1. meta \in Meta /\ Vouched(meta)
    BY Zenon DEF ColdInv, ColdTypeOK, StoreInv
  <2> QED
    BY <2>1, MetaFields DEF Vouched
<1>3. CatchUpReads(last) \in Nat /\ b \in Nat
  BY <1>2, MetaFields, ColdAssumption DEF CatchUpReads
<1>4. n \in Nat
  BY <1>3 DEF QueryState
<1>5. s \in SUBSET ({<<x>> : x \in Loading \union {"meta", "catch_up"}} \union {<<"probe", f>> : f \in VectorFields})
  BY Zenon DEF QueryState
<1> HIDE DEF n, b, s
<1>6. r \in QueryState
  BY Zenon, <1>2, <1>3, <1>4, <1>5 DEF QueryState
<1>7. r.meta = meta /\ r.first = q.first /\ SameRequest(q, r) /\ r.left = q.left /\ r.got = q.got
  BY DEF QueryState, SameRequest
<1> QED
  BY <1>1, <1>6, <1>7, Zenon

(* A pinned view is refreshed with the current meta.json.                  *)
LEMMA RefreshKeeps ==
    ASSUME ColdInv, RefreshView PROVE ColdInv'
<1> DEFINE p == [query EXCEPT !.first = meta]
           q == CaughtUp(p, view.last_applied)
           applied == IF query.strong THEN meta.wal_commit_seq ELSE view.last_applied
<1>1. /\ ColdTypeOK /\ StoreInv /\ AskInv /\ LoadInv /\ query \in QueryState /\ meta \in Meta
      /\ view \in [pinned : BOOLEAN, meta : Meta, last_applied : 0..MaxCommits]
      /\ view' = [view EXCEPT !.meta = meta, !.last_applied = applied]
      /\ UNCHANGED <<meta, objects, compaction, warm>>
      /\ query.pc = "refresh" /\ query' = EnterRound(q, "bootstrap", round2_bootstrap_keys(meta))
  BY Zenon DEF RefreshView, ColdInv, ColdTypeOK
<1>2. applied \in 0..MaxCommits
  BY <1>1, MetaFields
<1> HIDE DEF applied
<1>3. view' \in [pinned : BOOLEAN, meta : Meta, last_applied : 0..MaxCommits]
  BY Zenon, <1>1, <1>2
<1>4. /\ q \in QueryState /\ q.first = meta /\ q.meta = meta /\ SameRequest(query, q)
      /\ q.left = query.left /\ q.got = query.got
  <2>1. p \in QueryState /\ p.first = meta /\ SameRequest(query, p) /\ p.left = query.left /\ p.got = query.got
    BY Zenon, <1>1 DEF QueryState, SameRequest
  <2>2. view.last_applied \in 0..MaxCommits
    BY <1>1
  <2> HIDE DEF p
  <2> QED
    BY <2>1, <2>2, CaughtUpFields, Zenon DEF SameRequest
<1>5. ~ q.opened /\ query.todo = <<>>
  BY <1>1, <1>4 DEF AskInv, LoadInv, SameRequest
<1> HIDE DEF q
<1>6. Vouched(q.first) /\ Vouched(q.meta) /\ \A n \in LiveSegments(q.meta) : Wal(n) \in objects
  BY <1>1, <1>4, CurrentLive, Zenon DEF StoreInv
<1>7. query' \in QueryState /\ AskInv' /\ LoadInv'
  BY <1>1, <1>4, <1>5, <1>6, BootstrapEnters, Zenon
<1> QED
  BY <1>1, <1>3, <1>7, QueryStep, Zenon

(* The view is built; a strong query goes on with the meta.json of         *)
(* catch_up.                                                               *)
LEMMA BuildViewKeeps ==
    ASSUME ColdInv, BuildView PROVE ColdInv'
<1> DEFINE m == IF query.strong THEN meta ELSE query.meta
           q == IF query.strong THEN CaughtUp(query, query.first.wal_commit_seq) ELSE query
<1>1. /\ ColdTypeOK /\ StoreInv /\ AskInv /\ query \in QueryState /\ meta \in Meta /\ query.meta \in Meta
      /\ view \in [pinned : BOOLEAN, meta : Meta, last_applied : 0..MaxCommits]
      /\ UNCHANGED <<meta, objects, compaction, warm, view>>
      /\ query.pc = "wal" /\ query.todo = <<>>
      /\ query' = EnterRound(q, "bootstrap", round2_bootstrap_keys(q.meta))
  BY Zenon DEF BuildView, ColdInv, ColdTypeOK, QueryState
<1>2. m \in Meta /\ Vouched(query.first) /\ Vouched(m) /\ (query.raced \/ \A n \in LiveSegments(m) : Wal(n) \in objects)
  <2>1. "wal" \in Loading
    BY DEF Loading
  <2> QED
    BY <1>1, <2>1, CurrentLive, Zenon DEF StoreInv, AskInv
<1>3. /\ q \in QueryState /\ q.meta = m /\ SameRequest(query, q) /\ q.left = query.left /\ q.got = query.got
      /\ q.first = query.first
  <2>1. query.first.wal_commit_seq \in 0..MaxCommits
    BY <1>1, MetaFields DEF QueryState
  <2>2. CASE query.strong
    BY <1>1, <2>1, <2>2, CaughtUpFields, Zenon
  <2>3. CASE ~ query.strong
    BY <1>1, <2>3, Zenon DEF SameRequest
  <2> QED
    BY <2>2, <2>3, Zenon
<1> HIDE DEF m
<1> HIDE DEF q
<1>4. q.raced = query.raced
  BY <1>3, Zenon DEF SameRequest
<1>5. query' \in QueryState /\ AskInv' /\ LoadInv'
  BY <1>1, <1>2, <1>3, <1>4, BootstrapEnters, Zenon
<1> QED
  BY <1>1, <1>5, QueryStep, Zenon

(* A later round: what was fetched stays, and the new keys join it.        *)
LEMMA LaterRound ==
    ASSUME ColdInv, UNCHANGED <<meta, objects>>,
           query.pc \in {"bootstrap", "tail", "l0", "l1", "clusters"}, query.todo = <<>>,
           SameRequest(query, query'), SameLoad(query, query'),
           query'.pc \in {"tail", "l0", "l1", "clusters", "done"},
           query.pc = "bootstrap" => query'.pc = "tail",
           query'.pc = "done" => query'.todo = <<>>,
           \A k \in KeySet(query'.todo) : Askable(query', k),
           query'.pc \in {"tail", "l0"} => query'.left = query'.probes,
           query'.pc \in {"l1", "clusters"} => query'.field \in VectorFields /\ L0(query'.field) \in objects,
           query.pc = "bootstrap" /\ query.strong =>
             \A key \in KeySet(unindexed_wal_tail_keys(query.meta)) : Has(key)',
           query'.pc \in {"l0", "l1", "clusters"} => \A f \in query.meta.vector_fields : Has(L0(f))',
           \A f \in query'.probes \ query'.left :
             /\ Has(L1(f, query.near))'
             /\ query'.near \notin EmptyCells =>
                  Has(ClusterOf(f, query.near))' \/ (query'.pc = "l1" /\ query'.field = f),
           query'.pc = "done" => query'.probes \intersect query'.meta.vector_fields \intersect query'.left = {}
    PROVE  AskInv' /\ LoadInv'
<1>1. AskInv /\ LoadInv
  BY Zenon DEF ColdInv
<1>2. /\ query.pc \in Loading /\ query'.pc \in Loading /\ query.pc # "idle" /\ query.pc # "wal"
      /\ query'.pc \notin {"refresh", "wal", "open", "bootstrap"}
  BY DEF Loading
<1>3. /\ query'.meta = query.meta /\ query'.first = query.first /\ query'.got = query.got
      /\ query'.probes = query.probes /\ query'.near = query.near /\ query'.strong = query.strong
      /\ query'.opened = query.opened /\ query'.raced = query.raced
  BY Zenon DEF SameRequest, SameLoad
<1>4. AskInv'
  <2>1. query'.near \in Coarse /\ Vouched(query'.first) /\ Vouched(query'.meta)
    BY <1>1, <1>2, <1>3, Zenon DEF AskInv
  <2>2. query'.raced \/ \A n \in LiveSegments(query'.meta) : Wal(n) \in objects
    BY <1>1, <1>2, <1>3, Zenon DEF AskInv
  <2> QED
    BY <1>2, <2>1, <2>2, AskNext, Zenon
<1>5. LoadInv'
  <2>1. \A key : Has(key) => Has(key)'
    BY <1>3, KeySetOf, Zenon DEF Has
  <2>2. query'.strong /\ query'.opened => \A key \in KeySet(wal_round_keys(query'.first)) : Has(key)'
    BY <1>1, <1>2, <1>3, <2>1, Zenon DEF LoadInv
  <2>3. \A key \in KeySet(round2_bootstrap_keys(query'.meta)) : Has(key)'
    BY <1>1, <1>2, <1>3, <2>1, Zenon DEF LoadInv
  <2>4. query'.strong => \A key \in KeySet(unindexed_wal_tail_keys(query'.meta)) : Has(key)'
    <3>1. CASE query.pc = "bootstrap"
      BY <1>3, <3>1, Zenon
    <3>2. CASE query.pc \notin {"wal", "bootstrap"}
      BY <1>1, <1>2, <1>3, <2>1, <3>2, Zenon DEF LoadInv
    <3> QED
      BY <1>2, <3>1, <3>2, Zenon
  <2>5. \A key \in query'.got : key[1] = "wal" \/ key \in objects'
    BY <1>1, <1>3, Zenon DEF LoadInv
  <2>6. query'.pc \in {"l0", "l1", "clusters"} => \A f \in query'.meta.vector_fields : Has(L0(f))'
    BY <1>3, Zenon
  <2>7. query'.pc \in {"open", "refresh", "wal", "bootstrap", "tail", "l0"} => query'.left = query'.probes
    BY <1>2
  <2> QED
    BY <1>2, <2>2, <2>3, <2>4, <2>5, <2>6, <2>7, Zenon DEF LoadInv
<1> QED
  BY <1>4, <1>5, Zenon

(* The tail round follows the bootstrap round.                             *)
LEMMA FetchTailKeeps ==
    ASSUME ColdInv, FetchTail PROVE ColdInv'
<1> DEFINE keys == IF query.strong THEN unindexed_wal_tail_keys(query.meta) ELSE <<>>
<1>1. /\ AskInv /\ LoadInv /\ query \in QueryState /\ query.meta \in Meta
      /\ view \in [pinned : BOOLEAN, meta : Meta, last_applied : 0..MaxCommits]
      /\ UNCHANGED <<meta, objects, compaction, warm, view>>
      /\ query.pc = "bootstrap" /\ query.todo = <<>> /\ query' = EnterRound(query, "tail", keys)
  BY Zenon DEF FetchTail, ColdInv, ColdTypeOK, QueryState
<1>2. "bootstrap" \in Loading /\ "tail" \in Loading
  BY DEF Loading
<1>3. InOrder(query.meta)
  BY <1>1, <1>2, Zenon DEF AskInv, Vouched, InOrder
<1>4. /\ keys \in Seq(Key) /\ (query.strong => keys = unindexed_wal_tail_keys(query.meta))
      /\ \A k \in KeySet(keys) : \E n \in LiveSegments(query.meta) : k = Wal(n)
  <2>1. CASE query.strong
    BY <1>1, <1>3, <2>1, TailRound
  <2>2. CASE ~ query.strong
    BY <2>2, KeySetOf, Zenon
  <2> QED
    BY <2>1, <2>2, Zenon
<1> HIDE DEF keys
<1>5. /\ query' \in QueryState /\ query'.pc = "tail" /\ query'.todo = keys /\ SameRequest(query, query')
      /\ SameLoad(query, query') /\ query'.left = query.left
  BY <1>1, <1>2, <1>4, EnterFields
<1>6. query'.probes = query.probes /\ query'.meta = query.meta
  BY <1>5, Zenon DEF SameRequest, SameLoad
<1>7. \A k \in KeySet(query'.todo) : Askable(query', k)
  BY <1>4, <1>5, <1>6, Zenon DEF Askable
<1>8. query'.left = query'.probes
  BY <1>1, <1>5, <1>6, Zenon DEF LoadInv
<1>9. query.strong => \A key \in KeySet(unindexed_wal_tail_keys(query.meta)) : Has(key)'
  BY <1>4, <1>5, Zenon DEF Has
<1>10. query'.probes \ query'.left = {}
  BY <1>8, Zenon
<1>11. query'.pc \notin {"l0", "l1", "clusters", "done"}
  BY <1>5
<1>12. AskInv' /\ LoadInv'
  BY <1>1, <1>5, <1>7, <1>8, <1>9, <1>10, <1>11, LaterRound
<1> QED
  BY <1>1, <1>5, <1>12, QueryStep, Zenon

(* [query EXCEPT !.pc = "done"], after the last round.                     *)
LEMMA DoneFields ==
    ASSUME query \in QueryState, query' = [query EXCEPT !.pc = "done"]
    PROVE  /\ query' \in QueryState /\ query'.pc = "done" /\ SameRequest(query, query') /\ SameLoad(query, query')
           /\ query'.todo = query.todo /\ query'.left = query.left
BY SMTT(30) DEF QueryState, Loading, SameRequest, SameLoad

(* The view is pinned, and the L0 round follows if a field is probed.      *)
LEMMA PinViewKeeps ==
    ASSUME ColdInv, PinView PROVE ColdInv'
<1> DEFINE keys == l0_keys_for_meta(query.meta)
<1>1. /\ AskInv /\ LoadInv /\ query \in QueryState /\ query.meta \in Meta
      /\ view \in [pinned : BOOLEAN, meta : Meta, last_applied : 0..MaxCommits]
      /\ UNCHANGED <<meta, objects, compaction, warm>> /\ query.pc = "tail" /\ query.todo = <<>>
      /\ view' = IF view.pinned THEN view
                 ELSE [pinned |-> TRUE, meta |-> query.meta,
                       last_applied |-> IF query.strong THEN query.meta.wal_commit_seq ELSE 0]
      /\ query' = IF query.probes = {} THEN [query EXCEPT !.pc = "done"] ELSE EnterRound(query, "l0", keys)
  BY Zenon DEF PinView, ColdInv, ColdTypeOK, QueryState
<1>2. view' \in [pinned : BOOLEAN, meta : Meta, last_applied : 0..MaxCommits]
  <2>1. (IF query.strong THEN query.meta.wal_commit_seq ELSE 0) \in 0..MaxCommits
    BY <1>1, MetaFields, ColdAssumption
  <2> QED
    BY <1>1, <2>1
<1>3. "tail" \in Loading /\ "l0" \in Loading
  BY DEF Loading
<1>4. Vouched(query.meta) /\ query.left = query.probes
  BY <1>1, <1>3, Zenon DEF AskInv, LoadInv
<1>5. CASE query.probes = {}
  <2>1. /\ query' \in QueryState /\ query'.pc = "done" /\ SameRequest(query, query') /\ SameLoad(query, query')
        /\ query'.todo = <<>> /\ query'.probes = {}
    BY <1>1, <1>5, DoneFields, Zenon DEF SameRequest
  <2>2. query'.pc \notin {"tail", "l0", "l1", "clusters"}
    BY <2>1
  <2>3. AskInv' /\ LoadInv'
    BY <1>1, <2>1, <2>2, KeySetOf, LaterRound
  <2> QED
    BY <1>1, <1>2, <2>1, <2>3, QueryStep, Zenon
<1>6. CASE query.probes # {}
  <2>1. keys \in Seq(Key) /\ KeySet(keys) = {L0(f) : f \in query.meta.vector_fields}
    BY <1>1, L0Round, Zenon
  <2> HIDE DEF keys
  <2>2. /\ query' \in QueryState /\ query'.pc = "l0" /\ query'.todo = keys /\ SameRequest(query, query')
        /\ SameLoad(query, query') /\ query'.left = query.left
    BY <1>1, <1>3, <1>6, <2>1, EnterFields
  <2>3. query'.probes = query.probes /\ query'.meta = query.meta
    BY <2>2, Zenon DEF SameRequest, SameLoad
  <2>4. \A k \in KeySet(query'.todo) : Askable(query', k)
    <3>1. \A f : L0(f)[1] # "wal"
      BY KeyKinds
    <3> QED
      BY <1>4, <2>1, <2>2, <3>1, Zenon DEF Askable, Vouched
  <2>5. \A f \in query.meta.vector_fields : Has(L0(f))'
    BY <2>1, <2>2, Zenon DEF Has
  <2>6. query'.left = query'.probes /\ query'.probes \ query'.left = {}
    BY <1>4, <2>2, <2>3, Zenon
  <2>7. query'.pc \notin {"l1", "clusters", "done"}
    BY <2>2
  <2>8. AskInv' /\ LoadInv'
    BY <1>1, <2>2, <2>4, <2>5, <2>6, <2>7, LaterRound
  <2> QED
    BY <1>1, <1>2, <2>2, <2>8, QueryStep, Zenon
<1> QED
  BY <1>5, <1>6, Zenon

(* A field whose L0 file came has its L1 files and clusters: an index pass *)
(* puts them first.                                                        *)
LEMMA ProbeFieldKeeps ==
    ASSUME ColdInv, ProbeField PROVE ColdInv'
<1> DEFINE fields == {f \in query.left : L0(f) \in query.got}
<1>1. /\ StoreInv /\ AskInv /\ LoadInv /\ query \in QueryState
      /\ query.meta \in Meta /\ query.left \subseteq VectorFields
      /\ view \in [pinned : BOOLEAN, meta : Meta, last_applied : 0..MaxCommits]
      /\ UNCHANGED <<meta, objects, compaction, warm, view>> /\ query.pc \in {"l0", "clusters"} /\ query.todo = <<>>
  BY Zenon DEF ProbeField, ColdInv, ColdTypeOK, QueryState
<1>2. \/ fields = {} /\ query' = [query EXCEPT !.pc = "done"]
      \/ \E f \in fields : query' = EnterRound([query EXCEPT !.field = f, !.left = query.left \ {f}], "l1",
                                                l1_keys_for_query_probe(f, query.near))
  BY Zenon DEF ProbeField
<1>3. query.pc \in Loading /\ "l1" \in Loading /\ query.pc # "idle" /\ query.pc # "l1"
  BY <1>1 DEF Loading
<1>4. query.near \in Coarse
  BY <1>1, <1>3, Zenon DEF AskInv
<1>5. \A key : Has(key) <=> key \in query.got
  BY <1>1, KeySetOf, Zenon DEF Has
<1>6. /\ \A f \in query.meta.vector_fields : Has(L0(f))
      /\ \A f \in query.probes \ query.left :
           /\ Has(L1(f, query.near))
           /\ query.near \notin EmptyCells => Has(ClusterOf(f, query.near))
  <2>1. query.pc \in {"l0", "l1", "clusters"}
    BY <1>1
  <2> QED
    BY <1>1, <1>3, <2>1, Zenon DEF LoadInv
<1>7. CASE fields = {} /\ query' = [query EXCEPT !.pc = "done"]
  <2>1. /\ query' \in QueryState /\ query'.pc = "done" /\ SameRequest(query, query') /\ SameLoad(query, query')
        /\ query'.todo = <<>> /\ query'.left = query.left
    BY <1>1, <1>7, DoneFields, Zenon
  <2>2. /\ query'.probes = query.probes /\ query'.meta = query.meta /\ query'.near = query.near
        /\ query'.got = query.got
    BY <2>1, Zenon DEF SameRequest, SameLoad
  <2>3. \A f \in query'.probes \ query'.left :
           /\ Has(L1(f, query.near))'
           /\ query'.near \notin EmptyCells => Has(ClusterOf(f, query.near))'
    BY <1>5, <1>6, <2>1, <2>2, Zenon DEF Has
  <2>4. query'.probes \intersect query'.meta.vector_fields \intersect query'.left = {}
    BY <1>5, <1>6, <1>7, <2>1, <2>2, Zenon
  <2>5. query'.pc \notin {"tail", "l0", "l1", "clusters"} /\ query.pc # "bootstrap"
    BY <1>1, <2>1
  <2>6. query.pc \in {"bootstrap", "tail", "l0", "l1", "clusters"}
    BY <1>1
  <2>7. AskInv' /\ LoadInv'
    BY <1>1, <2>1, <2>3, <2>4, <2>5, <2>6, KeySetOf, LaterRound
  <2> QED
    BY <1>1, <2>1, <2>7, QueryStep, Zenon
<1>8. ASSUME NEW f \in fields,
             query' = EnterRound([query EXCEPT !.field = f, !.left = query.left \ {f}], "l1",
                                 l1_keys_for_query_probe(f, query.near))
      PROVE  ColdInv'
  <2> DEFINE q == [query EXCEPT !.field = f, !.left = query.left \ {f}]
             l1 == L1(f, query.near)
  <2>1. f \in VectorFields /\ L0(f) \in query.got /\ L0(f)[1] # "wal" /\ l1[1] # "wal"
    BY <1>1, KeyKinds
  <2>2. L0(f) \in objects /\ l1 \in objects /\ l1 \in Key
    BY <1>1, <1>4, <2>1, KeyTypes, Zenon DEF LoadInv, StoreInv
  <2>3. l1_keys_for_query_probe(f, query.near) = <<l1>>
    BY Zenon DEF l1_keys_for_query_probe
  <2> HIDE DEF l1
  <2>4. q \in QueryState /\ q.field = f /\ q.left = query.left \ {f} /\ SameRequest(query, q) /\ SameLoad(query, q)
    BY Zenon, <1>1, <2>1 DEF QueryState, SameRequest, SameLoad
  <2>5. query' = EnterRound(q, "l1", <<l1>>)
    BY <1>8, <2>3, Zenon
  <2> HIDE DEF q
  <2>6. <<l1>> \in Seq(Key) /\ KeySet(<<l1>>) = {l1}
    BY <2>2, KeySetOf, Zenon
  <2>7. /\ query' \in QueryState /\ query'.pc = "l1" /\ query'.todo = <<l1>> /\ query'.left = query.left \ {f}
        /\ query'.field = f /\ SameRequest(query, query') /\ SameLoad(query, query')
    <3> DEFINE keys == <<l1>>
    <3>0. keys \in Seq(Key) /\ query' = EnterRound(q, "l1", keys)
      BY <2>5, <2>6, Zenon
    <3> HIDE DEF keys
    <3>1. /\ query' \in QueryState /\ query'.pc = "l1" /\ query'.todo = keys /\ query'.left = q.left
          /\ query'.field = q.field /\ SameRequest(q, query') /\ SameLoad(q, query')
      BY <1>3, <2>4, <3>0, EnterFields
    <3>2. SameRequest(query, query') /\ SameLoad(query, query')
      BY <2>4, <3>1, Zenon DEF SameRequest, SameLoad
    <3> QED
      BY <2>4, <3>1, <3>2, Zenon DEF keys
  <2>8. /\ query'.probes = query.probes /\ query'.meta = query.meta /\ query'.near = query.near
        /\ query'.got = query.got
    BY <2>7, Zenon DEF SameRequest, SameLoad
  <2>9. \A k \in KeySet(query'.todo) : Askable(query', k)
    BY <2>1, <2>2, <2>6, <2>7, Zenon DEF Askable
  <2>10. \A key : Has(key) => Has(key)'
    BY <1>5, <2>8, Zenon DEF Has
  <2>11. \A g \in query.meta.vector_fields : Has(L0(g))'
    BY <1>6, <2>10, Zenon
  <2>12. \A g \in query'.probes \ query'.left :
           /\ Has(L1(g, query.near))'
           /\ query'.near \notin EmptyCells =>
                Has(ClusterOf(g, query.near))' \/ (query'.pc = "l1" /\ query'.field = g)
    <3>1. Has(L1(f, query.near))'
      BY <2>6, <2>7, <2>8, Zenon DEF Has, l1
    <3>2. \A g \in query'.probes \ query'.left : g = f \/ g \in query.probes \ query.left
      BY <2>7, <2>8, Zenon
    <3> QED
      BY <1>6, <2>7, <2>8, <2>10, <3>1, <3>2, Zenon
  <2>13. query'.pc \notin {"tail", "l0", "done"} /\ query.pc # "bootstrap"
    BY <1>1, <2>7
  <2>14. query.pc \in {"bootstrap", "tail", "l0", "l1", "clusters"}
    BY <1>1
  <2>15. AskInv' /\ LoadInv'
    BY <1>1, <2>1, <2>2, <2>7, <2>9, <2>11, <2>12, <2>13, <2>14, LaterRound
  <2> QED
    BY <1>1, <2>7, <2>15, QueryStep, Zenon
<1> QED
  BY <1>2, <1>7, <1>8, Zenon

(* The clusters follow the L1 files.                                       *)
LEMMA FetchClustersKeeps ==
    ASSUME ColdInv, FetchClusters PROVE ColdInv'
<1> DEFINE f == query.field
           cluster == ClusterOf(f, query.near)
<1>1. /\ AskInv /\ LoadInv /\ query \in QueryState
      /\ view \in [pinned : BOOLEAN, meta : Meta, last_applied : 0..MaxCommits]
      /\ UNCHANGED <<meta, objects, compaction, warm, view>> /\ query.pc = "l1" /\ query.todo = <<>>
      /\ query' = EnterRound(query, "clusters", <<cluster>>)
  BY Zenon DEF FetchClusters, cluster_keys_for_query, ColdInv, ColdTypeOK
<1>2. query.pc \in Loading /\ "clusters" \in Loading /\ query.pc # "idle"
  BY <1>1 DEF Loading
<1>3. f \in VectorFields /\ L0(f) \in objects /\ query.near \in Coarse
  BY <1>1, <1>2, Zenon DEF AskInv, LoadInv
<1>4. cluster \in Key
  BY <1>3, KeyTypes, Zenon
<1> HIDE DEF cluster
<1>5. <<cluster>> \in Seq(Key) /\ KeySet(<<cluster>>) = {cluster}
  BY <1>4, KeySetOf, Zenon
<1>6. /\ query' \in QueryState /\ query'.pc = "clusters" /\ query'.todo = <<cluster>> /\ query'.left = query.left
      /\ query'.field = f /\ SameRequest(query, query') /\ SameLoad(query, query')
  <2> DEFINE keys == <<cluster>>
  <2>1. keys \in Seq(Key) /\ query' = EnterRound(query, "clusters", keys)
    BY <1>1, <1>5, Zenon DEF cluster
  <2> HIDE DEF keys
  <2>2. /\ query' \in QueryState /\ query'.pc = "clusters" /\ query'.todo = keys /\ query'.left = query.left
        /\ query'.field = f /\ SameRequest(query, query') /\ SameLoad(query, query')
    BY <1>1, <1>2, <2>1, EnterFields
  <2> QED
    BY <2>2, Zenon DEF keys
<1>7. /\ query'.probes = query.probes /\ query'.meta = query.meta /\ query'.near = query.near
      /\ query'.got = query.got
  BY <1>6, Zenon DEF SameRequest, SameLoad
<1>8. \A k \in KeySet(query'.todo) : Askable(query', k)
  BY <1>5, <1>6, <1>7, Zenon DEF Askable, cluster
<1>9. \A key : Has(key) => Has(key)'
  BY <1>1, <1>7, KeySetOf, Zenon DEF Has
<1>10. /\ \A g \in query.meta.vector_fields : Has(L0(g))
       /\ \A g \in query.probes \ query.left :
            /\ Has(L1(g, query.near))
            /\ query.near \notin EmptyCells => Has(ClusterOf(g, query.near)) \/ g = f
  BY <1>1, <1>2, Zenon DEF LoadInv
<1>11. \A g \in query.meta.vector_fields : Has(L0(g))'
  BY <1>9, <1>10, Zenon
<1>12. Has(ClusterOf(f, query.near))'
  <2>1. cluster \in KeySet(query'.todo) /\ ClusterOf(f, query'.near) = cluster /\ query'.field = f
    BY <1>5, <1>6, <1>7, Zenon DEF cluster
  <2> QED
    BY <2>1, Zenon DEF Has
<1>13. \A g \in query'.probes \ query'.left :
         /\ Has(L1(g, query.near))'
         /\ query'.near \notin EmptyCells => Has(ClusterOf(g, query.near))'
  BY <1>6, <1>7, <1>9, <1>10, <1>12, Zenon
<1>14. query'.pc \notin {"tail", "l0", "done"} /\ query.pc # "bootstrap"
  BY <1>1, <1>6
<1>15. AskInv' /\ LoadInv'
  BY <1>1, <1>3, <1>6, <1>8, <1>11, <1>13, <1>14, LaterRound
<1> QED
  BY <1>1, <1>6, <1>15, QueryStep, Zenon

-----------------------------------------------------------------------------
(* A sub-batch of a round.                                                 *)

(* A query that has keys to fetch is in one of its rounds.                 *)
LEMMA Fetching ==
    ASSUME query \in QueryState, AskInv, LoadInv, query.todo # <<>>
    PROVE  /\ query.pc \in Loading /\ query.pc \notin {"refresh", "failed", "done"}
           /\ {RoundOf(query)} \subseteq
                {<<r>> : r \in Loading \union {"meta", "catch_up"}} \union {<<"probe", f>> : f \in VectorFields}
<1>1. query.pc \in Loading /\ query.pc \notin {"refresh", "failed", "done"}
  BY DEF QueryState, AskInv, Loading
<1>2. CASE query.pc \in {"l1", "clusters"}
  <2>1. RoundOf(query) = <<"probe", query.field>> /\ query.field \in VectorFields
    BY <1>2, Zenon DEF LoadInv, RoundOf
  <2> QED
    BY <1>1, <2>1, Zenon
<1>3. CASE query.pc \notin {"l1", "clusters"}
  <2>1. RoundOf(query) = <<query.pc>> /\ query.pc \in Loading \union {"meta", "catch_up"}
    BY <1>1, <1>3, Zenon DEF RoundOf
  <2> QED
    BY <1>1, <2>1, Zenon
<1> QED
  BY <1>1, <1>2, <1>3, Zenon

(* The query after a sub-batch, all of which it found or may do without.   *)
Fetched(q, rest, got, made, gets) == [q EXCEPT !.todo = rest, !.got = got, !.made = made, !.gets = gets]

(* What a sub-batch changes.                                               *)
LEMMA FetchedFields ==
    ASSUME NEW q \in QueryState, NEW rest \in Seq(Key), NEW got \in SUBSET Key, NEW gets \in Nat,
           NEW made \in SUBSET ({<<r>> : r \in Loading \union {"meta", "catch_up"}} \union {<<"probe", f>> : f \in VectorFields})
    PROVE  LET r == Fetched(q, rest, got, made, gets) IN
           /\ r \in QueryState /\ r.todo = rest /\ r.got = got /\ r.pc = q.pc
           /\ SameRequest(q, r) /\ r.first = q.first /\ r.meta = q.meta /\ r.left = q.left /\ r.field = q.field
<1>1. Fetched(q, rest, got, made, gets) \in QueryState
  BY Zenon DEF QueryState, Fetched
<1>2. LET r == Fetched(q, rest, got, made, gets) IN
      /\ r.todo = rest /\ r.got = got /\ r.pc = q.pc
      /\ SameRequest(q, r) /\ r.first = q.first /\ r.meta = q.meta /\ r.left = q.left /\ r.field = q.field
  BY DEF QueryState, Fetched, SameRequest
<1> QED
  BY <1>1, <1>2, Zenon

(* What a failed sub-batch changes.                                        *)
LEMMA FailedFields ==
    ASSUME NEW q \in QueryState, NEW key \in Key
    PROVE  LET r == [q EXCEPT !.pc = "failed", !.todo = <<>>, !.missing = key] IN
           /\ r \in QueryState /\ r.pc = "failed" /\ r.todo = <<>> /\ r.missing = key
           /\ r.got = q.got /\ r.near = q.near /\ r.raced = q.raced
<1> DEFINE r == [q EXCEPT !.pc = "failed", !.todo = <<>>, !.missing = key]
<1>1. <<>> \in Seq(Key)
  OBVIOUS
<1>2. r \in QueryState
  BY Zenon, <1>1 DEF QueryState
<1>3. /\ r.pc = "failed" /\ r.todo = <<>> /\ r.missing = key
      /\ r.got = q.got /\ r.near = q.near /\ r.raced = q.raced
  BY DEF QueryState
<1> QED
  BY <1>2, <1>3, Zenon

(* A sub-batch brings every key but a cluster that was never written; it   *)
(* fails only on a segment that a compaction deleted.                      *)
LEMMA FetchKeeps ==
    ASSUME ColdInv, fetch_round_batch PROVE ColdInv'
<1> DEFINE chunk == Chunk(query.todo)
           rest == SubSeq(query.todo, Len(chunk) + 1, Len(query.todo))
           got == query.got \union (KeySet(chunk) \intersect objects)
           made == query.made \union {RoundOf(query)}
           gets == query.gets + Len(chunk)
           absent == {i \in DOMAIN chunk : chunk[i] \notin objects}
           q == Fetched(query, rest, got, made, gets)
<1>1. /\ ColdTypeOK /\ StoreInv /\ AskInv /\ LoadInv /\ query \in QueryState /\ meta \in Meta /\ objects \subseteq Key
      /\ view \in [pinned : BOOLEAN, meta : Meta, last_applied : 0..MaxCommits]
      /\ UNCHANGED <<meta, objects, compaction, warm, view>> /\ query.todo # <<>>
  BY Zenon DEF fetch_round_batch, ColdInv, ColdTypeOK
<1>2. /\ query.first \in Meta /\ query.meta \in Meta /\ query.todo \in Seq(Key) /\ query.got \subseteq Key
      /\ query.gets \in Nat
      /\ query.made \subseteq ({<<r>> : r \in Loading \union {"meta", "catch_up"}} \union {<<"probe", f>> : f \in VectorFields})
  BY <1>1, Zenon DEF QueryState
<1>3. IF absent = {} \/ query.pc = "clusters" THEN query' = q
      ELSE \E i \in absent : query' = [q EXCEPT !.pc = "failed", !.todo = <<>>, !.missing = chunk[i]]
  BY Zenon DEF fetch_round_batch, Fetched
<1>4. /\ chunk \in Seq(Key) /\ rest \in Seq(Key) /\ KeySet(query.todo) = KeySet(chunk) \union KeySet(rest)
      /\ \A i \in DOMAIN chunk : i \in DOMAIN query.todo /\ chunk[i] = query.todo[i]
  BY <1>1, <1>2, ChunkSplits
<1>5. Len(chunk) \in Nat /\ \A i \in DOMAIN chunk : chunk[i] \in Key
  BY <1>4
<1>6. query.pc \in Loading /\ query.pc \notin {"refresh", "failed", "done"}
  BY <1>1, Fetching, Zenon
<1>7. /\ got \in SUBSET Key /\ gets \in Nat
      /\ made \in SUBSET ({<<r>> : r \in Loading \union {"meta", "catch_up"}} \union {<<"probe", f>> : f \in VectorFields})
  <2>1. gets \in Nat
    BY <1>2, <1>5
  <2> QED
    BY <1>1, <1>2, <2>1, Fetching, Zenon
<1>8. \A k \in KeySet(query.todo) : Askable(query, k)
  BY <1>1, Zenon DEF AskInv, Askable, KeySet
<1> HIDE DEF chunk, rest, got, made, gets
<1>9. /\ q \in QueryState /\ q.todo = rest /\ q.got = got /\ q.pc = query.pc
      /\ SameRequest(query, q) /\ q.first = query.first /\ q.meta = query.meta
      /\ q.left = query.left /\ q.field = query.field
  BY <1>1, <1>4, <1>7, FetchedFields
<1> HIDE DEF q
<1>10. \A key \in got : key[1] = "wal" \/ key \in objects
  BY <1>1, Zenon DEF LoadInv, got
<1>11. query.near \in Coarse /\ query.pc # "idle"
  <2>1. query.pc # "idle"
    BY <1>6 DEF Loading
  <2> QED
    BY <1>1, <2>1, Zenon DEF AskInv
<1>12. CASE query' = q /\ (absent = {} \/ query.pc = "clusters")
  <2>1. /\ query'.probes = query.probes /\ query'.near = query.near /\ query'.strong = query.strong
        /\ query'.opened = query.opened /\ query'.raced = query.raced
    BY <1>9, <1>12, Zenon DEF SameRequest
  <2>2. AskInv'
    <3>1. \A k \in KeySet(query'.todo) : Askable(query', k)
      BY <1>4, <1>8, <1>9, <1>12, <2>1, Zenon DEF Askable
    <3>2. /\ Vouched(query'.first) /\ Vouched(query'.meta)
          /\ query'.raced \/ \A n \in LiveSegments(query'.meta) : Wal(n) \in objects
      BY <1>1, <1>6, <1>9, <1>12, <2>1, Zenon DEF AskInv
    <3>3. query'.pc \in Loading /\ query'.pc # "done" /\ query'.near \in Coarse
      BY <1>6, <1>9, <1>11, <1>12, <2>1, Zenon
    <3> QED
      BY <1>1, <3>1, <3>2, <3>3, AskNext, Zenon
  <2>3. \A key : Has(key) => Has(key)' \/ (query.near \in EmptyCells /\ key[1] = "cluster")
    <3> SUFFICES ASSUME NEW key, Has(key), ~ Has(key)' PROVE query.near \in EmptyCells /\ key[1] = "cluster"
      BY Zenon
    <3>1. key \in KeySet(chunk) /\ key \notin objects
      BY <1>4, <1>9, <1>12, Zenon DEF Has, got
    <3>2. query.pc = "clusters"
      BY <1>12, <3>1, Zenon DEF KeySet
    <3>3. key = ClusterOf(query.field, query.near)
      BY <1>4, <1>8, <3>1, <3>2, Zenon DEF Askable
    <3>4. query.field \in VectorFields /\ L0(query.field) \in objects
      BY <1>1, <3>2, Zenon DEF LoadInv
    <3>5. query.near \notin EmptyCells => ClusterOf(query.field, query.near) \in objects
      BY <1>1, <1>11, <3>4, Zenon DEF StoreInv
    <3>6. key[1] = "cluster"
      BY ZenonT(30), <3>3, KeyKinds
    <3> QED
      BY <3>1, <3>3, <3>5, <3>6, Zenon
  <2>4. LoadInv'
    <3>1. InOrder(query.first) /\ InOrder(query.meta)
      BY <1>1, <1>6, Zenon DEF AskInv, Vouched, InOrder
    <3>2. query.strong /\ query.opened => \A key \in KeySet(wal_round_keys(query.first)) : Has(key)'
      <4>1. \A key \in KeySet(wal_round_keys(query.first)) : key[1] # "cluster"
        BY <1>2, <3>1, WalRound, KeyKinds
      <4> QED
        BY <1>1, <1>6, <2>3, <4>1, Zenon DEF LoadInv
    <3>3. query.pc # "wal" => \A key \in KeySet(round2_bootstrap_keys(query.meta)) : Has(key)'
      <4>1. \A key \in KeySet(round2_bootstrap_keys(query.meta)) : key[1] # "cluster"
        <5>1. query.meta \in Meta
          BY <1>2, Zenon
        <5> QED
          BY ONLY <5>1, BootstrapRound, KeyKinds
      <4> QED
        BY <1>1, <1>6, <2>3, <4>1, Zenon DEF LoadInv
    <3>4. query.pc \notin {"wal", "bootstrap"} /\ query.strong =>
            \A key \in KeySet(unindexed_wal_tail_keys(query.meta)) : Has(key)'
      <4>1. \A key \in KeySet(unindexed_wal_tail_keys(query.meta)) : key[1] # "cluster"
        BY <1>2, <3>1, TailRound, KeyKinds
      <4> QED
        BY <1>1, <1>6, <2>3, <4>1, Zenon DEF LoadInv
    <3>5. \A f, c : L0(f)[1] # "cluster" /\ L1(f, c)[1] # "cluster"
      BY KeyKinds
    <3>6. query.pc \in {"l0", "l1", "clusters"} => \A f \in query.meta.vector_fields : Has(L0(f))'
      BY <1>1, <1>6, <2>3, <3>5, Zenon DEF LoadInv
    <3>7. \A f \in query.probes \ query.left :
            /\ Has(L1(f, query.near))'
            /\ query.near \notin EmptyCells =>
                 Has(ClusterOf(f, query.near))' \/ (query.pc = "l1" /\ query.field = f)
      <4>1. \A f \in query.probes \ query.left :
              /\ Has(L1(f, query.near))
              /\ query.near \notin EmptyCells =>
                   Has(ClusterOf(f, query.near)) \/ (query.pc = "l1" /\ query.field = f)
        BY <1>1, <1>6, Zenon DEF LoadInv
      <4>2. query'.near = query.near
        BY <2>1, Zenon
      <4> QED
        BY <2>3, <3>5, <4>1, <4>2, Zenon
    <3>8. /\ query'.pc = query.pc /\ query'.first = query.first /\ query'.meta = query.meta
          /\ query'.left = query.left /\ query'.field = query.field
      BY <1>9, <1>12, Zenon
    <3>9. \A key \in query'.got : key[1] = "wal" \/ key \in objects'
      BY <1>1, <1>9, <1>10, <1>12, Zenon
    <3>10. query.pc # "done" /\ query.pc # "refresh"
      BY <1>6
    <3> QED
      BY <1>1, <2>1, <3>2, <3>3, <3>4, <3>6, <3>7, <3>8, <3>9, <3>10, Zenon DEF LoadInv
  <2> QED
    BY <1>1, <1>9, <1>12, <2>2, <2>4, QueryStep, Zenon
<1>13. ASSUME query.pc # "clusters", NEW i \in absent,
              query' = [q EXCEPT !.pc = "failed", !.todo = <<>>, !.missing = chunk[i]]
       PROVE  ColdInv'
  <2>1. /\ query' \in QueryState /\ query'.pc = "failed" /\ query'.todo = <<>> /\ query'.missing = chunk[i]
        /\ query'.got = got /\ query'.near = query.near /\ query'.raced = query.raced
    <3>1. chunk[i] \in Key
      BY <1>5, Zenon
    <3>2. q.near = query.near /\ q.raced = query.raced
      BY <1>9, Zenon DEF SameRequest
    <3> QED
      BY ZenonT(30), <1>9, <1>13, <3>1, <3>2, FailedFields
  <2>2. PICK n \in LiveSegments(query.meta) : chunk[i] = Wal(n)
    <3>1. chunk[i] \in KeySet(query.todo) /\ chunk[i] \notin objects
      BY <1>4, Zenon DEF KeySet
    <3> QED
      BY <1>8, <1>13, <3>1, Zenon DEF Askable
  <2>3. Wal(n) \notin objects /\ query.raced
    <3>1. Wal(n) \notin objects
      BY <2>2, Zenon
    <3> QED
      BY <1>1, <1>6, <3>1, Zenon DEF AskInv
  <2>4. n \in 1..MaxCommits /\ n \in 1..meta.wal_commit_seq
    <3>1. Vouched(query.meta)
      BY <1>1, <1>6, Zenon DEF AskInv
    <3> QED
      BY SMTT(30), <1>1, <1>2, <3>1, MetaFields, ColdAssumption DEF LiveSegments, Vouched
  <2>5. n + WAL_COMPACT_KEEP <= meta.wal_snapshot_seq
    BY <1>1, <2>3, <2>4, Zenon DEF StoreInv
  <2>6. query'.pc \notin Loading /\ query'.pc \notin {"open", "refresh", "wal", "bootstrap", "tail", "l0", "l1", "clusters"}
    BY <2>1 DEF Loading
  <2>7. DOMAIN <<>> = {}
    OBVIOUS
  <2>8. AskInv'
    BY <1>1, <1>11, <2>1, <2>2, <2>3, <2>4, <2>5, <2>6, <2>7, Zenon DEF AskInv
  <2>9. LoadInv'
    BY <1>1, <1>10, <2>1, <2>6, Zenon DEF LoadInv
  <2> QED
    BY <1>1, <2>1, <2>8, <2>9, QueryStep, Zenon
<1> QED
  BY <1>3, <1>12, <1>13, Zenon

-----------------------------------------------------------------------------
(* The warm call.                                                          *)

(* The elements of two lists, one after the other.                         *)
LEMMA JoinFields ==
    ASSUME NEW s \in Seq(Key), NEW t \in Seq(Key)
    PROVE  /\ DOMAIN (s \o t) = 1..Len(s) + Len(t) /\ Len(s) \in Nat /\ Len(t) \in Nat
           /\ \A i \in 1..Len(s) + Len(t) :
                (s \o t)[i] = IF i <= Len(s) THEN s[i] ELSE t[i - Len(s)]
OBVIOUS

(* A list of keys without repetition counts its keys.                      *)
LEMMA KeysCount ==
    ASSUME NEW s \in Seq(Key), \A i, j \in 1..Len(s) : s[i] = s[j] => i = j
    PROVE  Cardinality(KeySet(s)) = Len(s) /\ IsFiniteSet(KeySet(s))
<1>1. Len(s) \in Nat /\ DOMAIN s = 1..Len(s) /\ s \in [1..Len(s) -> KeySet(s)]
  BY DEF KeySet
<1>2. s \in Bijection(1..Len(s), KeySet(s))
  BY <1>1, Zenon DEF Bijection, Injection, Surjection, IsInjective, KeySet
<1>3. IsFiniteSet(1..Len(s)) /\ Cardinality(1..Len(s)) = Len(s)
  BY SMTT(30), <1>1, FS_Interval
<1>4. ExistsBijection(1..Len(s), KeySet(s))
  BY <1>2, Zenon DEF ExistsBijection
<1> QED
  BY <1>3, <1>4, FS_Bijection

(* The WAL objects that a warm call asks for: the snapshot, and the newest *)
(* of the live segments.                                                   *)
LEMMA WarmKeys ==
    ASSUME NEW m \in Meta, InOrder(m)
    PROVE  LET keys == wal_keys_for_warm(m) IN
           /\ keys \in Seq(Key) /\ Cardinality(KeySet(keys)) = Len(keys)
           /\ \A k \in KeySet(keys) :
                (k = Snapshot /\ m.wal_snapshot_seq > 0) \/ \E n \in LiveSegments(m) : k = Wal(n)
           /\ \A n \in LiveSegments(m) : Wal(n) \in KeySet(keys) \/ n + WAL_WARM_MAX_SEGMENTS <= m.wal_commit_seq
<1> DEFINE to == m.wal_commit_seq
           span == IF m.wal_commit_seq + 1 - wal_commit_replay_from(m) > WAL_WARM_MAX_SEGMENTS
                   THEN WAL_WARM_MAX_SEGMENTS ELSE m.wal_commit_seq + 1 - wal_commit_replay_from(m)
           from == m.wal_commit_seq + 1 - span
           head == SnapshotKey(m)
           tail == WalRange(from, to)
           keys == wal_keys_for_warm(m)
<1>1. wal_commit_replay_from(m) = m.wal_snapshot_seq + 1
  BY MetaFields DEF wal_commit_replay_from
<1>2. keys = head \o tail
  BY Zenon DEF wal_keys_for_warm
<1>3. /\ from \in 1..MaxCommits + 1 /\ to \in 0..MaxCommits /\ from <= to + 1
      /\ \A n \in from..to : n \in LiveSegments(m)
      /\ \A n \in LiveSegments(m) : n \in from..to \/ n + WAL_WARM_MAX_SEGMENTS <= to
  BY <1>1, MetaFields, ColdAssumption DEF InOrder, LiveSegments
<1> HIDE DEF from, to, span
<1>4. /\ tail \in Seq(Key) /\ Len(tail) = to + 1 - from /\ KeySet(tail) = {Wal(n) : n \in from..to}
      /\ \A i \in 1..(to + 1 - from) : tail[i] = Wal(from + i - 1)
  BY <1>3, WalRangeKeys
<1>5. /\ head \in Seq(Key) /\ KeySet(head) = (IF m.wal_snapshot_seq > 0 THEN {Snapshot} ELSE {})
      /\ Len(head) \in {0, 1} /\ \A i \in 1..Len(head) : head[i] = Snapshot
  <2>1. CASE m.wal_snapshot_seq > 0
    <3>1. head = <<Snapshot>>
      BY <2>1, Zenon DEF SnapshotKey
    <3>2. Len(<<Snapshot>>) = 1 /\ \A i \in 1..1 : <<Snapshot>>[i] = Snapshot
      OBVIOUS
    <3> QED
      BY Zenon, <3>1, <3>2, SnapshotKeys
  <2>2. CASE ~ (m.wal_snapshot_seq > 0)
    <3>1. head = <<>>
      BY <2>2, Zenon DEF SnapshotKey
    <3>2. Len(<<>>) = 0 /\ 1..0 = {}
      OBVIOUS
    <3> QED
      BY <3>1, <3>2, SnapshotKeys
  <2> QED
    BY <2>1, <2>2, Zenon
<1> HIDE DEF head, tail
<1>6. keys \in Seq(Key) /\ KeySet(keys) = KeySet(head) \union KeySet(tail) /\ Len(keys) = Len(head) + Len(tail)
  BY Zenon, <1>2, <1>4, <1>5, KeySetJoin
<1>7. \A i, j \in 1..Len(keys) : keys[i] = keys[j] => i = j
  <2> SUFFICES ASSUME NEW i \in 1..Len(keys), NEW j \in 1..Len(keys), keys[i] = keys[j] PROVE i = j
    BY Zenon
  <2>1. /\ keys[i] = IF i <= Len(head) THEN head[i] ELSE tail[i - Len(head)]
        /\ keys[j] = IF j <= Len(head) THEN head[j] ELSE tail[j - Len(head)]
    BY <1>2, <1>4, <1>5, <1>6, JoinFields
  <2>2. /\ i \in Int /\ j \in Int /\ from \in Int
        /\ IF i <= Len(head) THEN keys[i] = Snapshot ELSE keys[i] = Wal(from + (i - Len(head)) - 1)
        /\ IF j <= Len(head) THEN keys[j] = Snapshot ELSE keys[j] = Wal(from + (j - Len(head)) - 1)
    <3>1. Len(keys) = Len(head) + (to + 1 - from) /\ Len(head) \in Nat /\ from \in Int /\ to \in Int
      BY <1>3, <1>4, <1>5, <1>6
    <3>2. \A a \in 1..Len(keys) : IF a <= Len(head) THEN a \in 1..Len(head) ELSE a - Len(head) \in 1..(to + 1 - from)
      BY <3>1
    <3>3. i \in Int /\ j \in Int
      BY <3>1
    <3> QED
      BY <1>4, <1>5, <2>1, <3>1, <3>2, <3>3, Zenon
  <2>3. \A a : Wal(a) # Snapshot /\ Wal(a)[2] = a
    BY KeyKinds
  <2>4. CASE i <= Len(head)
    <3>1. j <= Len(head)
      BY <2>2, <2>3, <2>4
    <3> QED
      BY <1>5, <2>2, <2>4, <3>1
  <2>5. CASE ~ (i <= Len(head))
    <3>1. ~ (j <= Len(head))
      BY <2>2, <2>3, <2>5
    <3>2. from + (i - Len(head)) - 1 = from + (j - Len(head)) - 1
      BY <2>2, <2>3, <2>5, <3>1
    <3> QED
      BY <1>5, <2>2, <3>2
  <2> QED
    BY <2>4, <2>5, Zenon
<1>8. Cardinality(KeySet(keys)) = Len(keys)
  BY <1>6, <1>7, KeysCount, Zenon
<1>9. \A k \in KeySet(keys) :
        (k = Snapshot /\ m.wal_snapshot_seq > 0) \/ \E n \in LiveSegments(m) : k = Wal(n)
  BY <1>3, <1>4, <1>5, <1>6, Zenon
<1>10. \A n \in LiveSegments(m) : Wal(n) \in KeySet(keys) \/ n + WAL_WARM_MAX_SEGMENTS <= m.wal_commit_seq
  BY <1>3, <1>4, <1>6, Zenon DEF to
<1> QED
  BY <1>6, <1>8, <1>9, <1>10, Zenon

(* A step of the warm call is judged by the warm call alone.               *)
LEMMA WarmStep ==
    ASSUME ColdInv, UNCHANGED <<meta, objects, compaction, query>>, warm' \in WarmState,
           view' \in [pinned : BOOLEAN, meta : Meta, last_applied : 0..MaxCommits], WarmInv'
    PROVE  ColdInv'
<1>1. StoreInv'
  BY Zenon DEF ColdInv, StoreInv, Vouched
<1>2. AskInv'
  <2>1. AskInv
    BY Zenon DEF ColdInv
  <2> QED
    BY <2>1, Zenon DEF AskInv, Vouched
<1>3. LoadInv'
  <2>1. LoadInv
    BY Zenon DEF ColdInv
  <2>2. \A key : Has(key)' <=> Has(key)
    BY Zenon DEF Has
  <2> QED
    BY <2>1, <2>2, Zenon DEF LoadInv
<1> QED
  BY <1>1, <1>2, <1>3, Zenon DEF ColdInv, ColdTypeOK

(* A warm call starts from the current meta.json.                          *)
LEMMA StartWarmKeeps ==
    ASSUME ColdInv, StartWarm PROVE ColdInv'
<1>1. /\ ColdTypeOK /\ StoreInv /\ meta \in Meta /\ warm' = [NoWarm EXCEPT !.pc = "index", !.meta = meta]
      /\ view' \in [pinned : BOOLEAN, meta : Meta, last_applied : 0..MaxCommits]
      /\ UNCHANGED <<meta, objects, compaction, query>>
  BY Zenon DEF StartWarm, ColdInv, ColdTypeOK
<1>2. warm' \in WarmState /\ warm'.pc = "index" /\ warm'.meta = meta
  <2>1. warm' = [pc |-> "index", meta |-> meta, todo |-> <<>>, got |-> {}, wal_segments |-> 0, raced |-> FALSE]
    BY Zenon, <1>1 DEF NoWarm
  <2>2. <<>> \in Seq(Key) /\ 0 \in Nat /\ {} \subseteq Key /\ FALSE \in BOOLEAN
    OBVIOUS
  <2>3. meta \in Meta
    BY <1>1, Zenon
  <2>4. warm' \in WarmState
    BY <2>1, <2>2, <2>3 DEF WarmState
  <2> QED
    BY <2>1, <2>4
<1>3. Vouched(meta)'
  BY <1>1, Zenon DEF StoreInv, Vouched
<1>4. \A n \in LiveSegments(meta) : Wal(n) \in objects
  BY <1>1, CurrentLive, Zenon
<1>5. Vouched(warm.meta)' /\ \A n \in LiveSegments(warm'.meta) : Wal(n) \in objects'
  BY <1>1, <1>2, <1>3, <1>4, Zenon DEF Vouched
<1>6. warm'.pc \notin {"wal", "done"}
  BY <1>2
<1>7. WarmInv'
  BY <1>5, <1>6, Zenon DEF WarmInv
<1> QED
  BY <1>1, <1>2, <1>7, WarmStep, Zenon

(* A warm call ends.                                                       *)
LEMMA EndWarmKeeps ==
    ASSUME ColdInv, EndWarm PROVE ColdInv'
<1>1. /\ warm' = NoWarm /\ view' \in [pinned : BOOLEAN, meta : Meta, last_applied : 0..MaxCommits]
      /\ UNCHANGED <<meta, objects, compaction, query>>
  BY Zenon DEF EndWarm, ColdInv, ColdTypeOK
<1>2. NoMeta \in Meta
  BY ColdAssumption DEF NoMeta, Meta
<1> HIDE DEF NoMeta
<1>3. warm' \in WarmState /\ warm'.pc = "idle"
  BY <1>1, <1>2 DEF NoWarm, WarmState
<1>4. WarmInv'
  BY <1>3 DEF WarmInv
<1> QED
  BY <1>1, <1>3, <1>4, WarmStep, Zenon

(* The meta.json of a warm call is vouched for as before.                  *)
LEMMA SameMeta ==
    ASSUME UNCHANGED <<meta, objects>>, warm'.meta = warm.meta, warm'.raced = warm.raced,
           Vouched(warm.meta), warm.raced \/ \A n \in LiveSegments(warm.meta) : Wal(n) \in objects
    PROVE  Vouched(warm.meta)' /\ (warm'.raced \/ \A n \in LiveSegments(warm'.meta) : Wal(n) \in objects')
<1>1. Vouched(warm.meta)'
  BY Zenon DEF Vouched
<1> QED
  BY <1>1, Zenon

(* The index objects are no WAL objects.                                   *)
LEMMA WarmIndexKinds ==
    ASSUME NEW m \in Meta
    PROVE  \A k \in index_keys_for_warm(m) \union VectorKeys(m) : k[1] \notin {"wal", "snapshot"}
<1>1. \A k \in KeySet(round2_bootstrap_keys(m)) : k[1] \notin {"wal", "snapshot"}
  BY BootstrapRound, KeyKinds
<1>2. \A k \in KeySet(l0_keys_for_meta(m)) : k[1] \notin {"wal", "snapshot"}
  BY L0Round, KeyKinds
<1>3. \A f, c : \A k \in {L1(f, c), ClusterOf(f, c)} : k[1] \notin {"wal", "snapshot"}
  BY KeyKinds
<1>4. \A k \in VectorKeys(m) : \E f \in m.vector_fields, c \in Coarse : k \in {L1(f, c), ClusterOf(f, c)}
  BY SMT DEF VectorKeys
<1> QED
  BY <1>1, <1>2, <1>3, <1>4, Zenon DEF index_keys_for_warm

(* The index objects are read, and the WAL objects to read are counted.    *)
LEMMA WarmIndexKeeps ==
    ASSUME ColdInv, WarmIndex PROVE ColdInv'
<1> DEFINE keys == wal_keys_for_warm(warm.meta)
           got == (index_keys_for_warm(warm.meta) \union VectorKeys(warm.meta)) \intersect objects
<1>1. /\ WarmInv /\ warm \in WarmState /\ warm.pc = "index" /\ objects \subseteq Key
      /\ warm' = [warm EXCEPT !.pc = "wal", !.todo = keys, !.wal_segments = Len(keys), !.got = got]
      /\ view' \in [pinned : BOOLEAN, meta : Meta, last_applied : 0..MaxCommits]
      /\ UNCHANGED <<meta, objects, compaction, query>>
  BY Zenon DEF WarmIndex, ColdInv, ColdTypeOK
<1>2. warm.meta \in Meta /\ warm.pc # "idle"
  BY <1>1 DEF WarmState
<1>3. /\ Vouched(warm.meta) /\ InOrder(warm.meta)
      /\ warm.raced \/ \A n \in LiveSegments(warm.meta) : Wal(n) \in objects
  BY <1>1, <1>2, Zenon DEF WarmInv, Vouched, InOrder
<1>4. keys \in Seq(Key)
  BY <1>2, <1>3, WarmKeys, Zenon
<1>5. got \subseteq Key /\ \A key \in got : key[1] \notin {"wal", "snapshot"}
  BY <1>1, <1>2, WarmIndexKinds, Zenon
<1>6. Len(keys) \in Nat
  BY <1>4
<1> HIDE DEF keys, got
<1>7. /\ warm' \in WarmState /\ warm'.pc = "wal" /\ warm'.todo = keys /\ warm'.wal_segments = Len(keys)
      /\ warm'.got = got /\ warm'.meta = warm.meta /\ warm'.raced = warm.raced
  BY Zenon, <1>1, <1>4, <1>5, <1>6 DEF WarmState
<1>8. Vouched(warm.meta)' /\ (warm'.raced \/ \A n \in LiveSegments(warm'.meta) : Wal(n) \in objects')
  BY <1>1, <1>3, <1>7, SameMeta, Zenon
<1>9. wal_keys_for_warm(warm'.meta) = keys
  BY <1>7, Zenon DEF keys
<1>10. warm'.pc # "done"
  BY <1>7
<1>11. WarmInv'
  BY <1>5, <1>7, <1>8, <1>9, <1>10, Zenon DEF WarmInv
<1> QED
  BY <1>1, <1>7, <1>11, WarmStep, Zenon

(* A list of keys is its head and its tail.                                *)
LEMMA HeadTail ==
    ASSUME NEW s \in Seq(Key), s # <<>>
    PROVE  Tail(s) \in Seq(Key) /\ KeySet(s) = {Head(s)} \union KeySet(Tail(s)) /\ Head(s) \in Key
<1>1. /\ Len(s) \in Nat \ {0} /\ DOMAIN s = 1..Len(s) /\ Tail(s) \in Seq(Key) /\ Head(s) = s[1] /\ s[1] \in Key
      /\ DOMAIN Tail(s) = 1..Len(s) - 1 /\ \A i \in 1..Len(s) - 1 : Tail(s)[i] = s[i + 1]
  OBVIOUS
<1>2. \A i \in 1..Len(s) : i = 1 \/ (i - 1 \in 1..Len(s) - 1 /\ (i - 1) + 1 = i)
  BY <1>1
<1>3. 1 \in 1..Len(s) /\ \A i \in 1..Len(s) - 1 : i + 1 \in 1..Len(s)
  BY <1>1
<1>4. ASSUME NEW k \in KeySet(s) PROVE k = Head(s) \/ k \in KeySet(Tail(s))
  <2>1. PICK i \in 1..Len(s) : k = s[i]
    BY <1>1, <1>4, Zenon DEF KeySet
  <2>2. i = 1 \/ (i - 1 \in DOMAIN Tail(s) /\ Tail(s)[i - 1] = s[i])
    BY <1>1, <1>2, <2>1
  <2> QED
    BY <1>1, <2>1, <2>2, Zenon DEF KeySet
<1>5. \A k \in KeySet(Tail(s)) : k \in KeySet(s)
  BY <1>1, <1>3, Zenon DEF KeySet
<1>6. Head(s) \in KeySet(s)
  BY <1>1, <1>3, Zenon DEF KeySet
<1> QED
  BY <1>1, <1>4, <1>5, <1>6, Zenon

(* One WAL object is read; it is there unless a compaction ran.            *)
LEMMA WarmWalKeeps ==
    ASSUME ColdInv, WarmWal PROVE ColdInv'
<1> DEFINE keys == wal_keys_for_warm(warm.meta)
           head == Head(warm.todo)
           rest == Tail(warm.todo)
           got == warm.got \union ({head} \intersect objects)
<1>1. /\ WarmInv /\ warm \in WarmState /\ warm.pc = "wal" /\ warm.todo # <<>> /\ objects \subseteq Key
      /\ warm' = [warm EXCEPT !.todo = rest, !.got = got]
      /\ view' \in [pinned : BOOLEAN, meta : Meta, last_applied : 0..MaxCommits]
      /\ UNCHANGED <<meta, objects, compaction, query>>
  BY Zenon DEF WarmWal, ColdInv, ColdTypeOK
<1>2. warm.meta \in Meta /\ warm.pc # "idle" /\ warm.todo \in Seq(Key) /\ warm.got \subseteq Key
  BY <1>1 DEF WarmState
<1>3. /\ Vouched(warm.meta) /\ InOrder(warm.meta)
      /\ warm.raced \/ \A n \in LiveSegments(warm.meta) : Wal(n) \in objects
  BY <1>1, <1>2, Zenon DEF WarmInv, Vouched, InOrder
<1>4. rest \in Seq(Key) /\ KeySet(warm.todo) = {head} \union KeySet(rest) /\ head \in Key
  BY <1>1, <1>2, HeadTail, Zenon
<1>5. /\ \A key \in warm.got : key[1] \in {"wal", "snapshot"} => key \in KeySet(keys)
      /\ KeySet(warm.todo) \subseteq KeySet(keys)
      /\ ~ warm.raced => KeySet(keys) \subseteq warm.got \union KeySet(warm.todo)
      /\ warm.wal_segments = Len(keys)
  BY <1>1, Zenon DEF WarmInv
<1>6. ~ warm.raced => head \in objects
  <2>1. \A k \in KeySet(keys) :
          (k = Snapshot /\ warm.meta.wal_snapshot_seq > 0) \/ \E n \in LiveSegments(warm.meta) : k = Wal(n)
    BY <1>2, <1>3, WarmKeys, Zenon
  <2> QED
    BY <1>3, <1>4, <1>5, <2>1, Zenon DEF Vouched
<1> HIDE DEF keys, head, rest
<1>7. got \subseteq Key
  BY <1>1, <1>2, Zenon
<1>8. /\ \A key \in got : key[1] \in {"wal", "snapshot"} => key \in KeySet(keys)
      /\ KeySet(rest) \subseteq KeySet(keys)
      /\ ~ warm.raced => KeySet(keys) \subseteq got \union KeySet(rest)
  BY <1>4, <1>5, <1>6, Zenon
<1> HIDE DEF got
<1>9. /\ warm' \in WarmState /\ warm'.pc = "wal" /\ warm'.todo = rest /\ warm'.wal_segments = warm.wal_segments
      /\ warm'.got = got /\ warm'.meta = warm.meta /\ warm'.raced = warm.raced
  BY Zenon, <1>1, <1>4, <1>7 DEF WarmState
<1>10. Vouched(warm.meta)' /\ (warm'.raced \/ \A n \in LiveSegments(warm'.meta) : Wal(n) \in objects')
  BY <1>1, <1>3, <1>9, SameMeta, Zenon
<1>11. wal_keys_for_warm(warm'.meta) = keys
  BY <1>9, Zenon DEF keys
<1>12. warm'.pc # "done"
  BY <1>9
<1>13. WarmInv'
  BY <1>5, <1>8, <1>9, <1>10, <1>11, <1>12, Zenon DEF WarmInv
<1> QED
  BY <1>1, <1>9, <1>13, WarmStep, Zenon

(* The view is pinned after the last WAL object.                           *)
LEMMA WarmPinKeeps ==
    ASSUME ColdInv, WarmPin PROVE ColdInv'
<1>1. /\ WarmInv /\ warm \in WarmState /\ warm.pc = "wal" /\ warm.todo = <<>> /\ meta \in Meta
      /\ warm' = [warm EXCEPT !.pc = "done"]
      /\ view' = [pinned |-> TRUE, meta |-> meta, last_applied |-> meta.wal_commit_seq]
      /\ UNCHANGED <<meta, objects, compaction, query>>
  BY Zenon DEF WarmPin, ColdInv, ColdTypeOK
<1>2. view' \in [pinned : BOOLEAN, meta : Meta, last_applied : 0..MaxCommits]
  BY <1>1, MetaFields
<1>3. /\ warm' \in WarmState /\ warm'.pc = "done" /\ warm'.todo = warm.todo /\ warm'.got = warm.got
      /\ warm'.meta = warm.meta /\ warm'.raced = warm.raced /\ warm'.wal_segments = warm.wal_segments
  BY <1>1 DEF WarmState
<1>4. warm.pc # "idle"
  BY <1>1
<1>5. Vouched(warm.meta)' /\ (warm'.raced \/ \A n \in LiveSegments(warm'.meta) : Wal(n) \in objects')
  <2>1. Vouched(warm.meta) /\ (warm.raced \/ \A n \in LiveSegments(warm.meta) : Wal(n) \in objects)
    BY <1>1, <1>4, Zenon DEF WarmInv
  <2> QED
    BY <1>1, <1>3, <2>1, SameMeta, Zenon
<1>6. WarmInv'
  BY <1>1, <1>3, <1>5, Zenon DEF WarmInv
<1> QED
  BY <1>1, <1>2, <1>3, <1>6, WarmStep, Zenon

-----------------------------------------------------------------------------
(* The invariant holds before the first commit.                            *)
LEMMA ColdStarts ==
    ASSUME ColdInit PROVE ColdInv
<1>1. NoMeta \in Meta
  BY ColdAssumption DEF NoMeta, Meta
<1>2. /\ NoMeta.wal_commit_seq = 0 /\ NoMeta.index_cursor = 0 /\ NoMeta.wal_snapshot_seq = 0
      /\ NoMeta.vector_fields = {}
  BY DEF NoMeta
<1> HIDE DEF NoMeta
<1>3. <<>> \in Seq(Key) /\ <<>> \in Seq(1..MaxCommits) /\ DOMAIN <<>> = {} /\ 0 \in 0..MaxCommits
  BY ColdAssumption
<1>4. NoQuery \in QueryState /\ NoQuery.pc = "idle" /\ NoQuery.todo = <<>> /\ NoQuery.got = {}
  <2>1. NoQuery \in QueryState
    BY <1>1, <1>3 DEF NoQuery, QueryState
  <2> QED
    BY <2>1 DEF NoQuery
<1>5. NoWarm \in WarmState /\ NoWarm.pc = "idle"
  BY <1>1, <1>3 DEF NoWarm, WarmState
<1>6. NoView \in [pinned : BOOLEAN, meta : Meta, last_applied : 0..MaxCommits]
  BY <1>1, <1>3 DEF NoView
<1> HIDE DEF NoQuery, NoWarm, NoView
<1>7. /\ meta = NoMeta /\ objects = {} /\ compaction = [pc |-> "idle", left |-> <<>>]
      /\ view = NoView /\ query = NoQuery /\ warm = NoWarm
  BY Zenon DEF ColdInit
<1>8. compaction \in [pc : {"idle", "commit", "delete"}, left : Seq(1..MaxCommits)] /\ compaction.pc = "idle"
  BY <1>3, <1>7
<1>9. ColdTypeOK
  BY <1>1, <1>4, <1>5, <1>6, <1>7, <1>8, Zenon DEF ColdTypeOK
<1>10. StoreInv
  <2>1. 1..0 = {} /\ 0 <= 0 /\ ~ (0 > 0)
    OBVIOUS
  <2>2. compaction.pc # "commit" /\ compaction.pc # "delete"
    BY <1>8
  <2> QED
    BY <1>2, <1>7, <2>1, <2>2, Zenon DEF StoreInv, Vouched
<1>11. "idle" \notin Loading /\ "idle" \notin {"failed", "open", "refresh", "wal", "bootstrap", "tail", "l0", "l1", "clusters", "done"}
  BY DEF Loading
<1>12. AskInv /\ LoadInv /\ WarmInv
  BY <1>3, <1>4, <1>5, <1>7, <1>11, Zenon DEF AskInv, LoadInv, WarmInv
<1> QED
  BY <1>9, <1>10, <1>12, Zenon DEF ColdInv

(* The invariant holds where nothing changes.                              *)
LEMMA ColdSame ==
    ASSUME ColdInv, UNCHANGED coldVars PROVE ColdInv'
<1>1. UNCHANGED <<meta, objects, compaction, view, query, warm>>
  BY Zenon DEF coldVars
<1>2. warm' \in WarmState /\ view' \in [pinned : BOOLEAN, meta : Meta, last_applied : 0..MaxCommits]
  BY <1>1, Zenon DEF ColdInv, ColdTypeOK
<1>3. WarmInv'
  <2>1. WarmInv
    BY Zenon DEF ColdInv
  <2> QED
    BY <1>1, <2>1, Zenon DEF WarmInv, Vouched
<1> QED
  BY <1>1, <1>2, <1>3, WarmStep, Zenon

(* The keys that every round of a query asks for are vouched for by the    *)
(* meta.json it read, whatever the writer does in the meantime, and what   *)
(* the rounds so far asked for has come or is still to come.               *)
THEOREM ColdInvariant == ColdSpec => []ColdInv
<1>1. ColdInit => ColdInv
  BY ColdStarts
<1>2. ColdInv /\ [ColdNext]_coldVars => ColdInv'
  <2> SUFFICES ASSUME ColdInv, [ColdNext]_coldVars PROVE ColdInv'
    OBVIOUS
  <2>1. ASSUME Writer PROVE ColdInv'
    BY <2>1, AppendKeeps, IndexPassKeeps, CompactPutKeeps, CompactCommitKeeps, CompactDeleteKeeps, Zenon DEF Writer
  <2>2. ASSUME Query PROVE ColdInv'
    BY <2>2, StartQueryKeeps, OpenMetaKeeps, RefreshKeeps, FetchKeeps, BuildViewKeeps, FetchTailKeeps,
       PinViewKeeps, ProbeFieldKeeps, FetchClustersKeeps, EndQueryKeeps, Zenon DEF Query
  <2>3. CASE UNCHANGED coldVars
    BY <2>3, ColdSame, Zenon
  <2> QED
    BY <2>1, <2>2, <2>3, StartWarmKeeps, WarmIndexKeeps, WarmWalKeeps, WarmPinKeeps, EndWarmKeeps, Zenon
       DEF ColdNext
<1> QED
  BY <1>1, <1>2, PTL DEF ColdSpec

(* A cold query fails only on a segment that a compaction deleted under    *)
(* it, and a warm call misses a WAL object that it counts only then.       *)
THEOREM ColdMisses == ColdSpec => []MissesOnlyIfRaced
<1>1. ASSUME ColdInv PROVE MissesOnlyIfRaced
  <2>1. AskInv /\ WarmInv /\ warm \in WarmState
    BY <1>1, Zenon DEF ColdInv, ColdTypeOK
  <2>2. ASSUME query.pc = "failed"
        PROVE  /\ query.raced
               /\ query.missing[1] = "wal" /\ query.missing[2] + WAL_COMPACT_KEEP <= meta.wal_snapshot_seq
    <3>1. PICK n \in 1..MaxCommits : query.missing = Wal(n) /\ n + WAL_COMPACT_KEEP <= meta.wal_snapshot_seq
      BY <2>1, <2>2, Zenon DEF AskInv
    <3>2. query.missing[1] = "wal" /\ query.missing[2] = n
      BY <3>1, KeyKinds
    <3> QED
      BY <2>1, <2>2, <3>1, <3>2 DEF AskInv
  <2>3. ASSUME warm.pc = "done"
        PROVE  LET found == Segments(warm.got) IN
               /\ \A seq \in found : seq > warm.meta.wal_snapshot_seq
               /\ ~ warm.raced =>
                     /\ Cardinality({k \in warm.got : k[1] \in {"wal", "snapshot"}}) = warm.wal_segments
                     /\ \A seq \in warm.meta.wal_snapshot_seq + 1..warm.meta.wal_commit_seq :
                           seq \in found \/ seq + WAL_WARM_MAX_SEGMENTS <= warm.meta.wal_commit_seq
    <3> DEFINE keys == wal_keys_for_warm(warm.meta)
    <3>1. /\ warm.meta \in Meta /\ Vouched(warm.meta) /\ InOrder(warm.meta)
      BY <2>1, <2>3 DEF WarmInv, WarmState, Vouched, InOrder
    <3>2. /\ Cardinality(KeySet(keys)) = Len(keys)
          /\ \A k \in KeySet(keys) : k = Snapshot \/ \E n \in LiveSegments(warm.meta) : k = Wal(n)
          /\ \A n \in LiveSegments(warm.meta) :
               Wal(n) \in KeySet(keys) \/ n + WAL_WARM_MAX_SEGMENTS <= warm.meta.wal_commit_seq
      BY <3>1, WarmKeys, Zenon
    <3>3. /\ \A key \in warm.got : key[1] \in {"wal", "snapshot"} => key \in KeySet(keys)
          /\ ~ warm.raced => KeySet(keys) \subseteq warm.got
          /\ warm.wal_segments = Len(keys)
      BY <2>1, <2>3, KeySetOf DEF WarmInv
    <3> HIDE DEF keys
    <3>4. ASSUME NEW seq \in Segments(warm.got) PROVE seq > warm.meta.wal_snapshot_seq
      <4>1. PICK key \in warm.got : key[1] = "wal" /\ key[2] = seq
        BY <3>4, Zenon DEF Segments
      <4>2. PICK n \in LiveSegments(warm.meta) : key = Wal(n)
        <5>1. key \in KeySet(keys) /\ key # Snapshot
          <6>1. key[1] \in {"wal", "snapshot"} /\ key[1] # "snapshot"
            BY <4>1
          <6> QED
            BY <3>3, <6>1, KeyKinds, Zenon
        <5> QED
          BY <3>2, <5>1, Zenon
      <4>3. seq = n
        BY <4>1, <4>2, KeyKinds, Zenon
      <4> QED
        BY <3>1, <4>2, <4>3, MetaFields DEF LiveSegments
    <3>5. ASSUME ~ warm.raced
          PROVE  {k \in warm.got : k[1] \in {"wal", "snapshot"}} = KeySet(keys)
      <4>1. \A k \in KeySet(keys) : k[1] \in {"wal", "snapshot"}
        BY <3>2, KeyKinds
      <4> QED
        BY <3>3, <3>5, <4>1, Zenon
    <3>6. ASSUME ~ warm.raced, NEW seq \in LiveSegments(warm.meta), Wal(seq) \in KeySet(keys)
          PROVE  seq \in Segments(warm.got)
      BY ZenonT(30), <3>3, <3>6, KeyKinds DEF Segments
    <3> QED
      BY <3>2, <3>3, <3>4, <3>5, <3>6, Zenon DEF LiveSegments
  <2> QED
    BY <2>2, <2>3, Zenon DEF MissesOnlyIfRaced
<1> QED
  BY <1>1, ColdInvariant, PTL

(* A cold query that answers has every object that its meta.json names for *)
(* it, and no gap between the snapshot and the commit.                     *)
THEOREM ColdLoads == ColdSpec => []ColdLoadComplete
<1>1. ASSUME ColdInv PROVE ColdLoadComplete
  <2> SUFFICES ASSUME query.pc = "done" PROVE ColdLoadComplete
    BY Zenon DEF ColdLoadComplete
  <2>1. AskInv /\ LoadInv /\ query \in QueryState
    BY <1>1, Zenon DEF ColdInv, ColdTypeOK
  <2>2. /\ query.first \in Meta /\ query.meta \in Meta /\ "done" \in Loading /\ query.todo = <<>>
        /\ query.pc \notin {"wal", "bootstrap", "l1"}
    BY <2>1 DEF QueryState, Loading, AskInv
  <2>3. InOrder(query.first) /\ InOrder(query.meta)
    BY <2>1, <2>2, Zenon DEF AskInv, Vouched, InOrder
  <2>4. \A key : Has(key) => key \in query.got
    BY <2>2, KeySetOf, Zenon DEF Has
  <2>5. KeySet(round2_bootstrap_keys(query.meta)) \subseteq query.got
    BY <2>1, <2>2, <2>4, Zenon DEF LoadInv
  <2>6. ASSUME NEW f \in query.probes \intersect query.meta.vector_fields
        PROVE  /\ L1(f, query.near) \in query.got
               /\ query.near \notin EmptyCells => ClusterOf(f, query.near) \in query.got
    <3>1. f \in query.probes \ query.left
      BY <2>1, <2>2, Zenon DEF LoadInv
    <3> QED
      BY <2>1, <2>2, <2>4, <3>1, Zenon DEF LoadInv
  <2>7. \A n : Wal(n) \in query.got => n \in Segments(query.got)
    BY ZenonT(30), KeyKinds DEF Segments
  <2>8. query.strong => query.meta.index_cursor + 1..query.meta.wal_commit_seq \subseteq Segments(query.got)
    <3>1. query.strong => KeySet(unindexed_wal_tail_keys(query.meta)) \subseteq query.got
      BY <2>1, <2>2, <2>4, Zenon DEF LoadInv
    <3>2. \A n \in query.meta.index_cursor + 1..query.meta.wal_commit_seq :
            Wal(n) \in KeySet(unindexed_wal_tail_keys(query.meta))
      BY <2>2, <2>3, TailRound
    <3> QED
      BY <2>7, <3>1, <3>2, Zenon
  <2>9. ASSUME query.strong, query.opened, NEW n \in 1..query.first.wal_commit_seq
        PROVE  n \in Segments(query.got) \union (IF Snapshot \in query.got THEN 1..query.first.wal_snapshot_seq ELSE {})
    <3>1. KeySet(wal_round_keys(query.first)) \subseteq query.got
      BY <2>1, <2>2, <2>4, <2>9, Zenon DEF LoadInv
    <3>2. \/ n \in LiveSegments(query.first)
          \/ query.first.wal_snapshot_seq > 0 /\ n \in 1..query.first.wal_snapshot_seq
      BY <2>2, MetaFields DEF LiveSegments
    <3>3. /\ query.first.wal_snapshot_seq > 0 => Snapshot \in query.got
          /\ \A i \in LiveSegments(query.first) : Wal(i) \in query.got
      BY <2>2, <2>3, <3>1, WalRound
    <3> QED
      BY <2>7, <3>2, <3>3, Zenon
  <2> QED
    BY <2>5, <2>6, <2>8, <2>9, Zenon DEF ColdLoadComplete
<1> QED
  BY <1>1, ColdInvariant, PTL
=============================================================================
