---------------------------- MODULE WriteProofs ----------------------------
(***************************************************************************)
(* Proofs about WriteRequests, for any workload and any limits: the        *)
(* distance metric never changes after the first commit, stored values     *)
(* have the form of the types their requests knew of, and vector columns   *)
(* have their slots.                                                       *)
(***************************************************************************)
EXTENDS WriteRequests, FiniteSetTheorems, TLAPS

Stage == {"new", "rejected", "checked", "cleared", "buffered", "failed", "ok"}

Op == [request : Nat, value : Value]

(* The handler of request r has let it pass.                               *)
Passed(r) == stage[r] \notin {"new", "rejected"}

(* The schema request r was checked under.                                 *)
Known(r) == Overwrite(history[read[r] + 1], body[r].schema)

RowFits(r) == Fits(row[r], TypeOf(Known(r), body[r].field), body[r].kind)

(* A row that left the handler is that of a request that passed.           *)
FromRequest(o) ==
    /\ o.request \in DOMAIN body
    /\ body[o.request].kind # "none"
    /\ stage[o.request] \in {"buffered", "failed", "ok"}
    /\ o.value = row[o.request]

WriteInv ==
    /\ body \in Seq(WriteBody)
    /\ stage \in [DOMAIN body -> Stage]
    /\ row \in [DOMAIN body -> Value]
    /\ read \in [DOMAIN body -> Nat]
    /\ history \in Seq(Schema)
    /\ meta.wal_commit_seq \in Nat /\ meta.schema \in Schema
    /\ buffer = [ops |-> buffer.ops, patch |-> buffer.patch, metric |-> buffer.metric,
                 waiters |-> buffer.waiters]
    /\ buffer.ops \in Seq(Op) /\ buffer.patch \subseteq Schema
    /\ Len(history) = meta.wal_commit_seq + 1 /\ history[1] = NoSchema
    /\ history[meta.wal_commit_seq + 1] = meta.schema
    /\ \A r \in DOMAIN body : read[r] <= meta.wal_commit_seq
    /\ \A r \in DOMAIN body : Passed(r) /\ body[r].kind # "none" => RowFits(r)
    /\ \A r \in DOMAIN body : r \in buffer.waiters => stage[r] = "buffered"
    /\ \A i \in DOMAIN buffer.ops : FromRequest(buffer.ops[i])
    /\ \A o \in written : FromRequest(o)

-----------------------------------------------------------------------------
(* Once something is committed no step changes the distance metric         *)
(* (meta.rs resolve_distance_metric).                                      *)
THEOREM MetricNeverChanges == WriteSpec => MetricFixed
<1>1. ASSUME [WriteNext]_writeVars, meta.wal_commit_seq > 0
      PROVE  meta'.distance_metric = meta.distance_metric
  <2>1. CASE FlushBatch
    BY <1>1, <2>1 DEF FlushBatch, meta_after_wal_commit_options, resolve_distance_metric
  <2>2. CASE meta' = meta
    BY <2>2, Zenon
  <2>3. CASE IndexEnd
    BY <2>3 DEF IndexEnd, meta_after_index_commit
  <2>4. QED
    BY <1>1, <2>1, <2>2, <2>3, Zenon
       DEF WriteNext, writeVars, CheckRequest, CheckMetric, Enqueue, IndexBegin
<1>2. QED
  BY <1>1, PTL DEF WriteSpec, MetricFixed

-----------------------------------------------------------------------------
(* Merging schemas gives a schema.                                         *)
LEMMA OverwriteType ==
    ASSUME NEW e \in Schema, NEW p \in Schema
    PROVE  Overwrite(e, p) \in Schema
<1> DEFINE fields == DOMAIN e \cup DOMAIN p
<1>1. /\ DOMAIN e \subseteq Field /\ \A f \in DOMAIN e : e[f] \in Type
      /\ DOMAIN p \subseteq Field /\ \A f \in DOMAIN p : p[f] \in Type
  BY Zenon DEF Schema
<1>2. fields \in SUBSET Field
  BY <1>1, Zenon
<1>3. Overwrite(e, p) \in [fields -> Type]
  BY <1>1, Zenon DEF Overwrite
<1>4. QED
  BY <1>2, <1>3, Zenon DEF Schema

LEMMA MergeType ==
    ASSUME NEW e \in Schema, NEW p \in Schema, NEW s \in merge_schema(e, p)
    PROVE  s \in Schema /\ s = Overwrite(e, p)
BY OverwriteType, Zenon DEF merge_schema

(* The schema a row is checked under is the one read, overwritten by the   *)
(* one the request brings (api.rs effective_write_schema).                 *)
LEMMA EffectiveSchema ==
    ASSUME NEW base \in Schema, NEW b \in WriteBody, b.kind # "none",
           NEW s \in effective_write_schema(base, b)
    PROVE  s = Overwrite(base, b.schema)
<1>1. CASE b.schema = NoSchema
  <2>1. s = base
    BY <1>1, Zenon DEF effective_write_schema
  <2>2. DOMAIN b.schema = {}
    BY <1>1 DEF NoSchema
  <2>3. base = [f \in DOMAIN base |-> base[f]]
    BY Zenon DEF Schema
  <2>4. QED
    BY <2>1, <2>2, <2>3, Zenon DEF Overwrite
<1>2. CASE b.schema # NoSchema
  BY <1>2, MergeType, Zenon DEF effective_write_schema, WriteBody
<1>3. QED
  BY <1>1, <1>2, Zenon

(* What the handler stores for a value is a value in the form of the type. *)
LEMMA NormalizedFits ==
    ASSUME NEW b \in WriteBody, NEW s, NEW v \in Normalized(b, s)
    PROVE  v \in Value /\ (b.kind # "none" => Fits(v, TypeOf(s, b.field), b.kind))
<1>1. Floats \in Value /\ Other \in Value /\ b.value \in Value
  BY Zenon DEF Floats, Other, Value, WriteBody
<1>2. CASE b.kind = "none"
  BY <1>1, <1>2, Zenon DEF Normalized
<1>3. CASE b.kind # "none"
  <2> DEFINE type == TypeOf(s, b.field)
             decoded == IF b.kind = "filter" THEN {b.value}
                        ELSE normalize_document_vectors(b.value, type)
  <2>1. /\ b.kind = "upsert" \/ type # "vector"
        /\ \E d \in decoded : v \in validate_and_normalize_document_attributes(d, type)
    BY <1>3, Zenon DEF Normalized, validate_patch_attributes
  <2>2. PICK d \in decoded : v \in validate_and_normalize_document_attributes(d, type)
    BY <2>1, Zenon
  <2>3. d \in Value /\ (type = "vector" => d = Floats)
    BY <1>1, <2>1, Zenon DEF normalize_document_vectors, decode_vector_value
  <2> SUFFICES v \in Value /\ Fits(v, type, b.kind)
    OBVIOUS
  <2> HIDE DEF decoded, type
  <2>4. CASE type \in {"datetime", "uuid"}
    BY <2>2, <2>3, <2>4, Zenon
       DEF validate_and_normalize_document_attributes, canonicalize_str, Fits, Value
  <2>5. CASE type = "uuids"
    BY <2>2, <2>3, <2>5, Zenon
       DEF validate_and_normalize_document_attributes, normalize_uuid_array_value, Fits, Value
  <2>6. CASE type = "vector"
    BY <2>1, <2>2, <2>3, <2>6
       DEF validate_and_normalize_document_attributes, Fits, Value, Floats
  <2>7. CASE type \notin {"datetime", "uuid", "uuids", "vector"}
    BY <2>2, <2>3, <2>7, Zenon DEF validate_and_normalize_document_attributes, Fits
  <2>8. QED
    BY <2>4, <2>5, <2>6, <2>7, Zenon
<1>4. QED
  BY <1>2, <1>3, Zenon

-----------------------------------------------------------------------------
LEMMA WriteInitInv == WriteInit => WriteInv
<1> SUFFICES ASSUME WriteInit PROVE WriteInv
  OBVIOUS
<1>1. NoSchema \in Schema
  <2>1. {} \in SUBSET Field /\ NoSchema \in [{} -> Type]
    BY DEF NoSchema
  <2>2. QED
    BY <2>1, Zenon DEF Schema
<1>2. body \in Seq(WriteBody)
  BY WriteAssumption, Zenon DEF WriteInit
<1>3. history \in Seq(Schema) /\ Len(history) = 1 /\ history[1] = NoSchema
  BY <1>1 DEF WriteInit
<1>4. QED
  BY <1>1, <1>2, <1>3
     DEF WriteInit, WriteInv, Stage, EmptyBuffer, Other, Value, Passed, FromRequest

(* A step of the handler of one request.                                   *)
LEMMA CheckInv ==
    ASSUME WriteInv, NEW r \in DOMAIN body, CheckRequest(r) PROVE WriteInv'
<1>1. body[r] \in WriteBody
  BY DEF WriteInv
<1>2. stage' \in [DOMAIN body -> Stage] /\ row' \in [DOMAIN body -> Value]
  <2>1. CASE stage' = [stage EXCEPT ![r] = "rejected"] /\ row' = row
    BY <2>1, Zenon DEF WriteInv, Stage
  <2>2. ASSUME NEW s, NEW v \in Normalized(body[r], s),
               stage' = [stage EXCEPT ![r] = "checked"], row' = [row EXCEPT ![r] = v]
        PROVE  stage' \in [DOMAIN body -> Stage] /\ row' \in [DOMAIN body -> Value]
    <3>1. v \in Value
      BY <1>1, <2>2, NormalizedFits, Zenon
    <3>2. QED
      BY <2>2, <3>1, Zenon DEF WriteInv, Stage
  <2>3. QED
    BY <2>1, <2>2 DEF CheckRequest, CheckUnder
<1>3. /\ read' \in [DOMAIN body -> Nat] /\ read'[r] \in {0, meta.wal_commit_seq}
      /\ \A q \in DOMAIN body : q # r => read'[q] = read[q] /\ row'[q] = row[q]
                                        /\ stage'[q] = stage[q]
  BY DEF WriteInv, CheckRequest, CheckUnder
<1>4. ASSUME Passed(r)', body[r].kind # "none" PROVE RowFits(r)'
  <2> DEFINE base == history[read'[r] + 1]
  <2>0. base \in Schema /\ CheckUnder(r, base)
    <3>1. /\ read \in [DOMAIN body -> Nat] /\ meta.schema \in Schema
          /\ history[meta.wal_commit_seq + 1] = meta.schema /\ history[1] = NoSchema
          /\ 1 \in DOMAIN history /\ history[1] \in Schema
      BY DEF WriteInv
    <3>2. CASE read' = [read EXCEPT ![r] = meta.wal_commit_seq] /\ CheckUnder(r, meta.schema)
      <4>1. read'[r] = meta.wal_commit_seq
        BY <3>1, <3>2
      <4>2. QED
        BY <3>1, <3>2, <4>1
    <3>3. CASE read' = [read EXCEPT ![r] = 0] /\ CheckUnder(r, NoSchema)
      <4>1. read'[r] + 1 = 1
        BY <3>1, <3>3
      <4>2. QED
        BY <3>1, <3>3, <4>1
    <3>4. QED
      BY <3>2, <3>3, Zenon DEF CheckRequest
  <2> HIDE DEF base
  <2>1. PICK s \in effective_write_schema(base, body[r]) :
              row'[r] \in Normalized(body[r], s)
    <3>1. stage[r] = "new" /\ row \in [DOMAIN body -> Value] /\ stage \in [DOMAIN body -> Stage]
      BY Zenon DEF WriteInv, CheckRequest
    <3>2. stage'[r] # "rejected"
      BY <1>4, Zenon DEF Passed
    <3>3. QED
      BY <2>0, <3>1, <3>2 DEF CheckUnder
  <2>2. s = Overwrite(base, body[r].schema)
    BY <1>1, <1>4, <2>0, EffectiveSchema, Zenon
  <2>3. Fits(row'[r], TypeOf(s, body[r].field), body[r].kind)
    BY <1>1, <1>4, <2>1, NormalizedFits, Zenon
  <2>4. Known(r)' = s
    BY <2>2, Zenon DEF Known, CheckRequest, base
  <2>5. QED
    BY <2>3, <2>4, Zenon DEF RowFits, CheckRequest
<1>5. ASSUME NEW q \in DOMAIN body, q # r, Passed(q)', body[q].kind # "none"
      PROVE  RowFits(q)'
  BY <1>3, <1>5, Zenon DEF WriteInv, Passed, RowFits, Known, CheckRequest
<1>6. ASSUME NEW o, FromRequest(o) PROVE FromRequest(o)'
  <2>1. o.request # r
    BY <1>6, Zenon DEF FromRequest, CheckRequest
  <2>2. QED
    BY <1>3, <1>6, <2>1, Zenon DEF FromRequest, CheckRequest
<1>7. QED
  <2>1. \A q \in DOMAIN body : read'[q] <= meta.wal_commit_seq
    <3>1. /\ meta.wal_commit_seq \in Nat
          /\ \A q \in DOMAIN body : read[q] <= meta.wal_commit_seq
      BY Zenon DEF WriteInv
    <3>2. \A x \in {0, meta.wal_commit_seq} : x <= meta.wal_commit_seq
      BY <3>1
    <3>3. QED
      BY <1>3, <3>1, <3>2, Zenon
  <2>2. \A q \in DOMAIN body : Passed(q)' /\ body[q].kind # "none" => RowFits(q)'
    BY <1>4, <1>5, Zenon
  <2>3. \A q \in DOMAIN body : q \in buffer.waiters => stage'[q] = "buffered"
    BY <1>3, Zenon DEF WriteInv, CheckRequest
  <2>4. UNCHANGED <<body, buffer, meta, history, written>>
    BY Zenon DEF CheckRequest
  <2>5. QED
    BY <1>2, <1>3, <1>6, <2>1, <2>2, <2>3, <2>4, Zenon DEF WriteInv

(* A step that leaves the values alone and lets no request pass anew keeps *)
(* what is known of them.                                                  *)
LEMMA KeepsRows ==
    ASSUME WriteInv, UNCHANGED <<body, row, read>>, history' = history,
           stage' \in [DOMAIN body -> Stage],
           \A r \in DOMAIN body : Passed(r)' => Passed(r),
           \A r \in DOMAIN body : stage[r] \in {"buffered", "failed", "ok"} =>
                                    stage'[r] \in {"buffered", "failed", "ok"}
    PROVE  /\ \A r \in DOMAIN body : Passed(r)' /\ body[r].kind # "none" => RowFits(r)'
           /\ \A o : FromRequest(o) => FromRequest(o)'
BY Zenon DEF WriteInv, RowFits, Known, FromRequest

LEMMA MetricInv ==
    ASSUME WriteInv, NEW r \in DOMAIN body, CheckMetric(r) PROVE WriteInv'
<1>1. stage' \in [DOMAIN body -> Stage]
  BY Zenon DEF WriteInv, CheckMetric, Stage
<1>2. /\ \A q \in DOMAIN body : Passed(q)' => Passed(q)
      /\ \A q \in DOMAIN body : stage[q] \in {"buffered", "failed", "ok"} =>
                                stage'[q] \in {"buffered", "failed", "ok"}
  BY Zenon DEF WriteInv, CheckMetric, Passed
<1>3. QED
  BY <1>1, <1>2, KeepsRows, Zenon DEF WriteInv, CheckMetric

(* WriteBufferManager::write: the row goes into the buffer, whether the    *)
(* patch merges or not.                                                    *)
LEMMA EnqueueInv ==
    ASSUME WriteInv, NEW r \in DOMAIN body, Enqueue(r) PROVE WriteInv'
<1>1. body[r] \in WriteBody /\ row[r] \in Value /\ r \in Nat
  BY DEF WriteInv
<1>2. /\ stage' \in [DOMAIN body -> Stage] /\ stage'[r] \in {"buffered", "failed"}
      /\ \A q \in DOMAIN body : q # r => stage'[q] = stage[q]
  BY Zenon DEF WriteInv, Enqueue, Stage
<1>3. /\ \A q \in DOMAIN body : Passed(q)' /\ body[q].kind # "none" => RowFits(q)'
      /\ \A o : FromRequest(o) => FromRequest(o)'
      /\ \A q \in DOMAIN body : q \in buffer'.waiters => stage'[q] = "buffered"
  <2>1. \A q \in DOMAIN body : Passed(q)' => Passed(q)
    BY <1>2, Zenon DEF Enqueue, Passed
  <2>2. \A q \in DOMAIN body : stage[q] \in {"buffered", "failed", "ok"} =>
                                stage'[q] \in {"buffered", "failed", "ok"}
    BY <1>2, Zenon
  <2>3. \A q \in DOMAIN body : q \in buffer'.waiters => stage'[q] = "buffered"
    <3>1. r \notin buffer.waiters /\ WithRow(buffer, r).waiters = buffer.waiters
      BY Zenon DEF WriteInv, Enqueue, WithRow
    <3>2. \/ buffer'.waiters = buffer.waiters
          \/ buffer'.waiters = buffer.waiters \cup {r} /\ stage'[r] = "buffered"
      BY <3>1, Zenon DEF WriteInv, Enqueue, WithRow
    <3>3. QED
      BY <1>2, <3>1, <3>2, Zenon DEF WriteInv
  <2>4. QED
    BY <1>2, <2>1, <2>2, <2>3, KeepsRows, Zenon DEF Enqueue
<1>4. buffer' = [ops |-> buffer'.ops, patch |-> buffer'.patch, metric |-> buffer'.metric,
                 waiters |-> buffer'.waiters]
      /\ buffer'.ops = WithRow(buffer, r).ops
  BY Zenon DEF WriteInv, Enqueue, WithRow
<1>5. buffer'.patch \subseteq Schema
  <2>1. ASSUME NEW p \in MergedPatch(r) PROVE p \subseteq Schema
    BY <1>1, <2>1, MergeType DEF WriteInv, MergedPatch, WriteBody
  <2>2. QED
    BY <2>1, Zenon DEF WriteInv, Enqueue, WithRow
<1>6. /\ buffer'.ops \in Seq(Op)
      /\ (\A i \in DOMAIN buffer.ops : FromRequest(buffer.ops[i]))'
  <2>1. CASE body[r].kind = "none"
    BY <1>3, <1>4, <2>1, Zenon DEF WriteInv, WithRow
  <2>2. CASE body[r].kind # "none"
    <3> DEFINE o == [request |-> r, value |-> row[r]]
    <3>1. o \in Op /\ buffer'.ops = Append(buffer.ops, o)
      BY <1>1, <1>4, <2>2, Zenon DEF WriteInv, WithRow, Op
    <3>2. \A x : x = o => FromRequest(x)'
      <4>1. ASSUME NEW x, x = o PROVE x.request = r /\ x.value = row[r]
        BY <4>1, Zenon
      <4>2. /\ body' = body /\ row' = row
            /\ stage'[r] \in {"buffered", "failed", "ok"}
        BY <1>2, Zenon DEF Enqueue
      <4>3. QED
        BY <2>2, <4>1, <4>2, Zenon DEF FromRequest
    <3> HIDE DEF o
    <3>3. /\ buffer'.ops \in Seq(Op)
          /\ \A i \in DOMAIN buffer'.ops :
               \/ buffer'.ops[i] = o
               \/ i \in DOMAIN buffer.ops /\ buffer'.ops[i] = buffer.ops[i]
      BY <3>1 DEF WriteInv
    <3>4. \A i \in DOMAIN buffer.ops : FromRequest(buffer.ops[i])
      BY Zenon DEF WriteInv
    <3>5. QED
      BY <1>3, <3>2, <3>3, <3>4, Zenon
  <2>3. QED
    BY <2>1, <2>2, Zenon
<1>7. QED
  BY <1>2, <1>3, <1>4, <1>5, <1>6, Zenon DEF WriteInv, Enqueue

(* The commit of a batch: values stay as they were checked, and the new    *)
(* schema becomes a version of its own.                                    *)
LEMMA FlushInv == ASSUME WriteInv, FlushBatch PROVE WriteInv'
<1>1. /\ stage' \in [DOMAIN body -> Stage]
      /\ \A q \in DOMAIN body :
           \/ stage'[q] = stage[q]
           \/ stage[q] = "buffered" /\ stage'[q] \in {"ok", "failed"}
  BY Zenon DEF WriteInv, FlushBatch, Answer, Stage
<1>2. UNCHANGED <<body, row, read>> /\ buffer' = EmptyBuffer
  BY Zenon DEF FlushBatch
<1>3. /\ buffer'.ops \in Seq(Op) /\ DOMAIN buffer'.ops = {} /\ buffer'.patch \subseteq Schema
      /\ buffer' = [ops |-> buffer'.ops, patch |-> buffer'.patch, metric |-> buffer'.metric,
                    waiters |-> buffer'.waiters]
  BY <1>2 DEF EmptyBuffer
<1>4. \A o : FromRequest(o) => FromRequest(o)'
  BY <1>1, <1>2, Zenon DEF FromRequest
<1>5. \A o \in written' : FromRequest(o)'
  BY <1>4 DEF WriteInv, FlushBatch, ToSet
<1>6. /\ history' \in Seq(Schema) /\ meta'.wal_commit_seq \in Nat /\ meta'.schema \in Schema
      /\ meta'.wal_commit_seq >= meta.wal_commit_seq
      /\ Len(history') = meta'.wal_commit_seq + 1
      /\ history'[meta'.wal_commit_seq + 1] = meta'.schema /\ history'[1] = NoSchema
      /\ \A i \in DOMAIN history : history'[i] = history[i]
  <2>1. CASE UNCHANGED <<meta, history>>
    BY <2>1 DEF WriteInv
  <2>2. CASE \E m \in meta_after_wal_commit_options(meta, buffer.patch, buffer.metric) :
               meta' = m /\ history' = Append(history, m.schema)
    <3>1. PICK m \in meta_after_wal_commit_options(meta, buffer.patch, buffer.metric) :
               meta' = m /\ history' = Append(history, m.schema)
      BY <2>2, Zenon
    <3>2. m.wal_commit_seq = meta.wal_commit_seq + 1 /\ m.schema \in Schema
      BY <3>1, MergeType DEF WriteInv, meta_after_wal_commit_options
    <3>3. history \in Seq(Schema) /\ Len(history) = meta.wal_commit_seq + 1 /\ meta.wal_commit_seq \in Nat
      BY Zenon DEF WriteInv
    <3>4. /\ history' \in Seq(Schema) /\ Len(history') = Len(history) + 1
          /\ history'[Len(history) + 1] = m.schema
          /\ \A i \in DOMAIN history : history'[i] = history[i]
      BY <3>1, <3>2, <3>3
    <3>5. history'[1] = NoSchema
      <4>1. 1 \in DOMAIN history /\ history[1] = NoSchema
        BY <3>3 DEF WriteInv
      <4>2. QED
        BY <3>4, <4>1, Zenon
    <3>6. QED
      BY <3>1, <3>2, <3>3, <3>4, <3>5
  <2>3. QED
    BY <2>1, <2>2, Zenon DEF FlushBatch
<1>7. ASSUME NEW q \in DOMAIN body, Passed(q)', body[q].kind # "none" PROVE RowFits(q)'
  <2>1. Passed(q)
    BY <1>1, <1>7, Zenon DEF WriteInv, Passed
  <2>2. read[q] + 1 \in DOMAIN history
    BY DEF WriteInv
  <2>3. Known(q)' = Known(q)
    BY <1>2, <1>6, <2>2, Zenon DEF Known
  <2>4. QED
    BY <1>2, <1>7, <2>1, <2>3, Zenon DEF WriteInv, RowFits
<1>8. QED
  BY SMTT(40), <1>1, <1>2, <1>3, <1>4, <1>5, <1>6, <1>7 DEF WriteInv, EmptyBuffer

-----------------------------------------------------------------------------
(* An index pass touches neither rows nor schemas.                         *)
LEMMA IndexInv == ASSUME WriteInv, IndexBegin \/ IndexEnd PROVE WriteInv'
<1>1. /\ UNCHANGED <<body, stage, row, read, buffer, history, written>>
      /\ meta'.wal_commit_seq = meta.wal_commit_seq /\ meta'.schema = meta.schema
  BY DEF IndexBegin, IndexEnd, meta_after_index_commit
<1>2. QED
  BY <1>1, Zenon DEF WriteInv, Passed, RowFits, Known, FromRequest

LEMMA WriteNextInv == ASSUME WriteInv, [WriteNext]_writeVars PROVE WriteInv'
<1>1. CASE UNCHANGED writeVars
  BY <1>1, Zenon DEF writeVars, WriteInv, Passed, RowFits, Known, FromRequest
<1>2. QED
  BY <1>1, CheckInv, MetricInv, EnqueueInv, FlushInv, IndexInv, Zenon DEF WriteNext

(* What is known of rows on their way to the log holds at every step.      *)
THEOREM WriteInvariance == WriteSpec => []WriteInv
BY WriteInitInv, WriteNextInv, PTL DEF WriteSpec

(* A stored value has the canonical form of its column's type whenever     *)
(* that type is the one its request declared or found in meta.json, for    *)
(* any number of racing requests and whichever of their GETs fail: one     *)
(* whose GET failed found no types (api.rs effective_write_schema).        *)
THEOREM StoredRowsFit == WriteSpec => []RowsFitSchema
<1>1. WriteInv => RowsFitSchema
  BY Zenon DEF WriteInv, FromRequest, Passed, RowFits, Known, RowsFitSchema
<1>2. QED
  BY <1>1, WriteInvariance, PTL


-----------------------------------------------------------------------------
(* The slots of vector columns.                                            *)

(* Slots of different fields, full or with every field of C among them.    *)
SlotsFor(slots, C) ==
    /\ slots \in Seq(Field) /\ Len(slots) <= MAX_VECTOR_FIELDS /\ IsInjective(slots)
    /\ C \subseteq ToSet(slots) \/ Len(slots) = MAX_VECTOR_FIELDS

(* What the limit of vector columns rests on: no slot is taken twice,      *)
(* schemas are finite, and a pass keeps the slots of the columns it read.  *)
SlotInv ==
    /\ \A r \in DOMAIN body : IsFiniteSet(DOMAIN body[r].schema)
    /\ \A p \in buffer.patch : IsFiniteSet(DOMAIN p)
    /\ IsFiniteSet(DOMAIN meta.schema)
    /\ Cardinality(vector_fields_from_schema(meta.schema)) <= MAX_VECTOR_FIELDS
    /\ SlotsFor(meta.vector_fields, vector_fields_from_schema(meta.schema) \ lost)
    /\ SlotsFor(meta.vector_field, {})
    /\ \A p \in pass :
         /\ p.seen + 1 \in DOMAIN history
         /\ SlotsFor(p.slots, vector_fields_from_schema(history[p.seen + 1]) \ p.lost)

LEMMA FiniteColumns ==
    ASSUME NEW s \in Schema, IsFiniteSet(DOMAIN s)
    PROVE  /\ IsFiniteSet(vector_fields_from_schema(s))
           /\ vector_fields_from_schema(s) \subseteq Field
<1>1. vector_fields_from_schema(s) \in SUBSET DOMAIN s /\ DOMAIN s \subseteq Field
  BY Zenon DEF vector_fields_from_schema, Schema
<1>2. QED
  BY <1>1, FS_Subset, Zenon

(* t has, after the slots, the first k of the n columns in M that have     *)
(* none, in ascending order.                                               *)
Appended(t, slots, M, n, missing, k) ==
    /\ slots \in Seq(Field) /\ IsInjective(slots)
    /\ M \subseteq Field /\ ToSet(slots) \cap M = {}
    /\ n \in Nat /\ missing \in [1..n -> M]
    /\ \A i, j \in 1..n : i < j => missing[i] < missing[j]
    /\ k \in 0..n
    /\ t = slots \o SubSeq(missing, 1, k)

LEMMA AppendedSlots ==
    ASSUME NEW t, NEW slots, NEW M, NEW n, NEW missing, NEW k, Appended(t, slots, M, n, missing, k)
    PROVE  /\ t \in Seq(Field) /\ Len(t) = Len(slots) + k /\ IsInjective(t)
           /\ \A i \in 1..Len(slots) : t[i] = slots[i]
           /\ \A i \in 1..k : t[Len(slots) + i] = missing[i]
<1> USE DEF Appended
<1> DEFINE tail == SubSeq(missing, 1, k)
<1>1. missing \in Seq(Field) /\ Len(missing) = n
  BY SMT
<1>2. tail \in Seq(Field) /\ Len(tail) = k /\ \A i \in 1..k : tail[i] = missing[i]
  BY <1>1
<1>3. /\ t \in Seq(Field) /\ Len(t) = Len(slots) + k /\ DOMAIN t = 1..Len(t)
      /\ \A i \in 1..Len(slots) : t[i] = slots[i]
      /\ \A i \in 1..k : t[Len(slots) + i] = missing[i]
  BY <1>2
<1>4. \A i, j \in 1..n : missing[i] = missing[j] => i = j
  <2>1. \A i \in 1..n : missing[i] \in Nat
    BY Zenon, WriteAssumption
  <2>2. QED
    BY <2>1
<1>5. \A i \in 1..Len(slots), j \in 1..k : slots[i] # missing[j]
  <2>1. \A i \in 1..Len(slots) : slots[i] \in ToSet(slots)
    BY DEF ToSet
  <2>2. \A j \in 1..k : missing[j] \in M
    OBVIOUS
  <2>3. QED
    BY <2>1, <2>2
<1>6. \A a, b \in 1..Len(t) : a < b => t[a] # t[b]
  <2> SUFFICES ASSUME NEW a \in 1..Len(t), NEW b \in 1..Len(t), a < b, t[a] = t[b]
               PROVE  FALSE
    OBVIOUS
  <2>1. CASE b <= Len(slots)
    BY <1>3, <2>1 DEF IsInjective
  <2>2. CASE a <= Len(slots) /\ b > Len(slots)
    <3>1. b - Len(slots) \in 1..k /\ a \in 1..Len(slots) /\ Len(slots) + (b - Len(slots)) = b
      BY <1>3, <2>2
    <3>2. t[b] = missing[b - Len(slots)] /\ t[a] = slots[a]
      BY <1>3, <3>1
    <3>3. QED
      BY <1>5, <3>1, <3>2
  <2>3. CASE a > Len(slots)
    <3>1. /\ a - Len(slots) \in 1..k /\ b - Len(slots) \in 1..k /\ a - Len(slots) # b - Len(slots)
          /\ Len(slots) + (a - Len(slots)) = a /\ Len(slots) + (b - Len(slots)) = b
      BY <1>3, <2>3
    <3>2. t[a] = missing[a - Len(slots)] /\ t[b] = missing[b - Len(slots)]
      BY <1>3, <3>1
    <3>3. a - Len(slots) \in 1..n /\ b - Len(slots) \in 1..n
      BY <3>1
    <3>4. QED
      BY <1>4, <3>1, <3>2, <3>3, Zenon
  <2>4. QED
    BY <1>3, <2>1, <2>2, <2>3
<1>7. IsInjective(t)
  <2> SUFFICES ASSUME NEW a \in 1..Len(t), NEW b \in 1..Len(t), t[a] = t[b]
               PROVE  a = b
    BY <1>3, Zenon DEF IsInjective
  <2>1. a \in Int /\ b \in Int
    BY <1>3
  <2>2. QED
    BY <1>6, <2>1
<1>8. QED
  BY <1>3, <1>7

(* WithSlots keeps the slots there are and gives every field one, or else  *)
(* the slots are full.                                                     *)
LEMMA SlotsGiven ==
    ASSUME NEW slots, SlotsFor(slots, {}), NEW F, IsFiniteSet(F \ ToSet(slots)),
           F \ ToSet(slots) \subseteq Field, NEW t \in WithSlots(slots, F)
    PROVE  /\ SlotsFor(t, F)
           /\ ToSet(slots) \subseteq ToSet(t) /\ Len(slots) <= Len(t)
<1> DEFINE M == F \ ToSet(slots)
           n == Cardinality(M)
           room == MAX_VECTOR_FIELDS - Len(slots)
<1>1. slots \in Seq(Field) /\ IsInjective(slots) /\ Len(slots) <= MAX_VECTOR_FIELDS
  BY Zenon DEF SlotsFor
<1>2. n \in Nat /\ M \subseteq Field
  BY FS_CardinalityType, Zenon
<1>3. room \in Nat /\ MAX_VECTOR_FIELDS \in Nat /\ Len(slots) \in Nat
  BY <1>1, WriteAssumption
<1>4. PICK missing \in Ascending(M) :
           t = slots \o SubSeq(missing, 1, IF Len(missing) < room THEN Len(missing) ELSE room)
  BY Zenon DEF WithSlots
<1> HIDE DEF M, n, room
<1>5. /\ missing \in [1..n -> M] /\ ToSet(missing) = M
      /\ \A i, j \in 1..n : i < j => missing[i] < missing[j]
  BY Zenon, <1>4 DEF Ascending, n
<1>6. Len(missing) = n
  BY <1>2, <1>5
<1> DEFINE k == IF n < room THEN n ELSE room
<1>7. k \in 0..n
  BY <1>2, <1>3
<1>8. t = slots \o SubSeq(missing, 1, k)
  BY <1>4, <1>6
<1> HIDE DEF k
<1>9. ToSet(slots) \cap M = {}
  BY Zenon DEF M
<1>10. /\ t \in Seq(Field) /\ Len(t) = Len(slots) + k /\ IsInjective(t)
       /\ \A i \in 1..Len(slots) : t[i] = slots[i]
       /\ \A i \in 1..k : t[Len(slots) + i] = missing[i]
  <2>1. Appended(t, slots, M, n, missing, k)
    BY <1>1, <1>2, <1>5, <1>7, <1>8, <1>9 DEF Appended
  <2>2. QED
    BY <2>1, AppendedSlots, SMT
<1>11. Len(t) <= MAX_VECTOR_FIELDS /\ Len(slots) <= Len(t)
  BY <1>2, <1>3, <1>7, <1>10 DEF k, room
<1>12. ToSet(slots) \subseteq ToSet(t)
  <2>1. DOMAIN slots = 1..Len(slots) /\ DOMAIN slots \subseteq DOMAIN t
    BY <1>1, <1>3, <1>7, <1>10
  <2>2. QED
    BY <1>10, <2>1, Zenon DEF ToSet
<1>13. CASE k = n
  <2>1. ASSUME NEW c \in M PROVE c \in ToSet(t)
    <3>1. PICK i \in 1..n : missing[i] = c
      BY <1>2, <1>5, <2>1 DEF ToSet
    <3>2. Len(slots) + i \in 1..Len(t) /\ t[Len(slots) + i] = c
      BY <1>2, <1>3, <1>10, <1>13, <3>1
    <3>3. QED
      BY <1>10, <3>2 DEF ToSet
  <2>2. F \subseteq ToSet(t)
    BY <1>12, <2>1, Zenon DEF M
  <2>3. QED
    BY <1>10, <1>11, <1>12, <2>2, Zenon DEF SlotsFor
<1>14. CASE k = room
  <2>1. Len(t) = MAX_VECTOR_FIELDS
    BY <1>3, <1>10, <1>14 DEF room
  <2>2. QED
    BY <1>10, <1>11, <1>12, <2>1, Zenon DEF SlotsFor
<1>15. QED
  BY <1>13, <1>14 DEF k

(* Where the slots are full and every one serves a column, every column    *)
(* has one: slots are different, and there are no more columns than slots. *)
LEMMA FullSlots ==
    ASSUME NEW t \in Seq(Field), IsInjective(t), Len(t) = MAX_VECTOR_FIELDS,
           NEW C, IsFiniteSet(C), Cardinality(C) <= MAX_VECTOR_FIELDS, ToSet(t) \subseteq C
    PROVE  C \subseteq ToSet(t)
<1> DEFINE I == 1..MAX_VECTOR_FIELDS
<1>1. DOMAIN t = I /\ \A i \in I : t[i] \in ToSet(t)
  BY DEF ToSet
<1>2. t \in Injection(I, C)
  <2>1. t = [i \in 1..Len(t) |-> t[i]]
    OBVIOUS
  <2>2. t = [i \in I |-> t[i]]
    BY <2>1
  <2>3. t \in [I -> C]
    BY <1>1, <2>2, Zenon
  <2>4. QED
    BY <2>3, Zenon DEF Injection, IsInjective
<1>3. MAX_VECTOR_FIELDS \in Nat /\ Cardinality(I) = MAX_VECTOR_FIELDS /\ Cardinality(C) \in Nat
  BY WriteAssumption, FS_Interval, FS_CardinalityType
<1>4. Cardinality(I) <= Cardinality(C) /\ (Cardinality(I) = Cardinality(C) <=> t \in Surjection(I, C))
  BY <1>2, FS_Injection, Zenon
<1>5. t \in Surjection(I, C)
  BY <1>3, <1>4
<1>6. QED
  BY <1>1, <1>5 DEF Surjection

LEMMA MergeFinite ==
    ASSUME NEW e \in Schema, NEW p \in Schema, NEW s \in merge_schema(e, p),
           IsFiniteSet(DOMAIN e), IsFiniteSet(DOMAIN p)
    PROVE  /\ IsFiniteSet(DOMAIN s)
           /\ Cardinality(vector_fields_from_schema(s)) <= MAX_VECTOR_FIELDS
<1>1. DOMAIN s = DOMAIN e \cup DOMAIN p
  BY Zenon DEF merge_schema, Overwrite
<1>2. QED
  BY ZenonT(30), <1>1, FS_Union DEF merge_schema

LEMMA SlotInit == WriteInit => SlotInv
<1> SUFFICES ASSUME WriteInit PROVE SlotInv
  OBVIOUS
<1>1. /\ DOMAIN meta.schema = {} /\ buffer.patch = {} /\ pass = {}
      /\ meta.vector_fields = <<>> /\ meta.vector_field = <<>>
  BY DEF WriteInit, NoSchema, EmptyBuffer
<1>2. IsFiniteSet({}) /\ Cardinality({}) = 0
  BY FS_EmptySet, Zenon
<1>3. vector_fields_from_schema(meta.schema) = {}
  BY <1>1, Zenon DEF vector_fields_from_schema
<1>4. MAX_VECTOR_FIELDS \in Nat /\ \A r \in DOMAIN body : IsFiniteSet(DOMAIN body[r].schema)
  BY WriteAssumption, Zenon DEF WriteInit
<1>5. SlotsFor(<<>>, {})
  BY <1>4 DEF SlotsFor, IsInjective
<1>6. QED
  BY <1>1, <1>2, <1>3, <1>4, <1>5 DEF SlotInv

(* A step that commits nothing and leaves only finite patches behind.      *)
LEMMA KeepsSlots ==
    ASSUME SlotInv, UNCHANGED <<body, meta, history, pass, lost>>,
           \A p \in buffer'.patch : IsFiniteSet(DOMAIN p)
    PROVE  SlotInv'
BY Zenon DEF SlotInv

LEMMA EnqueueSlots ==
    ASSUME WriteInv, SlotInv, NEW r \in DOMAIN body, Enqueue(r)
    PROVE  SlotInv'
<1>1. body[r] \in WriteBody /\ body[r].schema \in Schema /\ IsFiniteSet(DOMAIN body[r].schema)
  <2>1. body[r] \in WriteBody
    BY DEF WriteInv
  <2>2. QED
    BY <2>1, Zenon DEF WriteBody, SlotInv
<1>2. ASSUME NEW q \in MergedPatch(r), NEW p \in q PROVE IsFiniteSet(DOMAIN p)
  <2>1. CASE body[r].schema = NoSchema
    BY <1>2, <2>1, Zenon DEF MergedPatch, SlotInv
  <2>2. CASE body[r].schema # NoSchema /\ buffer.patch = {}
    BY <1>1, <1>2, <2>2, Zenon DEF MergedPatch
  <2>3. CASE body[r].schema # NoSchema /\ buffer.patch # {}
    <3>1. PICK e \in buffer.patch : p \in merge_schema(e, body[r].schema)
      BY <1>2, <2>3, Zenon DEF MergedPatch
    <3>2. e \in Schema /\ IsFiniteSet(DOMAIN e)
      BY Zenon DEF WriteInv, SlotInv
    <3>3. QED
      BY <1>1, <3>1, <3>2, MergeFinite, Zenon
  <2>4. QED
    BY <2>1, <2>2, <2>3, Zenon
<1>3. buffer'.patch = {} \/ buffer'.patch \in MergedPatch(r)
  BY Zenon DEF WriteInv, Enqueue, WithRow
<1>4. QED
  BY <1>2, <1>3, KeepsSlots, Zenon DEF Enqueue

(* vector_field is one of the slots, or stays (meta.rs                     *)
(* sync_legacy_vector_fields).                                             *)
LEMMA LegacySlot ==
    ASSUME NEW slots, NEW legacy, NEW C, SlotsFor(slots, C), SlotsFor(legacy, {})
    PROVE  SlotsFor(sync_legacy_vector_fields(slots, legacy), {})
<1>1. CASE slots = <<>>
  BY <1>1, Zenon DEF sync_legacy_vector_fields
<1>2. CASE slots # <<>>
  <2>1. slots[1] \in Field /\ 1 <= Len(slots) /\ Len(slots) \in Nat
    BY <1>2 DEF SlotsFor
  <2>2. /\ <<slots[1]>> \in Seq(Field) /\ Len(<<slots[1]>>) = 1
        /\ DOMAIN <<slots[1]>> = {1}
    BY <2>1
  <2>3. IsInjective(<<slots[1]>>)
    BY <2>2 DEF IsInjective
  <2>4. Len(<<slots[1]>>) <= MAX_VECTOR_FIELDS
    BY <2>1, <2>2, WriteAssumption DEF SlotsFor
  <2>5. QED
    BY <1>2, <2>2, <2>3, <2>4, Zenon DEF SlotsFor, sync_legacy_vector_fields
<1>3. QED
  BY <1>1, <1>2, Zenon

LEMMA FlushSlots ==
    ASSUME WriteInv, SlotInv, FlushBatch
    PROVE  SlotInv'
<1>1. buffer'.patch = {} /\ body' = body /\ pass' = pass
  BY Zenon DEF FlushBatch, EmptyBuffer
<1>2. CASE UNCHANGED <<meta, history, lost>>
  BY <1>1, <1>2, KeepsSlots, Zenon
<1>3. CASE /\ meta' \in meta_after_wal_commit_options(meta, buffer.patch, buffer.metric)
           /\ history' = Append(history, meta'.schema) /\ lost' = {}
  <2> DEFINE schemas == IF buffer.patch = {} THEN {meta.schema}
                        ELSE UNION {merge_schema(meta.schema, p) : p \in buffer.patch}
  <2>1. PICK s \in schemas :
             /\ meta'.schema = s
             /\ meta'.vector_fields \in hydrate_vector_fields_from_schema(meta.vector_fields, s)
             /\ meta'.vector_field = sync_legacy_vector_fields(meta'.vector_fields, meta.vector_field)
    BY <1>3, SMT DEF meta_after_wal_commit_options
  <2>2. /\ s \in Schema /\ IsFiniteSet(DOMAIN s)
        /\ Cardinality(vector_fields_from_schema(s)) <= MAX_VECTOR_FIELDS
    <3>1. CASE buffer.patch = {}
      BY <2>1, <3>1, Zenon DEF WriteInv, SlotInv
    <3>2. CASE buffer.patch # {}
      <4>1. PICK p \in buffer.patch : s \in merge_schema(meta.schema, p)
        BY <2>1, <3>2, Zenon
      <4>2. meta.schema \in Schema /\ p \in Schema /\ IsFiniteSet(DOMAIN meta.schema) /\ IsFiniteSet(DOMAIN p)
        BY Zenon DEF WriteInv, SlotInv
      <4>3. QED
        BY <4>1, <4>2, MergeType, MergeFinite, Zenon
    <3>3. QED
      BY <3>1, <3>2, Zenon
  <2> HIDE DEF schemas
  <2> DEFINE C == vector_fields_from_schema(s)
  <2>3. SlotsFor(meta'.vector_fields, C)
    <3>1. SlotsFor(meta.vector_fields, {})
      BY Zenon DEF SlotInv, SlotsFor
    <3>2. IsFiniteSet(C \ ToSet(meta.vector_fields)) /\ C \ ToSet(meta.vector_fields) \subseteq Field
      <4>1. IsFiniteSet(C) /\ C \subseteq Field
        BY <2>2, FiniteColumns, Zenon
      <4>2. C \ ToSet(meta.vector_fields) \in SUBSET C
        BY Zenon
      <4>3. QED
        BY <4>1, <4>2, FS_Subset, Zenon
    <3>3. meta'.vector_fields \in WithSlots(meta.vector_fields, C)
      BY <2>1, Zenon DEF hydrate_vector_fields_from_schema
    <3>4. QED
      BY <3>1, <3>2, <3>3, SlotsGiven, Zenon
  <2>4. SlotsFor(meta'.vector_field, {})
    BY <2>1, <2>3, LegacySlot, Zenon DEF SlotInv
  <2>5. SlotsFor(meta'.vector_fields, C \ lost')
    BY <1>3, <2>3, Zenon DEF SlotsFor
  <2>6. ASSUME NEW p \in pass
        PROVE  /\ p.seen + 1 \in DOMAIN history'
               /\ history'[p.seen + 1] = history[p.seen + 1]
    <3>1. p.seen + 1 \in DOMAIN history
      BY <2>6, Zenon DEF SlotInv
    <3>2. history \in Seq(Schema) /\ history' = Append(history, s) /\ s \in Schema
      BY <1>3, <2>1, <2>2, Zenon DEF WriteInv
    <3>3. QED
      BY ONLY <3>1, <3>2
  <2>7. \A p \in pass' :
          /\ p.seen + 1 \in DOMAIN history'
          /\ SlotsFor(p.slots, vector_fields_from_schema(history'[p.seen + 1]) \ p.lost)
    BY <1>1, <2>6, Zenon DEF SlotInv
  <2>8. QED
    BY <1>1, <2>1, <2>2, <2>4, <2>5, <2>7, Zenon DEF SlotInv
<1>4. QED
  BY <1>2, <1>3, Zenon DEF FlushBatch

(* What a pass will write has the slots of the columns it read.            *)
LEMMA BeginSlots ==
    ASSUME WriteInv, SlotInv, IndexBegin
    PROVE  SlotInv'
<1> DEFINE m == meta
           C == vector_fields_from_schema(m.schema)
           copied == IF m.vector_fields = <<>> THEN m.vector_field ELSE m.vector_fields
<1>1. /\ SlotsFor(m.vector_fields, C \ lost) /\ SlotsFor(m.vector_field, {})
      /\ SlotsFor(copied, {}) /\ m.vector_fields \in Seq(Field)
  BY Zenon DEF SlotInv, SlotsFor
<1>2. IsFiniteSet(C) /\ C \subseteq Field
  BY FiniteColumns, Zenon DEF WriteInv, SlotInv
<1>3. WithVectors \subseteq Field
  <2>1. ASSUME NEW o \in written PROVE body[o.request].field \in Field
    <3>1. o.request \in DOMAIN body /\ body \in Seq(WriteBody)
      BY Zenon DEF WriteInv, FromRequest
    <3>2. body[o.request] \in WriteBody
      BY <3>1
    <3>3. QED
      BY <3>2, Zenon DEF WriteBody
  <2>2. QED
    BY <2>1, Zenon DEF WithVectors
<1> HIDE DEF C, copied, m
<1>4. ASSUME NEW F \in vector_fields_to_index(m), NEW B \in SUBSET (F \cap WithVectors)
      PROVE  IsFiniteSet(B \ ToSet(copied)) /\ B \ ToSet(copied) \subseteq Field
  <2> SUFFICES IsFiniteSet(B \ ToSet(copied))
    BY <1>3, Zenon
  <2>1. CASE F = ToSet(copied)
    <3>1. B \ ToSet(copied) = {}
      BY <2>1, Zenon
    <3>2. QED
      BY <3>1, FS_EmptySet, Zenon
  <2>2. CASE F = C
    <3>1. B \ ToSet(copied) \in SUBSET C
      BY <2>2, Zenon
    <3>2. QED
      BY <1>2, <3>1, FS_Subset, Zenon
  <2>3. ASSUME NEW f, F = {f} PROVE IsFiniteSet(B \ ToSet(copied))
    <3>1. B \ ToSet(copied) \in SUBSET {f} /\ IsFiniteSet({f})
      BY <2>3, FS_Singleton, Zenon
    <3>2. QED
      BY <3>1, FS_Subset, Zenon
  <2>4. CASE F = {}
    <3>1. B \ ToSet(copied) = {}
      BY <2>4, Zenon
    <3>2. QED
      BY <3>1, FS_EmptySet, Zenon
  <2>5. QED
    BY <1>4, <2>1, <2>2, <2>3, <2>4, Zenon DEF vector_fields_to_index, C, copied
<1>5. ASSUME NEW slots \in SlotsOfPass(m) PROVE SlotsFor(slots, C \ lost)
  <2>1. PICK F \in vector_fields_to_index(m) :
             \E B \in SUBSET (F \cap WithVectors) : slots \in WithSlots(copied, B)
    BY <1>5, SMT DEF SlotsOfPass, copied
  <2> PICK B \in SUBSET (F \cap WithVectors) : slots \in WithSlots(copied, B)
    BY <2>1, Zenon
  <2>2. SlotsFor(slots, B) /\ ToSet(copied) \subseteq ToSet(slots) /\ Len(copied) <= Len(slots)
    BY <1>1, <1>4, <2>1, SlotsGiven, Zenon
  <2>3. CASE m.vector_fields = <<>>
    <3>1. ToSet(m.vector_fields) = {} /\ Len(m.vector_fields) = 0
      BY <2>3 DEF ToSet
    <3>2. C \ lost = {} \/ MAX_VECTOR_FIELDS = 0
      BY <1>1, <3>1, Zenon DEF SlotsFor
    <3>3. slots \in Seq(Field) /\ Len(slots) <= MAX_VECTOR_FIELDS /\ IsInjective(slots)
      BY <2>2, Zenon DEF SlotsFor
    <3>4. MAX_VECTOR_FIELDS = 0 => Len(slots) = MAX_VECTOR_FIELDS
      BY <3>3
    <3>5. QED
      BY <3>2, <3>3, <3>4, Zenon DEF SlotsFor
  <2>4. CASE m.vector_fields # <<>>
    <3>1. copied = m.vector_fields
      BY <2>4, Zenon DEF copied
    <3>2. slots \in Seq(Field) /\ Len(slots) <= MAX_VECTOR_FIELDS /\ IsInjective(slots)
      BY <2>2, Zenon DEF SlotsFor
    <3>3. Len(copied) = MAX_VECTOR_FIELDS => Len(slots) = MAX_VECTOR_FIELDS
      BY <1>1, <2>2, <3>1, <3>2, WriteAssumption
    <3>4. QED
      BY <1>1, <2>2, <3>1, <3>2, <3>3, Zenon DEF SlotsFor
  <2>5. QED
    BY <2>3, <2>4, Zenon
<1>6. PICK p : pass' = {p} /\ p.seen = meta.wal_commit_seq /\ p.lost = lost
                /\ p.slots \in SlotsOfPass(m)
  <2>1. PICK to \in (meta.index_cursor + 1)..meta.wal_commit_seq, slots \in SlotsOfPass(meta) :
             pass' = {[to |-> to, seen |-> meta.wal_commit_seq, slots |-> slots, lost |-> lost]}
    BY Zenon DEF IndexBegin
  <2> DEFINE q == [to |-> to, seen |-> meta.wal_commit_seq, slots |-> slots, lost |-> lost]
  <2>2. q.seen = meta.wal_commit_seq /\ q.lost = lost /\ q.slots \in SlotsOfPass(m)
    BY DEF m
  <2> HIDE DEF q
  <2>3. QED
    BY <2>1, <2>2, Zenon DEF q
<1>7. p.seen + 1 \in DOMAIN history /\ history[p.seen + 1] = meta.schema
  BY <1>6 DEF WriteInv
<1>8. SlotsFor(p.slots, vector_fields_from_schema(history[p.seen + 1]) \ p.lost)
  BY <1>5, <1>6, <1>7, Zenon DEF C, m
<1>9. UNCHANGED <<body, buffer, meta, history, lost>>
  BY Zenon DEF IndexBegin
<1>10. QED
  BY <1>6, <1>7, <1>8, <1>9, Zenon DEF SlotInv

(* The commit of a pass takes the slots only of columns it did not read.   *)
LEMMA EndSlots ==
    ASSUME WriteInv, SlotInv, IndexEnd
    PROVE  SlotInv'
<1>1. pass' = {} /\ UNCHANGED <<body, buffer, history>>
  BY Zenon DEF IndexEnd
<1>2. CASE UNCHANGED <<meta, lost>>
  BY <1>1, <1>2, Zenon DEF SlotInv
<1>3. ASSUME NEW p \in pass, meta' = meta_after_index_commit(meta, p),
             lost' = p.lost \cup (vector_fields_from_schema(meta.schema)
                                    \ vector_fields_from_schema(history[p.seen + 1]))
      PROVE  SlotInv'
  <2>1. /\ meta'.schema = meta.schema /\ meta'.vector_fields = p.slots
        /\ meta'.vector_field = sync_legacy_vector_fields(p.slots, meta.vector_field)
    BY <1>3 DEF meta_after_index_commit
  <2>2. SlotsFor(p.slots, vector_fields_from_schema(history[p.seen + 1]) \ p.lost)
    BY <1>3, Zenon DEF SlotInv
  <2>3. SlotsFor(meta'.vector_fields, vector_fields_from_schema(meta.schema) \ lost')
    BY <1>3, <2>1, <2>2, Zenon DEF SlotsFor
  <2>4. SlotsFor(meta'.vector_field, {})
    BY <2>1, <2>2, LegacySlot, Zenon DEF SlotInv
  <2>5. QED
    BY <1>1, <2>1, <2>3, <2>4, Zenon DEF SlotInv
<1>4. QED
  BY <1>2, <1>3, Zenon DEF IndexEnd

LEMMA SlotNext == ASSUME WriteInv, SlotInv, [WriteNext]_writeVars PROVE SlotInv'
<1>1. CASE UNCHANGED <<body, buffer, meta, history, pass, lost>>
  BY <1>1, KeepsSlots, Zenon DEF SlotInv
<1>2. QED
  BY <1>1, EnqueueSlots, FlushSlots, BeginSlots, EndSlots, Zenon
     DEF WriteNext, writeVars, CheckRequest, CheckMetric

(* However requests race that were checked against the same meta.json, the *)
(* durable schema keeps to MAX_VECTOR_FIELDS and every vector column has a *)
(* slot, unless a field that is no column holds one, or the column was     *)
(* declared while the index pass ran that committed last (schema.rs        *)
(* merge_schema, meta.rs hydrate_vector_fields_from_schema, indexer.rs     *)
(* meta_after_index_commit).                                               *)
THEOREM VectorColumnsHaveSlots == WriteSpec => []VectorFieldsHaveSlots
<1>1. WriteInv /\ SlotInv /\ [WriteNext]_writeVars => SlotInv'
  BY SlotNext
<1>2. WriteInv /\ SlotInv => VectorFieldsHaveSlots
  <2> SUFFICES ASSUME WriteInv, SlotInv PROVE VectorFieldsHaveSlots
    OBVIOUS
  <2> DEFINE C == vector_fields_from_schema(meta.schema)
             t == meta.vector_fields
  <2>1. IsFiniteSet(C) /\ Cardinality(C) <= MAX_VECTOR_FIELDS
    BY FiniteColumns, Zenon DEF WriteInv, SlotInv
  <2>2. /\ t \in Seq(Field) /\ IsInjective(t)
        /\ C \ lost \subseteq ToSet(t) \/ Len(t) = MAX_VECTOR_FIELDS
    BY Zenon DEF SlotInv, SlotsFor
  <2>3. Len(t) = MAX_VECTOR_FIELDS /\ ToSet(t) \subseteq C => C \subseteq ToSet(t)
    BY <2>1, <2>2, FullSlots, Zenon
  <2>4. QED
    BY <2>1, <2>2, <2>3, Zenon DEF VectorFieldsHaveSlots
<1>3. QED
  BY <1>1, <1>2, SlotInit, WriteInvariance, PTL DEF WriteSpec
=============================================================================
