--------------------------- MODULE WriteRequests ---------------------------
(***************************************************************************)
(* Write requests from the handler of the API to the commit: a request is  *)
(* checked and its values are converted under the schema it reads, waits   *)
(* in the group-commit buffer, and its schema patch and distance metric    *)
(* are merged into meta.json with those of the rest of the batch.  Index   *)
(* passes put their copy of the vector columns' slots over meta.json's.    *)
(*                                                                         *)
(* A value is a string, known by the parsers that accept it, an array of   *)
(* numbers, an array of UUID strings or something else.  A request writes  *)
(* one attribute of one row, or only metadata.  GroupCommit and Namespace  *)
(* model when the buffer is flushed and what append_wal does to objects.   *)
(***************************************************************************)
EXTENDS Naturals, Sequences, FiniteSets, SequencesExt

CONSTANTS
    Field,              \* attributes, as numbers in the order of their names
    Workloads,          \* sequences of the requests clients send
    MAX_VECTOR_FIELDS,
    max_upsert_rows

Type == {"uuid", "uuids", "datetime", "vector", "string"}

Schema == UNION {[fields -> Type] : fields \in SUBSET Field}

Value == [shape : {"string", "floats", "uuids", "other"},
          parses : SUBSET {"uuid", "datetime", "vector"}, canonical : BOOLEAN]

Metric == {"none", "cosine_distance", "euclidean_squared"}

WriteBody ==
    [parses : BOOLEAN, rows : Nat, kind : {"upsert", "patch", "filter", "none"},
     field : Field, value : Value, schema : Schema, metric : Metric]

ASSUME WriteAssumption ==
    /\ Field \subseteq Nat /\ MAX_VECTOR_FIELDS \in Nat
    /\ \A w \in Workloads :
         w \in Seq(WriteBody) /\ \A r \in DOMAIN w : IsFiniteSet(DOMAIN w[r].schema)

VARIABLES
    body,       \* the requests
    stage,      \* where each request is, and how it ended
    row,        \* its value as the handler left it
    read,       \* wal_commit_seq of the meta.json it took the schema from, 0 if none
    buffer,     \* BufferState: rows, schema patch, metric and waiters
    meta,       \* meta.json
    history,    \* history: the schema after every commit
    written,    \* rows of committed batches
    pass,       \* the index pass: what it read and the slots it will write
    lost        \* history: columns declared during the pass that committed last

writeVars == <<body, stage, row, read, buffer, meta, history, written, pass, lost>>

String(parsers) == [shape |-> "string", parses |-> parsers, canonical |-> FALSE]
Floats == [shape |-> "floats", parses |-> {}, canonical |-> FALSE]
Uuids == [shape |-> "uuids", parses |-> {}, canonical |-> FALSE]
Other == [shape |-> "other", parses |-> {}, canonical |-> FALSE]

NoSchema == <<>>
NoMetric == "none"

EmptyBuffer == [ops |-> <<>>, patch |-> {}, metric |-> NoMetric, waiters |-> {}]

WriteInit ==
    /\ body \in Workloads
    /\ stage = [r \in DOMAIN body |-> "new"]
    /\ row = [r \in DOMAIN body |-> Other]
    /\ read = [r \in DOMAIN body |-> 0]
    /\ buffer = EmptyBuffer
    /\ meta = [wal_commit_seq |-> 0, index_cursor |-> 0, schema |-> NoSchema,
               distance_metric |-> "cosine_distance", vector_fields |-> <<>>,
               vector_field |-> <<>>]
    /\ history = <<NoSchema>>
    /\ written = {}
    /\ pass = {} /\ lost = {}

-----------------------------------------------------------------------------
(* The schema.  An operation that may fail returns the set of its result,  *)
(* empty when it fails.                                                    *)

TypeOf(schema, f) == IF f \in DOMAIN schema THEN schema[f] ELSE "undeclared"

vector_fields_from_schema(schema) == {f \in DOMAIN schema : schema[f] = "vector"}

Overwrite(existing, patch) ==
    [f \in DOMAIN existing \cup DOMAIN patch |->
        IF f \in DOMAIN patch THEN patch[f] ELSE existing[f]]

(* Variant: the limit is applied to the patch alone.                       *)
MergeChecksPatch(existing, patch) ==
    {s \in {Overwrite(existing, patch)} :
        Cardinality(vector_fields_from_schema(patch)) <= MAX_VECTOR_FIELDS}

merge_schema(existing, patch) ==
    {s \in {Overwrite(existing, patch)} :
        Cardinality(vector_fields_from_schema(s)) <= MAX_VECTOR_FIELDS}

(* Variant: a request with a schema is checked under that schema only.     *)
RequestSchemaOnly(base, b) == IF b.schema = NoSchema THEN {base} ELSE {b.schema}

(* The schema a request is checked under.                                  *)
effective_write_schema(base, b) ==
    IF b.schema = NoSchema
      THEN {IF b.kind = "none" THEN NoSchema ELSE base}
      ELSE merge_schema(base, b.schema)

-----------------------------------------------------------------------------
(* Values.                                                                 *)

decode_vector_value(v) ==
    IF v.shape = "floats" \/ (v.shape = "string" /\ "vector" \in v.parses)
      THEN {Floats} ELSE {}

(* A string that happens to be base64 of whole numbers is a vector, too.   *)
is_vector_value(v) == decode_vector_value(v) # {}

normalize_document_vectors(v, type) ==
    IF type = "vector" \/ is_vector_value(v) THEN decode_vector_value(v) ELSE {v}

canonicalize_str(v, parser) ==
    IF v.shape = "string" /\ parser \in v.parses
      THEN {[v EXCEPT !.canonical = TRUE]} ELSE {}

normalize_uuid_array_value(v) ==
    IF v.shape = "uuids" THEN {[v EXCEPT !.canonical = TRUE]} ELSE {}

validate_and_normalize_document_attributes(v, type) ==
    CASE type \in {"datetime", "uuid"} -> canonicalize_str(v, type)
      [] type = "uuids" -> normalize_uuid_array_value(v)
      [] OTHER -> {v}

(* A patch, of rows or by filter, may not touch a vector.                  *)
validate_patch_attributes(kind, type) == kind = "upsert" \/ type # "vector"

(* The value to store; patch_by_filter decodes no vectors.                 *)
Normalized(b, schema) ==
    LET type == TypeOf(schema, b.field)
        decoded == IF b.kind = "filter" THEN {b.value}
                   ELSE normalize_document_vectors(b.value, type)
    IN  IF b.kind = "none" THEN {Other}
        ELSE IF ~ validate_patch_attributes(b.kind, type) THEN {}
        ELSE UNION {validate_and_normalize_document_attributes(v, type) : v \in decoded}

-----------------------------------------------------------------------------
(* Ids, columns, filters and conditions parse, and there are not too many  *)
(* explicit rows.                                                          *)
WellFormed(b) == b.parses /\ b.rows <= max_upsert_rows

(* write_namespace, up to the second read of meta.json, under the schema   *)
(* base that the first one found.                                          *)
CheckUnder(r, base) ==
    LET b == body[r]
        rows == UNION {Normalized(b, s) : s \in effective_write_schema(base, b)}
    IN  \/ /\ WellFormed(b)
           /\ \E v \in rows : row' = [row EXCEPT ![r] = v]
           /\ stage' = [stage EXCEPT ![r] = "checked"]
        \/ /\ ~ WellFormed(b) \/ rows = {}
           /\ stage' = [stage EXCEPT ![r] = "rejected"]
           /\ UNCHANGED row

(* A GET of meta.json that fails is taken for a namespace without schema.  *)
CheckRequest(r) ==
    /\ stage[r] = "new"
    /\ \/ read' = [read EXCEPT ![r] = meta.wal_commit_seq] /\ CheckUnder(r, meta.schema)
       \/ read' = [read EXCEPT ![r] = 0] /\ CheckUnder(r, NoSchema)
    /\ UNCHANGED <<body, buffer, meta, history, written, pass, lost>>

(* The first commit sets the metric, the others must agree.                *)
resolve_distance_metric(m, requested) ==
    IF requested = NoMetric THEN {m.distance_metric}
    ELSE IF m.wal_commit_seq = 0 \/ requested = m.distance_metric THEN {requested}
    ELSE {}

(* The metric is checked against meta.json as it is by then, and not at    *)
(* all when meta.json cannot be read.                                      *)
CheckMetric(r) ==
    /\ stage[r] = "checked"
    /\ \/ /\ resolve_distance_metric(meta, body[r].metric) = {}
          /\ stage' = [stage EXCEPT ![r] = "rejected"]
       \/ stage' = [stage EXCEPT ![r] = "cleared"]
    /\ UNCHANGED <<body, row, read, buffer, meta, history, written, pass, lost>>

WithRow(b, r) ==
    IF body[r].kind = "none" THEN b
    ELSE [b EXCEPT !.ops = Append(@, [request |-> r, value |-> row[r]])]

(* The patch in the buffer once that of request r is merged into it.       *)
MergedPatch(r) ==
    IF body[r].schema = NoSchema THEN {buffer.patch}
    ELSE IF buffer.patch = {} THEN {{body[r].schema}}
    ELSE {{s} : s \in UNION {merge_schema(e, body[r].schema) : e \in buffer.patch}}

(* WriteBufferManager::write.  A patch that does not merge with the one in *)
(* the buffer fails its request, whose rows stay, and takes both out.      *)
Enqueue(r) ==
    /\ stage[r] = "cleared"
    /\ \/ \E p \in MergedPatch(r) :
            /\ buffer' = [WithRow(buffer, r) EXCEPT
                 !.patch = p,
                 !.metric = IF body[r].metric = NoMetric THEN @ ELSE body[r].metric,
                 !.waiters = @ \cup {r}]
            /\ stage' = [stage EXCEPT ![r] = "buffered"]
       \/ /\ MergedPatch(r) = {}
          /\ buffer' = [WithRow(buffer, r) EXCEPT !.patch = {}]
          /\ stage' = [stage EXCEPT ![r] = "failed"]
    /\ UNCHANGED <<body, row, read, meta, history, written, pass, lost>>

-----------------------------------------------------------------------------
(* The commit of a batch.                                                  *)

(* The elements of S in ascending order.                                   *)
Ascending(S) ==
    {s \in [1..Cardinality(S) -> S] :
        ToSet(s) = S /\ \A i, j \in DOMAIN s : i < j => s[i] < s[j]}

(* Fields without a slot get one while there is room.                      *)
WithSlots(slots, fields) ==
    LET room == MAX_VECTOR_FIELDS - Len(slots)
    IN  {slots \o SubSeq(missing, 1, IF Len(missing) < room THEN Len(missing) ELSE room) :
            missing \in Ascending(fields \ ToSet(slots))}

(* A commit gives slots to vector columns and takes none back.             *)
hydrate_vector_fields_from_schema(slots, schema) ==
    WithSlots(slots, vector_fields_from_schema(schema))

(* vector_field, for older readers: the first slot, or the last there was. *)
sync_legacy_vector_fields(slots, legacy) ==
    IF slots = <<>> THEN legacy ELSE <<slots[1]>>

meta_after_wal_commit_options(m, patch, metric) ==
    LET schemas == IF patch = {} THEN {m.schema}
                   ELSE UNION {merge_schema(m.schema, p) : p \in patch}
    IN  UNION {{[wal_commit_seq |-> m.wal_commit_seq + 1, index_cursor |-> m.index_cursor,
                 schema |-> s, distance_metric |-> d, vector_fields |-> slots,
                 vector_field |-> sync_legacy_vector_fields(slots, m.vector_field)] :
                    slots \in hydrate_vector_fields_from_schema(m.vector_fields, s)} :
               s \in schemas, d \in resolve_distance_metric(m, metric)}

Answer(waiters, outcome) ==
    [r \in DOMAIN stage |-> IF r \in waiters THEN outcome ELSE stage[r]]

FlushBatch ==
    LET next == meta_after_wal_commit_options(meta, buffer.patch, buffer.metric)
    IN  /\ buffer.ops # <<>> \/ buffer.patch # {} \/ buffer.metric # NoMetric
        /\ \/ \E m \in next :
                /\ meta' = m
                /\ history' = Append(history, m.schema)
                /\ written' = written \cup ToSet(buffer.ops)
                /\ stage' = Answer(buffer.waiters, "ok")
                /\ lost' = {}
           \/ /\ next = {}
              /\ stage' = Answer(buffer.waiters, "failed")
              /\ UNCHANGED <<meta, history, written, lost>>
        /\ buffer' = EmptyBuffer
        /\ UNCHANGED <<body, row, read, pass>>

-----------------------------------------------------------------------------
(* An index pass, as far as vector columns go.                             *)

(* Fields with vectors in the log.                                         *)
WithVectors == {body[o.request].field : o \in {w \in written : w.value.shape = "floats"}}

(* The fields a pass indexes; it takes a field of its first document when  *)
(* there is no slot and no column.                                         *)
vector_fields_to_index(m) ==
    LET columns == vector_fields_from_schema(m.schema)
    IN  IF m.vector_fields # <<>> THEN {ToSet(m.vector_fields)}
        ELSE IF columns # {} THEN {columns}
        ELSE IF m.vector_field # <<>> THEN {ToSet(m.vector_field)}
        ELSE {{}} \cup {{f} : f \in WithVectors}

(* The slots a pass ends with: those it read, and one for each field it    *)
(* built an index of.                                                      *)
SlotsOfPass(m) ==
    LET copied == IF m.vector_fields = <<>> THEN m.vector_field ELSE m.vector_fields
    IN  UNION {UNION {WithSlots(copied, built) : built \in SUBSET (fields \cap WithVectors)} :
                    fields \in vector_fields_to_index(m)}

IndexBegin ==
    /\ pass = {}
    /\ meta.index_cursor < meta.wal_commit_seq
    /\ \E to \in (meta.index_cursor + 1)..meta.wal_commit_seq, slots \in SlotsOfPass(meta) :
          pass' = {[to |-> to, seen |-> meta.wal_commit_seq, slots |-> slots, lost |-> lost]}
    /\ UNCHANGED <<body, stage, row, read, buffer, meta, history, written, lost>>

(* meta.json as it is by then, with the slots of the pass.                 *)
meta_after_index_commit(m, p) ==
    [wal_commit_seq |-> m.wal_commit_seq, index_cursor |-> p.to, schema |-> m.schema,
     distance_metric |-> m.distance_metric, vector_fields |-> p.slots,
     vector_field |-> sync_legacy_vector_fields(p.slots, m.vector_field)]

(* The pass commits, or fails or is timed out and leaves no trace here.    *)
IndexEnd ==
    /\ \E p \in pass :
         \/ /\ meta' = meta_after_index_commit(meta, p)
            /\ lost' = p.lost \cup (vector_fields_from_schema(meta.schema)
                                     \ vector_fields_from_schema(history[p.seen + 1]))
         \/ UNCHANGED <<meta, lost>>
    /\ pass' = {}
    /\ UNCHANGED <<body, stage, row, read, buffer, history, written>>

WriteNext ==
    \/ \E r \in DOMAIN body : CheckRequest(r) \/ CheckMetric(r) \/ Enqueue(r)
    \/ FlushBatch
    \/ IndexBegin \/ IndexEnd

WriteSpec == WriteInit /\ [][WriteNext]_writeVars

-----------------------------------------------------------------------------
(* However requests that were checked against the same meta.json race,     *)
(* alone or in one batch, the durable schema keeps to the limit of vector  *)
(* columns and each column has a slot of vector_fields, unless a field     *)
(* that is no column holds on to one.  An index commit writes back the     *)
(* list its pass copied, so columns declared meanwhile, and those only,    *)
(* are without a slot until the next batch commits (schema.rs              *)
(* merge_schema, meta.rs hydrate_vector_fields_from_schema, indexer.rs     *)
(* meta_after_index_commit).                                               *)
VectorFieldsHaveSlots ==
    LET columns == vector_fields_from_schema(meta.schema)
        slots == ToSet(meta.vector_fields)
    IN  /\ Cardinality(columns) <= MAX_VECTOR_FIELDS
        /\ \/ columns \ lost \subseteq slots
           \/ Len(meta.vector_fields) = MAX_VECTOR_FIELDS /\ slots \ columns # {}

Fits(v, type, kind) ==
    CASE type \in {"datetime", "uuid"} -> v.shape = "string" /\ v.canonical
      [] type = "uuids" -> v.shape = "uuids" /\ v.canonical
      [] type = "vector" -> v.shape = "floats" /\ kind = "upsert"
      [] OTHER -> TRUE

(* A stored value has the canonical form of its column's type, as filters  *)
(* compare it, whenever that type is the one the request declared or found *)
(* when it was checked.  Only a type that was declared after the check, or *)
(* that the handler did not see because its GET of meta.json failed, can   *)
(* meet values of another form (api.rs effective_write_schema).            *)
RowsFitSchema ==
    \A o \in written :
        LET b == body[o.request]
            known == Overwrite(history[read[o.request] + 1], b.schema)
            type == TypeOf(known, b.field)
        IN  TypeOf(meta.schema, b.field) = type => Fits(o.value, type, b.kind)

(* Once something is committed the distance metric never changes, though   *)
(* requests with different metrics passed the check of the handler before  *)
(* the first commit (meta.rs resolve_distance_metric).                     *)
MetricFixed ==
    [][meta.wal_commit_seq > 0 => meta'.distance_metric = meta.distance_metric]_writeVars
=============================================================================
