------------------------------ MODULE Filters ------------------------------
(***************************************************************************)
(* The filter language (src/src/filter.rs) and the attribute filter index  *)
(* (src/src/index/filter.rs).                                              *)
(*                                                                         *)
(* An expression is [op |-> "And" or "Or", subs |-> sequence] or           *)
(* [op |-> comparison, field |-> name, value |-> value]; "In" is an Or of  *)
(* Eq, as parse_filter makes it.  A value is a pair of module Documents or *)
(* <<"ref", field>>, which stands for {"$ref_new": field}.                 *)
(***************************************************************************)
EXTENDS Documents

CONSTANT FilterFields  \* fields the schema makes filterable; {}: every attribute

None == <<"none", 0>>
Null == <<"null", 0>>

CmpOps == {"Eq", "Ne", "Gt", "Gte", "Lt", "Lte"}

And(subs) == [op |-> "And", subs |-> subs]
Or(subs) == [op |-> "Or", subs |-> subs]
Cmp(field, op, value) == [op |-> op, field |-> field, value |-> value]
In(field, values) == Or([k \in 1..Len(values) |-> Cmp(field, "Eq", values[k])])

(* null and anything that is not a scalar have no filter value *)
attr_to_filter_value(v) == IF v[1] \in {"s", "n", "b"} THEN v ELSE None

doc_field_value(id, doc, field) ==
    IF field = "id" THEN <<"s", id>>
    ELSE IF field \in DOMAIN doc THEN attr_to_filter_value(doc[field]) ELSE None

(* new: the row a conditional write brings (EmptyMap when there is none); *)
(* ref_new_null: the condition of a delete                                *)
resolve_rhs(value, id, new, ref_new_null) ==
    IF value[1] # "ref" THEN value
    ELSE IF ref_new_null THEN Null
    ELSE doc_field_value(id, new, value[2])

Numeric(v) == v[1] \in {"n", "b"}

(* strings with strings; a Boolean compares with a number as 0 or 1 *)
compare_values(lhs, rhs) ==
    IF (lhs[1] = "s" /\ rhs[1] = "s") \/ (Numeric(lhs) /\ Numeric(rhs))
    THEN IF lhs[2] < rhs[2] THEN "Less" ELSE IF lhs[2] > rhs[2] THEN "Greater" ELSE "Equal"
    ELSE "None"

OrderingMeets(op, ord) ==
    \/ op = "Gt"  /\ ord = "Greater"
    \/ op = "Gte" /\ ord \in {"Greater", "Equal"}
    \/ op = "Lt"  /\ ord = "Less"
    \/ op = "Lte" /\ ord \in {"Less", "Equal"}

eval_cmp(id, doc, expr, new, ref_new_null) ==
    LET lhs == doc_field_value(id, doc, expr.field)
        rhs == resolve_rhs(expr.value, id, new, ref_new_null)
    IN  CASE rhs = None -> expr.op = "Ne" /\ lhs = None
          [] rhs # None /\ expr.op = "Eq" -> lhs = rhs \/ (lhs = None /\ rhs = Null)
          [] rhs # None /\ expr.op = "Ne" -> lhs # rhs /\ ~(lhs = None /\ rhs = Null)
          [] OTHER -> lhs # None /\ OrderingMeets(expr.op, compare_values(lhs, rhs))

RECURSIVE eval_filter_with_new(_, _, _, _, _)
eval_filter_with_new(expr, id, doc, new, ref_new_null) ==
    CASE expr.op = "And" ->
            \A k \in DOMAIN expr.subs : eval_filter_with_new(expr.subs[k], id, doc, new, ref_new_null)
      [] expr.op = "Or" ->
            \E k \in DOMAIN expr.subs : eval_filter_with_new(expr.subs[k], id, doc, new, ref_new_null)
      [] OTHER -> eval_cmp(id, doc, expr, new, ref_new_null)

eval_filter(expr, id, doc) == eval_filter_with_new(expr, id, doc, EmptyMap, FALSE)

(* Conditional writes: an upsert of a missing id is a create, a patch or a *)
(* delete of a missing id is skipped.                                      *)
should_apply_upsert(expr, docs, id, new) ==
    id \in DOMAIN docs => eval_filter_with_new(expr, id, docs[id], new, FALSE)

should_apply_patch(expr, docs, id, patch) ==
    id \in DOMAIN docs /\ eval_filter_with_new(expr, id, docs[id], patch, FALSE)

should_apply_delete(expr, docs, id) ==
    id \in DOMAIN docs /\ eval_filter_with_new(expr, id, docs[id], EmptyMap, TRUE)

-----------------------------------------------------------------------------
(* FilterSegment: the ids of the segment and its postings, one triple      *)
(* <<field, value, id>> per (field, value key) entry an id is listed in.   *)
(* A value key keeps the value's kind and value ("s:..", "n:..", "b:.."),  *)
(* so it is the value itself; Null has the key "null", listed nowhere.     *)

EmptyFilterSegment == [all_doc_ids |-> {}, postings |-> {}]

FilterPostings(id, doc) ==
    LET fields == IF FilterFields = {} THEN DOMAIN doc ELSE FilterFields \cap DOMAIN doc
    IN  {<<f, doc[f], id>> : f \in {g \in fields : attr_to_filter_value(doc[g]) # None}}

filter_add_document(seg, id, doc) ==
    [all_doc_ids |-> seg.all_doc_ids \cup {id},
     postings    |-> seg.postings \cup FilterPostings(id, doc)]

(* Variant: the postings of a removed document stay. *)
KeepPostings(seg, ids) == [seg EXCEPT !.all_doc_ids = @ \ ids]

filter_remove_documents(seg, ids) ==
    [all_doc_ids |-> seg.all_doc_ids \ ids,
     postings    |-> {p \in seg.postings : p[3] \notin (ids \cap seg.all_doc_ids)}]

(* deletes first, then every upsert: remove the old row, add the new one *)
filter_apply_delta(seg, delta) ==
    LET rows == DOMAIN delta.upserts
        kept == filter_remove_documents(seg, delta.deletes \cup rows)
    IN  [all_doc_ids |-> kept.all_doc_ids \cup rows,
         postings    |-> kept.postings \cup UNION {FilterPostings(id, delta.upserts[id]) : id \in rows}]

filter_build(docs) == filter_apply_delta(EmptyFilterSegment, [upserts |-> docs, deletes |-> {}])

(* the index compares a stored value only with one of its own kind *)
cmp_values(lhs, rhs, op) == lhs[1] = rhs[1] /\ OrderingMeets(op, compare_values(lhs, rhs))

match_cmp(seg, expr) ==
    LET listed(test(_)) == {p[3] : p \in {q \in seg.postings : q[1] = expr.field /\ test(q[2])}}
        same(v) == v = expr.value
        meets(v) == cmp_values(v, expr.value, expr.op)
    IN  CASE expr.op = "Eq" -> listed(same)
          [] expr.op = "Ne" -> seg.all_doc_ids \ listed(same)
          [] OTHER          -> listed(meets)

RECURSIVE matching_doc_ids(_, _)
matching_doc_ids(seg, expr) ==
    CASE expr.op = "And" ->
            LET first == IF expr.subs = <<>> THEN seg.all_doc_ids
                                             ELSE matching_doc_ids(seg, expr.subs[1])
            IN  {id \in first : \A k \in DOMAIN expr.subs : id \in matching_doc_ids(seg, expr.subs[k])}
      [] expr.op = "Or" -> UNION {matching_doc_ids(seg, expr.subs[k]) : k \in DOMAIN expr.subs}
      [] OTHER -> match_cmp(seg, expr)
=============================================================================
