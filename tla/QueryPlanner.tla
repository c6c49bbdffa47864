---------------------------- MODULE QueryPlanner ----------------------------
(***************************************************************************)
(* execute_query (src/src/search.rs): candidates from the index segments   *)
(* and from the unindexed tail, the filter, the scores, the ranking.       *)
(*                                                                         *)
(* A query context is a record                                             *)
(*   docs, tail_doc_ids, strong        the view, the tail, the consistency *)
(*   fts, filter_index                 segments, or NoSegment              *)
(*   vectors                           field -> [dimensions, members], the *)
(*                                     members a set of <<id, vector>>     *)
(*   ann_rerank                        widen the ANN pool                  *)
(* A vector is <<"v", dimensions, x>>: it lies on the first axis, so that  *)
(* both metrics are exact on integers.  Vector indexes have at most 32     *)
(* fine centroids, where the probe takes every cluster.  Scores are        *)
(* fractions <<n, d>>; <<-1, 0>> is negative infinity.                     *)
(***************************************************************************)
EXTENDS Filters, FtsSegment

CONSTANTS DistanceMetric,  \* "euclidean" or "cosine"
          MAX_TOP_K, DEFAULT_TOP_K,
          POOL_FACTOR, POOL_FLOOR  \* candidate_pool: 8 * top_k, at least 64

NoSegment == [none |-> TRUE]
NoFilter == [op |-> "None"]
NoOrder == [field |-> ""]
Unset == -1
Err == <<"Err">>

Vector(field, query) == [op |-> "Vector", field |-> field, query |-> query]
Bm25(field, query) == [op |-> "Bm25", field |-> field, query |-> query]
Sum2(subs) == [op |-> "Sum", subs |-> subs]
Product2(subs) == [op |-> "Product", subs |-> subs]

-----------------------------------------------------------------------------
(* Scores.                                                                 *)

Score(n) == <<n, 1>>
Zero == <<0, 1>>
One == <<1, 1>>
NegInfinity == <<-1, 0>>
is_finite(s) == s[2] # 0
Greater(a, b) == a[1] * b[2] > b[1] * a[2]
Plus(a, b) == <<a[1] * b[2] + b[1] * a[2], a[2] * b[2]>>
Times(a, b) == <<a[1] * b[1], a[2] * b[2]>>
Ratio(a, low, high) ==  \* (a - low) / (high - low)
    <<(a[1] * low[2] - low[1] * a[2]) * high[2], (high[1] * low[2] - low[1] * high[2]) * a[2]>>

extract_vector(doc, field) ==
    IF field \in DOMAIN doc /\ doc[field][1] = "v" THEN doc[field] ELSE None

Sign(x) == IF x > 0 THEN 1 ELSE IF x < 0 THEN -1 ELSE 0

(* higher is better: minus the squared distance, or the cosine *)
score_vector(query, vec) ==
    IF DistanceMetric = "euclidean"
    THEN Score(-((query[3] - vec[3]) * (query[3] - vec[3])))
    ELSE Score(Sign(query[3]) * Sign(vec[3]))

vector_raw_score(doc, field, query) ==
    LET v == extract_vector(doc, field)
    IN  IF v # None /\ v[2] = query[2] THEN score_vector(query, v) ELSE NegInfinity

bm25_raw_score(doc, field, query) == Score(bm25_doc_score(extract_index_text(doc, field), query))

(* the score of one member of the id; which one, the hash order decides *)
score_doc_id(vindex, id, query) ==
    score_vector(query, (CHOOSE m \in vindex.members : m[1] = id)[2])

-----------------------------------------------------------------------------
(* The vector index as the planner sees it, every cluster probed.          *)

candidate_doc_ids(vindex, query) == {m[1] : m \in vindex.members}

(* the best top_k ids, each by its best member *)
query_ann(vindex, query, top_k) ==
    LET ids == candidate_doc_ids(vindex, query)
        beats(a, b) ==
            \E m \in vindex.members : m[1] = a /\ \A n \in vindex.members : n[1] = b =>
                \/ Greater(score_vector(query, m[2]), score_vector(query, n[2]))
                \/ a < b /\ ~Greater(score_vector(query, n[2]), score_vector(query, m[2]))
    IN  {id \in ids : Cardinality({x \in ids \ {id} : beats(x, id)}) < top_k}

-----------------------------------------------------------------------------
(* Candidates.                                                             *)

use_tail(ctx) == ctx.strong


Proposed(ctx, ids) == IF use_tail(ctx) THEN ids \ ctx.tail_doc_ids ELSE ids

(* documents of the tail that are still in the view *)
for_each_tail(ctx) == IF use_tail(ctx) THEN ctx.tail_doc_ids \cap DOMAIN ctx.docs ELSE {}

collect_bm25_candidates(ctx, field, query, pool) ==
    LET hit(doc) == bm25_doc_score(extract_index_text(doc, field), query) > 0
        indexed  == IF ctx.fts = NoSegment THEN {}
                    ELSE Proposed(ctx, fts_candidate_doc_ids(ctx.fts, query)
                                         \cup query_bm25(ctx.fts, query, pool))
        ids      == indexed \cup {id \in for_each_tail(ctx) : hit(ctx.docs[id])}
    IN  IF ctx.fts = NoSegment /\ ids = {}
        THEN {id \in DOMAIN ctx.docs : hit(ctx.docs[id])}
        ELSE ids

collect_vector_candidates(ctx, field, query, pool) ==
    LET fits(doc) == extract_vector(doc, field) # None /\ extract_vector(doc, field)[2] = query[2]
        has       == field \in DOMAIN ctx.vectors
        indexed   == IF ~has \/ ctx.vectors[field].dimensions # query[2] THEN {}
                     ELSE Proposed(ctx, IF ctx.ann_rerank
                                        THEN candidate_doc_ids(ctx.vectors[field], query)
                                        ELSE query_ann(ctx.vectors[field], query, pool))
        ids       == indexed \cup {id \in for_each_tail(ctx) : fits(ctx.docs[id])}
    IN  IF ~has /\ ids = {}
        THEN {id \in DOMAIN ctx.docs : fits(ctx.docs[id])}
        ELSE ids

(* an eventual query trusts the index: ids need not be in the view *)
filter_existing_docs(ctx, ids) == IF ctx.strong THEN ids \cap DOMAIN ctx.docs ELSE ids

RECURSIVE collect_candidates(_, _, _)
collect_candidates(ctx, ranker, pool) ==
    LET child(k) == collect_candidates(ctx, ranker.subs[k], pool)
        subs == DOMAIN ranker.subs
    IN  filter_existing_docs(ctx,
          CASE ranker.op = "Bm25"    -> collect_bm25_candidates(ctx, ranker.field, ranker.query, pool)
            [] ranker.op = "Vector"  -> collect_vector_candidates(ctx, ranker.field, ranker.query, pool)
            [] ranker.op = "Sum"     -> UNION {child(k) : k \in subs}
            [] ranker.op = "Product" -> IF subs = {} THEN {}
                                        ELSE {id \in child(1) : \A k \in subs : id \in child(k)})


(* the filter index, corrected by the tail for a strong query *)
matching_doc_ids_for_filter(ctx, expr) ==
    IF ctx.filter_index = NoSegment
    THEN {id \in DOMAIN ctx.docs : eval_filter(expr, id, ctx.docs[id])}
    ELSE IF ~ctx.strong THEN matching_doc_ids(ctx.filter_index, expr)
    ELSE {id \in DOMAIN ctx.docs :
            IF id \in ctx.tail_doc_ids THEN eval_filter(expr, id, ctx.docs[id])
                                       ELSE id \in matching_doc_ids(ctx.filter_index, expr)}

-----------------------------------------------------------------------------
(* Scoring.  The result maps the ids that are kept to their scores.        *)

min_max_normalize(scored) ==
    LET finite == {scored[id] : id \in {x \in DOMAIN scored : is_finite(scored[x])}}
        low    == CHOOSE s \in finite : \A t \in finite : ~Greater(s, t)
        high   == CHOOSE s \in finite : \A t \in finite : ~Greater(t, s)
        norm(s) == IF ~is_finite(s) THEN Zero
                   ELSE IF ~Greater(high, low) THEN IF Greater(s, Zero) THEN One ELSE Zero
                   ELSE Ratio(s, low, high)
    IN  [id \in DOMAIN scored |-> norm(scored[id])]

(* a Sum keeps an id whose normalised parts are all zero if a raw signal is *)
(* positive; a Product drops it                                             *)
KeepScore(sum, score, any_positive_raw) == Greater(score, Zero) \/ (sum /\ any_positive_raw)

RECURSIVE score_candidates(_, _, _)
score_candidates(ctx, ranker, ids) ==
    LET known    == ids \cap DOMAIN ctx.docs
        members  == IF ranker.op = "Vector" /\ ranker.field \in DOMAIN ctx.vectors
                       /\ ranker.query[2] = ctx.vectors[ranker.field].dimensions
                    THEN candidate_doc_ids(ctx.vectors[ranker.field], ranker.query) ELSE {}
        raw      == [k \in DOMAIN ranker.subs |-> score_candidates(ctx, ranker.subs[k], ids)]
        norm     == [k \in DOMAIN ranker.subs |-> min_max_normalize(raw[k])]
        part(k, id) == IF id \in DOMAIN norm[k] THEN norm[k][id] ELSE Zero
        positive(id) == \E k \in DOMAIN raw : id \in DOMAIN raw[k] /\ Greater(raw[k][id], Zero)
        sum      == [id \in ids |-> FoldSet(LAMBDA k, s : Plus(s, part(k, id)), Zero, DOMAIN norm)]
        product  == [id \in ids |-> FoldSet(LAMBDA k, s : Times(s, part(k, id)), One, DOMAIN norm)]
        keep(isSum, score) ==
            [id \in {x \in ids : KeepScore(isSum, score[x], positive(x))} |-> score[id]]
    IN  CASE ranker.op = "Bm25" ->
               [id \in known |-> bm25_raw_score(ctx.docs[id], ranker.field, ranker.query)]
          [] ranker.op = "Vector" ->
               [id \in known \cup (ids \cap members) |->
                   IF id \in known THEN vector_raw_score(ctx.docs[id], ranker.field, ranker.query)
                   ELSE score_doc_id(ctx.vectors[ranker.field], id, ranker.query)]
          [] ranker.op = "Sum"     -> keep(TRUE, sum)
          [] ranker.op = "Product" -> keep(FALSE, product)

-----------------------------------------------------------------------------
(* Ordering by an attribute: null, then numbers, then strings.             *)

attr_sort_key(ctx, id, field) ==
    LET v == IF id \in DOMAIN ctx.docs /\ field \in DOMAIN ctx.docs[id]
             THEN ctx.docs[id][field] ELSE Null
    IN  CASE v[1] \in {"n", "b"} -> <<1, v[2]>>
          [] v[1] = "s"          -> <<2, v[2]>>
          [] OTHER               -> <<0, 0>>

KeyLess(a, b) == a[1] < b[1] \/ (a[1] = b[1] /\ a[2] < b[2])

compare_docs_by_attribute(ctx, a, b, order_by) ==
    LET x == attr_sort_key(ctx, a, order_by.field)
        y == attr_sort_key(ctx, b, order_by.field)
    IN  order_by # NoOrder /\ IF order_by.descending THEN KeyLess(y, x) ELSE KeyLess(x, y)

(* score descending, then the attribute, then the id *)
RanksBefore(ctx, scored, order_by, a, b) ==
    \/ Greater(scored[a], scored[b])
    \/ /\ ~Greater(scored[b], scored[a])
       /\ \/ compare_docs_by_attribute(ctx, a, b, order_by)
          \/ ~compare_docs_by_attribute(ctx, b, a, order_by) /\ a < b

-----------------------------------------------------------------------------
(* The request: [rank_by, filters, top_k, order_by].                       *)

parse_top_k(top_k) == IF top_k = Unset THEN DEFAULT_TOP_K
                      ELSE IF top_k \in 1..MAX_TOP_K THEN top_k ELSE Unset

RECURSIVE validate_ranker_vector_dims(_, _)
validate_ranker_vector_dims(ctx, ranker) ==
    CASE ranker.op = "Vector" ->
            ranker.field \in DOMAIN ctx.vectors =>
                ranker.query[2] = ctx.vectors[ranker.field].dimensions
      [] ranker.op \in {"Sum", "Product"} ->
            \A k \in DOMAIN ranker.subs : validate_ranker_vector_dims(ctx, ranker.subs[k])
      [] OTHER -> TRUE

RECURSIVE vector_probe_specs(_)
vector_probe_specs(ranker) ==
    CASE ranker.op = "Vector" -> {<<ranker.field, ranker.query>>}
      [] ranker.op \in {"Sum", "Product"} ->
            UNION {vector_probe_specs(ranker.subs[k]) : k \in DOMAIN ranker.subs}
      [] OTHER -> {}

(* the rows of the answer, best first, or Err *)
execute_query(ctx, req) ==
    LET top_k == parse_top_k(req.top_k)
        pool  == IF POOL_FACTOR * top_k > POOL_FLOOR THEN POOL_FACTOR * top_k ELSE POOL_FLOOR
        found == collect_candidates(ctx, req.rank_by, pool)
        ids   == IF req.filters = NoFilter THEN found
                 ELSE found \cap matching_doc_ids_for_filter(ctx, req.filters)
        scored == score_candidates(ctx, req.rank_by, ids)
        ranked == SetToSortSeq(DOMAIN scored,
                     LAMBDA a, b : RanksBefore(ctx, scored, req.order_by, a, b))
    IN  IF top_k = Unset \/ ~validate_ranker_vector_dims(ctx, req.rank_by) THEN Err
        ELSE SubSeq(ranked, 1, IF Len(ranked) < top_k THEN Len(ranked) ELSE top_k)
=============================================================================
