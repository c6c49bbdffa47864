---------------------------- MODULE FtsSegment -----------------------------
(***************************************************************************)
(* The full-text segment (src/src/index/fts.rs) and its tokenizer          *)
(* (src/src/index/fts_tokenizer.rs).                                       *)
(*                                                                         *)
(* A string is the code c of a value <<"s", c>>; Words[c] is the sequence  *)
(* of words the Unicode splitting finds in it, in lower case.  The BM25    *)
(* score, a float, is abstracted to the number of occurrences of query     *)
(* terms: like the float it is positive exactly when the document contains *)
(* a term of the query, because the code's idf, ln(x + 1), is positive for *)
(* every posting count up to num_docs.                                     *)
(***************************************************************************)
EXTENDS Documents, SequencesExt

CONSTANTS Words,      \* string code -> sequence of words
          StopWords,  \* words the tokenizer drops
          FtsField    \* primary_fts_field; "": every string attribute

tokenize(words) == SelectSeq(words, LAMBDA w : w \notin StopWords)

value_to_text(v) == IF v[1] = "s" THEN Words[v[2]] ELSE << v >>

StringFields(doc) == {f \in DOMAIN doc : doc[f][1] = "s"}

(* the text of one field, or of all string attributes *)
extract_index_text(doc, field) ==
    IF field # ""
    THEN IF field \in DOMAIN doc THEN value_to_text(doc[field]) ELSE <<>>
    ELSE FoldSet(LAMBDA f, text : text \o value_to_text(doc[f]), <<>>, StringFields(doc))

Occurrences(term, tokens) == Cardinality({k \in DOMAIN tokens : tokens[k] = term})

(* postings: one triple <<term, id, term_freq>> per posting *)
EmptyFtsSegment == [num_docs |-> 0, total_doc_len |-> 0, doc_lengths |-> EmptyMap, postings |-> {}]

fts_add_document(seg, id, doc) ==
    LET tokens == tokenize(extract_index_text(doc, FtsField))
    IN  IF tokens = <<>> THEN seg
        ELSE [num_docs      |-> seg.num_docs + 1,
              total_doc_len |-> seg.total_doc_len + Len(tokens),
              doc_lengths   |-> (id :> Len(tokens)) @@ seg.doc_lengths,
              postings      |-> seg.postings
                                  \cup {<<t, id, Occurrences(t, tokens)>> : t \in ToSet(tokens)}]

SaturatingSub(a, b) == IF a > b THEN a - b ELSE 0

fts_remove_document(seg, id) ==
    IF id \notin DOMAIN seg.doc_lengths THEN seg
    ELSE [num_docs      |-> SaturatingSub(seg.num_docs, 1),
          total_doc_len |-> SaturatingSub(seg.total_doc_len, seg.doc_lengths[id]),
          doc_lengths   |-> Without(seg.doc_lengths, {id}),
          postings      |-> {p \in seg.postings : p[2] # id}]

(* deletes first, then every upsert: remove the old row, add the new one *)
fts_apply_delta(seg, delta) ==
    LET kept == FoldSet(LAMBDA id, s : fts_remove_document(s, id), seg, delta.deletes)
        upsert(id, s) == fts_add_document(fts_remove_document(s, id), id, delta.upserts[id])
    IN  FoldSet(upsert, kept, DOMAIN delta.upserts)

fts_build(docs) == fts_apply_delta(EmptyFtsSegment, [upserts |-> docs, deletes |-> {}])

(* ids in the posting lists of the query's terms *)
fts_candidate_doc_ids(seg, query) ==
    {p[2] : p \in {q \in seg.postings : q[1] \in ToSet(tokenize(Words[query]))}}

(* the best top_k of them by the score over their postings *)
query_bm25(seg, query, top_k) ==
    LET ids == fts_candidate_doc_ids(seg, query)
        score(id) == FoldSet(LAMBDA p, sum : sum + p[3], 0,
                       {p \in seg.postings : p[2] = id /\ p[1] \in ToSet(tokenize(Words[query]))})
        before(a, b) == score(a) > score(b) \/ (score(a) = score(b) /\ a < b)
    IN  {id \in ids : Cardinality({x \in ids : before(x, id)}) < top_k}

bm25_doc_score(text, query) ==
    LET terms == tokenize(Words[query])
        found(k) == Occurrences(terms[k], tokenize(text))
    IN  FoldSet(LAMBDA k, sum : sum + found(k), 0, DOMAIN terms)
=============================================================================
