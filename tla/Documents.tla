----------------------------- MODULE Documents -----------------------------
(***************************************************************************)
(* Documents, WAL entries and what one entry does to a document map        *)
(* (src/src/wal.rs, src/src/view.rs, src/src/index/fts.rs).                *)
(*                                                                         *)
(* A document is a partial function from attribute names to values; a      *)
(* document map is a partial function from ids to documents.  An attribute *)
(* value is a pair <<kind, code>>: "s" a string, "n" a number, "b" a       *)
(* Boolean (0 or 1), "v" a vector and "null" JSON's null; codes are        *)
(* integers ordered like the values they stand for.                        *)
(*                                                                         *)
(* The lists of a WAL entry are represented by what they do: upserts (the  *)
(* last row of an id wins) and patches (merged from left to right) by      *)
(* partial functions of ids, deletes by a set of ids.                      *)
(***************************************************************************)
EXTENDS Integers, Sequences, FiniteSets, TLC

EmptyMap == [x \in {} |-> x]

Without(map, keys) == [x \in DOMAIN map \ keys |-> map[x]]

WalEntry(upserts, patches, deletes) ==
    [upserts |-> upserts, patches |-> patches, deletes |-> deletes]

merge_document_attributes(doc, patch) == patch @@ doc

(* deletes, then full upserts, then patches; a patch of a missing id is ignored *)
apply_entry(docs, entry) ==
    LET base == entry.upserts @@ Without(docs, entry.deletes)
    IN  [id \in DOMAIN base |->
            IF id \in DOMAIN entry.patches
            THEN merge_document_attributes(base[id], entry.patches[id])
            ELSE base[id]]

(* The map that a prefix of the log leaves behind; docsAt[k] for k entries. *)
ReplayFrom(docs, log, from, to) ==
    LET r[k \in Nat] == IF k < from THEN docs ELSE apply_entry(r[k - 1], log[k])
    IN  r[to]

Replay(log, to) == ReplayFrom(EmptyMap, log, 1, to)

wal_touched_doc_ids(entry) ==
    entry.deletes \cup DOMAIN entry.upserts \cup DOMAIN entry.patches

TouchedIn(log, from, to) == UNION {wal_touched_doc_ids(log[k]) : k \in from..to}

-----------------------------------------------------------------------------
(* The rows an index pass hands to apply_delta: a map of rows to add and a *)
(* set of ids to remove.                                                   *)

(* Without patches: the rows and the deletes of all entries, concatenated. *)
concatenated_delta(log, from, to) ==
    LET up[k \in Nat] == IF k < from THEN EmptyMap ELSE log[k].upserts @@ up[k - 1]
    IN  [upserts |-> up[to], deletes |-> UNION {log[k].deletes : k \in from..to}]

(* With patches: replay the range over the documents at the cursor and     *)
(* collect, per touched row, the last version the replay left in the map.  *)
collect_index_delta(baseline, log, from, to) ==
    LET st[k \in Nat] ==
          IF k < from
          THEN [docs |-> baseline, upserts |-> EmptyMap]
          ELSE LET docs == apply_entry(st[k - 1].docs, log[k])
                   rows == (DOMAIN log[k].upserts \cup DOMAIN log[k].patches) \cap DOMAIN docs
               IN  [docs    |-> docs,
                    upserts |-> [id \in rows |-> docs[id]] @@ st[k - 1].upserts]
    IN  [upserts |-> st[to].upserts, deletes |-> UNION {log[k].deletes : k \in from..to}]

has_patches(log, from, to) == \E k \in from..to : DOMAIN log[k].patches # {}

index_delta_from_wal_entries(log, from, to) ==
    IF has_patches(log, from, to)
    THEN collect_index_delta(Replay(log, from - 1), log, from, to)
    ELSE concatenated_delta(log, from, to)

-----------------------------------------------------------------------------
(* doc_last_wal_seq: per document, the last WAL sequence number that       *)
(* touched it; an eventual query shows the documents whose number is       *)
(* covered by the index.                                                   *)

(* Variant: a patch does not count as a touch. *)
SeqMapIgnoresPatches(seqs, entry, seq) ==
    [id \in DOMAIN entry.upserts |-> seq] @@ Without(seqs, entry.deletes)

update_doc_wal_seq_map(seqs, entry, seq) ==
    LET base == [id \in DOMAIN entry.upserts |-> seq] @@ Without(seqs, entry.deletes)
    IN  [id \in DOMAIN base |-> IF id \in DOMAIN entry.patches THEN seq ELSE base[id]]

SeqMapFrom(seqs, log, from, to) ==
    LET r[k \in Nat] == IF k < from THEN seqs ELSE update_doc_wal_seq_map(r[k - 1], log[k], k)
    IN  r[to]
=============================================================================
