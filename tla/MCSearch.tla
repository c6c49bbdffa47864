------------------------------ MODULE MCSearch ------------------------------
(***************************************************************************)
(* Two documents with a text, a filterable number and a vector and one     *)
(* without vector; entries that insert, replace, patch and delete them.    *)
(* Beside them, in behaviours of their own, three write requests on their  *)
(* way to the commit.                                                      *)
(***************************************************************************)
EXTENDS SearchNamespace, WriteRequests

Doc(text, n, x) == ("t" :> <<"s", text>>) @@ ("a" :> <<"n", n>>) @@ ("v" :> <<"v", 1, x>>)

Upsert(id, doc) == WalEntry(id :> doc, EmptyMap, {})

\* string 1: "red fox", 2: "red", 3: "the fox fox"
MCWords == << <<"red", "fox">>, <<"red">>, <<"the", "fox", "fox">> >>

MCEntries ==
    { Upsert(1, Doc(1, 1, 1)),
      Upsert(1, Doc(2, 2, -1)),
      Upsert(2, Doc(3, 1, 3)),
      WalEntry(EmptyMap, 1 :> ("a" :> <<"n", 2>> @@ "t" :> <<"s", 3>>), {}),
      WalEntry(3 :> ("t" :> <<"s", 3>> @@ "a" :> <<"n", 2>>), EmptyMap, {1}),
      WalEntry(EmptyMap, EmptyMap, {1}) }

Ask(rank_by, filters, top_k, order_by) ==
    [rank_by |-> rank_by, filters |-> filters, top_k |-> top_k, order_by |-> order_by]

Fox == Bm25("t", 3)
Near == Vector("v", <<"v", 1, 2>>)
Hybrid == Sum2(<<Fox, Near>>)
Is(n) == Cmp("a", "Eq", <<"n", n>>)

MCRequests ==
    { Ask(Fox, NoFilter, 2, NoOrder),
      Ask(Bm25("t", 2), NoFilter, 2, [field |-> "a", descending |-> TRUE]),
      Ask(Bm25("t", 2), Is(2), 1, NoOrder),
      Ask(Near, NoFilter, Unset, NoOrder),
      Ask(Near, Cmp("a", "Ne", <<"n", 1>>), 1, NoOrder),
      Ask(Hybrid, NoFilter, 3, NoOrder),
      Ask(Product2(<<Fox, Near>>), NoFilter, 2, NoOrder),
      Ask(Fox, NoFilter, 0, NoOrder) }

MCConditions ==
    { Is(1), Cmp("a", "Gt", <<"n", 1>>), In("a", << <<"n", 1>>, <<"n", 2>> >>),
      And(<<Cmp("a", "Ne", <<"n", 2>>), Cmp("a", "Lte", <<"n", 2>>)>>),
      Or(<<Is(2), Cmp("t", "Eq", <<"s", 3>>)>>) }
-----------------------------------------------------------------------------
Body(kind, field, value, schema, metric) ==
    [parses |-> TRUE, rows |-> 1, kind |-> kind, field |-> field, value |-> value,
     schema |-> schema, metric |-> metric]

Row(kind, field, value) == Body(kind, field, value, NoSchema, NoMetric)
Declare(schema) == Body("none", 1, Other, schema, NoMetric)

UuidText == String({"uuid"})
Blob == String({"vector"})          \* base64 of floats
HexUuid == String({"uuid", "vector"})

MCBodies ==
    { Declare(1 :> "uuid"), Declare(1 :> "vector"), Declare(2 :> "vector"),
      Declare(2 :> "vector" @@ 3 :> "vector"), Declare(1 :> "string"), Declare(2 :> "string"),
      Row("upsert", 1, UuidText), Row("upsert", 1, Blob), Row("upsert", 1, HexUuid),
      Row("patch", 1, Floats), Row("filter", 1, UuidText), Row("upsert", 1, Other),
      Body("upsert", 2, String({"datetime"}), 2 :> "datetime", NoMetric),
      Body("upsert", 1, UuidText, 2 :> "vector", NoMetric),
      Body("upsert", 2, Uuids, 2 :> "uuids", "euclidean_squared"),
      Body("none", 1, Other, NoSchema, "cosine_distance"),
      [Row("upsert", 2, Floats) EXCEPT !.rows = 3],
      [Row("upsert", 2, Floats) EXCEPT !.parses = FALSE] }

\* one request that declares columns and any two others; the empty workload
\* leaves the namespace to the searches
MCWorkloads ==
    {<<>>} \cup {<<b>> \o SetToSeq(two) :
        b \in {Declare(1 :> "uuid"), Declare(2 :> "vector")},
        two \in kSubset(2, MCBodies)}

MCInit == Init /\ WriteInit

MCNext ==
    \/ body = <<>> /\ Next /\ UNCHANGED writeVars
    \/ WriteNext /\ UNCHANGED vars

MCSpec == MCInit /\ [][MCNext]_<<vars, writeVars>>
=============================================================================
