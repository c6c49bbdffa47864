----------------------------- MODULE Lifecycle -----------------------------
(***************************************************************************)
(* Operations on whole namespaces (src/src/storage.rs): delete_namespace,  *)
(* clone_namespace_s3 behind copy_from_namespace and branch_from_namespace,*)
(* and list_namespaces with its cache (src/src/namespace_list_cache.rs).   *)
(*                                                                         *)
(* Each lists keys and then works through them, without the commit lock.   *)
(* A listing is sorted: index/, then meta.json, then wal/.  The objects of *)
(* one of the three groups are deleted or copied in one step.              *)
(***************************************************************************)
EXTENDS BucketStore

VARIABLES deletion, gone,     \* delete_namespace; acknowledged batches that a delete has removed
          orphaned,           \* namespaces that a delete left a snapshot of, or one to be written
          clone,              \* clone_namespace_s3
          listing, list_cache, \* `raced`: an invalidation came between listing and set
          acked               \* namespaces whose write or copy has returned

lifecycle == <<deletion, gone, orphaned, clone, listing, list_cache, acked>>

NoDeletion == [pc |-> "idle"]
NoClone == [pc |-> "idle"]
NoListing == [pc |-> "idle", names |-> {}, raced |-> FALSE]
NoList == [cached |-> FALSE, names |-> {}, raced |-> FALSE]

LifecycleInit ==
    /\ deletion = NoDeletion /\ gone = [ns \in Namespaces |-> {}] /\ orphaned = {}
    /\ clone = NoClone /\ listing = NoListing /\ list_cache = NoList
    /\ acked = {}

(* list_all_s3_keys *)
Keys(ns) == [index |-> DOMAIN segments[ns], meta |-> meta[ns].exists, wal |-> DOMAIN wal[ns],
             snapshot |-> snapshot[ns] # NoSnapshot]

(* the namespace, unless a delete of it is under way *)
Kept(ns) == IF deletion # NoDeletion /\ deletion.ns = ns THEN {} ELSE {ns} \cap {n \in Namespaces : meta[n].exists}

(* Variant: the cached listing stays. *)
KeepList == UNCHANGED <<list_cache, listing>>

invalidate_namespace_list_cache ==
    /\ list_cache' = NoList
    /\ listing' = [listing EXCEPT !.raced = listing.pc = "listed"]

-----------------------------------------------------------------------------
(* delete_namespace: DeleteObjects names all keys and has no order *)

DeleteList(ns) ==
    /\ deletion = NoDeletion
    /\ namespace_exists(ns)
    /\ Count("delete")
    /\ deletion' = [pc |-> "objects", ns |-> ns, keys |-> Keys(ns), left |-> {"index", "meta", "wal"},
                    doomed |-> Loaded(ns) \ {appender[ns].batch}]
    /\ acked' = acked \ {ns}
    /\ UNCHANGED <<store, view, appender, compaction, issued, gone, orphaned, clone, listing, list_cache>>

DeleteObjects(part) ==
    /\ deletion.pc = "objects" /\ part \in deletion.left
    /\ LET ns == deletion.ns
           keys == deletion.keys
       IN  /\ segments' = IF part = "index" THEN [segments EXCEPT ![ns] = Without(@, keys.index)] ELSE segments
           /\ meta' = IF part = "meta" /\ keys.meta THEN [meta EXCEPT ![ns] = NoMeta] ELSE meta
           /\ wal' = IF part = "wal" THEN [wal EXCEPT ![ns] = Without(@, keys.wal)] ELSE wal
           /\ snapshot' = IF part = "wal" /\ keys.snapshot THEN [snapshot EXCEPT ![ns] = NoSnapshot] ELSE snapshot
    /\ deletion' = [deletion EXCEPT !.left = @ \ {part}, !.pc = IF deletion.left = {part} THEN "forget" ELSE @]
    /\ UNCHANGED <<view, gone, orphaned, list_cache, listing>>

(* Variant: the view stays pinned. *)
KeepView(ns) == UNCHANGED view

remove_view(ns) == view' = [view EXCEPT ![ns] = NoView]

(* a compaction has read the documents and will PUT them *)
ToBeWritten(ns) == compaction.ns = ns /\ compaction.pc = "put"

DeleteReturns ==
    /\ deletion.pc = "forget"
    /\ invalidate_namespace_list_cache
    /\ remove_view(deletion.ns)
    /\ gone' = [gone EXCEPT ![deletion.ns] = @ \cup deletion.doomed]
    /\ orphaned' = IF snapshot[deletion.ns] = NoSnapshot /\ ~ ToBeWritten(deletion.ns)
                   THEN orphaned ELSE orphaned \cup {deletion.ns}
    /\ deletion' = NoDeletion
    /\ UNCHANGED store

delete_namespace ==
    /\ DeleteReturns \/ \E part \in {"index", "meta", "wal"} : DeleteObjects(part)
    /\ UNCHANGED <<appender, compaction, issued, budget, clone, acked>>

-----------------------------------------------------------------------------
(* clone_namespace_s3: the destination has to be empty *)

NotAppending(namespaces) == \A ns \in namespaces : appender[ns].pc \in {"idle", "apply"}

CloneList(dest, source) ==
    /\ clone = NoClone /\ dest # source
    /\ ~ namespace_exists(dest) /\ namespace_exists(source)
    /\ Count("copy")
    /\ clone' = [pc |-> "index", dest |-> dest, source |-> source, keys |-> Keys(source),
                 m |-> meta[source], then |-> issued, deletes |-> budget.delete,
                 steady |-> deletion = NoDeletion /\ NotAppending({dest, source})
                            /\ compaction.ns \notin {dest, source}]
    /\ UNCHANGED <<store, view, appender, compaction, issued, gone, orphaned, deletion, listing, list_cache, acked>>

(* nobody has written a namespace or begun to delete one, or indexed the source *)
Undisturbed ==
    /\ meta[clone.source] = clone.m /\ issued = clone.then /\ budget.delete = clone.deletes

Copying(pc) == clone' = [clone EXCEPT !.pc = pc, !.steady = @ /\ Undisturbed]

CopyFails == clone' = NoClone /\ UNCHANGED store

CopyIndex ==
    /\ clone.pc = "index"
    /\ IF clone.keys.index \subseteq DOMAIN segments[clone.source]
       THEN /\ segments' = [segments EXCEPT ![clone.dest] =
                  [k \in DOMAIN @ \cup clone.keys.index |->
                      IF k \in clone.keys.index THEN segments[clone.source][k] ELSE @[k]]]
            /\ Copying("meta") /\ UNCHANGED <<meta, wal, snapshot>>
       ELSE CopyFails
    /\ UNCHANGED <<view, list_cache, listing, acked, deletion, gone>>

CopyMeta ==
    /\ clone.pc = "meta"
    /\ IF ~ clone.keys.meta THEN Copying("wal") /\ UNCHANGED store
       ELSE IF meta[clone.source].exists
       THEN /\ meta' = [meta EXCEPT ![clone.dest] = meta[clone.source]]
            /\ Copying("wal") /\ UNCHANGED <<segments, wal, snapshot>>
       ELSE CopyFails
    /\ UNCHANGED <<view, list_cache, listing, acked, deletion, gone>>

(* Variant: the newest segment of the listing is left out. *)
ListedButLast == {seq \in clone.keys.wal : \E later \in clone.keys.wal : later > seq}

ListedSegments == clone.keys.wal

Copied ==
    {wal[clone.source][k] : k \in ListedSegments}
    \cup (IF clone.keys.snapshot THEN snapshot[clone.source].batches ELSE {})

(* a batch that the copy brings to the name is no longer one that a delete *)
(* of that name has removed                                                *)
BringBack(batches) ==
    /\ gone' = [gone EXCEPT ![clone.dest] = @ \ batches]
    /\ deletion' = IF deletion # NoDeletion /\ deletion.ns = clone.dest
                   THEN [deletion EXCEPT !.doomed = @ \ batches] ELSE deletion

CopyWal ==
    /\ clone.pc = "wal"
    /\ IF ListedSegments \subseteq DOMAIN wal[clone.source]
          /\ (clone.keys.snapshot => snapshot[clone.source] # NoSnapshot)
       THEN /\ wal' = [wal EXCEPT ![clone.dest] =
                  [k \in DOMAIN @ \cup ListedSegments |->
                      IF k \in ListedSegments THEN wal[clone.source][k] ELSE @[k]]]
            /\ snapshot' = IF clone.keys.snapshot
                           THEN [snapshot EXCEPT ![clone.dest] = snapshot[clone.source]] ELSE snapshot
            /\ BringBack(Copied)
            /\ Copying("forget") /\ UNCHANGED <<segments, meta>>
       ELSE CopyFails /\ UNCHANGED <<deletion, gone>>
    /\ UNCHANGED <<view, list_cache, listing, acked>>

(* drop_namespace of the write buffer is the subject of GroupCommit *)
CloneReturns ==
    /\ clone.pc = "forget"
    /\ invalidate_namespace_list_cache
    /\ remove_view(clone.dest)
    /\ acked' = acked \cup Kept(clone.dest)
    /\ clone' = NoClone
    /\ UNCHANGED <<store, deletion, gone>>

clone_namespace_s3 ==
    /\ CopyIndex \/ CopyMeta \/ CopyWal \/ CloneReturns
    /\ UNCHANGED <<appender, compaction, issued, budget, orphaned>>

-----------------------------------------------------------------------------
(* list_namespaces: NamespaceListCache::get, the listing, set *)

ListBegin ==
    /\ listing.pc = "idle"
    /\ ~ list_cache.cached
    /\ Count("list")
    /\ listing' = [pc |-> "listed", names |-> {ns \in Namespaces : namespace_exists(ns)}, raced |-> FALSE]
    /\ UNCHANGED list_cache

ListEnd ==
    /\ listing.pc = "listed"
    /\ list_cache' = [cached |-> TRUE, names |-> listing.names, raced |-> listing.raced]
    /\ listing' = NoListing
    /\ UNCHANGED budget

(* the TTL is over *)
Expire ==
    /\ list_cache.cached
    /\ list_cache' = NoList
    /\ UNCHANGED <<listing, budget>>

list_namespaces ==
    /\ ListBegin \/ ListEnd \/ Expire
    /\ UNCHANGED <<store, view, appender, compaction, issued, deletion, gone, orphaned, clone, acked>>
=============================================================================
