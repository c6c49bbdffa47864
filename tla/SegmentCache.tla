--------------------------- MODULE SegmentCache ---------------------------
(***************************************************************************)
(* The disk cache of S3 objects (src/src/cache.rs): one object, its cached *)
(* bytes, the .etag file beside them, and the calls that read and write    *)
(* them from several threads.  The process may crash; the files stay.      *)
(*                                                                         *)
(* Contents are numbered by the PUT that made them, and the number stands  *)
(* for the ETag.  std::fs::write empties a file and then fills it.         *)
(***************************************************************************)
EXTENDS Naturals, FiniteSets

CONSTANTS Calls,        \* calls of get_bytes and put_and_cache at one time
          MaxPuts, MaxCrashes, MaxRemovals

ASSUME CacheAssumption == MaxPuts \in Nat

VARIABLES enabled,      \* is there a cache directory?
          object,       \* the content under the key in S3
          bytes, etag,  \* the two files
          call,         \* where each call is, and its local variables
          mixed,        \* the files may be of different contents under the current ETag
          puts, crashes, removals

vars == <<enabled, object, bytes, etag, call, mixed, puts, crashes, removals>>

Missing == 0
Empty == MaxPuts + 1        \* an emptied file

Idle == [pc |-> "idle", bytes |-> Missing, etag |-> Missing, head |-> Missing, torn |-> FALSE,
         again |-> FALSE]

Init ==
    /\ enabled \in BOOLEAN
    /\ object = Missing /\ bytes = Missing /\ etag = Missing
    /\ call = [c \in Calls |-> Idle]
    /\ mixed = FALSE /\ puts = 0 /\ crashes = 0 /\ removals = 0

files == <<bytes, etag, mixed>>
bounds == <<enabled, puts, crashes, removals>>

Goto(c, pc) == call' = [call EXCEPT ![c].pc = pc]

-----------------------------------------------------------------------------
(* write_local.  `mixed` is set when two calls overlap, or a crash cuts one *)
(* off that was replacing a copy of the current object, and reset when a    *)
(* call has run alone.                                                      *)

Writing(c) == call[c].pc \in {"fill_first", "second", "fill_second"}

(* the other writers have company; a reader that has read one file may mix *)
Disturb(c) ==
    [d \in Calls |-> IF Writing(d) \/ call[d].pc = "read_etag" THEN [call[d] EXCEPT !.torn = TRUE] ELSE call[d]]

(* Variant: the ETag goes first. *)
TagFirst == <<"etag", "bytes">>

FileOrder == <<"bytes", "etag">>

File(name, content) ==
    IF name = "bytes" THEN bytes' = content /\ UNCHANGED etag ELSE etag' = content /\ UNCHANGED bytes

(* the file was removed after it was opened *)
Gone(name) == IF name = "bytes" THEN bytes = Missing ELSE etag = Missing

WriteBegin(c) ==
    /\ call[c].pc = "write"
    /\ File(FileOrder[1], Empty)
    /\ call' = [Disturb(c) EXCEPT ![c].pc = "fill_first", ![c].torn = \E d \in Calls \ {c} : Writing(d),
                               ![c].again = etag = object]
    /\ mixed' = (mixed \/ \E d \in Calls \ {c} : Writing(d))
    /\ UNCHANGED <<object, bounds>>

WriteFill(c) ==
    /\ call[c].pc = "fill_first"
    /\ File(FileOrder[1], IF Gone(FileOrder[1]) THEN Missing ELSE call[c].bytes)
    /\ Goto(c, "second")
    /\ UNCHANGED <<object, mixed, bounds>>

WriteSecond(c) ==
    /\ call[c].pc = "second"
    /\ File(FileOrder[2], Empty)
    /\ Goto(c, "fill_second")
    /\ UNCHANGED <<object, mixed, bounds>>

WriteEnd(c) ==
    /\ call[c].pc = "fill_second"
    /\ File(FileOrder[2], IF Gone(FileOrder[2]) THEN Missing ELSE call[c].bytes)
    /\ mixed' = (mixed /\ call[c].torn)
    /\ call' = [call EXCEPT ![c] = Idle]
    /\ UNCHANGED <<object, bounds>>

write_local(c) == WriteBegin(c) \/ WriteFill(c) \/ WriteSecond(c) \/ WriteEnd(c)

-----------------------------------------------------------------------------
(* get_bytes *)

get_bytes(c) ==
    /\ call[c].pc = "idle"
    /\ IF enabled THEN call' = [call EXCEPT ![c].pc = "read_etag", ![c].bytes = bytes,
                                           ![c].torn = mixed \/ \E d \in Calls : Writing(d)]
                  ELSE Goto(c, "get")
    /\ UNCHANGED <<object, files, bounds>>

(* read_local: both files, the ETag not empty *)
read_local(c) ==
    /\ call[c].pc = "read_etag"
    /\ call' = [call EXCEPT ![c].pc = "head",
                            ![c].etag = IF call[c].bytes = Missing \/ etag = Empty THEN Missing ELSE etag]
    /\ UNCHANGED <<object, files, bounds>>

local_matches_etag(local, remote) == local # Missing /\ local = remote

head_etag(c) ==
    /\ call[c].pc = "head"
    /\ call' = [call EXCEPT ![c].head = object,
          ![c].pc = IF object = Missing THEN "none"
                    ELSE IF local_matches_etag(call[c].etag, object) THEN "hit" ELSE "get"]
    /\ UNCHANGED <<object, files, bounds>>

get_object_bytes(c) ==
    /\ call[c].pc = "get"
    /\ call' = [call EXCEPT ![c].bytes = object,
                            ![c].pc = IF object = Missing THEN "none" ELSE IF enabled THEN "write" ELSE "miss"]
    /\ UNCHANGED <<object, files, bounds>>

Return(c) ==
    /\ call[c].pc \in {"none", "hit", "miss"}
    /\ call' = [call EXCEPT ![c] = Idle]
    /\ UNCHANGED <<object, files, bounds>>

-----------------------------------------------------------------------------
(* put_and_cache, populate_after_put *)

populate_after_put(c) ==
    IF enabled THEN call' = [call EXCEPT ![c].pc = "write", ![c].bytes = puts + 1] ELSE UNCHANGED call

put_and_cache(c) ==
    /\ call[c].pc = "idle" /\ puts < MaxPuts
    /\ puts' = puts + 1
    /\ object' = puts + 1
    /\ populate_after_put(c)
    /\ UNCHANGED <<files, enabled, crashes, removals>>

(* the object is deleted and invalidate_key removes the bytes *)
invalidate_key ==
    /\ object # Missing /\ removals < MaxRemovals
    /\ removals' = removals + 1
    /\ object' = Missing
    /\ bytes' = Missing
    /\ UNCHANGED <<enabled, etag, call, mixed, puts, crashes>>

(* remove_dir_all *)
invalidate_namespace ==
    /\ removals < MaxRemovals
    /\ removals' = removals + 1
    /\ bytes' = Missing /\ etag' = Missing
    /\ UNCHANGED <<enabled, object, call, mixed, puts, crashes>>

Crash ==
    /\ crashes < MaxCrashes
    /\ crashes' = crashes + 1
    /\ call' = [c \in Calls |-> Idle]
    /\ mixed' = (mixed \/ \E c \in Calls : Writing(c) /\ call[c].again)
    /\ UNCHANGED <<enabled, object, bytes, etag, puts, removals>>

Next ==
    \/ \E c \in Calls : write_local(c) \/ get_bytes(c) \/ read_local(c) \/ head_etag(c)
                        \/ get_object_bytes(c) \/ Return(c) \/ put_and_cache(c)
    \/ invalidate_key \/ invalidate_namespace \/ Crash

Spec == Init /\ [][Next]_vars

-----------------------------------------------------------------------------
(* what a file may hold *)
Contents == 0..puts \cup {Empty}

CallState ==
    [pc : {"idle", "read_etag", "head", "get", "write", "fill_first", "second", "fill_second", "none", "hit", "miss"},
     bytes : Contents, etag : 0..puts, head : 0..puts, torn : BOOLEAN, again : BOOLEAN]

(* Types: every content is of a PUT that was made; with no cache directory *)
(* nothing is written.                                                     *)
TypeOK ==
    /\ enabled \in BOOLEAN /\ mixed \in BOOLEAN
    /\ puts \in 0..MaxPuts /\ object \in 0..puts /\ bytes \in Contents /\ etag \in Contents
    /\ ~ enabled => bytes = Missing /\ etag = Missing
    /\ call \in [Calls -> CallState]
    /\ \A c \in Calls : call[c].pc = "write" \/ Writing(c) => enabled /\ call[c].bytes \in 1..puts

(* A cache hit is the object that HEAD has seen, whatever calls, deletes   *)
(* and crashes came before, unless a write_local ran between the reads of  *)
(* the two files or the files are mixed: a crash that leaves new bytes     *)
(* beside an old ETag, and a slow GET that brings old bytes late, do no    *)
(* harm by themselves.                                                     *)
HitExact == \A c \in Calls : call[c].pc = "hit" /\ ~ call[c].torn => call[c].bytes = call[c].head

-----------------------------------------------------------------------------
(* What it rests on.                                                       *)

(* Bytes b beside ETag e are of one content, or e is not the ETag of the   *)
(* object (and will not be again).                                         *)
Agree(b, e) == b = Missing \/ e \in {Missing, Empty} \/ b = e \/ e # object

(* A write_local that has run alone so far: what it has left in the files. *)
Alone(c) ==
    /\ \A d \in Calls : Writing(d) => d = c
    /\ call[c].pc = "fill_first" => bytes \in {Empty, Missing}
    /\ call[c].pc \in {"second", "fill_second"} => bytes \in {Missing, call[c].bytes}
    /\ call[c].pc = "fill_second" => etag \in {Empty, Missing}
    /\ call[c].pc \in {"fill_first", "second"} /\ ~ mixed /\ ~ call[c].again
       => etag \in {Missing, Empty} \/ etag # object

Quiet == ~ mixed /\ \A d \in Calls : ~ Writing(d)

CallInv(c) ==
    /\ Writing(c) => IF call[c].torn THEN mixed ELSE Alone(c)
    /\ call[c].pc = "read_etag" /\ ~ call[c].torn => Quiet /\ Agree(call[c].bytes, etag)
    /\ call[c].pc = "head" /\ ~ call[c].torn
       => call[c].etag = Missing \/ call[c].bytes = call[c].etag \/ call[c].etag # object

IInv == TypeOK /\ (Quiet => Agree(bytes, etag)) /\ (\A c \in Calls : CallInv(c)) /\ HitExact
=============================================================================
