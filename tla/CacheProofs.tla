---------------------------- MODULE CacheProofs ----------------------------
(***************************************************************************)
(* HitExact of SegmentCache, for any number of calls, PUTs, removals and   *)
(* crashes.                                                                *)
(***************************************************************************)
EXTENDS SegmentCache, TLAPS

-----------------------------------------------------------------------------
(* Types.                                                                  *)

LEMMA Limits ==
  ASSUME TypeOK
  PROVE  /\ MaxPuts \in Nat /\ puts \in Nat /\ puts <= MaxPuts /\ object \in 0..puts /\ Empty = MaxPuts + 1
         /\ 0 \in Contents /\ Empty \in Contents /\ Empty # Missing /\ 0..puts \subseteq Contents
         /\ \A e \in Contents : e \in 0..puts \/ e = Empty
BY CacheAssumption DEF TypeOK, Contents, Empty, Missing

LEMMA IdleType ==
  ASSUME TypeOK
  PROVE  Idle \in CallState
<1>1. 0 \in Contents /\ 0 \in 0..puts
  BY Limits
<1> QED
  BY <1>1 DEF Idle, CallState, Missing

(* One call moves and no PUT is made. *)
LEMMA MoveTypes ==
  ASSUME TypeOK, NEW c \in Calls, NEW r \in CallState, call' = [call EXCEPT ![c] = r],
         UNCHANGED <<enabled, object, puts>>, mixed' \in BOOLEAN, bytes' \in Contents, etag' \in Contents,
         ~ enabled => bytes' = Missing /\ etag' = Missing,
         r.pc \in {"write", "fill_first", "second", "fill_second"} => enabled /\ r.bytes \in 1..puts
  PROVE  TypeOK'
<1>1. Contents' = Contents /\ CallState' = CallState
  BY DEF Contents, CallState
<1>2. call \in [Calls -> CallState] /\ call' \in [Calls -> CallState]
  BY DEF TypeOK
<1>3. ASSUME NEW d \in Calls, call'[d].pc = "write" \/ Writing(d)'
      PROVE  enabled /\ call'[d].bytes \in 1..puts
  <2>1. CASE d = c
    <3>1. call'[d] = r
      BY <1>2, <2>1
    <3> QED
      BY <1>3, <3>1 DEF Writing
  <2>2. CASE d # c
    <3>1. call'[d] = call[d]
      BY <1>2, <2>2
    <3> QED
      BY <1>3, <3>1 DEF TypeOK, Writing
  <2> QED
    BY <2>1, <2>2
<1> QED
  BY <1>1, <1>2, <1>3 DEF TypeOK

LEMMA ReadTypes ==
  ASSUME TypeOK, NEW c \in Calls, get_bytes(c) \/ read_local(c) \/ head_etag(c) \/ get_object_bytes(c) \/ Return(c)
  PROVE  TypeOK'
<1>0. /\ call[c] \in CallState /\ bytes \in Contents /\ etag \in Contents /\ mixed \in BOOLEAN
      /\ ~ enabled => bytes = Missing /\ etag = Missing
  BY DEF TypeOK
<1>1. UNCHANGED <<enabled, object, puts, bytes, etag, mixed>>
  BY DEF get_bytes, read_local, head_etag, get_object_bytes, Return, files, bounds
<1>2. object \in 0..puts /\ object \in Contents /\ 0 \in 0..puts /\ (etag # Empty => etag \in 0..puts)
  BY <1>0, Limits
<1>3. CASE get_bytes(c)
  <2>1. CASE enabled
    <3> DEFINE r == [call[c] EXCEPT !.pc = "read_etag", !.bytes = bytes, !.torn = mixed \/ \E d \in Calls : Writing(d)]
    <3>1. r \in CallState /\ r.pc = "read_etag"
      BY Zenon, <1>0 DEF CallState
    <3>2. call' = [call EXCEPT ![c] = r]
      BY Zenon, <1>3, <2>1 DEF get_bytes
    <3> HIDE DEF r
    <3> QED
      BY Zenon, <1>0, <1>1, <3>1, <3>2, MoveTypes
  <2>2. CASE ~ enabled
    <3> DEFINE r == [call[c] EXCEPT !.pc = "get"]
    <3>1. r \in CallState /\ r.pc = "get"
      BY <1>0 DEF CallState
    <3>2. call' = [call EXCEPT ![c] = r]
      BY <1>3, <2>2 DEF get_bytes, Goto
    <3> HIDE DEF r
    <3> QED
      BY Zenon, <1>0, <1>1, <3>1, <3>2, MoveTypes
  <2> QED
    BY <2>1, <2>2
<1>4. CASE read_local(c)
  <2> DEFINE e == IF call[c].bytes = Missing \/ etag = Empty THEN Missing ELSE etag
             r == [call[c] EXCEPT !.pc = "head", !.etag = e]
  <2>1. e \in 0..puts
    BY <1>2 DEF Missing
  <2>2. r \in CallState /\ r.pc = "head"
    BY Zenon, <1>0, <2>1 DEF CallState
  <2>3. call' = [call EXCEPT ![c] = r]
    BY Zenon, <1>4 DEF read_local
  <2> HIDE DEF r
  <2> QED
    BY Zenon, <1>0, <1>1, <2>2, <2>3, MoveTypes
<1>5. CASE head_etag(c)
  <2> DEFINE pc == IF object = Missing THEN "none"
                   ELSE IF local_matches_etag(call[c].etag, object) THEN "hit" ELSE "get"
             r == [call[c] EXCEPT !.head = object, !.pc = pc]
  <2>1. r \in CallState /\ r.pc \in {"none", "hit", "get"}
    BY Zenon, <1>0, <1>2 DEF CallState
  <2>2. call' = [call EXCEPT ![c] = r]
    BY Zenon, <1>5 DEF head_etag
  <2> HIDE DEF r
  <2> QED
    BY Zenon, <1>0, <1>1, <2>1, <2>2, MoveTypes
<1>6. CASE get_object_bytes(c)
  <2> DEFINE pc == IF object = Missing THEN "none" ELSE IF enabled THEN "write" ELSE "miss"
             r == [call[c] EXCEPT !.bytes = object, !.pc = pc]
  <2>1. r \in CallState /\ r.pc = pc /\ r.bytes = object
    BY Zenon, <1>0, <1>2 DEF CallState
  <2>2. pc = "write" => enabled /\ object \in 1..puts
    BY <1>2, Limits DEF Missing
  <2>3. pc \in {"none", "write", "miss"}
    OBVIOUS
  <2>4. call' = [call EXCEPT ![c] = r]
    BY Zenon, <1>6 DEF get_object_bytes
  <2> HIDE DEF r, pc
  <2> QED
    BY Zenon, <1>0, <1>1, <2>1, <2>2, <2>3, <2>4, MoveTypes
<1>7. CASE Return(c)
  <2>1. Idle.pc = "idle"
    BY DEF Idle
  <2> QED
    BY Zenon, <1>0, <1>1, <1>7, <2>1, IdleType, MoveTypes DEF Return
<1> QED
  BY <1>3, <1>4, <1>5, <1>6, <1>7


(* FileOrder: the bytes first. *)
LEMMA Files ==
  ASSUME NEW content
  PROVE  /\ File(FileOrder[1], content) <=> bytes' = content /\ etag' = etag
         /\ File(FileOrder[2], content) <=> etag' = content /\ bytes' = bytes
         /\ Gone(FileOrder[1]) <=> bytes = Missing
         /\ Gone(FileOrder[2]) <=> etag = Missing
<1>1. FileOrder[1] = "bytes" /\ FileOrder[2] = "etag"
  BY DEF FileOrder
<1>2. "etag" # "bytes"
  OBVIOUS
<1> QED
  BY <1>1, <1>2, Zenon DEF File, Gone

(* What the first step of write_local does to the calls. *)
LEMMA BeginCalls ==
  ASSUME TypeOK, NEW c \in Calls, WriteBegin(c)
  PROVE  /\ call' \in [Calls -> CallState]
         /\ call'[c].pc = "fill_first" /\ call'[c].bytes = call[c].bytes
         /\ call'[c].torn <=> \E d \in Calls \ {c} : Writing(d)
         /\ call'[c].again <=> etag = object
         /\ \A d \in Calls \ {c} : IF Writing(d) \/ call[d].pc = "read_etag" THEN call'[d].torn
                                                                            ELSE call'[d] = call[d]
         /\ \A d \in Calls \ {c} : call'[d].pc = call[d].pc /\ call'[d].bytes = call[d].bytes
<1>1. call \in [Calls -> CallState]
  BY DEF TypeOK
<1>2. \A d \in Calls : [call[d] EXCEPT !.torn = TRUE] \in CallState
  BY Zenon, <1>1 DEF CallState
<1>3. Disturb(c) \in [Calls -> CallState]
  BY <1>1, <1>2 DEF Disturb
<1>4. Disturb(c)[c] = call[c]
  BY Zenon DEF Disturb, WriteBegin, Writing
<1> DEFINE torn == \E d \in Calls \ {c} : Writing(d)
           again == etag = object
           r == [call[c] EXCEPT !.pc = "fill_first", !.torn = torn, !.again = again]
<1>5. call' = [Disturb(c) EXCEPT ![c] = r]
  BY Zenon, <1>3, <1>4 DEF WriteBegin
<1>6. torn \in BOOLEAN /\ again \in BOOLEAN /\ call[c] \in CallState
  BY <1>1
<1>7. r \in CallState /\ r.pc = "fill_first" /\ r.bytes = call[c].bytes /\ r.torn = torn /\ r.again = again
  <2> HIDE DEF torn, again
  <2> QED
    BY Zenon, <1>6 DEF CallState
<1>8. call' \in [Calls -> CallState] /\ call'[c] = r /\ \A d \in Calls \ {c} : call'[d] = Disturb(c)[d]
  <2> HIDE DEF r
  <2> QED
    BY <1>3, <1>5, <1>7
<1>9. ASSUME NEW d \in Calls \ {c}
      PROVE  /\ IF Writing(d) \/ call[d].pc = "read_etag" THEN call'[d].torn ELSE call'[d] = call[d]
             /\ call'[d].pc = call[d].pc /\ call'[d].bytes = call[d].bytes
  <2> DEFINE s == [call[d] EXCEPT !.torn = TRUE]
  <2>1. s.pc = call[d].pc /\ s.bytes = call[d].bytes /\ s.torn
    BY <1>1 DEF CallState
  <2>2. call'[d] = IF Writing(d) \/ call[d].pc = "read_etag" THEN s ELSE call[d]
    BY <1>8 DEF Disturb
  <2> HIDE DEF s
  <2> QED
    BY <2>1, <2>2
<1> QED
  <2> HIDE DEF r
  <2> QED
    BY Zenon, <1>7, <1>8, <1>9

LEMMA BeginTypes ==
  ASSUME TypeOK, NEW c \in Calls, WriteBegin(c)
  PROVE  TypeOK'
<1>1. Contents' = Contents /\ CallState' = CallState /\ Empty \in Contents
  BY Zenon, Limits DEF Contents, CallState, WriteBegin, bounds
<1>2. bytes' = Empty /\ etag' = etag /\ UNCHANGED <<enabled, object, puts>> /\ mixed' \in BOOLEAN
  BY Zenon, Files DEF WriteBegin, bounds
<1>3. \A d \in Calls : call'[d].pc = "write" \/ Writing(d)' => enabled /\ call'[d].bytes \in 1..puts
  <2>1. enabled /\ call[c].bytes \in 1..puts
    BY Zenon DEF TypeOK, WriteBegin
  <2> QED
    BY <2>1, BeginCalls DEF TypeOK, Writing
<1>4. enabled
  BY Zenon DEF TypeOK, WriteBegin
<1> QED
  BY <1>1, <1>2, <1>3, <1>4, BeginCalls DEF TypeOK

(* The later steps of write_local. *)
LEMMA WriteTypes ==
  ASSUME TypeOK, NEW c \in Calls, WriteFill(c) \/ WriteSecond(c) \/ WriteEnd(c)
  PROVE  /\ TypeOK'
         /\ \A d \in Calls \ {c} : call'[d] = call[d]
<1>0. /\ call \in [Calls -> CallState] /\ call[c] \in CallState /\ bytes \in Contents /\ etag \in Contents
      /\ mixed \in BOOLEAN /\ enabled /\ call[c].bytes \in 1..puts
  BY DEF TypeOK, WriteFill, WriteSecond, WriteEnd, Writing
<1>1. call[c].bytes \in Contents /\ Missing \in Contents /\ Empty \in Contents
  BY <1>0, Limits DEF Missing
<1>2. UNCHANGED <<enabled, object, puts>>
  BY DEF WriteFill, WriteSecond, WriteEnd, bounds
<1>3. CASE WriteFill(c)
  <2> DEFINE r == [call[c] EXCEPT !.pc = "second"]
  <2>1. r \in CallState /\ r.bytes = call[c].bytes
    BY <1>0 DEF CallState
  <2>2. call' = [call EXCEPT ![c] = r]
    BY <1>3 DEF WriteFill, Goto
  <2>3. bytes' \in Contents /\ etag' = etag /\ mixed' = mixed
    BY <1>0, <1>1, <1>3, Files DEF WriteFill
  <2> HIDE DEF r
  <2> QED
    BY Zenon, <1>0, <1>2, <2>1, <2>2, <2>3, MoveTypes
<1>4. CASE WriteSecond(c)
  <2> DEFINE r == [call[c] EXCEPT !.pc = "fill_second"]
  <2>1. r \in CallState /\ r.bytes = call[c].bytes
    BY <1>0 DEF CallState
  <2>2. call' = [call EXCEPT ![c] = r]
    BY <1>4 DEF WriteSecond, Goto
  <2>3. etag' \in Contents /\ bytes' = bytes /\ mixed' = mixed
    BY <1>0, <1>1, <1>4, Files DEF WriteSecond
  <2> HIDE DEF r
  <2> QED
    BY Zenon, <1>0, <1>2, <2>1, <2>2, <2>3, MoveTypes
<1>5. CASE WriteEnd(c)
  <2>1. Idle.pc = "idle" /\ call' = [call EXCEPT ![c] = Idle]
    BY <1>5 DEF Idle, WriteEnd
  <2>2. etag' \in Contents /\ bytes' = bytes /\ mixed' \in BOOLEAN
    BY <1>0, <1>1, <1>5, Files DEF WriteEnd
  <2> QED
    BY Zenon, <1>0, <1>2, <2>1, <2>2, IdleType, MoveTypes
<1> QED
  BY <1>3, <1>4, <1>5

LEMMA PutTypes ==
  ASSUME TypeOK, NEW c \in Calls, put_and_cache(c)
  PROVE  TypeOK'
<1>1. puts \in Nat /\ puts' = puts + 1 /\ object' = puts + 1 /\ puts' \in 0..MaxPuts
  BY Limits DEF put_and_cache
<1>2. Contents \subseteq Contents' /\ 0..puts \subseteq 0..puts' /\ puts + 1 \in Contents'
  BY <1>1 DEF Contents, Empty
<1>3. CallState \subseteq CallState'
  BY <1>2 DEF CallState
<1>4. UNCHANGED <<bytes, etag, mixed, enabled>>
  BY DEF put_and_cache, files
<1>5. call \in [Calls -> CallState'] /\ call[c] \in CallState'
  BY <1>3 DEF TypeOK
<1>6. CASE ~ enabled
  <2>1. call' = call
    BY <1>6 DEF put_and_cache, populate_after_put
  <2> QED
    BY <1>1, <1>2, <1>4, <1>5, <1>6, <2>1 DEF TypeOK, Writing
<1>7. CASE enabled
  <2> DEFINE r == [call[c] EXCEPT !.pc = "write", !.bytes = puts + 1]
  <2>1. r \in CallState' /\ r.bytes = puts + 1
    BY Zenon, <1>2, <1>5 DEF CallState
  <2>2. call' = [call EXCEPT ![c] = r]
    BY Zenon, <1>7 DEF put_and_cache, populate_after_put
  <2>3. call' \in [Calls -> CallState'] /\ call'[c] = r /\ \A d \in Calls \ {c} : call'[d] = call[d]
    <3> HIDE DEF r
    <3> QED
      BY <1>5, <2>1, <2>2
  <2>4. \A d \in Calls : call'[d].pc = "write" \/ Writing(d)' => call'[d].bytes \in 1..puts'
    <3>1. puts + 1 \in 1..puts'
      BY <1>1
    <3>2. \A d \in Calls \ {c} : call'[d].pc = "write" \/ Writing(d)' => call[d].bytes \in 1..puts
      BY <2>3 DEF TypeOK, Writing
    <3> HIDE DEF r
    <3> QED
      BY <1>1, <2>1, <2>3, <3>1, <3>2, Limits
  <2>5. object' \in 0..puts'
    BY <1>1
  <2> QED
    BY <1>1, <1>2, <1>4, <1>7, <2>3, <2>4, <2>5 DEF TypeOK
<1> QED
  BY <1>6, <1>7 DEF TypeOK

LEMMA RemovalTypes ==
  ASSUME TypeOK, invalidate_key \/ invalidate_namespace \/ Crash
  PROVE  TypeOK'
<1>1. UNCHANGED <<enabled, puts>> /\ Contents' = Contents /\ CallState' = CallState
  BY Zenon DEF invalidate_key, invalidate_namespace, Crash, Contents, CallState
<1>2. Missing \in Contents /\ Missing \in 0..puts
  BY Limits DEF Missing
<1>3. call' \in [Calls -> CallState] /\ mixed' \in BOOLEAN
  BY IdleType DEF TypeOK, invalidate_key, invalidate_namespace, Crash
<1>4. \A c \in Calls : call'[c].pc = "write" \/ Writing(c)' => enabled /\ call'[c].bytes \in 1..puts
  BY DEF TypeOK, invalidate_key, invalidate_namespace, Crash, Writing, Idle
<1>5. bytes' \in Contents /\ etag' \in Contents /\ object' \in 0..puts /\ (~ enabled => bytes' = Missing /\ etag' = Missing)
  BY <1>2 DEF TypeOK, invalidate_key, invalidate_namespace, Crash
<1> QED
  BY <1>1, <1>3, <1>4, <1>5 DEF TypeOK


-----------------------------------------------------------------------------
(* The files.                                                              *)

(* A PUT or a delete makes every ETag on the disk the ETag of no object. *)
LEMMA Outdated ==
  ASSUME TypeOK, (object' = puts + 1 /\ puts < MaxPuts) \/ object' = Missing, NEW e \in Contents
  PROVE  e \in {Missing, Empty} \/ e # object'
BY Limits DEF Missing, Empty

(* A step of one call that does not write to the files and finds the object *)
(* unchanged.                                                               *)
LEMMA ReaderKeeps ==
  ASSUME IInv, TypeOK', NEW c \in Calls, UNCHANGED <<object, bytes, etag, mixed>>,
         ~ Writing(c), ~ Writing(c)', \A d \in Calls \ {c} : call'[d] = call[d],
         call'[c].pc = "read_etag" /\ ~ call'[c].torn => Quiet /\ Agree(call'[c].bytes, etag),
         call'[c].pc = "head" /\ ~ call'[c].torn
            => call'[c].etag = Missing \/ call'[c].bytes = call'[c].etag \/ call'[c].etag # object,
         call'[c].pc = "hit" /\ ~ call'[c].torn => call'[c].bytes = call'[c].head
  PROVE  IInv'
<1>1. \A d \in Calls : Writing(d)' <=> Writing(d)
  BY DEF Writing
<1>2. Quiet' <=> Quiet
  BY <1>1 DEF Quiet
<1>3. \A b, e : Agree(b, e)' <=> Agree(b, e)
  BY DEF Agree
<1>4. ASSUME NEW d \in Calls
      PROVE  CallInv(d)'
  <2>1. CASE d = c
    BY <1>2, <2>1 DEF CallInv, Agree
  <2>2. CASE d # c
    <3>1. call'[d] = call[d] /\ CallInv(d)
      BY <2>2 DEF IInv
    <3>2. Writing(d) /\ ~ call[d].torn => Alone(d)'
      BY <1>1, <3>1 DEF CallInv, Alone
    <3> QED
      BY <1>1, <1>2, <3>1, <3>2 DEF CallInv, Agree
  <2> QED
    BY <2>1, <2>2
<1>5. HitExact'
  BY DEF IInv, HitExact
<1>6. Quiet' => Agree(bytes, etag)'
  BY <1>2 DEF IInv, Agree
<1> QED
  BY <1>4, <1>5, <1>6 DEF IInv

(* The calls of get_bytes. *)
LEMMA ReadKeeps ==
  ASSUME IInv, NEW c \in Calls, get_bytes(c) \/ read_local(c) \/ head_etag(c) \/ get_object_bytes(c) \/ Return(c)
  PROVE  IInv'
<1>0. TypeOK /\ TypeOK' /\ CallInv(c) /\ call \in [Calls -> CallState] /\ call[c] \in CallState
  BY ReadTypes DEF IInv, TypeOK
<1>1. UNCHANGED <<object, bytes, etag, mixed>>
  BY DEF get_bytes, read_local, head_etag, get_object_bytes, Return, files, bounds
<1>2. ~ Writing(c) /\ \A d \in Calls \ {c} : call'[d] = call[d]
  BY <1>0 DEF get_bytes, read_local, head_etag, get_object_bytes, Return, Writing, Goto
<1>3. CASE get_bytes(c)
  <2>1. CASE enabled
    <3>1. /\ call'[c].pc = "read_etag" /\ call'[c].bytes = bytes
          /\ call'[c].torn <=> (mixed \/ \E d \in Calls : Writing(d))
      BY <1>0, <1>3, <2>1 DEF get_bytes, CallState
    <3>2. ~ call'[c].torn => Quiet /\ Agree(call'[c].bytes, etag)
      BY <3>1 DEF Quiet, IInv
    <3> QED
      BY <1>0, <1>1, <1>2, <3>1, <3>2, ReaderKeeps DEF Writing
  <2>2. CASE ~ enabled
    <3>1. call'[c].pc = "get"
      BY <1>0, <1>3, <2>2 DEF get_bytes, Goto, CallState
    <3> QED
      BY <1>0, <1>1, <1>2, <3>1, ReaderKeeps DEF Writing
  <2> QED
    BY <2>1, <2>2
<1>4. CASE read_local(c)
  <2>1. /\ call'[c].pc = "head" /\ call'[c].bytes = call[c].bytes /\ call'[c].torn = call[c].torn
        /\ call'[c].etag = IF call[c].bytes = Missing \/ etag = Empty THEN Missing ELSE etag
    BY <1>0, <1>4 DEF read_local, CallState
  <2>2. ~ call[c].torn => Agree(call[c].bytes, etag)
    BY <1>0, <1>4 DEF read_local, CallInv
  <2>3. ~ call'[c].torn
        => call'[c].etag = Missing \/ call'[c].bytes = call'[c].etag \/ call'[c].etag # object
    BY <2>1, <2>2 DEF Agree
  <2> QED
    BY <1>0, <1>1, <1>2, <2>1, <2>3, ReaderKeeps DEF Writing
<1>5. CASE head_etag(c)
  <2>1. /\ call'[c].pc = IF object = Missing THEN "none"
                         ELSE IF local_matches_etag(call[c].etag, object) THEN "hit" ELSE "get"
        /\ call'[c].bytes = call[c].bytes /\ call'[c].torn = call[c].torn /\ call'[c].head = object
    BY <1>0, <1>5 DEF head_etag, CallState
  <2>2. call'[c].pc = "hit" /\ ~ call'[c].torn => call'[c].bytes = call'[c].head
    BY <1>0, <1>5, <2>1 DEF CallInv, head_etag, local_matches_etag
  <2> QED
    BY <1>0, <1>1, <1>2, <2>1, <2>2, ReaderKeeps DEF Writing
<1>6. CASE get_object_bytes(c)
  <2>1. call'[c].pc \in {"none", "write", "miss"}
    BY <1>0, <1>6 DEF get_object_bytes, CallState
  <2> QED
    BY <1>0, <1>1, <1>2, <2>1, ReaderKeeps DEF Writing
<1>7. CASE Return(c)
  <2>1. call'[c].pc = "idle"
    BY <1>0, <1>7 DEF Return, Idle
  <2> QED
    BY <1>0, <1>1, <1>2, <2>1, ReaderKeeps DEF Writing
<1> QED
  BY <1>3, <1>4, <1>5, <1>6, <1>7

(* While one call writes, no other is alone and no reader is untorn. *)
LEMMA Company ==
  ASSUME IInv, NEW c \in Calls, Writing(c), NEW d \in Calls \ {c}
  PROVE  /\ Writing(d) => call[d].torn /\ call[c].torn /\ mixed
         /\ call[d].pc = "read_etag" => call[d].torn
BY DEF IInv, CallInv, Alone, Quiet

LEMMA BeginKeeps ==
  ASSUME IInv, NEW c \in Calls, WriteBegin(c)
  PROVE  IInv'
<1>0. TypeOK /\ TypeOK' /\ ~ Writing(c)
  BY Zenon, BeginTypes DEF IInv, WriteBegin, Writing
<1>1. bytes' = Empty /\ etag' = etag /\ object' = object /\ (mixed' <=> (mixed \/ \E d \in Calls \ {c} : Writing(d)))
  BY Zenon, Files DEF WriteBegin
<1>2. \A d \in Calls \ {c} : Writing(d)' <=> Writing(d)
  BY <1>0, BeginCalls DEF Writing
<1>3. Writing(c)' /\ ~ Quiet'
  BY <1>0, BeginCalls DEF Writing, Quiet
<1>4. CallInv(c)'
  <2>1. call'[c].torn => mixed'
    BY <1>0, <1>1, BeginCalls
  <2>2. ~ call'[c].torn => Alone(c)'
    <3>1. call'[c].pc = "fill_first" /\ (call'[c].again <=> etag = object)
      BY <1>0, BeginCalls
    <3>2. ~ call'[c].torn => \A d \in Calls : Writing(d)' => d = c
      BY <1>0, <1>2, BeginCalls
    <3> QED
      BY <1>1, <3>1, <3>2 DEF Alone
  <2>3. call'[c].pc = "fill_first"
    BY <1>0, BeginCalls
  <2> QED
    BY <2>1, <2>2, <2>3 DEF CallInv
<1>5. ASSUME NEW d \in Calls \ {c}
      PROVE  CallInv(d)'
  <2>1. CASE Writing(d) \/ call[d].pc = "read_etag"
    <3>1. call'[d].torn /\ call'[d].pc = call[d].pc
      BY <1>0, <2>1, BeginCalls
    <3>2. Writing(d) => mixed'
      BY <1>1
    <3> QED
      BY <1>2, <2>1, <3>1, <3>2 DEF CallInv, Writing
  <2>2. CASE ~ (Writing(d) \/ call[d].pc = "read_etag")
    <3>1. call'[d] = call[d]
      BY <1>0, <2>2, BeginCalls
    <3> QED
      BY <1>1, <1>2, <2>2, <3>1 DEF CallInv, IInv
  <2> QED
    BY <2>1, <2>2
<1>6. HitExact'
  <2>1. \A d \in Calls : call'[d].pc = "hit" => call'[d] = call[d]
    BY <1>0, BeginCalls DEF Writing
  <2> QED
    BY <2>1 DEF HitExact, IInv
<1> QED
  BY <1>0, <1>3, <1>4, <1>5, <1>6 DEF IInv

(* The later steps of write_local. *)
LEMMA WriteKeeps ==
  ASSUME IInv, NEW c \in Calls, WriteFill(c) \/ WriteSecond(c) \/ WriteEnd(c)
  PROVE  IInv'
<1>0. TypeOK /\ TypeOK' /\ CallInv(c) /\ Writing(c) /\ call \in [Calls -> CallState] /\ call[c] \in CallState
  BY WriteTypes DEF IInv, TypeOK, WriteFill, WriteSecond, WriteEnd, Writing
<1>1. object' = object
  BY DEF WriteFill, WriteSecond, WriteEnd
<1>2. \A d \in Calls \ {c} : call'[d] = call[d] /\ (Writing(d)' <=> Writing(d))
  BY <1>0, WriteTypes DEF Writing
<1>3. ASSUME NEW d \in Calls \ {c}
      PROVE  CallInv(d)'
  <2>1. Writing(d) => mixed'
    <3>1. mixed /\ call[c].torn => mixed'
      BY Zenon DEF WriteFill, WriteSecond, WriteEnd
    <3> QED
      BY <1>0, <3>1, Company
  <2>2. call'[d] = call[d] /\ (Writing(d)' <=> Writing(d)) /\ CallInv(d)
    BY <1>2 DEF IInv
  <2> QED
    BY <1>0, <1>1, <2>1, <2>2, Company DEF CallInv
<1>4. CASE WriteFill(c)
  <2>1. /\ call'[c].pc = "second" /\ call'[c].bytes = call[c].bytes
        /\ call'[c].torn = call[c].torn /\ call'[c].again = call[c].again
    BY <1>0, <1>4 DEF WriteFill, Goto, CallState
  <2>2. bytes' \in {Missing, call[c].bytes} /\ etag' = etag /\ mixed' = mixed
    BY <1>4, Files DEF WriteFill
  <2>3. ~ call[c].torn => Alone(c)'
    <3>1. ~ call[c].torn => \A d \in Calls : Writing(d)' => d = c
      BY <1>0, <1>2 DEF CallInv, Alone
    <3>2. ~ call[c].torn /\ ~ mixed /\ ~ call[c].again => etag \in {Missing, Empty} \/ etag # object
      BY <1>0, <1>4 DEF CallInv, Alone, WriteFill
    <3> QED
      BY <1>1, <2>1, <2>2, <3>1, <3>2 DEF Alone
  <2>4. CallInv(c)' /\ ~ Quiet'
    BY <1>0, <2>1, <2>2, <2>3 DEF CallInv, Writing, Quiet
  <2>5. HitExact'
    BY <1>2, <2>1 DEF HitExact, IInv
  <2> QED
    BY <1>0, <1>3, <2>4, <2>5 DEF IInv
<1>5. CASE WriteSecond(c)
  <2>1. /\ call'[c].pc = "fill_second" /\ call'[c].bytes = call[c].bytes
        /\ call'[c].torn = call[c].torn /\ call'[c].again = call[c].again
    BY <1>0, <1>5 DEF WriteSecond, Goto, CallState
  <2>2. etag' = Empty /\ bytes' = bytes /\ mixed' = mixed
    BY <1>5, Files DEF WriteSecond
  <2>3. ~ call[c].torn => Alone(c)'
    <3>1. ~ call[c].torn => \A d \in Calls : Writing(d)' => d = c
      BY <1>0, <1>2 DEF CallInv, Alone
    <3>2. ~ call[c].torn => bytes \in {Missing, call[c].bytes}
      BY <1>0, <1>5 DEF CallInv, Alone, WriteSecond
    <3> QED
      BY <2>1, <2>2, <3>1, <3>2 DEF Alone
  <2>4. CallInv(c)' /\ ~ Quiet'
    BY <1>0, <2>1, <2>2, <2>3 DEF CallInv, Writing, Quiet
  <2>5. HitExact'
    BY <1>2, <2>1 DEF HitExact, IInv
  <2> QED
    BY <1>0, <1>3, <2>4, <2>5 DEF IInv
<1>6. CASE WriteEnd(c)
  <2>1. call'[c].pc = "idle"
    BY <1>0, <1>6 DEF WriteEnd, Idle
  <2>2. etag' \in {Missing, call[c].bytes} /\ bytes' = bytes /\ (mixed' <=> (mixed /\ call[c].torn))
    BY Zenon, <1>6, Files DEF WriteEnd
  <2>3. ~ call[c].torn => bytes \in {Missing, call[c].bytes}
    BY <1>0, <1>6 DEF CallInv, Alone, WriteEnd
  <2>4. Quiet' => Agree(bytes, etag)'
    <3>1. Quiet' => ~ call[c].torn
      BY <1>0, <2>2 DEF CallInv, Quiet
    <3> QED
      BY <2>2, <2>3, <3>1 DEF Agree
  <2>5. CallInv(c)'
    BY <2>1 DEF CallInv, Writing
  <2>6. HitExact'
    BY <1>2, <2>1 DEF HitExact, IInv
  <2> QED
    BY <1>0, <1>3, <2>4, <2>5, <2>6 DEF IInv
<1> QED
  BY <1>4, <1>5, <1>6


(* After a PUT or a delete what the files hold is no hit. *)
LEMMA ChangeKeeps ==
  ASSUME IInv, TypeOK', (object' = puts + 1 /\ puts < MaxPuts) \/ object' = Missing,
         mixed' = mixed, etag' = etag, bytes' \in {bytes, Missing},
         \A c \in Calls : \/ call'[c] = call[c]
                          \/ call[c].pc = "idle" /\ call'[c].pc = "write"
  PROVE  IInv'
<1>0. TypeOK /\ etag \in Contents /\ call \in [Calls -> CallState]
  BY DEF IInv, TypeOK
<1>1. etag \in {Missing, Empty} \/ etag # object'
  BY <1>0, Outdated
<1>2. \A c \in Calls : Writing(c)' <=> Writing(c)
  BY DEF Writing
<1>3. Quiet' <=> Quiet
  BY <1>2 DEF Quiet
<1>4. ASSUME NEW c \in Calls
      PROVE  CallInv(c)'
  <2>1. CASE call'[c].pc = "write"
    BY <2>1 DEF CallInv, Writing
  <2>2. CASE call'[c].pc # "write"
    <3>1. call'[c] = call[c] /\ CallInv(c)
      BY <2>2 DEF IInv
    <3>2. Writing(c) /\ ~ call[c].torn => Alone(c)'
      BY <1>1, <1>2, <3>1 DEF CallInv, Alone
    <3>3. call[c].etag = Missing \/ call[c].etag # object'
      <4>1. call[c].etag \in 0..puts
        BY <1>0 DEF CallState
      <4>2. call[c].etag \in Contents /\ call[c].etag # Empty
        BY <1>0, <4>1, Limits
      <4> QED
        BY <1>0, <4>2, Outdated
    <3> QED
      BY <1>1, <1>2, <1>3, <3>1, <3>2, <3>3 DEF CallInv, Agree
  <2> QED
    BY <2>1, <2>2
<1>5. HitExact'
  BY DEF HitExact, IInv
<1>6. Agree(bytes, etag)'
  BY <1>1 DEF Agree
<1> QED
  BY <1>4, <1>5, <1>6 DEF IInv

LEMMA PutKeeps ==
  ASSUME IInv, NEW c \in Calls, put_and_cache(c)
  PROVE  IInv'
<1>1. TypeOK /\ TypeOK' /\ call \in [Calls -> CallState]
  BY PutTypes DEF IInv, TypeOK
<1>2. \A d \in Calls : call'[d] = call[d] \/ (call[d].pc = "idle" /\ call'[d].pc = "write")
  <2>1. CASE enabled
    <3>1. call'[c].pc = "write" /\ \A d \in Calls \ {c} : call'[d] = call[d]
      BY <1>1, <2>1 DEF put_and_cache, populate_after_put, CallState
    <3> QED
      BY <3>1 DEF put_and_cache
  <2>2. CASE ~ enabled
    BY <2>2 DEF put_and_cache, populate_after_put
  <2> QED
    BY <2>1, <2>2
<1> QED
  BY <1>1, <1>2, ChangeKeeps DEF put_and_cache, files

LEMMA RemovalKeeps ==
  ASSUME IInv, invalidate_key
  PROVE  IInv'
BY RemovalTypes, ChangeKeeps DEF IInv, invalidate_key

LEMMA NamespaceRemovalKeeps ==
  ASSUME IInv, invalidate_namespace
  PROVE  IInv'
<1>1. TypeOK' /\ bytes' = Missing /\ etag' = Missing /\ UNCHANGED <<object, call, mixed>>
  BY RemovalTypes DEF IInv, invalidate_namespace
<1>2. Quiet' <=> Quiet
  BY <1>1 DEF Quiet, Writing
<1>3. ASSUME NEW c \in Calls
      PROVE  CallInv(c)'
  <2>1. CallInv(c) /\ (Writing(c)' <=> Writing(c))
    BY <1>1 DEF IInv, Writing
  <2>2. Writing(c) /\ ~ call[c].torn => Alone(c)'
    BY <1>1, <2>1 DEF CallInv, Alone, Writing
  <2> QED
    BY <1>1, <1>2, <2>1, <2>2 DEF CallInv, Agree
<1>4. Agree(bytes, etag)' /\ HitExact'
  BY <1>1 DEF IInv, HitExact, Agree
<1> QED
  BY <1>1, <1>3, <1>4 DEF IInv

LEMMA CrashKeeps ==
  ASSUME IInv, Crash
  PROVE  IInv'
<1>1. TypeOK' /\ UNCHANGED <<object, bytes, etag>> /\ \A c \in Calls : call'[c].pc = "idle"
  BY RemovalTypes DEF IInv, Crash, Idle
<1>2. mixed' <=> (mixed \/ \E c \in Calls : Writing(c) /\ call[c].again)
  BY Zenon DEF Crash
<1>3. Quiet' => Agree(bytes, etag)'
  <2>1. CASE \A c \in Calls : ~ Writing(c)
    BY <1>1, <1>2, <2>1 DEF IInv, Quiet, Agree
  <2>2. CASE \E c \in Calls : Writing(c)
    <3>1. PICK c \in Calls : Writing(c)
      BY <2>2
    <3>2. Quiet' => ~ mixed /\ ~ call[c].torn /\ ~ call[c].again
      BY <1>2, <3>1 DEF Quiet, IInv, CallInv
    <3>3. ~ call[c].torn /\ ~ mixed /\ ~ call[c].again => etag \in {Missing, Empty} \/ etag # object
      BY <3>1 DEF IInv, CallInv, Alone, Writing
    <3> QED
      BY <1>1, <3>2, <3>3 DEF Agree
  <2> QED
    BY <2>1, <2>2
<1>4. (\A c \in Calls : CallInv(c)') /\ HitExact'
  BY <1>1 DEF CallInv, Writing, HitExact
<1> QED
  BY <1>1, <1>3, <1>4 DEF IInv

-----------------------------------------------------------------------------
LEMMA InvariantInit ==
  ASSUME Init
  PROVE  IInv
<1>1. \A c \in Calls : call[c] = Idle
  BY DEF Init
<1>2. TypeOK
  <2>1. puts = 0 /\ puts \in 0..MaxPuts /\ 0 \in 0..puts /\ 0 \in Contents
    BY CacheAssumption DEF Init, Contents
  <2>2. Idle \in CallState
    BY <2>1 DEF Idle, CallState, Missing
  <2> QED
    BY ZenonT(40), <1>1, <2>1, <2>2 DEF Init, TypeOK, Idle, Writing, Missing
<1> QED
  BY ZenonT(40), <1>1, <1>2 DEF Init, IInv, CallInv, HitExact, Agree, Writing, Idle

LEMMA InvariantKept ==
  ASSUME IInv, [Next]_vars
  PROVE  IInv'
<1>1. CASE UNCHANGED vars
  BY SMTT(40), <1>1 DEF vars, IInv, TypeOK, Contents, CallState, Quiet, Agree, CallInv, Alone, HitExact, Writing
<1>2. CASE Next
  BY <1>2, ReadKeeps, BeginKeeps, WriteKeeps, PutKeeps, RemovalKeeps, NamespaceRemovalKeeps, CrashKeeps, Zenon
     DEF Next, write_local
<1> QED
  BY <1>1, <1>2

(* The inductive invariant holds in every run: a write_local that has run   *)
(* alone left files of one content or an ETag of no object, and so have the *)
(* crashes that cut it off.                                                 *)
THEOREM CacheInvariant == Spec => []IInv
<1>1. Init => IInv
  BY InvariantInit
<1>2. IInv /\ [Next]_vars => IInv'
  BY InvariantKept
<1> QED
  BY <1>1, <1>2, PTL DEF Spec

(* HitExact: whatever calls, PUTs, removals and crashes came before, a hit  *)
(* of get_bytes is the object whose ETag its HEAD has returned, unless a    *)
(* write_local ran between the reads of the two files, or two of them or a  *)
(* crash have mixed the files.                                              *)
THEOREM HitsExact == Spec => []HitExact
<1>1. IInv => HitExact
  BY DEF IInv
<1> QED
  BY <1>1, CacheInvariant, PTL
=============================================================================
