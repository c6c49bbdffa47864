----------------------------- MODULE DurableLog -----------------------------
(***************************************************************************)
(* What a namespace promises its writers: an append-only log of batches.   *)
(* A batch is appended at most once, and a batch is acknowledged only as   *)
(* it is appended, under the sequence number it got.                       *)
(***************************************************************************)
EXTENDS Naturals, Sequences

CONSTANT Entry

VARIABLES log, acked

Init == log = <<>> /\ acked = {}

(* The acknowledgement of a durable batch may be lost.                     *)
Commit(e) ==
    /\ \A n \in DOMAIN log : log[n] # e
    /\ log' = Append(log, e)
    /\ \/ acked' = acked \cup {[seq |-> Len(log) + 1, entry |-> e]}
       \/ UNCHANGED acked

Next == \E e \in Entry : Commit(e)

Spec == Init /\ [][Next]_<<log, acked>>
=============================================================================
