------------------------- MODULE VectorSizingProofs -------------------------
(***************************************************************************)
(* The clamp of probe widths keeps its promise for every pair of widths    *)
(* and every cap that leaves room for one cell, one cluster and the slack. *)
(***************************************************************************)
EXTENDS VectorSizing, TLAPS

(* A quotient times its divisor is at most the dividend.                   *)
LEMMA QuotientBound ==
    ASSUME NEW n \in Nat, NEW c \in Nat, c >= 1
    PROVE  n \div c \in Nat /\ c * (n \div c) <= n
BY SMTT(40)

LEMMA ProductMonotone ==
    ASSUME NEW c \in Nat, NEW a \in Nat, NEW b \in Nat, a <= b
    PROVE  c * a \in Nat /\ c * a <= c * b
BY SMTT(40)

(* The second attempt: at most half of the room for the cells, and as many *)
(* clusters per cell as the rest allows.                                   *)
LEMMA SecondAttemptFits ==
    ASSUME NEW c \in Nat, NEW f \in Nat, NEW cap \in Nat,
           c >= 1, f >= 1, cap >= 6,
           c <= (cap - 4) \div 2,
           f <= (cap - 4 - c) \div c
    PROVE  cluster_get_upper_bound_for_probes(c, f) <= cap
<1> DEFINE room == cap - 4 - c
<1>1. room \in Nat
  OBVIOUS
<1>2. room \div c \in Nat /\ c * (room \div c) <= room
  BY <1>1, QuotientBound
<1>3. c * f <= c * (room \div c)
  BY <1>2, ProductMonotone
<1>4. c * f \in Nat
  BY ProductMonotone
<1>5. c + c * f + 4 <= cap
  BY <1>1, <1>2, <1>3, <1>4
<1>6. QED
  BY <1>5 DEF cluster_get_upper_bound_for_probes, Most

(* vector.rs clamp_probe_widths_to_cluster_cap: for any widths and any cap *)
(* of at least six objects the widths that come out respect the cap; the   *)
(* loop of the last resort is never needed (config.rs asks for a cap of at *)
(* least eight).                                                           *)
THEOREM ClampWithinCap ==
    ASSUME NEW coarse \in Nat, NEW fine \in Nat, NEW cap \in Nat, cap >= 6
    PROVE  LET w == clamp_probe_widths_to_cluster_cap(coarse, fine, cap)
           IN  cluster_get_upper_bound_for_probes(w[1], w[2]) <= cap
<1> DEFINE c0 == Most(coarse, 1)
           f0 == Most(fine, 1)
           room == [c \in Nat \ {0} |-> Most(Less0(Less0(cap, 4), c) \div c, 1)]
           c1 == Least(c0, Most(Less0(cap, 4) \div 2, 1))
           f1 == Most(Least(f0, room[c1]), 1)
<1>1. c0 \in Nat /\ c0 >= 1 /\ f0 \in Nat /\ f0 >= 1
  BY DEF Most
<1>2. Less0(cap, 4) = cap - 4 /\ cap - 4 \in Nat /\ (cap - 4) \div 2 \in Nat
      /\ (cap - 4) \div 2 >= 1 /\ 2 * ((cap - 4) \div 2) <= cap - 4
  BY DEF Less0
<1>3. c1 \in Nat /\ c1 >= 1 /\ c1 <= (cap - 4) \div 2
  BY <1>1, <1>2 DEF Most, Least
<1>4. Less0(Less0(cap, 4), c1) = cap - 4 - c1 /\ cap - 4 - c1 \in Nat /\ cap - 4 - c1 >= c1
  BY <1>2, <1>3 DEF Less0
<1>5. (cap - 4 - c1) \div c1 \in Nat /\ (cap - 4 - c1) \div c1 >= 1
  <2> HIDE DEF c1
  <2>1. ASSUME NEW n \in Nat, NEW c \in Nat, c >= 1, n >= c PROVE n \div c \in Nat /\ n \div c >= 1
    BY <2>1
  <2>2. QED
    BY <1>3, <1>4, <2>1
<1>6. room[c1] = (cap - 4 - c1) \div c1
  BY <1>3, <1>4, <1>5 DEF Most
<1>7. f1 \in Nat /\ f1 >= 1 /\ f1 <= (cap - 4 - c1) \div c1
  <2> DEFINE r == room[c1]
  <2>1. r \in Nat /\ r >= 1 /\ r = (cap - 4 - c1) \div c1
    BY <1>5, <1>6
  <2>2. \A a, b \in Nat : b >= 1 =>
          Most(Least(a, b), 1) \in Nat /\ Most(Least(a, b), 1) >= 1 /\ Most(Least(a, b), 1) <= b
    BY DEF Most, Least
  <2>3. f1 = Most(Least(f0, r), 1)
    OBVIOUS
  <2> HIDE DEF r, f1, f0, c1
  <2> QED
    BY <1>1, <2>1, <2>2, <2>3
<1>8. cluster_get_upper_bound_for_probes(c1, f1) <= cap
  BY Zenon, <1>3, <1>7, SecondAttemptFits
<1>9. clamp_probe_widths_to_cluster_cap(coarse, fine, cap) =
        IF cluster_get_upper_bound_for_probes(c0, f0) <= cap THEN <<c0, f0>> ELSE <<c1, f1>>
  BY <1>8 DEF clamp_probe_widths_to_cluster_cap
<1>10. QED
  BY <1>8, <1>9
=============================================================================
