----------------------------- MODULE MCPayments -----------------------------
(* One-item orders of one key product.                                     *)
EXTENDS Payments, TLC

CONSTANTS w1, w2, o1, o2, i1, i2, u1, u2, p1, c1, c2, c3

MCOrderOf     == [i \in Items |-> IF i = i1 THEN o1 ELSE o2]
MCItemProduct == [i \in Items |-> p1]
MCUnitProduct == [u \in Units |-> p1]
MCProductType == [p \in Products |-> "KEY"]

Sym == Permutations(Workers) \cup Permutations(Units) \cup Permutations(Charges)
=============================================================================
