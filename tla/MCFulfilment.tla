---------------------------- MODULE MCFulfilment ----------------------------
(* Two orders that compete for the units of product p1: o1 has an item of  *)
(* p1, a key product, and one of p2, an account product; o2 has one of p1. *)
EXTENDS Fulfilment, TLC

CONSTANTS w1, w2, o1, o2, i1, i2, i3, u1, u2, u3, p1, p2

MCOrderOf     == [i \in Items |-> IF i = i3 THEN o2 ELSE o1]
MCItemProduct == [i \in Items |-> IF i = i2 THEN p2 ELSE p1]
MCUnitProduct == [u \in Units |-> IF u = u3 THEN p2 ELSE p1]
MCProductType == [p \in Products |-> IF p = p2 THEN "ACCOUNT" ELSE "KEY"]

(* u1 and u2 are interchangeable, and so are the two workers.              *)
Sym == Permutations(Workers) \cup Permutations({u1, u2})
=============================================================================
