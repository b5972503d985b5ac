------------------------------ MODULE UnitSale ------------------------------
(***************************************************************************)
(* What the shop promises about digital units, independently of requests,  *)
(* transactions and statuses.  A unit is a key or an account: data that    *)
(* can be copied, so one that has been handed to a customer can never be   *)
(* sold again.  The only state is which unit each order item got.          *)
(*                                                                         *)
(*   - an order is served as a whole: one step gives a unit to every item  *)
(*     of it that has none;                                                *)
(*   - a unit goes to an item of its own product, and to one item only;    *)
(*   - what an item got is never taken away or exchanged.                  *)
(***************************************************************************)
CONSTANTS Orders, Items, Units, None, OrderOf, ItemProduct, UnitProduct

VARIABLE sold        \* sold[i] is the unit item i got, or None

SaleInit == sold = [i \in Items |-> None]

Unserved(o) == {i \in Items : OrderOf[i] = o /\ sold[i] = None}

Serve(o) ==
  /\ sold' \in [Items -> Units \cup {None}]
  /\ \A i \in Items : i \notin Unserved(o) => sold'[i] = sold[i]
  /\ \A i \in Unserved(o) :
       /\ sold'[i] \in Units
       /\ UnitProduct[sold'[i]] = ItemProduct[i]
       /\ \A j \in Items : j # i => sold'[j] # sold'[i]

SaleNext == \E o \in Orders : Serve(o)

SaleSpec == SaleInit /\ [][SaleNext]_sold
=============================================================================
