------------------------------ MODULE PaidSale ------------------------------
(***************************************************************************)
(* What the shop promises about money and goods, independently of webhook  *)
(* events, requests and transactions.  It adds to UnitSale what happened   *)
(* to the charges of an order, and what the shop says of its payment:      *)
(*                                                                         *)
(*   - an order is served only after money came in for it;                 *)
(*   - the shop says APPROVED, REFUNDED or REJECTED only after money came  *)
(*     in, went back, or a charge was cancelled.                           *)
(*                                                                         *)
(* It does not promise that what is said is the last thing that happened:  *)
(* a payment may be said to be PENDING at any time.                        *)
(***************************************************************************)
EXTENDS UnitSale

VARIABLES
  paid,        \* the orders for which money came in
  returned,    \* the orders for which money went back
  cancelled,   \* the orders of which a charge was cancelled
  said         \* what the shop says of the payment of each order

happened == <<paid, returned, cancelled>>

PaidSaleInit ==
  /\ SaleInit
  /\ paid = {} /\ returned = {} /\ cancelled = {}
  /\ said = [o \in Orders |-> "NONE"]

MoneyComesIn(o) == paid' = paid \cup {o} /\ UNCHANGED <<returned, cancelled, said, sold>>

MoneyGoesBack(o) ==
  o \in paid /\ returned' = returned \cup {o} /\ UNCHANGED <<paid, cancelled, said, sold>>

ChargeIsCancelled(o) ==
  cancelled' = cancelled \cup {o} /\ UNCHANGED <<paid, returned, said, sold>>

Cause == [PENDING |-> Orders, APPROVED |-> paid, REFUNDED |-> returned, REJECTED |-> cancelled]

Says(o, s) ==
  o \in Cause[s] /\ said' = [said EXCEPT ![o] = s] /\ UNCHANGED <<happened, sold>>

ServePaid(o) == o \in paid /\ Serve(o) /\ UNCHANGED <<happened, said>>

PaidSaleNext ==
  \E o \in Orders :
    \/ MoneyComesIn(o) \/ MoneyGoesBack(o) \/ ChargeIsCancelled(o) \/ ServePaid(o)
    \/ \E s \in DOMAIN Cause : Says(o, s)

PaidSaleSpec == PaidSaleInit /\ [][PaidSaleNext]_<<happened, said, sold>>
=============================================================================
