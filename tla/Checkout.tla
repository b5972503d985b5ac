------------------------------ MODULE Checkout ------------------------------
(***************************************************************************)
(* POST /orders: orders.service create with its calls to the coupons       *)
(* (validate before, count a use inside the transaction), to antifraud,    *)
(* and to orders.repository create.                                        *)
(*                                                                         *)
(* The prices of the products are read three times - for the coupon, for   *)
(* antifraud, for the order - and the coupon twice; administrators edit    *)
(* both in between.  A buyer is a request to create an order, with or      *)
(* without the one coupon of the model.                                    *)
(***************************************************************************)
EXTENDS Integers, FiniteSets, Functions

CONSTANTS
  Buyers,        \* orders being created at the same time
  Wares,         \* products
  Prices,        \* the prices a product has
  MaxUnits,      \* AVAILABLE units of a product, at most
  MaxQuantity,   \* units of a product an order asks for, at most
  Limits,        \* the values of Coupon.maxUses; Unlimited for null
  Discounts,     \* the pairs of Coupon.type and Coupon.value
  MinPurchases,  \* the values of Coupon.minPurchase; 0 for null
  HighAmount,    \* the amount above which antifraud calls an order high
  MaxOrders,     \* bound: orders created
  MaxEdits,      \* bound: changes made by administrators and the clock
  Unlimited, None

ASSUME CheckoutAssumption ==
  /\ IsFiniteSet(Wares)
  /\ Prices \subseteq Nat /\ MinPurchases \subseteq Nat /\ HighAmount \in Nat
  /\ MaxUnits \in Nat /\ MaxQuantity \in Nat /\ MaxOrders \in Nat /\ MaxEdits \in Nat
  /\ Limits \subseteq Nat \cup {Unlimited}
  /\ Unlimited \notin Nat
  /\ Discounts \subseteq [type : {"PERCENTAGE", "FIXED"}, value : Nat]

VARIABLES
  ware,          \* Product: price, stock, isActive
  onSale,        \* its AVAILABLE units, which a recount counts
  coupon,        \* Coupon; exists is FALSE once it is deleted
  limits,        \* history: every maxUses the coupon has had
  sales,         \* the orders created
  edits,         \* changes so far
  buyer          \* what each request is doing

checkoutVars == <<ware, onSale, coupon, limits, sales, edits, buyer>>

BuyerPcs == {"idle", "quote", "validate", "analyse", "load", "stock", "insert",
             "recount", "use", "commit", "done", "failed"}
InOrderTx == {"stock", "insert", "recount", "use", "commit"}
AfterInsert == {"recount", "use", "commit"}

Count == [stock : Nat, active : BOOLEAN]

Buyer == [pc       : BuyerPcs,
          coded    : BOOLEAN,                     \* the request names the coupon
          basket   : [Wares -> 0 .. MaxQuantity],
          quoted   : Nat,                         \* subtotal the coupon was judged by
          discount : Nat,
          limit    : Nat \cup {Unlimited},        \* maxUses as validated
          risk     : {"APPROVED", "MANUAL_REVIEW", "REJECTED"},
          subtotal : Nat,                         \* of the order itself
          todo     : SUBSET Wares,
          counted  : [Wares -> Count \cup {None}],  \* counts read, not yet written
          counts   : [Wares -> Count \cup {None}],  \* uncommitted, rows locked
          used     : BOOLEAN]                     \* uncommitted use, row locked

NoCounts == [p \in Wares |-> None]
IdleBuyer == [pc |-> "idle", coded |-> FALSE, basket |-> [p \in Wares |-> 0],
              quoted |-> 0, discount |-> 0, limit |-> Unlimited, risk |-> "APPROVED",
              subtotal |-> 0, todo |-> {}, counted |-> NoCounts, counts |-> NoCounts,
              used |-> FALSE]

Sale == [id : 1 .. MaxOrders, coded : BOOLEAN, quoted : Nat,
         subtotal : Nat, discount : Nat, total : Int]

CheckoutTypeOK ==
  /\ ware \in [Wares -> [price : Prices, stock : Nat, active : BOOLEAN]]
  /\ onSale \in [Wares -> 0 .. MaxUnits]
  /\ coupon \in [exists : BOOLEAN, active : BOOLEAN, inTime : BOOLEAN, used : Nat,
                 max : Limits, discount : Discounts, min : MinPurchases]
  /\ limits \subseteq Limits
  /\ sales \subseteq Sale
  /\ edits \in 0 .. MaxEdits
  /\ buyer \in [Buyers -> Buyer]

CheckoutInit ==
  /\ onSale = [p \in Wares |-> MaxUnits]
  /\ ware \in [Wares -> [price : Prices, stock : {MaxUnits}, active : {TRUE}]]
  /\ coupon \in [exists : {TRUE}, active : {TRUE}, inTime : {TRUE}, used : {0},
                 max : Limits, discount : Discounts, min : MinPurchases]
  /\ limits = {coupon.max}
  /\ sales = {}
  /\ edits = 0
  /\ buyer = [b \in Buyers |-> IdleBuyer]

BuyerGoes(b, pc) == buyer' = [buyer EXCEPT ![b].pc = pc]
ShopStays == UNCHANGED <<ware, onSale, coupon, limits, sales, edits>>

-----------------------------------------------------------------------------
(* Before the transaction.                                                 *)

StartOrder(b, basket, coded) ==
  /\ buyer[b].pc = "idle"
  /\ Cardinality(sales) < MaxOrders
  /\ \E p \in Wares : basket[p] > 0
  /\ buyer' = [buyer EXCEPT ![b] = [IdleBuyer EXCEPT
       !.pc = IF coded THEN "quote" ELSE "analyse", !.coded = coded, !.basket = basket]]
  /\ ShopStays

(* calculateSubtotal, and the same sum in orders.repository create.        *)
Ordered(b) == {p \in Wares : buyer[b].basket[p] > 0}
Subtotal(b) == SumFunctionOnSet([p \in Wares |-> ware[p].price * buyer[b].basket[p]], Ordered(b))
AllActive(b) == \A p \in Ordered(b) : ware[p].active

Quote(b) ==
  /\ buyer[b].pc = "quote"
  /\ \/ /\ AllActive(b)
        /\ buyer' = [buyer EXCEPT ![b].quoted = Subtotal(b), ![b].pc = "validate"]
     \/ ~ AllActive(b) /\ BuyerGoes(b, "failed")
  /\ ShopStays

(* validateForUse and validateAndCalculate.                                *)
UsableFor(amount) ==
  /\ coupon.exists /\ coupon.active /\ coupon.inTime
  /\ coupon.max # Unlimited => coupon.used < coupon.max
  /\ amount >= coupon.min

(* Mutant: a discount may exceed the subtotal.                             *)
UncappedDiscount(amount) ==
  IF coupon.discount.type = "PERCENTAGE" THEN (amount * coupon.discount.value) \div 100
  ELSE coupon.discount.value

DiscountFor(amount) ==
  LET d == IF coupon.discount.type = "PERCENTAGE" THEN (amount * coupon.discount.value) \div 100
           ELSE coupon.discount.value
  IN  IF d > amount THEN amount ELSE d

ValidateCoupon(b) ==
  LET amount == buyer[b].quoted
  IN  /\ buyer[b].pc = "validate"
      /\ \/ /\ UsableFor(amount)
            /\ buyer' = [buyer EXCEPT ![b].discount = DiscountFor(amount),
                                      ![b].limit = coupon.max, ![b].pc = "analyse"]
         \/ ~ UsableFor(amount) /\ BuyerGoes(b, "failed")
      /\ ShopStays

(* analyzeRisk.  create passes the user, the amount and the address; the   *)
(* reputation check of an address is a placeholder that always approves.   *)
Weight == [badAddress |-> 40, badDevice |-> 30, highVelocity |-> 20,
           lowSuccess |-> 15, highAmount |-> 10]

PossibleFindings(b) ==
  {f \in SUBSET {"highVelocity", "lowSuccess", "highAmount"} :
     "highAmount" \in f <=> Subtotal(b) > HighAmount}

Decision(findings) ==
  LET score == SumFunctionOnSet(Weight, findings)
  IN  CASE score >= 70 -> "REJECTED"
        [] score >= 30 /\ score < 70 -> "MANUAL_REVIEW"
        [] OTHER -> "APPROVED"

AnalyseRisk(b) ==
  /\ buyer[b].pc = "analyse"
  /\ \/ /\ AllActive(b)
        /\ \E f \in PossibleFindings(b) :
             buyer' = [buyer EXCEPT ![b].risk = Decision(f),
                         ![b].pc = IF Decision(f) = "REJECTED" THEN "failed" ELSE "load"]
     \/ ~ AllActive(b) /\ BuyerGoes(b, "failed")
  /\ ShopStays

-----------------------------------------------------------------------------
(* The transaction.  Its first read of the products goes past it, on a     *)
(* connection of its own.                                                  *)

LoadProducts(b) ==
  /\ buyer[b].pc = "load"
  /\ \/ /\ AllActive(b)
        /\ buyer' = [buyer EXCEPT ![b].subtotal = Subtotal(b), ![b].todo = Ordered(b),
                                  ![b].pc = "stock"]
     \/ ~ AllActive(b) /\ BuyerGoes(b, "failed")
  /\ ShopStays

CheckStock(b, p) ==
  /\ buyer[b].pc = "stock"
  /\ p \in buyer[b].todo
  /\ \/ /\ ware[p].stock >= buyer[b].basket[p]
        /\ buyer' = [buyer EXCEPT ![b].todo = @ \ {p},
                       ![b].pc = IF buyer[b].todo = {p} THEN "insert" ELSE "stock"]
     \/ ware[p].stock < buyer[b].basket[p] /\ BuyerGoes(b, "failed")
  /\ ShopStays

(* order.create: the coupon it names must still exist, and cannot be       *)
(* deleted from here on until the transaction ends.                        *)
InsertOrder(b) ==
  /\ buyer[b].pc = "insert"
  /\ \/ /\ buyer[b].coded => coupon.exists
        /\ buyer' = [buyer EXCEPT ![b].todo = Ordered(b), ![b].pc = "recount"]
     \/ buyer[b].coded /\ ~ coupon.exists /\ BuyerGoes(b, "failed")
  /\ ShopStays

(* syncProductStock: count, then write; the write waits for the row.       *)
CountWare(b, p) ==
  /\ buyer[b].pc = "recount"
  /\ p \in buyer[b].todo
  /\ buyer[b].counted = NoCounts
  /\ buyer' = [buyer EXCEPT ![b].counted[p] =
       [stock |-> onSale[p], active |-> onSale[p] > 0 /\ ware[p].active]]
  /\ ShopStays

WriteWare(b, p) ==
  /\ buyer[b].pc = "recount"
  /\ buyer[b].counted[p] # None
  /\ \A c \in Buyers \ {b} : buyer[c].counts[p] = None
  /\ buyer' = [buyer EXCEPT ![b].counts[p] = buyer[b].counted[p], ![b].counted = NoCounts,
       ![b].todo = @ \ {p},
       ![b].pc = IF buyer[b].todo # {p} THEN "recount"
                 ELSE IF buyer[b].coded THEN "use" ELSE "commit"]
  /\ ShopStays

(* markAsUsedIfAvailableTx with the limit as validated: the increment      *)
(* waits for the coupon's row and is decided on what is committed by then. *)
CouponLocked(b) == \E c \in Buyers \ {b} : buyer[c].used

(* Mutant: the limit was checked when the coupon was validated.            *)
AlwaysUsable(b) == coupon.exists

StillUsable(b) == buyer[b].limit # Unlimited => coupon.used < buyer[b].limit

CountUse(b) ==
  /\ buyer[b].pc = "use"
  /\ ~ CouponLocked(b)
  /\ \/ /\ StillUsable(b)
        /\ buyer' = [buyer EXCEPT ![b].used = TRUE, ![b].pc = "commit"]
     \/ ~ StillUsable(b) /\ buyer' = [buyer EXCEPT ![b] = [IdleBuyer EXCEPT !.pc = "failed"]]
  /\ ShopStays

SaleOf(b) ==
  [id |-> Cardinality(sales) + 1, coded |-> buyer[b].coded, quoted |-> buyer[b].quoted,
   subtotal |-> buyer[b].subtotal, discount |-> buyer[b].discount,
   total |-> buyer[b].subtotal - buyer[b].discount]

(* Mutant: the use is written whether or not the order is.                 *)
UseWithoutOrder(b) ==
  /\ buyer[b].pc = "commit"
  /\ coupon' = IF buyer[b].used THEN [coupon EXCEPT !.used = @ + 1] ELSE coupon
  /\ sales' \in {sales, sales \cup {SaleOf(b)}}
  /\ buyer' = [buyer EXCEPT ![b] = [IdleBuyer EXCEPT !.pc = "done"]]
  /\ UNCHANGED <<ware, onSale, limits, edits>>

CommitOrder(b) ==
  /\ buyer[b].pc = "commit"
  /\ Cardinality(sales) < MaxOrders
  /\ ware' = [p \in Wares |->
       IF buyer[b].counts[p] = None THEN ware[p]
       ELSE [ware[p] EXCEPT !.stock = buyer[b].counts[p].stock,
                            !.active = buyer[b].counts[p].active]]
  /\ coupon' = IF buyer[b].used THEN [coupon EXCEPT !.used = @ + 1] ELSE coupon
  /\ sales' = sales \cup {SaleOf(b)}
  /\ buyer' = [buyer EXCEPT ![b] = [IdleBuyer EXCEPT !.pc = "done"]]
  /\ UNCHANGED <<onSale, limits, edits>>

-----------------------------------------------------------------------------
(* Beside the buyers: administrators, the clock, and failures.             *)

Edit == edits < MaxEdits /\ edits' = edits + 1 /\ UNCHANGED <<sales, buyer>>

CouponFree == \A b \in Buyers : ~ buyer[b].used
NotInAnOpenOrder == \A b \in Buyers : buyer[b].coded => buyer[b].pc \notin AfterInsert

EditCoupon(max, discount, min, active) ==
  /\ Edit
  /\ coupon.exists /\ CouponFree
  /\ coupon' = [coupon EXCEPT !.max = max, !.discount = discount, !.min = min, !.active = active]
  /\ limits' = limits \cup {max}
  /\ UNCHANGED <<ware, onSale>>

(* Orders that used it keep their discount; their couponId becomes null.   *)
DeleteCoupon ==
  /\ Edit
  /\ coupon.exists /\ CouponFree /\ NotInAnOpenOrder
  /\ coupon' = [coupon EXCEPT !.exists = FALSE]
  /\ UNCHANGED <<ware, onSale, limits>>

(* validFrom or validTo passes.                                            *)
CouponClock ==
  /\ Edit
  /\ coupon' = [coupon EXCEPT !.inTime = ~ @]
  /\ UNCHANGED <<ware, onSale, limits>>

EditWare(p, price, active) ==
  /\ Edit
  /\ \A b \in Buyers : buyer[b].counts[p] = None
  /\ ware' = [ware EXCEPT ![p].price = price, ![p].active = active]
  /\ UNCHANGED <<onSale, coupon, limits>>

(* Units are sold or imported, and recounted by those who do it.           *)
UnitsChange(p, n) ==
  /\ Edit
  /\ \A b \in Buyers : buyer[b].counts[p] = None
  /\ onSale' = [onSale EXCEPT ![p] = n]
  /\ ware' = [ware EXCEPT ![p].stock = n]
  /\ UNCHANGED <<coupon, limits>>

OrderFails(b) ==
  /\ buyer[b].pc \in BuyerPcs \ {"idle", "done", "failed"}
  /\ buyer' = [buyer EXCEPT ![b] = [IdleBuyer EXCEPT !.pc = "failed"]]
  /\ ShopStays

BuyerReturns(b) ==
  /\ buyer[b].pc \in {"done", "failed"}
  /\ buyer' = [buyer EXCEPT ![b] = IdleBuyer]
  /\ ShopStays

CheckoutNext ==
  \/ \E b \in Buyers :
       \/ \E basket \in [Wares -> 0 .. MaxQuantity], c \in BOOLEAN : StartOrder(b, basket, c)
       \/ Quote(b) \/ ValidateCoupon(b) \/ AnalyseRisk(b) \/ LoadProducts(b)
       \/ InsertOrder(b) \/ CountUse(b) \/ CommitOrder(b)
       \/ \E p \in Wares : CheckStock(b, p) \/ CountWare(b, p) \/ WriteWare(b, p)
       \/ OrderFails(b) \/ BuyerReturns(b)
  \/ \E m \in Limits, d \in Discounts, n \in MinPurchases, a \in BOOLEAN : EditCoupon(m, d, n, a)
  \/ DeleteCoupon \/ CouponClock
  \/ \E p \in Wares :
       \/ \E price \in Prices, a \in BOOLEAN : EditWare(p, price, a)
       \/ \E n \in 0 .. MaxUnits : UnitsChange(p, n)

CheckoutSpec == CheckoutInit /\ [][CheckoutNext]_checkoutVars

-----------------------------------------------------------------------------
(* Properties.                                                             *)

(* A coupon is never used more often than some maxUses it has had allows,  *)
(* however many orders race for the last use and whatever administrators   *)
(* change between the validation and the use: the increment is decided     *)
(* under the row's lock, by the limit the request validated.               *)
CouponWithinLimits ==
  Unlimited \notin limits => \E n \in limits : coupon.used <= n

(* usedCount is the number of orders created with the coupon: the use is   *)
(* counted in the order's transaction, so neither exists without the other.*)
UsesAreOrders == coupon.used = Cardinality({s \in sales : s.coded})

(* The customer never pays less than nothing, unless a price was lowered   *)
(* between the validation of the coupon and the order: the discount is     *)
(* bounded by the subtotal it was quoted for, and only a lower one can     *)
(* make the total negative.                                                *)
NegativeOnlyIfRepriced ==
  \A s \in sales : s.total < 0 => s.coded /\ s.subtotal < s.quoted
=============================================================================
