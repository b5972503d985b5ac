--------------------------- MODULE CustomerProofs ---------------------------
(***************************************************************************)
(* What Checkout, Cart and Wallet promise, for any number of requests,     *)
(* products and amounts.                                                   *)
(*                                                                         *)
(* Of Checkout two invariants are inductive: CheckoutInvariant, which      *)
(* speaks of the coupon and of the orders created with it, and             *)
(* PricedInvariant, of the amounts. An amount is a sum over a basket,      *)
(* taken by a fold over a set, whose value no backend computes: the lemmas *)
(* between the two say what the proofs need of such sums.                  *)
(*                                                                         *)
(* The limit on a quantity in a cart is inductive together with the fact   *)
(* that a request about to write holds a total that was checked, against a *)
(* stock the product has had.                                              *)
(*                                                                         *)
(* A wallet holds the sum of its ledger. SumOf is a recursive function; it *)
(* is shown to be total and to grow by the entry appended, by taking the   *)
(* shortest ledger that would make it otherwise. The overdraft is bounded  *)
(* by counting the debits that were covered when they were checked, and    *)
(* the walk over the ledger is complete since its cursor only descends.    *)
(***************************************************************************)
EXTENDS Cart, Wallet, Checkout, FiniteSetTheorems, SequenceTheorems,
        WellFoundedInduction, TLAPS

-----------------------------------------------------------------------------
(* Checkout: the coupon.                                                   *)

Fields == DOMAIN IdleBuyer

(* What the coupon's theorems need to know of the types.                   *)
Shapes ==
  /\ DOMAIN coupon = {"exists", "active", "inTime", "used", "max", "discount", "min"}
  /\ coupon.used \in Nat /\ coupon.max \in limits
  /\ limits \subseteq Nat \cup {Unlimited}
  /\ IsFiniteSet(sales)
  /\ DOMAIN buyer = Buyers
  /\ \A b \in Buyers : /\ DOMAIN buyer[b] = Fields
                       /\ buyer[b].used \in BOOLEAN /\ buyer[b].coded \in BOOLEAN

(* Orders are numbered as they are created.                                *)
Numbered == \A s \in sales : s.id \in 1 .. Cardinality(sales)

(* The limit a request goes by is one the coupon has had.                  *)
Validated == {"analyse", "load", "stock", "insert", "recount", "use", "commit"}
LimitKnown ==
  \A b \in Buyers : (buyer[b].coded /\ buyer[b].pc \in Validated) => buyer[b].limit \in limits

(* An uncommitted use is made by an order about to commit that names the   *)
(* coupon, by one at a time, and still fits under the limit.               *)
OpenUse ==
  /\ \A b \in Buyers : buyer[b].pc = "use" => buyer[b].coded
  /\ \A b \in Buyers : buyer[b].pc = "commit" => (buyer[b].used <=> buyer[b].coded)
  /\ \A b \in Buyers : buyer[b].used =>
       /\ buyer[b].pc = "commit"
       /\ \A c \in Buyers : buyer[c].used => c = b
       /\ buyer[b].limit # Unlimited => coupon.used < buyer[b].limit

CheckoutInvariant ==
  /\ Shapes
  /\ Numbered
  /\ LimitKnown
  /\ OpenUse
  /\ UsesAreOrders
  /\ CouponWithinLimits

-----------------------------------------------------------------------------
LEMMA IdleBuyerShape ==
  /\ DOMAIN IdleBuyer = Fields
  /\ {"pc", "coded", "basket", "quoted", "discount", "limit", "risk", "subtotal", "todo",
      "counted", "counts", "used"} = Fields
  /\ IdleBuyer.pc = "idle" /\ IdleBuyer.used = FALSE /\ IdleBuyer.coded = FALSE
  BY DEF IdleBuyer, Fields

LEMMA InitCheckout == CheckoutInit => CheckoutInvariant
  <1> SUFFICES ASSUME CheckoutInit PROVE CheckoutInvariant
    OBVIOUS
  <1>1. Cardinality({}) = 0 /\ IsFiniteSet({})
    BY FS_EmptySet
  <1>2. sales = {} /\ {s \in sales : s.coded} = {}
    BY DEF CheckoutInit
  <1>3. coupon.used = 0 /\ coupon.max \in Limits /\ limits = {coupon.max}
        /\ DOMAIN coupon = {"exists", "active", "inTime", "used", "max", "discount", "min"}
    BY DEF CheckoutInit
  <1>4. \A b \in Buyers : buyer[b] = IdleBuyer
    BY DEF CheckoutInit
  <1>5. DOMAIN buyer = Buyers
    BY DEF CheckoutInit
  <1>6. Shapes
    <2>1. limits \subseteq Nat \cup {Unlimited} /\ coupon.max \in limits
      <3>1. Limits \subseteq Nat \cup {Unlimited}
        BY CheckoutAssumption
      <3> QED BY <1>3, <3>1
    <2>2. \A b \in Buyers : /\ DOMAIN buyer[b] = Fields
                            /\ buyer[b].used \in BOOLEAN /\ buyer[b].coded \in BOOLEAN
      BY <1>4, IdleBuyerShape
    <2>3. coupon.used \in Nat /\ IsFiniteSet(sales)
      BY <1>1, <1>2, <1>3
    <2> QED BY <1>3, <1>5, <2>1, <2>2, <2>3 DEF Shapes
  <1>7. Numbered /\ UsesAreOrders
    BY <1>1, <1>2, <1>3 DEF Numbered, UsesAreOrders
  <1>8. LimitKnown /\ OpenUse
    BY <1>4, IdleBuyerShape DEF LimitKnown, OpenUse
  <1>9. CouponWithinLimits
    <2> SUFFICES ASSUME Unlimited \notin limits PROVE \E n \in limits : coupon.used <= n
      BY DEF CouponWithinLimits
    <2>1. coupon.max \in limits /\ coupon.max \in Nat
      BY <1>3, <1>6 DEF Shapes
    <2> QED BY <1>3, <2>1
  <1> QED BY <1>6, <1>7, <1>8, <1>9 DEF CheckoutInvariant

(* What every step of a request leaves as it was, but for its own record:  *)
(* each such step needs only say what it makes of that record.             *)
LEMMA OwnRecord ==
  ASSUME CheckoutInvariant, NEW b \in Buyers, NEW r,
         UNCHANGED <<coupon, limits, sales>>,
         buyer' = [buyer EXCEPT ![b] = r],
         DOMAIN r = Fields, r.used \in BOOLEAN, r.coded \in BOOLEAN,
         (r.coded /\ r.pc \in Validated) => r.limit \in limits,
         r.pc = "use" => r.coded,
         r.pc = "commit" => (r.used <=> r.coded),
         r.used => /\ r.pc = "commit"
                   /\ \A c \in Buyers \ {b} : ~ buyer[c].used
                   /\ r.limit # Unlimited => coupon.used < r.limit
  PROVE  CheckoutInvariant'
  <1>1. DOMAIN buyer' = Buyers /\ buyer'[b] = r /\ \A c \in Buyers \ {b} : buyer'[c] = buyer[c]
    BY DEF CheckoutInvariant, Shapes
  <1>2. Shapes'
    BY <1>1 DEF CheckoutInvariant, Shapes
  <1>3. Numbered' /\ UsesAreOrders' /\ CouponWithinLimits'
    BY DEF CheckoutInvariant, Numbered, UsesAreOrders, CouponWithinLimits
  <1>4. LimitKnown'
    BY <1>1 DEF CheckoutInvariant, LimitKnown
  <1>5. OpenUse'
    <2>1. ASSUME NEW c \in Buyers, buyer'[c].pc = "commit"
          PROVE  buyer'[c].used <=> buyer'[c].coded
      BY <1>1, <2>1 DEF CheckoutInvariant, OpenUse
    <2>2. ASSUME NEW c \in Buyers, buyer'[c].used
          PROVE  /\ buyer'[c].pc = "commit"
                 /\ \A d \in Buyers : buyer'[d].used => d = c
                 /\ buyer'[c].limit # Unlimited => coupon'.used < buyer'[c].limit
      <3>1. CASE c = b
        BY <1>1, <2>2, <3>1 DEF CheckoutInvariant, OpenUse
      <3>2. CASE c # b
        <4>1. buyer[c].used /\ ~ r.used
          BY <1>1, <2>2, <3>2
        <4> QED BY <1>1, <3>2, <4>1 DEF CheckoutInvariant, OpenUse
      <3> QED BY <3>1, <3>2
    <2>3. ASSUME NEW c \in Buyers, buyer'[c].pc = "use"
          PROVE  buyer'[c].coded
      BY <1>1, <2>3 DEF CheckoutInvariant, OpenUse
    <2> QED BY <2>1, <2>2, <2>3 DEF OpenUse
  <1> QED BY <1>2, <1>3, <1>4, <1>5 DEF CheckoutInvariant

(* A request that ends or begins holds nothing of the coupon.              *)
LEMMA OwnEnd ==
  ASSUME CheckoutInvariant, NEW b \in Buyers, NEW pc,
         pc \notin Validated,
         UNCHANGED <<coupon, limits, sales>>,
         buyer' = [buyer EXCEPT ![b] = [IdleBuyer EXCEPT !.pc = pc]]
  PROVE  CheckoutInvariant'
  <1> DEFINE r == [IdleBuyer EXCEPT !.pc = pc]
  <1>1. DOMAIN r = Fields /\ r.used = FALSE /\ r.coded = FALSE /\ r.pc = pc
    BY IdleBuyerShape
  <1>2. pc # "commit" /\ pc # "use"
    BY DEF Validated
  <1> HIDE DEF r
  <1> QED BY <1>1, <1>2, OwnRecord DEF r

(* A request that goes on without touching the coupon: its new record      *)
(* agrees with the old one in what the invariant speaks of.                *)
LEMMA OwnGoesOn ==
  ASSUME CheckoutInvariant, NEW b \in Buyers, NEW r,
         UNCHANGED <<coupon, limits, sales>>,
         buyer' = [buyer EXCEPT ![b] = r],
         DOMAIN r = Fields, r.used = buyer[b].used, r.coded = buyer[b].coded,
         r.limit = buyer[b].limit,
         buyer[b].pc # "commit",
         (r.coded /\ r.pc \in Validated) => buyer[b].pc \in Validated,
         r.pc = "use" => r.coded,
         r.pc = "commit" => ~ r.coded
  PROVE  CheckoutInvariant'
  <1>1. ~ buyer[b].used
    BY DEF CheckoutInvariant, OpenUse
  <1>2. r.used \in BOOLEAN /\ r.coded \in BOOLEAN
    BY DEF CheckoutInvariant, Shapes
  <1>3. (r.coded /\ r.pc \in Validated) => r.limit \in limits
    BY DEF CheckoutInvariant, LimitKnown
  <1> QED BY <1>1, <1>2, <1>3, OwnRecord

-----------------------------------------------------------------------------
(* One lemma per action.                                                   *)

LEMMA StartOrderStep ==
  ASSUME CheckoutInvariant, NEW b \in Buyers, NEW basket, NEW c \in BOOLEAN,
         StartOrder(b, basket, c)
  PROVE  CheckoutInvariant'
  <1> DEFINE r == [IdleBuyer EXCEPT !.pc = IF c THEN "quote" ELSE "analyse",
                                    !.coded = c, !.basket = basket]
  <1>1. DOMAIN r = Fields /\ r.used = FALSE /\ r.coded = c
        /\ r.pc = IF c THEN "quote" ELSE "analyse"
    BY IdleBuyerShape
  <1>2. UNCHANGED <<coupon, limits, sales>> /\ buyer' = [buyer EXCEPT ![b] = r]
    BY DEF StartOrder, ShopStays
  <1> HIDE DEF r
  <1>3. r.pc # "commit" /\ ~ (r.coded /\ r.pc \in Validated) /\ r.used \in BOOLEAN /\ r.coded \in BOOLEAN
    BY <1>1 DEF Validated
  <1> QED BY <1>1, <1>2, <1>3, OwnRecord

(* A condition fails, and the request with it, at a step before the use.   *)
LEMMA RefusedStep ==
  ASSUME CheckoutInvariant, NEW b \in Buyers, buyer[b].pc # "commit",
         BuyerGoes(b, "failed"), ShopStays
  PROVE  CheckoutInvariant'
  <1> DEFINE r == [buyer[b] EXCEPT !.pc = "failed"]
  <1>1. DOMAIN buyer[b] = Fields /\ DOMAIN buyer = Buyers
    BY DEF CheckoutInvariant, Shapes
  <1>2. DOMAIN r = Fields /\ r.used = buyer[b].used /\ r.coded = buyer[b].coded
        /\ r.limit = buyer[b].limit /\ r.pc = "failed"
    BY <1>1, IdleBuyerShape
  <1>3. UNCHANGED <<coupon, limits, sales>> /\ buyer' = [buyer EXCEPT ![b] = r]
    BY <1>1 DEF BuyerGoes, ShopStays
  <1> HIDE DEF r
  <1>4. r.pc # "commit" /\ r.pc \notin Validated
    BY <1>2 DEF Validated
  <1> QED BY <1>2, <1>3, <1>4, OwnGoesOn

LEMMA QuoteStep ==
  ASSUME CheckoutInvariant, NEW b \in Buyers, Quote(b)
  PROVE  CheckoutInvariant'
  <1>1. CASE BuyerGoes(b, "failed")
    BY <1>1, RefusedStep DEF Quote
  <1>2. CASE ~ BuyerGoes(b, "failed")
    <2> DEFINE r == [buyer[b] EXCEPT !.quoted = Subtotal(b), !.pc = "validate"]
    <2>1. DOMAIN buyer[b] = Fields /\ DOMAIN buyer = Buyers
      BY DEF CheckoutInvariant, Shapes
    <2>2. DOMAIN r = Fields /\ r.used = buyer[b].used /\ r.coded = buyer[b].coded
          /\ r.limit = buyer[b].limit /\ r.pc = "validate"
      BY <2>1, IdleBuyerShape
    <2>3. UNCHANGED <<coupon, limits, sales>> /\ buyer' = [buyer EXCEPT ![b] = r]
          /\ buyer[b].pc = "quote"
      BY <1>2, <2>1 DEF Quote, ShopStays
    <2> HIDE DEF r
    <2>4. r.pc # "commit" /\ r.pc \notin Validated
      BY <2>2 DEF Validated
    <2> QED BY <2>2, <2>3, <2>4, OwnGoesOn
  <1> QED BY <1>1, <1>2

(* The limit is read here; it is one the coupon has.                       *)
LEMMA ValidateCouponStep ==
  ASSUME CheckoutInvariant, NEW b \in Buyers, ValidateCoupon(b)
  PROVE  CheckoutInvariant'
  <1>1. CASE BuyerGoes(b, "failed")
    BY <1>1, RefusedStep DEF ValidateCoupon
  <1>2. CASE ~ BuyerGoes(b, "failed")
    <2> DEFINE r == [buyer[b] EXCEPT !.discount = DiscountFor(buyer[b].quoted),
                                     !.limit = coupon.max, !.pc = "analyse"]
    <2>1. DOMAIN buyer[b] = Fields /\ DOMAIN buyer = Buyers
      BY DEF CheckoutInvariant, Shapes
    <2>2. DOMAIN r = Fields /\ r.used = buyer[b].used /\ r.coded = buyer[b].coded
          /\ r.limit = coupon.max /\ r.pc = "analyse"
      BY <2>1, IdleBuyerShape
    <2>3. UNCHANGED <<coupon, limits, sales>> /\ buyer' = [buyer EXCEPT ![b] = r]
          /\ buyer[b].pc = "validate"
      BY <1>2, <2>1 DEF ValidateCoupon, ShopStays
    <2> HIDE DEF r
    <2>4. r.limit \in limits /\ r.used \in BOOLEAN /\ r.coded \in BOOLEAN
      BY <2>2 DEF CheckoutInvariant, Shapes
    <2>5. ~ r.used
      BY <2>2, <2>3 DEF CheckoutInvariant, OpenUse
    <2> QED BY <2>2, <2>3, <2>4, <2>5, OwnRecord
  <1> QED BY <1>1, <1>2

LEMMA AnalyseRiskStep ==
  ASSUME CheckoutInvariant, NEW b \in Buyers, AnalyseRisk(b)
  PROVE  CheckoutInvariant'
  <1>1. CASE BuyerGoes(b, "failed")
    BY <1>1, RefusedStep DEF AnalyseRisk
  <1>2. CASE ~ BuyerGoes(b, "failed")
    <2>1. DOMAIN buyer[b] = Fields /\ DOMAIN buyer = Buyers
      BY DEF CheckoutInvariant, Shapes
    <2>2. PICK f \in PossibleFindings(b) :
            buyer' = [buyer EXCEPT ![b].risk = Decision(f),
                        ![b].pc = IF Decision(f) = "REJECTED" THEN "failed" ELSE "load"]
      BY <1>2 DEF AnalyseRisk
    <2> DEFINE pc == IF Decision(f) = "REJECTED" THEN "failed" ELSE "load"
               r == [buyer[b] EXCEPT !.risk = Decision(f), !.pc = pc]
    <2>3. DOMAIN r = Fields /\ r.used = buyer[b].used /\ r.coded = buyer[b].coded
          /\ r.limit = buyer[b].limit /\ r.pc \in {"failed", "load"}
      BY <2>1, IdleBuyerShape
    <2>4. UNCHANGED <<coupon, limits, sales>> /\ buyer' = [buyer EXCEPT ![b] = r]
          /\ buyer[b].pc = "analyse"
      BY <2>1, <2>2 DEF AnalyseRisk, ShopStays
    <2> HIDE DEF r, pc
    <2>5. r.pc # "commit" /\ buyer[b].pc # "commit" /\ buyer[b].pc \in Validated
      BY <2>3, <2>4 DEF Validated
    <2> QED BY <2>3, <2>4, <2>5, OwnGoesOn
  <1> QED BY <1>1, <1>2

LEMMA LoadProductsStep ==
  ASSUME CheckoutInvariant, NEW b \in Buyers, LoadProducts(b)
  PROVE  CheckoutInvariant'
  <1>1. CASE BuyerGoes(b, "failed")
    BY <1>1, RefusedStep DEF LoadProducts
  <1>2. CASE ~ BuyerGoes(b, "failed")
    <2> DEFINE r == [buyer[b] EXCEPT !.subtotal = Subtotal(b), !.todo = Ordered(b), !.pc = "stock"]
    <2>1. DOMAIN buyer[b] = Fields /\ DOMAIN buyer = Buyers
      BY DEF CheckoutInvariant, Shapes
    <2>2. DOMAIN r = Fields /\ r.used = buyer[b].used /\ r.coded = buyer[b].coded
          /\ r.limit = buyer[b].limit /\ r.pc = "stock"
      BY <2>1, IdleBuyerShape
    <2>3. UNCHANGED <<coupon, limits, sales>> /\ buyer' = [buyer EXCEPT ![b] = r]
          /\ buyer[b].pc = "load"
      BY <1>2, <2>1 DEF LoadProducts, ShopStays
    <2> HIDE DEF r
    <2>4. r.pc # "commit" /\ buyer[b].pc # "commit" /\ buyer[b].pc \in Validated
      BY <2>2, <2>3 DEF Validated
    <2> QED BY <2>2, <2>3, <2>4, OwnGoesOn
  <1> QED BY <1>1, <1>2

LEMMA CheckStockStep ==
  ASSUME CheckoutInvariant, NEW b \in Buyers, NEW p \in Wares, CheckStock(b, p)
  PROVE  CheckoutInvariant'
  <1>1. CASE BuyerGoes(b, "failed")
    BY <1>1, RefusedStep DEF CheckStock
  <1>2. CASE ~ BuyerGoes(b, "failed")
    <2> DEFINE pc == IF buyer[b].todo = {p} THEN "insert" ELSE "stock"
               r == [buyer[b] EXCEPT !.todo = @ \ {p}, !.pc = pc]
    <2>1. DOMAIN buyer[b] = Fields /\ DOMAIN buyer = Buyers
      BY DEF CheckoutInvariant, Shapes
    <2>2. DOMAIN r = Fields /\ r.used = buyer[b].used /\ r.coded = buyer[b].coded
          /\ r.limit = buyer[b].limit /\ r.pc \in {"insert", "stock"}
      BY <2>1, IdleBuyerShape
    <2>3. UNCHANGED <<coupon, limits, sales>> /\ buyer' = [buyer EXCEPT ![b] = r]
          /\ buyer[b].pc = "stock"
      BY <1>2, <2>1 DEF CheckStock, ShopStays
    <2> HIDE DEF r, pc
    <2>4. r.pc # "commit" /\ buyer[b].pc # "commit" /\ buyer[b].pc \in Validated
      BY <2>2, <2>3 DEF Validated
    <2> QED BY <2>2, <2>3, <2>4, OwnGoesOn
  <1> QED BY <1>1, <1>2

LEMMA InsertOrderStep ==
  ASSUME CheckoutInvariant, NEW b \in Buyers, InsertOrder(b)
  PROVE  CheckoutInvariant'
  <1>1. CASE BuyerGoes(b, "failed")
    BY <1>1, RefusedStep DEF InsertOrder
  <1>2. CASE ~ BuyerGoes(b, "failed")
    <2> DEFINE r == [buyer[b] EXCEPT !.todo = Ordered(b), !.pc = "recount"]
    <2>1. DOMAIN buyer[b] = Fields /\ DOMAIN buyer = Buyers
      BY DEF CheckoutInvariant, Shapes
    <2>2. DOMAIN r = Fields /\ r.used = buyer[b].used /\ r.coded = buyer[b].coded
          /\ r.limit = buyer[b].limit /\ r.pc = "recount"
      BY <2>1, IdleBuyerShape
    <2>3. UNCHANGED <<coupon, limits, sales>> /\ buyer' = [buyer EXCEPT ![b] = r]
          /\ buyer[b].pc = "insert"
      BY <1>2, <2>1 DEF InsertOrder, ShopStays
    <2> HIDE DEF r
    <2>4. r.pc # "commit" /\ buyer[b].pc # "commit" /\ buyer[b].pc \in Validated
      BY <2>2, <2>3 DEF Validated
    <2> QED BY <2>2, <2>3, <2>4, OwnGoesOn
  <1> QED BY <1>1, <1>2

LEMMA CountWareStep ==
  ASSUME CheckoutInvariant, NEW b \in Buyers, NEW p \in Wares, CountWare(b, p)
  PROVE  CheckoutInvariant'
  <1> DEFINE n == [buyer[b].counted EXCEPT ![p] =
                     [stock |-> onSale[p], active |-> onSale[p] > 0 /\ ware[p].active]]
             r == [buyer[b] EXCEPT !.counted = n]
  <1>1. DOMAIN buyer[b] = Fields /\ DOMAIN buyer = Buyers
    BY DEF CheckoutInvariant, Shapes
  <1>2. buyer' = [buyer EXCEPT ![b] = r] /\ UNCHANGED <<coupon, limits, sales>>
        /\ buyer[b].pc = "recount"
    BY <1>1, IdleBuyerShape DEF CountWare, ShopStays
  <1> HIDE DEF n
  <1>3. DOMAIN r = Fields /\ r.used = buyer[b].used /\ r.coded = buyer[b].coded
        /\ r.limit = buyer[b].limit /\ r.pc = buyer[b].pc
    BY <1>1, IdleBuyerShape
  <1> HIDE DEF r
  <1> QED BY <1>2, <1>3, OwnGoesOn

(* The last product written, an order with the coupon goes on to count the *)
(* use and one without to commit.                                          *)
LEMMA WriteWareStep ==
  ASSUME CheckoutInvariant, NEW b \in Buyers, NEW p \in Wares, WriteWare(b, p)
  PROVE  CheckoutInvariant'
  <1> DEFINE pc == IF buyer[b].todo # {p} THEN "recount"
                   ELSE IF buyer[b].coded THEN "use" ELSE "commit"
             n == [buyer[b].counts EXCEPT ![p] = buyer[b].counted[p]]
             r == [buyer[b] EXCEPT !.counts = n, !.counted = NoCounts, !.todo = @ \ {p}, !.pc = pc]
  <1>1. DOMAIN buyer[b] = Fields /\ DOMAIN buyer = Buyers
    BY DEF CheckoutInvariant, Shapes
  <1>2. buyer' = [buyer EXCEPT ![b] = r] /\ UNCHANGED <<coupon, limits, sales>>
        /\ buyer[b].pc = "recount"
    BY <1>1, IdleBuyerShape DEF WriteWare, ShopStays
  <1>3. (pc = "commit" => ~ buyer[b].coded) /\ (pc = "use" => buyer[b].coded)
    BY DEF CheckoutInvariant, Shapes
  <1> HIDE DEF n, pc
  <1>4. DOMAIN r = Fields /\ r.used = buyer[b].used /\ r.coded = buyer[b].coded
        /\ r.limit = buyer[b].limit /\ r.pc = pc
    BY <1>1, IdleBuyerShape
  <1> HIDE DEF r
  <1>5. buyer[b].pc # "commit" /\ buyer[b].pc \in Validated
    BY <1>2 DEF Validated
  <1> QED BY <1>2, <1>3, <1>4, <1>5, OwnGoesOn

(* The row's lock and the check of the committed count make the use one    *)
(* that still fits; a request without room rolls back.                     *)
LEMMA CountUseStep ==
  ASSUME CheckoutInvariant, NEW b \in Buyers, CountUse(b)
  PROVE  CheckoutInvariant'
  <1>1. DOMAIN buyer[b] = Fields /\ DOMAIN buyer = Buyers
    BY DEF CheckoutInvariant, Shapes
  <1>2. UNCHANGED <<coupon, limits, sales>> /\ buyer[b].pc = "use"
        /\ \A c \in Buyers \ {b} : ~ buyer[c].used
    BY DEF CountUse, ShopStays, CouponLocked
  <1>5. buyer[b].coded = TRUE
    BY <1>2 DEF CheckoutInvariant, OpenUse, Shapes
  <1>3. CASE StillUsable(b) /\ buyer' = [buyer EXCEPT ![b].used = TRUE, ![b].pc = "commit"]
    <2> DEFINE r == [buyer[b] EXCEPT !.used = TRUE, !.pc = "commit"]
    <2>1. DOMAIN r = Fields /\ r.used = TRUE /\ r.coded = buyer[b].coded
          /\ r.limit = buyer[b].limit /\ r.pc = "commit"
      BY <1>1, IdleBuyerShape
    <2>2. buyer' = [buyer EXCEPT ![b] = r]
      BY <1>1, <1>3
    <2> HIDE DEF r
    <2>3. r.limit \in limits
      BY <1>2, <1>5, <2>1 DEF CheckoutInvariant, LimitKnown, Validated
    <2>4. r.limit # Unlimited => coupon.used < r.limit
      BY <1>3, <2>1 DEF StillUsable
    <2>5. r.coded = TRUE
      BY <1>5, <2>1
    <2> QED BY <1>2, <2>1, <2>2, <2>3, <2>4, <2>5, OwnRecord
  <1>4. CASE buyer' = [buyer EXCEPT ![b] = [IdleBuyer EXCEPT !.pc = "failed"]]
    <2>1. "failed" \notin Validated
      BY DEF Validated
    <2> QED BY <1>2, <1>4, <2>1, OwnEnd
  <1> QED BY <1>3, <1>4 DEF CountUse

LEMMA OrderFailsStep ==
  ASSUME CheckoutInvariant, NEW b \in Buyers, OrderFails(b) \/ BuyerReturns(b)
  PROVE  CheckoutInvariant'
  <1>1. "failed" \notin Validated
    BY DEF Validated
  <1>2. UNCHANGED <<coupon, limits, sales>>
    BY DEF OrderFails, BuyerReturns, ShopStays
  <1>3. CASE OrderFails(b)
    BY <1>1, <1>2, <1>3, OwnEnd DEF OrderFails
  <1>4. CASE BuyerReturns(b)
    <2>1. buyer' = [buyer EXCEPT ![b] = IdleBuyer]
      BY <1>4 DEF BuyerReturns
    <2> QED BY <1>2, <2>1, IdleBuyerShape, OwnRecord
  <1> QED BY <1>3, <1>4

(* The order gets the next number, so it is a new element of sales; the    *)
(* use it made becomes visible in the same step.                           *)
LEMMA CommitOrderStep ==
  ASSUME CheckoutInvariant, NEW b \in Buyers, CommitOrder(b)
  PROVE  CheckoutInvariant'
  <1> DEFINE n == Cardinality(sales)
             coded == {s \in sales : s.coded}
             end == [IdleBuyer EXCEPT !.pc = "done"]
             o == SaleOf(b)
  <1>1. /\ buyer[b].pc = "commit" /\ limits' = limits
        /\ coupon' = IF buyer[b].used THEN [coupon EXCEPT !.used = @ + 1] ELSE coupon
        /\ sales' = sales \cup {o}
        /\ buyer' = [buyer EXCEPT ![b] = end]
    BY DEF CommitOrder
  <1>2. /\ DOMAIN coupon = {"exists", "active", "inTime", "used", "max", "discount", "min"}
        /\ coupon.used \in Nat /\ coupon.max \in limits /\ DOMAIN buyer = Buyers
        /\ limits \subseteq Nat \cup {Unlimited} /\ IsFiniteSet(sales)
        /\ DOMAIN buyer[b] = Fields /\ buyer[b].used \in BOOLEAN /\ buyer[b].coded \in BOOLEAN
        /\ buyer[b].used <=> buyer[b].coded
    BY <1>1 DEF CheckoutInvariant, Shapes, OpenUse
  <1>3. o.id = n + 1 /\ o.coded = buyer[b].coded
    BY DEF SaleOf
  <1>4. n \in Nat /\ o \notin sales /\ IsFiniteSet(sales') /\ Cardinality(sales') = n + 1
    <2>1. n \in Nat
      BY <1>2, FS_CardinalityType
    <2>2. o \notin sales
      BY <1>3, <2>1 DEF CheckoutInvariant, Numbered
    <2> QED BY <1>1, <1>2, <2>1, <2>2, FS_AddElement
  <1>5. DOMAIN end = Fields /\ end.used = FALSE /\ end.coded = FALSE /\ end.pc = "done"
    BY IdleBuyerShape
  <1>6. DOMAIN buyer' = Buyers /\ buyer'[b] = end /\ \A c \in Buyers \ {b} : buyer'[c] = buyer[c]
    BY <1>1, <1>2
  <1>7. /\ DOMAIN coupon' = DOMAIN coupon /\ coupon'.max = coupon.max
        /\ coupon'.used = IF buyer[b].used THEN coupon.used + 1 ELSE coupon.used
    BY <1>1, <1>2
  <1> HIDE DEF end, o
  <1>8. Shapes'
    <2>1. coupon'.used \in Nat /\ coupon'.max \in limits' /\ limits' \subseteq Nat \cup {Unlimited}
      BY <1>1, <1>2, <1>7
    <2>2. \A c \in Buyers : /\ DOMAIN buyer'[c] = Fields
                            /\ buyer'[c].used \in BOOLEAN /\ buyer'[c].coded \in BOOLEAN
      BY <1>5, <1>6 DEF CheckoutInvariant, Shapes
    <2> QED BY <1>2, <1>4, <1>6, <1>7, <2>1, <2>2 DEF Shapes
  <1>9. Numbered'
    BY <1>1, <1>3, <1>4 DEF CheckoutInvariant, Numbered
  <1>10. LimitKnown'
    BY <1>1, <1>5, <1>6 DEF CheckoutInvariant, LimitKnown
  <1>11. OpenUse'
    <2>1. ASSUME NEW c \in Buyers, buyer'[c].used
          PROVE  /\ buyer'[c].pc = "commit"
                 /\ \A d \in Buyers : buyer'[d].used => d = c
                 /\ buyer'[c].limit # Unlimited => coupon'.used < buyer'[c].limit
      <3>1. c # b /\ buyer[c].used
        BY <1>5, <1>6, <2>1
      <3>2. ~ buyer[b].used
        BY <3>1 DEF CheckoutInvariant, OpenUse
      <3> QED BY <1>5, <1>6, <1>7, <3>1, <3>2 DEF CheckoutInvariant, OpenUse
    <2>2. \A c \in Buyers : buyer'[c].pc = "use" => buyer'[c].coded
      BY <1>5, <1>6 DEF CheckoutInvariant, OpenUse
    <2>3. \A c \in Buyers : buyer'[c].pc = "commit" => (buyer'[c].used <=> buyer'[c].coded)
      BY <1>5, <1>6 DEF CheckoutInvariant, OpenUse
    <2> QED BY <2>1, <2>2, <2>3 DEF OpenUse
  <1>12. UsesAreOrders'
    <2>1. IsFiniteSet(coded) /\ coupon.used = Cardinality(coded) /\ o \notin coded
      BY <1>2, <1>4, FS_Subset DEF CheckoutInvariant, UsesAreOrders
    <2>2. CASE buyer[b].used
      <3>1. o.coded
        BY <1>2, <1>3, <2>2
      <3>2. {s \in sales' : s.coded} = coded \cup {o}
        BY <1>1, <3>1
      <3>3. Cardinality(coded \cup {o}) = Cardinality(coded) + 1
        BY <2>1, FS_AddElement
      <3> QED BY <1>7, <2>1, <2>2, <3>2, <3>3 DEF UsesAreOrders
    <2>3. CASE ~ buyer[b].used
      <3>1. {s \in sales' : s.coded} = coded
        BY <1>1, <1>2, <1>3, <2>3
      <3> QED BY <1>7, <2>1, <2>3, <3>1 DEF UsesAreOrders
    <2> QED BY <2>2, <2>3
  <1>13. CouponWithinLimits'
    <2> SUFFICES ASSUME Unlimited \notin limits PROVE \E m \in limits : coupon'.used <= m
      BY <1>1 DEF CouponWithinLimits
    <2>1. CASE buyer[b].used
      <3>1. buyer[b].limit \in limits
        BY <1>1, <1>2, <2>1 DEF CheckoutInvariant, LimitKnown, Validated
      <3>2. buyer[b].limit \in Nat /\ buyer[b].limit # Unlimited
        BY <1>2, <3>1
      <3>3. coupon.used < buyer[b].limit
        BY <2>1, <3>2 DEF CheckoutInvariant, OpenUse
      <3> QED BY <1>2, <1>7, <2>1, <3>1, <3>2, <3>3
    <2>2. CASE ~ buyer[b].used
      BY <1>7, <2>2 DEF CheckoutInvariant, CouponWithinLimits
    <2> QED BY <2>1, <2>2
  <1> QED BY <1>8, <1>9, <1>10, <1>11, <1>12, <1>13 DEF CheckoutInvariant

(* Changes by others.  A coupon is edited under its row's lock, so no use  *)
(* is open then; the limits it has had are kept.                           *)
LEMMA EditStep ==
  ASSUME CheckoutInvariant, Edit,
         DOMAIN coupon' = DOMAIN coupon, coupon'.used = coupon.used,
         limits \subseteq limits', limits' \subseteq Nat \cup {Unlimited},
         coupon'.max \in limits'
  PROVE  CheckoutInvariant'
  <1>1. UNCHANGED <<sales, buyer>>
    BY DEF Edit
  <1>2. Shapes' /\ Numbered' /\ UsesAreOrders'
    <2>1. Shapes'
      BY <1>1 DEF CheckoutInvariant, Shapes
    <2>2. Numbered' /\ UsesAreOrders'
      BY <1>1 DEF CheckoutInvariant, Numbered, UsesAreOrders
    <2> QED BY <2>1, <2>2
  <1>3. LimitKnown' /\ OpenUse'
    BY <1>1 DEF CheckoutInvariant, LimitKnown, OpenUse
  <1>4. CouponWithinLimits'
    BY DEF CheckoutInvariant, CouponWithinLimits
  <1> QED BY <1>2, <1>3, <1>4 DEF CheckoutInvariant

LEMMA EditCouponStep ==
  ASSUME CheckoutInvariant, NEW m \in Limits, NEW d, NEW n, NEW a, EditCoupon(m, d, n, a)
  PROVE  CheckoutInvariant'
  <1>1. DOMAIN coupon' = DOMAIN coupon /\ coupon'.used = coupon.used /\ coupon'.max = m
        /\ limits' = limits \cup {m}
    BY DEF EditCoupon, CheckoutInvariant, Shapes
  <1>2. m \in Nat \cup {Unlimited}
    BY CheckoutAssumption
  <1>3. limits' \subseteq Nat \cup {Unlimited}
    BY <1>1, <1>2 DEF CheckoutInvariant, Shapes
  <1> QED BY <1>1, <1>3, EditStep DEF EditCoupon

LEMMA OtherEditsStep ==
  ASSUME CheckoutInvariant,
         \/ DeleteCoupon \/ CouponClock
         \/ \E p \in Wares :
              \/ \E price \in Prices, a \in BOOLEAN : EditWare(p, price, a)
              \/ \E n \in 0 .. MaxUnits : UnitsChange(p, n)
  PROVE  CheckoutInvariant'
  <1>1. Edit /\ limits' = limits
    BY DEF DeleteCoupon, CouponClock, EditWare, UnitsChange
  <1>2. DOMAIN coupon' = DOMAIN coupon /\ coupon'.used = coupon.used /\ coupon'.max = coupon.max
    BY DEF CheckoutInvariant, Shapes, DeleteCoupon, CouponClock, EditWare, UnitsChange
  <1>3. limits' \subseteq Nat \cup {Unlimited} /\ coupon'.max \in limits'
    BY <1>1, <1>2 DEF CheckoutInvariant, Shapes
  <1> QED BY <1>1, <1>2, <1>3, EditStep

-----------------------------------------------------------------------------
LEMMA NextCheckout == CheckoutInvariant /\ [CheckoutNext]_checkoutVars => CheckoutInvariant'
  <1> SUFFICES ASSUME CheckoutInvariant, [CheckoutNext]_checkoutVars PROVE CheckoutInvariant'
    OBVIOUS
  <1>1. ASSUME NEW b \in Buyers, NEW basket \in [Wares -> 0 .. MaxQuantity], NEW c \in BOOLEAN,
               StartOrder(b, basket, c)
        PROVE  CheckoutInvariant'
    BY <1>1, StartOrderStep
  <1>2. ASSUME NEW b \in Buyers,
               Quote(b) \/ ValidateCoupon(b) \/ AnalyseRisk(b) \/ LoadProducts(b)
        PROVE  CheckoutInvariant'
    BY <1>2, QuoteStep, ValidateCouponStep, AnalyseRiskStep, LoadProductsStep
  <1>3. ASSUME NEW b \in Buyers, InsertOrder(b) \/ CountUse(b) \/ CommitOrder(b)
        PROVE  CheckoutInvariant'
    BY <1>3, InsertOrderStep, CountUseStep, CommitOrderStep
  <1>4. ASSUME NEW b \in Buyers, NEW p \in Wares,
               CheckStock(b, p) \/ CountWare(b, p) \/ WriteWare(b, p)
        PROVE  CheckoutInvariant'
    BY <1>4, CheckStockStep, CountWareStep, WriteWareStep
  <1>5. ASSUME NEW b \in Buyers, OrderFails(b) \/ BuyerReturns(b)
        PROVE  CheckoutInvariant'
    BY <1>5, OrderFailsStep
  <1>6. ASSUME NEW m \in Limits, NEW d \in Discounts, NEW n \in MinPurchases, NEW a \in BOOLEAN,
               EditCoupon(m, d, n, a)
        PROVE  CheckoutInvariant'
    BY <1>6, EditCouponStep
  <1>7. CASE UNCHANGED checkoutVars
    BY <1>7 DEF checkoutVars, CheckoutInvariant, Shapes, Numbered, LimitKnown, OpenUse,
                UsesAreOrders, CouponWithinLimits
  <1> QED BY <1>1, <1>2, <1>3, <1>4, <1>5, <1>6, <1>7, OtherEditsStep DEF CheckoutNext

(* The invariant the two theorems rest on: what a request of create knows  *)
(* of the coupon between its validation and its commit.                    *)
THEOREM CheckoutInductive == CheckoutSpec => []CheckoutInvariant
  <1> QED BY InitCheckout, NextCheckout, PTL DEF CheckoutSpec

(* A coupon is used at most as often as some maxUses it has had allows,    *)
(* however many orders of orders.service create race for the last use.     *)
THEOREM CouponCorrect == CheckoutSpec => []CouponWithinLimits
  <1>1. CheckoutInvariant => CouponWithinLimits
    BY DEF CheckoutInvariant
  <1> QED BY <1>1, CheckoutInductive, PTL

(* Coupon.usedCount is the number of orders created with the coupon, for   *)
(* any number of orders that overlap, fail or roll back.                   *)
THEOREM UsesCorrect == CheckoutSpec => []UsesAreOrders
  <1>1. CheckoutInvariant => UsesAreOrders
    BY DEF CheckoutInvariant
  <1> QED BY <1>1, CheckoutInductive, PTL

-----------------------------------------------------------------------------
(* Numbers.                                                                *)

LEMMA SmallestNumber ==
  ASSUME NEW T \in SUBSET Nat, T # {}
  PROVE  \E x \in T : \A y \in T : x <= y
<1> DEFINE R == OpToRel(<, Nat)
<1>1. IsWellFoundedOn(R, Nat)  BY NatLessThanWellFounded
<1> HIDE DEF R
<1>2. PICK x \in T : \A y \in T : ~ (<<y, x>> \in R)  BY <1>1, WFMin
<1>3. \A y \in T : ~ (y < x)  BY <1>2 DEF R, OpToRel
<1> QED BY <1>3

-----------------------------------------------------------------------------
(* Sums over finite sets.  The fold takes the elements in the order in     *)
(* which CHOOSE picks them; the lemmas show that there is such a sum, that *)
(* it is a number, and that any element may be taken first.                *)

First(s) == CHOOSE x \in s : TRUE

IsSum(f, S, g) == g = [s \in SUBSET S |-> IF s = {} THEN 0 ELSE f[First(s)] + g[s \ {First(s)}]]

LEMMA SumIsAnIteration ==
  ASSUME NEW f, NEW S
  PROVE  SumFunctionOnSet(f, S) = (CHOOSE g : IsSum(f, S, g))[S]
<1>1. SumFunctionOnSet(f, S) =
        LET iter[s \in SUBSET S] == IF s = {} THEN 0 ELSE
              f[CHOOSE x \in s : TRUE] + iter[s \ {CHOOSE x \in s : TRUE}] IN iter[S]
  BY DEF SumFunctionOnSet, FoldFunctionOnSet, MapThenFoldSet
<1> QED BY <1>1 DEF IsSum, First

(* A smaller set.                                                          *)
LEMMA OneLess ==
  ASSUME NEW S, IsFiniteSet(S), NEW x \in S
  PROVE  /\ IsFiniteSet(S \ {x}) /\ Cardinality(S) \in Nat /\ Cardinality(S \ {x}) \in Nat
         /\ Cardinality(S \ {x}) < Cardinality(S)
<1>1. Cardinality(S) \in Nat  BY FS_CardinalityType
<1>2. IsFiniteSet(S \ {x}) /\ Cardinality(S \ {x}) = Cardinality(S) - 1  BY FS_RemoveElement
<1>3. Cardinality(S \ {x}) \in Nat  BY <1>2, FS_CardinalityType
<1> QED BY <1>1, <1>2, <1>3

(* What holds of every smaller set need only be shown of a set for which   *)
(* it does: of a set of sets there is one with the fewest elements.        *)
LEMMA SmallestSet ==
  ASSUME NEW Sets, Sets # {}, \A s \in Sets : IsFiniteSet(s)
  PROVE  \E s \in Sets : \A t \in Sets : Cardinality(s) <= Cardinality(t)
<1> DEFINE Sizes == {Cardinality(s) : s \in Sets}
<1>1. Sizes \in SUBSET Nat /\ Sizes # {}  BY FS_CardinalityType
<1>2. PICK n \in Sizes : \A m \in Sizes : n <= m  BY <1>1, SmallestNumber
<1> QED BY <1>2

LEMMA IterationsAgree ==
  ASSUME NEW f, NEW S, NEW T, NEW g, NEW h, IsSum(f, S, g), IsSum(f, T, h),
         NEW r \in SUBSET (S \cap T), IsFiniteSet(r)
  PROVE  g[r] = h[r]
<1> DEFINE Apart == {s \in SUBSET r : g[s] # h[s]}
<1>1. Apart = {}
  <2> SUFFICES ASSUME Apart # {} PROVE FALSE  OBVIOUS
  <2>1. \A s \in Apart : IsFiniteSet(s)  BY FS_Subset
  <2>2. PICK s \in Apart : \A t \in Apart : Cardinality(s) <= Cardinality(t)
    BY <2>1, SmallestSet
  <2> DEFINE t == s \ {First(s)}
  <2>3. s # {}  BY DEF IsSum
  <2>4. First(s) \in s  BY <2>3 DEF First
  <2>5. g[s] = f[First(s)] + g[t] /\ h[s] = f[First(s)] + h[t]  BY <2>3 DEF IsSum
  <2>6. ~ (Cardinality(s) <= Cardinality(t))
    <3>1. IsFiniteSet(s)  BY <2>1
    <3>2. PICK m \in Nat, n \in Nat : m = Cardinality(s) /\ n = Cardinality(t) /\ n < m
      BY <2>4, <3>1, OneLess
    <3> QED BY <3>2
  <2>7. t \notin Apart  BY <2>2, <2>6
  <2> QED BY <2>5, <2>7
<1> QED BY <1>1

LEMMA IterationExists ==
  ASSUME NEW f, NEW S, IsFiniteSet(S)
  PROVE  \E g : IsSum(f, S, g)
<1> DEFINE Gaps == {s \in SUBSET S : ~ \E g : IsSum(f, s, g)}
<1>1. Gaps = {}
  <2> SUFFICES ASSUME Gaps # {} PROVE FALSE  OBVIOUS
  <2>1. \A s \in SUBSET S : IsFiniteSet(s)  BY FS_Subset
  <2>2. PICK s \in Gaps : \A t \in Gaps : Cardinality(s) <= Cardinality(t)
    BY <2>1, SmallestSet
  <2>3. ASSUME NEW t \in SUBSET s, t # s PROVE \E g : IsSum(f, t, g)
    <3>1. Cardinality(t) \in Nat /\ Cardinality(s) \in Nat /\ Cardinality(t) <= Cardinality(s)
          /\ Cardinality(t) # Cardinality(s)
      BY <2>1, <2>3, FS_Subset, FS_CardinalityType
    <3>2. t \notin Gaps  BY <2>2, <3>1
    <3> QED BY <3>2
  <2>4. s # {}
    <3> SUFFICES ASSUME s = {} PROVE FALSE  OBVIOUS
    <3>1. IsSum(f, s, [t \in SUBSET s |-> 0])  BY DEF IsSum
    <3> QED BY <3>1
  <2> DEFINE it(t) == CHOOSE g : IsSum(f, t, g)
             value(t) == it(t)[t]
             rest(t) == t \ {First(t)}
             h == [t \in SUBSET s |-> IF t = s THEN f[First(s)] + value(rest(s)) ELSE value(t)]
  <2>5. ASSUME NEW t \in SUBSET s, t # s PROVE IsSum(f, t, it(t))  BY <2>3, <2>5
  <2>6. ASSUME NEW t \in SUBSET s, t # {}
        PROVE  First(t) \in t /\ rest(t) \in SUBSET s /\ rest(t) # s
    BY <2>6 DEF First
  <2> HIDE DEF it
  <2>7. ASSUME NEW t \in SUBSET s
        PROVE  h[t] = IF t = {} THEN 0 ELSE f[First(t)] + h[rest(t)]
    <3>1. CASE t = {}
      <4>1. IsSum(f, t, it(t))  BY <2>4, <2>5, <3>1
      <4>2. it(t)[t] = 0  BY <3>1, <4>1 DEF IsSum
      <4> QED BY <2>4, <3>1, <4>2
    <3>2. CASE t = s
      BY <2>4, <2>6, <3>2
    <3>3. CASE t # s /\ t # {}
      <4>1. IsSum(f, t, it(t)) /\ IsSum(f, rest(t), it(rest(t)))  BY <2>5, <2>6, <3>3
      <4>2. it(t)[t] = f[First(t)] + it(t)[rest(t)]  BY <3>3, <4>1 DEF IsSum
      <4>3. rest(t) \in SUBSET (t \cap rest(t)) /\ IsFiniteSet(rest(t))  BY <2>1
      <4>4. it(t)[rest(t)] = it(rest(t))[rest(t)]  BY <4>1, <4>3, IterationsAgree
      <4>5. h[rest(t)] = it(rest(t))[rest(t)]  BY <2>6, <3>3
      <4> QED BY <3>3, <4>2, <4>4, <4>5
    <3> QED BY <3>1, <3>2, <3>3
  <2>8. h = [t \in SUBSET s |-> h[t]]  OBVIOUS
  <2> HIDE DEF h
  <2>9. IsSum(f, s, h)
    <3>1. h = [t \in SUBSET s |-> IF t = {} THEN 0 ELSE f[First(t)] + h[rest(t)]]
      BY <2>7, <2>8
    <3> QED BY <3>1 DEF IsSum
  <2> QED BY <2>9
<1> QED BY <1>1

(* The sum by its first element.                                           *)
LEMMA SumByFirst ==
  ASSUME NEW f, NEW S, IsFiniteSet(S)
  PROVE  /\ S = {} => SumFunctionOnSet(f, S) = 0
         /\ S # {} => /\ First(S) \in S
                      /\ SumFunctionOnSet(f, S) =
                           f[First(S)] + SumFunctionOnSet(f, S \ {First(S)})
<1> DEFINE it(s) == CHOOSE g : IsSum(f, s, g)
<1>1. \A s \in SUBSET S : IsFiniteSet(s)  BY FS_Subset
<1>2. \A s \in SUBSET S : IsSum(f, s, it(s))  BY <1>1, IterationExists
<1>3. \A s \in SUBSET S : SumFunctionOnSet(f, s) = it(s)[s]  BY SumIsAnIteration
<1> HIDE DEF it
<1>4. ASSUME S = {} PROVE SumFunctionOnSet(f, S) = 0
  <2>1. it(S)[S] = 0  BY <1>2, <1>4 DEF IsSum
  <2> QED BY <1>3, <2>1
<1>5. ASSUME S # {}
      PROVE  /\ First(S) \in S
             /\ SumFunctionOnSet(f, S) = f[First(S)] + SumFunctionOnSet(f, S \ {First(S)})
  <2> DEFINE r == S \ {First(S)}
  <2>1. it(S)[S] = f[First(S)] + it(S)[r]  BY <1>2, <1>5 DEF IsSum
  <2>2. r \in SUBSET (S \cap r) /\ IsFiniteSet(r)  BY <1>1
  <2>3. it(S)[r] = it(r)[r]
    <3>1. IsSum(f, S, it(S)) /\ IsSum(f, r, it(r))  BY <1>2
    <3> HIDE DEF r
    <3> QED BY <2>2, <3>1, IterationsAgree
  <2>4. First(S) \in S  BY <1>5 DEF First
  <2> QED BY <1>3, <2>1, <2>3, <2>4
<1> QED BY <1>4, <1>5

LEMMA SumIsNatural ==
  ASSUME NEW f, NEW S, IsFiniteSet(S), \A x \in S : f[x] \in Nat
  PROVE  SumFunctionOnSet(f, S) \in Nat
<1> DEFINE Odd == {s \in SUBSET S : SumFunctionOnSet(f, s) \notin Nat}
<1>1. Odd = {}
  <2> SUFFICES ASSUME Odd # {} PROVE FALSE  OBVIOUS
  <2>1. \A s \in SUBSET S : IsFiniteSet(s)  BY FS_Subset
  <2>2. PICK s \in Odd : \A t \in Odd : Cardinality(s) <= Cardinality(t)
    BY <2>1, SmallestSet
  <2>3. s # {}
    <3> SUFFICES ASSUME s = {} PROVE FALSE  OBVIOUS
    <3>1. SumFunctionOnSet(f, s) = 0  BY <2>1, SumByFirst
    <3> QED BY <3>1
  <2> DEFINE t == s \ {First(s)}
  <2>4. First(s) \in s /\ SumFunctionOnSet(f, s) = f[First(s)] + SumFunctionOnSet(f, t)
    BY <2>1, <2>3, SumByFirst
  <2>5. ~ (Cardinality(s) <= Cardinality(t))  BY <2>1, <2>4, OneLess
  <2>6. t \notin Odd  BY <2>2, <2>5
  <2>7. f[First(s)] \in Nat  BY <2>4
  <2> QED BY <2>4, <2>6, <2>7
<1> QED BY <1>1

-----------------------------------------------------------------------------
(* Prices and discounts.                                                   *)

(* What a request has been granted: a discount within the subtotal it was  *)
(* quoted, and none without a coupon.                                      *)
Granted(r) ==
  /\ r.discount <= r.quoted
  /\ ~ r.coded => r.discount = 0
  /\ r.pc = "quote" => r.discount = 0
  /\ r.pc \in {"quote", "validate"} => r.coded

(* The record of a request, with the sets of its values named.             *)
Baskets == [Wares -> 0 .. MaxQuantity]
CountsOfWares == [Wares -> Count \cup {None}]
SomeWares == SUBSET Wares
SomeLimit == Nat \cup {Unlimited}
SomeRisk == {"APPROVED", "MANUAL_REVIEW", "REJECTED"}
LEMMA BuyerRecord ==
  Buyer = [pc : BuyerPcs, coded : BOOLEAN, basket : Baskets, quoted : Nat, discount : Nat,
           limit : SomeLimit, risk : SomeRisk, subtotal : Nat, todo : SomeWares,
           counted : CountsOfWares, counts : CountsOfWares, used : BOOLEAN]
BY DEF Buyer, Baskets, CountsOfWares, SomeWares, SomeLimit, SomeRisk

PricedInvariant ==
  /\ CheckoutTypeOK
  /\ IsFiniteSet(sales)
  /\ \A b \in Buyers : Granted(buyer[b])
  /\ NegativeOnlyIfRepriced

LEMMA IdleBuyerGranted == IdleBuyer \in Buyer /\ Granted(IdleBuyer)
BY CheckoutAssumption DEF IdleBuyer, Buyer, BuyerPcs, NoCounts, Granted

LEMMA NewCouponIsCoupon ==
  [exists : {TRUE}, active : {TRUE}, inTime : {TRUE}, used : {0},
   max : Limits, discount : Discounts, min : MinPurchases]
    \subseteq [exists : BOOLEAN, active : BOOLEAN, inTime : BOOLEAN, used : Nat,
               max : Limits, discount : Discounts, min : MinPurchases]
<1> DEFINE new == [exists : {TRUE}, active : {TRUE}, inTime : {TRUE}, used : {0},
                   max : Limits, discount : Discounts, min : MinPurchases]
           all == [exists : BOOLEAN, active : BOOLEAN, inTime : BOOLEAN, used : Nat,
                   max : Limits, discount : Discounts, min : MinPurchases]
<1>1. ASSUME NEW c \in new PROVE c \in all
  <2>1. c.exists = TRUE /\ c.active = TRUE /\ c.inTime = TRUE  BY Zenon
  <2>2. c.used \in Nat  OBVIOUS
  <2>3. c.max \in Limits /\ c.discount \in Discounts /\ c.min \in MinPurchases  OBVIOUS
  <2>4. c = [exists |-> TRUE, active |-> TRUE, inTime |-> TRUE, used |-> c.used,
             max |-> c.max, discount |-> c.discount, min |-> c.min]
    BY <2>1
  <2> QED BY <2>2, <2>3, <2>4
<1> HIDE DEF new, all
<1>2. new \subseteq all  BY <1>1
<1> QED BY <1>2 DEF new, all

LEMMA PricedStarts == CheckoutInit => PricedInvariant
<1> USE CheckoutAssumption
<1> SUFFICES ASSUME CheckoutInit PROVE PricedInvariant  OBVIOUS
<1>1. ware \in [Wares -> [price : Prices, stock : Nat, active : BOOLEAN]]
  <2>1. ware \in [Wares -> [price : Prices, stock : {MaxUnits}, active : {TRUE}]]
    BY DEF CheckoutInit
  <2>2. [price : Prices, stock : {MaxUnits}, active : {TRUE}]
          \subseteq [price : Prices, stock : Nat, active : BOOLEAN]
    OBVIOUS
  <2> QED BY <2>1, <2>2
<1>2. coupon \in [exists : BOOLEAN, active : BOOLEAN, inTime : BOOLEAN, used : Nat,
                  max : Limits, discount : Discounts, min : MinPurchases]
  <2>1. coupon \in [exists : {TRUE}, active : {TRUE}, inTime : {TRUE}, used : {0},
                    max : Limits, discount : Discounts, min : MinPurchases]
    BY DEF CheckoutInit
  <2>2. [exists : {TRUE}, active : {TRUE}, inTime : {TRUE}, used : {0},
         max : Limits, discount : Discounts, min : MinPurchases]
          \subseteq [exists : BOOLEAN, active : BOOLEAN, inTime : BOOLEAN, used : Nat,
                     max : Limits, discount : Discounts, min : MinPurchases]
    BY NewCouponIsCoupon
  <2> QED BY <2>1, <2>2
<1>3. limits \subseteq Limits  BY <1>2 DEF CheckoutInit
<1>4. onSale \in [Wares -> 0 .. MaxUnits] /\ sales = {} /\ edits \in 0 .. MaxEdits
  BY DEF CheckoutInit
<1>5. buyer \in [Buyers -> Buyer] /\ \A b \in Buyers : Granted(buyer[b])
  BY IdleBuyerGranted DEF CheckoutInit
<1>6. IsFiniteSet(sales)  BY <1>4, FS_EmptySet
<1> QED BY <1>1, <1>2, <1>3, <1>4, <1>5, <1>6
        DEF PricedInvariant, CheckoutTypeOK, NegativeOnlyIfRepriced

(* A step of one request that changes nothing else.                        *)
LEMMA GrantedStep ==
  ASSUME PricedInvariant, NEW b \in Buyers, NEW r \in Buyer, Granted(r), ShopStays,
         buyer' = [buyer EXCEPT ![b] = r]
  PROVE  PricedInvariant'
<1>1. buyer \in [Buyers -> Buyer]  BY DEF PricedInvariant, CheckoutTypeOK
<1>2. UNCHANGED <<ware, onSale, coupon, limits, sales, edits>>  BY DEF ShopStays
<1>3. CheckoutTypeOK'  BY <1>1, <1>2 DEF PricedInvariant, CheckoutTypeOK
<1>4. \A c \in Buyers : Granted(buyer'[c])  BY <1>1 DEF PricedInvariant
<1> QED BY <1>2, <1>3, <1>4 DEF PricedInvariant, NegativeOnlyIfRepriced

(* An order costs a number.                                                *)
LEMMA SubtotalIsNatural ==
  ASSUME CheckoutTypeOK, NEW b \in Buyers
  PROVE  Subtotal(b) \in Nat
<1> DEFINE f == [p \in Wares |-> ware[p].price * buyer[b].basket[p]]
<1>1. ASSUME NEW p \in Wares PROVE f[p] \in Nat
  <2>1. ware[p].price \in Nat
    <3>1. ware[p].price \in Prices  BY DEF CheckoutTypeOK
    <3> QED BY <3>1, CheckoutAssumption
  <2>2. buyer[b].basket[p] \in Nat
    <3>1. buyer[b].basket[p] \in 0 .. MaxQuantity  BY DEF CheckoutTypeOK, Buyer
    <3> QED BY <3>1
  <2>3. \A m, n \in Nat : m * n \in Nat  OBVIOUS
  <2> QED BY <2>1, <2>2, <2>3
<1>2. Ordered(b) \subseteq Wares /\ IsFiniteSet(Ordered(b))
  BY CheckoutAssumption, FS_Subset DEF Ordered
<1> HIDE DEF f
<1>3. SumFunctionOnSet(f, Ordered(b)) \in Nat  BY <1>1, <1>2, SumIsNatural
<1> QED BY <1>3 DEF f, Subtotal

(* A discount is a number within the amount it is for.                     *)
LEMMA DiscountWithinAmount ==
  ASSUME CheckoutTypeOK, NEW amount \in Nat
  PROVE  DiscountFor(amount) \in Nat /\ DiscountFor(amount) <= amount
<1>1. coupon.discount \in Discounts  BY DEF CheckoutTypeOK
<1>2. coupon.discount \in [type : {"PERCENTAGE", "FIXED"}, value : Nat]
  BY <1>1, CheckoutAssumption
<1>3. PICK value \in Nat : value = coupon.discount.value  BY <1>2
<1>4. PICK m \in Nat : m = amount * value  OBVIOUS
<1>5. m \div 100 \in Nat  OBVIOUS
<1> QED BY <1>3, <1>4, <1>5 DEF DiscountFor

LEMMA PricedMoves ==
  ASSUME PricedInvariant, [CheckoutNext]_checkoutVars
  PROVE  PricedInvariant'
<1> USE CheckoutAssumption
<1>0. /\ CheckoutTypeOK /\ IsFiniteSet(sales) /\ NegativeOnlyIfRepriced
      /\ buyer \in [Buyers -> Buyer]
      /\ ware \in [Wares -> [price : Prices, stock : Nat, active : BOOLEAN]]
      /\ onSale \in [Wares -> 0 .. MaxUnits] /\ edits \in 0 .. MaxEdits
      /\ \A b \in Buyers : Granted(buyer[b]) /\ buyer[b] \in Buyer
  BY DEF PricedInvariant, CheckoutTypeOK
<1>f. \A b \in Buyers : buyer[b] \in Buyer  BY <1>0
<1>a. ASSUME NEW b \in Buyers, NEW pc \in BuyerPcs \ {"quote", "validate"}, BuyerGoes(b, pc), ShopStays
      PROVE  PricedInvariant'
  <2> DEFINE r == [buyer[b] EXCEPT !.pc = pc]
  <2>1. r \in Buyer  BY <1>f, BuyerRecord
  <2>2. /\ r.pc = pc /\ r.discount = buyer[b].discount /\ r.quoted = buyer[b].quoted
        /\ r.coded = buyer[b].coded
    BY <1>f DEF Buyer
  <2>3. buyer' = [buyer EXCEPT ![b] = r]  BY <1>a DEF BuyerGoes
  <2> HIDE DEF r
  <2>4. Granted(r)  BY <1>0, <2>2 DEF Granted
  <2> QED BY <1>a, <2>1, <2>3, <2>4, GrantedStep
<1>b. ASSUME NEW b \in Buyers, NEW pc \in BuyerPcs \ {"quote", "validate"}, ShopStays,
             buyer' = [buyer EXCEPT ![b] = [IdleBuyer EXCEPT !.pc = pc]]
      PROVE  PricedInvariant'
  <2> DEFINE r == [IdleBuyer EXCEPT !.pc = pc]
  <2>1. r \in Buyer  BY IdleBuyerGranted DEF Buyer
  <2>2. /\ r.pc = pc /\ r.discount = 0 /\ r.quoted = 0 /\ ~ r.coded
    BY DEF IdleBuyer
  <2>3. buyer' = [buyer EXCEPT ![b] = r]  BY <1>b
  <2> HIDE DEF r
  <2>4. Granted(r)  BY <2>2 DEF Granted
  <2> QED BY <1>b, <2>1, <2>3, <2>4, GrantedStep
<1>1. ASSUME NEW b \in Buyers, NEW basket \in [Wares -> 0 .. MaxQuantity], NEW c \in BOOLEAN,
             StartOrder(b, basket, c)
      PROVE  PricedInvariant'
  <2> DEFINE r == [IdleBuyer EXCEPT !.pc = IF c THEN "quote" ELSE "analyse", !.coded = c, !.basket = basket]
  <2>1. r \in Buyer  BY IdleBuyerGranted DEF Buyer, BuyerPcs
  <2>2. /\ r.pc = (IF c THEN "quote" ELSE "analyse") /\ r.discount = 0 /\ r.quoted = 0
        /\ r.coded = c
    BY DEF IdleBuyer
  <2>3. buyer' = [buyer EXCEPT ![b] = r] /\ ShopStays  BY <1>1 DEF StartOrder
  <2> HIDE DEF r
  <2>4. Granted(r)  BY <2>2 DEF Granted
  <2> QED BY <2>1, <2>3, <2>4, GrantedStep
<1>2. ASSUME NEW b \in Buyers, Quote(b) PROVE PricedInvariant'
  <2>1. CASE AllActive(b)
    <3>1. PICK n \in Nat : n = Subtotal(b)  BY <1>0, SubtotalIsNatural
    <3> DEFINE r == [buyer[b] EXCEPT !.quoted = n, !.pc = "validate"]
    <3>2. r \in Buyer  BY <1>f, BuyerRecord DEF BuyerPcs
    <3>3. /\ r.pc = "validate" /\ r.discount = buyer[b].discount /\ r.quoted = n
          /\ r.coded = buyer[b].coded
      BY <1>f DEF Buyer
    <3>4. buyer' = [buyer EXCEPT ![b] = r] /\ ShopStays /\ buyer[b].pc = "quote"
      BY <1>0, <1>2, <2>1, <3>1 DEF Quote
    <3> HIDE DEF r
    <3>5. Granted(r)  BY <1>0, <3>3, <3>4 DEF Granted
    <3> QED BY <3>2, <3>4, <3>5, GrantedStep
  <2>2. CASE ~ AllActive(b)  BY <1>2, <1>a, <2>2 DEF Quote, BuyerPcs
  <2> QED BY <2>1, <2>2
<1>3. ASSUME NEW b \in Buyers, ValidateCoupon(b) PROVE PricedInvariant'
  <2> DEFINE amount == buyer[b].quoted
  <2>1. CASE UsableFor(amount)
    <3>1. amount \in Nat  BY <1>0 DEF Buyer
    <3>2. PICK d \in Nat : d = DiscountFor(amount) /\ d <= amount
      BY <1>0, <3>1, DiscountWithinAmount
    <3>3. coupon.max \in SomeLimit
      <4>1. coupon.max \in Limits  BY <1>0 DEF CheckoutTypeOK
      <4> QED BY <4>1 DEF SomeLimit
    <3> DEFINE r == [buyer[b] EXCEPT !.discount = d, !.limit = coupon.max, !.pc = "analyse"]
    <3>4. r \in Buyer  BY <1>f, <3>3, BuyerRecord DEF BuyerPcs
    <3>5. /\ r.pc = "analyse" /\ r.discount = d /\ r.quoted = amount
          /\ r.coded = buyer[b].coded
      BY <1>f DEF Buyer
    <3>6. buyer' = [buyer EXCEPT ![b] = r] /\ ShopStays /\ buyer[b].pc = "validate"
      BY <1>0, <1>3, <2>1, <3>2 DEF ValidateCoupon
    <3> HIDE DEF r
    <3>7. Granted(r)  BY <1>0, <3>2, <3>5, <3>6 DEF Granted
    <3> QED BY <3>4, <3>6, <3>7, GrantedStep
  <2>2. CASE ~ UsableFor(amount)  BY <1>3, <1>a, <2>2 DEF ValidateCoupon, BuyerPcs
  <2> QED BY <2>1, <2>2
<1>4. ASSUME NEW b \in Buyers, AnalyseRisk(b) PROVE PricedInvariant'
  <2>1. CASE AllActive(b)
    <3>1. PICK f \in PossibleFindings(b) :
            buyer' = [buyer EXCEPT ![b].risk = Decision(f),
                        ![b].pc = IF Decision(f) = "REJECTED" THEN "failed" ELSE "load"]
      BY <1>4, <2>1 DEF AnalyseRisk
    <3> DEFINE d == Decision(f)
               pc == IF d = "REJECTED" THEN "failed" ELSE "load"
               r == [buyer[b] EXCEPT !.risk = d, !.pc = pc]
    <3>2. d \in SomeRisk  BY DEF Decision, SomeRisk
    <3>3. buyer' = [buyer EXCEPT ![b] = r]  BY <1>0, <3>1
    <3> HIDE DEF d
    <3>4. r \in Buyer  BY <1>f, <3>2, BuyerRecord DEF BuyerPcs
    <3>5. /\ r.pc = pc /\ r.discount = buyer[b].discount /\ r.quoted = buyer[b].quoted
          /\ r.coded = buyer[b].coded
      BY <1>f DEF Buyer
    <3>6. ShopStays  BY <1>4 DEF AnalyseRisk
    <3> HIDE DEF r
    <3>7. Granted(r)  BY <1>0, <3>5 DEF Granted
    <3> QED BY <3>3, <3>4, <3>6, <3>7, GrantedStep
  <2>2. CASE ~ AllActive(b)  BY <1>4, <1>a, <2>2 DEF AnalyseRisk, BuyerPcs
  <2> QED BY <2>1, <2>2
(* The steps of the transaction: of a request they change what the         *)
(* property does not speak of.                                             *)
<1>c. ASSUME NEW b \in Buyers, NEW r \in Buyer, ShopStays, buyer' = [buyer EXCEPT ![b] = r],
             r.pc \in BuyerPcs \ {"quote", "validate"},
             r.discount = buyer[b].discount, r.quoted = buyer[b].quoted,
             r.coded = buyer[b].coded
      PROVE  PricedInvariant'
  <2>1. Granted(r)  BY <1>0, <1>c DEF Granted
  <2> QED BY <1>c, <2>1, GrantedStep
<1>5. ASSUME NEW b \in Buyers, LoadProducts(b) PROVE PricedInvariant'
  <2>1. CASE AllActive(b)
    <3>1. PICK n \in Nat : n = Subtotal(b)  BY <1>0, SubtotalIsNatural
    <3>2. Ordered(b) \in SomeWares  BY DEF Ordered, SomeWares
    <3> DEFINE r == [buyer[b] EXCEPT !.subtotal = n, !.todo = Ordered(b), !.pc = "stock"]
    <3>3. r \in Buyer  BY <1>f, <3>2, BuyerRecord DEF BuyerPcs
    <3>4. /\ r.pc = "stock" /\ r.discount = buyer[b].discount /\ r.quoted = buyer[b].quoted
          /\ r.coded = buyer[b].coded
      BY <1>f DEF Buyer
    <3>5. buyer' = [buyer EXCEPT ![b] = r] /\ ShopStays
      BY <1>0, <1>5, <2>1, <3>1 DEF LoadProducts
    <3> HIDE DEF r
    <3> QED BY <1>c, <3>3, <3>4, <3>5 DEF BuyerPcs
  <2>2. CASE ~ AllActive(b)  BY <1>5, <1>a, <2>2 DEF LoadProducts, BuyerPcs
  <2> QED BY <2>1, <2>2
<1>6. ASSUME NEW b \in Buyers, NEW p \in Wares, CheckStock(b, p) PROVE PricedInvariant'
  <2>1. CASE BuyerGoes(b, "failed")  BY <1>6, <1>a, <2>1 DEF CheckStock, BuyerPcs
  <2>2. CASE ~ BuyerGoes(b, "failed")
    <3> DEFINE pc == IF buyer[b].todo = {p} THEN "insert" ELSE "stock"
               left == buyer[b].todo \ {p}
               r == [buyer[b] EXCEPT !.todo = left, !.pc = pc]
    <3>1. pc \in {"insert", "stock"}  OBVIOUS
    <3>2. buyer' = [buyer EXCEPT ![b] = r] /\ ShopStays
      BY <1>0, <1>6, <2>2 DEF CheckStock
    <3>l. left \in SomeWares  BY <1>f, BuyerRecord DEF SomeWares
    <3> HIDE DEF pc, left
    <3>3. r \in Buyer  BY <1>f, <3>1, <3>l, BuyerRecord DEF BuyerPcs
    <3>4. /\ r.pc = pc /\ r.discount = buyer[b].discount /\ r.quoted = buyer[b].quoted
          /\ r.coded = buyer[b].coded
      BY <1>f DEF Buyer
    <3> HIDE DEF r
    <3> QED BY <1>c, <3>1, <3>2, <3>3, <3>4 DEF BuyerPcs
  <2> QED BY <2>1, <2>2
<1>7. ASSUME NEW b \in Buyers, InsertOrder(b) PROVE PricedInvariant'
  <2>1. CASE BuyerGoes(b, "failed")  BY <1>7, <1>a, <2>1 DEF InsertOrder, BuyerPcs
  <2>2. CASE ~ BuyerGoes(b, "failed")
    <3> DEFINE r == [buyer[b] EXCEPT !.todo = Ordered(b), !.pc = "recount"]
    <3>1. Ordered(b) \in SomeWares  BY DEF Ordered, SomeWares
    <3>2. buyer' = [buyer EXCEPT ![b] = r] /\ ShopStays
      BY <1>0, <1>7, <2>2 DEF InsertOrder
    <3>3. r \in Buyer  BY <1>f, <3>1, BuyerRecord DEF BuyerPcs
    <3>4. /\ r.pc = "recount" /\ r.discount = buyer[b].discount /\ r.quoted = buyer[b].quoted
          /\ r.coded = buyer[b].coded
      BY <1>f DEF Buyer
    <3> HIDE DEF r
    <3> QED BY <1>c, <3>2, <3>3, <3>4 DEF BuyerPcs
  <2> QED BY <2>1, <2>2
<1>8. ASSUME NEW b \in Buyers, NEW p \in Wares, CountWare(b, p) PROVE PricedInvariant'
  <2> DEFINE isOn == onSale[p] > 0 /\ ware[p].active
             n == [stock |-> onSale[p], active |-> isOn]
             counted == [buyer[b].counted EXCEPT ![p] = n]
             r == [buyer[b] EXCEPT !.counted = counted]
  <2>1. buyer' = [buyer EXCEPT ![b] = r] /\ ShopStays /\ buyer[b].pc = "recount"
    BY <1>0, <1>8 DEF CountWare
  <2>2. isOn \in BOOLEAN  OBVIOUS
  <2>3. onSale[p] \in Nat  BY <1>0
  <2> HIDE DEF isOn
  <2>4. n \in Count  BY <2>2, <2>3 DEF Count
  <2> HIDE DEF n
  <2>5. counted \in CountsOfWares
    BY <1>f, <2>4, BuyerRecord DEF CountsOfWares
  <2> HIDE DEF counted
  <2>6. r \in Buyer  BY <1>f, <2>5, BuyerRecord
  <2>7. /\ r.pc = "recount" /\ r.discount = buyer[b].discount /\ r.quoted = buyer[b].quoted
        /\ r.coded = buyer[b].coded
    BY <1>f, <2>1 DEF Buyer
  <2> HIDE DEF r
  <2> QED BY <1>c, <2>1, <2>6, <2>7 DEF BuyerPcs
<1>9. ASSUME NEW b \in Buyers, NEW p \in Wares, WriteWare(b, p) PROVE PricedInvariant'
  <2> DEFINE counts == [buyer[b].counts EXCEPT ![p] = buyer[b].counted[p]]
             pc == IF buyer[b].todo # {p} THEN "recount" ELSE IF buyer[b].coded THEN "use" ELSE "commit"
             left == buyer[b].todo \ {p}
             r == [buyer[b] EXCEPT !.counts = counts, !.counted = NoCounts, !.todo = left, !.pc = pc]
  <2>1. buyer' = [buyer EXCEPT ![b] = r] /\ ShopStays  BY <1>0, <1>9 DEF WriteWare
  <2>2. pc \in {"recount", "use", "commit"}  OBVIOUS
  <2>3. counts \in CountsOfWares /\ NoCounts \in CountsOfWares
    BY <1>f, BuyerRecord DEF CountsOfWares, NoCounts
  <2>l. left \in SomeWares  BY <1>f, BuyerRecord DEF SomeWares
  <2> HIDE DEF counts, left, pc
  <2>4. r \in Buyer  BY <1>f, <2>2, <2>3, <2>l, BuyerRecord DEF BuyerPcs
  <2>5. /\ r.pc = pc /\ r.discount = buyer[b].discount /\ r.quoted = buyer[b].quoted
        /\ r.coded = buyer[b].coded
    BY <1>f DEF Buyer
  <2> HIDE DEF r
  <2> QED BY <1>c, <2>1, <2>2, <2>4, <2>5 DEF BuyerPcs
<1>10. ASSUME NEW b \in Buyers, CountUse(b) PROVE PricedInvariant'
  <2>1. CASE StillUsable(b)
    <3> DEFINE r == [buyer[b] EXCEPT !.used = TRUE, !.pc = "commit"]
    <3>1. buyer' = [buyer EXCEPT ![b] = r] /\ ShopStays  BY <1>0, <1>10, <2>1 DEF CountUse
    <3>2. r \in Buyer  BY <1>f, BuyerRecord DEF BuyerPcs
    <3>3. /\ r.pc = "commit" /\ r.discount = buyer[b].discount /\ r.quoted = buyer[b].quoted
          /\ r.coded = buyer[b].coded
      BY <1>f DEF Buyer
    <3> HIDE DEF r
    <3> QED BY <1>c, <3>1, <3>2, <3>3 DEF BuyerPcs
  <2>2. CASE ~ StillUsable(b)  BY <1>10, <1>b, <2>2 DEF CountUse, BuyerPcs
  <2> QED BY <2>1, <2>2
<1>11. ASSUME NEW b \in Buyers, CommitOrder(b) PROVE PricedInvariant'
  <2> DEFINE done == [IdleBuyer EXCEPT !.pc = "done"]
             s == SaleOf(b)
             w(p) == IF buyer[b].counts[p] = None THEN ware[p]
                     ELSE [ware[p] EXCEPT !.stock = buyer[b].counts[p].stock,
                                          !.active = buyer[b].counts[p].active]
  <2>1. /\ Cardinality(sales) < MaxOrders /\ ware' = [p \in Wares |-> w(p)]
        /\ coupon' = (IF buyer[b].used THEN [coupon EXCEPT !.used = @ + 1] ELSE coupon)
        /\ sales' = sales \cup {s} /\ buyer' = [buyer EXCEPT ![b] = done]
        /\ UNCHANGED <<onSale, limits, edits>>
    BY <1>11 DEF CommitOrder
  <2>2. done \in Buyer /\ Granted(done)
    <3>1. done \in Buyer  BY IdleBuyerGranted DEF Buyer, BuyerPcs
    <3>2. done.pc = "done" /\ done.discount = 0 /\ done.quoted = 0
      BY DEF IdleBuyer
    <3> QED BY <3>1, <3>2 DEF Granted
  <2> HIDE DEF done
  <2>3. ASSUME NEW p \in Wares PROVE w(p) \in [price : Prices, stock : Nat, active : BOOLEAN]
    <3>1. CASE buyer[b].counts[p] = None  BY <1>0, <3>1
    <3>2. CASE buyer[b].counts[p] # None
      <4>1. buyer[b].counts \in [Wares -> Count \cup {None}]  BY <1>0 DEF Buyer
      <4>2. buyer[b].counts[p] \in Count  BY <3>2, <4>1
      <4> QED BY <1>0, <3>2, <4>2 DEF Count
    <3> QED BY <3>1, <3>2
  <2> HIDE DEF w
  <2>4. ware' \in [Wares -> [price : Prices, stock : Nat, active : BOOLEAN]]  BY <2>1, <2>3
  <2>5. coupon' \in [exists : BOOLEAN, active : BOOLEAN, inTime : BOOLEAN, used : Nat,
                     max : Limits, discount : Discounts, min : MinPurchases]
    BY <1>0, <2>1 DEF CheckoutTypeOK
  <2>6. PICK n \in Nat : n = Cardinality(sales)  BY <1>0, FS_CardinalityType
  <2>7. PICK subtotal \in Nat, discount \in Nat, quoted \in Nat :
          subtotal = buyer[b].subtotal /\ discount = buyer[b].discount /\ quoted = buyer[b].quoted
    BY <1>f DEF Buyer
  <2>8. buyer[b].coded \in BOOLEAN  BY <1>0 DEF Buyer
  <2>9. s = [id |-> n + 1, coded |-> buyer[b].coded, quoted |-> quoted,
             subtotal |-> subtotal, discount |-> discount, total |-> subtotal - discount]
    BY <2>6, <2>7 DEF SaleOf
  <2>10. n + 1 \in 1 .. MaxOrders  BY <2>1, <2>6
  <2> HIDE DEF s
  <2>11. s \in Sale  BY <2>8, <2>9, <2>10 DEF Sale
  <2>12. s.total < 0 => s.coded /\ s.subtotal < s.quoted
    <3>1. discount <= quoted /\ (~ buyer[b].coded => discount = 0)
      BY <1>0, <2>7 DEF Granted
    <3> QED BY <2>9, <3>1
  <2>13. NegativeOnlyIfRepriced'  BY <1>0, <2>1, <2>12 DEF NegativeOnlyIfRepriced
  <2>14. IsFiniteSet(sales')  BY <1>0, <2>1, FS_AddElement
  <2>15. buyer' \in [Buyers -> Buyer] /\ \A c \in Buyers : Granted(buyer'[c])
    BY <1>0, <2>1, <2>2
  <2>16. sales' \subseteq Sale  BY <1>0, <2>1, <2>11 DEF CheckoutTypeOK
  <2>17. CheckoutTypeOK'
    BY <1>0, <2>1, <2>4, <2>5, <2>15, <2>16 DEF CheckoutTypeOK
  <2> QED BY <2>13, <2>14, <2>15, <2>17 DEF PricedInvariant
<1>12. ASSUME NEW b \in Buyers, OrderFails(b) \/ BuyerReturns(b) PROVE PricedInvariant'
  <2>1. CASE OrderFails(b)  BY <1>b, <2>1 DEF OrderFails, BuyerPcs
  <2>2. CASE BuyerReturns(b)
    BY <2>2, IdleBuyerGranted, GrantedStep DEF BuyerReturns
  <2> QED BY <1>12, <2>1, <2>2
(* Administrators and the clock.                                           *)
<1>d. ASSUME Edit,
             ware' \in [Wares -> [price : Prices, stock : Nat, active : BOOLEAN]],
             onSale' \in [Wares -> 0 .. MaxUnits],
             coupon' \in [exists : BOOLEAN, active : BOOLEAN, inTime : BOOLEAN, used : Nat,
                          max : Limits, discount : Discounts, min : MinPurchases],
             limits' \subseteq Limits
      PROVE  PricedInvariant'
  <2>1. edits' \in 0 .. MaxEdits /\ sales' = sales /\ buyer' = buyer  BY <1>0, <1>d DEF Edit
  <2>2. CheckoutTypeOK'  BY <1>0, <1>d, <2>1 DEF CheckoutTypeOK
  <2> QED BY <1>0, <2>1, <2>2 DEF PricedInvariant, NegativeOnlyIfRepriced
<1>e. /\ coupon \in [exists : BOOLEAN, active : BOOLEAN, inTime : BOOLEAN, used : Nat,
                     max : Limits, discount : Discounts, min : MinPurchases]
      /\ limits \subseteq Limits
  BY <1>0 DEF CheckoutTypeOK
<1>13. ASSUME NEW m \in Limits, NEW d \in Discounts, NEW n \in MinPurchases, NEW a \in BOOLEAN,
              EditCoupon(m, d, n, a)
       PROVE  PricedInvariant'
  BY <1>0, <1>13, <1>d, <1>e DEF EditCoupon
<1>14. CASE DeleteCoupon \/ CouponClock
  BY <1>0, <1>14, <1>d, <1>e DEF DeleteCoupon, CouponClock
<1>15. ASSUME NEW p \in Wares, NEW price \in Prices, NEW a \in BOOLEAN, EditWare(p, price, a)
       PROVE  PricedInvariant'
  <2> DEFINE v == [ware[p] EXCEPT !.price = price, !.active = a]
  <2>1. v \in [price : Prices, stock : Nat, active : BOOLEAN]  BY <1>0
  <2>2. ware' = [ware EXCEPT ![p] = v]  BY <1>0, <1>15 DEF EditWare
  <2> HIDE DEF v
  <2> QED BY <1>0, <1>15, <1>d, <1>e, <2>1, <2>2 DEF EditWare
<1>16. ASSUME NEW p \in Wares, NEW n \in 0 .. MaxUnits, UnitsChange(p, n) PROVE PricedInvariant'
  <2> DEFINE v == [ware[p] EXCEPT !.stock = n]
  <2>1. v \in [price : Prices, stock : Nat, active : BOOLEAN]  BY <1>0
  <2>2. ware' = [ware EXCEPT ![p] = v]  BY <1>0, <1>16 DEF UnitsChange
  <2> HIDE DEF v
  <2> QED BY <1>0, <1>16, <1>d, <1>e, <2>1, <2>2 DEF UnitsChange
<1>17. CASE UNCHANGED checkoutVars
  BY <1>17 DEF checkoutVars, PricedInvariant, CheckoutTypeOK, NegativeOnlyIfRepriced
<1> QED BY <1>1, <1>2, <1>3, <1>4, <1>5, <1>6, <1>7, <1>8, <1>9, <1>10, <1>11, <1>12, <1>13, <1>14,
        <1>15, <1>16, <1>17 DEF CheckoutNext

LEMMA PricedHolds == CheckoutSpec => []PricedInvariant
BY PricedStarts, PricedMoves, PTL DEF CheckoutSpec

(* Orders, coupon, products and requests only have the states the module   *)
(* names; what an order costs is a number.                                 *)
THEOREM CheckoutTypeCorrect == CheckoutSpec => []CheckoutTypeOK
<1>1. PricedInvariant => CheckoutTypeOK  BY DEF PricedInvariant
<1> QED BY <1>1, PricedHolds, PTL

(* For any prices, discounts and products: only an order whose products    *)
(* became cheaper after the coupon was judged has a negative total.        *)
THEOREM TotalsCorrect == CheckoutSpec => []NegativeOnlyIfRepriced
<1>1. PricedInvariant => NegativeOnlyIfRepriced  BY DEF PricedInvariant
<1> QED BY <1>1, PricedHolds, PTL

-----------------------------------------------------------------------------
(* Carts.                                                                  *)

PeakIsReached == \A p \in Offers : offer[p].stock <= peak[p]

CheckedTotals ==
  \A t \in Tabs : tab[t].pc = "write" =>
    tab[t].total <= CartMax /\ tab[t].total <= peak[tab[t].offer]

Resting == {"idle", "ended"}

(* Beside a request that ran alone so far nothing is under way, and what   *)
(* it has added up still is the quantity there plus the one asked for.     *)
LoneTabs ==
  \A t \in Tabs : tab[t].alone =>
    /\ \A u \in Tabs \ {t} : tab[u].pc \in Resting
    /\ tab[t].op = "add" /\ tab[t].pc \in {"txProduct", "write"} =>
         tab[t].total = quantity[tab[t].offer] + tab[t].asked

CartInvariant ==
  /\ CartTypeOK
  /\ PeakIsReached
  /\ CheckedTotals
  /\ LoneTabs
  /\ QuantityWasAllowed

LEMMA IdleTabType == IdleTab \in Tab /\ IdleTab.pc = "idle" /\ ~ IdleTab.alone
  BY CartAssumption DEF IdleTab, Tab, TabPcs

LEMMA EndedTabType ==
  LET c == [IdleTab EXCEPT !.pc = "ended"] IN c \in Tab /\ c.pc = "ended" /\ ~ c.alone
  <1> DEFINE c == [IdleTab EXCEPT !.pc = "ended"]
  <1>1. c \in Tab /\ c.pc = "ended" /\ c.alone = IdleTab.alone
    BY IdleTabType DEF Tab, TabPcs
  <1> QED
    BY <1>1, IdleTabType

LEMMA InitCart == CartInit => CartInvariant
  <1> SUFFICES ASSUME CartInit PROVE CartInvariant
    OBVIOUS
  <1>1. offer \in [Offers -> [stock : Nat, active : BOOLEAN]]
    <2>1. offer \in [Offers -> [stock : 0 .. CartMax, active : {TRUE}]]
      BY DEF CartInit
    <2>2. [stock : 0 .. CartMax, active : {TRUE}] \subseteq [stock : Nat, active : BOOLEAN]
      <3>1. 0 .. CartMax \subseteq Nat /\ {TRUE} \subseteq BOOLEAN
        BY CartAssumption
      <3> QED
        BY <3>1, Zenon
    <2> QED
      BY <2>1, <2>2
  <1>2. \A p \in Offers : peak[p] = offer[p].stock /\ quantity[p] = 0
    BY DEF CartInit
  <1>3. peak \in [Offers -> Nat] /\ quantity \in [Offers -> 0 .. CartMax]
    BY <1>1, CartAssumption DEF CartInit
  <1>4. CartTypeOK
    BY <1>1, <1>3, IdleTabType DEF CartInit, CartTypeOK
  <1>5. PeakIsReached /\ QuantityWasAllowed
    BY <1>1, <1>2, <1>3, CartAssumption DEF PeakIsReached, QuantityWasAllowed
  <1>6. CheckedTotals /\ LoneTabs
    BY IdleTabType DEF CartInit, CheckedTotals, LoneTabs
  <1> QED
    BY <1>4, <1>5, <1>6 DEF CartInvariant

-----------------------------------------------------------------------------
(* The tables stay, and a request that comes to write has checked what it  *)
(* is to write.                                                            *)
LEMMA TabMoves ==
  ASSUME CartInvariant, UNCHANGED cartTables, tab' \in [Tabs -> Tab], LoneTabs',
         \A t \in Tabs : tab'[t].pc = "write" =>
           \/ /\ tab[t].pc = "write" /\ tab'[t].total = tab[t].total
              /\ tab'[t].offer = tab[t].offer
           \/ tab'[t].total <= CartMax /\ tab'[t].total <= offer[tab'[t].offer].stock
  PROVE  CartInvariant'
  <1> USE DEF CartInvariant, cartTables
  <1>1. CartTypeOK'
    BY DEF CartTypeOK
  <1>2. PeakIsReached' /\ QuantityWasAllowed'
    BY DEF PeakIsReached, QuantityWasAllowed
  <1>3. ASSUME NEW t \in Tabs, tab'[t].pc = "write"
        PROVE  tab'[t].total <= CartMax /\ tab'[t].total <= peak[tab'[t].offer]
    <2>1. CASE tab[t].pc = "write" /\ tab'[t].total = tab[t].total /\ tab'[t].offer = tab[t].offer
      BY <2>1 DEF CheckedTotals
    <2>2. CASE tab'[t].total <= CartMax /\ tab'[t].total <= offer[tab'[t].offer].stock
      <3>1. /\ tab'[t].total \in Nat /\ tab'[t].offer \in Offers
            /\ offer[tab'[t].offer].stock \in Nat /\ peak[tab'[t].offer] \in Nat
        BY CartAssumption DEF CartTypeOK, Tab
      <3> QED
        BY <2>2, <3>1 DEF PeakIsReached
    <2> QED
      BY <1>3, <2>1, <2>2
  <1>4. CheckedTotals'
    BY <1>3 DEF CheckedTotals
  <1> QED
    BY <1>1, <1>2, <1>4

(* One request moves on: it does not come to run alone by that.            *)
LEMMA TabIs ==
  ASSUME CartInvariant, NEW t \in Tabs, NEW c \in Tab, tab' = [tab EXCEPT ![t] = c],
         UNCHANGED cartTables,
         c.pc \in Resting \/ tab[t].pc \notin Resting,
         c.alone => tab[t].alone,
         c.alone /\ c.op = "add" /\ c.pc \in {"txProduct", "write"} =>
           c.total = quantity[c.offer] + c.asked,
         c.pc = "write" => c.total <= CartMax /\ c.total <= offer[c.offer].stock
  PROVE  CartInvariant'
  <1>1. tab' \in [Tabs -> Tab]
    BY DEF CartInvariant, CartTypeOK
  <1>2. \A u \in Tabs : tab'[u] = IF u = t THEN c ELSE tab[u]
    BY DEF CartInvariant, CartTypeOK
  <1>3. LoneTabs'
    BY <1>2 DEF CartInvariant, LoneTabs, cartTables
  <1> QED
    BY <1>1, <1>2, <1>3, TabMoves

LEMMA Refused ==
  ASSUME CartInvariant, NEW t \in Tabs, Refuse(t)
  PROVE  CartInvariant'
  BY EndedTabType, TabIs DEF Refuse, End, Resting

(* A check that is passed changes nothing but where the request is.        *)
LEMMA Checked ==
  ASSUME CartInvariant, NEW t \in Tabs, NEW pc \in TabPcs, NEW condition,
         Check(t, condition, pc), tab[t].pc \notin Resting, pc # "txProduct",
         pc = "write" /\ condition =>
           /\ tab[t].pc = "txProduct"
           /\ tab[t].total <= CartMax /\ tab[t].total <= offer[tab[t].offer].stock
  PROVE  CartInvariant'
  <1> DEFINE c == [tab[t] EXCEPT !.pc = pc]
  <1>1. CASE condition /\ TabGoes(t, pc)
    <2>1. /\ c \in Tab /\ c.pc = pc /\ c.total = tab[t].total /\ c.offer = tab[t].offer
          /\ c.alone = tab[t].alone /\ c.op = tab[t].op /\ c.asked = tab[t].asked
      BY DEF CartInvariant, CartTypeOK, Tab
    <2>2. tab' = [tab EXCEPT ![t] = c] /\ UNCHANGED cartTables
      BY <1>1 DEF TabGoes
    <2> HIDE DEF c
    <2>3. c.alone /\ c.op = "add" /\ c.pc \in {"txProduct", "write"} =>
            c.total = quantity[c.offer] + c.asked
      BY <1>1, <2>1 DEF CartInvariant, LoneTabs
    <2> QED
      BY <1>1, <2>1, <2>2, <2>3, TabIs
  <1>2. CASE ~ condition /\ Refuse(t)
    BY <1>2, Refused
  <1> QED
    BY <1>1, <1>2 DEF Check
-----------------------------------------------------------------------------
(* The steps.                                                              *)

LEMMA StartTabKeeps ==
  ASSUME CartInvariant, NEW t \in Tabs, NEW p \in Offers, NEW n \in 0 .. MaxAsked,
         NEW op \in {"add", "update", "remove", "clear"}, StartTab(t, op, p, n)
  PROVE  CartInvariant'
  <1> USE DEF CartInvariant
  <1> DEFINE lone == \A x \in Tabs \ {t} : tab[x].pc = "idle"
             pc == CASE op = "add" -> "ensure" [] op = "update" -> "cart"
                     [] op = "remove" -> "remove" [] OTHER -> "clear"
             c == [IdleTab EXCEPT !.op = op, !.offer = p, !.asked = n, !.alone = lone, !.pc = pc]
  <1>1. /\ UNCHANGED cartTables
        /\ tab' = [u \in Tabs |-> IF u = t THEN c ELSE [tab[u] EXCEPT !.alone = FALSE]]
    BY DEF StartTab
  <1>2. pc \in {"ensure", "cart", "remove", "clear"} /\ lone \in BOOLEAN
    OBVIOUS
  <1>3. c.pc = pc /\ c.alone = lone /\ c \in Tab
    <2>1. PICK b \in BOOLEAN : b = lone
      OBVIOUS
    <2>2. PICK q \in {"ensure", "cart", "remove", "clear"} : q = pc
      BY <1>2
    <2>3. c = [IdleTab EXCEPT !.op = op, !.offer = p, !.asked = n, !.alone = b, !.pc = q]
      BY <2>1, <2>2
    <2> HIDE DEF c, lone, pc
    <2>4. c.pc = q /\ c.alone = b
      BY <2>3, IdleTabType, Zenon DEF Tab
    <2>5. c \in Tab
      BY <2>3, IdleTabType DEF Tab, TabPcs
    <2> QED
      BY <2>1, <2>2, <2>4, <2>5
  <1> HIDE DEF c, pc
  <1>4. \A u \in Tabs : LET e == [tab[u] EXCEPT !.alone = FALSE]
                        IN  /\ e \in Tab /\ ~ e.alone /\ e.pc = tab[u].pc
                            /\ e.total = tab[u].total /\ e.offer = tab[u].offer
    BY DEF CartTypeOK, Tab
  <1>5. \A u \in Tabs \ {t} : /\ tab'[u] \in Tab /\ ~ tab'[u].alone /\ tab'[u].pc = tab[u].pc
                              /\ tab'[u].total = tab[u].total /\ tab'[u].offer = tab[u].offer
    BY <1>1, <1>4
  <1>6. tab'[t] = c
    BY <1>1
  <1>7. tab' \in [Tabs -> Tab]
    BY <1>1, <1>3, <1>4
  <1>8. LoneTabs'
    BY <1>2, <1>3, <1>5, <1>6 DEF LoneTabs, Resting
  <1> QED
    BY <1>1, <1>2, <1>3, <1>5, <1>6, <1>7, <1>8, TabMoves

LEMMA ChecksKeep ==
  ASSUME CartInvariant, NEW t \in Tabs,
         FindCart(t) \/ FindItem(t) \/ FindProduct(t) \/ CheckQuantity(t)
  PROVE  CartInvariant'
  <1>1. CASE FindCart(t)
    BY <1>1, Checked DEF FindCart, Resting, TabPcs
  <1>2. CASE FindItem(t)
    <2> DEFINE pc == IF tab[t].asked = 0 THEN "remove" ELSE "product"
    <2>1. pc \in TabPcs /\ pc \notin {"txProduct", "write"}
      BY DEF TabPcs
    <2>2. Check(t, quantity[tab[t].offer] > 0, pc) /\ tab[t].pc = "item"
      BY <1>2 DEF FindItem
    <2> HIDE DEF pc
    <2> QED
      BY <2>1, <2>2, Checked DEF Resting
  <1>3. CASE FindProduct(t)
    BY <1>3, Checked DEF FindProduct, Resting, TabPcs
  <1>4. CASE CheckQuantity(t)
    BY <1>4, Checked DEF CheckQuantity, Resting, TabPcs
  <1> QED
    BY <1>1, <1>2, <1>3, <1>4

LEMMA EnsureCartKeeps ==
  ASSUME CartInvariant, NEW t \in Tabs, EnsureCart(t)
  PROVE  CartInvariant'
  <1> USE DEF CartInvariant
  <1> DEFINE c == [tab[t] EXCEPT !.pc = "product"]
  <1>1. c \in Tab /\ c.pc = "product" /\ c.alone = tab[t].alone
    BY DEF CartTypeOK, Tab, TabPcs
  <1>2. /\ tab[t].pc = "ensure" /\ tab' = [tab EXCEPT ![t] = c] /\ hasCart' = TRUE
        /\ UNCHANGED <<offer, peak, quantity>>
    BY DEF EnsureCart
  <1> HIDE DEF c
  <1>3. \A u \in Tabs : tab'[u] = IF u = t THEN c ELSE tab[u]
    BY <1>2 DEF CartTypeOK
  <1>4. CartTypeOK'
    BY <1>1, <1>2 DEF CartTypeOK
  <1>5. PeakIsReached' /\ QuantityWasAllowed' /\ CheckedTotals'
    BY <1>1, <1>2, <1>3 DEF PeakIsReached, QuantityWasAllowed, CheckedTotals
  <1>6. LoneTabs'
    BY <1>1, <1>2, <1>3 DEF LoneTabs, Resting
  <1> QED
    BY <1>4, <1>5, <1>6

LEMMA ReadItemKeeps ==
  ASSUME CartInvariant, NEW t \in Tabs, ReadItem(t)
  PROVE  CartInvariant'
  <1> DEFINE n == quantity[tab[t].offer]
             found == IF n = 0 THEN "none" ELSE "row"
             total == IF tab[t].op = "add" THEN n + tab[t].asked ELSE tab[t].asked
             c == [tab[t] EXCEPT !.pc = "txProduct", !.read = n, !.found = found, !.total = total]
  <1>1. CASE Refuse(t)
    BY <1>1, Refused
  <1>2. CASE tab' = [tab EXCEPT ![t] = c] /\ UNCHANGED cartTables
    <2>1. /\ tab[t] \in Tab /\ n \in 0 .. CartMax /\ tab[t].asked \in 0 .. MaxAsked
          /\ tab[t].pc = "txItem"
      BY DEF CartInvariant, CartTypeOK, Tab, ReadItem
    <2>2. found \in {"none", "row"} /\ total \in 0 .. CartMax + MaxAsked
          /\ (tab[t].op = "add" => total = n + tab[t].asked)
      BY <2>1, CartAssumption
    <2> HIDE DEF found, total, n
    <2>3. /\ c \in Tab /\ c.pc = "txProduct" /\ c.total = total /\ c.op = tab[t].op
          /\ c.alone = tab[t].alone /\ c.offer = tab[t].offer /\ c.asked = tab[t].asked
      BY <2>1, <2>2 DEF Tab, TabPcs
    <2> HIDE DEF c
    <2> QED
      BY <1>2, <2>1, <2>2, <2>3, TabIs DEF Resting, n
  <1> QED
    BY <1>1, <1>2 DEF ReadItem
(* A write stores the total that was checked, and nobody runs alone beside *)
(* a request that writes.                                                  *)
LEMMA WriteItemKeeps ==
  ASSUME CartInvariant, NEW t \in Tabs, WriteItem(t)
  PROVE  CartInvariant'
  <1> USE DEF CartInvariant
  <1> DEFINE p == tab[t].offer
             c == [IdleTab EXCEPT !.pc = "ended"]
  <1>1. CASE Refuse(t)
    BY <1>1, Refused
  <1>2. CASE /\ quantity' = [quantity EXCEPT ![p] = tab[t].total]
             /\ End(t)
             /\ UNCHANGED <<offer, peak, hasCart>>
    <2>1. /\ p \in Offers /\ tab[t].total \in Nat /\ tab[t].pc = "write"
          /\ tab[t].total <= CartMax /\ tab[t].total <= peak[p]
      BY CartAssumption DEF WriteItem, CartTypeOK, Tab, CheckedTotals
    <2>2. c \in Tab /\ c.pc = "ended" /\ ~ c.alone /\ tab' = [tab EXCEPT ![t] = c]
      BY <1>2, EndedTabType DEF End
    <2> HIDE DEF c
    <2>3. \A u \in Tabs : tab'[u] = IF u = t THEN c ELSE tab[u]
      BY <2>2 DEF CartTypeOK
    <2>4. \A q \in Offers : quantity'[q] = IF q = p THEN tab[t].total ELSE quantity[q]
      BY <1>2 DEF CartTypeOK
    <2>5. CartTypeOK'
      BY <1>2, <2>1, <2>2, CartAssumption DEF CartTypeOK
    <2>6. PeakIsReached' /\ QuantityWasAllowed'
      BY <1>2, <2>1, <2>4 DEF PeakIsReached, QuantityWasAllowed
    <2>7. CheckedTotals'
      BY <1>2, <2>2, <2>3 DEF CheckedTotals
    <2>8. \A u \in Tabs \ {t} : ~ tab[u].alone
      BY <2>1 DEF LoneTabs, Resting
    <2>9. LoneTabs'
      BY <2>2, <2>3, <2>8 DEF LoneTabs
    <2> QED
      BY <2>5, <2>6, <2>7, <2>9
  <1> QED
    BY <1>1, <1>2 DEF WriteItem

LEMMA DeleteKeeps ==
  ASSUME CartInvariant, NEW t \in Tabs, tab[t].pc \notin Resting,
         NEW ps \in SUBSET Offers, Delete(t, ps)
  PROVE  CartInvariant'
  <1> USE DEF CartInvariant
  <1> DEFINE c == [IdleTab EXCEPT !.pc = "ended"]
             hit(u) == tab[u].offer \in ps /\ tab[u].found = "row" /\ tab[u].pc # "idle"
             e(u) == [tab[u] EXCEPT !.found = "gone"]
  <1>1. c \in Tab /\ c.pc = "ended" /\ ~ c.alone
    BY EndedTabType
  <1>2. \A u \in Tabs : /\ e(u) \in Tab /\ e(u).pc = tab[u].pc /\ e(u).total = tab[u].total
                        /\ e(u).offer = tab[u].offer /\ e(u).alone = tab[u].alone
    BY DEF CartTypeOK, Tab
  <1>3. /\ quantity' = [p \in Offers |-> IF p \in ps THEN 0 ELSE quantity[p]]
        /\ tab' = [u \in Tabs |-> IF u = t THEN c ELSE IF hit(u) THEN e(u) ELSE tab[u]]
        /\ UNCHANGED <<offer, peak, hasCart>>
    BY DEF Delete
  <1> HIDE DEF c, hit, e
  <1>4. tab'[t] = c
    BY <1>3
  <1>5. \A u \in Tabs \ {t} : /\ tab'[u].pc = tab[u].pc /\ tab'[u].total = tab[u].total
                              /\ tab'[u].offer = tab[u].offer /\ tab'[u].alone = tab[u].alone
    BY <1>2, <1>3
  <1>6. CartTypeOK'
    BY <1>1, <1>2, <1>3, CartAssumption DEF CartTypeOK
  <1>7. PeakIsReached' /\ QuantityWasAllowed'
    BY <1>3, CartAssumption DEF PeakIsReached, QuantityWasAllowed, CartTypeOK
  <1>8. CheckedTotals'
    BY <1>1, <1>3, <1>4, <1>5 DEF CheckedTotals
  <1>9. LoneTabs'
    BY <1>1, <1>4, <1>5 DEF LoneTabs
  <1> QED
    BY <1>6, <1>7, <1>8, <1>9

LEMMA RemovalKeeps ==
  ASSUME CartInvariant, NEW t \in Tabs, FindItemToRemove(t) \/ DeleteItem(t) \/ ClearCart(t)
  PROVE  CartInvariant'
  <1>1. CASE FindItemToRemove(t)
    <2> DEFINE c == [tab[t] EXCEPT !.pc = "delete", !.found = "row"]
    <2>1. c \in Tab /\ c.pc = "delete" /\ c.alone = tab[t].alone
      BY DEF CartInvariant, CartTypeOK, Tab, TabPcs
    <2>2. CASE tab' = [tab EXCEPT ![t] = c] /\ UNCHANGED cartTables
      BY <1>1, <2>1, <2>2, TabIs DEF FindItemToRemove, Resting
    <2>3. CASE Refuse(t)
      BY <2>3, Refused
    <2> QED
      BY <1>1, <2>2, <2>3 DEF FindItemToRemove
  <1>2. CASE DeleteItem(t)
    <2>1. tab[t].offer \in Offers /\ tab[t].pc \notin Resting
      BY <1>2 DEF CartInvariant, CartTypeOK, Tab, DeleteItem, Resting
    <2> QED
      BY <1>2, <2>1, DeleteKeeps, Refused DEF DeleteItem
  <1>3. CASE ClearCart(t)
    BY <1>3, DeleteKeeps DEF ClearCart, Resting
  <1> QED
    BY <1>1, <1>2, <1>3

LEMMA OfferChangesKeeps ==
  ASSUME CartInvariant, NEW p \in Offers, NEW n \in 0 .. CartMax, NEW a \in BOOLEAN,
         OfferChanges(p, n, a)
  PROVE  CartInvariant'
  <1> USE DEF CartInvariant
  <1>1. n \in Nat /\ peak \in [Offers -> Nat] /\ UNCHANGED <<hasCart, quantity, tab>>
    BY CartAssumption DEF CartTypeOK, OfferChanges
  <1>2. \A q \in Offers : /\ peak'[q] \in Nat /\ peak'[q] >= peak[q]
                          /\ q = p => peak'[q] >= n
    BY <1>1 DEF OfferChanges
  <1>3. \A q \in Offers : offer'[q] = IF q = p THEN [stock |-> n, active |-> a] ELSE offer[q]
    BY DEF OfferChanges, CartTypeOK
  <1>4. CartTypeOK'
    BY <1>1 DEF OfferChanges, CartTypeOK
  <1>5. PeakIsReached'
    <2>1. ASSUME NEW q \in Offers PROVE offer'[q].stock <= peak'[q]
      BY <1>1, <1>2, <1>3 DEF PeakIsReached, CartTypeOK
    <2> QED
      BY <2>1 DEF PeakIsReached
  <1>6. QuantityWasAllowed'
    BY <1>1, <1>2, CartAssumption DEF QuantityWasAllowed, CartTypeOK
  <1>7. CheckedTotals'
    <2>1. ASSUME NEW t \in Tabs, tab[t].pc = "write"
          PROVE  tab[t].total <= CartMax /\ tab[t].total <= peak'[tab[t].offer]
      <3>1. tab[t].offer \in Offers /\ tab[t].total \in Nat
        BY CartAssumption DEF CartTypeOK, Tab
      <3> QED
        BY <1>1, <1>2, <2>1, <3>1 DEF CheckedTotals
    <2> QED
      BY <1>1, <2>1 DEF CheckedTotals
  <1>8. LoneTabs'
    BY <1>1 DEF LoneTabs
  <1> QED
    BY <1>4, <1>5, <1>6, <1>7, <1>8

LEMMA TabReturnsKeeps ==
  ASSUME CartInvariant, NEW t \in Tabs, TabReturns(t)
  PROVE  CartInvariant'
  BY IdleTabType, TabIs DEF TabReturns, Resting

LEMMA CartStep ==
  ASSUME CartInvariant, [CartNext]_cartVars
  PROVE  CartInvariant'
  <1>1. CASE UNCHANGED cartVars
    BY <1>1 DEF cartVars, CartInvariant, CartTypeOK, PeakIsReached, CheckedTotals, LoneTabs,
           QuantityWasAllowed
  <1>2. ASSUME NEW t \in Tabs, NEW p \in Offers,
               \/ \E n \in 1 .. MaxAsked : StartTab(t, "add", p, n)
               \/ \E n \in 0 .. MaxAsked : StartTab(t, "update", p, n)
               \/ \E op \in {"remove", "clear"} : StartTab(t, op, p, 0)
        PROVE  CartInvariant'
    <2>1. 0 \in 0 .. MaxAsked /\ 1 .. MaxAsked \subseteq 0 .. MaxAsked
      BY CartAssumption
    <2> QED
      BY <1>2, <2>1, StartTabKeeps
  <1>3. ASSUME NEW t \in Tabs,
               \/ EnsureCart(t) \/ FindCart(t) \/ FindItem(t) \/ FindProduct(t)
               \/ ReadItem(t) \/ CheckQuantity(t) \/ WriteItem(t)
               \/ FindItemToRemove(t) \/ DeleteItem(t) \/ ClearCart(t)
               \/ TabFails(t) \/ TabReturns(t)
        PROVE  CartInvariant'
    BY <1>3, EnsureCartKeeps, ChecksKeep, ReadItemKeeps, WriteItemKeeps, RemovalKeeps, Refused,
       TabReturnsKeeps DEF TabFails
  <1>4. ASSUME NEW p \in Offers, NEW n \in 0 .. CartMax, NEW a \in BOOLEAN, OfferChanges(p, n, a)
        PROVE  CartInvariant'
    BY <1>4, OfferChangesKeeps
  <1> QED
    BY <1>1, <1>2, <1>3, <1>4 DEF CartNext

LEMMA CartInductive == CartSpec => []CartInvariant
  BY InitCart, CartStep, PTL DEF CartSpec

-----------------------------------------------------------------------------
(* The theorems.                                                           *)

(* Every variable of the cart has its type.                                *)
THEOREM CartTypeCorrect == CartSpec => []CartTypeOK
  BY CartInductive, PTL DEF CartInvariant

(* No overlap of requests makes an item exceed MAX_QUANTITY, or every      *)
(* stock the product has had.                                              *)
THEOREM QuantityCorrect == CartSpec => []QuantityWasAllowed
  BY CartInductive, PTL DEF CartInvariant
(* The quantities only change by a write or a removal of a request that is *)
(* not resting.                                                            *)
LEMMA WhoChangesQuantities ==
  ASSUME CartNext, quantity' # quantity
  PROVE  \E t \in Tabs : /\ tab[t].pc \notin Resting
                         /\ tab[t].pc = "write" =>
                              quantity' = [quantity EXCEPT ![tab[t].offer] = tab[t].total]
  <1>1. \A t \in Tabs : \A op, p, n : StartTab(t, op, p, n) => UNCHANGED quantity
    BY DEF StartTab, cartTables
  <1>2. \A t \in Tabs : \A condition, pc : Check(t, condition, pc) => UNCHANGED quantity
    BY DEF Check, TabGoes, Refuse, cartTables
  <1>3. \A t \in Tabs : FindCart(t) \/ FindItem(t) \/ FindProduct(t) \/ CheckQuantity(t) =>
                          UNCHANGED quantity
    BY <1>2 DEF FindCart, FindItem, FindProduct, CheckQuantity
  <1>4. \A t \in Tabs : EnsureCart(t) \/ ReadItem(t) \/ FindItemToRemove(t) \/ TabFails(t)
                          \/ TabReturns(t) => UNCHANGED quantity
    BY DEF EnsureCart, ReadItem, FindItemToRemove, TabFails, TabReturns, Refuse, cartTables
  <1>5. \A p, n, a : OfferChanges(p, n, a) => UNCHANGED quantity
    BY DEF OfferChanges
  <1>6. PICK t \in Tabs : WriteItem(t) \/ DeleteItem(t) \/ ClearCart(t)
    BY <1>1, <1>3, <1>4, <1>5 DEF CartNext
  <1>7. CASE WriteItem(t)
    BY <1>7 DEF WriteItem, Refuse, cartTables, Resting
  <1>8. CASE DeleteItem(t) \/ ClearCart(t)
    BY <1>8 DEF DeleteItem, ClearCart, Resting
  <1> QED
    BY <1>6, <1>7, <1>8

(* An addition that is not overlapped adds what was asked for.             *)
THEOREM LoneAddCorrect == CartSpec => LoneAddAdds
  <1>1. ASSUME CartInvariant, [CartNext]_cartVars, NEW t \in Tabs,
               tab[t].pc = "write", tab[t].op = "add", tab[t].alone, quantity' # quantity
        PROVE  quantity'[tab[t].offer] = quantity[tab[t].offer] + tab[t].asked
    <2>1. CartNext
      BY <1>1 DEF cartVars
    <2>2. PICK u \in Tabs : /\ tab[u].pc \notin Resting
                            /\ tab[u].pc = "write" =>
                                 quantity' = [quantity EXCEPT ![tab[u].offer] = tab[u].total]
      BY <1>1, <2>1, WhoChangesQuantities
    <2>3. u = t
      BY <1>1, <2>2 DEF CartInvariant, LoneTabs
    <2>4. tab[t].total = quantity[tab[t].offer] + tab[t].asked /\ tab[t].offer \in Offers
      BY <1>1 DEF CartInvariant, LoneTabs, CartTypeOK, Tab
    <2> QED
      BY <1>1, <2>2, <2>3, <2>4 DEF CartInvariant, CartTypeOK
  <1>2. CartInvariant /\ [CartNext]_cartVars =>
          [\A t \in Tabs :
             (tab[t].pc = "write" /\ tab[t].op = "add" /\ tab[t].alone /\ quantity' # quantity) =>
               quantity'[tab[t].offer] = quantity[tab[t].offer] + tab[t].asked]_cartVars
    BY <1>1
  <1> QED
    BY <1>2, CartInductive, PTL DEF CartSpec, LoneAddAdds

-----------------------------------------------------------------------------
(* Sums over the ledger.                                                   *)

Share(entry, type) == IF entry.type = type THEN entry.amount ELSE 0

IsTotal(s, type, m, f) ==
  f = [n \in 0 .. m |-> IF n = 0 THEN 0 ELSE f[n - 1] + (IF s[n].type = type THEN s[n].amount ELSE 0)]

LEMMA ShareIsInt ==
  ASSUME NEW e \in Entry, NEW type
  PROVE  Share(e, type) \in Int
  <1>1. e.amount \in Amounts
    BY DEF Entry
  <1>2. \A a \in Amounts : a \in Int
    <2>1. Amounts \subseteq Nat
      BY WalletAssumption
    <2> QED
      BY <2>1
  <1>3. e.amount \in Int
    BY <1>1, <1>2, Zenon
  <1>4. CASE e.type = type
    BY <1>3, <1>4 DEF Share
  <1>5. CASE e.type # type
    BY <1>5 DEF Share
  <1> QED
    BY <1>4, <1>5

LEMMA TotalExists ==
  ASSUME NEW s \in Seq(Entry), NEW type
  PROVE  \E f \in [0 .. Len(s) -> Int] : IsTotal(s, type, Len(s), f)
  <1> DEFINE Has(m) == \E f \in [0 .. m -> Int] : IsTotal(s, type, m, f)
             Gaps == {m \in 0 .. Len(s) : ~ Has(m)}
  <1>1. Has(0)
    <2>1. [n \in 0 .. 0 |-> 0] \in [0 .. 0 -> Int]
      OBVIOUS
    <2>2. IsTotal(s, type, 0, [n \in 0 .. 0 |-> 0])
      BY DEF IsTotal
    <2> QED
      BY <2>1, <2>2
  <1>2. ASSUME NEW m \in 1 .. Len(s), Has(m - 1) PROVE Has(m)
    <2>1. PICK f \in [0 .. m - 1 -> Int] : IsTotal(s, type, m - 1, f)
      BY <1>2
    <2> DEFINE g == [n \in 0 .. m |-> IF n = m THEN f[m - 1] + Share(s[m], type) ELSE f[n]]
    <2>2. Share(s[m], type) \in Int
      <3>1. s[m] \in Entry
        OBVIOUS
      <3> QED
        BY <3>1, ShareIsInt
    <2>3. g \in [0 .. m -> Int]
      BY <2>2
    <2>4. \A n \in 0 .. m - 1 : f[n] = IF n = 0 THEN 0 ELSE f[n - 1] + Share(s[n], type)
      BY <2>1 DEF IsTotal, Share
    <2>5. \A n \in 0 .. m : g[n] = IF n = 0 THEN 0 ELSE g[n - 1] + Share(s[n], type)
      BY <2>4
    <2>6. IsTotal(s, type, m, g)
      BY <2>3, <2>5 DEF IsTotal, Share
    <2> QED
      BY <2>3, <2>6
  <1> HIDE DEF Has
  <1>3. Gaps = {}
    <2> SUFFICES ASSUME Gaps # {} PROVE FALSE
      OBVIOUS
    <2>1. Gaps \in SUBSET Nat
      OBVIOUS
    <2>2. PICK m \in Gaps : \A k \in Gaps : m <= k
      BY <2>1, SmallestNumber
    <2>3. m # 0
      BY <1>1
    <2>4. m \in 1 .. Len(s) /\ m - 1 \in 0 .. Len(s) /\ m - 1 \notin Gaps
      BY <2>2, <2>3
    <2>5. Has(m - 1)
      BY <2>4
    <2> QED
      BY <2>4, <2>5, <1>2
  <1>4. Len(s) \in 0 .. Len(s)
    OBVIOUS
  <1>5. Has(Len(s))
    BY <1>3, <1>4
  <1> QED
    BY <1>5 DEF Has

LEMMA TotalUnique ==
  ASSUME NEW s \in Seq(Entry), NEW type, NEW m \in Nat, NEW f, NEW g,
         IsTotal(s, type, m, f), IsTotal(s, type, m, g)
  PROVE  f = g
  <1> DEFINE Apart == {n \in 0 .. m : f[n] # g[n]}
  <1>1. \A n \in 0 .. m : f[n] = IF n = 0 THEN 0 ELSE f[n - 1] + Share(s[n], type)
    BY DEF IsTotal, Share
  <1>2. \A n \in 0 .. m : g[n] = IF n = 0 THEN 0 ELSE g[n - 1] + Share(s[n], type)
    BY DEF IsTotal, Share
  <1>3. Apart = {}
    <2> SUFFICES ASSUME Apart # {} PROVE FALSE
      OBVIOUS
    <2>1. Apart \in SUBSET Nat
      OBVIOUS
    <2>2. PICK n \in Apart : \A k \in Apart : n <= k
      BY <2>1, SmallestNumber
    <2>3. n # 0
      BY <1>1, <1>2
    <2>4. n - 1 \in 0 .. m /\ n - 1 \notin Apart
      BY <2>2, <2>3
    <2> QED
      BY <2>3, <2>4, <1>1, <1>2
  <1>4. /\ f = [n \in 0 .. m |-> f[n]]
        /\ g = [n \in 0 .. m |-> g[n]]
    BY DEF IsTotal
  <1> QED
    BY <1>3, <1>4

LEMMA SumIsTotal ==
  ASSUME NEW s \in Seq(Entry), NEW type, NEW f, IsTotal(s, type, Len(s), f)
  PROVE  SumOf(s, type) = f[Len(s)]
  <1> DEFINE total == CHOOSE h : IsTotal(s, type, Len(s), h)
  <1>1. IsTotal(s, type, Len(s), total)
    OBVIOUS
  <1>2. SumOf(s, type) = total[Len(s)]
    BY DEF SumOf, IsTotal
  <1>3. Len(s) \in Nat
    OBVIOUS
  <1> HIDE DEF total
  <1>4. total = f
    BY <1>1, <1>3, TotalUnique
  <1> QED
    BY <1>2, <1>4

LEMMA SumOfNone ==
  ASSUME NEW type
  PROVE  SumOf(<<>>, type) = 0
  <1>1. <<>> \in Seq(Entry) /\ Len(<<>>) = 0
    OBVIOUS
  <1>2. PICK f \in [0 .. 0 -> Int] : IsTotal(<<>>, type, 0, f)
    BY <1>1, TotalExists
  <1>3. f[0] = 0
    BY <1>2 DEF IsTotal
  <1> QED
    BY <1>1, <1>2, <1>3, SumIsTotal

LEMMA SumOfAppend ==
  ASSUME NEW s \in Seq(Entry), NEW e \in Entry, NEW type
  PROVE  /\ SumOf(s, type) \in Int
         /\ SumOf(Append(s, e), type) = SumOf(s, type) + Share(e, type)
  <1> DEFINE m == Len(s) + 1
             t == Append(s, e)
  <1>1. t \in Seq(Entry) /\ Len(t) = m /\ m \in Nat /\ Len(s) \in Nat
    OBVIOUS
  <1>2. \A i \in 1 .. Len(s) : t[i] = s[i]
    OBVIOUS
  <1>3. t[m] = e
    OBVIOUS
  <1>4. PICK f \in [0 .. Len(s) -> Int] : IsTotal(s, type, Len(s), f)
    BY TotalExists
  <1>5. PICK g \in [0 .. m -> Int] : IsTotal(t, type, m, g)
    BY <1>1, TotalExists
  <1> HIDE DEF t
  <1> DEFINE h == [n \in 0 .. Len(s) |-> g[n]]
  <1>6. \A n \in 0 .. m : g[n] = IF n = 0 THEN 0 ELSE g[n - 1] + Share(t[n], type)
    BY <1>5 DEF IsTotal, Share
  <1>7. \A n \in 0 .. Len(s) : h[n] = IF n = 0 THEN 0 ELSE h[n - 1] + Share(s[n], type)
    BY <1>1, <1>2, <1>6
  <1>8. IsTotal(s, type, Len(s), h)
    BY <1>7 DEF IsTotal, Share
  <1>9. f = h
    BY <1>1, <1>4, <1>8, TotalUnique
  <1>10. SumOf(s, type) = h[Len(s)] /\ SumOf(t, type) = g[m]
    BY <1>1, <1>4, <1>5, <1>9, SumIsTotal
  <1>11. g[m] = g[m - 1] + Share(e, type) /\ m - 1 = Len(s) /\ h[Len(s)] = g[Len(s)]
    BY <1>1, <1>3, <1>6
  <1>12. h[Len(s)] \in Int
    BY <1>1, <1>4, <1>9
  <1> QED
    BY <1>10, <1>11, <1>12 DEF t

-----------------------------------------------------------------------------
(* The inductive invariant.                                                *)

Busy == {t \in Tellers : teller[t].pc \notin {"idle", "ended"}}

(* Every operation under way still has room for its transaction.           *)
LedgerHasRoom == Len(ledger) + Cardinality(Busy) <= MaxLedger

(* The debits that were found covered and are not committed yet, and the   *)
(* least balance there may be with k of them under way.                    *)
Debits == {t \in Tellers : teller[t].op = "debit" /\ teller[t].pc \in {"update", "commit"}}
Floor(k) == - ((Cardinality(Tellers) - k) * MaxAmount)

(* One of them would not go below the floor the others leave.              *)
DebitsAreCovered ==
  \/ Debits = {} /\ wallet.balance >= Floor(1)
  \/ \E t \in Debits : wallet.balance - teller[t].amount >= Floor(Cardinality(Debits))

(* What a walk has received: the positions from its newest down, without a *)
(* gap; it goes on below the last of them, and it is over at the oldest.   *)
WalkDescends ==
  LET got == walk.got
  IN  /\ walk.first <= Len(ledger)
      /\ \A i \in DOMAIN got : got[i] = got[1] - i + 1
      /\ got # <<>> => got[1] >= walk.first
      /\ ~ walk.over /\ got = <<>> => walk.cursor = 0
      /\ ~ walk.over /\ got # <<>> => walk.cursor > 1 /\ walk.cursor = got[Len(got)]
      /\ walk.over /\ got = <<>> => walk.first = 0
      /\ walk.over /\ got # <<>> => got[Len(got)] = 1

WalletInvariant ==
  /\ WalletTypeOK
  /\ LedgerExplainsWallet
  /\ LedgerHasRoom
  /\ DebitsAreCovered
  /\ WalkDescends

-----------------------------------------------------------------------------
(* Amounts and floors.                                                     *)

LEMMA AmountsHaveMax == \E a \in Amounts : \A b \in Amounts : b <= a
  <1> DEFINE Topped(S) == \E a \in S : \A b \in S : b <= a
             Bad == {S \in SUBSET Amounts : S # {} /\ ~ Topped(S)}
             Sizes == {Cardinality(S) : S \in Bad}
  <1>1. \A S \in SUBSET Amounts : IsFiniteSet(S) /\ Cardinality(S) \in Nat
    BY WalletAssumption, FS_Subset, FS_CardinalityType
  <1>2. Bad = {}
    <2> SUFFICES ASSUME Bad # {} PROVE FALSE
      OBVIOUS
    <2>1. Sizes \in SUBSET Nat /\ Sizes # {}
      BY <1>1
    <2>2. PICK n \in Sizes : \A k \in Sizes : n <= k
      BY <2>1, SmallestNumber
    <2>3. PICK S \in Bad : Cardinality(S) = n
      OBVIOUS
    <2>4. PICK x \in S : TRUE
      BY <2>3
    <2>5. Cardinality(S \ {x}) = Cardinality(S) - 1
      BY <1>1, <2>3, <2>4, FS_RemoveElement
    <2>6. S \ {x} \notin Bad
      <3>1. CASE S \ {x} \in Bad
        <4>1. n <= Cardinality(S \ {x})
          BY <2>2, <3>1
        <4> QED
          BY <1>1, <2>3, <2>5, <4>1
      <3> QED
        BY <3>1
    <2>7. S \subseteq Nat
      BY <2>3, WalletAssumption
    <2>8. CASE S \ {x} = {}
      <3>1. \A b \in S : b <= x
        BY <2>4, <2>7, <2>8
      <3> QED
        BY <2>3, <2>4, <3>1
    <2>9. CASE S \ {x} # {}
      <3>1. PICK a \in S \ {x} : \A b \in S \ {x} : b <= a
        BY <2>3, <2>6, <2>9
      <3>2. CASE a <= x
        <4>1. \A b \in S : b <= x
          BY <2>4, <2>7, <3>1, <3>2
        <4> QED
          BY <2>3, <2>4, <4>1
      <3>3. CASE x <= a
        <4>1. \A b \in S : b <= a
          BY <2>4, <2>7, <3>1, <3>3
        <4> QED
          BY <2>3, <3>1, <4>1
      <3> QED
        BY <2>4, <2>7, <3>1, <3>2, <3>3
    <2> QED
      BY <2>8, <2>9
  <1>3. Amounts # {} /\ Amounts \in SUBSET Amounts
    BY WalletAssumption
  <1> QED
    BY <1>2, <1>3

LEMMA MaxAmountIs ==
  /\ MaxAmount \in Nat \ {0}
  /\ \A a \in Amounts : a \in Nat \ {0} /\ a <= MaxAmount
  <1>1. MaxAmount \in Amounts /\ \A b \in Amounts : b <= MaxAmount
    BY AmountsHaveMax DEF MaxAmount
  <1>2. Amounts \subseteq Nat \ {0}
    BY WalletAssumption
  <1> QED
    BY <1>1, <1>2

LEMMA FloorIs ==
  /\ \A k \in Int : Floor(k) \in Int /\ Floor(k - 1) = Floor(k) - MaxAmount
  /\ \A k \in Nat : k <= Cardinality(Tellers) => Floor(k) <= 0
  /\ \A k, m \in Nat : k <= m => Floor(k) <= Floor(m)
  /\ Cardinality(Tellers) \in Nat \ {0}
  <1>1. Cardinality(Tellers) \in Nat \ {0}
    BY WalletAssumption, FS_CardinalityType, FS_EmptySet
  <1> DEFINE N == Cardinality(Tellers)
             M == MaxAmount
  <1>2. N \in Nat \ {0} /\ M \in Nat \ {0}
    BY <1>1, MaxAmountIs
  <1> HIDE DEF N, M
  <1>3. \A j \in Int : j * M \in Int /\ (j + 1) * M = j * M + M
    BY <1>2
  <1>4. \A j \in Nat : j * M >= 0
    BY <1>2
  <1>5. \A j \in Int, i \in Nat : (j + i) * M = j * M + i * M
    BY <1>2
  <1>6. \A k \in Int : Floor(k) = - ((N - k) * M)
    BY DEF Floor, N, M
  <1>7. ASSUME NEW k \in Int PROVE Floor(k) \in Int /\ Floor(k - 1) = Floor(k) - M
    <2>1. N - (k - 1) = (N - k) + 1 /\ N - k \in Int
      BY <1>2
    <2>2. (N - k) * M \in Int /\ ((N - k) + 1) * M = (N - k) * M + M
      BY <1>3, <2>1
    <2>3. Floor(k - 1) = - ((N - (k - 1)) * M) /\ Floor(k) = - ((N - k) * M)
      BY <1>6
    <2>4. Floor(k - 1) = - ((N - k) * M + M)
      BY <2>1, <2>2, <2>3
    <2> QED
      BY <1>2, <2>2, <2>3, <2>4
  <1>8. ASSUME NEW k \in Nat, k <= N PROVE Floor(k) <= 0
    <2>1. N - k \in Nat
      BY <1>2, <1>8
    <2>2. (N - k) * M >= 0 /\ (N - k) * M \in Int
      BY <1>3, <1>4, <2>1
    <2> QED
      BY <1>6, <2>2
  <1>9. ASSUME NEW k \in Nat, NEW m \in Nat, k <= m PROVE Floor(k) <= Floor(m)
    <2>1. N - k = (N - m) + (m - k) /\ m - k \in Nat /\ N - m \in Int
      BY <1>2, <1>9
    <2>2. (N - k) * M = (N - m) * M + (m - k) * M
      BY <1>5, <2>1
    <2>3. (m - k) * M >= 0 /\ (m - k) * M \in Int /\ (N - m) * M \in Int
      BY <1>3, <1>4, <2>1
    <2> QED
      BY <1>6, <2>2, <2>3
  <1> QED
    BY <1>1, <1>7, <1>8, <1>9 DEF N, M

LEMMA DebitsFinite ==
  /\ IsFiniteSet(Debits) /\ Cardinality(Debits) \in Nat
  /\ Cardinality(Debits) <= Cardinality(Tellers)
  /\ Debits # {} => Cardinality(Debits) >= 1
  <1>1. Debits \in SUBSET Tellers
    BY DEF Debits
  <1> QED
    BY <1>1, WalletAssumption, FS_Subset, FS_CardinalityType, FS_EmptySet

LEMMA BoundFollows ==
  ASSUME WalletTypeOK, DebitsAreCovered
  PROVE  OverdraftIsBounded
  <1>1. wallet.balance \in Int /\ \A t \in Tellers : teller[t].amount \in Amounts
    BY DEF WalletTypeOK, Teller
  <1>2. Floor(1) = - ((Cardinality(Tellers) - 1) * MaxAmount)
    BY DEF Floor
  <1>3. CASE wallet.balance >= Floor(1)
    BY <1>2, <1>3 DEF OverdraftIsBounded
  <1>4. ASSUME NEW t \in Debits, wallet.balance - teller[t].amount >= Floor(Cardinality(Debits))
        PROVE  OverdraftIsBounded
    <2>1. Floor(1) <= Floor(Cardinality(Debits))
      BY FloorIs, DebitsFinite
    <2>2. teller[t].amount \in Nat
      BY <1>1, MaxAmountIs DEF Debits
    <2>3. wallet.balance >= Floor(1)
      BY <1>1, <1>4, <2>1, <2>2, FloorIs, DebitsFinite
    <2> QED
      BY <1>2, <2>3 DEF OverdraftIsBounded
  <1> QED
    BY <1>3, <1>4 DEF DebitsAreCovered

-----------------------------------------------------------------------------
(* Steps.                                                                  *)

LEMMA IdleTellerIs ==
  /\ IdleTeller \in Teller /\ IdleTeller.pc = "idle"
  /\ [IdleTeller EXCEPT !.pc = "ended"] \in Teller
  /\ [IdleTeller EXCEPT !.pc = "ended"].pc = "ended"
  <1>1. (CHOOSE a \in Amounts : TRUE) \in Amounts
    BY WalletAssumption
  <1>2. IdleTeller \in Teller /\ IdleTeller.pc = "idle"
    BY <1>1 DEF IdleTeller, Teller, Kinds
  <1> QED
    BY <1>2 DEF Teller

LEMMA InitWallet == WalletInit => WalletInvariant
  <1> SUFFICES ASSUME WalletInit PROVE WalletInvariant
    OBVIOUS
  <1> USE DEF WalletInit
  <1>1. \A t \in Tellers : teller[t] = IdleTeller /\ teller[t].pc = "idle"
    BY IdleTellerIs
  <1>2. WalletTypeOK
    <2>1. teller \in [Tellers -> Teller]
      BY IdleTellerIs
    <2>2. MaxLedger \in Nat
      BY WalletAssumption
    <2>3. walk \in Walk
      BY <2>2 DEF NoWalk, Walk
    <2>4. wallet \in [exists : BOOLEAN, balance : Int, cashback : Int]
      OBVIOUS
    <2>5. ledger \in Seq(Entry)
      OBVIOUS
    <2> QED
      BY <2>1, <2>3, <2>4, <2>5 DEF WalletTypeOK
  <1>3. LedgerExplainsWallet
    BY SumOfNone DEF LedgerExplainsWallet
  <1>4. LedgerHasRoom
    <2>1. Busy = {}
      BY <1>1 DEF Busy
    <2>2. Cardinality(Busy) = 0 /\ Len(ledger) = 0
      BY <2>1, FS_EmptySet
    <2>3. MaxLedger \in Nat
      BY WalletAssumption
    <2> QED
      BY <2>2, <2>3 DEF LedgerHasRoom
  <1>5. DebitsAreCovered
    <2>1. Debits = {}
      BY <1>1 DEF Debits
    <2>2. wallet.balance = 0 /\ Floor(1) <= 0
      BY FloorIs
    <2>3. Floor(1) \in Int
      BY FloorIs
    <2> QED
      BY <2>1, <2>2, <2>3 DEF DebitsAreCovered
  <1>6. WalkDescends
    BY DEF WalkDescends, NoWalk
  <1> QED
    BY <1>2, <1>3, <1>4, <1>5, <1>6 DEF WalletInvariant

(* A teller that only moves: no debit is added, no operation started.      *)
LEMMA BusyShrinks ==
  ASSUME LedgerHasRoom, ledger \in Seq(Entry), ledger' = ledger, Busy' \subseteq Busy
  PROVE  LedgerHasRoom'
  <1>1. Busy \in SUBSET Tellers
    BY DEF Busy
  <1>2. IsFiniteSet(Busy)
    BY <1>1, WalletAssumption, FS_Subset
  <1>3. Cardinality(Busy') <= Cardinality(Busy) /\ Cardinality(Busy') \in Nat
    BY <1>2, FS_Subset, FS_CardinalityType
  <1>4. Cardinality(Busy) \in Nat /\ Len(ledger) \in Nat /\ MaxLedger \in Nat
    BY <1>2, FS_CardinalityType, WalletAssumption
  <1> QED
    BY <1>3, <1>4 DEF LedgerHasRoom

LEMMA DebitsStay ==
  ASSUME WalletTypeOK, WalletTypeOK', DebitsAreCovered, Debits' = Debits,
         \A t \in Debits : teller'[t].amount = teller[t].amount,
         wallet'.balance >= wallet.balance
  PROVE  DebitsAreCovered'
  <1> DEFINE K == Cardinality(Debits)
  <1>1. Cardinality(Debits') = K
    OBVIOUS
  <1>2. wallet.balance \in Int /\ wallet'.balance \in Int
    BY DEF WalletTypeOK
  <1>3. Floor(1) \in Int /\ Floor(K) \in Int
    BY FloorIs, DebitsFinite
  <1>4. CASE Debits = {} /\ wallet.balance >= Floor(1)
    <2>1. wallet'.balance >= Floor(1)
      BY <1>2, <1>3, <1>4
    <2> QED
      BY <1>4, <2>1 DEF DebitsAreCovered, Floor
  <1>5. ASSUME NEW t \in Debits, wallet.balance - teller[t].amount >= Floor(K)
        PROVE  DebitsAreCovered'
    <2>1. teller[t].amount \in Nat
      BY MaxAmountIs DEF Debits, WalletTypeOK, Teller
    <2>2. wallet'.balance - teller'[t].amount >= Floor(K)
      BY <1>2, <1>3, <1>5, <2>1
    <2> QED
      BY <1>1, <2>2 DEF DebitsAreCovered, Floor
  <1> QED
    BY <1>4, <1>5 DEF DebitsAreCovered

(* A debit ends, by its commit or without one: of the others one still is  *)
(* covered, by a floor lower by at most its amount.                        *)
LEMMA DebitLeaves ==
  ASSUME WalletTypeOK, WalletTypeOK', DebitsAreCovered, NEW s \in Debits, Debits' = Debits \ {s},
         \A t \in Debits \ {s} : teller'[t].amount = teller[t].amount,
         wallet'.balance \in {wallet.balance, wallet.balance - teller[s].amount}
  PROVE  DebitsAreCovered'
  <1> DEFINE K == Cardinality(Debits)
             b == wallet.balance
             c == wallet'.balance
             M == MaxAmount
             F == Floor(K)
             n == [t \in Debits |-> teller[t].amount]
  <1>1. K \in Nat /\ K >= 1 /\ Cardinality(Debits \ {s}) = K - 1
    BY DebitsFinite, FS_RemoveElement
  <1>2. b \in Int /\ c \in Int /\ M \in Nat
    BY MaxAmountIs DEF WalletTypeOK
  <1>3. \A t \in Debits : n[t] \in Nat /\ n[t] >= 1 /\ n[t] <= M
    <2>1. \A t \in Debits : n[t] \in Amounts
      BY DEF Debits, WalletTypeOK, Teller
    <2> QED
      BY <2>1, MaxAmountIs
  <1>4. /\ F \in Int /\ Floor(K - 1) \in Int /\ Floor(1) \in Int
        /\ Floor(K - 1) = F - M /\ Floor(1) <= F
    BY <1>1, FloorIs
  <1>5. PICK t \in Debits : b - n[t] >= F
    BY DEF DebitsAreCovered
  <1>6. c = b \/ c = b - n[s]
    OBVIOUS
  <1> HIDE DEF K, b, c, M, F, n
  <1>7. c >= F \/ t # s
    BY <1>2, <1>3, <1>4, <1>5, <1>6
  <1>8. CASE Debits \ {s} = {}
    <2>1. t = s
      BY <1>8
    <2>2. c >= Floor(1)
      BY <1>2, <1>4, <1>7, <2>1
    <2> QED
      BY <1>8, <2>2 DEF DebitsAreCovered, Floor, c
  <1>9. ASSUME NEW u \in Debits \ {s}, c - n[u] >= F - M
        PROVE  DebitsAreCovered'
    <2>1. n[u] = teller'[u].amount /\ u \in Debits'
      BY DEF n
    <2>2. Cardinality(Debits') = K - 1
      BY <1>1
    <2>3. wallet'.balance - teller'[u].amount >= Floor(Cardinality(Debits'))
      BY <1>4, <1>9, <2>1, <2>2 DEF c
    <2> QED
      BY <2>1, <2>3 DEF DebitsAreCovered, Floor
  <1>10. CASE t # s
    <2>1. n[s] <= M /\ n[s] \in Nat /\ n[t] \in Nat
      BY <1>3
    <2>2. c - n[t] >= F - M
      BY <1>2, <1>4, <1>5, <1>6, <2>1
    <2> QED
      BY <1>9, <1>10, <2>2
  <1>11. ASSUME t = s, NEW u \in Debits \ {s} PROVE DebitsAreCovered'
    <2>1. n[u] <= M /\ n[u] \in Nat
      BY <1>3
    <2>2. c - n[u] >= F - M
      BY <1>2, <1>4, <1>7, <1>11, <2>1
    <2> QED
      BY <1>9, <2>2
  <1> QED
    BY <1>8, <1>10, <1>11

LEMMA AccountKept ==
  ASSUME WalletInvariant, UNCHANGED <<wallet, ledger>>
  PROVE  LedgerExplainsWallet'
  BY DEF WalletInvariant, LedgerExplainsWallet

LEMMA WalkKept ==
  ASSUME WalletInvariant, UNCHANGED walk, ledger' = ledger
  PROVE  WalkDescends'
  BY DEF WalletInvariant, WalkDescends

(* A teller's own step that leaves the account alone, starts nothing and   *)
(* finds no debit covered.                                                 *)
LEMMA TellerMoves ==
  ASSUME WalletInvariant, NEW t \in Tellers, NEW r \in Teller,
         teller' = [teller EXCEPT ![t] = r], AccountStays,
         r.pc \notin {"idle", "ended"} => teller[t].pc \notin {"idle", "ended"},
         r.op = "debit" /\ r.pc \in {"update", "commit"} => t \in Debits /\ r.amount = teller[t].amount
  PROVE  WalletInvariant'
  <1> USE DEF WalletInvariant, AccountStays
  <1>1. WalletTypeOK /\ WalletTypeOK'
    BY DEF WalletTypeOK
  <1>2. teller'[t] = r /\ \A s \in Tellers \ {t} : teller'[s] = teller[s]
    BY <1>1 DEF WalletTypeOK
  <1>3. LedgerHasRoom'
    <2>1. Busy' \subseteq Busy
      BY <1>2 DEF Busy
    <2> QED
      BY <1>1, <2>1, BusyShrinks DEF WalletTypeOK
  <1>4. DebitsAreCovered'
    <2>1. \A s \in Tellers \ {t} : s \in Debits' <=> s \in Debits
      BY <1>2 DEF Debits
    <2>2. t \in Debits' => t \in Debits /\ r.amount = teller[t].amount
      BY <1>2 DEF Debits
    <2>3. Debits \subseteq Tellers /\ Debits' \subseteq Tellers
      BY DEF Debits
    <2>4. wallet'.balance = wallet.balance /\ wallet.balance \in Int
      BY <1>1 DEF WalletTypeOK
    <2>5. CASE t \in Debits' \/ t \notin Debits
      <3>1. Debits' = Debits
        BY <2>1, <2>2, <2>3, <2>5
      <3>2. \A s \in Debits : teller'[s].amount = teller[s].amount
        BY <1>2, <2>2, <2>3, <3>1
      <3> QED
        BY <1>1, <2>4, <3>1, <3>2, DebitsStay
    <2>6. CASE t \notin Debits' /\ t \in Debits
      <3>1. Debits' = Debits \ {t}
        BY <2>1, <2>3, <2>6
      <3>2. \A s \in Debits \ {t} : teller'[s].amount = teller[s].amount
        BY <1>2, <2>3
      <3> QED
        BY <1>1, <2>4, <2>6, <3>1, <3>2, DebitLeaves
    <2> QED
      BY <2>5, <2>6
  <1> QED
    BY <1>1, <1>3, <1>4, AccountKept, WalkKept

LEMMA EndsKeep ==
  ASSUME WalletInvariant, NEW t \in Tellers,
         \/ TellerEnds(t)
         \/ teller' = [teller EXCEPT ![t] = IdleTeller],
         AccountStays
  PROVE  WalletInvariant'
  <1> DEFINE e == [IdleTeller EXCEPT !.pc = "ended"]
  <1>1. e \in Teller /\ e.pc = "ended"
    BY IdleTellerIs
  <1> HIDE DEF e
  <1>2. CASE teller' = [teller EXCEPT ![t] = e]
    BY <1>1, <1>2, TellerMoves
  <1>3. CASE teller' = [teller EXCEPT ![t] = IdleTeller]
    BY <1>3, IdleTellerIs, TellerMoves
  <1> QED
    BY <1>2, <1>3 DEF TellerEnds, e

LEMMA UpdateWalletKeeps ==
  ASSUME WalletInvariant, NEW t \in Tellers, UpdateWallet(t)
  PROVE  WalletInvariant'
  <1> DEFINE r == [teller[t] EXCEPT !.pc = "commit", !.wrote = TRUE]
  <1>1. teller \in [Tellers -> Teller]
    BY DEF WalletInvariant, WalletTypeOK
  <1>2. /\ r \in Teller /\ r.pc = "commit" /\ r.op = teller[t].op /\ r.amount = teller[t].amount
        /\ teller' = [teller EXCEPT ![t] = r]
    BY <1>1 DEF UpdateWallet, Teller
  <1>3. teller[t].pc = "update" /\ AccountStays
    BY DEF UpdateWallet
  <1>4. r.op = "debit" => t \in Debits
    BY <1>2, <1>3 DEF Debits
  <1> HIDE DEF r
  <1> QED
    BY <1>2, <1>3, <1>4, TellerMoves

LEMMA ReadWalletKeeps ==
  ASSUME WalletInvariant, NEW t \in Tellers, ReadWallet(t)
  PROVE  WalletInvariant'
  <1>1. WalletTypeOK
    BY DEF WalletInvariant
  <1>2. teller[t].pc = "read" /\ AccountStays /\ teller[t] \in Teller
    BY <1>1 DEF ReadWallet, WalletTypeOK
  <1>3. CASE TellerEnds(t)
    BY <1>2, <1>3, EndsKeep
  <1> DEFINE r == [teller[t] EXCEPT !.pc = "update"]
  <1>4. CASE Covered(t) /\ TellerGoes(t, "update")
    <2>1. /\ r \in Teller /\ r.pc = "update" /\ r.op = teller[t].op /\ r.amount = teller[t].amount
          /\ teller' = [teller EXCEPT ![t] = r]
      BY <1>1, <1>2, <1>4 DEF Teller, TellerGoes, WalletTypeOK
    <2> HIDE DEF r
    <2>2. CASE teller[t].op # "debit"
      BY <1>2, <2>1, <2>2, TellerMoves
    <2>3. CASE teller[t].op = "debit"
      <3>1. wallet.balance >= teller[t].amount /\ wallet.balance \in Int /\ teller[t].amount \in Amounts
        BY <1>1, <1>2, <1>4, <2>3 DEF Covered, WalletTypeOK, Teller
      <3>2. teller'[t] = r /\ \A s \in Tellers \ {t} : teller'[s] = teller[s]
        BY <1>1, <2>1 DEF WalletTypeOK
      <3>3. WalletTypeOK'
        BY <1>1, <1>2, <2>1 DEF WalletTypeOK, AccountStays
      <3>4. LedgerHasRoom'
        <4>1. Busy' \subseteq Busy
          BY <1>2, <3>2 DEF Busy
        <4> QED
          BY <1>1, <1>2, <4>1, BusyShrinks DEF WalletTypeOK, AccountStays, WalletInvariant
      <3>5. DebitsAreCovered'
        <4>1. Debits' = Debits \cup {t} /\ t \notin Debits
          BY <1>2, <2>1, <2>3, <3>2 DEF Debits
        <4>2. /\ Cardinality(Debits') \in Nat
              /\ Cardinality(Debits') <= Cardinality(Tellers)
          <5>1. Debits' \in SUBSET Tellers
            BY DEF Debits
          <5> QED
            BY <5>1, WalletAssumption, FS_Subset, FS_CardinalityType
        <4>3. Floor(Cardinality(Debits')) <= 0 /\ Floor(Cardinality(Debits')) \in Int
          BY <4>2, FloorIs
        <4>4. wallet'.balance - teller'[t].amount >= 0
          BY <1>2, <2>1, <3>1, <3>2, MaxAmountIs DEF AccountStays
        <4>5. wallet'.balance \in Int /\ teller'[t].amount \in Int
          BY <1>2, <2>1, <3>1, <3>2, MaxAmountIs DEF AccountStays
        <4>6. wallet'.balance - teller'[t].amount >= Floor(Cardinality(Debits'))
          BY <4>3, <4>4, <4>5
        <4> QED
          BY <4>1, <4>6 DEF DebitsAreCovered, Floor
      <3> QED
        BY <1>2, <3>3, <3>4, <3>5, AccountKept, WalkKept DEF WalletInvariant, AccountStays
    <2> QED
      BY <2>2, <2>3
  <1> QED
    BY <1>3, <1>4 DEF ReadWallet

LEMMA StartOperationKeeps ==
  ASSUME WalletInvariant, NEW t \in Tellers, NEW op \in Kinds, NEW a \in Amounts,
         StartOperation(t, op, a)
  PROVE  WalletInvariant'
  <1> DEFINE r == [IdleTeller EXCEPT !.pc = "read", !.op = op, !.amount = a]
  <1>1. WalletTypeOK /\ ledger \in Seq(Entry)
    BY DEF WalletInvariant, WalletTypeOK
  <1>2. r \in Teller /\ r.pc = "read" /\ teller' = [teller EXCEPT ![t] = r]
    BY IdleTellerIs DEF Teller, StartOperation
  <1> HIDE DEF r
  <1>3. teller[t].pc = "idle" /\ AccountStays
    BY DEF StartOperation
  <1>4. teller'[t] = r /\ \A s \in Tellers \ {t} : teller'[s] = teller[s]
    BY <1>1, <1>2 DEF WalletTypeOK
  <1>5. WalletTypeOK'
    BY <1>1, <1>2, <1>3 DEF WalletTypeOK, AccountStays
  <1>6. LedgerHasRoom'
    <2>1. Busy' = Busy \cup {t} /\ t \notin Busy
      BY <1>2, <1>3, <1>4 DEF Busy
    <2>2. Busy \in SUBSET Tellers
      BY DEF Busy
    <2>3. IsFiniteSet(Busy) /\ Cardinality(Busy) \in Nat
      BY <2>2, WalletAssumption, FS_Subset, FS_CardinalityType
    <2>4. Cardinality(Busy') = Cardinality(Busy) + 1
      BY <2>1, <2>3, FS_AddElement
    <2>5. Len(ledger) + Cardinality(Busy) < MaxLedger
      BY DEF StartOperation, Busy
    <2>6. Len(ledger) \in Nat /\ MaxLedger \in Nat /\ ledger' = ledger
      BY <1>1, <1>3, WalletAssumption DEF AccountStays
    <2> QED
      BY <2>3, <2>4, <2>5, <2>6 DEF LedgerHasRoom
  <1>7. DebitsAreCovered'
    <2>1. Debits' = Debits
      BY <1>2, <1>3, <1>4 DEF Debits
    <2>2. \A s \in Debits : teller'[s].amount = teller[s].amount
      BY <1>3, <1>4 DEF Debits
    <2>3. wallet'.balance >= wallet.balance
      BY <1>1, <1>3 DEF AccountStays, WalletTypeOK
    <2> QED
      BY <1>1, <1>5, <2>1, <2>2, <2>3, DebitsStay DEF WalletInvariant
  <1> QED
    BY <1>3, <1>5, <1>6, <1>7, AccountKept, WalkKept DEF WalletInvariant, AccountStays

LEMMA ChangedWallet ==
  ASSUME WalletInvariant, NEW t \in Tellers, CommitOperation(t)
  PROVE  LET n == teller[t].amount
         IN  /\ wallet' \in [exists : BOOLEAN, balance : Int, cashback : Int]
             /\ teller[t].op = "credit" =>
                  wallet'.balance = wallet.balance + n /\ wallet'.cashback = wallet.cashback
             /\ teller[t].op = "debit" =>
                  wallet'.balance = wallet.balance - n /\ wallet'.cashback = wallet.cashback
             /\ teller[t].op = "cashback" =>
                  wallet'.balance = wallet.balance /\ wallet'.cashback = wallet.cashback + n
  <1> DEFINE n == teller[t].amount
  <1>1. wallet \in [exists : BOOLEAN, balance : Int, cashback : Int]
    BY DEF WalletInvariant, WalletTypeOK
  <1>2. n \in Int /\ teller[t].op \in Kinds
    <2>1. teller[t].amount \in Amounts /\ teller[t].op \in Kinds
      BY DEF WalletInvariant, WalletTypeOK, Teller
    <2> QED
      BY <2>1, MaxAmountIs
  <1>3. wallet' = Changed(t)
    BY DEF CommitOperation
  <1> HIDE DEF n
  <1>4. CASE teller[t].op = "credit"
    <2>1. wallet' = [wallet EXCEPT !.balance = @ + n]
      BY <1>3, <1>4 DEF Changed, n
    <2> QED
      BY <1>1, <1>2, <1>4, <2>1 DEF n
  <1>5. CASE teller[t].op = "debit"
    <2>1. wallet' = [wallet EXCEPT !.balance = @ - n]
      BY <1>3, <1>5 DEF Changed, n
    <2> QED
      BY <1>1, <1>2, <1>5, <2>1 DEF n
  <1>6. CASE teller[t].op = "cashback"
    <2>1. wallet' = [wallet EXCEPT !.cashback = @ + n]
      BY <1>3, <1>6 DEF Changed, n
    <2> QED
      BY <1>1, <1>2, <1>6, <2>1 DEF n
  <1> QED
    BY <1>2, <1>4, <1>5, <1>6 DEF Kinds

LEMMA CommitOperationKeeps ==
  ASSUME WalletInvariant, NEW t \in Tellers, CommitOperation(t)
  PROVE  WalletInvariant'
  <1> DEFINE n == teller[t].amount
             op == teller[t].op
             e == [type |-> op, amount |-> n]
             r == [IdleTeller EXCEPT !.pc = "ended"]
  <1>1. WalletTypeOK /\ ledger \in Seq(Entry) /\ LedgerExplainsWallet
    BY DEF WalletInvariant, WalletTypeOK
  <1>2. op \in Kinds /\ n \in Amounts /\ teller[t].pc = "commit"
    BY <1>1 DEF WalletTypeOK, Teller, CommitOperation
  <1>3. e \in Entry /\ e.type = op /\ e.amount = n
    BY <1>2 DEF Entry
  <1>4. r \in Teller /\ r.pc = "ended" /\ teller' = [teller EXCEPT ![t] = r]
    BY IdleTellerIs DEF CommitOperation, TellerEnds
  <1>5. ledger' = Append(ledger, e) /\ walk' = walk
    BY DEF CommitOperation
  <1> HIDE DEF e, r
  <1>6. teller'[t] = r /\ \A s \in Tellers \ {t} : teller'[s] = teller[s]
    BY <1>1, <1>4 DEF WalletTypeOK
  <1>7. n \in Nat /\ wallet.balance \in Int /\ wallet.cashback \in Int
    BY <1>1, <1>2, MaxAmountIs DEF WalletTypeOK
  <1>8. WalletTypeOK'
    <2>1. teller' \in [Tellers -> Teller]
      BY <1>1, <1>4 DEF WalletTypeOK
    <2>2. ledger' \in Seq(Entry)
      BY <1>1, <1>3, <1>5
    <2>3. wallet' \in [exists : BOOLEAN, balance : Int, cashback : Int]
      BY ChangedWallet
    <2> QED
      BY <1>1, <1>5, <2>1, <2>2, <2>3 DEF WalletTypeOK
  <1>9. LedgerExplainsWallet'
    <2> DEFINE S(k) == SumOf(ledger, k)
    <2>1. \A k \in Kinds : S(k) \in Int /\ SumOf(ledger', k) = S(k) + Share(e, k)
      BY <1>1, <1>3, <1>5, SumOfAppend
    <2>2. \A k \in Kinds : Share(e, k) = IF op = k THEN n ELSE 0
      BY <1>3 DEF Share
    <2>3. /\ S("credit") \in Int /\ S("debit") \in Int /\ S("cashback") \in Int
          /\ SumOf(ledger', "credit") = S("credit") + IF op = "credit" THEN n ELSE 0
          /\ SumOf(ledger', "debit") = S("debit") + IF op = "debit" THEN n ELSE 0
          /\ SumOf(ledger', "cashback") = S("cashback") + IF op = "cashback" THEN n ELSE 0
      BY <2>1, <2>2 DEF Kinds
    <2>4. wallet.balance = S("credit") - S("debit") /\ wallet.cashback = S("cashback")
      BY <1>1 DEF LedgerExplainsWallet
    <2>5. /\ wallet'.balance = SumOf(ledger', "credit") - SumOf(ledger', "debit")
          /\ wallet'.cashback = SumOf(ledger', "cashback")
      <3> HIDE DEF S
      <3>1. CASE op = "credit"
        BY <1>7, <2>3, <2>4, <3>1, ChangedWallet
      <3>2. CASE op = "debit"
        BY <1>7, <2>3, <2>4, <3>2, ChangedWallet
      <3>3. CASE op = "cashback"
        BY <1>7, <2>3, <2>4, <3>3, ChangedWallet
      <3> QED
        BY <1>2, <3>1, <3>2, <3>3 DEF Kinds
    <2> QED
      BY <2>5 DEF LedgerExplainsWallet
  <1>10. LedgerHasRoom'
    <2>1. Busy' = Busy \ {t} /\ t \in Busy
      BY <1>2, <1>4, <1>6 DEF Busy
    <2>2. Busy \in SUBSET Tellers
      BY DEF Busy
    <2>3. IsFiniteSet(Busy) /\ Cardinality(Busy) \in Nat
      BY <2>2, WalletAssumption, FS_Subset, FS_CardinalityType
    <2>4. Cardinality(Busy') = Cardinality(Busy) - 1
      BY <2>1, <2>3, FS_RemoveElement
    <2>5. Len(ledger') = Len(ledger) + 1 /\ Len(ledger) \in Nat /\ MaxLedger \in Nat
      BY <1>1, <1>3, <1>5, WalletAssumption
    <2> QED
      BY <2>3, <2>4, <2>5 DEF WalletInvariant, LedgerHasRoom
  <1>11. DebitsAreCovered'
    <2>1. \A s \in Tellers \ {t} : s \in Debits' <=> s \in Debits
      BY <1>6 DEF Debits
    <2>2. t \notin Debits' /\ (t \in Debits <=> op = "debit")
      BY <1>2, <1>4, <1>6 DEF Debits
    <2>3. Debits \subseteq Tellers /\ Debits' \subseteq Tellers
      BY DEF Debits
    <2>4. \A s \in Debits \ {t} : teller'[s].amount = teller[s].amount
      BY <1>6, <2>3
    <2>5. CASE op = "debit"
      <3>1. Debits' = Debits \ {t} /\ t \in Debits
        BY <2>1, <2>2, <2>3, <2>5
      <3>2. wallet'.balance = wallet.balance - teller[t].amount
        BY <2>5, ChangedWallet
      <3> QED
        BY <1>1, <1>8, <2>4, <3>1, <3>2, DebitLeaves DEF WalletInvariant
    <2>6. CASE op # "debit"
      <3>1. Debits' = Debits /\ t \notin Debits
        BY <2>1, <2>2, <2>3, <2>6
      <3>2. wallet'.balance >= wallet.balance
        BY <1>2, <1>7, <2>6, ChangedWallet DEF Kinds
      <3> QED
        BY <1>1, <1>8, <2>4, <3>1, <3>2, DebitsStay DEF WalletInvariant
    <2> QED
      BY <2>5, <2>6
  <1>12. WalkDescends'
    <2>1. Len(ledger') = Len(ledger) + 1 /\ Len(ledger) \in Nat
      BY <1>1, <1>3, <1>5
    <2>2. walk.first \in Nat
      BY <1>1, WalletAssumption DEF WalletTypeOK, Walk
    <2>3. walk.first <= Len(ledger) /\ WalkDescends
      BY DEF WalletInvariant, WalkDescends
    <2>4. walk'.first <= Len(ledger')
      BY <1>5, <2>1, <2>2, <2>3
    <2> QED
      BY <1>5, <2>3, <2>4 DEF WalkDescends
  <1> QED
    BY <1>8, <1>9, <1>10, <1>11, <1>12 DEF WalletInvariant

(* What a page holds: the positions from its newest down, as many as the   *)
(* page takes or as there are.                                             *)
CountsDown(s, from) == \A i \in DOMAIN s : s[i] = from - i + 1
PageTop(cursor, n) == IF cursor = 0 THEN n ELSE cursor - 1
PageLength(top) == IF top > PageSize THEN PageSize ELSE top

LEMMA PageIs ==
  ASSUME NEW cursor \in Nat, NEW n \in Nat
  PROVE  LET top == PageTop(cursor, n)
         IN  /\ Page(cursor, n).hasMore = (top > PageSize)
             /\ Page(cursor, n).data \in Seq(1 .. top)
             /\ Len(Page(cursor, n).data) = PageLength(top)
             /\ CountsDown(Page(cursor, n).data, top)
             /\ PageLength(top) > 0 => Last(Page(cursor, n).data) = top - PageLength(top) + 1
  <1> DEFINE top == PageTop(cursor, n)
             size == PageLength(top)
             rows == [k \in 1 .. top |-> top - k + 1]
             data == IF top > PageSize THEN SubSeq(rows, 1, PageSize) ELSE rows
  <1>1. top \in Nat /\ PageSize \in Nat \ {0}
    BY WalletAssumption DEF PageTop
  <1>2. From(cursor, n) = rows
    <2>1. From(cursor, n) = Descending(top, 1)
      BY DEF From, PageTop
    <2>2. top - 1 + 1 = top
      BY <1>1
    <2> QED
      BY <2>1, <2>2 DEF Descending
  <1> HIDE DEF top
  <1>3. rows \in Seq(1 .. top) /\ Len(rows) = top
    <2>1. rows \in [1 .. top -> 1 .. top]
      BY <1>1
    <2> QED
      BY <1>1, <2>1
  <1>4. Page(cursor, n) = [data |-> data, hasMore |-> top > PageSize]
    BY <1>2, <1>3 DEF Page
  <1> USE DEF PageLength
  <1>5. /\ data \in Seq(1 .. top) /\ Len(data) = size
        /\ \A i \in 1 .. size : data[i] = top - i + 1
    <2>1. CASE top > PageSize
      <3>1. /\ SubSeq(rows, 1, PageSize) \in Seq(1 .. top)
            /\ Len(SubSeq(rows, 1, PageSize)) = PageSize
            /\ \A i \in 1 .. PageSize : SubSeq(rows, 1, PageSize)[i] = rows[1 + i - 1]
        BY <1>1, <1>3, <2>1, SubSeqProperties
      <3>2. \A i \in 1 .. PageSize : rows[1 + i - 1] = top - i + 1
        BY <1>1, <2>1
      <3> QED
        BY <2>1, <3>1, <3>2
    <2>2. CASE ~ (top > PageSize)
      BY <1>3, <2>2
    <2> QED
      BY <2>1, <2>2
  <1>6. size \in Nat
    BY <1>1
  <1>8. CountsDown(data, top)
    BY <1>5, <1>6 DEF CountsDown
  <1> HIDE DEF data, size
  <1>7. size > 0 => Last(data) = top - size + 1
    <2>1. Last(data) = data[Len(data)]
      BY DEF Last
    <2> QED
      BY <1>5, <1>6, <2>1
  <1> QED
    BY <1>4, <1>5, <1>7, <1>8 DEF top, size

LEMMA ClientStep ==
  ASSUME WalletInvariant, UNCHANGED <<wallet, ledger, teller>>, walk' \in Walk, WalkDescends'
  PROVE  WalletInvariant'
  <1>1. WalletTypeOK'
    BY DEF WalletInvariant, WalletTypeOK
  <1>2. LedgerHasRoom'
    BY DEF WalletInvariant, LedgerHasRoom, Busy
  <1>3. DebitsAreCovered'
    BY DEF WalletInvariant, DebitsAreCovered, Debits, Floor
  <1> QED
    BY <1>1, <1>2, <1>3, AccountKept DEF WalletInvariant

LEMMA LedgerFits ==
  ASSUME WalletInvariant
  PROVE  Len(ledger) \in 0 .. MaxLedger
  <1>1. Busy \in SUBSET Tellers
    BY DEF Busy
  <1>2. Cardinality(Busy) \in Nat
    BY <1>1, WalletAssumption, FS_Subset, FS_CardinalityType
  <1>3. Len(ledger) \in Nat /\ MaxLedger \in Nat
    BY WalletAssumption DEF WalletInvariant, WalletTypeOK
  <1> QED
    BY <1>2, <1>3 DEF WalletInvariant, LedgerHasRoom

LEMMA StartAndEndWalkKeep ==
  ASSUME WalletInvariant, StartWalk \/ EndWalk
  PROVE  WalletInvariant'
  <1>1. Len(ledger) \in 0 .. MaxLedger /\ 0 \in 0 .. MaxLedger /\ 0 \in 0 .. MaxLedger + 1
    BY LedgerFits, WalletAssumption
  <1>2. \E b \in BOOLEAN, f \in {0, Len(ledger)} :
          walk' = [on |-> b, cursor |-> 0, first |-> f, got |-> <<>>, over |-> FALSE]
    BY DEF StartWalk, EndWalk, NoWalk
  <1>3. PICK b \in BOOLEAN, f \in {0, Len(ledger)} :
          walk' = [on |-> b, cursor |-> 0, first |-> f, got |-> <<>>, over |-> FALSE]
    BY <1>2
  <1>4. UNCHANGED <<wallet, ledger, teller>>
    BY DEF StartWalk, EndWalk
  <1>5. walk' \in Walk
    BY <1>1, <1>3 DEF Walk
  <1>6. WalkDescends'
    BY <1>1, <1>3, <1>4 DEF WalkDescends
  <1> QED
    BY <1>4, <1>5, <1>6, ClientStep

(* A walk that has come down without a gap goes on without one.            *)
LEMMA WalkGoesOn ==
  ASSUME NEW S \in SUBSET Nat, NEW g \in Seq(S), NEW d \in Seq(S), NEW top \in Nat,
         CountsDown(g, g[1]), g # <<>> => top = g[1] - Len(g), CountsDown(d, top)
  PROVE  /\ g \o d \in Seq(S) /\ Len(g \o d) = Len(g) + Len(d)
         /\ CountsDown(g \o d, (g \o d)[1])
         /\ g # <<>> => g \o d # <<>> /\ (g \o d)[1] = g[1]
         /\ g = <<>> /\ d # <<>> => (g \o d)[1] = top
         /\ d # <<>> => g \o d # <<>> /\ (g \o d)[Len(g \o d)] = top - Len(d) + 1
         /\ d = <<>> => g \o d = g
  <1>0. PICK h : h = g \o d
    OBVIOUS
  <1>1. PICK m \in Nat : m = Len(g)
    OBVIOUS
  <1>2. PICK k \in Nat : k = Len(d)
    OBVIOUS
  <1>3. /\ h \in Seq(S) /\ Len(h) = m + k /\ DOMAIN h = 1 .. m + k
        /\ \A i \in 1 .. m + k : h[i] = IF i <= m THEN g[i] ELSE d[i - m]
    BY <1>0, <1>1, <1>2, ConcatProperties, LenProperties
  <1>4. d = <<>> => h = g
    BY <1>0, ConcatEmptySeq
  <1>5. (g = <<>> <=> m = 0) /\ (d = <<>> <=> k = 0)
    BY <1>1, <1>2
  <1>6. h = <<>> <=> m + k = 0
    BY <1>1, <1>2, <1>3
  <1>7. m > 0 => g[1] \in Nat
    <2> SUFFICES ASSUME m > 0 PROVE g[1] \in Nat
      OBVIOUS
    <2>1. g[1] \in S
      BY <1>1, ElementOfSeq
    <2> QED
      BY <2>1
  <1>8. /\ \A i \in 1 .. m : g[i] = g[1] - i + 1
        /\ m > 0 => top = g[1] - m
        /\ \A i \in 1 .. k : d[i] = top - i + 1
    <2>1. DOMAIN g = 1 .. m /\ DOMAIN d = 1 .. k
      BY <1>1, <1>2, LenProperties
    <2>2. \A i \in 1 .. m : g[i] = g[1] - i + 1
      BY <2>1 DEF CountsDown
    <2>3. \A i \in 1 .. k : d[i] = top - i + 1
      BY <2>1 DEF CountsDown
    <2>4. m > 0 => top = g[1] - m
      BY <1>1, <1>5
    <2> QED
      BY <2>2, <2>3, <2>4
  <1>9. m > 0 => h[1] = g[1]
    BY <1>3
  <1>10. m = 0 /\ k > 0 => h[1] = top
    <2> SUFFICES ASSUME m = 0, k > 0 PROVE h[1] = top
      OBVIOUS
    <2>1. 1 \in 1 .. m + k /\ ~ (1 <= m) /\ 1 - m = 1 /\ 1 \in 1 .. k
      OBVIOUS
    <2>2. h[1] = d[1]
      BY <1>3, <2>1
    <2>3. d[1] = top - 1 + 1
      BY <1>8, <2>1
    <2> QED
      BY <2>2, <2>3
  <1>11. ASSUME NEW i \in 1 .. m + k PROVE h[i] = h[1] - i + 1
    <2>1. CASE i <= m
      <3>1. i \in 1 .. m /\ m > 0
        BY <2>1
      <3>2. h[i] = g[i] /\ g[i] = g[1] - i + 1 /\ h[1] = g[1]
        BY <1>3, <1>8, <1>9, <2>1, <3>1
      <3> QED
        BY <3>2
    <2>2. CASE m < i /\ m > 0
      <3>0. ~ (i <= m) /\ i - m \in 1 .. k
        BY <2>2
      <3>1. h[i] = d[i - m] /\ i - m \in 1 .. k
        BY <1>3, <3>0
      <3>2. d[i - m] = top - (i - m) + 1
        BY <1>8, <3>1
      <3>3. top = g[1] - m /\ g[1] \in Nat /\ h[1] = g[1]
        BY <1>7, <1>8, <1>9, <2>2
      <3>4. top - (i - m) + 1 = g[1] - i + 1
        BY <3>3
      <3> QED
        BY <3>1, <3>2, <3>3, <3>4
    <2>3. CASE m < i /\ m = 0
      <3>0. ~ (i <= m) /\ i - m = i /\ i \in 1 .. k /\ k > 0
        BY <2>3
      <3>1. h[i] = d[i] /\ i \in 1 .. k /\ k > 0
        BY <1>3, <3>0
      <3> QED
        BY <1>8, <1>10, <2>3, <3>1
    <2>4. i <= m \/ (m < i /\ m > 0) \/ (m < i /\ m = 0)
      OBVIOUS
    <2> QED
      BY <2>1, <2>2, <2>3, <2>4
  <1>12. k > 0 => h[m + k] = top - k + 1
    <2> SUFFICES ASSUME k > 0 PROVE h[m + k] = top - k + 1
      OBVIOUS
    <2>1. m + k \in 1 .. m + k /\ ~ (m + k <= m) /\ (m + k) - m = k
      OBVIOUS
    <2>2. h[m + k] = d[(m + k) - m]
      BY <1>3, <2>1
    <2>3. h[m + k] = d[k]
      BY <2>1, <2>2
    <2> QED
      BY <1>8, <2>3
  <1>13. k > 0 => m + k # 0
    OBVIOUS
  <1>14. m > 0 => m + k # 0
    OBVIOUS
  <1>15. m > 0 \/ m = 0
    OBVIOUS
  <1>16. k > 0 \/ k = 0
    OBVIOUS
  <1>17. CountsDown(h, h[1])
    BY <1>3, <1>11 DEF CountsDown
  <1>18. Len(h) = Len(g) + Len(d) /\ Len(h) = m + k
    BY <1>1, <1>2, <1>3
  <1>19. d # <<>> => h # <<>> /\ h[Len(h)] = top - Len(d) + 1
    BY <1>2, <1>5, <1>6, <1>12, <1>13, <1>16, <1>18
  <1>20. g # <<>> => h # <<>> /\ h[1] = g[1]
    BY <1>5, <1>6, <1>9, <1>14, <1>15
  <1>21. g = <<>> /\ d # <<>> => h[1] = top
    BY <1>5, <1>10, <1>16
  <1> QED
    BY <1>0, <1>3, <1>4, <1>17, <1>18, <1>19, <1>20, <1>21

LEMMA NextPageKeeps ==
  ASSUME WalletInvariant, NextPage
  PROVE  WalletInvariant'
  <1> DEFINE g == walk.got
             page == Page(walk.cursor, Len(ledger))
             d == page.data
             h == g \o d
  <1>1. PICK n \in Nat : n = Len(ledger)
    BY LedgerFits, WalletAssumption
  <1>2. PICK top \in Nat : top = PageTop(walk.cursor, n)
    <2>1. walk.cursor \in 0 .. MaxLedger + 1 /\ MaxLedger \in Nat
      BY WalletAssumption DEF WalletInvariant, WalletTypeOK, Walk
    <2>2. walk.cursor # 0 => walk.cursor - 1 \in Nat
      BY <2>1
    <2> QED
      BY <2>2 DEF PageTop
  <1>3. PICK size \in Nat : size = PageLength(top)
    BY WalletAssumption DEF PageLength
  <1>4. /\ walk \in Walk /\ ~ walk.over /\ n <= MaxLedger /\ MaxLedger \in Nat
        /\ PageSize \in Nat \ {0}
    BY <1>1, LedgerFits, WalletAssumption DEF WalletInvariant, WalletTypeOK, NextPage
  <1>5. /\ g \in Seq(1 .. MaxLedger)
        /\ walk.cursor \in 0 .. MaxLedger + 1 /\ walk.first \in 0 .. MaxLedger
    BY <1>4 DEF Walk
  <1>6. /\ walk.first <= n
        /\ CountsDown(g, g[1])
        /\ g # <<>> => g[1] >= walk.first /\ walk.cursor > 1 /\ walk.cursor = g[Len(g)]
        /\ g = <<>> => walk.cursor = 0
    BY <1>1, <1>4, <1>5 DEF WalletInvariant, WalkDescends, CountsDown
  <1>7. top <= MaxLedger /\ size <= top /\ size <= PageSize
    BY <1>2, <1>3, <1>4, <1>5, <1>6 DEF PageTop, PageLength
  <1>8. /\ page.hasMore = (top > PageSize)
        /\ d \in Seq(1 .. top) /\ Len(d) = size
        /\ CountsDown(d, top)
        /\ size > 0 => Last(d) = top - size + 1
    <2>1. walk.cursor \in Nat /\ n \in Nat
      BY <1>5
    <2>2. page = Page(walk.cursor, n)
      BY <1>1
    <2> HIDE DEF page
    <2> QED
      BY <1>2, <1>3, <2>1, <2>2, PageIs
  <1>9. /\ UNCHANGED <<wallet, ledger, teller>>
        /\ walk'.got = h /\ walk'.first = walk.first /\ walk'.on = walk.on
        /\ walk'.over = ~ page.hasMore
        /\ walk'.cursor = IF page.hasMore THEN Last(d) ELSE walk.cursor
        /\ walk' = [on |-> walk'.on, cursor |-> walk'.cursor, first |-> walk'.first,
                    got |-> walk'.got, over |-> walk'.over]
    BY <1>4 DEF NextPage, Walk
  <1> HIDE DEF page, d
  <1>10. d \in Seq(1 .. MaxLedger)
    <2>1. 1 .. top \subseteq 1 .. MaxLedger
      BY <1>4, <1>7
    <2> QED
      BY <1>8, <2>1, SeqMonotonic
  <1>11. g # <<>> => top = g[1] - Len(g)
    <2> SUFFICES ASSUME g # <<>> PROVE top = g[1] - Len(g)
      OBVIOUS
    <2>1. PICK m \in Nat : m = Len(g) /\ m >= 1
      BY <1>5
    <2>2. g[1] \in 1 .. MaxLedger
      <3>1. 1 \in 1 .. Len(g)
        BY <2>1
      <3> HIDE DEF g
      <3> QED
        BY <1>5, <3>1, ElementOfSeq
    <2>3. g[m] = g[1] - m + 1
      <3>1. m \in DOMAIN g
        BY <1>5, <2>1, LenProperties
      <3> QED
        BY <1>6, <3>1 DEF CountsDown
    <2>4. top = walk.cursor - 1 /\ walk.cursor = g[m]
      BY <1>2, <1>6, <2>1 DEF PageTop
    <2> QED
      BY <2>1, <2>2, <2>3, <2>4
  <1> HIDE DEF g
  <1>12. /\ h \in Seq(1 .. MaxLedger) /\ Len(h) = Len(g) + size
         /\ CountsDown(h, h[1])
         /\ g # <<>> => h # <<>> /\ h[1] = g[1]
         /\ g = <<>> /\ d # <<>> => h[1] = top
         /\ d # <<>> => h # <<>> /\ h[Len(h)] = top - size + 1
         /\ d = <<>> => h = g
    <2>1. CountsDown(d, top)
      BY <1>8
    <2>2. g \in Seq(1 .. MaxLedger) /\ CountsDown(g, g[1])
      BY <1>5, <1>6 DEF g
    <2>3. PICK S \in SUBSET Nat : S = 1 .. MaxLedger
      BY <1>4
    <2>4. d \in Seq(S) /\ g \in Seq(S) /\ top \in Nat
      BY <1>10, <2>2, <2>3
    <2>5. /\ h \in Seq(S) /\ Len(h) = Len(g) + Len(d)
          /\ CountsDown(h, h[1])
          /\ g # <<>> => h # <<>> /\ h[1] = g[1]
          /\ g = <<>> /\ d # <<>> => h[1] = top
          /\ d # <<>> => h # <<>> /\ h[Len(h)] = top - Len(d) + 1
          /\ d = <<>> => h = g
      BY <1>11, <2>1, <2>2, <2>4, WalkGoesOn
    <2> QED
      BY <1>8, <2>3, <2>5
  <1>13. d = <<>> <=> size = 0
    BY <1>8
  <1> HIDE DEF h
  <1>14. g = <<>> => top = n
    BY <1>2, <1>6 DEF PageTop
  <1>15. h # <<>> => h[1] >= walk.first
    <2>1. CASE g # <<>>
      BY <1>6, <1>12, <2>1
    <2>2. CASE g = <<>> /\ d # <<>>
      BY <1>6, <1>12, <1>14, <2>2
    <2>3. CASE g = <<>> /\ d = <<>>
      BY <1>12, <2>3
    <2> QED
      BY <2>1, <2>2, <2>3
  <1>16. page.hasMore => /\ walk'.cursor > 1 /\ walk'.cursor <= MaxLedger + 1
                         /\ walk'.cursor \in Nat
                         /\ h # <<>> /\ walk'.cursor = h[Len(h)]
    <2> SUFFICES ASSUME page.hasMore
                 PROVE  /\ walk'.cursor > 1 /\ walk'.cursor <= MaxLedger + 1
                        /\ walk'.cursor \in Nat
                        /\ h # <<>> /\ walk'.cursor = h[Len(h)]
      OBVIOUS
    <2>1. top > PageSize
      BY <1>8
    <2>2. size = PageSize /\ size > 0
      BY <1>3, <1>4, <2>1 DEF PageLength
    <2>3. walk'.cursor = top - size + 1
      BY <1>8, <1>9, <2>2
    <2>4. h # <<>> /\ h[Len(h)] = top - size + 1
      BY <1>12, <1>13, <2>2
    <2> QED
      BY <1>4, <1>7, <2>1, <2>2, <2>3, <2>4
  <1>17. ~ page.hasMore => /\ walk'.cursor = walk.cursor
                           /\ h = <<>> => walk.first = 0
                           /\ h # <<>> => h[Len(h)] = 1
    <2> SUFFICES ASSUME ~ page.hasMore
                 PROVE  /\ walk'.cursor = walk.cursor
                        /\ h = <<>> => walk.first = 0
                        /\ h # <<>> => h[Len(h)] = 1
      OBVIOUS
    <2>1. size = top /\ walk'.cursor = walk.cursor
      BY <1>3, <1>8, <1>9 DEF PageLength
    <2>2. g # <<>> => top > 0
      BY <1>2, <1>5, <1>6 DEF PageTop
    <2>3. CASE d # <<>>
      BY <1>12, <2>1, <2>3
    <2>4. CASE d = <<>>
      <3>1. size = 0 /\ g = <<>> /\ h = <<>> /\ n = 0
        BY <1>12, <1>13, <1>14, <2>1, <2>2, <2>4
      <3> QED
        BY <1>5, <1>6, <2>1, <3>1
    <2> QED
      BY <2>3, <2>4
  <1>18. walk' \in Walk
    <2>1. walk'.cursor \in 0 .. MaxLedger + 1
      BY <1>4, <1>5, <1>16, <1>17
    <2>2. walk'.over \in BOOLEAN /\ walk'.on \in BOOLEAN
      BY <1>4, <1>9 DEF Walk
    <2> QED
      BY <1>5, <1>9, <1>12, <2>1, <2>2 DEF Walk
  <1>19. WalkDescends'
    <2>1. walk'.first <= Len(ledger')
      BY <1>1, <1>6, <1>9
    <2>2. CASE page.hasMore
      BY <1>9, <1>12, <1>15, <1>16, <2>1, <2>2 DEF WalkDescends, CountsDown
    <2>3. CASE ~ page.hasMore
      BY <1>9, <1>12, <1>15, <1>17, <2>1, <2>3 DEF WalkDescends, CountsDown
    <2> QED
      BY <2>2, <2>3
  <1> QED
    BY <1>9, <1>18, <1>19, ClientStep

LEMMA WalletStep == WalletInvariant /\ [WalletNext]_walletVars => WalletInvariant'
  <1> SUFFICES ASSUME WalletInvariant, [WalletNext]_walletVars PROVE WalletInvariant'
    OBVIOUS
  <1>1. CASE UNCHANGED walletVars
    <2>1. walk' \in Walk /\ UNCHANGED <<wallet, ledger, teller, walk>>
      BY <1>1 DEF walletVars, WalletInvariant, WalletTypeOK
    <2> QED
      BY <2>1, ClientStep, WalkKept
  <1>2. CASE GetWallet
    <2>1. /\ UNCHANGED <<ledger, teller, walk>> /\ wallet'.balance = wallet.balance
          /\ wallet'.cashback = wallet.cashback
          /\ wallet' \in [exists : BOOLEAN, balance : Int, cashback : Int]
      BY <1>2 DEF GetWallet, WalletInvariant, WalletTypeOK
    <2>2. WalletTypeOK'
      BY <2>1 DEF WalletInvariant, WalletTypeOK
    <2>3. LedgerExplainsWallet'
      BY <2>1 DEF WalletInvariant, LedgerExplainsWallet
    <2>4. LedgerHasRoom'
      BY <2>1 DEF WalletInvariant, LedgerHasRoom, Busy
    <2>5. DebitsAreCovered'
      BY <2>1 DEF WalletInvariant, DebitsAreCovered, Debits, Floor
    <2> QED
      BY <2>1, <2>2, <2>3, <2>4, <2>5, WalkKept DEF WalletInvariant
  <1>3. ASSUME NEW t \in Tellers, NEW op \in Kinds, NEW a \in Amounts, StartOperation(t, op, a)
        PROVE  WalletInvariant'
    BY <1>3, StartOperationKeeps
  <1>4. ASSUME NEW t \in Tellers, ReadWallet(t) PROVE WalletInvariant'
    BY <1>4, ReadWalletKeeps
  <1>5. ASSUME NEW t \in Tellers, UpdateWallet(t) PROVE WalletInvariant'
    BY <1>5, UpdateWalletKeeps
  <1>6. ASSUME NEW t \in Tellers, CommitOperation(t) PROVE WalletInvariant'
    BY <1>6, CommitOperationKeeps
  <1>7. ASSUME NEW t \in Tellers, OperationFails(t) \/ TellerReturns(t) PROVE WalletInvariant'
    BY <1>7, EndsKeep DEF OperationFails, TellerReturns
  <1>8. CASE StartWalk \/ EndWalk
    BY <1>8, StartAndEndWalkKeep
  <1>9. CASE NextPage
    BY <1>9, NextPageKeeps
  <1> QED
    BY <1>1, <1>2, <1>3, <1>4, <1>5, <1>6, <1>7, <1>8, <1>9 DEF WalletNext

LEMMA WalletInductive == WalletSpec => []WalletInvariant
  BY InitWallet, WalletStep, PTL DEF WalletSpec

(* Every value of the wallet's variables is of its type.                   *)
THEOREM WalletTypeCorrect == WalletSpec => []WalletTypeOK
  <1>1. WalletInvariant => WalletTypeOK
    BY DEF WalletInvariant
  <1> QED
    BY <1>1, WalletInductive, PTL

(* The audit trail of wallet.repository: balance and cashback are the sums *)
(* of the recorded transactions.                                           *)
THEOREM LedgerCorrect == WalletSpec => []LedgerExplainsWallet
  <1>1. WalletInvariant => LedgerExplainsWallet
    BY DEF WalletInvariant
  <1> QED
    BY <1>1, WalletInductive, PTL

(* deductBalance overdraws the wallet by at most the debits that overlap,  *)
(* less one.                                                               *)
THEOREM OverdraftCorrect == WalletSpec => []OverdraftIsBounded
  <1>1. WalletInvariant => OverdraftIsBounded
    BY BoundFollows DEF WalletInvariant
  <1> QED
    BY <1>1, WalletInductive, PTL

LEMMA WalkFollows ==
  ASSUME WalletInvariant
  PROVE  WalkIsComplete
  <1> DEFINE g == walk.got
  <1>1. walk \in Walk /\ g \in Seq(1 .. MaxLedger) /\ walk.first \in Nat
    BY WalletAssumption DEF WalletInvariant, WalletTypeOK, Walk
  <1>2. PICK m \in Nat : m = Len(g) /\ DOMAIN g = 1 .. m
    BY <1>1
  <1>3. /\ \A i \in DOMAIN g : g[i] = g[1] - i + 1
        /\ g # <<>> => g[1] >= walk.first
        /\ walk.over /\ g = <<>> => walk.first = 0
        /\ walk.over /\ g # <<>> => g[Len(g)] = 1
    BY DEF WalletInvariant, WalkDescends
  <1>4. SUFFICES ASSUME walk.over PROVE WalkIsComplete
    BY DEF WalkIsComplete
  <1>5. \A i \in 1 .. m : g[i] \in Nat
    <2>1. \A i \in 1 .. Len(g) : g[i] \in 1 .. MaxLedger
      BY <1>1, ElementOfSeq
    <2>2. 1 .. MaxLedger \subseteq Nat
      BY WalletAssumption
    <2> QED
      BY <1>2, <2>1, <2>2
  <1>6. ASSUME NEW i \in 1 .. m, NEW j \in 1 .. m, i < j PROVE g[i] > g[j]
    <2>1. 1 \in 1 .. m
      OBVIOUS
    <2>2. g[1] \in Nat /\ g[i] = g[1] - i + 1 /\ g[j] = g[1] - j + 1
      BY <1>2, <1>3, <1>5, <2>1
    <2> QED
      BY <1>6, <2>2
  <1>7. ASSUME NEW k \in 1 .. walk.first PROVE \E i \in 1 .. m : g[i] = k
    <2>1. g # <<>>
      BY <1>1, <1>3, <1>4, <1>7
    <2>2. m >= 1
      BY <1>1, <1>2, <2>1
    <2>3. 1 \in 1 .. m /\ m \in 1 .. m
      BY <2>2
    <2>4. g[1] \in Nat /\ g[1] >= walk.first /\ g[1] - m + 1 = 1
      BY <1>2, <1>3, <1>4, <1>5, <2>1, <2>3
    <2>5. g[1] - k + 1 \in 1 .. m
      <3>1. g[1] = m /\ k <= g[1] /\ k >= 1 /\ k \in Int
        BY <1>1, <2>4
      <3> QED
        BY <2>4, <3>1
    <2>6. g[g[1] - k + 1] = g[1] - (g[1] - k + 1) + 1
      BY <1>2, <1>3, <2>5
    <2>7. g[g[1] - k + 1] = k
      BY <2>4, <2>6
    <2> QED
      BY <2>5, <2>7
  <1> QED
    BY <1>2, <1>6, <1>7 DEF WalkIsComplete

(* A walk over getTransactions from page to page gets every transaction    *)
(* there was when it began once and in order.                              *)
THEOREM WalkCorrect == WalletSpec => []WalkIsComplete
  BY WalletInductive, WalkFollows, PTL
=============================================================================
