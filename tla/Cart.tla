-------------------------------- MODULE Cart --------------------------------
(***************************************************************************)
(* The cart of one customer: cart.service addItem, updateItem, removeItem  *)
(* and clearCart, statement by statement, as requests that may overlap (a  *)
(* double click, two tabs).  The transactions of addItem and updateItem    *)
(* read the item and then write it; at READ COMMITTED nothing keeps two of *)
(* them from reading the same quantity.                                    *)
(*                                                                         *)
(* An item's identity matters: one that was removed and added again is not *)
(* the row a request has found before.                                     *)
(***************************************************************************)
EXTENDS Naturals

CONSTANTS
  Tabs,          \* requests of the customer in progress at the same time
  Offers,        \* products
  CartMax,       \* MAX_QUANTITY
  MaxAsked       \* bound: quantity a request asks for

ASSUME CartAssumption == CartMax \in Nat \ {0} /\ MaxAsked \in Nat /\ Offers # {}

VARIABLES
  offer,         \* Product: stock, isActive
  peak,          \* history: the largest stock each product has had
  hasCart,       \* the Cart row exists
  quantity,      \* CartItem.quantity, 0 where there is no item
  tab            \* what each request is doing

cartVars == <<offer, peak, hasCart, quantity, tab>>
cartTables == <<offer, peak, hasCart, quantity>>

TabPcs == {"idle", "ensure", "product", "cart", "item", "txItem", "txProduct",
           "write", "remove", "delete", "clear", "ended"}

(* found: what became of the item the request has read - there was none,   *)
(* it is still that row, or that row has been deleted since.               *)
Tab == [pc : TabPcs, op : {"add", "update", "remove", "clear"},
        offer : Offers, asked : 0 .. MaxAsked, found : {"none", "row", "gone"},
        read : 0 .. CartMax, total : 0 .. CartMax + MaxAsked, alone : BOOLEAN]

IdleTab == [pc |-> "idle", op |-> "clear", offer |-> CHOOSE p \in Offers : TRUE,
            asked |-> 0, found |-> "none", read |-> 0, total |-> 0, alone |-> FALSE]

CartTypeOK ==
  /\ offer \in [Offers -> [stock : Nat, active : BOOLEAN]]
  /\ peak \in [Offers -> Nat]
  /\ hasCart \in BOOLEAN
  /\ quantity \in [Offers -> 0 .. CartMax]
  /\ tab \in [Tabs -> Tab]

CartInit ==
  /\ offer \in [Offers -> [stock : 0 .. CartMax, active : {TRUE}]]
  /\ peak = [p \in Offers |-> offer[p].stock]
  /\ hasCart = FALSE
  /\ quantity = [p \in Offers |-> 0]
  /\ tab = [t \in Tabs |-> IdleTab]

TabGoes(t, pc) == tab' = [tab EXCEPT ![t].pc = pc] /\ UNCHANGED cartTables
End(t) == tab' = [tab EXCEPT ![t] = [IdleTab EXCEPT !.pc = "ended"]]
Refuse(t) == End(t) /\ UNCHANGED cartTables

(* A condition that leads on, or to an exception.                          *)
Check(t, condition, pc) ==
  \/ condition /\ TabGoes(t, pc)
  \/ ~ condition /\ Refuse(t)

StartTab(t, op, p, n) ==
  /\ tab[t].pc = "idle"
  /\ tab' = [s \in Tabs |->
       IF s = t THEN [IdleTab EXCEPT !.op = op, !.offer = p, !.asked = n,
                        !.alone = \A x \in Tabs \ {t} : tab[x].pc = "idle",
                        !.pc = CASE op = "add" -> "ensure" [] op = "update" -> "cart"
                                 [] op = "remove" -> "remove" [] OTHER -> "clear"]
       ELSE [tab[s] EXCEPT !.alone = FALSE]]
  /\ UNCHANGED cartTables

-----------------------------------------------------------------------------
(* addItem starts with ensureCart, an upsert; updateItem needs the cart    *)
(* and the item to exist, and with quantity 0 becomes removeItem.          *)

EnsureCart(t) ==
  /\ tab[t].pc = "ensure"
  /\ hasCart' = TRUE
  /\ tab' = [tab EXCEPT ![t].pc = "product"]
  /\ UNCHANGED <<offer, peak, quantity>>

FindCart(t) ==
  /\ tab[t].pc = "cart"
  /\ Check(t, hasCart, "item")

FindItem(t) ==
  /\ tab[t].pc = "item"
  /\ Check(t, quantity[tab[t].offer] > 0, IF tab[t].asked = 0 THEN "remove" ELSE "product")

FindProduct(t) ==
  /\ tab[t].pc = "product"
  /\ Check(t, offer[tab[t].offer].active /\ tab[t].asked <= CartMax, "txItem")

-----------------------------------------------------------------------------
(* The transactions.  For add the new quantity is what was read plus what  *)
(* is asked for; for update it is what is asked for.                       *)

(* Mutant: the quantity in the cart is not added.                          *)
ForgetsQuantity(t) ==
  LET n == quantity[tab[t].offer]
  IN  /\ tab[t].pc = "txItem"
      /\ tab' = [tab EXCEPT ![t].pc = "txProduct", ![t].read = n,
                            ![t].found = IF n = 0 THEN "none" ELSE "row",
                            ![t].total = tab[t].asked]
      /\ UNCHANGED cartTables

ReadItem(t) ==
  LET n == quantity[tab[t].offer]
  IN  /\ tab[t].pc = "txItem"
      /\ \/ /\ tab[t].op = "update" /\ n = 0
            /\ Refuse(t)
         \/ /\ tab[t].op = "add" \/ n > 0
            /\ tab' = [tab EXCEPT ![t].pc = "txProduct", ![t].read = n,
                         ![t].found = IF n = 0 THEN "none" ELSE "row",
                         ![t].total = IF tab[t].op = "add" THEN n + tab[t].asked ELSE tab[t].asked]
            /\ UNCHANGED cartTables

CheckQuantity(t) ==
  /\ tab[t].pc = "txProduct"
  /\ Check(t, /\ offer[tab[t].offer].active
              /\ tab[t].total <= offer[tab[t].offer].stock
              /\ tab[t].total <= CartMax, "write")

(* update by id fails on a row that is gone, create on a row that another  *)
(* request has created: (cartId, productId) is unique.                     *)
RowFits(t) ==
  LET n == quantity[tab[t].offer]
  IN  \/ tab[t].found = "none" /\ n = 0
      \/ tab[t].found = "row"

(* Mutant: the row is incremented by what the request asks for.            *)
WriteIncrements(t) ==
  /\ tab[t].pc = "write"
  /\ RowFits(t)
  /\ quantity' = [quantity EXCEPT ![tab[t].offer] =
                    IF tab[t].op = "add" THEN @ + tab[t].asked ELSE tab[t].asked]
  /\ End(t)
  /\ UNCHANGED <<offer, peak, hasCart>>

WriteItem(t) ==
  /\ tab[t].pc = "write"
  /\ \/ /\ RowFits(t)
        /\ quantity' = [quantity EXCEPT ![tab[t].offer] = tab[t].total]
        /\ End(t)
        /\ UNCHANGED <<offer, peak, hasCart>>
     \/ ~ RowFits(t) /\ Refuse(t)

-----------------------------------------------------------------------------
(* removeItem and clearCart.  A row that is deleted is gone for everyone   *)
(* who had found it.                                                       *)

Delete(t, ps) ==
  /\ quantity' = [p \in Offers |-> IF p \in ps THEN 0 ELSE quantity[p]]
  /\ tab' = [s \in Tabs |->
       IF s = t THEN [IdleTab EXCEPT !.pc = "ended"]
       ELSE IF tab[s].offer \in ps /\ tab[s].found = "row" /\ tab[s].pc # "idle"
            THEN [tab[s] EXCEPT !.found = "gone"]
       ELSE tab[s]]
  /\ UNCHANGED <<offer, peak, hasCart>>

FindItemToRemove(t) ==
  /\ tab[t].pc = "remove"
  /\ \/ /\ quantity[tab[t].offer] > 0
        /\ tab' = [tab EXCEPT ![t].pc = "delete", ![t].found = "row"]
        /\ UNCHANGED cartTables
     \/ quantity[tab[t].offer] = 0 /\ Refuse(t)

DeleteItem(t) ==
  /\ tab[t].pc = "delete"
  /\ \/ tab[t].found = "row" /\ Delete(t, {tab[t].offer})
     \/ tab[t].found = "gone" /\ Refuse(t)

ClearCart(t) ==
  /\ tab[t].pc = "clear"
  /\ Delete(t, Offers)

-----------------------------------------------------------------------------
OfferChanges(p, n, a) ==
  /\ offer' = [offer EXCEPT ![p] = [stock |-> n, active |-> a]]
  /\ peak' = [peak EXCEPT ![p] = IF n > @ THEN n ELSE @]
  /\ UNCHANGED <<hasCart, quantity, tab>>

TabFails(t) == tab[t].pc \notin {"idle", "ended"} /\ Refuse(t)

TabReturns(t) ==
  /\ tab[t].pc = "ended"
  /\ tab' = [tab EXCEPT ![t] = IdleTab]
  /\ UNCHANGED cartTables

CartNext ==
  \/ \E t \in Tabs :
       \/ \E p \in Offers, n \in 1 .. MaxAsked : StartTab(t, "add", p, n)
       \/ \E p \in Offers, n \in 0 .. MaxAsked : StartTab(t, "update", p, n)
       \/ \E p \in Offers, op \in {"remove", "clear"} : StartTab(t, op, p, 0)
       \/ EnsureCart(t) \/ FindCart(t) \/ FindItem(t) \/ FindProduct(t)
       \/ ReadItem(t) \/ CheckQuantity(t) \/ WriteItem(t)
       \/ FindItemToRemove(t) \/ DeleteItem(t) \/ ClearCart(t)
       \/ TabFails(t) \/ TabReturns(t)
  \/ \E p \in Offers, n \in 0 .. CartMax, a \in BOOLEAN : OfferChanges(p, n, a)

CartSpec == CartInit /\ [][CartNext]_cartVars

-----------------------------------------------------------------------------
(* Properties.                                                             *)

(* However requests overlap, no item exceeds MAX_QUANTITY, nor every stock *)
(* the product has had: each write is the sum that was checked, not an     *)
(* increment of a row that may have changed since.                         *)
QuantityWasAllowed ==
  \A p \in Offers : quantity[p] <= CartMax /\ quantity[p] <= peak[p]

(* An addition is only ever lost to another request: one that ran alone    *)
(* leaves the quantity it found plus the quantity asked for.               *)
LoneAddAdds ==
  [][\A t \in Tabs :
       (tab[t].pc = "write" /\ tab[t].op = "add" /\ tab[t].alone /\ quantity' # quantity) =>
         quantity'[tab[t].offer] = quantity[tab[t].offer] + tab[t].asked]_cartVars
=============================================================================
