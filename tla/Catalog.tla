------------------------------ MODULE Catalog ------------------------------
(***************************************************************************)
(* One product and the requests about it: products.repository create,      *)
(* update and validateActivationInventory, products.service delete and     *)
(* admin.service deleteProduct, generateDemoData and clearDemoData (its    *)
(* statements on products, keys and cart items), statement by statement.   *)
(* Imports, deliveries, cancellations and deletions change the units on the*)
(* shelf and then recount the stock (syncProductStock), in statements of   *)
(* their own: some in one transaction with the change, others after it     *)
(* (accounts.repository createBatch, orders.repository updateStatus).      *)
(***************************************************************************)
EXTENDS Naturals

CONSTANTS
  Editors,       \* requests in progress at the same time
  Counters,      \* recounts in progress at the same time
  MaxShelf,      \* bound: available units of a kind
  Asked,         \* stocks that requests ask for, MaxShelf + 1 for none
  Elsewhere      \* kinds of which other products have available units


Tables == {"KEY", "ACCOUNT"}

ASSUME CatalogAssumption ==
  MaxShelf \in Nat \ {0} /\ Asked \subseteq 0 .. MaxShelf + 1 /\ Elsewhere \subseteq Tables

VARIABLES
  good,          \* Product
  shelf,         \* its Key and Account rows: are there any, how many AVAILABLE
  refs,          \* rows that refer to it: "order" (OrderItem), "cart" (CartItem)
  drift,         \* history: the stock need not be what is available
  editor,        \* what each request is doing
  counter        \* what each recount is doing

catalogVars == <<good, shelf, refs, drift, editor, counter>>

Good == [there : BOOLEAN, type : Tables, active : BOOLEAN, stock : 0 .. MaxShelf, demo : BOOLEAN]
NoGood == [there |-> FALSE, type |-> "KEY", active |-> FALSE, stock |-> 0, demo |-> FALSE]

Shelf == [Tables -> [any : BOOLEAN, available : 0 .. MaxShelf]]
EmptyShelf == [t \in Tables |-> [any |-> FALSE, available |-> 0]]

(* type, active: what the request names, or else what it has read; active  *)
(* is written back as it was read, the type is not (keepsType); stock:     *)
(* asked for, or MaxShelf + 1 for none; overlapped: the shelf has changed  *)
(* since the request began; stocked: it has held an available unit of the  *)
(* type meanwhile.                                                         *)
Editor == [pc : {"idle", "count", "checkKeys", "checkAccounts", "write", "insert",
                 "countOrders", "delete", "clearKeys", "clearCarts", "clearProducts"},
           op : {"create", "update", "delete", "clear"},
           type : Tables, keepsType : BOOLEAN, active : BOOLEAN, stock : 0 .. MaxShelf + 1,
           todo : SUBSET Tables, seen : Shelf,
           overlapped : BOOLEAN, stocked : BOOLEAN]

IdleEditor == [pc |-> "idle", op |-> "clear", type |-> "KEY", keepsType |-> FALSE,
               active |-> FALSE, stock |-> 0, todo |-> {}, seen |-> EmptyShelf,
               overlapped |-> FALSE, stocked |-> FALSE]

(* kind: what is counted; sets, active: a recount of the orders also       *)
(* writes isActive, from what it has read; fresh: the shelf has not        *)
(* changed since the count.                                                *)
Counter == [pc : {"idle", "count", "store"}, kind : Tables, sets : BOOLEAN, active : BOOLEAN,
            stock : 0 .. MaxShelf, fresh : BOOLEAN]

IdleCounter == [pc |-> "idle", kind |-> "KEY", sets |-> FALSE, active |-> FALSE,
                stock |-> 0, fresh |-> FALSE]

CatalogTypeOK ==
  /\ good \in Good
  /\ shelf \in Shelf
  /\ refs \in SUBSET {"order", "cart"}
  /\ drift \in BOOLEAN
  /\ editor \in [Editors -> Editor]
  /\ counter \in [Counters -> Counter]

CatalogInit ==
  /\ good = NoGood /\ shelf = EmptyShelf /\ refs = {} /\ drift = FALSE
  /\ editor = [x \in Editors |-> IdleEditor]
  /\ counter = [c \in Counters |-> IdleCounter]

GoodsStay == UNCHANGED <<good, shelf, refs, drift, counter>>
EditorGoes(x, pc) == editor' = [editor EXCEPT ![x].pc = pc]
EditorEnds(x) == editor' = [editor EXCEPT ![x] = IdleEditor]

(* The stock update derives from the units, where there are any.           *)
HasUnits(s) == \E t \in Tables : s[t].any
KindSold(type, s) ==
  IF type = "ACCOUNT" \/ (s["ACCOUNT"].any /\ ~ s["KEY"].any) THEN "ACCOUNT" ELSE "KEY"
Derived(type, s) == s[KindSold(type, s)].available

(* The shelf changes: whoever has counted it has counted too early.        *)
CountsAreOld == counter' = [c \in Counters |-> [counter[c] EXCEPT !.fresh = FALSE]]

-----------------------------------------------------------------------------
(* validateActivationInventory: both kinds are counted, one after the      *)
(* other, and the kind of the product must not be at zero.  create passes  *)
(* no product id: the units of every product count.                        *)

(* Mutant: update passes no product id either.                             *)
InStockAnywhere(x, t) == shelf[t].available > 0 \/ t \in Elsewhere

InStock(x, t) ==
  \/ shelf[t].available > 0
  \/ editor[x].op = "create" /\ t \in Elsewhere

CheckKeys(x) ==
  /\ editor[x].pc = "checkKeys"
  /\ IF editor[x].type = "KEY" /\ ~ InStock(x, "KEY") THEN EditorEnds(x)
     ELSE EditorGoes(x, "checkAccounts")
  /\ GoodsStay

CheckAccounts(x) ==
  /\ editor[x].pc = "checkAccounts"
  /\ IF editor[x].type = "ACCOUNT" /\ ~ InStock(x, "ACCOUNT") THEN EditorEnds(x)
     ELSE EditorGoes(x, IF editor[x].op = "create" THEN "insert" ELSE "write")
  /\ GoodsStay

StartCreate(x, type, active, stock) ==
  /\ editor[x].pc = "idle"
  /\ editor' = [editor EXCEPT ![x] = [IdleEditor EXCEPT !.op = "create", !.type = type,
                  !.pc = IF active THEN "checkKeys" ELSE "insert", !.active = active, !.stock = stock]]
  /\ GoodsStay

InsertProduct(x) ==
  /\ editor[x].pc = "insert"
  /\ ~ good.there
  /\ good' = [there |-> TRUE, type |-> editor[x].type, active |-> editor[x].active,
              stock |-> editor[x].stock, demo |-> FALSE]
  /\ shelf' = EmptyShelf /\ refs' = {} /\ drift' = FALSE
  /\ EditorEnds(x)
  /\ UNCHANGED counter

-----------------------------------------------------------------------------
(* update: findById, the counts side by side (in the model the two of a    *)
(* kind are taken at one instant), the check, UPDATE by id.                *)

StartUpdate(x, type, keeps, active, stock) ==
  /\ editor[x].pc = "idle"
  /\ good.there
  /\ keeps => type = good.type
  /\ editor' = [editor EXCEPT ![x] = [IdleEditor EXCEPT !.op = "update", !.pc = "count",
                  !.type = type, !.keepsType = keeps, !.active = active, !.stock = stock,
                  !.todo = Tables, !.stocked = shelf[type].available > 0]]
  /\ GoodsStay

(* Mutant: a stock that is asked for wins.                                 *)
StockAsAsked(q, seen) ==
  IF HasUnits(seen) /\ q.stock > MaxShelf THEN Derived(q.type, seen) ELSE q.stock

StockToWrite(q, seen) == IF HasUnits(seen) THEN Derived(q.type, seen) ELSE q.stock

CountUnits(x, t) ==
  LET q == editor[x]
      seen == [q.seen EXCEPT ![t] = shelf[t]]
  IN  /\ q.pc = "count"
      /\ t \in q.todo
      /\ editor' = [editor EXCEPT ![x] =
           IF q.todo # {t} THEN [q EXCEPT !.todo = @ \ {t}, !.seen = seen]
           ELSE [q EXCEPT !.pc = IF q.active THEN "checkKeys" ELSE "write", !.todo = {},
                          !.stock = StockToWrite(q, seen), !.seen = EmptyShelf]]
      /\ GoodsStay

(* A stock that is missing leaves the one there is.                        *)
(* Mutant: what is missing is written.                                     *)
StockAsSent(x) == editor[x].stock
StockStored(x) == IF editor[x].stock > MaxShelf THEN good.stock ELSE editor[x].stock

WriteProduct(x) ==
  /\ editor[x].pc = "write"
  /\ good.there
  /\ good' = [good EXCEPT !.type = IF editor[x].keepsType THEN @ ELSE editor[x].type,
                          !.active = editor[x].active,
                          !.stock = StockStored(x)]
  /\ drift' = editor[x].overlapped
  /\ editor' = [y \in Editors |-> IF y = x THEN IdleEditor
                  ELSE [editor[y] EXCEPT !.overlapped = @ \/ good'.type # good.type]]
  /\ UNCHANGED <<shelf, refs, counter>>

-----------------------------------------------------------------------------
(* delete: refused for a product that has been ordered; the foreign keys   *)
(* of order and cart items restrict the DELETE, keys and accounts cascade. *)
(* A request about a product that is gone comes to nothing.                *)

StartProductDelete(x) ==
  /\ editor[x].pc = "idle"
  /\ good.there
  /\ editor' = [editor EXCEPT ![x] = [IdleEditor EXCEPT !.op = "delete", !.pc = "countOrders"]]
  /\ GoodsStay

CountOrderItems(x) ==
  /\ editor[x].pc = "countOrders"
  /\ IF "order" \in refs THEN EditorEnds(x) ELSE EditorGoes(x, "delete")
  /\ GoodsStay

DeleteProduct(x) ==
  /\ \/ editor[x].pc = "delete"
     \/ editor[x].pc = "clearProducts" /\ good.demo
  /\ good.there /\ refs = {}
  /\ good' = NoGood /\ shelf' = EmptyShelf /\ drift' = FALSE
  /\ editor' = [y \in Editors |-> IF y = x \/ editor[y].op # "create" THEN IdleEditor ELSE editor[y]]
  /\ counter' = [c \in Counters |-> IdleCounter]
  /\ UNCHANGED refs

(* clearDemoData reads the ids, deletes keys and cart items, and then the  *)
(* products, which throws when one has been ordered.                       *)
StartClearDemo(x) ==
  /\ editor[x].pc = "idle"
  /\ good.there /\ good.demo
  /\ editor' = [editor EXCEPT ![x] = [IdleEditor EXCEPT !.op = "clear", !.pc = "clearKeys"]]
  /\ GoodsStay

ClearDemoKeys(x) ==
  /\ editor[x].pc = "clearKeys"
  /\ shelf' = [shelf EXCEPT !["KEY"] = EmptyShelf["KEY"]]
  /\ drift' = TRUE
  /\ editor' = [y \in Editors |-> IF y = x THEN [editor[x] EXCEPT !.pc = "clearCarts"]
                                  ELSE [editor[y] EXCEPT !.overlapped = TRUE]]
  /\ CountsAreOld
  /\ UNCHANGED <<good, refs>>

ClearDemoCarts(x) ==
  /\ editor[x].pc = "clearCarts"
  /\ refs' = refs \ {"cart"}
  /\ EditorGoes(x, "clearProducts")
  /\ UNCHANGED <<good, shelf, drift, counter>>

-----------------------------------------------------------------------------
(* The rest of the shop.                                                   *)

(* generateDemoData creates the product with its stock and then imports.   *)
CreateDemo(n) ==
  /\ ~ good.there
  /\ good' = [there |-> TRUE, type |-> "KEY", active |-> TRUE, stock |-> n, demo |-> TRUE]
  /\ shelf' = EmptyShelf /\ refs' = {} /\ drift' = FALSE
  /\ UNCHANGED <<editor, counter>>

(* An import, a delivery, a cancellation, a deletion: rows of one kind     *)
(* change.  Where change and recount share a transaction the change counts *)
(* as made when it commits: it comes after the counts that missed it.      *)
ShelfChanges(t, any, n) ==
  /\ good.there /\ (n > 0 => any)
  /\ shelf' = [shelf EXCEPT ![t] = [any |-> any, available |-> n]]
  /\ drift' = TRUE
  /\ editor' = [x \in Editors |-> [editor[x] EXCEPT
                  !.overlapped = @ \/ editor[x].pc # "idle",
                  !.stocked = @ \/ (editor[x].op = "update" /\ editor[x].type = t /\ n > 0)]]
  /\ CountsAreOld
  /\ UNCHANGED <<good, refs>>

(* syncProductStock: the repositories of keys and accounts count their own *)
(* kind; that of the orders reads the product for the kind to count, and   *)
(* switches the product off when nothing is left.                          *)
StartRecount(c, t, sets) ==
  /\ counter[c].pc = "idle"
  /\ good.there
  /\ sets => t = good.type
  /\ counter' = [counter EXCEPT ![c] = [IdleCounter EXCEPT !.pc = "count", !.kind = t,
                    !.sets = sets, !.active = sets /\ good.active]]
  /\ UNCHANGED <<good, shelf, refs, drift, editor>>

CountAvailable(c) ==
  /\ counter[c].pc = "count"
  /\ counter' = [counter EXCEPT ![c].pc = "store", ![c].fresh = TRUE,
                    ![c].stock = shelf[counter[c].kind].available]
  /\ UNCHANGED <<good, shelf, refs, drift, editor>>

StoreCount(c) ==
  LET k == counter[c]
  IN  /\ k.pc = "store"
      /\ good.there
      /\ good' = [good EXCEPT !.stock = k.stock,
                              !.active = IF k.sets THEN k.stock > 0 /\ k.active ELSE @]
      /\ drift' = ~ (k.fresh /\ k.kind = KindSold(good.type, shelf))
      /\ counter' = [counter EXCEPT ![c] = IdleCounter]
      /\ UNCHANGED <<shelf, refs, editor>>

(* A statement fails, or the server stops.                                 *)
RecountFails(c) ==
  /\ counter[c].pc # "idle"
  /\ counter' = [counter EXCEPT ![c] = IdleCounter]
  /\ UNCHANGED <<good, shelf, refs, drift, editor>>

Referred(ref) ==
  /\ good.there
  /\ refs' = refs \cup {ref}
  /\ UNCHANGED <<good, shelf, drift, editor, counter>>

CartEmptied ==
  /\ refs' = refs \ {"cart"}
  /\ UNCHANGED <<good, shelf, drift, editor, counter>>

EditorFails(x) == editor[x].pc # "idle" /\ EditorEnds(x) /\ GoodsStay

(* A request names a type, a state and a stock, or takes those of the row; *)
(* one that names the type the row has is left out.                        *)
CatalogNext ==
  \/ \E x \in Editors :
       \/ \E t \in Tables, a \in BOOLEAN, n \in Asked \ {MaxShelf + 1} : StartCreate(x, t, a, n)
       \/ \E t \in Tables, a \in BOOLEAN, n \in Asked : StartUpdate(x, t, t = good.type, a, n)
       \/ StartProductDelete(x) \/ StartClearDemo(x)
       \/ CheckKeys(x) \/ CheckAccounts(x) \/ InsertProduct(x)
       \/ \E t \in Tables : CountUnits(x, t)
       \/ WriteProduct(x) \/ CountOrderItems(x) \/ DeleteProduct(x)
       \/ ClearDemoKeys(x) \/ ClearDemoCarts(x) \/ EditorFails(x)
  \/ \E n \in Asked \ {MaxShelf + 1} : CreateDemo(n)
  \/ \E t \in Tables, any \in BOOLEAN, n \in 0 .. MaxShelf : ShelfChanges(t, any, n)
  \/ \E c \in Counters :
       \/ \E t \in Tables, sets \in BOOLEAN : StartRecount(c, t, sets)
       \/ CountAvailable(c) \/ StoreCount(c) \/ RecountFails(c)
  \/ \E ref \in {"order", "cart"} : Referred(ref)
  \/ CartEmptied

CatalogSpec == CatalogInit /\ [][CatalogNext]_catalogVars

-----------------------------------------------------------------------------
(* Properties.                                                             *)

(* The stock is what is available, whatever stock edits have asked for,    *)
(* unless the last word on it was one of these: an edit or a recount that  *)
(* the units changed under, a change of the units that is not recounted    *)
(* yet, whose recount failed or that has none (the demo data), or a        *)
(* recount of the kind that the product does not sell.                     *)
StockIsCounted ==
  good.there /\ HasUnits(shelf) => drift \/ good.stock = Derived(good.type, shelf)

(* An edit puts a product on sale only if it had a unit of its own to sell *)
(* at some moment of the request.                                          *)
ActivatedWithUnits ==
  [][\A x \in Editors :
       (/\ editor[x].pc = "write" /\ editor'[x].pc = "idle"
        /\ ~ good.active /\ good'.active) => editor[x].stocked]_catalogVars
=============================================================================
