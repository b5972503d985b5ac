----------------------------- MODULE Fulfilment -----------------------------
(***************************************************************************)
(* Orders, the digital units (keys and accounts) they are served with, and *)
(* the two handlers that connect them: deliverOrder and updateStatus.      *)
(*                                                                         *)
(* Requests run concurrently on one Node process; every await is a point   *)
(* where another request may run, so a handler is a sequence of steps of a *)
(* worker.  The database runs at READ COMMITTED, PostgreSQL's default: a   *)
(* statement sees what was committed when it starts, and a row written by  *)
(* an open transaction is locked until that transaction ends.  A worker    *)
(* keeps the writes of its open transaction in taken and sync; they reach  *)
(* the tables in the step that commits.                                    *)
(*                                                                         *)
(* Keys and accounts live in two tables with the same columns and the code *)
(* treats them alike; both are Units here, and ProductType tells them      *)
(* apart where the order of statements depends on it.                      *)
(***************************************************************************)
EXTENDS ShopDomain, Naturals, FiniteSets

CONSTANTS
  Workers,       \* requests in progress at the same time
  Orders, Items, Units, Products,
  OrderOf,       \* OrderItem.orderId
  ItemProduct,   \* OrderItem.productId
  UnitProduct,   \* Key.productId, Account.productId
  ProductType,   \* Product.productType
  Targets,       \* the statuses that requests ask updateStatus for
  None

ASSUME NoneAssumption ==
  /\ None \notin Items \cup Units \cup Orders \cup OrderStatuses
  /\ None \notin [stock : Nat, active : BOOLEAN]
ASSUME CatalogAssumption ==
  /\ OrderOf \in [Items -> Orders]
  /\ ItemProduct \in [Items -> Products]
  /\ UnitProduct \in [Units -> Products]
  /\ ProductType \in [Products -> ProductTypes]
ASSUME TargetsAssumption == Targets \subseteq OrderStatuses
ASSUME UnitsAreFinite == IsFiniteSet(Units)

VARIABLES
  status,        \* Order.status
  link,          \* OrderItem.keyId or OrderItem.accountId (unique indexes)
  unit,          \* Key.status, Account.status
  owner,         \* Key.orderItemId, Account.orderItemId (unique indexes)
  stock,         \* Product.stock
  active,        \* Product.isActive
  job            \* what each worker is doing

tables == <<status, link, unit, owner, stock, active>>
vars == <<status, link, unit, owner, stock, active, job>>

-----------------------------------------------------------------------------
(* The local state of a worker: where it is, the request's arguments, what *)
(* it read and the uncommitted writes of its transaction.                  *)

NoUnits == [i \in Items |-> None]
NoSync  == [p \in Products |-> None]

InDelivery == {"take", "lock", "count"}      \* inside deliverOrderAtomic's tx
InUpdate   == {"readItems", "releaseKeys", "releaseAccounts", "resync", "store"}
Reading    == {"find", "findItems", "begin", "readOrder"}
Ended      == {"done", "failed"}

Job == [pc     : {"idle"} \cup Reading \cup InDelivery \cup InUpdate \cup Ended,
        ord    : Orders \cup {None},
        target : OrderStatuses \cup {None},
        seen   : [Items -> Units \cup {None}],   \* the items as they were read
        item   : Items \cup {None},              \* the item being served
        unit   : Units \cup {None},              \* and the unit found for it
        taken  : [Items -> Units \cup {None}],   \* uncommitted, rows locked
        todo   : SUBSET Products,                \* products left to recount
        sync   : [Products -> [stock : Nat, active : BOOLEAN] \cup {None}]]

(* A worker that remembers nothing but an order and how its handler ended. *)
Blank(pc, o) ==
  [pc |-> pc, ord |-> o, target |-> None, seen |-> NoUnits, item |-> None,
   unit |-> None, taken |-> NoUnits, todo |-> {}, sync |-> NoSync]

IdleJob == Blank("idle", None)
Outcome(w, pc) == Blank(pc, job[w].ord)

TypeOK ==
  /\ status \in [Orders -> OrderStatuses]
  /\ link \in [Items -> Units \cup {None}]
  /\ unit \in [Units -> UnitStatuses]
  /\ owner \in [Units -> Items \cup {None}]
  /\ stock \in [Products -> Nat]
  /\ active \in [Products -> BOOLEAN]
  /\ job \in [Workers -> Job]

ItemsOf(o) == {i \in Items : OrderOf[i] = o}

(* The rows of a product that a count or findFirst with status AVAILABLE   *)
(* sees from inside a transaction whose own writes are t.                  *)
Available(p, t) ==
  {u \in Units : /\ UnitProduct[u] = p
                 /\ unit[u] = "AVAILABLE"
                 /\ \A i \in Items : t[i] # u}

(* Unfinished writes of another transaction: its row locks.                *)
LockedByOther(w, u) ==
  \E v \in Workers \ {w} : \E i \in Items : job[v].taken[i] = u
ItemLockedByOther(w, i) == \E v \in Workers \ {w} : job[v].taken[i] # None

Init ==
  /\ status = [o \in Orders |-> "PENDING"]
  /\ link = NoUnits
  /\ unit = [u \in Units |-> "AVAILABLE"]
  /\ owner = [u \in Units |-> None]
  /\ stock = [p \in Products |-> Cardinality({u \in Units : UnitProduct[u] = p})]
  /\ active = [p \in Products |-> TRUE]
  /\ job = [w \in Workers |-> IdleJob]

-----------------------------------------------------------------------------
(* orders.repository syncProductStock: read the product and count, then    *)
(* write.  A product is never re-activated by a recount.                   *)

(* Mutant: the stock is decremented by what was taken, not counted.        *)
RecountDecrements(p, t) ==
  LET n == stock[p] - Cardinality({i \in Items : t[i] # None /\ ItemProduct[i] = p})
  IN  [stock |-> n, active |-> n > 0 /\ active[p]]

(* Mutant: the recount runs on this.prisma, outside the transaction.       *)
RecountOutsideTx(p, t) ==
  LET n == Cardinality(Available(p, NoUnits))
  IN  [stock |-> n, active |-> n > 0 /\ active[p]]

Recount(p, t) ==
  LET n == Cardinality(Available(p, t))
  IN  [stock |-> n, active |-> n > 0 /\ active[p]]

StockAfter(s)  == [p \in Products |-> IF s[p] = None THEN stock[p] ELSE s[p].stock]
ActiveAfter(s) == [p \in Products |-> IF s[p] = None THEN active[p] ELSE s[p].active]

(* The reading half.  Inside a delivery the write is part of the           *)
(* transaction (the count step loops, the commit writes); in updateStatus  *)
(* it is a statement of its own (store).                                   *)
CountStock(w, p) ==
  /\ job[w].pc \in {"count", "resync"}
  /\ p \in job[w].todo
  /\ job' = [job EXCEPT ![w].todo = @ \ {p},
                        ![w].sync[p] = Recount(p, job[w].taken),
                        ![w].pc = IF @ = "resync" THEN "store" ELSE @]
  /\ UNCHANGED tables

StoreStock(w) ==
  /\ job[w].pc = "store"
  /\ stock' = StockAfter(job[w].sync)
  /\ active' = ActiveAfter(job[w].sync)
  /\ job' = [job EXCEPT ![w].pc = "resync", ![w].sync = NoSync]
  /\ UNCHANGED <<status, link, unit, owner>>

-----------------------------------------------------------------------------
(* orders.service deliverOrder: read the order and its items - Prisma      *)
(* reads a row and the rows it includes with one SELECT each -, check PAID *)
(* and hand that snapshot of the items to deliverOrderAtomic.              *)

StartDeliver(w, o) ==
  /\ job[w].pc = "idle"
  /\ job' = [job EXCEPT ![w].pc = "find", ![w].ord = o]
  /\ UNCHANGED tables

ItemsAsRead(o) == [i \in Items |-> IF OrderOf[i] = o THEN link[i] ELSE None]

FindOrder(w) ==
  /\ job[w].pc = "find"
  /\ \/ /\ status[job[w].ord] = "PAID"
        /\ job' = [job EXCEPT ![w].pc = "findItems"]
     \/ /\ status[job[w].ord] # "PAID"
        /\ job' = [job EXCEPT ![w] = Outcome(w, "failed")]
  /\ UNCHANGED tables

FindItems(w) ==
  /\ job[w].pc = "findItems"
  /\ job' = [job EXCEPT ![w].pc = "begin", ![w].seen = ItemsAsRead(job[w].ord)]
  /\ UNCHANGED tables

(* deliverOrderAtomic.  The transaction reads the status again, not the    *)
(* items.                                                                  *)
BeginDelivery(w) ==
  /\ job[w].pc = "begin"
  /\ \/ /\ status[job[w].ord] = "PAID"
        /\ job' = [job EXCEPT ![w].pc = "take"]
     \/ /\ status[job[w].ord] # "PAID"
        /\ job' = [job EXCEPT ![w] = Outcome(w, "failed")]
  /\ UNCHANGED tables

(* The items the loop has still to serve: those with a key or account in   *)
(* the snapshot are skipped.                                               *)
(* Mutant: the loop ends with the first unit it takes.                     *)
UnservedBeforeFirst(w) ==
  {i \in ItemsOf(job[w].ord) : job[w].seen[i] = None /\ job[w].taken = NoUnits}

Unserved(w) == {i \in ItemsOf(job[w].ord) : job[w].seen[i] = None /\ job[w].taken[i] = None}

(* findFirst: some AVAILABLE row, which another transaction may hold.      *)
FindUnit(w, i, u) ==
  /\ job[w].pc = "take"
  /\ i \in Unserved(w)
  /\ u \in Available(ItemProduct[i], job[w].taken)
  /\ job' = [job EXCEPT ![w].pc = "lock", ![w].item = i, ![w].unit = u]
  /\ UNCHANGED tables

NoUnitAvailable(w, i) ==
  /\ job[w].pc = "take"
  /\ i \in Unserved(w)
  /\ Available(ItemProduct[i], job[w].taken) = {}
  /\ job' = [job EXCEPT ![w] = Outcome(w, "failed")]
  /\ UNCHANGED tables

(* updateMany where status = AVAILABLE, then orderItem.update.  Both wait  *)
(* for the transaction that holds the row or the index entry; the status   *)
(* is evaluated again once the lock is granted, and count 0 throws.  The   *)
(* unique indexes on orderItemId and on keyId/accountId reject a second    *)
(* unit for the item and a second item for the unit.                       *)
(* Mutant: updateMany by id only; its count is always 1.                   *)
StatusIgnored(w) ==
  LET i == job[w].item
      u == job[w].unit
  IN  /\ \A v \in Units : owner[v] = i => v = u
      /\ \A j \in Items : link[j] = u => j = i

(* Mutant: no unique index on OrderItem.keyId and accountId.               *)
LinkNotUnique(w) ==
  /\ unit[job[w].unit] = "AVAILABLE"
  /\ \A v \in Units : owner[v] = job[w].item => v = job[w].unit

StillFree(w) ==
  LET i == job[w].item
      u == job[w].unit
  IN  /\ unit[u] = "AVAILABLE"
      /\ \A v \in Units : owner[v] = i => v = u
      /\ \A j \in Items : link[j] = u => j = i

TakeUnit(w) ==
  /\ job[w].pc = "lock"
  /\ ~ LockedByOther(w, job[w].unit)
  /\ ~ ItemLockedByOther(w, job[w].item)
  /\ \/ /\ StillFree(w)
        /\ job' = [job EXCEPT ![w].pc = "take",
                              ![w].taken[job[w].item] = job[w].unit,
                              ![w].item = None, ![w].unit = None]
     \/ /\ ~ StillFree(w)
        /\ job' = [job EXCEPT ![w] = Outcome(w, "failed")]
  /\ UNCHANGED tables

BeginSync(w) ==
  /\ job[w].pc = "take"
  /\ Unserved(w) = {}
  /\ job' = [job EXCEPT ![w].pc = "count",
                        ![w].todo = {ItemProduct[i] : i \in {j \in Items : job[w].taken[j] # None}}]
  /\ UNCHANGED tables

(* The last update of the transaction, and its commit.  order.update does  *)
(* not look at the status it replaces.                                     *)
CommitDelivery(w) ==
  LET t == job[w].taken
      got(u) == {i \in Items : t[i] = u}
  IN  /\ job[w].pc = "count"
      /\ job[w].todo = {}
      /\ status' = [status EXCEPT ![job[w].ord] = "DELIVERED"]
      /\ link' = [i \in Items |-> IF t[i] = None THEN link[i] ELSE t[i]]
      /\ unit' = [u \in Units |-> IF got(u) = {} THEN unit[u] ELSE "DELIVERED"]
      /\ owner' = [u \in Units |-> IF got(u) = {} THEN owner[u] ELSE CHOOSE i \in got(u) : TRUE]
      /\ stock' = StockAfter(job[w].sync)
      /\ active' = ActiveAfter(job[w].sync)
      /\ job' = [job EXCEPT ![w] = Outcome(w, "done")]

-----------------------------------------------------------------------------
(* orders.repository updateStatus: no transaction.                         *)

StartUpdate(w, o, t) ==
  /\ job[w].pc = "idle"
  /\ job' = [job EXCEPT ![w].pc = "readOrder", ![w].ord = o, ![w].target = t]
  /\ UNCHANGED tables

ReadOrder(w) ==
  /\ job[w].pc = "readOrder"
  /\ \/ /\ job[w].target \in ValidTransitions[status[job[w].ord]]
        /\ job' = [job EXCEPT ![w].pc = "readItems"]
     \/ /\ job[w].target \notin ValidTransitions[status[job[w].ord]]
        /\ job' = [job EXCEPT ![w] = Outcome(w, "failed")]
  /\ UNCHANGED tables

(* Without units to give back the only statement left is the status write. *)
ReadItems(w) ==
  /\ job[w].pc = "readItems"
  /\ job' = [job EXCEPT
               ![w].pc = IF job[w].target \in ReleasingStatuses THEN "releaseKeys" ELSE "resync",
               ![w].seen = ItemsAsRead(job[w].ord)]
  /\ UNCHANGED tables

(* updateMany where id is one of those read: neither the unit's status nor *)
(* its orderItemId is looked at, and OrderItem.keyId/accountId stays.      *)
Released(w, type) ==
  {job[w].seen[i] : i \in {j \in Items : /\ job[w].seen[j] # None
                                         /\ ProductType[ItemProduct[j]] = type}}

(* Mutant: orderItemId is not set to null.                                 *)
ReleaseKeepsOwner(w, type) ==
  LET us == Released(w, type)
  IN  /\ \A u \in us : ~ LockedByOther(w, u)
      /\ unit' = [u \in Units |-> IF u \in us THEN "AVAILABLE" ELSE unit[u]]
      /\ UNCHANGED <<status, link, owner, stock, active>>

Release(w, type) ==
  LET us == Released(w, type)
  IN  /\ \A u \in us : ~ LockedByOther(w, u)
      /\ unit' = [u \in Units |-> IF u \in us THEN "AVAILABLE" ELSE unit[u]]
      /\ owner' = [u \in Units |-> IF u \in us THEN None ELSE owner[u]]
      /\ UNCHANGED <<status, link, stock, active>>

ReleaseKeys(w) ==
  /\ job[w].pc = "releaseKeys"
  /\ Release(w, "KEY")
  /\ job' = [job EXCEPT ![w].pc = "releaseAccounts"]

ReleaseAccounts(w) ==
  /\ job[w].pc = "releaseAccounts"
  /\ Release(w, "ACCOUNT")
  /\ job' = [job EXCEPT ![w].pc = "resync",
                        ![w].todo = {ItemProduct[i] : i \in {j \in Items : job[w].seen[j] # None}}]

(* order.update: the status checked in ReadOrder is not checked again.     *)
WriteStatus(w) ==
  /\ job[w].pc = "resync"
  /\ job[w].todo = {}
  /\ status' = [status EXCEPT ![job[w].ord] = job[w].target]
  /\ job' = [job EXCEPT ![w] = Outcome(w, "done")]
  /\ UNCHANGED <<link, unit, owner, stock, active>>

-----------------------------------------------------------------------------
(* What the payments side does to an order, as the order sees it: each is  *)
(* one committed write, whatever the status was.                           *)

SetStatus(o, s) ==
  /\ status' = [status EXCEPT ![o] = s]
  /\ UNCHANGED <<link, unit, owner, stock, active>>

PaymentApproved(o) == SetStatus(o, "PAID") /\ UNCHANGED job
PaymentRejected(o) == SetStatus(o, "CANCELLED") /\ UNCHANGED job

-----------------------------------------------------------------------------
(* Failures.  Any statement may throw: a lost connection, PostgreSQL's     *)
(* deadlock detector, Prisma's limit on how long a transaction stays open. *)
(* A transaction then rolls back; what updateStatus wrote stays.  A crash  *)
(* of the process loses every request in progress.                         *)

(* Mutant: transactions have no timeout and deadlocks are not detected.    *)
OnlyReadsFail(w) ==
  /\ job[w].pc \in Reading \cup InUpdate
  /\ job' = [job EXCEPT ![w] = Outcome(w, "failed")]
  /\ UNCHANGED tables

StatementFails(w) ==
  /\ job[w].pc \in Reading \cup InDelivery \cup InUpdate
  /\ job' = [job EXCEPT ![w] = Outcome(w, "failed")]
  /\ UNCHANGED tables

Crash ==
  /\ job' = [w \in Workers |-> IdleJob]
  /\ UNCHANGED tables

(* The handler returned to its caller.                                     *)
Return(w) ==
  /\ job[w].pc \in Ended
  /\ job' = [job EXCEPT ![w] = IdleJob]
  /\ UNCHANGED tables

-----------------------------------------------------------------------------
DeliverStep(w) ==
  \/ FindOrder(w) \/ FindItems(w) \/ BeginDelivery(w)
  \/ TakeUnit(w) \/ BeginSync(w) \/ CommitDelivery(w)
  \/ \E i \in Items : NoUnitAvailable(w, i) \/ \E u \in Units : FindUnit(w, i, u)

UpdateStep(w) ==
  \/ ReadOrder(w) \/ ReadItems(w) \/ ReleaseKeys(w) \/ ReleaseAccounts(w)
  \/ StoreStock(w) \/ WriteStatus(w)

HandlerStep(w) == DeliverStep(w) \/ UpdateStep(w) \/ \E p \in Products : CountStock(w, p)

Request(w) == \E o \in Orders : StartDeliver(w, o) \/ \E t \in Targets : StartUpdate(w, o, t)

Next ==
  \/ \E w \in Workers : Request(w) \/ HandlerStep(w) \/ StatementFails(w) \/ Return(w)
  \/ \E o \in Orders : PaymentApproved(o) \/ PaymentRejected(o)
  \/ Crash

Spec == Init /\ [][Next]_vars

(* A request that runs keeps running until it is answered; a transaction   *)
(* that waits for a lock is ended by the deadlock detector or the timeout. *)
Fairness ==
  \A w \in Workers :
    /\ WF_vars(HandlerStep(w))
    /\ WF_vars(Return(w))
    /\ WF_vars(job[w].pc \in InDelivery /\ StatementFails(w))

FairSpec == Spec /\ Fairness

-----------------------------------------------------------------------------
(* Properties.                                                             *)

(* A unit is DELIVERED exactly while its orderItemId names an item, and    *)
(* that item's keyId/accountId names the unit: updateMany and              *)
(* orderItem.update in deliverOrderAtomic, and the release in updateStatus,*)
(* keep the two directions of the relation together, however they          *)
(* interleave.                                                             *)
UnitCustody ==
  /\ \A u \in Units : (unit[u] = "DELIVERED") <=> (owner[u] # None)
  /\ \A u \in Units : owner[u] # None => link[owner[u]] = u

(* Handlers implement the abstract sale: what CommitDelivery writes to     *)
(* OrderItem serves one whole order, with units of the right products that *)
(* no other item ever got, and nothing - releasing on cancellation and     *)
(* refund included - takes an item's unit away.                            *)
Sale == INSTANCE UnitSale WITH sold <- link
SaleRefinement == Sale!SaleSpec

(* Every request that starts is answered, although transactions wait for   *)
(* each other's row locks and may deadlock.                                *)
JobsFinish == \A w \in Workers : (job[w].pc # "idle") ~> (job[w].pc = "idle")

(* Product.stock, which order creation checks, never promises more units   *)
(* than are AVAILABLE.                                                     *)
StockCovered ==
  \A p \in Products : stock[p] <= Cardinality(Available(p, NoUnits))

(* An order that is DELIVERED without an administrator having set it so    *)
(* (Targets without DELIVERED) has a unit for every item: the loop over a  *)
(* snapshot of the items, which may be older than the transaction, leaves  *)
(* none unserved.                                                          *)
DeliveredIsServed ==
  \A i \in Items : status[OrderOf[i]] = "DELIVERED" => link[i] # None

(* "DELIVERED - Keys delivered": the units of a delivered order are its    *)
(* own; none of them is for sale again.                                    *)
DeliveredKeepsUnits ==
  \A i \in Items : status[OrderOf[i]] = "DELIVERED" /\ link[i] # None => owner[link[i]] = i

(* "AVAILABLE - Ready for sale": the unique index on OrderItem.keyId does  *)
(* not stand in the way of selling an AVAILABLE unit.                      *)
AvailableIsSellable ==
  \A u \in Units : unit[u] = "AVAILABLE" => \A i \in Items : link[i] # u

-----------------------------------------------------------------------------
(* The inductive invariant behind UnitCustody.  What a transaction has     *)
(* written is not in the tables yet, so custody after its commit rests on  *)
(* what its row locks and index entries keep true until then.              *)

(* A worker that found a unit holds a request for it, not the unit.        *)
FoundUnit(k) ==
  /\ k.item \in Items
  /\ k.unit \in Units
  /\ OrderOf[k.item] = k.ord
  /\ UnitProduct[k.unit] = ItemProduct[k.item]
  /\ k.taken[k.item] = None
  /\ \A j \in Items : k.taken[j] # k.unit

WellFormed(k) ==
  /\ k.pc \in Reading \cup InDelivery \cup InUpdate => k.ord \in Orders
  /\ k.pc \in InUpdate \cup {"readOrder"} => k.target \in OrderStatuses
  /\ k.pc = "lock" => FoundUnit(k)

RequestShape == \A w \in Workers : WellFormed(job[w])

(* A taken unit is still AVAILABLE in the tables and of the item's product;*)
(* no other transaction has it or has a unit for the item; no committed    *)
(* row names the unit or the item in a way its commit would contradict.    *)
RowLocks ==
  \A w \in Workers, i \in Items :
    LET u == job[w].taken[i]
    IN  u # None =>
          /\ job[w].pc \in InDelivery
          /\ OrderOf[i] = job[w].ord
          /\ UnitProduct[u] = ItemProduct[i]
          /\ unit[u] = "AVAILABLE"
          /\ \A v \in Workers, j \in Items : job[v].taken[j] = u => v = w /\ j = i
          /\ \A v \in Workers : v # w => job[v].taken[i] = None
          /\ \A j \in Items : link[j] = u => j = i
          /\ \A x \in Units : owner[x] # i

(* keyId and accountId are unique: an item's unit is no other item's.      *)
OneItemPerUnit ==
  \A i, j \in Items : link[i] # None /\ link[i] = link[j] => i = j

(* Behind DeliveredIsServed: an item's unit is never taken away, so the    *)
(* snapshot errs on one side only, and the loop ends with every item of    *)
(* the order in the snapshot or in the transaction's own writes.           *)
LoopLeavesNone ==
  \A w \in Workers :
    /\ job[w].target # "DELIVERED"
    /\ \A i \in Items : job[w].seen[i] # None => link[i] # None
    /\ job[w].pc = "count" =>
         \A i \in ItemsOf(job[w].ord) : job[w].seen[i] # None \/ job[w].taken[i] # None

IInv == TypeOK /\ RequestShape /\ UnitCustody /\ RowLocks /\ OneItemPerUnit
=============================================================================
