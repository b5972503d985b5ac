-------------------------- MODULE FulfilmentProofs --------------------------
(***************************************************************************)
(* Proofs about Fulfilment for every set of workers, orders, items and     *)
(* products and every finite set of units.                                 *)
(***************************************************************************)
EXTENDS Fulfilment, FiniteSetTheorems, TLAPS

-----------------------------------------------------------------------------
(* Types of what the operators of the model return.                        *)

(* A count of AVAILABLE rows is a number: there are finitely many units.   *)
LEMMA CountIsNat ==
  ASSUME NEW p, NEW t
  PROVE  Cardinality(Available(p, t)) \in Nat
<1>1. Available(p, t) \subseteq Units
  BY DEF Available
<1>2. IsFiniteSet(Available(p, t))
  BY <1>1, UnitsAreFinite, FS_Subset
<1> QED
  BY <1>2, FS_CardinalityType

(* What syncProductStock is about to write is a stock and a flag.          *)
LEMMA RecountType ==
  ASSUME TypeOK, NEW p \in Products, NEW t
  PROVE  Recount(p, t) \in [stock : Nat, active : BOOLEAN]
BY CountIsNat DEF Recount, TypeOK

(* Writing a set of recounts keeps the product table well typed.           *)
LEMMA SyncType ==
  ASSUME TypeOK, NEW w \in Workers
  PROVE  /\ StockAfter(job[w].sync) \in [Products -> Nat]
         /\ ActiveAfter(job[w].sync) \in [Products -> BOOLEAN]
<1>1. job[w].sync \in [Products -> [stock : Nat, active : BOOLEAN] \cup {None}]
  BY DEF TypeOK, Job
<1> QED
  BY <1>1 DEF StockAfter, ActiveAfter, TypeOK

(* The items of an order as a request reads them.                          *)
LEMMA ItemsAsReadType ==
  ASSUME TypeOK, NEW o
  PROVE  ItemsAsRead(o) \in [Items -> Units \cup {None}]
BY DEF ItemsAsRead, TypeOK

(* A request that ended, or a worker without one, holds no lock.           *)
LEMMA BlankType ==
  ASSUME NEW pc \in {"idle"} \cup Ended, NEW o \in Orders \cup {None}
  PROVE  /\ Blank(pc, o) \in Job
         /\ WellFormed(Blank(pc, o))
         /\ Blank(pc, o).taken = NoUnits
<1>1. Blank(pc, o) \in Job
  BY DEF Blank, Job, NoUnits, NoSync
<1>2. Blank(pc, o).pc = pc /\ Blank(pc, o).taken = NoUnits
  BY DEF Blank
<1>3. pc \notin Reading \cup InDelivery \cup InUpdate
  BY DEF Ended, Reading, InDelivery, InUpdate
<1>4. WellFormed(Blank(pc, o))
  BY <1>2, <1>3 DEF WellFormed, InDelivery, Reading
<1> QED
  BY <1>1, <1>2, <1>4

(* How a handler ended, as its worker remembers it.                        *)
LEMMA OutcomeType ==
  ASSUME TypeOK, NEW w \in Workers, NEW pc \in Ended
  PROVE  /\ Outcome(w, pc) \in Job
         /\ WellFormed(Outcome(w, pc))
         /\ Outcome(w, pc).taken = NoUnits
<1>1. job[w].ord \in Orders \cup {None}
  BY DEF TypeOK, Job
<1> QED
  BY <1>1, BlankType DEF Outcome

-----------------------------------------------------------------------------
(* A step that only changes what one worker remembers, and gives up no     *)
(* lock except by giving up all of them, preserves the invariant.          *)
LEMMA LocalStep ==
  ASSUME IInv, NEW w \in Workers, NEW k \in Job, WellFormed(k),
         job' = [job EXCEPT ![w] = k],
         UNCHANGED tables,
         \/ k.taken = NoUnits
         \/ k.taken = job[w].taken /\ k.pc \in InDelivery /\ k.ord = job[w].ord
  PROVE  IInv'
<1> USE DEF IInv
<1>1. TypeOK'
  BY DEF TypeOK, tables
<1>2. /\ job'[w] = k
      /\ \A v \in Workers : v # w => job'[v] = job[v]
  BY DEF TypeOK
<1>3. RequestShape'
  BY <1>2 DEF RequestShape, WellFormed, FoundUnit
<1>4. UnitCustody' /\ OneItemPerUnit'
  BY DEF UnitCustody, OneItemPerUnit, tables
<1>5. \A v \in Workers, i \in Items :
        job'[v].taken[i] # None =>
          /\ job'[v].taken[i] = job[v].taken[i]
          /\ job'[v].ord = job[v].ord
          /\ job'[v].pc \in InDelivery
  <2> SUFFICES ASSUME NEW v \in Workers, NEW i \in Items, job'[v].taken[i] # None
               PROVE  /\ job'[v].taken[i] = job[v].taken[i]
                      /\ job'[v].ord = job[v].ord
                      /\ job'[v].pc \in InDelivery
    OBVIOUS
  <2>1. CASE v = w
    BY <1>2, <2>1 DEF NoUnits
  <2>2. CASE v # w
    BY <1>2, <2>2 DEF RowLocks
  <2> QED
    BY <2>1, <2>2
<1>6. RowLocks'
  BY <1>5 DEF RowLocks, tables
<1> QED
  BY <1>1, <1>3, <1>4, <1>6

-----------------------------------------------------------------------------
(* One lemma for each step that only changes a worker's memory.            *)

(* A request to deliver an order.                                          *)
LEMMA StartDeliverStep ==
  ASSUME IInv, NEW w \in Workers, NEW o \in Orders, StartDeliver(w, o)
  PROVE  IInv'
<1> DEFINE k == [job[w] EXCEPT !.pc = "find", !.ord = o]
<1>0. job[w] \in Job /\ RowLocks
  BY DEF IInv, TypeOK
<1>1. k \in Job
  BY <1>0 DEF Job, Reading
<1>2. job' = [job EXCEPT ![w] = k] /\ UNCHANGED tables /\ job[w].pc = "idle"
  BY DEF StartDeliver
<1>3. k.taken = NoUnits
  BY <1>0, <1>2 DEF RowLocks, NoUnits, Job, InDelivery
<1>4. WellFormed(k)
  BY <1>0 DEF WellFormed, Job, InUpdate, Reading
<1> QED
  BY <1>1, <1>2, <1>3, <1>4, LocalStep

(* A request to change an order's status.                                  *)
LEMMA StartUpdateStep ==
  ASSUME IInv, NEW w \in Workers, NEW o \in Orders, NEW t \in Targets, StartUpdate(w, o, t)
  PROVE  IInv'
<1> DEFINE k == [job[w] EXCEPT !.pc = "readOrder", !.ord = o, !.target = t]
<1>0. job[w] \in Job /\ RowLocks /\ t \in OrderStatuses
  BY TargetsAssumption DEF IInv, TypeOK
<1>1. k \in Job
  BY <1>0 DEF Job, Reading
<1>2. job' = [job EXCEPT ![w] = k] /\ UNCHANGED tables /\ job[w].pc = "idle"
  BY DEF StartUpdate
<1>3. k.taken = NoUnits
  BY <1>0, <1>2 DEF RowLocks, NoUnits, Job, InDelivery
<1>4. WellFormed(k)
  BY <1>0 DEF WellFormed, Job
<1> QED
  BY <1>1, <1>2, <1>3, <1>4, LocalStep

(* Every early return, failure and answer: the worker forgets.             *)
LEMMA EndingSteps ==
  ASSUME IInv, NEW w \in Workers,
         UNCHANGED tables,
         \/ \E pc \in Ended : job' = [job EXCEPT ![w] = Outcome(w, pc)]
         \/ job' = [job EXCEPT ![w] = IdleJob]
  PROVE  IInv'
<1>1. TypeOK
  BY DEF IInv
<1>2. CASE \E pc \in Ended : job' = [job EXCEPT ![w] = Outcome(w, pc)]
  BY <1>1, <1>2, OutcomeType, LocalStep
<1>3. CASE job' = [job EXCEPT ![w] = IdleJob]
  BY <1>3, BlankType, LocalStep DEF IdleJob
<1> QED
  BY <1>2, <1>3

(* A worker between two handlers, or outside the delivery transaction,     *)
(* holds no lock.                                                          *)
LEMMA NoLocksOutsideDelivery ==
  ASSUME IInv, NEW w \in Workers, job[w].pc \notin InDelivery
  PROVE  job[w].taken = NoUnits
<1>1. \A i \in Items : job[w].taken[i] = None
  BY DEF IInv, RowLocks
<1> QED
  BY <1>1 DEF IInv, TypeOK, Job, NoUnits

(* The steps that read the order and its items.                            *)
LEMMA FindOrderStep ==
  ASSUME IInv, NEW w \in Workers, FindOrder(w)
  PROVE  IInv'
<1>0. TypeOK /\ job[w] \in Job /\ WellFormed(job[w]) /\ job[w].pc = "find"
  BY DEF IInv, TypeOK, RequestShape, FindOrder
<1>1. CASE status[job[w].ord] = "PAID"
  <2> DEFINE k == [job[w] EXCEPT !.pc = "findItems"]
  <2>1. k \in Job
    BY <1>0 DEF Job, Reading
  <2>2. job' = [job EXCEPT ![w] = k] /\ UNCHANGED tables
    BY <1>1 DEF FindOrder
  <2>3. k.taken = NoUnits
    BY <1>0, NoLocksOutsideDelivery DEF Job, InDelivery
  <2>4. WellFormed(k)
    BY <1>0 DEF WellFormed, Job, InUpdate, Reading
  <2> QED
    BY <2>1, <2>2, <2>3, <2>4, LocalStep
<1>2. CASE status[job[w].ord] # "PAID"
  BY <1>2, EndingSteps DEF FindOrder, Ended
<1> QED
  BY <1>1, <1>2

(* The snapshot of the items that the delivery will work on.               *)
LEMMA FindItemsStep ==
  ASSUME IInv, NEW w \in Workers, FindItems(w)
  PROVE  IInv'
<1> DEFINE k == [job[w] EXCEPT !.pc = "begin", !.seen = ItemsAsRead(job[w].ord)]
<1>0. TypeOK /\ job[w] \in Job /\ WellFormed(job[w]) /\ job[w].pc = "findItems"
  BY DEF IInv, TypeOK, RequestShape, FindItems
<1>1. k \in Job
  BY <1>0, ItemsAsReadType DEF Job, Reading
<1>2. job' = [job EXCEPT ![w] = k] /\ UNCHANGED tables
  BY DEF FindItems
<1>3. k.taken = NoUnits
  BY <1>0, NoLocksOutsideDelivery DEF Job, InDelivery
<1>4. WellFormed(k)
  BY <1>0 DEF WellFormed, Job, InUpdate, Reading
<1> QED
  BY <1>1, <1>2, <1>3, <1>4, LocalStep

(* The transaction starts without any lock.                                *)
LEMMA BeginDeliveryStep ==
  ASSUME IInv, NEW w \in Workers, BeginDelivery(w)
  PROVE  IInv'
<1>0. TypeOK /\ job[w] \in Job /\ WellFormed(job[w]) /\ job[w].pc = "begin"
  BY DEF IInv, TypeOK, RequestShape, BeginDelivery
<1>1. CASE status[job[w].ord] = "PAID"
  <2> DEFINE k == [job[w] EXCEPT !.pc = "take"]
  <2>1. k \in Job
    BY <1>0 DEF Job, InDelivery
  <2>2. job' = [job EXCEPT ![w] = k] /\ UNCHANGED tables
    BY <1>1 DEF BeginDelivery
  <2>3. k.taken = NoUnits
    BY <1>0, NoLocksOutsideDelivery DEF Job, InDelivery
  <2>4. WellFormed(k)
    BY <1>0 DEF WellFormed, Job, InUpdate, Reading
  <2> QED
    BY <2>1, <2>2, <2>3, <2>4, LocalStep
<1>2. CASE status[job[w].ord] # "PAID"
  BY <1>2, EndingSteps DEF BeginDelivery, Ended
<1> QED
  BY <1>1, <1>2

(* findFirst returns a unit that this transaction has not taken itself.    *)
LEMMA FindUnitStep ==
  ASSUME IInv, NEW w \in Workers, NEW i \in Items, NEW u \in Units, FindUnit(w, i, u)
  PROVE  IInv'
<1> DEFINE k == [job[w] EXCEPT !.pc = "lock", !.item = i, !.unit = u]
<1>0. TypeOK /\ job[w] \in Job /\ WellFormed(job[w]) /\ job[w].pc = "take"
  BY DEF IInv, TypeOK, RequestShape, FindUnit
<1>1. k \in Job
  BY <1>0 DEF Job, InDelivery
<1>2. job' = [job EXCEPT ![w] = k] /\ UNCHANGED tables
  BY DEF FindUnit
<1>3. /\ k.taken = job[w].taken /\ k.ord = job[w].ord
      /\ k.pc = "lock" /\ k.item = i /\ k.unit = u
  BY <1>0 DEF Job
<1>4. /\ OrderOf[i] = job[w].ord
      /\ job[w].taken[i] = None
      /\ UnitProduct[u] = ItemProduct[i]
      /\ \A j \in Items : job[w].taken[j] # u
  BY DEF FindUnit, Unserved, ItemsOf, Available
<1>5. job[w].ord \in Orders
  BY <1>0 DEF WellFormed, InDelivery
<1>6. WellFormed(k)
  BY <1>3, <1>4, <1>5 DEF WellFormed, FoundUnit, InUpdate
<1> QED
  BY <1>1, <1>2, <1>3, <1>6, LocalStep DEF InDelivery

(* The step that takes a lock: the guards and the unique indexes give      *)
(* every conjunct of RowLocks for the new pair.                            *)
LEMMA TakeUnitStep ==
  ASSUME IInv, NEW w \in Workers, TakeUnit(w)
  PROVE  IInv'
<1>0. /\ TypeOK /\ RowLocks /\ UnitCustody
      /\ job[w] \in Job /\ job \in [Workers -> Job]
      /\ WellFormed(job[w]) /\ job[w].pc = "lock"
  BY DEF IInv, TypeOK, RequestShape, TakeUnit
<1>1. CASE ~ StillFree(w)
  BY <1>1, EndingSteps DEF TakeUnit, Ended
<1>2. CASE StillFree(w)
  <2> DEFINE i == job[w].item
             u == job[w].unit
             t == [job[w].taken EXCEPT ![i] = u]
             k == [job[w] EXCEPT !.pc = "take", !.taken = t, !.item = None, !.unit = None]
  <2>1. /\ i \in Items /\ u \in Units
        /\ OrderOf[i] = job[w].ord /\ UnitProduct[u] = ItemProduct[i]
        /\ job[w].ord \in Orders
        /\ \A j \in Items : job[w].taken[j] # u
    BY <1>0 DEF WellFormed, FoundUnit, InDelivery
  <2>2. t \in [Items -> Units \cup {None}]
    BY <1>0, <2>1 DEF Job
  <2>3. k \in Job
    BY <1>0, <2>2 DEF Job, InDelivery
  <2>4. job' = [job EXCEPT ![w] = k] /\ UNCHANGED tables
    <3>1. job' = [job EXCEPT ![w].pc = "take", ![w].taken[job[w].item] = job[w].unit,
                             ![w].item = None, ![w].unit = None]
      BY <1>2 DEF TakeUnit
    <3>2. UNCHANGED tables
      BY DEF TakeUnit
    <3> QED
      BY <3>1, <3>2
  <2>5. /\ \A v \in Workers : v # w => job'[v] = job[v]
        /\ job'[w].pc = "take" /\ job'[w].ord = job[w].ord
        /\ job'[w].taken = t
    BY <1>0, <2>4 DEF Job
  <2>6. TypeOK'
    BY <1>0, <2>3, <2>4 DEF TypeOK, tables
  <2>7. RequestShape'
    <3>1. WellFormed(job'[w])
      BY <2>1, <2>5 DEF WellFormed, InUpdate
    <3> QED
      BY <2>5, <3>1 DEF IInv, RequestShape, WellFormed, FoundUnit
  <2>8. UnitCustody' /\ OneItemPerUnit'
    BY <2>4 DEF IInv, UnitCustody, OneItemPerUnit, tables
  <2>9. /\ unit[u] = "AVAILABLE"
        /\ \A x \in Units : owner[x] # i
        /\ \A j \in Items : link[j] = u => j = i
        /\ \A v \in Workers : v # w => job[v].taken[i] = None
        /\ \A v \in Workers, j \in Items : job[v].taken[j] # u
    <3>1. /\ unit[u] = "AVAILABLE"
          /\ \A x \in Units : owner[x] = i => x = u
          /\ \A j \in Items : link[j] = u => j = i
      BY <1>2 DEF StillFree
    <3>2. owner[u] = None
      BY <1>0, <2>1, <3>1 DEF UnitCustody
    <3>3. /\ \A v \in Workers : v # w => job[v].taken[i] = None
          /\ \A v \in Workers, j \in Items : job[v].taken[j] # u
      BY <2>1 DEF TakeUnit, LockedByOther, ItemLockedByOther
    <3> QED
      BY <2>1, <3>1, <3>2, <3>3, NoneAssumption
  <2>10. RowLocks'
    <3> SUFFICES ASSUME NEW v \in Workers, NEW j \in Items, job'[v].taken[j] # None
                 PROVE  LET x == job'[v].taken[j]
                        IN  /\ job'[v].pc \in InDelivery
                            /\ OrderOf[j] = job'[v].ord
                            /\ UnitProduct[x] = ItemProduct[j]
                            /\ unit[x] = "AVAILABLE"
                            /\ \A y \in Workers, l \in Items :
                                  job'[y].taken[l] = x => y = v /\ l = j
                            /\ \A y \in Workers : y # v => job'[y].taken[j] = None
                            /\ \A l \in Items : link[l] = x => l = j
                            /\ \A y \in Units : owner[y] # j
      BY <2>4 DEF RowLocks, tables
    <3>1. \A y \in Workers, l \in Items :
            job'[y].taken[l] = IF y = w /\ l = i THEN u ELSE job[y].taken[l]
      BY <1>0, <2>1, <2>5 DEF Job
    <3>2. CASE v = w /\ j = i
      BY <2>1, <2>5, <2>9, <3>1, <3>2 DEF InDelivery
    <3>3. CASE ~ (v = w /\ j = i)
      <4>1. job'[v].taken[j] = job[v].taken[j] /\ job[v].taken[j] # None
        BY <3>1, <3>3
      <4>2. job[v].taken[j] # u
        BY <2>9
      <4>3. j # i
        BY <2>9, <3>3, <4>1, <1>0 DEF WellFormed, FoundUnit
      <4>4. job'[v].pc \in InDelivery /\ job'[v].ord = job[v].ord
        BY <1>0, <2>5, <4>1 DEF RowLocks, InDelivery
      <4>5. \A y \in Workers, l \in Items :
              job'[y].taken[l] = job'[v].taken[j] => y = v /\ l = j
        BY <1>0, <3>1, <4>1, <4>2 DEF RowLocks
      <4>6. \A y \in Workers : y # v => job'[y].taken[j] = None
        BY <1>0, <3>1, <4>1, <4>3 DEF RowLocks
      <4> QED
        BY <1>0, <4>1, <4>4, <4>5, <4>6 DEF RowLocks
    <3> QED
      BY <3>2, <3>3
  <2> QED
    BY <2>6, <2>7, <2>8, <2>10 DEF IInv
<1> QED
  BY <1>1, <1>2

(* The recount keeps what the loop has taken.                              *)
LEMMA BeginSyncStep ==
  ASSUME IInv, NEW w \in Workers, BeginSync(w)
  PROVE  IInv'
<1> DEFINE ps == {ItemProduct[i] : i \in {j \in Items : job[w].taken[j] # None}}
           k == [job[w] EXCEPT !.pc = "count", !.todo = ps]
<1>0. TypeOK /\ job[w] \in Job /\ WellFormed(job[w]) /\ job[w].pc = "take"
  BY DEF IInv, TypeOK, RequestShape, BeginSync
<1>1. ps \subseteq Products
  BY CatalogAssumption
<1>2. k \in Job
  BY <1>0, <1>1 DEF Job, InDelivery
<1>3. job' = [job EXCEPT ![w] = k] /\ UNCHANGED tables
  BY DEF BeginSync
<1>4. k.taken = job[w].taken /\ k.ord = job[w].ord /\ k.pc = "count"
  BY <1>0 DEF Job
<1>5. WellFormed(k)
  BY <1>0, <1>4 DEF WellFormed, InUpdate, InDelivery
<1> QED
  BY <1>2, <1>3, <1>4, <1>5, LocalStep DEF InDelivery

(* Counting, in either handler.                                            *)
LEMMA CountStockStep ==
  ASSUME IInv, NEW w \in Workers, NEW p \in Products, CountStock(w, p)
  PROVE  IInv'
<1> DEFINE r == Recount(p, job[w].taken)
           q == IF job[w].pc = "resync" THEN "store" ELSE job[w].pc
           k == [job[w] EXCEPT !.todo = @ \ {p}, !.sync[p] = r, !.pc = q]
<1>0. /\ TypeOK /\ job[w] \in Job /\ WellFormed(job[w])
      /\ job[w].pc \in {"count", "resync"}
  BY DEF IInv, TypeOK, RequestShape, CountStock
<1>1. r \in [stock : Nat, active : BOOLEAN]
  BY <1>0, RecountType
<1>2. q \in {"count", "store"}
  BY <1>0
<1>3. k \in Job
  <2>1. [job[w].sync EXCEPT ![p] = r] \in
          [Products -> [stock : Nat, active : BOOLEAN] \cup {None}]
    BY <1>0, <1>1 DEF Job
  <2>2. job[w].todo \ {p} \in SUBSET Products
    BY <1>0 DEF Job
  <2> QED
    BY <1>0, <1>2, <2>1, <2>2 DEF Job, InDelivery, InUpdate
<1>4. job' = [job EXCEPT ![w] = k] /\ UNCHANGED tables
  BY DEF CountStock
<1>5. /\ k.taken = job[w].taken /\ k.ord = job[w].ord /\ k.target = job[w].target
      /\ k.pc = q
  BY <1>0 DEF Job
<1>6. WellFormed(k)
  BY <1>0, <1>2, <1>5 DEF WellFormed, InUpdate, InDelivery
<1>7. CASE job[w].pc = "count"
  BY <1>3, <1>4, <1>5, <1>6, <1>7, LocalStep DEF InDelivery
<1>8. CASE job[w].pc = "resync"
  <2>1. k.taken = NoUnits
    BY <1>5, <1>8, NoLocksOutsideDelivery DEF InDelivery
  <2> QED
    BY <1>3, <1>4, <1>6, <2>1, LocalStep
<1> QED
  BY <1>0, <1>7, <1>8

(* updateStatus reads the order, with no lock held.                        *)
LEMMA ReadOrderStep ==
  ASSUME IInv, NEW w \in Workers, ReadOrder(w)
  PROVE  IInv'
<1>0. TypeOK /\ job[w] \in Job /\ WellFormed(job[w]) /\ job[w].pc = "readOrder"
  BY DEF IInv, TypeOK, RequestShape, ReadOrder
<1>1. CASE job[w].target \in ValidTransitions[status[job[w].ord]]
  <2> DEFINE k == [job[w] EXCEPT !.pc = "readItems"]
  <2>1. k \in Job
    BY <1>0 DEF Job, InUpdate
  <2>2. job' = [job EXCEPT ![w] = k] /\ UNCHANGED tables
    BY <1>1 DEF ReadOrder
  <2>3. k.taken = NoUnits
    BY <1>0, NoLocksOutsideDelivery DEF Job, InDelivery
  <2>4. WellFormed(k)
    BY <1>0 DEF WellFormed, Job, InUpdate, Reading
  <2> QED
    BY <2>1, <2>2, <2>3, <2>4, LocalStep
<1>2. CASE job[w].target \notin ValidTransitions[status[job[w].ord]]
  BY <1>2, EndingSteps DEF ReadOrder, Ended
<1> QED
  BY <1>1, <1>2

(* It reads the items whose units it may give back.                        *)
LEMMA ReadItemsStep ==
  ASSUME IInv, NEW w \in Workers, ReadItems(w)
  PROVE  IInv'
<1> DEFINE q == IF job[w].target \in ReleasingStatuses THEN "releaseKeys" ELSE "resync"
           k == [job[w] EXCEPT !.pc = q, !.seen = ItemsAsRead(job[w].ord)]
<1>0. TypeOK /\ job[w] \in Job /\ WellFormed(job[w]) /\ job[w].pc = "readItems"
  BY DEF IInv, TypeOK, RequestShape, ReadItems
<1>1. k \in Job
  BY <1>0, ItemsAsReadType DEF Job, InUpdate
<1>2. job' = [job EXCEPT ![w] = k] /\ UNCHANGED tables
  BY DEF ReadItems
<1>3. /\ k.taken = NoUnits /\ k.ord = job[w].ord /\ k.target = job[w].target
      /\ k.pc \in {"releaseKeys", "resync"}
  BY <1>0, NoLocksOutsideDelivery DEF Job, InDelivery
<1>4. WellFormed(k)
  BY <1>0, <1>3 DEF WellFormed, InUpdate
<1> QED
  BY <1>1, <1>2, <1>3, <1>4, LocalStep

-----------------------------------------------------------------------------
(* Steps that write tables.                                                *)

(* Only units and items matter to custody: a step on the other tables that *)
(* gives up every lock of one worker, or none, has nothing else to show.   *)
LEMMA OtherTables ==
  ASSUME IInv, UNCHANGED <<link, unit, owner>>,
         status' \in [Orders -> OrderStatuses],
         stock' \in [Products -> Nat],
         active' \in [Products -> BOOLEAN],
         \/ UNCHANGED job
         \/ \E w \in Workers, k \in Job :
              /\ job' = [job EXCEPT ![w] = k]
              /\ WellFormed(k)
              /\ k.taken = NoUnits
  PROVE  IInv'
<1> USE DEF IInv
<1>1. job' \in [Workers -> Job] /\ RequestShape'
  BY DEF TypeOK, RequestShape, WellFormed, FoundUnit
<1>2. TypeOK'
  BY <1>1 DEF TypeOK
<1>3. UnitCustody' /\ OneItemPerUnit'
  BY DEF UnitCustody, OneItemPerUnit
<1>4. \A v \in Workers : job'[v] = job[v] \/ job'[v].taken = NoUnits
  BY DEF TypeOK
<1>5. RowLocks'
  BY <1>4 DEF RowLocks, NoUnits
<1> QED
  BY <1>1, <1>2, <1>3, <1>5

(* The second half of a recount outside a transaction.                     *)
LEMMA StoreStockStep ==
  ASSUME IInv, NEW w \in Workers, StoreStock(w)
  PROVE  IInv'
<1> DEFINE k == [job[w] EXCEPT !.pc = "resync", !.sync = NoSync]
<1>0. TypeOK /\ job[w] \in Job /\ WellFormed(job[w]) /\ job[w].pc = "store"
  BY DEF IInv, TypeOK, RequestShape, StoreStock
<1>1. k \in Job
  BY <1>0 DEF Job, InUpdate, NoSync
<1>2. k.taken = NoUnits /\ k.ord = job[w].ord /\ k.target = job[w].target /\ k.pc = "resync"
  BY <1>0, NoLocksOutsideDelivery DEF Job, InDelivery
<1>3. WellFormed(k)
  BY <1>0, <1>2 DEF WellFormed, InUpdate
<1>4. job' = [job EXCEPT ![w] = k]
  BY DEF StoreStock
<1>5. /\ status' \in [Orders -> OrderStatuses]
      /\ stock' \in [Products -> Nat] /\ active' \in [Products -> BOOLEAN]
  BY <1>0, SyncType DEF StoreStock, TypeOK
<1>6. UNCHANGED <<link, unit, owner>>
  BY DEF StoreStock
<1> QED
  BY <1>1, <1>2, <1>3, <1>4, <1>5, <1>6, OtherTables

(* The last write of updateStatus.                                         *)
LEMMA WriteStatusStep ==
  ASSUME IInv, NEW w \in Workers, WriteStatus(w)
  PROVE  IInv'
<1>0. TypeOK /\ WellFormed(job[w]) /\ job[w].pc = "resync"
  BY DEF IInv, RequestShape, WriteStatus
<1>1. job[w].ord \in Orders /\ job[w].target \in OrderStatuses
  BY <1>0 DEF WellFormed, InUpdate
<1>2. /\ status' \in [Orders -> OrderStatuses]
      /\ stock' \in [Products -> Nat] /\ active' \in [Products -> BOOLEAN]
      /\ UNCHANGED <<link, unit, owner>>
      /\ job' = [job EXCEPT ![w] = Outcome(w, "done")]
  BY <1>0, <1>1 DEF WriteStatus, TypeOK
<1> QED
  BY <1>0, <1>2, OutcomeType, OtherTables DEF Ended

(* The payments side writes a status at any time.                          *)
LEMMA SetStatusStep ==
  ASSUME IInv, NEW o \in Orders, PaymentApproved(o) \/ PaymentRejected(o)
  PROVE  IInv'
<1>1. /\ status' \in [Orders -> OrderStatuses]
      /\ stock' \in [Products -> Nat] /\ active' \in [Products -> BOOLEAN]
      /\ UNCHANGED <<link, unit, owner, job>>
  BY DEF PaymentApproved, PaymentRejected, SetStatus, IInv, TypeOK, OrderStatuses
<1> QED
  BY <1>1, OtherTables

(* Giving units back touches no row that an open transaction has locked.   *)
LEMMA ReleaseStep ==
  ASSUME IInv, NEW w \in Workers, ReleaseKeys(w) \/ ReleaseAccounts(w)
  PROVE  IInv'
<1>0. /\ TypeOK /\ job[w] \in Job /\ WellFormed(job[w]) /\ RowLocks /\ UnitCustody
      /\ job[w].pc \in {"releaseKeys", "releaseAccounts"}
  BY DEF IInv, TypeOK, RequestShape, ReleaseKeys, ReleaseAccounts
<1>1. PICK type : Release(w, type)
  BY DEF ReleaseKeys, ReleaseAccounts
<1>2. PICK k \in Job : /\ job' = [job EXCEPT ![w] = k]
                       /\ k.taken = NoUnits
                       /\ WellFormed(k)
  <2>1. job[w].taken = NoUnits
    BY <1>0, NoLocksOutsideDelivery DEF InDelivery
  <2>2. CASE ReleaseKeys(w)
    <3> DEFINE k == [job[w] EXCEPT !.pc = "releaseAccounts"]
    <3>1. k \in Job /\ k.taken = NoUnits
      BY <1>0, <2>1 DEF Job, InUpdate
    <3>2. WellFormed(k)
      BY <1>0 DEF WellFormed, Job, InUpdate
    <3>3. job' = [job EXCEPT ![w] = k]
      BY <2>2 DEF ReleaseKeys
    <3> QED
      BY <3>1, <3>2, <3>3
  <2>3. CASE ReleaseAccounts(w)
    <3> DEFINE ps == {ItemProduct[i] : i \in {j \in Items : job[w].seen[j] # None}}
               k == [job[w] EXCEPT !.pc = "resync", !.todo = ps]
    <3>1. ps \subseteq Products
      BY CatalogAssumption
    <3>2. k \in Job /\ k.taken = NoUnits
      BY <1>0, <2>1, <3>1 DEF Job, InUpdate
    <3>3. WellFormed(k)
      BY <1>0 DEF WellFormed, Job, InUpdate
    <3>4. job' = [job EXCEPT ![w] = k]
      BY <2>3 DEF ReleaseAccounts
    <3> QED
      BY <3>2, <3>3, <3>4
  <2> QED
    BY <2>2, <2>3
<1> DEFINE us == Released(w, type)
<1>3. /\ unit' = [u \in Units |-> IF u \in us THEN "AVAILABLE" ELSE unit[u]]
      /\ owner' = [u \in Units |-> IF u \in us THEN None ELSE owner[u]]
      /\ UNCHANGED <<status, link, stock, active>>
  BY <1>1 DEF Release
<1>4. \A v \in Workers : job'[v] = job[v] \/ job'[v].taken = NoUnits
  BY <1>0, <1>2 DEF TypeOK
<1>5. TypeOK'
  BY <1>0, <1>2, <1>3 DEF TypeOK, UnitStatuses
<1>6. RequestShape'
  BY <1>0, <1>2 DEF IInv, TypeOK, RequestShape, WellFormed, FoundUnit
<1>7. UnitCustody'
  BY <1>0, <1>3, NoneAssumption DEF UnitCustody, TypeOK
<1>8. OneItemPerUnit'
  BY <1>3 DEF IInv, OneItemPerUnit
<1>9. \A x \in Units, i \in Items : owner[x] # i => owner'[x] # i
  BY <1>3, NoneAssumption
<1>10. \A x \in Units : unit[x] = "AVAILABLE" => unit'[x] = "AVAILABLE"
  BY <1>3
<1>11. RowLocks'
  <2> SUFFICES ASSUME NEW v \in Workers, NEW i \in Items, job'[v].taken[i] # None
               PROVE  LET u == job'[v].taken[i]
                      IN  /\ job'[v].pc \in InDelivery
                          /\ OrderOf[i] = job'[v].ord
                          /\ UnitProduct[u] = ItemProduct[i]
                          /\ unit'[u] = "AVAILABLE"
                          /\ \A y \in Workers, l \in Items :
                                job'[y].taken[l] = u => y = v /\ l = i
                          /\ \A y \in Workers : y # v => job'[y].taken[i] = None
                          /\ \A l \in Items : link'[l] = u => l = i
                          /\ \A y \in Units : owner'[y] # i
    BY DEF RowLocks
  <2>1. job'[v] = job[v]
    BY <1>4 DEF NoUnits
  <2>2. job[v].taken[i] \in Units
    BY <1>0, <2>1 DEF TypeOK, Job
  <2>3. \A y \in Workers, l \in Items :
          job'[y].taken[l] = job[v].taken[i] => y = v /\ l = i
    BY <1>0, <1>4, <2>1 DEF RowLocks, NoUnits
  <2>4. \A y \in Workers : y # v => job'[y].taken[i] = None
    BY <1>0, <1>4, <2>1 DEF RowLocks, NoUnits
  <2> QED
    BY <1>0, <1>3, <1>9, <1>10, <2>1, <2>2, <2>3, <2>4 DEF RowLocks
<1> QED
  BY <1>5, <1>6, <1>7, <1>8, <1>11 DEF IInv

(* The commit: custody after it is what RowLocks promised.                 *)
LEMMA CommitDeliveryStep ==
  ASSUME IInv, NEW w \in Workers, CommitDelivery(w)
  PROVE  IInv'
<1> DEFINE t == job[w].taken
           got(u) == {i \in Items : t[i] = u}
           k == Outcome(w, "done")
<1>0. /\ TypeOK /\ job[w] \in Job /\ RowLocks /\ UnitCustody /\ OneItemPerUnit
      /\ WellFormed(job[w]) /\ job[w].pc = "count"
  BY DEF IInv, TypeOK, RequestShape, CommitDelivery
<1>1. /\ link' = [i \in Items |-> IF t[i] = None THEN link[i] ELSE t[i]]
      /\ unit' = [u \in Units |-> IF got(u) = {} THEN unit[u] ELSE "DELIVERED"]
      /\ owner' = [u \in Units |-> IF got(u) = {} THEN owner[u] ELSE CHOOSE i \in got(u) : TRUE]
      /\ job' = [job EXCEPT ![w] = k]
      /\ status' = [status EXCEPT ![job[w].ord] = "DELIVERED"]
      /\ stock' = StockAfter(job[w].sync)
      /\ active' = ActiveAfter(job[w].sync)
  BY DEF CommitDelivery
<1>2. k \in Job /\ WellFormed(k) /\ k.taken = NoUnits
  BY <1>0, OutcomeType DEF Ended
<1>3. t \in [Items -> Units \cup {None}]
  BY <1>0 DEF Job
<1>4. \A u \in Units : got(u) # {} => owner'[u] \in Items /\ t[owner'[u]] = u
  BY <1>1
<1>5. \A u \in Units : got(u) = {} => owner'[u] = owner[u] /\ unit'[u] = unit[u]
  BY <1>1
<1>6. TypeOK'
  <2>1. owner' \in [Units -> Items \cup {None}]
    BY <1>0, <1>1, <1>4, <1>5 DEF TypeOK
  <2>2. unit' \in [Units -> UnitStatuses] /\ link' \in [Items -> Units \cup {None}]
    BY <1>0, <1>1, <1>3 DEF TypeOK, UnitStatuses
  <2>3. status' \in [Orders -> OrderStatuses] /\ job' \in [Workers -> Job]
    BY <1>0, <1>1, <1>2 DEF TypeOK, OrderStatuses
  <2> QED
    BY <1>0, <1>1, <2>1, <2>2, <2>3, SyncType DEF TypeOK
<1>7. \A v \in Workers : (v # w => job'[v] = job[v]) /\ job'[w] = k
  BY <1>0, <1>1 DEF TypeOK
<1>8. RequestShape'
  BY <1>2, <1>7 DEF IInv, RequestShape, WellFormed, FoundUnit
<1>9. UnitCustody'
  <2> SUFFICES ASSUME NEW u \in Units
               PROVE  /\ (unit'[u] = "DELIVERED") <=> (owner'[u] # None)
                      /\ owner'[u] # None => link'[owner'[u]] = u
    BY DEF UnitCustody
  <2>1. CASE got(u) # {}
    BY <1>1, <1>4, <2>1, NoneAssumption
  <2>2. CASE got(u) = {}
    <3>1. (unit'[u] = "DELIVERED") <=> (owner'[u] # None)
      BY <1>0, <1>5, <2>2 DEF UnitCustody
    <3>2. ASSUME owner'[u] # None
          PROVE  link'[owner'[u]] = u
      <4>1. owner[u] \in Items /\ owner'[u] = owner[u] /\ link[owner[u]] = u
        BY <1>0, <1>5, <2>2, <3>2 DEF UnitCustody, TypeOK
      <4>2. t[owner[u]] = None
        BY <1>0, <4>1 DEF RowLocks
      <4> QED
        BY <1>1, <4>1, <4>2
    <3> QED
      BY <3>1, <3>2
  <2> QED
    BY <2>1, <2>2
<1>10. OneItemPerUnit'
  <2> SUFFICES ASSUME NEW i \in Items, NEW j \in Items, link'[i] # None, link'[i] = link'[j]
               PROVE  i = j
    BY DEF OneItemPerUnit
  <2>1. CASE t[i] # None /\ t[j] # None
    BY <1>0, <1>1, <2>1 DEF RowLocks
  <2>2. CASE t[i] # None /\ t[j] = None
    BY <1>0, <1>1, <2>2 DEF RowLocks
  <2>3. CASE t[i] = None /\ t[j] # None
    BY <1>0, <1>1, <2>3 DEF RowLocks
  <2>4. CASE t[i] = None /\ t[j] = None
    BY <1>0, <1>1, <2>4 DEF OneItemPerUnit
  <2> QED
    BY <2>1, <2>2, <2>3, <2>4
<1>11. RowLocks'
  <2> SUFFICES ASSUME NEW v \in Workers, NEW i \in Items, job'[v].taken[i] # None
               PROVE  LET u == job'[v].taken[i]
                      IN  /\ job'[v].pc \in InDelivery
                          /\ OrderOf[i] = job'[v].ord
                          /\ UnitProduct[u] = ItemProduct[i]
                          /\ unit'[u] = "AVAILABLE"
                          /\ \A y \in Workers, l \in Items :
                                job'[y].taken[l] = u => y = v /\ l = i
                          /\ \A y \in Workers : y # v => job'[y].taken[i] = None
                          /\ \A l \in Items : link'[l] = u => l = i
                          /\ \A y \in Units : owner'[y] # i
    BY DEF RowLocks
  <2> DEFINE u == job[v].taken[i]
  <2>1. v # w /\ job'[v] = job[v] /\ u # None
    BY <1>2, <1>7 DEF NoUnits
  <2>2. u \in Units
    BY <1>0, <2>1 DEF TypeOK, Job
  <2>3. t[i] = None /\ \A l \in Items : t[l] # u
    BY <1>0, <2>1 DEF RowLocks
  <2>4. got(u) = {}
    BY <2>3
  <2>5. unit'[u] = "AVAILABLE"
    BY <1>0, <1>5, <2>1, <2>2, <2>4 DEF RowLocks
  <2>6. \A l \in Items : link'[l] = u => l = i
    BY <1>0, <1>1, <2>1, <2>3 DEF RowLocks
  <2>7. \A y \in Units : owner'[y] # i
    <3> SUFFICES ASSUME NEW y \in Units, owner'[y] = i
                 PROVE  FALSE
      OBVIOUS
    <3>1. owner[y] # i
      BY <1>0, <2>1 DEF RowLocks
    <3>2. t[i] = y
      BY <1>4, <1>5, <3>1
    <3> QED
      BY <2>3, <3>2, NoneAssumption
  <2>8. /\ \A y \in Workers, l \in Items : job'[y].taken[l] = u => y = v /\ l = i
        /\ \A y \in Workers : y # v => job'[y].taken[i] = None
    BY <1>0, <1>2, <1>7, <2>1 DEF RowLocks, NoUnits
  <2> QED
    BY <1>0, <2>1, <2>5, <2>6, <2>7, <2>8 DEF RowLocks
<1> QED
  BY <1>6, <1>8, <1>9, <1>10, <1>11 DEF IInv

-----------------------------------------------------------------------------
(* A crash rolls every open transaction back.                              *)
LEMMA CrashStep ==
  ASSUME IInv, Crash
  PROVE  IInv'
<1>1. /\ \A w \in Workers : job'[w] = IdleJob
      /\ job' \in [Workers -> Job]
      /\ WellFormed(IdleJob) /\ IdleJob.taken = NoUnits
  BY BlankType DEF Crash, IdleJob
<1>2. UNCHANGED tables
  BY DEF Crash
<1>3. TypeOK'
  BY <1>1, <1>2 DEF IInv, TypeOK, tables
<1>4. RequestShape'
  BY <1>1 DEF RequestShape, WellFormed, FoundUnit
<1>5. UnitCustody' /\ OneItemPerUnit'
  BY <1>2 DEF IInv, UnitCustody, OneItemPerUnit, tables
<1>6. RowLocks'
  BY <1>1 DEF RowLocks, NoUnits
<1> QED
  BY <1>3, <1>4, <1>5, <1>6 DEF IInv

(* The invariant holds at the start.                                       *)
LEMMA InitIInv == Init => IInv
<1> SUFFICES ASSUME Init PROVE IInv
  OBVIOUS
<1>1. \A w \in Workers : job[w] \in Job /\ WellFormed(job[w]) /\ job[w].taken = NoUnits
  BY BlankType DEF Init, IdleJob
<1>2. \A p \in Products : Cardinality({u \in Units : UnitProduct[u] = p}) \in Nat
  <2> TAKE p \in Products
  <2>1. IsFiniteSet({u \in Units : UnitProduct[u] = p})
    BY UnitsAreFinite, FS_Subset
  <2> QED
    BY <2>1, FS_CardinalityType
<1>3. TypeOK
  BY <1>1, <1>2 DEF Init, TypeOK, OrderStatuses, UnitStatuses, NoUnits
<1>4. RequestShape /\ RowLocks
  BY <1>1 DEF RequestShape, RowLocks, NoUnits
<1>5. UnitCustody /\ OneItemPerUnit
  BY DEF Init, UnitCustody, OneItemPerUnit, NoUnits
<1> QED
  BY <1>3, <1>4, <1>5 DEF IInv

(* Every step keeps it.                                                    *)
LEMMA NextIInv == IInv /\ [Next]_vars => IInv'
<1> SUFFICES ASSUME IInv, [Next]_vars PROVE IInv'
  OBVIOUS
<1>1. ASSUME NEW w \in Workers, Request(w) PROVE IInv'
  BY <1>1, StartDeliverStep, StartUpdateStep DEF Request
<1>2. ASSUME NEW w \in Workers, DeliverStep(w) PROVE IInv'
  <2>1. ASSUME NEW i \in Items, NoUnitAvailable(w, i) PROVE IInv'
    BY <2>1, EndingSteps DEF NoUnitAvailable, Ended
  <2> QED
    BY <1>2, <2>1, FindOrderStep, FindItemsStep, BeginDeliveryStep, FindUnitStep, TakeUnitStep,
       BeginSyncStep, CommitDeliveryStep DEF DeliverStep
<1>3. ASSUME NEW w \in Workers, UpdateStep(w) PROVE IInv'
  BY <1>3, ReadOrderStep, ReadItemsStep, ReleaseStep, StoreStockStep, WriteStatusStep
     DEF UpdateStep
<1>4. ASSUME NEW w \in Workers, NEW p \in Products, CountStock(w, p) PROVE IInv'
  BY <1>4, CountStockStep
<1>5. ASSUME NEW w \in Workers, StatementFails(w) \/ Return(w) PROVE IInv'
  BY <1>5, EndingSteps DEF StatementFails, Return, Ended
<1>6. ASSUME NEW o \in Orders, PaymentApproved(o) \/ PaymentRejected(o) PROVE IInv'
  BY <1>6, SetStatusStep
<1>7. CASE Crash
  BY <1>7, CrashStep
<1>8. CASE UNCHANGED vars
  <2>1. UNCHANGED tables /\ UNCHANGED job
    BY <1>8 DEF vars, tables
  <2> QED
    BY <2>1 DEF IInv, TypeOK, RequestShape, WellFormed, FoundUnit, UnitCustody,
                RowLocks, OneItemPerUnit, tables
<1> QED
  BY <1>1, <1>2, <1>3, <1>4, <1>5, <1>6, <1>7, <1>8 DEF Next, HandlerStep

(* The strengthened invariant holds in every reachable state.              *)
THEOREM Invariance == Spec => []IInv
BY InitIInv, NextIInv, PTL DEF Spec

(* The tables and the memory of the workers stay well typed.               *)
THEOREM TypeCorrect == Spec => []TypeOK
<1>1. IInv => TypeOK
  BY DEF IInv
<1> QED
  BY <1>1, Invariance, PTL

(* Custody of the units, whatever the requests, their interleaving, the    *)
(* failures and the payments.                                              *)
THEOREM Custody == Spec => []UnitCustody
<1>1. IInv => UnitCustody
  BY DEF IInv
<1> QED
  BY <1>1, Invariance, PTL

(* What an open delivery has taken is its own until it commits: no other   *)
(* delivery has it, and no committed row contradicts the coming commit.    *)
THEOREM Locks == Spec => []RowLocks
<1>1. IInv => RowLocks
  BY DEF IInv
<1> QED
  BY <1>1, Invariance, PTL

(* No unit is the unit of two items at once.                               *)
THEOREM NoSharedUnit == Spec => []OneItemPerUnit
<1>1. IInv => OneItemPerUnit
  BY DEF IInv
<1> QED
  BY <1>1, Invariance, PTL

-----------------------------------------------------------------------------
(* A delivered order is served.  Inductive together with LoopLeavesNone.   *)

ServedInv == DeliveredIsServed /\ LoopLeavesNone

(* A step of one worker that leaves statuses and items alone needs to be   *)
(* looked at for that worker only.                                         *)
LEMMA ServedLocal ==
  ASSUME IInv, ServedInv, NEW w \in Workers, NEW k \in Job,
         job' = [job EXCEPT ![w] = k],
         UNCHANGED <<status, link>>,
         k.target # "DELIVERED",
         \A i \in Items : k.seen[i] # None => link[i] # None,
         k.pc = "count" => \A i \in ItemsOf(k.ord) : k.seen[i] # None \/ k.taken[i] # None
  PROVE  ServedInv'
<1>1. job'[w] = k /\ \A v \in Workers : v # w => job'[v] = job[v]
  BY DEF IInv, TypeOK
<1>2. LoopLeavesNone'
  BY <1>1 DEF ServedInv, LoopLeavesNone, ItemsOf
<1>3. DeliveredIsServed'
  BY DEF ServedInv, DeliveredIsServed
<1> QED
  BY <1>2, <1>3 DEF ServedInv

(* A request that ended has no snapshot and no target.                     *)
LEMMA ServedBlank ==
  ASSUME IInv, ServedInv, NEW w \in Workers,
         NEW pc \in {"idle"} \cup Ended, NEW o \in Orders \cup {None},
         job' = [job EXCEPT ![w] = Blank(pc, o)],
         UNCHANGED <<status, link>>
  PROVE  ServedInv'
<1>1. Blank(pc, o) \in Job
  BY BlankType
<1>2. /\ Blank(pc, o).target # "DELIVERED"
      /\ \A i \in Items : Blank(pc, o).seen[i] = None
      /\ Blank(pc, o).pc # "count"
  BY NoneAssumption DEF Blank, NoUnits, Ended, OrderStatuses
<1> QED
  BY <1>1, <1>2, ServedLocal

(* Steps before, inside and after the loop that only change the worker.    *)
LEMMA ServedMemory ==
  ASSUME IInv, ServedInv, NEW w \in Workers, NEW k \in Job,
         job' = [job EXCEPT ![w] = k],
         UNCHANGED <<status, link>>,
         k.target = job[w].target,
         k.seen = job[w].seen \/ k.seen = ItemsAsRead(job[w].ord),
         k.pc # "count"
  PROVE  ServedInv'
<1>1. job[w].target # "DELIVERED" /\ \A i \in Items : job[w].seen[i] # None => link[i] # None
  BY DEF ServedInv, LoopLeavesNone
<1>2. \A i \in Items : k.seen[i] # None => link[i] # None
  BY <1>1 DEF ItemsAsRead
<1> QED
  BY <1>1, <1>2, ServedLocal

(* Every early return, failure and answer.                                 *)
LEMMA ServedEnding ==
  ASSUME IInv, ServedInv, NEW w \in Workers,
         UNCHANGED <<status, link>>,
         \/ \E pc \in Ended : job' = [job EXCEPT ![w] = Outcome(w, pc)]
         \/ job' = [job EXCEPT ![w] = IdleJob]
  PROVE  ServedInv'
<1>1. job[w].ord \in Orders \cup {None}
  BY DEF IInv, TypeOK, Job
<1> QED
  BY <1>1, ServedBlank DEF Outcome, IdleJob

(* The steps that leave both a worker's target and its snapshot alone, or  *)
(* read the items anew.                                                    *)
LEMMA ServedQuietSteps ==
  ASSUME IInv, ServedInv, NEW w \in Workers,
         \/ \E o \in Orders : StartDeliver(w, o)
         \/ FindOrder(w) \/ FindItems(w) \/ BeginDelivery(w) \/ TakeUnit(w)
         \/ \E i \in Items, u \in Units : FindUnit(w, i, u)
         \/ ReadOrder(w) \/ ReadItems(w) \/ ReleaseKeys(w) \/ ReleaseAccounts(w)
         \/ StoreStock(w),
         job' \in [Workers -> Job]
  PROVE  ServedInv'
<1> DEFINE k == job'[w]
<1>0. job \in [Workers -> Job] /\ job[w] \in Job /\ k \in Job
  BY DEF IInv, TypeOK
<1>1. UNCHANGED <<status, link>>
  BY DEF StartDeliver, FindOrder, FindItems, BeginDelivery, TakeUnit, FindUnit, ReadOrder,
         ReadItems, ReleaseKeys, ReleaseAccounts, Release, StoreStock, tables
<1>2. \/ \E pc \in Ended : job' = [job EXCEPT ![w] = Outcome(w, pc)]
      \/ /\ job' = [job EXCEPT ![w] = k]
         /\ k.target = job[w].target
         /\ k.seen = job[w].seen \/ k.seen = ItemsAsRead(job[w].ord)
         /\ k.pc # "count"
  <2>1. CASE \E o \in Orders : StartDeliver(w, o)
    <3>1. PICK o \in Orders : StartDeliver(w, o)
      BY <2>1
    <3>2. job' = [job EXCEPT ![w].pc = "find", ![w].ord = o]
      BY <3>1 DEF StartDeliver
    <3> QED
      BY <1>0, <3>2 DEF Job
  <2>2. CASE FindOrder(w)
    BY <1>0, <2>2 DEF FindOrder, Job, Ended
  <2>3. CASE FindItems(w)
    BY <1>0, <2>3 DEF FindItems, Job
  <2>4. CASE BeginDelivery(w)
    BY <1>0, <2>4 DEF BeginDelivery, Job, Ended
  <2>5. CASE TakeUnit(w)
    BY <1>0, <2>5 DEF TakeUnit, Job, Ended
  <2>6. CASE \E i \in Items, u \in Units : FindUnit(w, i, u)
    <3>1. PICK i \in Items, u \in Units : FindUnit(w, i, u)
      BY <2>6
    <3>2. job' = [job EXCEPT ![w].pc = "lock", ![w].item = i, ![w].unit = u]
      BY <3>1 DEF FindUnit
    <3> QED
      BY <1>0, <3>2 DEF Job
  <2>7. CASE ReadOrder(w)
    BY <1>0, <2>7 DEF ReadOrder, Job, Ended
  <2>8. CASE ReadItems(w)
    BY <1>0, <2>8 DEF ReadItems, Job
  <2>9. CASE ReleaseKeys(w) \/ ReleaseAccounts(w)
    BY <1>0, <2>9 DEF ReleaseKeys, ReleaseAccounts, Job
  <2>10. CASE StoreStock(w)
    BY <1>0, <2>10 DEF StoreStock, Job
  <2> QED
    BY <2>1, <2>2, <2>3, <2>4, <2>5, <2>6, <2>7, <2>8, <2>9, <2>10
<1> QED
  BY <1>0, <1>1, <1>2, ServedEnding, ServedMemory

(* The loop ends when it has served whatever the snapshot lacks.           *)
LEMMA ServedBeginSync ==
  ASSUME IInv, ServedInv, NEW w \in Workers, BeginSync(w), job' \in [Workers -> Job]
  PROVE  ServedInv'
<1> DEFINE k == job'[w]
<1>0. job \in [Workers -> Job] /\ job[w] \in Job /\ k \in Job
  BY DEF IInv, TypeOK
<1>1. /\ job' = [job EXCEPT ![w] = k] /\ UNCHANGED <<status, link>>
      /\ k.target = job[w].target /\ k.seen = job[w].seen
      /\ k.taken = job[w].taken /\ k.ord = job[w].ord
  BY <1>0 DEF BeginSync, Job, tables
<1>2. \A i \in ItemsOf(k.ord) : k.seen[i] # None \/ k.taken[i] # None
  BY <1>1 DEF BeginSync, Unserved
<1>3. k.target # "DELIVERED" /\ \A i \in Items : k.seen[i] # None => link[i] # None
  BY <1>1 DEF ServedInv, LoopLeavesNone
<1> QED
  BY <1>0, <1>1, <1>2, <1>3, ServedLocal

(* A recount serves nothing.                                               *)
LEMMA ServedCount ==
  ASSUME IInv, ServedInv, NEW w \in Workers, NEW p \in Products, CountStock(w, p),
         job' \in [Workers -> Job]
  PROVE  ServedInv'
<1> DEFINE k == job'[w]
<1>0. job \in [Workers -> Job] /\ job[w] \in Job /\ k \in Job
  BY DEF IInv, TypeOK
<1>1. /\ job' = [job EXCEPT ![w] = k] /\ UNCHANGED <<status, link>>
      /\ k.target = job[w].target /\ k.seen = job[w].seen
      /\ k.taken = job[w].taken /\ k.ord = job[w].ord
      /\ k.pc = "count" => job[w].pc = "count"
  BY <1>0 DEF CountStock, Job, tables
<1>2. /\ k.target # "DELIVERED"
      /\ \A i \in Items : k.seen[i] # None => link[i] # None
      /\ k.pc = "count" => \A i \in ItemsOf(k.ord) : k.seen[i] # None \/ k.taken[i] # None
  BY <1>1 DEF ServedInv, LoopLeavesNone
<1> QED
  BY <1>0, <1>1, <1>2, ServedLocal

(* The commit makes the order DELIVERED: each of its items has the unit    *)
(* the snapshot showed, which is still linked, or one taken just now.      *)
LEMMA ServedCommit ==
  ASSUME IInv, ServedInv, NEW w \in Workers, CommitDelivery(w)
  PROVE  ServedInv'
<1> DEFINE t == job[w].taken
           k == Outcome(w, "done")
<1>0. /\ job \in [Workers -> Job] /\ job[w] \in Job /\ job[w].pc = "count"
      /\ status \in [Orders -> OrderStatuses]
  BY DEF IInv, TypeOK, CommitDelivery
<1>1. /\ link' = [i \in Items |-> IF t[i] = None THEN link[i] ELSE t[i]]
      /\ status' = [status EXCEPT ![job[w].ord] = "DELIVERED"]
      /\ job' = [job EXCEPT ![w] = k]
  BY DEF CommitDelivery
<1>2. \A i \in Items : link[i] # None => link'[i] # None
  BY <1>1
<1>3. DeliveredIsServed'
  <2> SUFFICES ASSUME NEW i \in Items, status'[OrderOf[i]] = "DELIVERED"
               PROVE  link'[i] # None
    BY DEF DeliveredIsServed
  <2>1. CASE OrderOf[i] = job[w].ord
    <3>1. job[w].seen[i] # None \/ t[i] # None
      BY <1>0, <2>1 DEF ServedInv, LoopLeavesNone, ItemsOf
    <3>2. job[w].seen[i] # None => link[i] # None
      BY DEF ServedInv, LoopLeavesNone
    <3> QED
      BY <1>1, <3>1, <3>2
  <2>2. CASE OrderOf[i] # job[w].ord
    <3>1. status[OrderOf[i]] = "DELIVERED"
      BY <1>0, <1>1, <2>2, CatalogAssumption
    <3> QED
      BY <1>2, <3>1 DEF ServedInv, DeliveredIsServed
  <2> QED
    BY <2>1, <2>2
<1>4. k.target # "DELIVERED" /\ k.pc # "count" /\ \A i \in Items : k.seen[i] = None
  BY NoneAssumption DEF Outcome, Blank, NoUnits, OrderStatuses
<1>5. LoopLeavesNone'
  BY <1>0, <1>1, <1>2, <1>4 DEF ServedInv, LoopLeavesNone, ItemsOf
<1> QED
  BY <1>3, <1>5 DEF ServedInv

(* The writes of a status that is not DELIVERED.                           *)
LEMMA ServedStatus ==
  ASSUME IInv, ServedInv, NEW o \in Orders, NEW s \in OrderStatuses \ {"DELIVERED"},
         status' = [status EXCEPT ![o] = s],
         UNCHANGED link,
         \/ UNCHANGED job
         \/ \E w \in Workers : job' = [job EXCEPT ![w] = Outcome(w, "done")]
  PROVE  ServedInv'
<1>1. DeliveredIsServed'
  BY CatalogAssumption DEF IInv, TypeOK, ServedInv, DeliveredIsServed
<1>2. CASE UNCHANGED job
  BY <1>1, <1>2 DEF ServedInv, LoopLeavesNone, ItemsOf
<1>3. ASSUME NEW w \in Workers, job' = [job EXCEPT ![w] = Outcome(w, "done")]
      PROVE  ServedInv'
  <2> DEFINE k == Outcome(w, "done")
  <2>1. k.target # "DELIVERED" /\ k.pc # "count" /\ \A i \in Items : k.seen[i] = None
    BY NoneAssumption DEF Outcome, Blank, NoUnits, OrderStatuses
  <2>2. job'[w] = k /\ \A v \in Workers : v # w => job'[v] = job[v]
    BY <1>3 DEF IInv, TypeOK
  <2>3. LoopLeavesNone'
    BY <2>1, <2>2 DEF ServedInv, LoopLeavesNone, ItemsOf
  <2> QED
    BY <1>1, <2>3 DEF ServedInv
<1> QED
  BY <1>2, <1>3

(* updateStatus never writes DELIVERED under the assumption.               *)
LEMMA ServedWriteStatus ==
  ASSUME IInv, ServedInv, NEW w \in Workers, WriteStatus(w)
  PROVE  ServedInv'
<1>1. job[w].ord \in Orders /\ job[w].target \in OrderStatuses
  BY DEF IInv, RequestShape, WellFormed, InUpdate, WriteStatus
<1>2. job[w].target # "DELIVERED"
  BY DEF ServedInv, LoopLeavesNone
<1> QED
  BY <1>1, <1>2, ServedStatus DEF WriteStatus

(* Every step keeps delivered orders served.                               *)
LEMMA ServedNext ==
  ASSUME "DELIVERED" \notin Targets
  PROVE  IInv /\ ServedInv /\ [Next]_vars => ServedInv'
<1> SUFFICES ASSUME IInv, ServedInv, [Next]_vars PROVE ServedInv'
  OBVIOUS
<1>0. job' \in [Workers -> Job]
  BY NextIInv DEF IInv, TypeOK
<1>1. ASSUME NEW w \in Workers, NEW o \in Orders, NEW t \in Targets, StartUpdate(w, o, t)
      PROVE  ServedInv'
  <2> DEFINE k == job'[w]
  <2>1. job[w] \in Job /\ job[w].pc = "idle" /\ k \in Job /\ t # "DELIVERED"
    BY <1>0, <1>1 DEF IInv, TypeOK, StartUpdate
  <2>2. /\ job' = [job EXCEPT ![w] = k] /\ UNCHANGED <<status, link>>
        /\ k.target = t /\ k.seen = job[w].seen /\ k.pc = "readOrder"
    BY <1>1, <2>1 DEF IInv, TypeOK, StartUpdate, Job, tables
  <2> QED
    BY <2>1, <2>2, ServedLocal DEF ServedInv, LoopLeavesNone
<1>2. ASSUME NEW w \in Workers, Request(w) PROVE ServedInv'
  BY <1>0, <1>1, <1>2, ServedQuietSteps DEF Request
<1>3. ASSUME NEW w \in Workers, DeliverStep(w) PROVE ServedInv'
  <2>1. ASSUME NEW i \in Items, NoUnitAvailable(w, i) PROVE ServedInv'
    BY <2>1, ServedEnding DEF NoUnitAvailable, Ended, tables
  <2> QED
    BY <1>0, <1>3, <2>1, ServedQuietSteps, ServedBeginSync, ServedCommit DEF DeliverStep
<1>4. ASSUME NEW w \in Workers, UpdateStep(w) PROVE ServedInv'
  BY <1>0, <1>4, ServedQuietSteps, ServedWriteStatus DEF UpdateStep
<1>5. ASSUME NEW w \in Workers, NEW p \in Products, CountStock(w, p) PROVE ServedInv'
  BY <1>0, <1>5, ServedCount
<1>6. ASSUME NEW w \in Workers, StatementFails(w) \/ Return(w) PROVE ServedInv'
  BY <1>6, ServedEnding DEF StatementFails, Return, Ended, tables
<1>7. ASSUME NEW o \in Orders, PaymentApproved(o) \/ PaymentRejected(o) PROVE ServedInv'
  <2>1. PICK s \in {"PAID", "CANCELLED"} : SetStatus(o, s) /\ UNCHANGED job
    BY <1>7 DEF PaymentApproved, PaymentRejected
  <2> QED
    BY <2>1, ServedStatus DEF SetStatus, OrderStatuses
<1>8. CASE Crash
  <2>1. \A w \in Workers : job'[w] = IdleJob
    BY <1>8 DEF Crash
  <2>2. UNCHANGED <<status, link>>
    BY <1>8 DEF Crash, tables
  <2>3. LoopLeavesNone'
    BY <2>1, NoneAssumption DEF LoopLeavesNone, IdleJob, Blank, NoUnits, OrderStatuses
  <2> QED
    BY <2>2, <2>3 DEF ServedInv, DeliveredIsServed
<1>9. CASE UNCHANGED vars
  <2>1. UNCHANGED <<status, link>> /\ UNCHANGED job
    BY <1>9 DEF vars
  <2> QED
    BY <2>1 DEF ServedInv, DeliveredIsServed, LoopLeavesNone, ItemsOf
<1> QED
  BY <1>2, <1>3, <1>4, <1>5, <1>6, <1>7, <1>8, <1>9 DEF Next, HandlerStep

(* At the start nothing is delivered and no request is in progress.        *)
LEMMA InitServed == Init => ServedInv
<1> SUFFICES ASSUME Init PROVE ServedInv
  OBVIOUS
<1>1. \A o \in Orders : status[o] # "DELIVERED"
  BY DEF Init
<1>2. DeliveredIsServed
  BY <1>1, CatalogAssumption DEF DeliveredIsServed
<1>3. \A w \in Workers : job[w] = IdleJob
  BY DEF Init
<1>4. LoopLeavesNone
  BY <1>3, NoneAssumption DEF LoopLeavesNone, IdleJob, Blank, NoUnits, OrderStatuses
<1> QED
  BY <1>2, <1>4 DEF ServedInv

(* Unless an administrator writes DELIVERED, a delivered order has a unit  *)
(* for each of its items, however old the snapshot its delivery worked on. *)
THEOREM Served == "DELIVERED" \notin Targets => (Spec => []DeliveredIsServed)
<1> SUFFICES ASSUME "DELIVERED" \notin Targets PROVE Spec => []DeliveredIsServed
  OBVIOUS
<1>1. Init => ServedInv
  BY InitServed
<1>2. IInv /\ ServedInv /\ [Next]_vars => ServedInv'
  BY ServedNext
<1>3. ServedInv => DeliveredIsServed
  BY DEF ServedInv
<1> QED
  BY <1>1, <1>2, <1>3, Invariance, PTL DEF Spec

-----------------------------------------------------------------------------
(* Fulfilment implements UnitSale as long as nobody asks for a status that *)
(* releases units, or for DELIVERED.  Inductive together with ServedInv:   *)
(* no request releases, so the unit an item names is the item's for good.  *)

NoReleases ==
  \A w \in Workers : /\ job[w].target \notin ReleasingStatuses
                     /\ job[w].pc \notin {"releaseKeys", "releaseAccounts"}

LinksStay == \A i \in Items : link[i] # None => owner[link[i]] = i

SaleInv == NoReleases /\ LinksStay

(* What one worker remembers decides NoReleases.                           *)
LEMMA NoReleasesLocal ==
  ASSUME TypeOK, NoReleases, NEW w \in Workers,
         \A v \in Workers : v # w => job'[v] = job[v],
         job'[w].target \notin ReleasingStatuses,
         job'[w].pc \notin {"releaseKeys", "releaseAccounts"}
  PROVE  NoReleases'
BY DEF NoReleases

(* A request that ended has no target.                                     *)
LEMMA NoReleasesEnding ==
  ASSUME TypeOK, NoReleases, NEW w \in Workers,
         \/ \E pc \in Ended : job' = [job EXCEPT ![w] = Outcome(w, pc)]
         \/ job' = [job EXCEPT ![w] = IdleJob]
  PROVE  NoReleases'
<1>1. None \notin ReleasingStatuses
  BY NoneAssumption DEF ReleasingStatuses, OrderStatuses
<1>2. /\ \A v \in Workers : v # w => job'[v] = job[v]
      /\ job'[w].target = None /\ job'[w].pc \in Ended \cup {"idle"}
  BY DEF TypeOK, Outcome, IdleJob, Blank
<1> QED
  BY <1>1, <1>2, NoReleasesLocal DEF Ended

(* A step of a handler starts no release when no request asked for one.    *)
LEMMA NoReleasesStep ==
  ASSUME TypeOK, NoReleases, NEW w \in Workers, HandlerStep(w)
  PROVE  NoReleases'
<1>0. /\ job[w] \in Job /\ job[w].target \notin ReleasingStatuses
      /\ job[w].pc \notin {"releaseKeys", "releaseAccounts"}
  BY DEF TypeOK, NoReleases
<1> DEFINE Keeps == /\ \A v \in Workers : v # w => job'[v] = job[v]
                    /\ job'[w].target = job[w].target
                    /\ job'[w].pc \notin {"releaseKeys", "releaseAccounts"}
           Ends == \E pc \in Ended : job' = [job EXCEPT ![w] = Outcome(w, pc)]
<1>1. ASSUME NEW i \in Items, NEW u \in Units, FindUnit(w, i, u)
      PROVE  Keeps
  BY <1>0, <1>1 DEF FindUnit, TypeOK, Job
<1>2. ASSUME NEW p \in Products, CountStock(w, p)
      PROVE  Keeps
  BY <1>0, <1>2 DEF CountStock, TypeOK, Job
<1>3. ASSUME FindItems(w) \/ BeginSync(w) \/ ReadItems(w) \/ StoreStock(w)
      PROVE  Keeps
  <2>1. job \in [Workers -> Job]
    BY DEF TypeOK
  <2> QED
    BY <1>0, <1>3, <2>1 DEF FindItems, BeginSync, ReadItems, StoreStock, Job
<1>4. ASSUME FindOrder(w) \/ BeginDelivery(w) \/ TakeUnit(w) \/ ReadOrder(w)
      PROVE  Keeps \/ Ends
  <2>1. CASE FindOrder(w)
    BY <1>0, <2>1 DEF FindOrder, TypeOK, Job, Ended
  <2>2. CASE BeginDelivery(w)
    BY <1>0, <2>2 DEF BeginDelivery, TypeOK, Job, Ended
  <2>3. CASE TakeUnit(w)
    BY <1>0, <2>3 DEF TakeUnit, TypeOK, Job, Ended
  <2>4. CASE ReadOrder(w)
    BY <1>0, <2>4 DEF ReadOrder, TypeOK, Job, Ended
  <2> QED
    BY <1>4, <2>1, <2>2, <2>3, <2>4
<1>5. ASSUME \/ \E i \in Items : NoUnitAvailable(w, i)
             \/ CommitDelivery(w) \/ WriteStatus(w)
      PROVE  Ends
  BY <1>5 DEF NoUnitAvailable, CommitDelivery, WriteStatus, Ended
<1>6. ~ ReleaseKeys(w) /\ ~ ReleaseAccounts(w)
  BY <1>0 DEF ReleaseKeys, ReleaseAccounts
<1>7. Keeps \/ Ends
  BY <1>1, <1>2, <1>3, <1>4, <1>5, <1>6 DEF HandlerStep, DeliverStep, UpdateStep
<1> QED
  BY <1>0, <1>7, NoReleasesLocal, NoReleasesEnding

(* The commit names each unit at its item and the item at the unit.        *)
LEMMA LinksStayCommit ==
  ASSUME IInv, LinksStay, NEW w \in Workers, CommitDelivery(w)
  PROVE  LinksStay'
<1> DEFINE t == job[w].taken
           got(u) == {i \in Items : t[i] = u}
<1>0. /\ TypeOK /\ RowLocks /\ UnitCustody
      /\ t \in [Items -> Units \cup {None}]
  BY DEF IInv, TypeOK, Job
<1>1. /\ link' = [i \in Items |-> IF t[i] = None THEN link[i] ELSE t[i]]
      /\ owner' = [u \in Units |-> IF got(u) = {} THEN owner[u] ELSE CHOOSE i \in got(u) : TRUE]
  BY DEF CommitDelivery
<1> SUFFICES ASSUME NEW i \in Items, link'[i] # None
             PROVE  owner'[link'[i]] = i
  BY DEF LinksStay
<1>2. CASE t[i] # None
  <2>1. link'[i] = t[i] /\ t[i] \in Units
    BY <1>0, <1>1, <1>2
  <2>2. \A j \in got(t[i]) : j = i
    BY <1>0, <1>2 DEF RowLocks
  <2>3. i \in got(t[i])
    OBVIOUS
  <2> QED
    BY <1>1, <2>1, <2>2, <2>3
<1>3. CASE t[i] = None
  <2>1. link'[i] = link[i] /\ link[i] \in Units /\ owner[link[i]] = i
    BY <1>0, <1>1, <1>3 DEF TypeOK, LinksStay
  <2>2. unit[link[i]] = "DELIVERED"
    BY <1>0, <2>1, NoneAssumption DEF UnitCustody
  <2>3. got(link[i]) = {}
    BY <1>0, <2>1, <2>2 DEF RowLocks
  <2> QED
    BY <1>1, <2>1, <2>3
<1> QED
  BY <1>2, <1>3

(* Every other step but a release leaves units and items as they are.      *)
LEMMA SaleInvNext ==
  ASSUME Targets \cap ReleasingStatuses = {}
  PROVE  IInv /\ SaleInv /\ [Next]_vars => SaleInv'
<1> SUFFICES ASSUME IInv, SaleInv, [Next]_vars PROVE SaleInv'
  OBVIOUS
<1>0. TypeOK /\ NoReleases /\ LinksStay
  BY DEF IInv, SaleInv
<1>1. ASSUME NEW w \in Workers, HandlerStep(w) PROVE SaleInv'
  <2>1. NoReleases'
    BY <1>0, <1>1, NoReleasesStep
  <2>2. CASE CommitDelivery(w)
    BY <1>0, <2>1, <2>2, LinksStayCommit DEF SaleInv
  <2>3. CASE ~ CommitDelivery(w)
    <3>1. ~ ReleaseKeys(w) /\ ~ ReleaseAccounts(w)
      BY <1>0 DEF ReleaseKeys, ReleaseAccounts, NoReleases
    <3>2. UNCHANGED <<link, owner>>
      BY <1>1, <2>3, <3>1
         DEF HandlerStep, DeliverStep, UpdateStep, FindOrder, FindItems, BeginDelivery, TakeUnit,
             BeginSync, NoUnitAvailable, FindUnit, ReadOrder, ReadItems, StoreStock, WriteStatus,
             CountStock, tables
    <3> QED
      BY <1>0, <2>1, <3>2 DEF SaleInv, LinksStay
  <2> QED
    BY <2>2, <2>3
<1>2. ASSUME NEW w \in Workers, Request(w) PROVE SaleInv'
  <2>1. job[w] \in Job
    BY <1>0 DEF TypeOK
  <2>2. ASSUME NEW o \in Orders, StartDeliver(w, o)
        PROVE  NoReleases' /\ UNCHANGED <<link, owner>>
    <3>1. /\ \A v \in Workers : v # w => job'[v] = job[v]
          /\ job'[w].target = job[w].target /\ job'[w].pc = "find"
      BY <1>0, <2>1, <2>2 DEF StartDeliver, TypeOK, Job
    <3> QED
      BY <1>0, <2>2, <3>1, NoReleasesLocal DEF StartDeliver, tables, NoReleases
  <2>3. ASSUME NEW o \in Orders, NEW t \in Targets, StartUpdate(w, o, t)
        PROVE  NoReleases' /\ UNCHANGED <<link, owner>>
    <3>1. /\ \A v \in Workers : v # w => job'[v] = job[v]
          /\ job'[w].target = t /\ job'[w].pc = "readOrder"
      BY <1>0, <2>1, <2>3 DEF StartUpdate, TypeOK, Job
    <3> QED
      BY <1>0, <2>3, <3>1, NoReleasesLocal DEF StartUpdate, tables
  <2> QED
    BY <1>0, <1>2, <2>2, <2>3 DEF Request, SaleInv, LinksStay
<1>3. ASSUME NEW w \in Workers, StatementFails(w) \/ Return(w) PROVE SaleInv'
  <2>1. NoReleases'
    BY <1>0, <1>3, NoReleasesEnding DEF StatementFails, Return, Ended
  <2>2. UNCHANGED <<link, owner>>
    BY <1>3 DEF StatementFails, Return, tables
  <2> QED
    BY <1>0, <2>1, <2>2 DEF SaleInv, LinksStay
<1>4. ASSUME NEW o \in Orders, PaymentApproved(o) \/ PaymentRejected(o) PROVE SaleInv'
  BY <1>0, <1>4 DEF PaymentApproved, PaymentRejected, SetStatus, SaleInv, LinksStay, NoReleases
<1>5. CASE Crash
  <2>1. None \notin ReleasingStatuses
    BY NoneAssumption DEF ReleasingStatuses, OrderStatuses
  <2>2. \A w \in Workers : job'[w].target = None /\ job'[w].pc = "idle"
    BY <1>5 DEF Crash, IdleJob, Blank
  <2>3. UNCHANGED <<link, owner>>
    BY <1>5 DEF Crash, tables
  <2> QED
    BY <1>0, <2>1, <2>2, <2>3 DEF SaleInv, NoReleases, LinksStay
<1>6. CASE UNCHANGED vars
  BY <1>0, <1>6 DEF vars, SaleInv, NoReleases, LinksStay
<1> QED
  BY <1>1, <1>2, <1>3, <1>4, <1>5, <1>6 DEF Next

(* A commit whose transaction took units for the unserved items of its     *)
(* order, and for those only, serves the order.                            *)
LEMMA CommitIsSale ==
  ASSUME IInv, NEW w \in Workers, CommitDelivery(w),
         \A i \in Items : job[w].taken[i] # None => link[i] = None,
         \A i \in ItemsOf(job[w].ord) : link[i] # None \/ job[w].taken[i] # None
  PROVE  job[w].ord \in Orders /\ Sale!Serve(job[w].ord)
<1> DEFINE t == job[w].taken
           o == job[w].ord
<1>0. /\ TypeOK /\ RowLocks
      /\ t \in [Items -> Units \cup {None}]
      /\ job[w].pc = "count" /\ o \in Orders
  BY DEF IInv, TypeOK, Job, CommitDelivery, RequestShape, WellFormed, InDelivery
<1>1. link' = [i \in Items |-> IF t[i] = None THEN link[i] ELSE t[i]]
  BY DEF CommitDelivery
<1>2. link' \in [Items -> Units \cup {None}]
  BY <1>0, <1>1 DEF TypeOK
<1>3. \A i \in Items : t[i] # None => OrderOf[i] = o /\ link[i] = None
  BY <1>0 DEF RowLocks
<1>4. \A i \in Items : i \notin Sale!Unserved(o) => link'[i] = link[i]
  BY <1>1, <1>3 DEF Sale!Unserved
<1>5. ASSUME NEW i \in Sale!Unserved(o)
      PROVE  /\ link'[i] \in Units
             /\ UnitProduct[link'[i]] = ItemProduct[i]
             /\ \A j \in Items : j # i => link'[j] # link'[i]
  <2>1. i \in Items /\ OrderOf[i] = o /\ link[i] = None
    BY DEF Sale!Unserved
  <2>2. t[i] # None
    BY <2>1 DEF ItemsOf
  <2>3. link'[i] = t[i] /\ t[i] \in Units
    BY <1>0, <1>1, <2>1, <2>2
  <2>4. UnitProduct[t[i]] = ItemProduct[i]
    BY <1>0, <2>1, <2>2 DEF RowLocks
  <2>5. \A j \in Items : j # i => link[j] # t[i] /\ t[j] # t[i]
    BY <1>0, <2>1, <2>2 DEF RowLocks
  <2> QED
    BY <1>1, <2>3, <2>4, <2>5
<1>6. Sale!Serve(o)
  BY <1>2, <1>4, <1>5 DEF Sale!Serve
<1> QED
  BY <1>0, <1>6

(* Without releases the items a transaction takes units for have none, as  *)
(* links stay with their owners, and the loop leaves none of the order.    *)
LEMMA CommitServes ==
  ASSUME IInv, ServedInv, SaleInv, NEW w \in Workers, CommitDelivery(w)
  PROVE  job[w].ord \in Orders /\ Sale!Serve(job[w].ord)
<1> DEFINE t == job[w].taken
<1>0. TypeOK /\ RowLocks /\ job[w].pc = "count"
  BY DEF IInv, CommitDelivery
<1>1. \A i \in Items : t[i] # None => link[i] = None
  <2> SUFFICES ASSUME NEW i \in Items, t[i] # None, link[i] # None PROVE FALSE
    OBVIOUS
  <2>1. link[i] \in Units /\ owner[link[i]] = i
    BY <1>0 DEF TypeOK, SaleInv, LinksStay
  <2> QED
    BY <1>0, <2>1 DEF RowLocks
<1>2. \A i \in ItemsOf(job[w].ord) : link[i] # None \/ t[i] # None
  BY <1>0 DEF ServedInv, LoopLeavesNone, ItemsOf
<1> QED
  BY <1>1, <1>2, CommitIsSale

(* Items get their units by commits of deliveries only.                    *)
LEMMA OnlyCommitsLink ==
  ASSUME [Next]_vars, \A w \in Workers : ~ CommitDelivery(w)
  PROVE  UNCHANGED link
<1>1. ASSUME NEW w \in Workers, HandlerStep(w)
      PROVE  UNCHANGED link
  BY <1>1 DEF HandlerStep, DeliverStep, UpdateStep, FindOrder, FindItems, BeginDelivery, TakeUnit,
              BeginSync, NoUnitAvailable, FindUnit, ReadOrder, ReadItems, ReleaseKeys,
              ReleaseAccounts, Release, StoreStock, WriteStatus, CountStock, tables
<1>2. ASSUME NEW w \in Workers, Request(w) \/ StatementFails(w) \/ Return(w)
      PROVE  UNCHANGED link
  BY <1>2 DEF Request, StartDeliver, StartUpdate, StatementFails, Return, tables
<1>3. ASSUME \/ \E o \in Orders : PaymentApproved(o) \/ PaymentRejected(o)
             \/ Crash
             \/ UNCHANGED vars
      PROVE  UNCHANGED link
  BY <1>3 DEF PaymentApproved, PaymentRejected, SetStatus, Crash, tables, vars
<1> QED
  BY <1>1, <1>2, <1>3 DEF Next

(* All other steps leave every item the unit it has.                       *)
LEMMA OnlyCommitsServe ==
  ASSUME IInv, ServedInv, SaleInv, [Next]_vars
  PROVE  [Sale!SaleNext]_link
<1>1. ASSUME NEW w \in Workers, CommitDelivery(w)
      PROVE  Sale!SaleNext
  BY <1>1, CommitServes DEF Sale!SaleNext
<1> QED
  BY <1>1, OnlyCommitsLink

(* So they hold of every behaviour in which nobody releases anything.      *)
LEMMA SaleInvariance ==
  Targets \cap (ReleasingStatuses \cup {"DELIVERED"}) = {} =>
    (Spec => [](IInv /\ ServedInv /\ SaleInv))
<1> SUFFICES ASSUME Targets \cap (ReleasingStatuses \cup {"DELIVERED"}) = {}
             PROVE  Spec => [](IInv /\ ServedInv /\ SaleInv)
  OBVIOUS
<1>1. Init => ServedInv
  BY InitServed
<1>2. Init => SaleInv
  <2> SUFFICES ASSUME Init PROVE SaleInv
    OBVIOUS
  <2>1. \A w \in Workers : job[w].target = None /\ job[w].pc = "idle"
    BY DEF Init, IdleJob, Blank
  <2>2. \A i \in Items : link[i] = None
    BY DEF Init, NoUnits
  <2>3. None \notin ReleasingStatuses
    BY NoneAssumption DEF ReleasingStatuses, OrderStatuses
  <2> QED
    BY <2>1, <2>2, <2>3 DEF SaleInv, NoReleases, LinksStay
<1>3. IInv /\ ServedInv /\ [Next]_vars => ServedInv'
  BY ServedNext
<1>4. IInv /\ SaleInv /\ [Next]_vars => SaleInv'
  BY SaleInvNext
<1> QED
  BY <1>1, <1>2, <1>3, <1>4, Invariance, PTL DEF Spec

LEMMA SaleStarts == Init => Sale!SaleInit
BY DEF Init, Sale!SaleInit, NoUnits

(* The handlers implement the abstract sale, for any number of concurrent  *)
(* requests: each commit serves one whole order with units nobody else     *)
(* got, and no step takes back or exchanges what an item got.  Releases    *)
(* are excluded because they break it (hazard orders.service.ts:146), and  *)
(* DELIVERED because it is written without serving anybody.                *)
THEOREM SaleImplemented ==
  Targets \cap (ReleasingStatuses \cup {"DELIVERED"}) = {} => (Spec => SaleRefinement)
<1>1. IInv /\ ServedInv /\ SaleInv /\ [Next]_vars => [Sale!SaleNext]_link
  BY OnlyCommitsServe
<1> QED
  BY <1>1, SaleStarts, SaleInvariance, PTL DEF Spec, SaleRefinement, Sale!SaleSpec

-----------------------------------------------------------------------------
(* One request at a time, Fulfilment implements UnitSale whatever statuses *)
(* are asked for, releases and DELIVERED included.  The snapshot a         *)
(* delivery works on is then what the items say, and stays it.             *)

ServedSoFar(k) ==
  k.pc \in {"begin"} \cup InDelivery =>
    /\ \A i \in ItemsOf(k.ord) : k.seen[i] = link[i]
    /\ \A i \in Items : k.taken[i] # None => link[i] = None
    /\ k.pc = "lock" => link[k.item] = None
    /\ k.pc = "count" => \A i \in ItemsOf(k.ord) : link[i] # None \/ k.taken[i] # None

SnapshotsHold == \A w \in Workers : ServedSoFar(job[w])

(* A step that leaves the items alone, judged by what its worker knows.    *)
LEMMA SnapshotLocal ==
  ASSUME SnapshotsHold, \A v, w \in Workers : v = w, NEW w \in Workers,
         UNCHANGED link, ServedSoFar(job'[w])
  PROVE  SnapshotsHold'
<1>1. ServedSoFar(job[w])'
  BY DEF ServedSoFar, ItemsOf
<1> QED
  BY <1>1 DEF SnapshotsHold

(* A request outside a delivery has no snapshot to be true.                *)
LEMMA NoSnapshot ==
  ASSUME \A v, w \in Workers : v = w, NEW w \in Workers,
         job'[w].pc \notin {"begin"} \cup InDelivery
  PROVE  SnapshotsHold'
<1>1. ServedSoFar(job[w])'
  BY DEF ServedSoFar
<1> QED
  BY <1>1 DEF SnapshotsHold

(* The reads and the loop of a delivery.                                   *)
LEMMA SnapshotInDelivery ==
  ASSUME IInv, SnapshotsHold, \A v, w \in Workers : v = w, NEW w \in Workers,
         \/ FindItems(w) \/ BeginDelivery(w) \/ TakeUnit(w) \/ BeginSync(w)
         \/ \E i \in Items, u \in Units : FindUnit(w, i, u)
  PROVE  SnapshotsHold'
<1> DEFINE k == job'[w]
<1>0. /\ job \in [Workers -> Job] /\ job[w] \in Job /\ ServedSoFar(job[w])
      /\ \A i \in Items : job[w].taken[i] # None => job[w].pc \in InDelivery
  BY DEF IInv, TypeOK, RowLocks, SnapshotsHold
<1>1. CASE FindItems(w)
  <2>1. /\ k.pc = "begin" /\ k.seen = ItemsAsRead(job[w].ord)
        /\ k.taken = job[w].taken /\ k.ord = job[w].ord
        /\ job[w].pc = "findItems" /\ UNCHANGED link
    BY <1>0, <1>1 DEF FindItems, Job, tables
  <2>2. \A i \in Items : k.taken[i] = None
    BY <1>0, <2>1 DEF InDelivery
  <2>3. ServedSoFar(k)
    BY <2>1, <2>2 DEF ServedSoFar, ItemsOf, ItemsAsRead
  <2> QED
    BY <2>1, <2>3, SnapshotLocal
<1>2. CASE BeginDelivery(w)
  <2>1. CASE job' = [job EXCEPT ![w].pc = "take"]
    <3>1. /\ k.pc = "take" /\ k.seen = job[w].seen
          /\ k.taken = job[w].taken /\ k.ord = job[w].ord
          /\ job[w].pc = "begin" /\ UNCHANGED link
      BY <1>0, <1>2, <2>1 DEF BeginDelivery, Job, tables
    <3>2. ServedSoFar(k)
      BY <1>0, <3>1 DEF ServedSoFar
    <3> QED
      BY <3>1, <3>2, SnapshotLocal
  <2>2. CASE job' = [job EXCEPT ![w] = Outcome(w, "failed")]
    <3>1. k.pc = "failed"
      BY <1>0, <2>2 DEF Outcome, Blank
    <3> QED
      BY <3>1, NoSnapshot DEF InDelivery
  <2> QED
    BY <1>2, <2>1, <2>2 DEF BeginDelivery
<1>3. ASSUME NEW i \in Items, NEW u \in Units, FindUnit(w, i, u)
      PROVE  SnapshotsHold'
  <2>1. /\ k.pc = "lock" /\ k.item = i /\ k.seen = job[w].seen
        /\ k.taken = job[w].taken /\ k.ord = job[w].ord
        /\ job[w].pc = "take" /\ UNCHANGED link
    BY <1>0, <1>3 DEF FindUnit, Job, tables
  <2>2. i \in ItemsOf(job[w].ord) /\ job[w].seen[i] = None
    BY <1>3 DEF FindUnit, Unserved
  <2>3. ServedSoFar(k)
    BY <1>0, <2>1, <2>2 DEF ServedSoFar, InDelivery
  <2> QED
    BY <2>1, <2>3, SnapshotLocal
<1>4. CASE TakeUnit(w)
  <2>1. CASE StillFree(w)
    <3>1. /\ k.pc = "take" /\ k.seen = job[w].seen /\ k.ord = job[w].ord
          /\ k.taken = [job[w].taken EXCEPT ![job[w].item] = job[w].unit]
          /\ job[w].pc = "lock" /\ UNCHANGED link
      BY <1>0, <1>4, <2>1 DEF TakeUnit, Job, tables
    <3>2. \A i \in Items : k.taken[i] # None => link[i] = None
      BY <1>0, <3>1 DEF ServedSoFar, InDelivery, Job
    <3>3. ServedSoFar(k)
      BY <1>0, <3>1, <3>2 DEF ServedSoFar, InDelivery
    <3> QED
      BY <3>1, <3>3, SnapshotLocal
  <2>2. CASE ~ StillFree(w)
    <3>1. k.pc = "failed"
      BY <1>0, <1>4, <2>2 DEF TakeUnit, Outcome, Blank
    <3> QED
      BY <3>1, NoSnapshot DEF InDelivery
  <2> QED
    BY <2>1, <2>2
<1>5. CASE BeginSync(w)
  <2>1. /\ k.pc = "count" /\ k.seen = job[w].seen /\ k.taken = job[w].taken
        /\ k.ord = job[w].ord /\ job[w].pc = "take" /\ UNCHANGED link
    BY <1>0, <1>5 DEF BeginSync, Job, tables
  <2>2. \A i \in ItemsOf(job[w].ord) : job[w].seen[i] # None \/ job[w].taken[i] # None
    BY <1>5 DEF BeginSync, Unserved
  <2>3. ServedSoFar(k)
    BY <1>0, <2>1, <2>2 DEF ServedSoFar, InDelivery
  <2> QED
    BY <2>1, <2>3, SnapshotLocal
<1> QED
  BY <1>1, <1>2, <1>3, <1>4, <1>5

(* Every step.                                                             *)
LEMMA SnapshotNext ==
  ASSUME IInv, SnapshotsHold, \A v, w \in Workers : v = w, [Next]_vars
  PROVE  SnapshotsHold'
<1>0. job \in [Workers -> Job]
  BY DEF IInv, TypeOK
<1>1. ASSUME NEW w \in Workers, NEW p \in Products, CountStock(w, p) PROVE SnapshotsHold'
  <2>1. job[w] \in Job /\ ServedSoFar(job[w])
    BY <1>0 DEF SnapshotsHold
  <2>2. CASE job[w].pc = "resync"
    <3>1. job'[w].pc = "store"
      BY <1>0, <1>1, <2>1, <2>2 DEF CountStock, Job
    <3> QED
      BY <3>1, NoSnapshot DEF InDelivery
  <2>3. CASE job[w].pc = "count"
    <3>1. /\ job'[w].pc = "count" /\ job'[w].seen = job[w].seen
          /\ job'[w].taken = job[w].taken /\ job'[w].ord = job[w].ord /\ UNCHANGED link
      BY <1>0, <1>1, <2>1, <2>3 DEF CountStock, Job, tables
    <3>2. ServedSoFar(job'[w])
      BY <2>1, <2>3, <3>1 DEF ServedSoFar
    <3> QED
      BY <3>1, <3>2, SnapshotLocal
  <2> QED
    BY <1>1, <2>2, <2>3 DEF CountStock
<1>2. ASSUME NEW w \in Workers,
             \/ FindItems(w) \/ BeginDelivery(w) \/ TakeUnit(w) \/ BeginSync(w)
             \/ \E i \in Items, u \in Units : FindUnit(w, i, u)
      PROVE  SnapshotsHold'
  BY <1>2, SnapshotInDelivery
<1>3. ASSUME NEW w \in Workers,
             \/ Request(w) \/ StatementFails(w) \/ Return(w) \/ FindOrder(w) \/ CommitDelivery(w)
             \/ \E i \in Items : NoUnitAvailable(w, i)
             \/ UpdateStep(w)
      PROVE  SnapshotsHold'
  <2> DEFINE Outside == job'[w].pc \notin {"begin"} \cup InDelivery
  <2>0. job[w] \in Job
    BY <1>0
  <2>1. ASSUME NEW o \in Orders, StartDeliver(w, o) PROVE Outside
    BY <1>0, <2>0, <2>1 DEF StartDeliver, Job, InDelivery
  <2>2. ASSUME NEW o \in Orders, NEW t \in Targets, StartUpdate(w, o, t) PROVE Outside
    BY <1>0, <2>0, <2>2 DEF StartUpdate, Job, InDelivery
  <2>3. ASSUME \/ StatementFails(w) \/ Return(w) \/ CommitDelivery(w)
               \/ \E i \in Items : NoUnitAvailable(w, i)
               \/ WriteStatus(w)
        PROVE  Outside
    <3>1. \/ \E pc \in Ended : job' = [job EXCEPT ![w] = Outcome(w, pc)]
          \/ job' = [job EXCEPT ![w] = IdleJob]
      BY <2>3 DEF StatementFails, Return, CommitDelivery, NoUnitAvailable, WriteStatus, Ended
    <3> QED
      BY <1>0, <3>1 DEF Outcome, IdleJob, Blank, Ended, InDelivery
  <2>4. ASSUME FindOrder(w) PROVE Outside
    BY <1>0, <2>0, <2>4 DEF FindOrder, Job, Outcome, Blank, InDelivery
  <2>5. ASSUME ReadOrder(w) PROVE Outside
    BY <1>0, <2>0, <2>5 DEF ReadOrder, Job, Outcome, Blank, InDelivery
  <2>6. ASSUME ReadItems(w) PROVE Outside
    BY <1>0, <2>0, <2>6 DEF ReadItems, Job, InDelivery
  <2>7. ASSUME ReleaseKeys(w) \/ ReleaseAccounts(w) PROVE Outside
    BY <1>0, <2>0, <2>7 DEF ReleaseKeys, ReleaseAccounts, Job, InDelivery
  <2>8. ASSUME StoreStock(w) PROVE Outside
    BY <1>0, <2>0, <2>8 DEF StoreStock, Job, InDelivery
  <2>9. Outside
    BY <1>3, <2>1, <2>2, <2>3, <2>4, <2>5, <2>6, <2>7, <2>8 DEF Request, UpdateStep
  <2> QED
    BY <2>9, NoSnapshot
<1>4. ASSUME NEW o \in Orders, PaymentApproved(o) \/ PaymentRejected(o) PROVE SnapshotsHold'
  BY <1>4 DEF PaymentApproved, PaymentRejected, SetStatus, SnapshotsHold, ServedSoFar, ItemsOf
<1>5. CASE Crash
  <2>1. \A w \in Workers : job'[w].pc = "idle"
    BY <1>5 DEF Crash, IdleJob, Blank
  <2> QED
    BY <2>1 DEF SnapshotsHold, ServedSoFar, InDelivery
<1>6. CASE UNCHANGED vars
  BY <1>6 DEF vars, SnapshotsHold, ServedSoFar, ItemsOf
<1> QED
  BY <1>1, <1>2, <1>3, <1>4, <1>5, <1>6 DEF Next, HandlerStep, DeliverStep

(* The commit gives a unit to the items that have none, and to those only. *)
LEMMA CommitServesAlone ==
  ASSUME IInv, SnapshotsHold, NEW w \in Workers, CommitDelivery(w)
  PROVE  job[w].ord \in Orders /\ Sale!Serve(job[w].ord)
<1>1. job[w].pc = "count" /\ ServedSoFar(job[w])
  BY DEF CommitDelivery, SnapshotsHold
<1>2. /\ \A i \in Items : job[w].taken[i] # None => link[i] = None
      /\ \A i \in ItemsOf(job[w].ord) : link[i] # None \/ job[w].taken[i] # None
  BY <1>1 DEF ServedSoFar, InDelivery
<1> QED
  BY <1>2, CommitIsSale

LEMMA SnapshotInvariance ==
  (\A v, w \in Workers : v = w) => (Spec => [](IInv /\ SnapshotsHold))
<1> SUFFICES ASSUME \A v, w \in Workers : v = w
             PROVE  Spec => [](IInv /\ SnapshotsHold)
  OBVIOUS
<1>1. Init => SnapshotsHold
  BY DEF Init, SnapshotsHold, ServedSoFar, IdleJob, Blank, InDelivery
<1>2. IInv /\ SnapshotsHold /\ [Next]_vars => SnapshotsHold'
  BY SnapshotNext
<1> QED
  BY <1>1, <1>2, Invariance, PTL DEF Spec

(* One request at a time, the handlers implement the abstract sale for     *)
(* every status that may be asked for: a cancellation or a refund gives a  *)
(* unit back but does not take it from the item it was sold to, and the    *)
(* next delivery of the order finds the item served.                       *)
THEOREM SaleImplementedAlone ==
  (\A v, w \in Workers : v = w) => (Spec => SaleRefinement)
<1>1. IInv /\ SnapshotsHold /\ [Next]_vars => [Sale!SaleNext]_link
  <2> SUFFICES ASSUME IInv, SnapshotsHold, [Next]_vars PROVE [Sale!SaleNext]_link
    OBVIOUS
  <2>1. ASSUME NEW w \in Workers, CommitDelivery(w) PROVE Sale!SaleNext
    BY <2>1, CommitServesAlone DEF Sale!SaleNext
  <2>2. CASE \A w \in Workers : ~ CommitDelivery(w)
    BY <2>2, OnlyCommitsLink
  <2> QED
    BY <2>1, <2>2
<1> QED
  BY <1>1, SaleStarts, SnapshotInvariance, PTL DEF Spec, SaleRefinement, Sale!SaleSpec

-----------------------------------------------------------------------------
(* One request at a time, stock promises no more than is AVAILABLE.  What  *)
(* makes it inductive is what a recount that is not written yet knows.     *)

(* A count that is not stored yet exceeds nothing the transaction sees,    *)
(* and a delivery that counts has counted, or will count, every product it *)
(* has taken a unit of.                                                    *)
CountsHold(k) ==
  /\ k.pc \notin {"count", "store"} => k.sync = NoSync
  /\ \A p \in Products : k.sync[p] # None =>
       k.sync[p].stock <= Cardinality(Available(p, k.taken))
  /\ k.pc = "count" =>
       \A i \in Items : k.taken[i] # None =>
         ItemProduct[i] \in k.todo \/ k.sync[ItemProduct[i]] # None

StockInv == StockCovered /\ \A w \in Workers : CountsHold(job[w])

(* More AVAILABLE rows, a larger count.                                    *)
LEMMA CountGrows ==
  ASSUME NEW S, NEW T, S \subseteq T, T \subseteq Units
  PROVE  Cardinality(S) <= Cardinality(T)
BY UnitsAreFinite, FS_Subset

(* A request that has counted nothing.                                     *)
LEMMA NothingCounted ==
  ASSUME NEW k \in Job, k.sync = NoSync, k.pc # "count"
  PROVE  CountsHold(k)
BY DEF CountsHold, NoSync

(* Steps of the only worker that leave units and stock alone.              *)
LEMMA StockLocal ==
  ASSUME IInv, StockInv, \A v, w \in Workers : v = w,
         NEW w \in Workers, UNCHANGED <<unit, stock>>,
         CountsHold(job'[w])
  PROVE  StockInv'
<1>1. StockCovered'
  BY DEF StockInv, StockCovered, Available, NoUnits
<1>2. CountsHold(job[w])'
  BY DEF CountsHold, Available, NoSync
<1> QED
  BY <1>1, <1>2 DEF StockInv

(* Requests, reads, the loop, failures and answers count nothing.          *)
LEMMA StockQuiet ==
  ASSUME IInv, StockInv, \A v, w \in Workers : v = w,
         NEW w \in Workers, UNCHANGED <<unit, stock>>,
         job' \in [Workers -> Job],
         job'[w].sync = NoSync, job'[w].pc # "count"
  PROVE  StockInv'
<1>1. CountsHold(job'[w])
  BY NothingCounted
<1> QED
  BY <1>1, StockLocal

(* A request that ended remembers no count.                                *)
LEMMA StockEnding ==
  ASSUME IInv, StockInv, \A v, w \in Workers : v = w,
         NEW w \in Workers, UNCHANGED <<unit, stock>>,
         job' \in [Workers -> Job],
         \/ \E pc \in Ended : job' = [job EXCEPT ![w] = Outcome(w, pc)]
         \/ job' = [job EXCEPT ![w] = IdleJob]
  PROVE  StockInv'
<1>1. job'[w].sync = NoSync /\ job'[w].pc # "count"
  BY DEF IInv, TypeOK, Outcome, IdleJob, Blank, Ended
<1> QED
  BY <1>1, StockQuiet

(* The loop ends: everything taken is to be counted.                       *)
LEMMA StockBeginSync ==
  ASSUME IInv, StockInv, \A v, w \in Workers : v = w,
         NEW w \in Workers, BeginSync(w)
  PROVE  StockInv'
<1>1. /\ job \in [Workers -> Job] /\ job[w] \in Job
      /\ job[w].pc = "take" /\ CountsHold(job[w])
  BY DEF IInv, TypeOK, StockInv, BeginSync
<1>2. /\ job'[w].pc = "count" /\ job'[w].sync = job[w].sync /\ job'[w].taken = job[w].taken
      /\ job'[w].todo = {ItemProduct[i] : i \in {j \in Items : job[w].taken[j] # None}}
      /\ UNCHANGED <<unit, stock>>
  BY <1>1 DEF BeginSync, Job, tables
<1>3. CountsHold(job'[w])
  BY <1>1, <1>2 DEF CountsHold, NoSync
<1> QED
  BY <1>2, <1>3, StockLocal

(* A count is exact when it is made.                                       *)
LEMMA StockCount ==
  ASSUME IInv, StockInv, \A v, w \in Workers : v = w,
         NEW w \in Workers, NEW p \in Products, CountStock(w, p)
  PROVE  StockInv'
<1> DEFINE r == Recount(p, job[w].taken)
<1>1. /\ job \in [Workers -> Job] /\ job[w] \in Job /\ TypeOK
      /\ job[w].pc \in {"count", "resync"} /\ CountsHold(job[w])
  BY DEF IInv, TypeOK, StockInv, CountStock
<1>2. /\ job'[w].pc = (IF job[w].pc = "resync" THEN "store" ELSE job[w].pc)
      /\ job'[w].sync = [job[w].sync EXCEPT ![p] = r]
      /\ job'[w].taken = job[w].taken
      /\ job'[w].todo = job[w].todo \ {p}
      /\ UNCHANGED <<unit, stock>>
  BY <1>1 DEF CountStock, Job, tables
<1>3. r.stock = Cardinality(Available(p, job[w].taken)) /\ r.stock \in Nat
  BY CountIsNat DEF Recount
<1>4. job[w].sync \in [Products -> [stock : Nat, active : BOOLEAN] \cup {None}]
  BY <1>1 DEF Job
<1>5. \A q \in Products : job'[w].sync[q] = IF q = p THEN r ELSE job[w].sync[q]
  BY <1>2, <1>4
<1>6. \A q \in Products : job'[w].sync[q] # None =>
         job'[w].sync[q].stock <= Cardinality(Available(q, job'[w].taken))
  BY <1>1, <1>2, <1>3, <1>5 DEF CountsHold
<1>7. job'[w].pc \in {"count", "store"}
  BY <1>1, <1>2
<1>8. CASE r # None
  <2>1. job'[w].pc = "count" =>
          \A i \in Items : job'[w].taken[i] # None =>
            ItemProduct[i] \in job'[w].todo \/ job'[w].sync[ItemProduct[i]] # None
    BY <1>1, <1>2, <1>5, <1>8, CatalogAssumption DEF CountsHold
  <2>2. CountsHold(job'[w])
    BY <1>6, <1>7, <2>1 DEF CountsHold
  <2> QED
    BY <1>2, <2>2, StockLocal
<1>9. r # None
  BY <1>1, RecountType, NoneAssumption
<1> QED
  BY <1>8, <1>9

(* The statement after a count writes what was counted: nothing happened   *)
(* in between.                                                             *)
LEMMA StockStore ==
  ASSUME IInv, StockInv, \A v, w \in Workers : v = w,
         NEW w \in Workers, StoreStock(w)
  PROVE  StockInv'
<1>1. /\ job \in [Workers -> Job] /\ job[w] \in Job /\ job' \in [Workers -> Job]
      /\ job[w].pc = "store" /\ CountsHold(job[w]) /\ job[w].taken = NoUnits
  BY NextIInv, NoLocksOutsideDelivery
     DEF IInv, TypeOK, StockInv, StoreStock, InDelivery, Next, HandlerStep, UpdateStep
<1>2. /\ job'[w].pc = "resync" /\ job'[w].sync = NoSync
      /\ stock' = StockAfter(job[w].sync) /\ UNCHANGED unit
  BY <1>1 DEF StoreStock, Job
<1>3. CountsHold(job'[w])
  BY <1>1, <1>2, NothingCounted
<1>4. CountsHold(job[w])'
  BY <1>3, <1>2 DEF CountsHold, NoSync
<1>5. StockCovered'
  BY <1>1, <1>2 DEF StockInv, StockCovered, StockAfter, CountsHold, Available
<1> QED
  BY <1>4, <1>5 DEF StockInv

(* The commit stores the counts of what it takes, with the units taken     *)
(* left out; of the other products it takes none.                          *)
LEMMA StockCommit ==
  ASSUME IInv, StockInv, \A v, w \in Workers : v = w,
         NEW w \in Workers, CommitDelivery(w)
  PROVE  StockInv'
<1> DEFINE t == job[w].taken
           got(u) == {i \in Items : t[i] = u}
<1>1. /\ job \in [Workers -> Job] /\ job[w] \in Job /\ RowLocks
      /\ job[w].pc = "count" /\ job[w].todo = {} /\ CountsHold(job[w])
      /\ t \in [Items -> Units \cup {None}]
  BY DEF IInv, TypeOK, StockInv, CommitDelivery, Job
<1>2. /\ unit' = [u \in Units |-> IF got(u) = {} THEN unit[u] ELSE "DELIVERED"]
      /\ stock' = StockAfter(job[w].sync)
      /\ job' = [job EXCEPT ![w] = Outcome(w, "done")]
  BY DEF CommitDelivery
<1>3. \A u \in Units : unit'[u] = "AVAILABLE" => unit[u] = "AVAILABLE" /\ \A i \in Items : t[i] # u
  BY <1>2
<1>4. \A u \in Units : (unit[u] = "AVAILABLE" /\ \A i \in Items : t[i] # u) => unit'[u] = "AVAILABLE"
  BY <1>2
<1>5. \A u \in Units, i \in Items : NoUnits[i] # u
  BY NoneAssumption DEF NoUnits
<1>6. StockCovered'
  <2> SUFFICES ASSUME NEW p \in Products
               PROVE  stock'[p] <= Cardinality(Available(p, NoUnits)')
    BY DEF StockCovered, NoUnits
  <2>1. Available(p, NoUnits)' = Available(p, t)
    BY <1>3, <1>4, <1>5 DEF Available, NoUnits
  <2>2. CASE job[w].sync[p] # None
    BY <1>1, <1>2, <2>1, <2>2 DEF CountsHold, StockAfter
  <2>3. CASE job[w].sync[p] = None
    <3>1. \A i \in Items : t[i] # None => ItemProduct[i] # p
      BY <1>1, <2>3 DEF CountsHold
    <3>2. \A i \in Items : t[i] # None => UnitProduct[t[i]] # p
      BY <1>1, <3>1 DEF RowLocks
    <3>3. Available(p, t) = Available(p, NoUnits)
      BY <1>5, <3>2, NoneAssumption DEF Available
    <3>4. stock'[p] = stock[p]
      BY <1>2, <2>3 DEF StockAfter
    <3> QED
      BY <2>1, <3>3, <3>4 DEF StockInv, StockCovered
  <2> QED
    BY <2>2, <2>3
<1>7. /\ job'[w] = Outcome(w, "done") /\ Outcome(w, "done") \in Job
      /\ job'[w].sync = NoSync /\ job'[w].pc = "done"
  BY <1>1, <1>2, OutcomeType DEF Outcome, Blank, IInv, Ended
<1>8. CountsHold(job[w])'
  BY <1>7 DEF CountsHold, NoSync
<1> QED
  BY <1>6, <1>8 DEF StockInv

(* A release makes units AVAILABLE and none of them not.                   *)
LEMMA StockRelease ==
  ASSUME IInv, StockInv, \A v, w \in Workers : v = w,
         NEW w \in Workers, ReleaseKeys(w) \/ ReleaseAccounts(w)
  PROVE  StockInv'
<1>1. /\ job \in [Workers -> Job] /\ job[w] \in Job /\ TypeOK
      /\ job[w].pc \in {"releaseKeys", "releaseAccounts"} /\ job[w].sync = NoSync
  BY DEF IInv, TypeOK, StockInv, CountsHold, ReleaseKeys, ReleaseAccounts
<1>2. PICK type \in {"KEY", "ACCOUNT"} : Release(w, type)
  BY DEF ReleaseKeys, ReleaseAccounts
<1>3. UNCHANGED stock /\ \A u \in Units : unit[u] = "AVAILABLE" => unit'[u] = "AVAILABLE"
  BY <1>2 DEF Release
<1>4. StockCovered'
  <2> SUFFICES ASSUME NEW p \in Products
               PROVE  stock'[p] <= Cardinality(Available(p, NoUnits)')
    BY DEF StockCovered, NoUnits
  <2>1. Available(p, NoUnits) \subseteq Available(p, NoUnits)' /\ Available(p, NoUnits)' \subseteq Units
    BY <1>3 DEF Available, NoUnits
  <2>2. Cardinality(Available(p, NoUnits)) <= Cardinality(Available(p, NoUnits)')
    BY <2>1, CountGrows
  <2>3. Cardinality(Available(p, NoUnits)) \in Nat /\ Cardinality(Available(p, NoUnits)') \in Nat
    BY <2>1, UnitsAreFinite, FS_Subset, FS_CardinalityType
  <2>4. stock'[p] = stock[p] /\ stock[p] \in Nat /\ stock[p] <= Cardinality(Available(p, NoUnits))
    BY <1>1, <1>3 DEF TypeOK, StockInv, StockCovered
  <2> QED
    BY <2>2, <2>3, <2>4
<1>5. job'[w].sync = NoSync /\ job'[w].pc \notin {"count", "store"}
  BY <1>1 DEF ReleaseKeys, ReleaseAccounts, Job
<1>6. CountsHold(job[w])'
  BY <1>5 DEF CountsHold, NoSync
<1> QED
  BY <1>4, <1>6 DEF StockInv

(* The other steps of a handler count nothing and leave units and stock.   *)
LEMMA StockOtherSteps ==
  ASSUME IInv, StockInv, \A v, w \in Workers : v = w,
         NEW w \in Workers, job' \in [Workers -> Job],
         \/ \E o \in Orders : StartDeliver(w, o) \/ \E s \in Targets : StartUpdate(w, o, s)
         \/ FindOrder(w) \/ FindItems(w) \/ BeginDelivery(w) \/ TakeUnit(w)
         \/ \E i \in Items, u \in Units : FindUnit(w, i, u)
         \/ ReadOrder(w) \/ ReadItems(w)
  PROVE  StockInv'
<1> DEFINE Quiet == job'[w].sync = NoSync /\ job'[w].pc # "count"
           Ends == \E pc \in Ended : job' = [job EXCEPT ![w] = Outcome(w, pc)]
<1>1. job \in [Workers -> Job] /\ job[w] \in Job
  BY DEF IInv, TypeOK
<1>2. job[w].pc \notin {"count", "store"} => job[w].sync = NoSync
  BY DEF StockInv, CountsHold
<1>3. ASSUME NEW o \in Orders, StartDeliver(w, o) \/ \E s \in Targets : StartUpdate(w, o, s)
      PROVE  Quiet
  <2>1. ASSUME StartDeliver(w, o) PROVE Quiet
    BY <1>1, <1>2, <2>1 DEF StartDeliver, Job
  <2>2. ASSUME NEW s \in Targets, StartUpdate(w, o, s) PROVE Quiet
    BY <1>1, <1>2, <2>2 DEF StartUpdate, Job
  <2> QED
    BY <1>3, <2>1, <2>2
<1>4. ASSUME NEW i \in Items, NEW u \in Units, FindUnit(w, i, u)
      PROVE  Quiet
  BY <1>1, <1>2, <1>4 DEF FindUnit, Job
<1>5. ASSUME FindItems(w) \/ ReadItems(w)
      PROVE  Quiet
  BY <1>1, <1>2, <1>5 DEF FindItems, ReadItems, Job
<1>6. ASSUME FindOrder(w) \/ BeginDelivery(w)
      PROVE  Quiet \/ Ends
  BY <1>1, <1>2, <1>6 DEF FindOrder, BeginDelivery, Job, Ended
<1>7. ASSUME TakeUnit(w) \/ ReadOrder(w)
      PROVE  Quiet \/ Ends
  BY <1>1, <1>2, <1>7 DEF TakeUnit, ReadOrder, Job, Ended
<1>8. UNCHANGED <<unit, stock>>
  BY DEF StartDeliver, StartUpdate, FindOrder, FindItems, BeginDelivery, TakeUnit, FindUnit,
         ReadOrder, ReadItems, tables
<1>9. Quiet \/ Ends
  BY <1>3, <1>4, <1>5, <1>6, <1>7
<1> QED
  BY <1>8, <1>9, StockQuiet, StockEnding

(* With one worker every step keeps the stock covered.                     *)
LEMMA StockNext ==
  ASSUME \A v, w \in Workers : v = w
  PROVE  IInv /\ StockInv /\ [Next]_vars => StockInv'
<1> SUFFICES ASSUME IInv, StockInv, [Next]_vars PROVE StockInv'
  OBVIOUS
<1>0. job' \in [Workers -> Job]
  BY NextIInv DEF IInv, TypeOK
<1>1. ASSUME NEW w \in Workers, Request(w) PROVE StockInv'
  BY <1>0, <1>1, StockOtherSteps DEF Request
<1>2. ASSUME NEW w \in Workers, DeliverStep(w) PROVE StockInv'
  <2>1. ASSUME NEW i \in Items, NoUnitAvailable(w, i) PROVE StockInv'
    BY <1>0, <2>1, StockEnding DEF NoUnitAvailable, Ended, tables
  <2> QED
    BY <1>0, <1>2, <2>1, StockOtherSteps, StockBeginSync, StockCommit DEF DeliverStep
<1>3. ASSUME NEW w \in Workers, UpdateStep(w) PROVE StockInv'
  <2>1. CASE WriteStatus(w)
    BY <1>0, <2>1, StockEnding DEF WriteStatus, Ended
  <2> QED
    BY <1>0, <1>3, <2>1, StockOtherSteps, StockRelease, StockStore DEF UpdateStep
<1>4. ASSUME NEW w \in Workers, NEW p \in Products, CountStock(w, p) PROVE StockInv'
  BY <1>4, StockCount
<1>5. ASSUME NEW w \in Workers, StatementFails(w) \/ Return(w) PROVE StockInv'
  BY <1>0, <1>5, StockEnding DEF StatementFails, Return, Ended, tables
<1>6. ASSUME UNCHANGED <<unit, stock>>, UNCHANGED job \/ \A w \in Workers : job'[w] = IdleJob
      PROVE  StockInv'
  <2>1. StockCovered'
    BY <1>6 DEF StockInv, StockCovered, Available, NoUnits
  <2>2. CASE UNCHANGED job
    BY <1>6, <2>1, <2>2 DEF StockInv, CountsHold, Available, NoSync
  <2>3. CASE \A w \in Workers : job'[w] = IdleJob
    <3>1. IdleJob.sync = NoSync /\ IdleJob.pc = "idle"
      BY DEF IdleJob, Blank
    <3>2. \A w \in Workers : CountsHold(job[w])'
      BY <2>3, <3>1 DEF CountsHold, NoSync
    <3> QED
      BY <2>1, <3>2 DEF StockInv
  <2> QED
    BY <1>6, <2>2, <2>3
<1>7. CASE \E o \in Orders : PaymentApproved(o) \/ PaymentRejected(o)
  BY <1>6, <1>7 DEF PaymentApproved, PaymentRejected, SetStatus
<1>8. CASE Crash
  <2>1. UNCHANGED <<unit, stock>> /\ \A w \in Workers : job'[w] = IdleJob
    BY <1>8 DEF Crash, tables
  <2> QED
    BY <1>6, <2>1
<1>9. CASE UNCHANGED vars
  BY <1>6, <1>9 DEF vars
<1> QED
  BY <1>1, <1>2, <1>3, <1>4, <1>5, <1>7, <1>8, <1>9 DEF Next, HandlerStep

(* When requests run one at a time, for any catalogue and any requests,    *)
(* payments, failures and crashes, the stock that order creation checks is *)
(* covered by units.  Two at a time break it (orders.repository.ts:53).    *)
THEOREM StockCoveredAlone ==
  (\A v, w \in Workers : v = w) => (Spec => []StockCovered)
<1> SUFFICES ASSUME \A v, w \in Workers : v = w
             PROVE  Spec => []StockCovered
  OBVIOUS
<1>1. Init => StockInv
  <2> SUFFICES ASSUME Init PROVE StockInv
    OBVIOUS
  <2>1. StockCovered
    <3> SUFFICES ASSUME NEW p \in Products
                 PROVE  stock[p] <= Cardinality(Available(p, NoUnits))
      BY DEF StockCovered
    <3>1. Available(p, NoUnits) = {u \in Units : UnitProduct[u] = p}
      BY NoneAssumption DEF Init, Available, NoUnits
    <3>2. Cardinality(Available(p, NoUnits)) \in Nat
      BY CountIsNat
    <3> QED
      BY <3>1, <3>2 DEF Init
  <2>2. \A w \in Workers : CountsHold(job[w])
    BY DEF Init, IdleJob, Blank, CountsHold, NoSync
  <2> QED
    BY <2>1, <2>2 DEF StockInv
<1>2. IInv /\ StockInv /\ [Next]_vars => StockInv'
  BY StockNext
<1>3. StockInv => StockCovered
  BY DEF StockInv
<1> QED
  BY <1>1, <1>2, <1>3, Invariance, PTL DEF Spec
=============================================================================
