----------------------------- MODULE Inventory -----------------------------
(***************************************************************************)
(* Stocking the shop: keys.repository and accounts.repository import,      *)
(* change and delete the rows a product sells from, and recount            *)
(* Product.stock.  The two repositories are written alike; a row's table   *)
(* says whose row it is.                                                   *)
(*                                                                         *)
(* A request of an administrator is a clerk.  Its uncommitted writes are   *)
(* in draft and reach the tables when its transaction commits; a row that  *)
(* an open transaction has written is locked.  Deliveries (Fulfilment)     *)
(* happen beside it, each as the one step that commits it.                 *)
(***************************************************************************)
EXTENDS ShopDomain, Naturals, FiniteSets

CONSTANTS
  Clerks,        \* administrators' requests in progress at the same time
  Rows,          \* identities of keys and accounts
  Goods,         \* products
  GoodType,      \* Product.productType
  Imports,       \* the pairs of table and product that imports name
  MaxBatch,      \* lines of an import, at most
  NewStatuses,   \* the statuses updates ask for
  NoRow, Same    \* no row; a row that a transaction has not written

Row == [table : ProductTypes, good : Goods, status : UnitStatuses]

ASSUME InventoryAssumption ==
  /\ GoodType \in [Goods -> ProductTypes]
  /\ Imports \subseteq ProductTypes \X Goods
  /\ MaxBatch \in Nat /\ IsFiniteSet(Rows)
  /\ NewStatuses \subseteq UnitStatuses
  /\ {NoRow, Same} \cap (Rows \cup Goods \cup Row) = {} /\ NoRow # Same

VARIABLES
  row,           \* Key and Account: what each identity is, NoRow if not there
  goodStock,     \* Product.stock
  clerk          \* what each request is doing

inventoryVars == <<row, goodStock, clerk>>

NoDraft == [r \in Rows |-> Same]

ClerkPcs == {"idle", "check", "insert", "insertOne", "read", "write",
             "count", "commit", "store", "answered"}

Clerk == [pc       : ClerkPcs,
          op       : {"import", "update", "delete"},
          table    : ProductTypes,
          good     : Goods \cup {NoRow},
          target   : Rows \cup {NoRow},
          status   : UnitStatuses \cup {NoRow},  \* an update's; none: other data
          lines    : 0 .. MaxBatch,       \* lines of the import
          valid    : 0 .. MaxBatch,       \* those left to insert
          inserted : 0 .. MaxBatch,       \* rows this request inserted
          imported : 0 .. MaxBatch,       \* the two numbers it answers with
          failed   : 0 .. MaxBatch,
          draft    : [Rows -> Row \cup {NoRow, Same}],
          count    : 0 .. Cardinality(Rows),
          alone    : BOOLEAN]             \* nothing else ran since it began

IdleClerk == [pc |-> "idle", op |-> "import", table |-> "KEY", good |-> NoRow,
              target |-> NoRow, status |-> NoRow, lines |-> 0, valid |-> 0,
              inserted |-> 0, imported |-> 0, failed |-> 0, draft |-> NoDraft,
              count |-> 0, alone |-> TRUE]

InventoryTypeOK ==
  /\ row \in [Rows -> Row \cup {NoRow}]
  /\ goodStock \in [Goods -> 0 .. Cardinality(Rows)]
  /\ clerk \in [Clerks -> Clerk]

InventoryInit ==
  /\ row = [r \in Rows |-> NoRow]
  /\ goodStock = [g \in Goods |-> 0]
  /\ clerk = [w \in Clerks |-> IdleClerk]

(* The tables as the transaction of w sees them.                           *)
Seen(w, r) == IF clerk[w].draft[r] = Same THEN row[r] ELSE clerk[w].draft[r]
WithDraft(w) == [r \in Rows |-> Seen(w, r)]

RowLocked(w, r) == \E v \in Clerks \ {w} : clerk[v].draft[r] # Same

(* AVAILABLE rows of one table, whatever type the product has: what the    *)
(* two repositories count.                                                 *)
OnSale(rows, table, g) ==
  {r \in Rows : rows[r] = [table |-> table, good |-> g, status |-> "AVAILABLE"]}

(* An identity no open transaction is using.                               *)
FreshRows(w) == {r \in Rows : Seen(w, r) = NoRow /\ ~ RowLocked(w, r)}

TablesStay == UNCHANGED <<row, goodStock>>

(* A request that has been answered; one that threw is idle again at once. *)
Answered == [IdleClerk EXCEPT !.pc = "answered"]

Fail(w) ==
  /\ clerk' = [clerk EXCEPT ![w] = IdleClerk]
  /\ TablesStay

ClerkGoes(w, pc) == clerk' = [clerk EXCEPT ![w].pc = pc]

(* A request that begins, like a delivery, overlaps those in progress.     *)
Overlapped(v) ==
  IF clerk[v].pc = "idle" THEN clerk[v] ELSE [clerk[v] EXCEPT !.alone = FALSE]

Begin(w, request) ==
  /\ clerk[w].pc = "idle"
  /\ clerk' = [v \in Clerks |->
       IF v = w THEN [request EXCEPT !.alone = \A x \in Clerks \ {w} : clerk[x].pc = "idle"]
       ELSE Overlapped(v)]
  /\ TablesStay

-----------------------------------------------------------------------------
(* importKeys and importAccounts.  An empty list is refused or answered    *)
(* with nothing; a line that cannot be parsed or encrypted counts as       *)
(* failed; without a valid one the answer is given at once.                *)

StartImport(w, table, g, lines, valid) ==
  /\ valid <= lines
  /\ Begin(w, IF valid = 0 THEN Answered
              ELSE [IdleClerk EXCEPT !.table = table, !.good = g, !.lines = lines,
                      !.valid = valid, !.failed = lines - valid,
                      !.pc = IF table = "ACCOUNT" THEN "check" ELSE "insert"])

(* Only accounts look at the type of the product they are imported into.   *)
EnsureAccountProduct(w) ==
  /\ clerk[w].pc = "check"
  /\ \/ GoodType[clerk[w].good] = "ACCOUNT" /\ ClerkGoes(w, "insert") /\ TablesStay
     \/ GoodType[clerk[w].good] # "ACCOUNT" /\ Fail(w)

NewRow(w) == [table |-> clerk[w].table, good |-> clerk[w].good, status |-> "AVAILABLE"]
Insert(rows, batch, new) == [r \in Rows |-> IF r \in batch THEN new ELSE rows[r]]

(* createMany.  For keys it is a statement of the transaction; for         *)
(* accounts it commits on its own.                                         *)
CreateMany(w, batch) ==
  /\ clerk[w].pc = "insert"
  /\ batch \subseteq FreshRows(w)
  /\ Cardinality(batch) = clerk[w].valid
  /\ \/ /\ clerk[w].table = "KEY"
        /\ clerk' = [clerk EXCEPT ![w].draft = Insert(@, batch, NewRow(w)),
                                  ![w].inserted = clerk[w].valid,
                                  ![w].imported = clerk[w].valid, ![w].pc = "count"]
        /\ UNCHANGED row
     \/ /\ clerk[w].table = "ACCOUNT"
        /\ row' = Insert(row, batch, NewRow(w))
        /\ clerk' = [clerk EXCEPT ![w].inserted = clerk[w].valid,
                                  ![w].imported = clerk[w].valid, ![w].pc = "count"]
  /\ UNCHANGED goodStock

(* createMany throws, and the rows are inserted one by one.  For keys that *)
(* helps only against an error of Prisma's own (too many parameters): one  *)
(* of PostgreSQL's ends the transaction, and with it the fallback's        *)
(* inserts, whose errors are caught, and the recount, whose are not.       *)
CreateManyFails(w) ==
  /\ clerk[w].pc = "insert"
  /\ \/ clerk[w].table = "KEY" /\ Fail(w)
     \/ ClerkGoes(w, "insertOne") /\ TablesStay

(* One row, in the transaction for keys; an insert that throws costs an    *)
(* account its line and the keys their transaction.                        *)
InsertHere(w, r) ==
  LET counted == [clerk EXCEPT ![w].valid = @ - 1, ![w].inserted = @ + 1, ![w].imported = @ + 1]
  IN  /\ r \in FreshRows(w)
      /\ \/ /\ clerk[w].table = "KEY"
            /\ clerk' = [counted EXCEPT ![w].draft[r] = NewRow(w)]
            /\ UNCHANGED row
         \/ /\ clerk[w].table = "ACCOUNT"
            /\ row' = [row EXCEPT ![r] = NewRow(w)]
            /\ clerk' = counted

(* Mutant: the rows reported are the lines that could be parsed.           *)
CountsEveryLine(w, r) ==
  /\ clerk[w].pc = "insertOne"
  /\ clerk[w].valid > 0
  /\ \/ InsertHere(w, r)
     \/ /\ clerk[w].table = "ACCOUNT"
        /\ clerk' = [clerk EXCEPT ![w].valid = @ - 1, ![w].imported = @ + 1]
        /\ UNCHANGED row
     \/ clerk[w].table = "KEY" /\ Fail(w)
  /\ UNCHANGED goodStock

InsertOne(w, r) ==
  /\ clerk[w].pc = "insertOne"
  /\ clerk[w].valid > 0
  /\ \/ InsertHere(w, r)
     \/ /\ clerk[w].table = "ACCOUNT"
        /\ clerk' = [clerk EXCEPT ![w].valid = @ - 1, ![w].failed = @ + 1]
        /\ UNCHANGED row
     \/ clerk[w].table = "KEY" /\ Fail(w)
  /\ UNCHANGED goodStock

InsertedAll(w) ==
  /\ clerk[w].pc = "insertOne"
  /\ clerk[w].valid = 0
  /\ ClerkGoes(w, "count")
  /\ TablesStay

-----------------------------------------------------------------------------
(* update and delete: one read outside the transaction, which finds the    *)
(* product - and, for delete, the status - and is not repeated inside.     *)

StartUpdateRow(w, r, status) ==
  Begin(w, [IdleClerk EXCEPT !.pc = "read", !.op = "update", !.target = r, !.status = status])

StartDeleteRow(w, r) ==
  Begin(w, [IdleClerk EXCEPT !.pc = "read", !.op = "delete", !.target = r])

(* Mutant: a row of any status may be deleted.                             *)
ReadsNoStatus(w) ==
  /\ clerk[w].pc = "read"
  /\ \/ /\ row[clerk[w].target] # NoRow
        /\ clerk' = [clerk EXCEPT ![w].pc = "write", ![w].good = row[clerk[w].target].good,
                                  ![w].table = row[clerk[w].target].table]
        /\ TablesStay
     \/ row[clerk[w].target] = NoRow /\ Fail(w)

ReadRow(w) ==
  LET r == clerk[w].target
      ok == row[r] # NoRow /\ (clerk[w].op = "delete" => row[r].status = "AVAILABLE")
  IN  /\ clerk[w].pc = "read"
      /\ \/ /\ ok
            /\ clerk' = [clerk EXCEPT ![w].pc = "write", ![w].good = row[r].good,
                                      ![w].table = row[r].table]
            /\ TablesStay
         \/ ~ ok /\ Fail(w)

(* Waits for the row's lock; a row that is gone by then is an exception.   *)
(* An update without a status recounts nothing.                            *)
WriteRow(w) ==
  LET r == clerk[w].target
      Draft(new) == /\ clerk' = [clerk EXCEPT ![w].draft[r] = new, ![w].pc = "count"]
                    /\ TablesStay
  IN  /\ clerk[w].pc = "write"
      /\ ~ RowLocked(w, r)
      /\ \/ row[r] = NoRow /\ Fail(w)
         \/ row[r] # NoRow /\ clerk[w].op = "delete" /\ Draft(NoRow)
         \/ /\ row[r] # NoRow /\ clerk[w].op = "update" /\ clerk[w].status # NoRow
            /\ Draft([row[r] EXCEPT !.status = clerk[w].status])
         \/ /\ clerk[w].op = "update" /\ clerk[w].status = NoRow
            /\ row[r] # NoRow
            /\ clerk' = [clerk EXCEPT ![w] = Answered]
            /\ TablesStay

-----------------------------------------------------------------------------
(* syncProductStock: count, then write.  Inside a transaction the write    *)
(* waits for the product's row and is committed with the rest; after an    *)
(* import of accounts it is a statement of its own.                        *)

(* Mutant: the count runs outside the transaction.                         *)
CountsCommittedRows(w) ==
  /\ clerk[w].pc = "count"
  /\ clerk' = [clerk EXCEPT
       ![w].count = Cardinality(OnSale(row, clerk[w].table, clerk[w].good)),
       ![w].pc = IF clerk[w].draft = NoDraft THEN "store" ELSE "commit"]
  /\ TablesStay

CountRows(w) ==
  /\ clerk[w].pc = "count"
  /\ clerk' = [clerk EXCEPT
       ![w].count = Cardinality(OnSale(WithDraft(w), clerk[w].table, clerk[w].good)),
       ![w].pc = IF clerk[w].draft = NoDraft THEN "store" ELSE "commit"]
  /\ TablesStay

(* Mutant: the stock grows by the count.                                   *)
WriteCountIncrements(w) ==
  /\ clerk[w].pc \in {"commit", "store"}
  /\ row' = WithDraft(w)
  /\ goodStock' = [goodStock EXCEPT ![clerk[w].good] = @ + clerk[w].count]
  /\ clerk' = [clerk EXCEPT ![w] = Answered]

WriteCount(w) ==
  /\ clerk[w].pc \in {"commit", "store"}
  /\ row' = WithDraft(w)
  /\ goodStock' = [goodStock EXCEPT ![clerk[w].good] = clerk[w].count]
  /\ clerk' = [clerk EXCEPT ![w] = Answered]

-----------------------------------------------------------------------------
(* Beside the clerks: a delivery, whose recount counts the table of the    *)
(* product's type, and failures.                                           *)

DeliverRow(r) ==
  /\ row[r] # NoRow
  /\ row[r].status = "AVAILABLE"
  /\ row[r].table = GoodType[row[r].good]
  /\ \A w \in Clerks : clerk[w].draft[r] = Same
  /\ row' = [row EXCEPT ![r].status = "DELIVERED"]
  /\ goodStock' = [goodStock EXCEPT ![row[r].good] =
                     Cardinality(OnSale(row', row[r].table, row[r].good))]
  /\ clerk' = [w \in Clerks |-> Overlapped(w)]

ClerkFails(w) ==
  /\ clerk[w].pc \in {"check", "read", "write", "count", "commit", "store"}
  /\ Fail(w)

ClerkReturns(w) ==
  /\ clerk[w].pc = "answered"
  /\ clerk' = [clerk EXCEPT ![w] = IdleClerk]
  /\ TablesStay

InventoryCrash ==
  /\ clerk' = [w \in Clerks |-> IdleClerk]
  /\ TablesStay

InventoryNext ==
  \/ \E w \in Clerks :
       \/ \E i \in Imports, n \in 1 .. MaxBatch, k \in 0 .. MaxBatch :
            StartImport(w, i[1], i[2], n, k)
       \/ EnsureAccountProduct(w)
       \/ \E b \in SUBSET Rows : CreateMany(w, b)
       \/ CreateManyFails(w)
       \/ \E r \in Rows : InsertOne(w, r)
       \/ InsertedAll(w)
       \/ \E r \in Rows : StartDeleteRow(w, r) \/ \E s \in NewStatuses \cup {NoRow} : StartUpdateRow(w, r, s)
       \/ ReadRow(w) \/ WriteRow(w) \/ CountRows(w) \/ WriteCount(w)
       \/ ClerkFails(w) \/ ClerkReturns(w)
  \/ \E r \in Rows : DeliverRow(r)
  \/ InventoryCrash

InventorySpec == InventoryInit /\ [][InventoryNext]_inventoryVars

-----------------------------------------------------------------------------
(* Properties.                                                             *)

(* A recount that no other request and no delivery overlapped leaves       *)
(* Product.stock equal to the AVAILABLE rows of its table, however stale   *)
(* the stock was - after a crash between the rows of an account import and *)
(* their recount, or after two recounts that overlapped.                   *)
RecountHeals ==
  [][\A w \in Clerks :
       (clerk[w].pc \in {"commit", "store"} /\ clerk[w].alone /\ clerk'[w].pc = "answered") =>
         goodStock'[clerk[w].good] =
           Cardinality(OnSale(row', clerk[w].table, clerk[w].good))]_inventoryVars

(* The answer to an import accounts for every line, and the rows it        *)
(* reports were inserted by it, through the batch insert, the fallback     *)
(* line by line and the lines that could not be parsed.                    *)
ImportAddsUp ==
  [][\A w \in Clerks :
       (/\ clerk[w].pc \in {"commit", "store"} /\ clerk[w].op = "import"
        /\ clerk'[w].pc = "answered") =>
         /\ clerk[w].imported = clerk[w].inserted
         /\ clerk[w].imported + clerk[w].failed = clerk[w].lines]_inventoryVars

(* "Can only delete available keys" is true of a deletion that nothing     *)
(* overlapped: the status is read before the transaction, so only a        *)
(* delivery or another clerk in between can make it delete a sold row.     *)
LoneDeletionSparesSold ==
  [][\A r \in Rows : row[r] # NoRow /\ row'[r] = NoRow /\ row[r].status # "AVAILABLE" =>
       \E w \in Clerks : clerk[w].target = r /\ ~ clerk[w].alone]_inventoryVars
=============================================================================
