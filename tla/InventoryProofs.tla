-------------------------- MODULE InventoryProofs --------------------------
(***************************************************************************)
(* Proofs about Inventory, for any number of administrators' requests,     *)
(* rows and products.                                                      *)
(***************************************************************************)
EXTENDS Inventory, FiniteSetTheorems, TLAPS

(* The tables with the uncommitted writes of a request's record.           *)
Overlay(c, rows) == [r \in Rows |-> IF c.draft[r] = Same THEN rows[r] ELSE c.draft[r]]

(* The lines of an import are inserted, failed or still to be tried.       *)
Tally(c) ==
  c.op = "import" =>
    /\ c.inserted = c.imported
    /\ c.pc \in {"check", "insert"} => c.imported = 0
    /\ c.pc \in {"check", "insert", "insertOne"} => c.imported + c.failed + c.valid = c.lines
    /\ c.pc \in {"count", "commit", "store"} => c.imported + c.failed = c.lines

(* What a request knows of its arguments, and of what it has written.      *)
Prepared(c) ==
  /\ c.pc \in {"check", "insert", "insertOne"} => c.op = "import"
  /\ c.pc \in {"check", "insert", "insertOne", "write", "count", "commit", "store"} =>
       c.good \in Goods
  /\ c.pc \in {"read", "write"} => c.target \in Rows
  /\ c.pc \notin {"insertOne", "count", "commit", "store"} => \A r \in Rows : c.draft[r] = Same

(* What it has read is still so, as long as it is alone.                   *)
UpToDate(c, rows) ==
  /\ c.pc = "write" /\ c.op = "delete" /\ c.alone =>
       rows[c.target] # NoRow /\ rows[c.target].status = "AVAILABLE"
  /\ c.pc \in {"commit", "store"} /\ c.alone =>
       c.count = Cardinality(OnSale(Overlay(c, rows), c.table, c.good))
  /\ \A r \in Rows : c.draft[r] = NoRow =>
       /\ c.target = r
       /\ c.alone => rows[r] # NoRow /\ rows[r].status = "AVAILABLE"

Holds(c, rows) == c \in Clerk /\ Tally(c) /\ Prepared(c) /\ UpToDate(c, rows)

(* One that has nothing to lose when the tables change.                    *)
Quiet(c) == c.pc \in {"idle", "answered"} \/ ~ c.alone

(* Beside a request that is alone the others are idle.                     *)
LoneClerks ==
  \A w \in Clerks : ~ Quiet(clerk[w]) => \A v \in Clerks \ {w} : clerk[v].pc = "idle"

TablesAre(rows, stocks) ==
  /\ rows \in [Rows -> Row \cup {NoRow}]
  /\ stocks \in [Goods -> 0 .. Cardinality(Rows)]

InventoryInvariant ==
  /\ TablesAre(row, goodStock)
  /\ DOMAIN clerk = Clerks /\ clerk = [w \in Clerks |-> clerk[w]]
  /\ \A w \in Clerks : Holds(clerk[w], row)
  /\ LoneClerks

-----------------------------------------------------------------------------
LEMMA InvariantTypes == InventoryInvariant => InventoryTypeOK
  BY DEF InventoryInvariant, InventoryTypeOK, TablesAre, Holds

LEMMA RowsFinite == Cardinality(Rows) \in Nat
  BY FS_CardinalityType, InventoryAssumption

LEMMA OnSaleBounded ==
  ASSUME NEW rows, NEW table, NEW g
  PROVE  Cardinality(OnSale(rows, table, g)) \in 0 .. Cardinality(Rows)
  <1>1. OnSale(rows, table, g) \subseteq Rows
    BY DEF OnSale
  <1>2. IsFiniteSet(Rows)
    BY InventoryAssumption
  <1>3. /\ IsFiniteSet(OnSale(rows, table, g))
        /\ Cardinality(OnSale(rows, table, g)) <= Cardinality(Rows)
    BY <1>1, <1>2, FS_Subset
  <1> QED BY <1>3, RowsFinite, FS_CardinalityType

LEMMA IdleHolds ==
  ASSUME NEW rows
  PROVE  /\ Holds(IdleClerk, rows) /\ IdleClerk.pc = "idle" /\ Quiet(IdleClerk)
         /\ Holds(Answered, rows) /\ Answered.pc = "answered"
  <1>1. 0 \in 0 .. MaxBatch /\ 0 \in 0 .. Cardinality(Rows)
    BY InventoryAssumption, RowsFinite
  <1>2. NoDraft \in [Rows -> Row \cup {NoRow, Same}] /\ \A r \in Rows : NoDraft[r] = Same
    BY DEF NoDraft
  <1> HIDE DEF NoDraft
  <1>3. IdleClerk \in Clerk /\ Answered \in Clerk
    BY <1>1, <1>2 DEF IdleClerk, Answered, Clerk, ClerkPcs, ProductTypes
  <1>4. /\ IdleClerk.pc = "idle" /\ IdleClerk.op = "import" /\ IdleClerk.inserted = 0
        /\ IdleClerk.imported = 0 /\ IdleClerk.draft = NoDraft
        /\ Answered.pc = "answered" /\ Answered.op = "import" /\ Answered.inserted = 0
        /\ Answered.imported = 0 /\ Answered.draft = NoDraft
    BY DEF IdleClerk, Answered
  <1>5. NoRow # Same
    BY InventoryAssumption
  <1> QED BY <1>2, <1>3, <1>4, <1>5 DEF Holds, Tally, Prepared, UpToDate, Quiet

(* A request that is overlapped has nothing to lose: what it knows does    *)
(* not depend on the tables.                                               *)
LEMMA QuietHolds ==
  ASSUME NEW c, NEW rows, NEW others, Holds(c, rows), Quiet(c)
  PROVE  Holds(c, others)
  <1>1. NoRow # Same
    BY InventoryAssumption
  <1> QED BY <1>1 DEF Holds, Prepared, UpToDate, Quiet

LEMMA OverlappedHolds ==
  ASSUME NEW w \in Clerks, NEW rows, Holds(clerk[w], rows)
  PROVE  Holds(Overlapped(w), rows) /\ Quiet(Overlapped(w))
         /\ (Overlapped(w).pc = "idle" <=> clerk[w].pc = "idle")
  <1>1. CASE clerk[w].pc = "idle"
    BY <1>1 DEF Overlapped, Quiet
  <1>2. CASE clerk[w].pc # "idle"
    <2> DEFINE c == [clerk[w] EXCEPT !.alone = FALSE]
    <2>1. clerk[w] \in Clerk
      BY DEF Holds
    <2>2. c \in Clerk /\ c.alone = FALSE
      BY <2>1 DEF Clerk
    <2>3. /\ c.pc = clerk[w].pc /\ c.op = clerk[w].op /\ c.good = clerk[w].good
          /\ c.target = clerk[w].target /\ c.lines = clerk[w].lines /\ c.valid = clerk[w].valid
          /\ c.inserted = clerk[w].inserted /\ c.imported = clerk[w].imported
          /\ c.failed = clerk[w].failed /\ c.draft = clerk[w].draft
      BY <2>1 DEF Clerk
    <2> HIDE DEF c
    <2>4. Tally(c) /\ Prepared(c)
      BY <2>3 DEF Holds, Tally, Prepared
    <2>5. UpToDate(c, rows)
      BY <2>2, <2>3 DEF Holds, UpToDate
    <2>6. Overlapped(w) = c
      BY <1>2 DEF Overlapped, c
    <2> QED BY <1>2, <2>2, <2>3, <2>4, <2>5, <2>6 DEF Holds, Quiet
  <1> QED BY <1>1, <1>2

LEMMA InitInventory == InventoryInit => InventoryInvariant
  <1> SUFFICES ASSUME InventoryInit PROVE InventoryInvariant
    OBVIOUS
  <1>1. TablesAre(row, goodStock)
    BY RowsFinite DEF InventoryInit, TablesAre
  <1>2. DOMAIN clerk = Clerks /\ clerk = [w \in Clerks |-> clerk[w]]
        /\ \A w \in Clerks : clerk[w] = IdleClerk
    BY DEF InventoryInit
  <1> QED BY <1>1, <1>2, IdleHolds DEF InventoryInvariant, LoneClerks

(* The step of one request that has begun: the others are idle or have     *)
(* been overlapped, so only its own record is of interest.                 *)
LEMMA OwnStep ==
  ASSUME InventoryInvariant, NEW w \in Clerks, NEW c,
         clerk[w].pc # "idle",
         clerk' = [clerk EXCEPT ![w] = c],
         TablesAre(row', goodStock'),
         Holds(c, row'),
         Quiet(c) \/ (clerk[w].alone /\ clerk[w].pc # "answered")
  PROVE  InventoryInvariant'
  <1>1. /\ DOMAIN clerk' = Clerks /\ clerk' = [v \in Clerks |-> clerk'[v]]
        /\ clerk'[w] = c /\ \A v \in Clerks \ {w} : clerk'[v] = clerk[v]
    BY DEF InventoryInvariant
  <1>2. \A v \in Clerks \ {w} : Quiet(clerk[v])
    BY DEF InventoryInvariant, LoneClerks
  <1>3. \A v \in Clerks : Holds(clerk'[v], row')
    BY <1>1, <1>2, QuietHolds DEF InventoryInvariant
  <1>4. LoneClerks'
    <2> SUFFICES ASSUME NEW v \in Clerks, ~ Quiet(clerk'[v]), NEW u \in Clerks \ {v}
                 PROVE  clerk'[u].pc = "idle"
      BY DEF LoneClerks
    <2>1. v = w
      BY <1>1, <1>2
    <2>2. ~ Quiet(clerk[w])
      BY <1>1, <2>1 DEF Quiet
    <2> QED BY <1>1, <2>1, <2>2 DEF InventoryInvariant, LoneClerks
  <1> QED BY <1>1, <1>3, <1>4 DEF InventoryInvariant

LEMMA FailStep ==
  ASSUME InventoryInvariant, NEW w \in Clerks, clerk[w].pc # "idle", Fail(w)
  PROVE  InventoryInvariant'
  <1>1. TablesAre(row', goodStock')
    BY DEF Fail, TablesStay, InventoryInvariant
  <1> QED BY <1>1, IdleHolds, OwnStep DEF Fail

(* A request begins: it is alone if all the others are idle, and those     *)
(* that are not are overlapped.                                            *)
LEMMA BeginStep ==
  ASSUME InventoryInvariant, NEW w \in Clerks, NEW c,
         Begin(w, c), c \in Clerk, \A a \in BOOLEAN : Holds([c EXCEPT !.alone = a], row)
  PROVE  InventoryInvariant'
  <1> DEFINE a == \A x \in Clerks \ {w} : clerk[x].pc = "idle"
             d == [c EXCEPT !.alone = a]
  <1>1. a \in BOOLEAN /\ d.alone = a
    BY DEF Clerk
  <1>2. /\ row' = row /\ goodStock' = goodStock /\ DOMAIN clerk' = Clerks
        /\ clerk' = [v \in Clerks |-> clerk'[v]]
        /\ clerk'[w] = d /\ \A v \in Clerks \ {w} : clerk'[v] = Overlapped(v)
    BY DEF Begin, TablesStay
  <1>3. Holds(d, row)
    BY <1>1
  <1> HIDE DEF d
  <1>4. TablesAre(row', goodStock')
    BY <1>2 DEF InventoryInvariant
  <1>5. \A v \in Clerks : Holds(clerk'[v], row')
    BY <1>2, <1>3, OverlappedHolds DEF InventoryInvariant
  <1>6. LoneClerks'
    <2> SUFFICES ASSUME NEW v \in Clerks, ~ Quiet(clerk'[v]), NEW u \in Clerks \ {v}
                 PROVE  clerk'[u].pc = "idle"
      BY DEF LoneClerks
    <2>1. v = w
      BY <1>2, OverlappedHolds DEF InventoryInvariant
    <2>2. a
      BY <1>1, <1>2, <2>1 DEF Quiet
    <2> QED BY <1>2, <2>1, <2>2, OverlappedHolds DEF InventoryInvariant
  <1> QED BY <1>2, <1>4, <1>5, <1>6 DEF InventoryInvariant

LEMMA StartImportStep ==
  ASSUME InventoryInvariant, NEW w \in Clerks, NEW i \in Imports,
         NEW n \in 1 .. MaxBatch, NEW k \in 0 .. MaxBatch, StartImport(w, i[1], i[2], n, k)
  PROVE  InventoryInvariant'
  <1> DEFINE pc == IF i[1] = "ACCOUNT" THEN "check" ELSE "insert"
             c == [IdleClerk EXCEPT !.table = i[1], !.good = i[2], !.lines = n,
                     !.valid = k, !.failed = n - k, !.pc = pc]
  <1>1. i[1] \in ProductTypes /\ i[2] \in Goods
    BY InventoryAssumption
  <1>2. k <= n /\ n - k \in 0 .. MaxBatch /\ n \in 0 .. MaxBatch /\ n - k + k = n
    BY InventoryAssumption DEF StartImport
  <1>3. CASE k = 0
    <2>1. \A a \in BOOLEAN : Holds([Answered EXCEPT !.alone = a], row)
      <3> TAKE a \in BOOLEAN
      <3> DEFINE d == [Answered EXCEPT !.alone = a]
      <3>1. Answered \in Clerk /\ Answered.pc = "answered" /\ Prepared(Answered)
        BY IdleHolds DEF Holds
      <3>2. d \in Clerk /\ d.pc = "answered" /\ d.draft = Answered.draft /\ d.op = Answered.op
            /\ d.inserted = Answered.inserted /\ d.imported = Answered.imported
        BY <3>1 DEF Clerk
      <3> HIDE DEF d
      <3>3. Tally(d)
        BY <3>1, <3>2, IdleHolds DEF Tally, Holds
      <3>4. Prepared(d) /\ UpToDate(d, row)
        BY <3>1, <3>2, InventoryAssumption DEF Prepared, UpToDate
      <3>5. Holds(d, row)
        BY <3>2, <3>3, <3>4 DEF Holds
      <3> QED BY <3>5 DEF d
    <2>2. Begin(w, Answered) /\ Answered \in Clerk
      BY <1>3, IdleHolds DEF StartImport, Holds
    <2> QED BY <2>1, <2>2, BeginStep
  <1>4. CASE k # 0
    <2>1. IdleClerk \in Clerk /\ \A r \in Rows : IdleClerk.draft[r] = Same
      BY IdleHolds DEF Holds, Prepared
    <2>2. pc \in {"check", "insert"}
      OBVIOUS
    <2>3. IdleClerk.op = "import" /\ IdleClerk.inserted = 0 /\ IdleClerk.imported = 0
      BY DEF IdleClerk
    <2> HIDE DEF pc
    <2>4. \A a \in BOOLEAN : Holds([c EXCEPT !.alone = a], row)
      <3> TAKE a \in BOOLEAN
      <3> DEFINE d == [c EXCEPT !.alone = a]
      <3>1. d \in Clerk
        BY <1>1, <1>2, <2>1, <2>2 DEF Clerk, ClerkPcs
      <3>2. /\ d.pc = pc /\ d.op = IdleClerk.op /\ d.good = i[2] /\ d.draft = IdleClerk.draft
            /\ d.inserted = IdleClerk.inserted /\ d.imported = IdleClerk.imported
            /\ d.lines = n /\ d.valid = k /\ d.failed = n - k
        BY <2>1 DEF Clerk
      <3> HIDE DEF d
      <3>3. Tally(d)
        BY <1>2, <2>2, <2>3, <3>2 DEF Tally
      <3>4. Prepared(d) /\ UpToDate(d, row)
        BY <1>1, <2>1, <2>2, <2>3, <3>2, InventoryAssumption DEF Prepared, UpToDate
      <3>5. Holds(d, row)
        BY <3>1, <3>3, <3>4 DEF Holds
      <3> QED BY <3>5 DEF d
    <2>5. c \in Clerk
      BY <1>1, <1>2, <2>1, <2>2 DEF Clerk, ClerkPcs
    <2>6. Begin(w, c)
      BY <1>4 DEF StartImport, pc
    <2> HIDE DEF c
    <2> QED BY <2>4, <2>5, <2>6, BeginStep
  <1> QED BY <1>3, <1>4

(* Both kinds of request about a row begin with reading it.                *)
LEMMA StartRow ==
  ASSUME InventoryInvariant, NEW w \in Clerks, NEW c \in Clerk, Begin(w, c),
         c.pc = "read", c.op # "import", c.target \in Rows, c.draft = IdleClerk.draft
  PROVE  InventoryInvariant'
  <1>1. \A q \in Rows : IdleClerk.draft[q] = Same
    BY IdleHolds DEF Holds, Prepared
  <1>2. \A a \in BOOLEAN : Holds([c EXCEPT !.alone = a], row)
    <2> TAKE a \in BOOLEAN
    <2> DEFINE d == [c EXCEPT !.alone = a]
    <2>1. /\ d \in Clerk /\ d.pc = "read" /\ d.op # "import" /\ d.target \in Rows
          /\ d.draft = IdleClerk.draft
      BY DEF Clerk
    <2> HIDE DEF d
    <2>2. Holds(d, row)
      BY <1>1, <2>1, InventoryAssumption DEF Holds, Tally, Prepared, UpToDate
    <2> QED BY <2>2 DEF d
  <1> QED BY <1>2, BeginStep

LEMMA StartRowStep ==
  ASSUME InventoryInvariant, NEW w \in Clerks, NEW r \in Rows,
         \/ StartDeleteRow(w, r)
         \/ \E s \in NewStatuses \cup {NoRow} : StartUpdateRow(w, r, s)
  PROVE  InventoryInvariant'
  <1>1. IdleClerk \in Clerk
    BY IdleHolds DEF Holds
  <1>2. CASE StartDeleteRow(w, r)
    <2> DEFINE c == [IdleClerk EXCEPT !.pc = "read", !.op = "delete", !.target = r]
    <2>1. /\ c \in Clerk /\ c.pc = "read" /\ c.op # "import" /\ c.target \in Rows
          /\ c.draft = IdleClerk.draft
      BY <1>1 DEF Clerk, ClerkPcs
    <2>2. Begin(w, c)
      BY <1>2 DEF StartDeleteRow
    <2> HIDE DEF c
    <2> QED BY <2>1, <2>2, StartRow
  <1>3. ASSUME NEW s \in NewStatuses \cup {NoRow}, StartUpdateRow(w, r, s)
        PROVE  InventoryInvariant'
    <2> DEFINE c == [IdleClerk EXCEPT !.pc = "read", !.op = "update", !.target = r, !.status = s]
    <2>1. s \in UnitStatuses \cup {NoRow}
      BY InventoryAssumption
    <2>2. /\ c \in Clerk /\ c.pc = "read" /\ c.op # "import" /\ c.target \in Rows
          /\ c.draft = IdleClerk.draft
      BY <1>1, <2>1 DEF Clerk, ClerkPcs
    <2>3. Begin(w, c)
      BY <1>3 DEF StartUpdateRow
    <2> HIDE DEF c
    <2> QED BY <2>2, <2>3, StartRow
  <1> QED BY <1>2, <1>3

-----------------------------------------------------------------------------
(* The steps of a request that has begun.                                  *)

LEMMA EnsureAccountProductStep ==
  ASSUME InventoryInvariant, NEW w \in Clerks, EnsureAccountProduct(w)
  PROVE  InventoryInvariant'
  <1>1. clerk[w].pc = "check" /\ Holds(clerk[w], row)
    BY DEF EnsureAccountProduct, InventoryInvariant
  <1>2. CASE Fail(w)
    BY <1>1, <1>2, FailStep
  <1>3. CASE ClerkGoes(w, "insert") /\ TablesStay
    <2> DEFINE c == [clerk[w] EXCEPT !.pc = "insert"]
    <2>1. c \in Clerk /\ c.pc = "insert" /\ c.alone = clerk[w].alone
      BY <1>1 DEF Holds, Clerk, ClerkPcs
    <2>2. /\ c.op = clerk[w].op /\ c.good = clerk[w].good /\ c.draft = clerk[w].draft
          /\ c.inserted = clerk[w].inserted /\ c.imported = clerk[w].imported
          /\ c.failed = clerk[w].failed /\ c.valid = clerk[w].valid /\ c.lines = clerk[w].lines
      BY <1>1 DEF Holds, Clerk
    <2>3. clerk' = [clerk EXCEPT ![w] = c] /\ row' = row /\ goodStock' = goodStock
      BY <1>3 DEF ClerkGoes, TablesStay, InventoryInvariant
    <2> HIDE DEF c
    <2>4. Tally(c) /\ Prepared(c) /\ UpToDate(c, row)
      BY <1>1, <2>1, <2>2, InventoryAssumption DEF Holds, Tally, Prepared, UpToDate
    <2>5. TablesAre(row', goodStock') /\ Holds(c, row')
      BY <2>1, <2>3, <2>4 DEF InventoryInvariant, Holds
    <2>6. Quiet(c) \/ clerk[w].alone
      BY <2>1 DEF Quiet
    <2> QED BY <1>1, <2>3, <2>5, <2>6, OwnStep
  <1> QED BY <1>2, <1>3 DEF EnsureAccountProduct

(* What an import inserts is a row, and goes where there is none.          *)
LEMMA NewRowType ==
  ASSUME NEW w \in Clerks, Holds(clerk[w], row),
         clerk[w].pc \in {"insert", "insertOne"}
  PROVE  NewRow(w) \in Row /\ NewRow(w) # NoRow /\ NewRow(w) # Same
  <1>1. clerk[w].table \in ProductTypes /\ clerk[w].good \in Goods
    BY DEF Holds, Prepared, Clerk
  <1>2. NewRow(w) \in Row
    BY <1>1 DEF NewRow, Row, UnitStatuses
  <1> QED BY <1>2, InventoryAssumption

LEMMA CreateManyStep ==
  ASSUME InventoryInvariant, NEW w \in Clerks, NEW batch \in SUBSET Rows, CreateMany(w, batch)
  PROVE  InventoryInvariant'
  <1> DEFINE new == NewRow(w)
             n == clerk[w].valid
  <1>1. clerk[w].pc = "insert" /\ Holds(clerk[w], row) /\ goodStock' = goodStock
    BY DEF CreateMany, InventoryInvariant
  <1>2. new \in Row /\ new # NoRow /\ new # Same
    BY <1>1, NewRowType
  <1>3. /\ clerk[w] \in Clerk /\ clerk[w].op = "import" /\ clerk[w].good \in Goods
        /\ \A r \in Rows : clerk[w].draft[r] = Same
        /\ n \in 0 .. MaxBatch /\ clerk[w].failed \in 0 .. MaxBatch /\ n + clerk[w].failed = clerk[w].lines
    BY <1>1 DEF Holds, Prepared, Tally, Clerk
  <1> HIDE DEF new
  <1>4. CASE /\ clerk' = [clerk EXCEPT ![w].draft = Insert(@, batch, new), ![w].inserted = n,
                                       ![w].imported = n, ![w].pc = "count"]
             /\ UNCHANGED row
    <2> DEFINE draft == Insert(clerk[w].draft, batch, new)
               c == [clerk[w] EXCEPT !.draft = draft, !.inserted = n, !.imported = n, !.pc = "count"]
    <2>1. draft \in [Rows -> Row \cup {NoRow, Same}] /\ \A r \in Rows : draft[r] # NoRow
      BY <1>2, <1>3, InventoryAssumption DEF Insert
    <2>2. clerk' = [clerk EXCEPT ![w] = c]
      BY <1>3, <1>4 DEF InventoryInvariant, Clerk
    <2> HIDE DEF draft
    <2>3. c \in Clerk
      BY <1>3, <2>1 DEF Clerk, ClerkPcs
    <2>4. /\ c.pc = "count" /\ c.op = "import" /\ c.good \in Goods /\ c.draft = draft
          /\ c.inserted = n /\ c.imported = n /\ c.failed = clerk[w].failed
          /\ c.lines = clerk[w].lines /\ c.alone = clerk[w].alone
      BY <1>3 DEF Clerk
    <2> HIDE DEF c
    <2>5. Holds(c, row')
      BY <1>3, <2>1, <2>3, <2>4 DEF Holds, Tally, Prepared, UpToDate
    <2>6. TablesAre(row', goodStock') /\ (Quiet(c) \/ clerk[w].alone)
      BY <1>1, <1>4, <2>4 DEF InventoryInvariant, Quiet
    <2> QED BY <1>1, <2>2, <2>5, <2>6, OwnStep
  <1>5. CASE /\ row' = Insert(row, batch, new)
             /\ clerk' = [clerk EXCEPT ![w].inserted = n, ![w].imported = n, ![w].pc = "count"]
    <2> DEFINE c == [clerk[w] EXCEPT !.inserted = n, !.imported = n, !.pc = "count"]
    <2>1. clerk' = [clerk EXCEPT ![w] = c]
      BY <1>3, <1>5 DEF InventoryInvariant, Clerk
    <2>2. c \in Clerk
      BY <1>3 DEF Clerk, ClerkPcs
    <2>3. /\ c.pc = "count" /\ c.op = "import" /\ c.good \in Goods /\ c.draft = clerk[w].draft
          /\ c.inserted = n /\ c.imported = n /\ c.failed = clerk[w].failed
          /\ c.lines = clerk[w].lines /\ c.alone = clerk[w].alone
      BY <1>3 DEF Clerk
    <2> HIDE DEF c
    <2>4. Holds(c, row')
      BY <1>3, <2>2, <2>3, InventoryAssumption DEF Holds, Tally, Prepared, UpToDate
    <2>5. row' \in [Rows -> Row \cup {NoRow}]
      BY <1>2, <1>5 DEF Insert, InventoryInvariant, TablesAre
    <2>6. TablesAre(row', goodStock') /\ (Quiet(c) \/ clerk[w].alone)
      BY <1>1, <2>3, <2>5 DEF InventoryInvariant, TablesAre, Quiet
    <2> QED BY <1>1, <2>1, <2>4, <2>6, OwnStep
  <1> QED BY <1>4, <1>5 DEF CreateMany, new

LEMMA CreateManyFailsStep ==
  ASSUME InventoryInvariant, NEW w \in Clerks, CreateManyFails(w)
  PROVE  InventoryInvariant'
  <1>1. clerk[w].pc = "insert" /\ Holds(clerk[w], row)
    BY DEF CreateManyFails, InventoryInvariant
  <1>2. CASE Fail(w)
    BY <1>1, <1>2, FailStep
  <1>3. CASE ClerkGoes(w, "insertOne") /\ TablesStay
    <2> DEFINE c == [clerk[w] EXCEPT !.pc = "insertOne"]
    <2>1. c \in Clerk /\ c.pc = "insertOne" /\ c.alone = clerk[w].alone
      BY <1>1 DEF Holds, Clerk, ClerkPcs
    <2>2. /\ c.op = clerk[w].op /\ c.good = clerk[w].good /\ c.draft = clerk[w].draft
          /\ c.inserted = clerk[w].inserted /\ c.imported = clerk[w].imported
          /\ c.failed = clerk[w].failed /\ c.valid = clerk[w].valid /\ c.lines = clerk[w].lines
      BY <1>1 DEF Holds, Clerk
    <2>3. clerk' = [clerk EXCEPT ![w] = c] /\ row' = row /\ goodStock' = goodStock
      BY <1>3 DEF ClerkGoes, TablesStay, InventoryInvariant
    <2> HIDE DEF c
    <2>4. Tally(c) /\ Prepared(c) /\ UpToDate(c, row)
      BY <1>1, <2>1, <2>2, InventoryAssumption DEF Holds, Tally, Prepared, UpToDate
    <2>5. TablesAre(row', goodStock') /\ Holds(c, row')
      BY <2>1, <2>3, <2>4 DEF InventoryInvariant, Holds
    <2>6. Quiet(c) \/ clerk[w].alone
      BY <2>1 DEF Quiet
    <2> QED BY <1>1, <2>3, <2>5, <2>6, OwnStep
  <1> QED BY <1>2, <1>3 DEF CreateManyFails

LEMMA InsertedAllStep ==
  ASSUME InventoryInvariant, NEW w \in Clerks, InsertedAll(w)
  PROVE  InventoryInvariant'
  <1> DEFINE c == [clerk[w] EXCEPT !.pc = "count"]
  <1>1. clerk[w].pc = "insertOne" /\ clerk[w].valid = 0 /\ Holds(clerk[w], row)
    BY DEF InsertedAll, InventoryInvariant
  <1>2. c \in Clerk /\ c.pc = "count" /\ c.alone = clerk[w].alone
    BY <1>1 DEF Holds, Clerk, ClerkPcs
  <1>3. /\ c.op = clerk[w].op /\ c.good = clerk[w].good /\ c.draft = clerk[w].draft
        /\ c.inserted = clerk[w].inserted /\ c.imported = clerk[w].imported
        /\ c.failed = clerk[w].failed /\ c.lines = clerk[w].lines /\ c.target = clerk[w].target
    BY <1>1 DEF Holds, Clerk
  <1>4. clerk' = [clerk EXCEPT ![w] = c] /\ row' = row /\ goodStock' = goodStock
    BY DEF InsertedAll, ClerkGoes, TablesStay, InventoryInvariant
  <1> HIDE DEF c
  <1>5. Tally(c)
    BY <1>1, <1>2, <1>3 DEF Holds, Tally, Clerk
  <1>6. Prepared(c) /\ UpToDate(c, row)
    BY <1>1, <1>2, <1>3 DEF Holds, Prepared, UpToDate
  <1>7. TablesAre(row', goodStock') /\ Holds(c, row') /\ (Quiet(c) \/ clerk[w].alone)
    BY <1>2, <1>4, <1>5, <1>6 DEF InventoryInvariant, Holds, Quiet
  <1> QED BY <1>1, <1>4, <1>7, OwnStep

(* One line: inserted into the transaction, inserted for good, lost, or    *)
(* the end of a transaction.                                               *)
LEMMA InsertOneStep ==
  ASSUME InventoryInvariant, NEW w \in Clerks, NEW r \in Rows, InsertOne(w, r)
  PROVE  InventoryInvariant'
  <1> DEFINE new == NewRow(w)
             o == clerk[w]
  <1>1. o.pc = "insertOne" /\ o.valid > 0 /\ Holds(o, row) /\ goodStock' = goodStock
        /\ TablesAre(row, goodStock)
    BY DEF InsertOne, InventoryInvariant, Fail, TablesStay
  <1>2. new \in Row /\ new # NoRow /\ new # Same
    BY <1>1, NewRowType
  <1>3. /\ o \in Clerk /\ o.op = "import" /\ o.good \in Goods
        /\ o.draft \in [Rows -> Row \cup {NoRow, Same}] /\ UpToDate(o, row)
        /\ o.valid \in Nat /\ o.inserted \in Nat /\ o.failed \in Nat /\ o.lines \in 0 .. MaxBatch
        /\ o.inserted = o.imported /\ o.imported + o.failed + o.valid = o.lines
    <2>1. MaxBatch \in Nat
      BY InventoryAssumption
    <2> QED BY <1>1, <2>1 DEF Holds, Prepared, Tally, Clerk
  <1>4. /\ o.valid - 1 \in 0 .. MaxBatch /\ o.inserted + 1 \in 0 .. MaxBatch
        /\ o.imported + 1 \in 0 .. MaxBatch /\ o.failed + 1 \in 0 .. MaxBatch
        /\ o.imported + 1 + o.failed + (o.valid - 1) = o.lines
        /\ o.imported + (o.failed + 1) + (o.valid - 1) = o.lines
    BY <1>1, <1>3, InventoryAssumption
  <1> HIDE DEF new
  <1>5. CASE Fail(w)
    BY <1>1, <1>5, FailStep
  <1>6. CASE /\ clerk' = [clerk EXCEPT ![w].valid = @ - 1, ![w].failed = @ + 1]
             /\ UNCHANGED row
    <2> DEFINE c == [o EXCEPT !.valid = @ - 1, !.failed = @ + 1]
    <2>1. clerk' = [clerk EXCEPT ![w] = c]
      BY <1>3, <1>6 DEF InventoryInvariant, Clerk
    <2>2. c \in Clerk
      BY <1>3, <1>4 DEF Clerk
    <2>3. /\ c.pc = "insertOne" /\ c.op = "import" /\ c.good \in Goods /\ c.draft = o.draft
          /\ c.inserted = o.inserted /\ c.imported = o.imported /\ c.failed = o.failed + 1
          /\ c.valid = o.valid - 1 /\ c.lines = o.lines /\ c.alone = o.alone /\ c.target = o.target
      BY <1>1, <1>3 DEF Clerk
    <2> HIDE DEF c
    <2>4. Tally(c) /\ Prepared(c) /\ UpToDate(c, row)
      BY <1>3, <1>4, <2>3 DEF Tally, Prepared, UpToDate
    <2>5. TablesAre(row', goodStock') /\ Holds(c, row') /\ (Quiet(c) \/ o.alone)
      BY <1>1, <1>6, <2>2, <2>3, <2>4 DEF Holds, Quiet
    <2> QED BY <1>1, <2>1, <2>5, OwnStep
  <1>7. CASE /\ row' = [row EXCEPT ![r] = new]
             /\ clerk' = [clerk EXCEPT ![w].valid = @ - 1, ![w].inserted = @ + 1, ![w].imported = @ + 1]
             /\ r \in FreshRows(w)
    <2> DEFINE c == [o EXCEPT !.valid = @ - 1, !.inserted = @ + 1, !.imported = @ + 1]
    <2>1. clerk' = [clerk EXCEPT ![w] = c]
      BY <1>3, <1>7 DEF InventoryInvariant, Clerk
    <2>2. c \in Clerk
      BY <1>3, <1>4 DEF Clerk
    <2>3. /\ c.pc = "insertOne" /\ c.op = "import" /\ c.good \in Goods /\ c.draft = o.draft
          /\ c.inserted = o.inserted + 1 /\ c.imported = o.imported + 1 /\ c.failed = o.failed
          /\ c.valid = o.valid - 1 /\ c.lines = o.lines /\ c.alone = o.alone /\ c.target = o.target
      BY <1>1, <1>3 DEF Clerk
    <2> HIDE DEF c
    <2>4. row' \in [Rows -> Row \cup {NoRow}]
      BY <1>1, <1>2, <1>7 DEF TablesAre
    <2>5. UpToDate(c, row')
      <3> SUFFICES ASSUME NEW q \in Rows, c.draft[q] = NoRow
                   PROVE  /\ c.target = q
                          /\ c.alone => row'[q] # NoRow /\ row'[q].status = "AVAILABLE"
        BY <2>3 DEF UpToDate
      <3>1. c.target = q /\ (c.alone => row[q] # NoRow /\ row[q].status = "AVAILABLE")
        BY <1>3, <2>3 DEF UpToDate
      <3>2. CASE q = r
        <4>1. new.status = "AVAILABLE" /\ row'[q] = new
          BY <1>1, <1>7, <3>2 DEF new, NewRow, TablesAre
        <4> QED BY <1>2, <3>1, <4>1
      <3>3. CASE q # r
        BY <1>1, <1>7, <3>1, <3>3 DEF TablesAre
      <3> QED BY <3>2, <3>3
    <2>6. Tally(c) /\ Prepared(c)
      BY <1>3, <1>4, <2>3 DEF Tally, Prepared
    <2>7. TablesAre(row', goodStock') /\ Holds(c, row') /\ (Quiet(c) \/ o.alone)
      BY <1>1, <2>2, <2>3, <2>4, <2>5, <2>6 DEF Holds, Quiet, TablesAre
    <2> QED BY <1>1, <2>1, <2>7, OwnStep
  <1>8. CASE /\ clerk' = [[clerk EXCEPT ![w].valid = @ - 1, ![w].inserted = @ + 1, ![w].imported = @ + 1]
                            EXCEPT ![w].draft[r] = new]
             /\ UNCHANGED row
    <2> DEFINE draft == [o.draft EXCEPT ![r] = new]
               c == [o EXCEPT !.valid = @ - 1, !.inserted = @ + 1, !.imported = @ + 1, !.draft = draft]
    <2>1. draft \in [Rows -> Row \cup {NoRow, Same}]
          /\ \A q \in Rows : draft[q] = NoRow => o.draft[q] = NoRow
      BY <1>2, <1>3
    <2>2. clerk' = [clerk EXCEPT ![w] = c]
      BY <1>3, <1>8 DEF InventoryInvariant, Clerk
    <2> HIDE DEF draft
    <2>3. c \in Clerk
      BY <1>3, <1>4, <2>1 DEF Clerk
    <2>4. /\ c.pc = "insertOne" /\ c.op = "import" /\ c.good \in Goods /\ c.draft = draft
          /\ c.inserted = o.inserted + 1 /\ c.imported = o.imported + 1 /\ c.failed = o.failed
          /\ c.valid = o.valid - 1 /\ c.lines = o.lines /\ c.alone = o.alone /\ c.target = o.target
      BY <1>1, <1>3 DEF Clerk
    <2> HIDE DEF c
    <2>5. Tally(c) /\ Prepared(c) /\ UpToDate(c, row)
      BY <1>3, <1>4, <2>1, <2>4 DEF Tally, Prepared, UpToDate
    <2>6. TablesAre(row', goodStock') /\ Holds(c, row') /\ (Quiet(c) \/ o.alone)
      BY <1>1, <1>8, <2>3, <2>4, <2>5 DEF Holds, Quiet
    <2> QED BY <1>1, <2>2, <2>6, OwnStep
  <1> QED BY <1>5, <1>6, <1>7, <1>8 DEF InsertOne, InsertHere, new

LEMMA ReadRowStep ==
  ASSUME InventoryInvariant, NEW w \in Clerks, ReadRow(w)
  PROVE  InventoryInvariant'
  <1> DEFINE o == clerk[w]
             r == clerk[w].target
  <1>1. o.pc = "read" /\ Holds(o, row) /\ TablesAre(row, goodStock)
    BY DEF ReadRow, InventoryInvariant
  <1>2. CASE Fail(w)
    BY <1>1, <1>2, FailStep
  <1>3. CASE /\ row[r] # NoRow /\ (o.op = "delete" => row[r].status = "AVAILABLE")
             /\ clerk' = [clerk EXCEPT ![w].pc = "write", ![w].good = row[r].good,
                                       ![w].table = row[r].table]
             /\ TablesStay
    <2> DEFINE c == [o EXCEPT !.pc = "write", !.good = row[r].good, !.table = row[r].table]
    <2>1. o \in Clerk /\ r \in Rows /\ \A q \in Rows : o.draft[q] = Same
      BY <1>1 DEF Holds, Prepared
    <2>2. row[r].good \in Goods /\ row[r].table \in ProductTypes
      BY <1>1, <1>3, <2>1 DEF TablesAre, Row
    <2>3. clerk' = [clerk EXCEPT ![w] = c] /\ row' = row /\ goodStock' = goodStock
      BY <1>3, <2>1 DEF InventoryInvariant, Clerk, TablesStay
    <2>4. c \in Clerk
      BY <2>1, <2>2 DEF Clerk, ClerkPcs
    <2>5. /\ c.pc = "write" /\ c.op = o.op /\ c.target = r /\ c.draft = o.draft
          /\ c.good = row[r].good
          /\ c.inserted = o.inserted /\ c.imported = o.imported /\ c.alone = o.alone
      BY <2>1 DEF Clerk
    <2> HIDE DEF c
    <2>6. Tally(c) /\ Prepared(c)
      BY <1>1, <2>1, <2>2, <2>5 DEF Holds, Tally, Prepared
    <2>7. UpToDate(c, row)
      BY <1>3, <2>1, <2>5, InventoryAssumption DEF UpToDate
    <2>8. TablesAre(row', goodStock') /\ Holds(c, row') /\ (Quiet(c) \/ o.alone)
      BY <1>1, <2>3, <2>4, <2>5, <2>6, <2>7 DEF Holds, Quiet
    <2> QED BY <1>1, <2>3, <2>8, OwnStep
  <1> QED BY <1>2, <1>3 DEF ReadRow

(* The uncommitted write of an update or a deletion.                       *)
LEMMA DraftStep ==
  ASSUME InventoryInvariant, NEW w \in Clerks, NEW new \in Row \cup {NoRow},
         clerk[w].pc = "write", clerk[w].op # "import",
         row[clerk[w].target] # NoRow,
         new = NoRow => clerk[w].op = "delete",
         clerk' = [clerk EXCEPT ![w].draft[clerk[w].target] = new, ![w].pc = "count"],
         TablesStay
  PROVE  InventoryInvariant'
  <1> DEFINE o == clerk[w]
             r == clerk[w].target
             draft == [o.draft EXCEPT ![r] = new]
             c == [o EXCEPT !.draft = draft, !.pc = "count"]
  <1>1. Holds(o, row) /\ TablesAre(row, goodStock) /\ row' = row /\ goodStock' = goodStock
    BY DEF TablesStay, InventoryInvariant
  <1>2. /\ o \in Clerk /\ r \in Rows /\ \A q \in Rows : o.draft[q] = Same
        /\ o.draft \in [Rows -> Row \cup {NoRow, Same}]
    BY <1>1 DEF Holds, Prepared, Clerk
  <1>3. /\ draft \in [Rows -> Row \cup {NoRow, Same}]
        /\ \A q \in Rows : draft[q] = NoRow => q = r /\ new = NoRow
    BY <1>2, InventoryAssumption
  <1>4. clerk' = [clerk EXCEPT ![w] = c]
    BY <1>2 DEF InventoryInvariant, Clerk
  <1> HIDE DEF draft
  <1>5. c \in Clerk
    BY <1>2, <1>3 DEF Clerk, ClerkPcs
  <1>6. /\ c.pc = "count" /\ c.op = o.op /\ c.target = r /\ c.draft = draft
        /\ c.good = o.good /\ c.alone = o.alone
    BY <1>2 DEF Clerk
  <1>7. o.good \in Goods
    BY <1>1 DEF Holds, Prepared
  <1> HIDE DEF c
  <1>8. Tally(c) /\ Prepared(c)
    BY <1>2, <1>6, <1>7 DEF Tally, Prepared
  <1>9. UpToDate(c, row)
    BY <1>1, <1>3, <1>6 DEF Holds, UpToDate
  <1>10. TablesAre(row', goodStock') /\ Holds(c, row') /\ (Quiet(c) \/ o.alone)
    BY <1>1, <1>5, <1>6, <1>8, <1>9 DEF Holds, Quiet
  <1> QED BY <1>4, <1>10, OwnStep

LEMMA WriteRowStep ==
  ASSUME InventoryInvariant, NEW w \in Clerks, WriteRow(w)
  PROVE  InventoryInvariant'
  <1> DEFINE o == clerk[w]
             r == clerk[w].target
  <1>1. /\ o.pc = "write" /\ Holds(o, row) /\ TablesAre(row, goodStock)
        /\ r \in Rows /\ o.status \in UnitStatuses \cup {NoRow}
    BY DEF WriteRow, InventoryInvariant, Holds, Prepared, Clerk
  <1>2. CASE Fail(w)
    BY <1>1, <1>2, FailStep
  <1>3. CASE /\ row[r] # NoRow /\ o.op = "delete" /\ TablesStay
             /\ clerk' = [clerk EXCEPT ![w].draft[r] = NoRow, ![w].pc = "count"]
    BY <1>1, <1>3, DraftStep
  <1>4. CASE /\ row[r] # NoRow /\ o.op = "update" /\ o.status # NoRow /\ TablesStay
             /\ clerk' = [clerk EXCEPT ![w].draft[r] = [row[r] EXCEPT !.status = o.status],
                                       ![w].pc = "count"]
    <2> DEFINE new == [row[r] EXCEPT !.status = o.status]
    <2>1. row[r] \in Row
      BY <1>1, <1>4 DEF TablesAre
    <2>2. new \in Row /\ new # NoRow
      <3>1. new \in Row
        BY <1>1, <1>4, <2>1 DEF Row
      <3> QED BY <3>1, InventoryAssumption
    <2> HIDE DEF new
    <2>3. clerk' = [clerk EXCEPT ![w].draft[r] = new, ![w].pc = "count"]
      BY <1>4 DEF new
    <2> QED BY <1>1, <1>4, <2>2, <2>3, DraftStep
  <1>5. CASE clerk' = [clerk EXCEPT ![w] = Answered] /\ o.op = "update" /\ TablesStay
    <2>1. TablesAre(row', goodStock') /\ Holds(Answered, row')
      BY <1>1, <1>5, IdleHolds DEF TablesStay
    <2>2. Quiet(Answered)
      BY IdleHolds DEF Quiet
    <2> QED BY <1>1, <1>5, <2>1, <2>2, OwnStep
  <1> QED BY <1>2, <1>3, <1>4, <1>5 DEF WriteRow

LEMMA OverlaySeen ==
  ASSUME NEW w \in Clerks
  PROVE  WithDraft(w) = Overlay(clerk[w], row)
  BY DEF WithDraft, Seen, Overlay

LEMMA CountRowsStep ==
  ASSUME InventoryInvariant, NEW w \in Clerks, CountRows(w)
  PROVE  InventoryInvariant'
  <1> DEFINE o == clerk[w]
             n == Cardinality(OnSale(WithDraft(w), o.table, o.good))
             pc == IF o.draft = NoDraft THEN "store" ELSE "commit"
             c == [o EXCEPT !.count = n, !.pc = pc]
  <1>1. /\ o.pc = "count" /\ Holds(o, row) /\ TablesAre(row, goodStock) /\ o \in Clerk
        /\ row' = row /\ goodStock' = goodStock
    BY DEF CountRows, TablesStay, InventoryInvariant, Holds
  <1>2. clerk' = [clerk EXCEPT ![w] = c]
    BY <1>1 DEF CountRows, InventoryInvariant, Clerk
  <1>3. n \in 0 .. Cardinality(Rows)
    BY OnSaleBounded
  <1>4. n = Cardinality(OnSale(Overlay(o, row), o.table, o.good))
    BY OverlaySeen
  <1>5. pc \in {"store", "commit"}
    OBVIOUS
  <1> HIDE DEF n, pc
  <1>6. c \in Clerk
    BY <1>1, <1>3, <1>5 DEF Clerk, ClerkPcs
  <1>7. /\ c.pc = pc /\ c.op = o.op /\ c.target = o.target /\ c.draft = o.draft /\ c.count = n
        /\ c.good = o.good /\ c.table = o.table /\ c.alone = o.alone /\ c.inserted = o.inserted
        /\ c.imported = o.imported /\ c.failed = o.failed /\ c.lines = o.lines
    BY <1>1 DEF Clerk
  <1>8. Overlay(c, row) = Overlay(o, row)
    BY <1>7 DEF Overlay
  <1> HIDE DEF c
  <1>9. Tally(c) /\ Prepared(c)
    BY <1>1, <1>5, <1>7 DEF Holds, Tally, Prepared
  <1>10. UpToDate(c, row)
    BY <1>1, <1>4, <1>5, <1>7, <1>8 DEF Holds, UpToDate
  <1>11. TablesAre(row', goodStock') /\ Holds(c, row') /\ (Quiet(c) \/ o.alone)
    BY <1>1, <1>6, <1>7, <1>9, <1>10 DEF Holds, Quiet
  <1> QED BY <1>1, <1>2, <1>11, OwnStep

LEMMA WriteCountStep ==
  ASSUME InventoryInvariant, NEW w \in Clerks, WriteCount(w)
  PROVE  InventoryInvariant'
  <1> DEFINE o == clerk[w]
  <1>1. /\ o.pc \in {"commit", "store"} /\ Holds(o, row) /\ TablesAre(row, goodStock)
        /\ row' = WithDraft(w) /\ clerk' = [clerk EXCEPT ![w] = Answered]
        /\ goodStock' = [goodStock EXCEPT ![o.good] = o.count]
    BY DEF WriteCount, InventoryInvariant
  <1>2. o.draft \in [Rows -> Row \cup {NoRow, Same}] /\ o.count \in 0 .. Cardinality(Rows)
    BY <1>1 DEF Holds, Clerk
  <1>3. row' \in [Rows -> Row \cup {NoRow}]
    BY <1>1, <1>2 DEF WithDraft, Seen, TablesAre
  <1>4. TablesAre(row', goodStock')
    BY <1>1, <1>2, <1>3 DEF TablesAre
  <1> QED BY <1>1, <1>4, IdleHolds, OwnStep DEF Quiet

LEMMA ClerkEndsStep ==
  ASSUME InventoryInvariant, NEW w \in Clerks, ClerkFails(w) \/ ClerkReturns(w)
  PROVE  InventoryInvariant'
  <1>1. CASE ClerkFails(w)
    BY <1>1, FailStep DEF ClerkFails
  <1>2. CASE ClerkReturns(w)
    <2>1. TablesAre(row', goodStock')
      BY <1>2 DEF ClerkReturns, TablesStay, InventoryInvariant
    <2> QED BY <1>2, <2>1, IdleHolds, OwnStep DEF ClerkReturns
  <1> QED BY <1>1, <1>2

(* A delivery overlaps everybody; a crash ends everybody.                  *)
LEMMA DeliverRowStep ==
  ASSUME InventoryInvariant, NEW r \in Rows, DeliverRow(r)
  PROVE  InventoryInvariant'
  <1>1. /\ row[r] # NoRow /\ row' = [row EXCEPT ![r].status = "DELIVERED"]
        /\ clerk' = [w \in Clerks |-> Overlapped(w)]
        /\ goodStock' = [goodStock EXCEPT ![row[r].good] =
                           Cardinality(OnSale(row', row[r].table, row[r].good))]
        /\ TablesAre(row, goodStock)
    BY DEF DeliverRow, InventoryInvariant
  <1>2. row' \in [Rows -> Row \cup {NoRow}]
    <2>1. row[r] \in Row
      BY <1>1 DEF TablesAre
    <2>2. [row[r] EXCEPT !.status = "DELIVERED"] \in Row
      BY <2>1 DEF Row, UnitStatuses
    <2> QED BY <1>1, <2>2 DEF TablesAre
  <1>3. TablesAre(row', goodStock')
    BY <1>1, <1>2, OnSaleBounded DEF TablesAre
  <1>4. \A w \in Clerks : Holds(Overlapped(w), row') /\ Quiet(Overlapped(w))
    BY OverlappedHolds, QuietHolds DEF InventoryInvariant
  <1>5. DOMAIN clerk' = Clerks /\ clerk' = [w \in Clerks |-> clerk'[w]]
        /\ \A w \in Clerks : clerk'[w] = Overlapped(w)
    BY <1>1
  <1> QED BY <1>3, <1>4, <1>5 DEF InventoryInvariant, LoneClerks

LEMMA InventoryCrashStep ==
  ASSUME InventoryInvariant, InventoryCrash
  PROVE  InventoryInvariant'
  <1>1. DOMAIN clerk' = Clerks /\ clerk' = [w \in Clerks |-> clerk'[w]]
        /\ \A w \in Clerks : clerk'[w] = IdleClerk
    BY DEF InventoryCrash
  <1>2. TablesAre(row', goodStock')
    BY DEF InventoryCrash, TablesStay, InventoryInvariant
  <1> QED BY <1>1, <1>2, IdleHolds DEF InventoryInvariant, LoneClerks

-----------------------------------------------------------------------------
LEMMA NextInventory == InventoryInvariant /\ [InventoryNext]_inventoryVars => InventoryInvariant'
  <1> SUFFICES ASSUME InventoryInvariant, [InventoryNext]_inventoryVars PROVE InventoryInvariant'
    OBVIOUS
  <1>1. ASSUME NEW w \in Clerks, NEW i \in Imports, NEW n \in 1 .. MaxBatch,
               NEW k \in 0 .. MaxBatch, StartImport(w, i[1], i[2], n, k)
        PROVE  InventoryInvariant'
    BY <1>1, StartImportStep
  <1>2. ASSUME NEW w \in Clerks,
               EnsureAccountProduct(w) \/ CreateManyFails(w) \/ InsertedAll(w)
        PROVE  InventoryInvariant'
    BY <1>2, EnsureAccountProductStep, CreateManyFailsStep, InsertedAllStep
  <1>3. ASSUME NEW w \in Clerks, NEW b \in SUBSET Rows, CreateMany(w, b)
        PROVE  InventoryInvariant'
    BY <1>3, CreateManyStep
  <1>4. ASSUME NEW w \in Clerks, NEW r \in Rows,
               \/ InsertOne(w, r) \/ StartDeleteRow(w, r)
               \/ \E s \in NewStatuses \cup {NoRow} : StartUpdateRow(w, r, s)
        PROVE  InventoryInvariant'
    BY <1>4, InsertOneStep, StartRowStep
  <1>5. ASSUME NEW w \in Clerks, ReadRow(w) \/ WriteRow(w) \/ CountRows(w) \/ WriteCount(w)
        PROVE  InventoryInvariant'
    BY <1>5, ReadRowStep, WriteRowStep, CountRowsStep, WriteCountStep
  <1>6. ASSUME NEW w \in Clerks, ClerkFails(w) \/ ClerkReturns(w) PROVE InventoryInvariant'
    BY <1>6, ClerkEndsStep
  <1>7. CASE UNCHANGED inventoryVars
    BY <1>7 DEF inventoryVars, InventoryInvariant, LoneClerks
  <1> QED BY <1>1, <1>2, <1>3, <1>4, <1>5, <1>6, <1>7, DeliverRowStep, InventoryCrashStep
          DEF InventoryNext

(* The actions of the properties.                                          *)

(* A request that has counted is answered by writing the count.            *)
LEMMA AnsweredByCount ==
  ASSUME InventoryInvariant, InventoryNext, NEW w \in Clerks,
         clerk[w].pc \in {"commit", "store"}, clerk'[w].pc = "answered"
  PROVE  WriteCount(w)
  <1>1. DOMAIN clerk = Clerks /\ \A v \in Clerks : Overlapped(v).pc = clerk[v].pc
    BY OverlappedHolds DEF InventoryInvariant, Overlapped, Holds, Clerk
  <1>2. ASSUME NEW v \in Clerks, NEW c, Begin(v, c) PROVE FALSE
    <2>1. clerk[v].pc = "idle" /\ (w # v => clerk'[w] = Overlapped(w))
      BY <1>2 DEF Begin
    <2> QED BY <1>1, <2>1
  <1>3. ASSUME NEW v \in Clerks, NEW c, clerk' = [clerk EXCEPT ![v] = c],
               clerk[v].pc \notin {"commit", "store"} \/ c.pc # "answered"
        PROVE  FALSE
    BY <1>1, <1>3
  <1>4. ASSUME NEW v \in Clerks, Fail(v) PROVE FALSE
    BY <1>3, <1>4, IdleHolds DEF Fail
  <1>5. ASSUME NEW v \in Clerks, clerk[v].pc \notin {"commit", "store"},
               \A u \in Clerks \ {v} : clerk'[u] = clerk[u]
        PROVE  FALSE
    BY <1>5
  <1>6. ASSUME NEW v \in Clerks, NEW i \in Imports, NEW n \in 1 .. MaxBatch,
               NEW k \in 0 .. MaxBatch, StartImport(v, i[1], i[2], n, k)
        PROVE  FALSE
    BY <1>2, <1>6 DEF StartImport
  <1>7. ASSUME NEW v \in Clerks, NEW r \in Rows,
               \/ StartDeleteRow(v, r)
               \/ \E s \in NewStatuses \cup {NoRow} : StartUpdateRow(v, r, s)
        PROVE  FALSE
    BY <1>2, <1>7 DEF StartDeleteRow, StartUpdateRow
  <1>8. ASSUME NEW v \in Clerks, EnsureAccountProduct(v) \/ CreateManyFails(v) \/ InsertedAll(v)
        PROVE  FALSE
    <2>1. clerk[v].pc \notin {"commit", "store"}
      BY <1>8 DEF EnsureAccountProduct, CreateManyFails, InsertedAll
    <2>2. \A u \in Clerks \ {v} : clerk'[u] = clerk[u]
      BY <1>1, <1>8 DEF EnsureAccountProduct, CreateManyFails, InsertedAll, ClerkGoes, Fail
    <2> QED BY <1>5, <2>1, <2>2
  <1>9. ASSUME NEW v \in Clerks, NEW b \in SUBSET Rows, CreateMany(v, b) PROVE FALSE
    <2>1. clerk[v].pc = "insert"
      BY <1>9 DEF CreateMany
    <2>2. \A u \in Clerks \ {v} : clerk'[u] = clerk[u]
      BY <1>1, <1>9 DEF CreateMany
    <2> QED BY <1>5, <2>1, <2>2
  <1>10. ASSUME NEW v \in Clerks, NEW r \in Rows, InsertOne(v, r) PROVE FALSE
    <2>1. clerk[v].pc = "insertOne"
      BY <1>10 DEF InsertOne
    <2>2. \A u \in Clerks \ {v} : clerk'[u] = clerk[u]
      BY <1>1, <1>10 DEF InsertOne, InsertHere, Fail
    <2> QED BY <1>5, <2>1, <2>2
  <1>11. ASSUME NEW v \in Clerks, ReadRow(v) \/ WriteRow(v) \/ CountRows(v) \/ ClerkReturns(v)
         PROVE  FALSE
    <2>1. clerk[v].pc \in {"read", "write", "count", "answered"}
      BY <1>11 DEF ReadRow, WriteRow, CountRows, ClerkReturns
    <2>2. \A u \in Clerks \ {v} : clerk'[u] = clerk[u]
      BY <1>1, <1>11 DEF ReadRow, WriteRow, CountRows, ClerkReturns, Fail
    <2> QED BY <1>5, <2>1, <2>2
  <1>12. ASSUME NEW v \in Clerks, ClerkFails(v) PROVE FALSE
    BY <1>4, <1>12 DEF ClerkFails
  <1>13. ASSUME NEW v \in Clerks, WriteCount(v) PROVE WriteCount(w)
    BY <1>1, <1>13 DEF WriteCount
  <1>14. ASSUME NEW r \in Rows, DeliverRow(r) PROVE FALSE
    <2>1. clerk'[w] = Overlapped(w)
      BY <1>14 DEF DeliverRow
    <2> QED BY <1>1, <2>1
  <1>15. CASE InventoryCrash
    BY <1>15, IdleHolds DEF InventoryCrash
  <1> QED BY <1>6, <1>7, <1>8, <1>9, <1>10, <1>11, <1>12, <1>13, <1>14, <1>15
          DEF InventoryNext

(* A row disappears when a deletion of it commits.                         *)
LEMMA DeletedByCount ==
  ASSUME InventoryInvariant, InventoryNext, NEW r \in Rows, row[r] # NoRow, row'[r] = NoRow
  PROVE  \E w \in Clerks : WriteCount(w) /\ clerk[w].draft[r] = NoRow
  <1>1. row \in [Rows -> Row \cup {NoRow}] /\ row' # row
    BY DEF InventoryInvariant, TablesAre
  <1>2. ASSUME NEW w \in Clerks, NEW b \in SUBSET Rows, CreateMany(w, b) PROVE FALSE
    <2>1. NewRow(w) # NoRow
      BY <1>2, NewRowType DEF CreateMany, InventoryInvariant
    <2> QED BY <1>1, <1>2, <2>1 DEF CreateMany, Insert
  <1>3. ASSUME NEW w \in Clerks, NEW q \in Rows, InsertOne(w, q) PROVE FALSE
    <2>1. NewRow(w) # NoRow
      BY <1>3, NewRowType DEF InsertOne, InventoryInvariant
    <2> QED BY <1>1, <1>3, <2>1 DEF InsertOne, InsertHere, Fail, TablesStay
  <1>4. ASSUME NEW w \in Clerks, WriteCount(w)
        PROVE  clerk[w].draft[r] = NoRow
    BY <1>4 DEF WriteCount, WithDraft, Seen
  <1>5. ASSUME NEW q \in Rows, DeliverRow(q) PROVE FALSE
    <2>1. row[q] \in Row /\ row' = [row EXCEPT ![q].status = "DELIVERED"]
      BY <1>1, <1>5 DEF DeliverRow
    <2>2. [row[q] EXCEPT !.status = "DELIVERED"] \in Row
      BY <2>1 DEF Row, UnitStatuses
    <2>3. row'[r] = row[r] \/ row'[r] \in Row
      BY <1>1, <2>1, <2>2
    <2> QED BY <2>3, InventoryAssumption
  <1>6. ASSUME NEW w \in Clerks,
               \/ \E i \in Imports, n \in 1 .. MaxBatch, k \in 0 .. MaxBatch :
                    StartImport(w, i[1], i[2], n, k)
               \/ EnsureAccountProduct(w) \/ CreateManyFails(w) \/ InsertedAll(w)
               \/ \E q \in Rows : \/ StartDeleteRow(w, q)
                                  \/ \E s \in NewStatuses \cup {NoRow} : StartUpdateRow(w, q, s)
               \/ ReadRow(w) \/ WriteRow(w) \/ CountRows(w) \/ ClerkFails(w) \/ ClerkReturns(w)
        PROVE  FALSE
    BY <1>1, <1>6 DEF StartImport, StartDeleteRow, StartUpdateRow, Begin, EnsureAccountProduct,
       CreateManyFails, InsertedAll, ReadRow, WriteRow, CountRows, ClerkFails, ClerkReturns,
       Fail, TablesStay
  <1>7. ~ InventoryCrash
    BY <1>1 DEF InventoryCrash, TablesStay
  <1> QED BY <1>2, <1>3, <1>4, <1>5, <1>6, <1>7 DEF InventoryNext

-----------------------------------------------------------------------------
(* The invariant holds, and with it the type invariant of the tables and   *)
(* of every request's memory.                                              *)
THEOREM InventoryTypeCorrect == InventorySpec => []InventoryTypeOK
  <1> QED BY InitInventory, NextInventory, InvariantTypes, PTL DEF InventorySpec

(* A recount that nothing overlapped leaves Product.stock at the number of *)
(* AVAILABLE rows, for any number of administrators, rows and products.    *)
THEOREM RecountCorrect == InventorySpec => RecountHeals
  <1>1. ASSUME InventoryInvariant, [InventoryNext]_inventoryVars, NEW w \in Clerks,
               clerk[w].pc \in {"commit", "store"}, clerk[w].alone, clerk'[w].pc = "answered"
        PROVE  goodStock'[clerk[w].good] =
                 Cardinality(OnSale(row', clerk[w].table, clerk[w].good))
    <2>1. CASE UNCHANGED inventoryVars
      BY <1>1, <2>1 DEF inventoryVars
    <2>2. CASE InventoryNext
      <3>1. /\ row' = WithDraft(w)
            /\ goodStock' = [goodStock EXCEPT ![clerk[w].good] = clerk[w].count]
        BY <1>1, <2>2, AnsweredByCount DEF WriteCount
      <3>2. clerk[w].good \in Goods /\ goodStock \in [Goods -> 0 .. Cardinality(Rows)]
            /\ clerk[w].count =
                 Cardinality(OnSale(Overlay(clerk[w], row), clerk[w].table, clerk[w].good))
        BY <1>1 DEF InventoryInvariant, TablesAre, Holds, Prepared, UpToDate
      <3> QED BY <3>1, <3>2, OverlaySeen
    <2> QED BY <1>1, <2>1, <2>2
  <1>2. InventoryInvariant /\ [InventoryNext]_inventoryVars =>
          [\A w \in Clerks :
             (clerk[w].pc \in {"commit", "store"} /\ clerk[w].alone /\ clerk'[w].pc = "answered") =>
               goodStock'[clerk[w].good] =
                 Cardinality(OnSale(row', clerk[w].table, clerk[w].good))]_inventoryVars
    BY <1>1
  <1> QED BY <1>2, InitInventory, NextInventory, PTL DEF InventorySpec, RecountHeals

(* The answer to an import of keys or accounts accounts for every line.    *)
THEOREM ImportCorrect == InventorySpec => ImportAddsUp
  <1>1. InventoryInvariant =>
          \A w \in Clerks : (clerk[w].pc \in {"commit", "store"} /\ clerk[w].op = "import") =>
            /\ clerk[w].imported = clerk[w].inserted
            /\ clerk[w].imported + clerk[w].failed = clerk[w].lines
    BY DEF InventoryInvariant, Holds, Tally
  <1>2. InventoryInvariant /\ [InventoryNext]_inventoryVars =>
          [\A w \in Clerks :
             (/\ clerk[w].pc \in {"commit", "store"} /\ clerk[w].op = "import"
              /\ clerk'[w].pc = "answered") =>
               /\ clerk[w].imported = clerk[w].inserted
               /\ clerk[w].imported + clerk[w].failed = clerk[w].lines]_inventoryVars
    BY <1>1
  <1> QED BY <1>2, InitInventory, NextInventory, PTL DEF InventorySpec, ImportAddsUp

(* A deletion that nothing overlapped does not delete a sold key or        *)
(* account.                                                                *)
THEOREM DeletionCorrect == InventorySpec => LoneDeletionSparesSold
  <1>1. ASSUME InventoryInvariant, [InventoryNext]_inventoryVars, NEW r \in Rows,
               row[r] # NoRow, row'[r] = NoRow, row[r].status # "AVAILABLE"
        PROVE  \E w \in Clerks : clerk[w].target = r /\ ~ clerk[w].alone
    <2>1. InventoryNext
      BY <1>1 DEF inventoryVars
    <2>2. PICK w \in Clerks : clerk[w].draft[r] = NoRow
      BY <1>1, <2>1, DeletedByCount
    <2>3. clerk[w].alone \in BOOLEAN /\ UpToDate(clerk[w], row)
      BY <1>1 DEF InventoryInvariant, Holds, Clerk
    <2> QED BY <1>1, <2>2, <2>3 DEF UpToDate
  <1>2. InventoryInvariant /\ [InventoryNext]_inventoryVars =>
          [\A r \in Rows : row[r] # NoRow /\ row'[r] = NoRow /\ row[r].status # "AVAILABLE" =>
             \E w \in Clerks : clerk[w].target = r /\ ~ clerk[w].alone]_inventoryVars
    BY <1>1
  <1> QED BY <1>2, InitInventory, NextInventory, PTL DEF InventorySpec, LoneDeletionSparesSold
=============================================================================
