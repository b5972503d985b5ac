--------------------------- MODULE CatalogProofs ----------------------------
(***************************************************************************)
(* What the modules of the catalogue and of the marketplace promise, for   *)
(* any number of requests, products, rows and categories: Catalog,         *)
(* CsvImport, Categories, Listings and Marketplace, each with the          *)
(* invariant that makes its property inductive.                            *)
(***************************************************************************)
EXTENDS Catalog, CsvImport, Categories, Listings, Marketplace, Integers,
        FiniteSetTheorems, SequenceTheorems, TLAPS

-----------------------------------------------------------------------------
(* Catalog.                                                                *)

(* Which operation an editor is at, by its statement.                      *)
AtItsStatement(e) ==
  /\ e.pc \in {"count", "write"} => e.op = "update"
  /\ e.pc \in {"checkKeys", "checkAccounts"} => e.op \in {"create", "update"}
  /\ e.op = "update" => e.pc # "idle"
  /\ e.pc = "insert" => e.op = "create"
  /\ e.op = "create" => e.stock <= MaxShelf

(* stocked says what it is there for, and the check of the inventory lets  *)
(* an update that activates get to its write only when it is set.          *)
KnowsOfStock(e, s) ==
  e.op = "update" =>
    /\ s[e.type].available > 0 => e.stocked
    /\ e.pc = "checkAccounts" /\ e.type = "KEY" => e.stocked
    /\ e.pc = "write" /\ e.active => e.stocked

(* As long as the shelf stays, what an update has counted is what is there *)
(* and what it is going to write is what derives from it.                  *)
CountsWhatIsThere(e, g, s) ==
  e.op = "update" =>
    /\ g.there
    /\ ~ e.overlapped =>
         /\ e.keepsType => e.type = g.type
         /\ e.pc = "count" => \A t \in Tables \ e.todo : e.seen[t] = s[t]
         /\ e.pc \in {"checkKeys", "checkAccounts", "write"} /\ HasUnits(s) =>
              e.stock = Derived(e.type, s)

Edits(e, g, s) == AtItsStatement(e) /\ KnowsOfStock(e, s) /\ CountsWhatIsThere(e, g, s)

(* A recount is of a product that is there, and what it has counted is     *)
(* what is available as long as the shelf stays.                           *)
Counts(k, g, s) ==
  /\ k.pc # "idle" => g.there
  /\ k.pc = "store" /\ k.fresh => k.stock = s[k.kind].available

CatalogInvariant ==
  /\ CatalogTypeOK
  /\ StockIsCounted
  /\ \A x \in Editors : Edits(editor[x], good, shelf)
  /\ \A c \in Counters : Counts(counter[c], good, shelf)

LEMMA IdleEdits ==
  ASSUME NEW g, NEW s
  PROVE  IdleEditor \in Editor /\ Edits(IdleEditor, g, s)
<1>1. EmptyShelf \in Shelf  BY CatalogAssumption DEF EmptyShelf, Shelf
<1>2. IdleEditor \in Editor  BY <1>1, CatalogAssumption DEF IdleEditor, Editor, Tables
<1>3. Edits(IdleEditor, g, s)
  BY DEF IdleEditor, Edits, AtItsStatement, KnowsOfStock, CountsWhatIsThere
<1> QED BY <1>2, <1>3

LEMMA IdleCounts ==
  ASSUME NEW g, NEW s
  PROVE  IdleCounter \in Counter /\ Counts(IdleCounter, g, s)
BY CatalogAssumption DEF IdleCounter, Counter, Counts, Tables

LEMMA DerivedIsStock ==
  ASSUME NEW s \in Shelf, NEW type \in Tables
  PROVE  Derived(type, s) \in 0 .. MaxShelf
BY DEF Derived, KindSold, Shelf, Tables

LEMMA EmptyShelfFacts ==
  /\ EmptyShelf \in Shelf /\ ~ HasUnits(EmptyShelf)
  /\ \A t \in Tables : EmptyShelf[t].available = 0
  /\ NoGood \in Good /\ ~ NoGood.there /\ ~ NoGood.active
BY CatalogAssumption DEF EmptyShelf, Shelf, HasUnits, NoGood, Good, Tables

(* A step of one editor that changes nothing else.                         *)
LEMMA EditorMoves ==
  ASSUME CatalogInvariant, NEW x \in Editors, NEW e \in Editor, Edits(e, good, shelf),
         editor' = [editor EXCEPT ![x] = e], GoodsStay
  PROVE  CatalogInvariant'
<1>1. editor \in [Editors -> Editor]  BY DEF CatalogInvariant, CatalogTypeOK
<1>2. UNCHANGED <<good, shelf, refs, drift, counter>>  BY DEF GoodsStay
<1>3. CatalogTypeOK'  BY <1>1, <1>2 DEF CatalogInvariant, CatalogTypeOK
<1>4. StockIsCounted'  BY <1>2 DEF CatalogInvariant, StockIsCounted
<1>5. \A y \in Editors : Edits(editor'[y], good, shelf)  BY <1>1 DEF CatalogInvariant
<1>6. \A y \in Editors : Edits(editor'[y], good', shelf')  BY <1>2, <1>5
<1>7. \A c \in Counters : Counts(counter'[c], good', shelf')  BY <1>2 DEF CatalogInvariant
<1> QED BY <1>3, <1>4, <1>6, <1>7 DEF CatalogInvariant

(* A step of one recount that changes nothing else.                        *)
LEMMA CounterMoves ==
  ASSUME CatalogInvariant, NEW c \in Counters, NEW k \in Counter, Counts(k, good, shelf),
         counter' = [counter EXCEPT ![c] = k], UNCHANGED <<good, shelf, refs, drift, editor>>
  PROVE  CatalogInvariant'
<1>1. counter \in [Counters -> Counter]  BY DEF CatalogInvariant, CatalogTypeOK
<1>2. CatalogTypeOK'  BY <1>1 DEF CatalogInvariant, CatalogTypeOK
<1>3. StockIsCounted'  BY DEF CatalogInvariant, StockIsCounted
<1>4. \A d \in Counters : Counts(counter'[d], good, shelf)  BY <1>1 DEF CatalogInvariant
<1> QED BY <1>2, <1>3, <1>4 DEF CatalogInvariant

(* Whatever becomes of the shelf, a count that is no longer fresh is right.*)
LEMMA OldCounts ==
  ASSUME CatalogInvariant, CountsAreOld, NEW s
  PROVE  /\ counter' \in [Counters -> Counter]
         /\ \A c \in Counters : Counts(counter'[c], good, s)
<1> DEFINE k(c) == [counter[c] EXCEPT !.fresh = FALSE]
<1>1. counter \in [Counters -> Counter] /\ \A c \in Counters : Counts(counter[c], good, shelf)
  BY DEF CatalogInvariant, CatalogTypeOK
<1>2. counter' = [c \in Counters |-> k(c)]  BY DEF CountsAreOld
<1>3. ASSUME NEW c \in Counters PROVE k(c) \in Counter /\ Counts(k(c), good, s)
  <2>1. k(c) \in Counter  BY <1>1 DEF Counter
  <2>2. k(c).pc = counter[c].pc /\ ~ k(c).fresh  BY <1>1 DEF Counter
  <2>3. Counts(k(c), good, s)  BY <1>1, <2>2 DEF Counts
  <2> QED BY <2>1, <2>3
<1> HIDE DEF k
<1> QED BY <1>2, <1>3

LEMMA CatalogStarts == CatalogInit => CatalogInvariant
<1> SUFFICES ASSUME CatalogInit PROVE CatalogInvariant  OBVIOUS
<1>1. CatalogTypeOK  BY IdleEdits, IdleCounts, EmptyShelfFacts DEF CatalogInit, CatalogTypeOK
<1>2. StockIsCounted  BY EmptyShelfFacts DEF CatalogInit, StockIsCounted
<1>3. \A x \in Editors : Edits(editor[x], good, shelf)  BY IdleEdits DEF CatalogInit
<1>4. \A c \in Counters : Counts(counter[c], good, shelf)  BY IdleCounts DEF CatalogInit
<1> QED BY <1>1, <1>2, <1>3, <1>4 DEF CatalogInvariant

(* The shelf of a product is emptied with the product, or is new.          *)
LEMMA ShelfEmptied ==
  ASSUME NEW e \in Editor, NEW g, NEW h, NEW s, Edits(e, g, s), ~ g.there
  PROVE  Edits(e, h, EmptyShelf)
<1>1. e.op # "update"  BY DEF Edits, CountsWhatIsThere
<1> QED BY <1>1 DEF Edits, AtItsStatement, KnowsOfStock, CountsWhatIsThere

LEMMA CatalogMoves ==
  ASSUME CatalogInvariant, [CatalogNext]_catalogVars
  PROVE  CatalogInvariant'
<1> USE CatalogAssumption
<1>0. /\ good \in Good /\ shelf \in Shelf /\ refs \in SUBSET {"order", "cart"} /\ drift \in BOOLEAN
      /\ editor \in [Editors -> Editor] /\ StockIsCounted
      /\ \A x \in Editors : Edits(editor[x], good, shelf) /\ editor[x] \in Editor
      /\ counter \in [Counters -> Counter]
      /\ \A c \in Counters : Counts(counter[c], good, shelf) /\ counter[c] \in Counter
  BY DEF CatalogInvariant, CatalogTypeOK
<1>a. ASSUME NEW x \in Editors, EditorEnds(x), GoodsStay PROVE CatalogInvariant'
  BY <1>a, IdleEdits, EditorMoves DEF EditorEnds
<1>b. ASSUME NEW x \in Editors, NEW pc \in {"checkAccounts", "insert", "write", "delete"},
             EditorGoes(x, pc), GoodsStay, Edits([editor[x] EXCEPT !.pc = pc], good, shelf)
      PROVE  CatalogInvariant'
  <2> DEFINE e == [editor[x] EXCEPT !.pc = pc]
  <2>1. e \in Editor  BY <1>0 DEF Editor
  <2>2. editor' = [editor EXCEPT ![x] = e]  BY <1>0, <1>b DEF EditorGoes
  <2>3. Edits(e, good, shelf)  BY <1>b
  <2> HIDE DEF e
  <2> QED BY <1>b, <2>1, <2>2, <2>3, EditorMoves
<1>1. ASSUME NEW x \in Editors, NEW t \in Tables, NEW a \in BOOLEAN,
             NEW n \in Asked \ {MaxShelf + 1}, StartCreate(x, t, a, n)
      PROVE  CatalogInvariant'
  <2> DEFINE e == [IdleEditor EXCEPT !.op = "create", !.type = t,
                     !.pc = IF a THEN "checkKeys" ELSE "insert", !.active = a, !.stock = n]
  <2>1. n \in 0 .. MaxShelf  OBVIOUS
  <2>2. e \in Editor  BY <2>1, IdleEdits DEF Editor
  <2>3. e.op = "create" /\ e.stock = n /\ e.pc \in {"checkKeys", "insert"}  BY DEF IdleEditor
  <2>4. editor' = [editor EXCEPT ![x] = e] /\ GoodsStay  BY <1>1 DEF StartCreate
  <2> HIDE DEF e
  <2>5. Edits(e, good, shelf)
    BY <2>1, <2>3 DEF Edits, AtItsStatement, KnowsOfStock, CountsWhatIsThere
  <2> QED BY <2>2, <2>4, <2>5, EditorMoves
<1>2. ASSUME NEW x \in Editors, NEW t \in Tables, NEW a \in BOOLEAN, NEW n \in Asked,
             StartUpdate(x, t, t = good.type, a, n)
      PROVE  CatalogInvariant'
  <2> DEFINE e == [IdleEditor EXCEPT !.op = "update", !.pc = "count", !.type = t,
                     !.keepsType = (t = good.type), !.active = a, !.stock = n,
                     !.todo = Tables, !.stocked = shelf[t].available > 0]
  <2>1. n \in 0 .. MaxShelf + 1  OBVIOUS
  <2>2. e \in Editor
    <3> DEFINE keeps == (t = good.type)
               stocked == shelf[t].available > 0
    <3>1. keeps \in BOOLEAN /\ stocked \in BOOLEAN  OBVIOUS
    <3> HIDE DEF keeps, stocked
    <3>2. [IdleEditor EXCEPT !.op = "update", !.pc = "count", !.type = t, !.keepsType = keeps,
             !.active = a, !.stock = n, !.todo = Tables, !.stocked = stocked] \in Editor
      BY <2>1, <3>1, IdleEdits DEF Editor
    <3> QED BY <3>2 DEF keeps, stocked
  <2>3. /\ e.op = "update" /\ e.pc = "count" /\ e.todo = Tables /\ e.type = t
        /\ e.stocked = (shelf[t].available > 0) /\ e.keepsType = (t = good.type)
    BY DEF IdleEditor
  <2>4. editor' = [editor EXCEPT ![x] = e] /\ GoodsStay /\ good.there  BY <1>2 DEF StartUpdate
  <2> HIDE DEF e
  <2>5. Edits(e, good, shelf)
    BY <2>3, <2>4 DEF Edits, AtItsStatement, KnowsOfStock, CountsWhatIsThere
  <2> QED BY <2>2, <2>4, <2>5, EditorMoves
<1>3. ASSUME NEW x \in Editors, StartProductDelete(x) PROVE CatalogInvariant'
  <2> DEFINE e == [IdleEditor EXCEPT !.op = "delete", !.pc = "countOrders"]
  <2>1. e \in Editor  BY IdleEdits DEF Editor
  <2>2. e.op = "delete" /\ e.pc = "countOrders"  BY DEF IdleEditor
  <2>3. editor' = [editor EXCEPT ![x] = e] /\ GoodsStay  BY <1>3 DEF StartProductDelete
  <2> HIDE DEF e
  <2>4. Edits(e, good, shelf)
    BY <2>2 DEF Edits, AtItsStatement, KnowsOfStock, CountsWhatIsThere
  <2> QED BY <2>1, <2>3, <2>4, EditorMoves
<1>4. ASSUME NEW x \in Editors, StartClearDemo(x) PROVE CatalogInvariant'
  <2> DEFINE e == [IdleEditor EXCEPT !.op = "clear", !.pc = "clearKeys"]
  <2>1. e \in Editor  BY IdleEdits DEF Editor
  <2>2. e.op = "clear" /\ e.pc = "clearKeys"  BY DEF IdleEditor
  <2>3. editor' = [editor EXCEPT ![x] = e] /\ GoodsStay  BY <1>4 DEF StartClearDemo
  <2> HIDE DEF e
  <2>4. Edits(e, good, shelf)
    BY <2>2 DEF Edits, AtItsStatement, KnowsOfStock, CountsWhatIsThere
  <2> QED BY <2>1, <2>3, <2>4, EditorMoves
<1>5. ASSUME NEW x \in Editors, CheckKeys(x) PROVE CatalogInvariant'
  <2>1. CASE editor[x].type = "KEY" /\ ~ InStock(x, "KEY")  BY <1>5, <1>a, <2>1 DEF CheckKeys
  <2>2. CASE ~ (editor[x].type = "KEY" /\ ~ InStock(x, "KEY"))
    <3> DEFINE e == [editor[x] EXCEPT !.pc = "checkAccounts"]
    <3>1. editor[x].pc = "checkKeys" /\ EditorGoes(x, "checkAccounts") /\ GoodsStay
      BY <1>5, <2>2 DEF CheckKeys
    <3>2. /\ e.pc = "checkAccounts" /\ e.op = editor[x].op /\ e.type = editor[x].type
          /\ e.stocked = editor[x].stocked /\ e.overlapped = editor[x].overlapped
          /\ e.keepsType = editor[x].keepsType /\ e.stock = editor[x].stock
      BY <1>0 DEF Editor
    <3>3. editor[x].op = "update" /\ editor[x].type = "KEY" => editor[x].stocked
      BY <1>0, <2>2 DEF InStock, Edits, KnowsOfStock
    <3> HIDE DEF e
    <3>4. Edits(e, good, shelf)
      BY <1>0, <3>1, <3>2, <3>3 DEF Edits, AtItsStatement, KnowsOfStock, CountsWhatIsThere
    <3> QED BY <1>b, <3>1, <3>4 DEF e
  <2> QED BY <2>1, <2>2
<1>6. ASSUME NEW x \in Editors, CheckAccounts(x) PROVE CatalogInvariant'
  <2>1. CASE editor[x].type = "ACCOUNT" /\ ~ InStock(x, "ACCOUNT")
    BY <1>6, <1>a, <2>1 DEF CheckAccounts
  <2>2. CASE ~ (editor[x].type = "ACCOUNT" /\ ~ InStock(x, "ACCOUNT"))
    <3> DEFINE pc == IF editor[x].op = "create" THEN "insert" ELSE "write"
               e == [editor[x] EXCEPT !.pc = pc]
    <3>1. editor[x].pc = "checkAccounts" /\ EditorGoes(x, pc) /\ GoodsStay
      BY <1>6, <2>2 DEF CheckAccounts
    <3>2. /\ e.pc = pc /\ e.op = editor[x].op /\ e.type = editor[x].type
          /\ e.stocked = editor[x].stocked /\ e.overlapped = editor[x].overlapped
          /\ e.keepsType = editor[x].keepsType /\ e.stock = editor[x].stock
      BY <1>0 DEF Editor
    <3>3. editor[x].op = "update" /\ editor[x].type = "ACCOUNT" => editor[x].stocked
      BY <1>0, <2>2 DEF InStock, Edits, KnowsOfStock
    <3>4. editor[x].op = "update" => editor[x].stocked
      BY <1>0, <3>1, <3>3 DEF Edits, KnowsOfStock, Editor, Tables
    <3>5. pc \in {"insert", "write"} /\ (pc = "insert" <=> editor[x].op = "create")  OBVIOUS
    <3> HIDE DEF e, pc
    <3>6. Edits(e, good, shelf)
      BY <1>0, <3>1, <3>2, <3>4, <3>5 DEF Edits, AtItsStatement, KnowsOfStock, CountsWhatIsThere
    <3> QED BY <1>b, <3>1, <3>5, <3>6 DEF e
  <2> QED BY <2>1, <2>2
<1>7. ASSUME NEW x \in Editors, InsertProduct(x) PROVE CatalogInvariant'
  <2> DEFINE g == [there |-> TRUE, type |-> editor[x].type, active |-> editor[x].active,
                   stock |-> editor[x].stock, demo |-> FALSE]
  <2>1. editor[x].pc = "insert" /\ ~ good.there /\ editor[x].op # "update"
    BY <1>0, <1>7 DEF InsertProduct, Edits, CountsWhatIsThere
  <2>2. /\ good' = g /\ shelf' = EmptyShelf /\ refs' = {} /\ drift' = FALSE
        /\ editor' = [editor EXCEPT ![x] = IdleEditor] /\ counter' = counter
    BY <1>7 DEF InsertProduct, EditorEnds
  <2> HIDE DEF g
  <2>3. editor[x].stock <= MaxShelf
    BY <1>0, <2>1 DEF Edits, AtItsStatement
  <2>4. CatalogInvariant'
    <3>1. g \in Good  BY <1>0, <2>3 DEF g, Good, Editor
    <3>2. CatalogTypeOK'  BY <1>0, <2>2, <3>1, IdleEdits, EmptyShelfFacts DEF CatalogTypeOK
    <3>3. StockIsCounted'  BY <2>2, EmptyShelfFacts DEF StockIsCounted
    <3>4. \A y \in Editors : Edits(editor'[y], g, EmptyShelf)
      BY <1>0, <2>1, <2>2, IdleEdits, ShelfEmptied
    <3>5. \A c \in Counters : Counts(counter[c], g, EmptyShelf)
      <4>1. \A c \in Counters : counter[c].pc = "idle"  BY <1>0, <2>1 DEF Counts
      <4> QED BY <4>1 DEF Counts
    <3> QED BY <2>2, <3>2, <3>3, <3>4, <3>5 DEF CatalogInvariant
  <2> QED BY <2>4
<1>8. ASSUME NEW x \in Editors, NEW t \in Tables, CountUnits(x, t) PROVE CatalogInvariant'
  <2> DEFINE q == editor[x]
             seen == [q.seen EXCEPT ![t] = shelf[t]]
  <2>0. q \in Editor /\ Edits(q, good, shelf)  BY <1>0
  <2>1. q.pc = "count" /\ q.op = "update" /\ t \in q.todo /\ GoodsStay
    BY <1>8, <2>0 DEF CountUnits, Edits, AtItsStatement
  <2>2. q.seen \in Shelf /\ q.todo \in SUBSET Tables  BY <2>0 DEF Editor
  <2>3. seen \in Shelf /\ seen[t] = shelf[t] /\ \A u \in Tables \ {t} : seen[u] = q.seen[u]
    BY <1>0, <2>2 DEF Shelf
  <2>4. ~ q.overlapped => \A u \in Tables \ (q.todo \ {t}) : seen[u] = shelf[u]
    BY <2>0, <2>1, <2>3 DEF Edits, CountsWhatIsThere
  <2>5. CASE q.todo # {t}
    <3> DEFINE e == [q EXCEPT !.todo = q.todo \ {t}, !.seen = seen]
    <3>1. editor' = [editor EXCEPT ![x] = e]  BY <1>8, <2>5 DEF CountUnits
    <3> HIDE DEF seen
    <3>2. e \in Editor  BY <2>0, <2>2, <2>3 DEF Editor
    <3>3. /\ e.pc = q.pc /\ e.op = q.op /\ e.type = q.type /\ e.stocked = q.stocked
          /\ e.overlapped = q.overlapped /\ e.keepsType = q.keepsType
          /\ e.todo = q.todo \ {t} /\ e.seen = seen
      BY <2>0 DEF Editor
    <3> HIDE DEF e, q
    <3>4. Edits(e, good, shelf)
      BY <2>0, <2>1, <2>4, <3>3 DEF Edits, AtItsStatement, KnowsOfStock, CountsWhatIsThere
    <3> QED BY <2>1, <3>1, <3>2, <3>4, EditorMoves
  <2>6. CASE q.todo = {t}
    <3> DEFINE stock == StockToWrite(q, seen)
               pc == IF q.active THEN "checkKeys" ELSE "write"
               e == [q EXCEPT !.pc = pc, !.todo = {}, !.stock = stock, !.seen = EmptyShelf]
    <3>1. editor' = [editor EXCEPT ![x] = e]  BY <1>8, <2>6 DEF CountUnits
    <3> HIDE DEF seen
    <3>2. stock \in 0 .. MaxShelf + 1
      <4>1. q.stock \in 0 .. MaxShelf + 1 /\ q.type \in Tables  BY <2>0 DEF Editor
      <4>2. Derived(q.type, seen) \in 0 .. MaxShelf  BY <2>3, <4>1, DerivedIsStock
      <4> HIDE DEF q
      <4> QED BY <4>1, <4>2 DEF StockToWrite
    <3>3. ~ q.overlapped /\ HasUnits(shelf) => stock = Derived(q.type, shelf)
      <4> SUFFICES ASSUME ~ q.overlapped, HasUnits(shelf) PROVE stock = Derived(q.type, shelf)
        OBVIOUS
      <4>1. \A u \in Tables : seen[u] = shelf[u]  BY <2>4, <2>6
      <4>2. HasUnits(seen)  BY <4>1 DEF HasUnits
      <4>3. Derived(q.type, seen) = Derived(q.type, shelf)  BY <4>1 DEF Derived, KindSold, Tables
      <4> QED BY <4>2, <4>3 DEF StockToWrite
    <3>4. pc \in {"checkKeys", "write"} /\ (pc = "write" => ~ q.active)  OBVIOUS
    <3> HIDE DEF stock, pc
    <3>5. e \in Editor  BY <2>0, <2>2, <3>2, <3>4, EmptyShelfFacts DEF Editor
    <3>6. /\ e.pc = pc /\ e.op = q.op /\ e.type = q.type /\ e.stocked = q.stocked
          /\ e.overlapped = q.overlapped /\ e.keepsType = q.keepsType /\ e.active = q.active
          /\ e.stock = stock
      BY <2>0 DEF Editor
    <3> HIDE DEF e, q
    <3>7. Edits(e, good, shelf)
      BY <2>0, <2>1, <3>3, <3>4, <3>6 DEF Edits, AtItsStatement, KnowsOfStock, CountsWhatIsThere
    <3> QED BY <2>1, <3>1, <3>5, <3>7, EditorMoves
  <2> QED BY <2>5, <2>6
<1>9. ASSUME NEW x \in Editors, WriteProduct(x) PROVE CatalogInvariant'
  <2> DEFINE q == editor[x]
             type == IF q.keepsType THEN good.type ELSE q.type
             stock == IF q.stock > MaxShelf THEN good.stock ELSE q.stock
             g == [good EXCEPT !.type = type, !.active = q.active, !.stock = stock]
  <2>0. q \in Editor /\ Edits(q, good, shelf)  BY <1>0
  <2>1. /\ q.pc = "write" /\ good.there /\ good' = g /\ drift' = q.overlapped
        /\ UNCHANGED <<shelf, refs, counter>>
    BY <1>0, <1>9 DEF WriteProduct, StockStored, Good
  <2>2. g \in Good
    <3>1. type \in Tables /\ q.active \in BOOLEAN  BY <1>0, <2>0 DEF Good, Editor
    <3>2. stock \in 0 .. MaxShelf  BY <1>0, <2>0 DEF Good, Editor
    <3> HIDE DEF type, stock, q
    <3> QED BY <1>0, <3>1, <3>2 DEF Good
  <2>3. g.there /\ g.type = type /\ g.stock = stock  BY <1>0, <2>1 DEF Good
  <2>4. StockIsCounted'
    <3> SUFFICES ASSUME ~ q.overlapped, HasUnits(shelf) PROVE g.stock = Derived(g.type, shelf)
      BY <2>1 DEF StockIsCounted
    <3>1. /\ q.keepsType => q.type = good.type
          /\ q.stock = Derived(q.type, shelf)
      BY <2>0, <2>1 DEF Edits, AtItsStatement, CountsWhatIsThere
    <3>2. q.type \in Tables  BY <2>0 DEF Editor
    <3>3. q.stock \in 0 .. MaxShelf  BY <1>0, <3>1, <3>2, DerivedIsStock
    <3>4. stock = q.stock /\ type = q.type  BY <3>1, <3>3
    <3> QED BY <2>3, <3>1, <3>4
  <2> DEFINE e(y) == [editor[y] EXCEPT !.overlapped = @ \/ g.type # good.type]
  <2>5. editor' = [y \in Editors |-> IF y = x THEN IdleEditor ELSE e(y)]
    BY <1>9, <2>1 DEF WriteProduct, StockStored
  <2>6. ASSUME NEW y \in Editors PROVE e(y) \in Editor /\ Edits(e(y), g, shelf)
    <3>1. e(y) \in Editor
      <4> DEFINE overlapped == editor[y].overlapped \/ g.type # good.type
      <4>1. overlapped \in BOOLEAN  OBVIOUS
      <4> HIDE DEF overlapped
      <4>2. [editor[y] EXCEPT !.overlapped = overlapped] \in Editor  BY <1>0, <4>1 DEF Editor
      <4> QED BY <4>2 DEF overlapped
    <3>2. /\ e(y).pc = editor[y].pc /\ e(y).op = editor[y].op /\ e(y).type = editor[y].type
          /\ e(y).stocked = editor[y].stocked /\ e(y).keepsType = editor[y].keepsType
          /\ e(y).active = editor[y].active /\ e(y).stock = editor[y].stock
          /\ e(y).todo = editor[y].todo /\ e(y).seen = editor[y].seen
      <4> HIDE DEF g
      <4> QED BY <1>0 DEF Editor
    <3>3. ~ e(y).overlapped => ~ editor[y].overlapped /\ g.type = good.type
      <4> HIDE DEF g
      <4> QED BY <1>0 DEF Editor
    <3> DEFINE d == e(y)
    <3> HIDE DEF d, g
    <3>4. Edits(d, g, shelf)
      BY <1>0, <2>3, <3>2, <3>3 DEF d, Edits, AtItsStatement, KnowsOfStock, CountsWhatIsThere
    <3> QED BY <3>1, <3>4 DEF d
  <2> HIDE DEF e, g
  <2>7. editor' \in [Editors -> Editor] /\ \A y \in Editors : Edits(editor'[y], g, shelf)
    BY <2>5, <2>6, IdleEdits
  <2>8. drift' \in BOOLEAN  BY <2>0, <2>1 DEF Editor
  <2>9. CatalogTypeOK'  BY <1>0, <2>1, <2>2, <2>7, <2>8 DEF CatalogTypeOK
  <2>10. \A c \in Counters : Counts(counter[c], g, shelf)  BY <1>0, <2>3 DEF Counts
  <2> QED BY <2>1, <2>4, <2>7, <2>9, <2>10 DEF CatalogInvariant
<1>10. ASSUME NEW x \in Editors, CountOrderItems(x) PROVE CatalogInvariant'
  <2>1. CASE "order" \in refs  BY <1>10, <1>a, <2>1 DEF CountOrderItems
  <2>2. CASE "order" \notin refs
    <3> DEFINE e == [editor[x] EXCEPT !.pc = "delete"]
    <3>1. editor[x].pc = "countOrders" /\ EditorGoes(x, "delete") /\ GoodsStay
      BY <1>10, <2>2 DEF CountOrderItems
    <3>2. /\ e.pc = "delete" /\ e.op = editor[x].op /\ e.type = editor[x].type
          /\ e.stocked = editor[x].stocked /\ e.overlapped = editor[x].overlapped
          /\ e.keepsType = editor[x].keepsType /\ e.stock = editor[x].stock
      BY <1>0 DEF Editor
    <3> HIDE DEF e
    <3>3. Edits(e, good, shelf)
      BY <1>0, <3>1, <3>2 DEF Edits, AtItsStatement, KnowsOfStock, CountsWhatIsThere
    <3> QED BY <1>b, <3>1, <3>3 DEF e
  <2> QED BY <2>1, <2>2
<1>11. ASSUME NEW x \in Editors, DeleteProduct(x) PROVE CatalogInvariant'
  <2>1. /\ good' = NoGood /\ shelf' = EmptyShelf /\ drift' = FALSE /\ refs' = refs
        /\ editor' = [y \in Editors |-> IF y = x \/ editor[y].op # "create" THEN IdleEditor ELSE editor[y]]
        /\ counter' = [c \in Counters |-> IdleCounter]
    BY <1>11 DEF DeleteProduct
  <2>2. ASSUME NEW y \in Editors PROVE editor'[y] \in Editor /\ Edits(editor'[y], NoGood, EmptyShelf)
    <3>1. CASE editor'[y] = IdleEditor  BY <3>1, IdleEdits
    <3>2. CASE editor'[y] = editor[y] /\ editor[y].op = "create"
      BY <1>0, <3>2 DEF Edits, AtItsStatement, KnowsOfStock, CountsWhatIsThere
    <3> QED BY <2>1, <3>1, <3>2
  <2>3. editor' \in [Editors -> Editor]  BY <2>1, <2>2
  <2>4. CatalogTypeOK'  BY <1>0, <2>1, <2>3, IdleCounts, EmptyShelfFacts DEF CatalogTypeOK
  <2>5. StockIsCounted'  BY <2>1, EmptyShelfFacts DEF StockIsCounted
  <2>6. \A c \in Counters : Counts(counter'[c], good', shelf')  BY <2>1, IdleCounts
  <2> QED BY <2>1, <2>2, <2>4, <2>5, <2>6 DEF CatalogInvariant
<1>12. ASSUME NEW x \in Editors, ClearDemoKeys(x) PROVE CatalogInvariant'
  <2> DEFINE s == [shelf EXCEPT !["KEY"] = EmptyShelf["KEY"]]
             e(y) == IF y = x THEN [editor[x] EXCEPT !.pc = "clearCarts"]
                     ELSE [editor[y] EXCEPT !.overlapped = TRUE]
  <2>1. /\ editor[x].pc = "clearKeys" /\ shelf' = s /\ drift' = TRUE /\ UNCHANGED <<good, refs>>
        /\ editor' = [y \in Editors |-> e(y)] /\ CountsAreOld
    BY <1>12 DEF ClearDemoKeys
  <2>2. s \in Shelf /\ \A t \in Tables : s[t].available > 0 => shelf[t].available > 0
    BY <1>0, EmptyShelfFacts DEF Shelf, Tables
  <2> HIDE DEF s
  <2>3. ASSUME NEW y \in Editors PROVE e(y) \in Editor /\ Edits(e(y), good, s)
    <3>0. editor[y] \in Editor /\ Edits(editor[y], good, shelf)  BY <1>0
    <3>1. CASE y = x
      <4>1. e(y) \in Editor  BY <3>0, <3>1 DEF Editor
      <4>2. /\ e(y).pc = "clearCarts" /\ e(y).op = editor[y].op /\ e(y).type = editor[y].type
            /\ e(y).stocked = editor[y].stocked /\ e(y).overlapped = editor[y].overlapped
            /\ e(y).keepsType = editor[y].keepsType /\ e(y).stock = editor[y].stock
        BY <3>0, <3>1 DEF Editor
      <4> DEFINE d == e(y)
      <4> HIDE DEF d
      <4>3. editor[y].type \in Tables  BY <3>0 DEF Editor
      <4>4. Edits(d, good, s)
        BY <2>1, <2>2, <3>0, <4>2, <4>3 DEF d, Edits, AtItsStatement, KnowsOfStock, CountsWhatIsThere
      <4> QED BY <4>1, <4>4 DEF d
    <3>2. CASE y # x
      <4>1. e(y) \in Editor  BY <3>0, <3>2 DEF Editor
      <4>2. /\ e(y).pc = editor[y].pc /\ e(y).op = editor[y].op /\ e(y).type = editor[y].type
            /\ e(y).stocked = editor[y].stocked /\ e(y).overlapped
            /\ e(y).active = editor[y].active /\ e(y).stock = editor[y].stock
        BY <3>0, <3>2 DEF Editor
      <4> DEFINE d == e(y)
      <4> HIDE DEF d
      <4>3. editor[y].type \in Tables  BY <3>0 DEF Editor
      <4>4. Edits(d, good, s)
        BY <2>1, <2>2, <3>0, <4>2, <4>3 DEF d, Edits, AtItsStatement, KnowsOfStock, CountsWhatIsThere
      <4> QED BY <4>1, <4>4 DEF d
    <3> QED BY <3>1, <3>2
  <2> HIDE DEF e
  <2>4. editor' \in [Editors -> Editor] /\ \A y \in Editors : Edits(editor'[y], good', shelf')
    BY <2>1, <2>3
  <2>5. /\ counter' \in [Counters -> Counter]
        /\ \A c \in Counters : Counts(counter'[c], good', shelf')
    BY <2>1, OldCounts
  <2>6. CatalogTypeOK'  BY <1>0, <2>1, <2>2, <2>4, <2>5 DEF CatalogTypeOK
  <2>7. StockIsCounted'  BY <2>1 DEF StockIsCounted
  <2> QED BY <2>4, <2>5, <2>6, <2>7 DEF CatalogInvariant
<1>13. ASSUME NEW x \in Editors, ClearDemoCarts(x) PROVE CatalogInvariant'
  <2> DEFINE e == [editor[x] EXCEPT !.pc = "clearProducts"]
  <2>1. /\ editor[x].pc = "clearCarts" /\ editor' = [editor EXCEPT ![x] = e]
        /\ refs' \in SUBSET {"order", "cart"} /\ UNCHANGED <<good, shelf, drift, counter>>
    BY <1>0, <1>13 DEF ClearDemoCarts, EditorGoes
  <2>2. e \in Editor  BY <1>0 DEF Editor
  <2>3. /\ e.pc = "clearProducts" /\ e.op = editor[x].op /\ e.type = editor[x].type
        /\ e.stocked = editor[x].stocked /\ e.overlapped = editor[x].overlapped
        /\ e.keepsType = editor[x].keepsType /\ e.stock = editor[x].stock
    BY <1>0 DEF Editor
  <2> HIDE DEF e
  <2>4. Edits(e, good, shelf)
    BY <1>0, <2>1, <2>3 DEF Edits, AtItsStatement, KnowsOfStock, CountsWhatIsThere
  <2>5. editor' \in [Editors -> Editor] /\ \A y \in Editors : Edits(editor'[y], good, shelf)
    BY <1>0, <2>1, <2>2, <2>4
  <2>6. CatalogTypeOK'  BY <1>0, <2>1, <2>5 DEF CatalogTypeOK
  <2> QED BY <1>0, <2>1, <2>5, <2>6 DEF CatalogInvariant, StockIsCounted
<1>14. ASSUME NEW x \in Editors, EditorFails(x) PROVE CatalogInvariant'
  BY <1>14, <1>a DEF EditorFails
<1>15. ASSUME NEW n \in Asked \ {MaxShelf + 1}, CreateDemo(n) PROVE CatalogInvariant'
  <2> DEFINE g == [there |-> TRUE, type |-> "KEY", active |-> TRUE, stock |-> n, demo |-> TRUE]
  <2>1. n \in 0 .. MaxShelf  OBVIOUS
  <2>2. g \in Good  BY <2>1 DEF Good, Tables
  <2>3. /\ ~ good.there /\ good' = g /\ shelf' = EmptyShelf /\ refs' = {} /\ drift' = FALSE
        /\ editor' = editor /\ counter' = counter
    BY <1>15 DEF CreateDemo
  <2> HIDE DEF g
  <2>4. \A y \in Editors : Edits(editor[y], g, EmptyShelf)  BY <1>0, <2>3, ShelfEmptied
  <2>5. CatalogTypeOK'  BY <1>0, <2>2, <2>3, EmptyShelfFacts DEF CatalogTypeOK
  <2>6. StockIsCounted'  BY <2>3, EmptyShelfFacts DEF StockIsCounted
  <2>7. \A c \in Counters : counter[c].pc = "idle"  BY <1>0, <2>3 DEF Counts
  <2>8. \A c \in Counters : Counts(counter[c], g, EmptyShelf)  BY <2>7 DEF Counts
  <2> QED BY <2>3, <2>4, <2>5, <2>6, <2>8 DEF CatalogInvariant
<1>16. ASSUME NEW t \in Tables, NEW any \in BOOLEAN, NEW n \in 0 .. MaxShelf, ShelfChanges(t, any, n)
       PROVE  CatalogInvariant'
  <2> DEFINE s == [shelf EXCEPT ![t] = [any |-> any, available |-> n]]
             e(y) == [editor[y] EXCEPT
                  !.overlapped = @ \/ editor[y].pc # "idle",
                  !.stocked = @ \/ (editor[y].op = "update" /\ editor[y].type = t /\ n > 0)]
  <2>1. /\ good.there /\ shelf' = s /\ UNCHANGED <<good, refs>> /\ drift' = TRUE
        /\ editor' = [y \in Editors |-> e(y)] /\ CountsAreOld
    BY <1>16 DEF ShelfChanges
  <2>2. s \in Shelf /\ \A u \in Tables : s[u].available = IF u = t THEN n ELSE shelf[u].available
    BY <1>0 DEF Shelf
  <2>3. /\ counter' \in [Counters -> Counter]
        /\ \A c \in Counters : Counts(counter'[c], good', shelf')
    BY <2>1, OldCounts
  <2> HIDE DEF s
  <2>4. ASSUME NEW y \in Editors PROVE e(y) \in Editor /\ Edits(e(y), good, s)
    <3>0. editor[y] \in Editor /\ Edits(editor[y], good, shelf)  BY <1>0
    <3>1. e(y) \in Editor  BY <3>0 DEF Editor
    <3>2. /\ e(y).pc = editor[y].pc /\ e(y).op = editor[y].op /\ e(y).type = editor[y].type
          /\ e(y).active = editor[y].active /\ e(y).stock = editor[y].stock
          /\ e(y).overlapped = (editor[y].overlapped \/ editor[y].pc # "idle")
          /\ e(y).stocked = (editor[y].stocked
               \/ (editor[y].op = "update" /\ editor[y].type = t /\ n > 0))
      BY <3>0 DEF Editor
    <3> DEFINE d == e(y)
    <3> HIDE DEF d
    <3>3. editor[y].type \in Tables  BY <3>0 DEF Editor
    <3>4. AtItsStatement(d)  BY <3>0, <3>2 DEF d, Edits, AtItsStatement
    <3>5. KnowsOfStock(d, s)  BY <2>2, <3>0, <3>2, <3>3 DEF d, Edits, KnowsOfStock
    <3>6. CountsWhatIsThere(d, good, s)
      BY <3>0, <3>2 DEF d, Edits, AtItsStatement, CountsWhatIsThere
    <3> QED BY <3>1, <3>4, <3>5, <3>6 DEF d, Edits
  <2> HIDE DEF e
  <2>5. editor' \in [Editors -> Editor] /\ \A y \in Editors : Edits(editor'[y], good', shelf')
    BY <2>1, <2>4
  <2>6. CatalogTypeOK'  BY <1>0, <2>1, <2>2, <2>3, <2>5 DEF CatalogTypeOK
  <2>7. StockIsCounted'  BY <2>1 DEF StockIsCounted
  <2> QED BY <2>3, <2>5, <2>6, <2>7 DEF CatalogInvariant
<1>17. ASSUME NEW ref \in {"order", "cart"}, Referred(ref) PROVE CatalogInvariant'
  BY <1>0, <1>17 DEF Referred, CatalogInvariant, CatalogTypeOK, StockIsCounted
<1>18. CASE CartEmptied
  BY <1>0, <1>18 DEF CartEmptied, CatalogInvariant, CatalogTypeOK, StockIsCounted
<1>19. ASSUME NEW c \in Counters, NEW t \in Tables, NEW sets \in BOOLEAN, StartRecount(c, t, sets)
       PROVE  CatalogInvariant'
  <2> DEFINE active == sets /\ good.active
             k == [IdleCounter EXCEPT !.pc = "count", !.kind = t, !.sets = sets, !.active = active]
  <2>1. active \in BOOLEAN  BY <1>0 DEF Good
  <2>2. counter' = [counter EXCEPT ![c] = k] /\ good.there  BY <1>19 DEF StartRecount
  <2> HIDE DEF active
  <2>3. k \in Counter /\ k.pc = "count"  BY <2>1, IdleCounts DEF Counter
  <2> HIDE DEF k
  <2>4. Counts(k, good, shelf)  BY <2>2, <2>3 DEF Counts
  <2> QED BY <1>19, <2>2, <2>3, <2>4, CounterMoves DEF StartRecount
<1>20. ASSUME NEW c \in Counters, CountAvailable(c) PROVE CatalogInvariant'
  <2> DEFINE stock == shelf[counter[c].kind].available
             k == [counter[c] EXCEPT !.pc = "store", !.fresh = TRUE, !.stock = stock]
  <2>1. counter[c].kind \in Tables /\ counter[c].pc = "count"  BY <1>0, <1>20 DEF Counter, CountAvailable
  <2>2. stock \in 0 .. MaxShelf  BY <1>0, <2>1 DEF Shelf
  <2>3. counter' = [counter EXCEPT ![c] = k]  BY <1>0, <1>20 DEF CountAvailable
  <2>4. good.there  BY <1>0, <2>1 DEF Counts
  <2>5. stock = shelf[counter[c].kind].available  OBVIOUS
  <2> HIDE DEF stock
  <2>6. k \in Counter /\ k.kind = counter[c].kind /\ k.stock = stock  BY <1>0, <2>2 DEF Counter
  <2> HIDE DEF k
  <2>7. Counts(k, good, shelf)  BY <2>4, <2>5, <2>6 DEF Counts
  <2> QED BY <1>20, <2>3, <2>6, <2>7, CounterMoves DEF CountAvailable
<1>21. ASSUME NEW c \in Counters, StoreCount(c) PROVE CatalogInvariant'
  <2> DEFINE k == counter[c]
             active == IF k.sets THEN k.stock > 0 /\ k.active ELSE good.active
             g == [good EXCEPT !.stock = k.stock, !.active = active]
  <2>1. /\ k.pc = "store" /\ good.there /\ good' = g
        /\ drift' = ~ (k.fresh /\ k.kind = KindSold(good.type, shelf))
        /\ counter' = [counter EXCEPT ![c] = IdleCounter] /\ UNCHANGED <<shelf, refs, editor>>
    BY <1>0, <1>21 DEF StoreCount, Good
  <2>2. k.stock \in 0 .. MaxShelf /\ k.active \in BOOLEAN  BY <1>0 DEF Counter
  <2>3. active \in BOOLEAN  BY <1>0, <2>2 DEF Good
  <2>4. k.fresh => k.stock = shelf[k.kind].available  BY <1>0, <2>1 DEF Counts
  <2> HIDE DEF active, k
  <2>5. g \in Good /\ g.there = good.there /\ g.type = good.type /\ g.stock = k.stock
    BY <1>0, <2>2, <2>3 DEF Good
  <2> HIDE DEF g
  <2>6. StockIsCounted'  BY <2>1, <2>4, <2>5 DEF StockIsCounted, Derived
  <2>7. \A y \in Editors : Edits(editor[y], g, shelf)
    BY <1>0, <2>5 DEF Edits, CountsWhatIsThere
  <2>8. \A d \in Counters : Counts(counter'[d], g, shelf)
    BY <1>0, <2>1, <2>5, IdleCounts DEF Counts
  <2>9. CatalogTypeOK'  BY <1>0, <2>1, <2>5, IdleCounts DEF CatalogTypeOK
  <2> QED BY <2>1, <2>6, <2>7, <2>8, <2>9 DEF CatalogInvariant
<1>22. ASSUME NEW c \in Counters, RecountFails(c) PROVE CatalogInvariant'
  BY <1>22, IdleCounts, CounterMoves DEF RecountFails
<1>23. CASE UNCHANGED catalogVars
  BY <1>23 DEF catalogVars, CatalogInvariant, CatalogTypeOK, StockIsCounted
<1> QED BY <1>1, <1>2, <1>3, <1>4, <1>5, <1>6, <1>7, <1>8, <1>9, <1>10, <1>11, <1>12, <1>13, <1>14,
        <1>15, <1>16, <1>17, <1>18, <1>19, <1>20, <1>21, <1>22, <1>23 DEF CatalogNext

LEMMA CatalogHolds == CatalogSpec => []CatalogInvariant
BY CatalogStarts, CatalogMoves, PTL DEF CatalogSpec

(* The product, its shelf and the requests about it only have the states   *)
(* the module names.                                                       *)
THEOREM CatalogTypeCorrect == CatalogSpec => []CatalogTypeOK
<1>1. CatalogInvariant => CatalogTypeOK  BY DEF CatalogInvariant
<1> QED BY <1>1, CatalogHolds, PTL

(* For any number of requests, recounts and units: the stock is what is    *)
(* available, unless the last word on it was an edit or a recount that the *)
(* shelf changed under, a recount of the other kind, or no recount.        *)
THEOREM StockCorrect == CatalogSpec => []StockIsCounted
<1>1. CatalogInvariant => StockIsCounted  BY DEF CatalogInvariant
<1> QED BY <1>1, CatalogHolds, PTL

(* For any number of requests: no edit puts a product on sale that had no  *)
(* unit of its kind at any moment of the edit.                             *)
THEOREM ActivationCorrect == CatalogSpec => ActivatedWithUnits
<1> DEFINE Activates(x) ==
      (/\ editor[x].pc = "write" /\ editor'[x].pc = "idle"
       /\ ~ good.active /\ good'.active) => editor[x].stocked
<1>1. CatalogInvariant /\ [CatalogNext]_catalogVars =>
        [\A x \in Editors : Activates(x)]_catalogVars
  <2> SUFFICES ASSUME CatalogInvariant, CatalogNext, NEW x \in Editors,
                      editor[x].pc = "write", editor'[x].pc = "idle",
                      ~ good.active, good'.active
               PROVE  editor[x].stocked
    BY DEF catalogVars
  <2>0. /\ good \in Good /\ editor \in [Editors -> Editor]
        /\ Edits(editor[x], good, shelf) /\ editor[x] \in Editor
    BY DEF CatalogInvariant, CatalogTypeOK
  <2>1. editor[x].active => editor[x].stocked
    BY <2>0 DEF Edits, AtItsStatement, KnowsOfStock
  <2>2. ASSUME NEW y \in Editors, WriteProduct(y) PROVE editor[x].stocked
    <3>1. y = x
      <4> SUFFICES ASSUME y # x PROVE FALSE  OBVIOUS
      <4>1. editor'[x] = [editor[x] EXCEPT !.overlapped = @ \/ good'.type # good.type]
        BY <2>2 DEF WriteProduct, StockStored
      <4> QED BY <2>0, <4>1 DEF Editor
    <3>2. good'.active = editor[x].active  BY <2>0, <2>2, <3>1 DEF WriteProduct, StockStored, Good
    <3> QED BY <2>1, <3>2
  <2>3. ASSUME good' = good PROVE FALSE  BY <2>3
  <2>4. ASSUME NEW y \in Editors, InsertProduct(y) PROVE FALSE
    <3>1. y # x  BY <2>4 DEF InsertProduct
    <3> QED BY <2>0, <2>4, <3>1 DEF InsertProduct, EditorEnds
  <2>5. ASSUME NEW y \in Editors, DeleteProduct(y) PROVE FALSE
    BY <2>5, EmptyShelfFacts DEF DeleteProduct
  <2>6. ASSUME NEW n \in Asked \ {MaxShelf + 1}, CreateDemo(n) PROVE FALSE
    BY <2>6 DEF CreateDemo
  <2>7. ASSUME NEW t \in Tables, NEW any \in BOOLEAN, NEW n \in 0 .. MaxShelf, ShelfChanges(t, any, n)
        PROVE  FALSE
    BY <2>7 DEF ShelfChanges
  <2>8. ASSUME NEW y \in Editors,
               \/ \E t \in Tables, a \in BOOLEAN, n \in Asked \ {MaxShelf + 1} : StartCreate(y, t, a, n)
               \/ \E t \in Tables, a \in BOOLEAN, n \in Asked : StartUpdate(y, t, t = good.type, a, n)
               \/ StartProductDelete(y) \/ StartClearDemo(y)
               \/ CheckKeys(y) \/ CheckAccounts(y) \/ (\E t \in Tables : CountUnits(y, t))
               \/ CountOrderItems(y) \/ ClearDemoKeys(y) \/ ClearDemoCarts(y) \/ EditorFails(y)
        PROVE  FALSE
    BY <2>8 DEF StartCreate, StartUpdate, StartProductDelete, StartClearDemo, CheckKeys, CheckAccounts,
       CountUnits, CountOrderItems, ClearDemoKeys, ClearDemoCarts, EditorFails, GoodsStay
  <2>9. ASSUME \/ (\E ref \in {"order", "cart"} : Referred(ref)) \/ CartEmptied
               \/ \E c \in Counters :
                    \/ \E t \in Tables, sets \in BOOLEAN : StartRecount(c, t, sets)
                    \/ CountAvailable(c) \/ StoreCount(c) \/ RecountFails(c)
        PROVE  FALSE
    BY <2>9 DEF Referred, CartEmptied, StartRecount, CountAvailable, StoreCount, RecountFails
  <2> QED BY <2>2, <2>4, <2>5, <2>6, <2>7, <2>8, <2>9 DEF CatalogNext
<1> QED BY <1>1, CatalogHolds, PTL DEF ActivatedWithUnits, CatalogSpec

-----------------------------------------------------------------------------
(* CsvImport.                                                              *)

(* A line that has looked its title up found no product of it, and there   *)
(* is none as long as none has appeared since.                             *)
LinesFoundNothing ==
  \A f \in Files, i \in 1 .. FileLength :
    file[f].line[i].pc \in {"count", "insert"} /\ ~ file[f].line[i].raced =>
      listed[file[f].line[i].title] = 0

CsvImportInvariant == CsvImportTypeOK /\ LinesFoundNothing

(* A line at another statement; a line after a product of title t came up. *)
LineAt(l, pc) == [l EXCEPT !.pc = pc]
LineSees(l, t) ==
  IF l.title = t /\ l.pc \in {"count", "insert"} THEN [l EXCEPT !.raced = TRUE] ELSE l

(* A step of one line leaves every other line, and what the import was     *)
(* asked for, as they are.                                                 *)
LEMMA LineStep ==
  ASSUME CsvImportTypeOK, NEW f \in Files, NEW i \in 1 .. FileLength,
         NEW pc \in {"wait", "count", "insert", "done"}, LineGoes(f, i, pc)
  PROVE  /\ CsvImportTypeOK'
         /\ listed' = listed
         /\ \A g \in Files, j \in 1 .. FileLength :
              file'[g].line[j] = IF g = f /\ j = i THEN LineAt(file[f].line[i], pc)
                                 ELSE file[g].line[j]
<1> DEFINE moved == LineAt(file[f].line[i], pc)
<1>1. file \in [Files -> File]  BY DEF CsvImportTypeOK
<1>2. file[f].line \in [1 .. FileLength -> Line]  BY <1>1 DEF File
<1>3. moved \in Line  BY <1>2 DEF Line, LineAt
<1>4. file' = [file EXCEPT ![f].line[i].pc = pc]  BY DEF LineGoes
<1>5. file' = [file EXCEPT ![f] = [file[f] EXCEPT !.line = [file[f].line EXCEPT ![i] = moved]]]
  BY <1>1, <1>2, <1>4 DEF LineAt
<1>6. [file[f].line EXCEPT ![i] = moved] \in [1 .. FileLength -> Line]  BY <1>2, <1>3
<1>7. file' \in [Files -> File]  BY <1>1, <1>5, <1>6 DEF File
<1>8. ASSUME NEW g \in Files, NEW j \in 1 .. FileLength
      PROVE  file'[g].line[j] = IF g = f /\ j = i THEN moved ELSE file[g].line[j]
  BY <1>1, <1>2, <1>5 DEF File
<1>9. CsvImportTypeOK' /\ listed' = listed
  BY <1>7 DEF CsvImportTypeOK, LineGoes, ListStays
<1> QED BY <1>8, <1>9

(* What a new product of a title does to the lines.                        *)
LEMMA RacedLines ==
  ASSUME CsvImportTypeOK, NEW t \in Titles
  PROVE  /\ Raced(t) \in [Files -> File]
         /\ \A f \in Files, i \in 1 .. FileLength :
              Raced(t)[f].line[i] = LineSees(file[f].line[i], t)
<1> DEFINE seen(f, i) == LineSees(file[f].line[i], t)
<1>1. file \in [Files -> File]  BY DEF CsvImportTypeOK
<1>2. ASSUME NEW f \in Files PROVE file[f] \in File /\ file[f].line \in [1 .. FileLength -> Line]
  BY <1>1 DEF File
<1>3. ASSUME NEW f \in Files, NEW i \in 1 .. FileLength PROVE seen(f, i) \in Line
  BY <1>2 DEF Line, LineSees
<1> DEFINE mark(f) == [file[f] EXCEPT !.line = [j \in 1 .. FileLength |-> seen(f, j)]]
<1>4. Raced(t) = [f \in Files |-> mark(f)]  BY DEF Raced, LineSees
<1>5. ASSUME NEW f \in Files PROVE mark(f) \in File
  <2>1. [j \in 1 .. FileLength |-> seen(f, j)] \in [1 .. FileLength -> Line]  BY <1>3
  <2> HIDE DEF seen
  <2> QED BY <1>2, <2>1 DEF File
<1>6. ASSUME NEW f \in Files, NEW i \in 1 .. FileLength PROVE mark(f).line[i] = seen(f, i)
  <2> HIDE DEF seen
  <2> QED BY <1>2 DEF File
<1>7. ASSUME NEW f \in Files PROVE Raced(t)[f] = mark(f)
  <2> HIDE DEF mark
  <2> QED BY <1>4
<1>8. Raced(t) \in [Files -> File]
  <2> HIDE DEF mark
  <2> QED BY <1>4, <1>5
<1> QED BY <1>6, <1>7, <1>8

LEMMA CsvImportStarts == CsvImportInit => CsvImportInvariant
<1> SUFFICES ASSUME CsvImportInit PROVE CsvImportInvariant  OBVIOUS
<1>1. NoLine \in Line  BY CsvImportAssumption DEF NoLine, Line
<1>2. IdleFile \in File  BY <1>1 DEF IdleFile, File
<1>3. CsvImportTypeOK  BY <1>2 DEF CsvImportInit, CsvImportTypeOK
<1>4. ASSUME NEW f \in Files, NEW i \in 1 .. FileLength PROVE file[f].line[i].pc = "done"
  BY DEF CsvImportInit, IdleFile, NoLine
<1>5. LinesFoundNothing  BY <1>4 DEF LinesFoundNothing
<1> QED BY <1>3, <1>5 DEF CsvImportInvariant

LEMMA CsvImportMoves ==
  ASSUME CsvImportInvariant, [CsvImportNext]_csvImportVars
  PROVE  CsvImportInvariant'
<1> USE DEF CsvImportInvariant
<1>0. file \in [Files -> File] /\ listed \in [Titles -> Nat]  BY DEF CsvImportTypeOK
<1>a. ASSUME NEW g \in Files, NEW j \in 1 .. FileLength
      PROVE  file[g].line[j] \in Line /\ file[g].line[j].title \in Titles
  BY <1>0 DEF File, Line
<1>b. ASSUME NEW f \in Files, NEW i \in 1 .. FileLength,
             NEW pc \in {"wait", "count", "insert", "done"}, LineGoes(f, i, pc),
             pc \in {"count", "insert"} /\ ~ file[f].line[i].raced =>
               listed[file[f].line[i].title] = 0
      PROVE  CsvImportInvariant'
  <2>1. CsvImportTypeOK'  BY <1>b, LineStep
  <2>2. listed' = listed  BY <1>b, LineStep
  <2>3. ASSUME NEW g \in Files, NEW j \in 1 .. FileLength
        PROVE  file'[g].line[j] = IF g = f /\ j = i THEN LineAt(file[f].line[i], pc)
                                  ELSE file[g].line[j]
    BY <1>b, LineStep
  <2>4. ASSUME NEW g \in Files, NEW j \in 1 .. FileLength,
               file'[g].line[j].pc \in {"count", "insert"}, ~ file'[g].line[j].raced
        PROVE  listed'[file'[g].line[j].title] = 0
    BY <1>b, <1>a, <2>2, <2>3, <2>4 DEF LinesFoundNothing, Line, LineAt
  <2> QED BY <2>1, <2>4 DEF LinesFoundNothing
<1>c. ASSUME NEW t \in Titles, listed' = [listed EXCEPT ![t] = @ + 1],
             sellable' = sellable, heading' = heading, file' \in [Files -> File],
             \A g \in Files, j \in 1 .. FileLength :
               \/ file'[g].line[j] = Raced(t)[g].line[j]
               \/ file'[g].line[j].pc = "done"
      PROVE  CsvImportInvariant'
  <2>1. listed' \in [Titles -> Nat]  BY <1>0, <1>c
  <2>2. CsvImportTypeOK'  BY <1>c, <2>1 DEF CsvImportTypeOK
  <2>3. ASSUME NEW g \in Files, NEW j \in 1 .. FileLength,
               file'[g].line[j].pc \in {"count", "insert"}, ~ file'[g].line[j].raced
        PROVE  listed'[file'[g].line[j].title] = 0
    <3>1. file'[g].line[j] = Raced(t)[g].line[j]  BY <1>c, <2>3
    <3>2. Raced(t)[g].line[j] = LineSees(file[g].line[j], t)  BY RacedLines
    <3>3. file'[g].line[j] = file[g].line[j] /\ file[g].line[j].title # t
      BY <1>a, <2>3, <3>1, <3>2 DEF Line, LineSees
    <3> QED BY <1>0, <1>a, <1>c, <2>3, <3>3 DEF LinesFoundNothing
  <2> QED BY <2>2, <2>3 DEF LinesFoundNothing
<1>1. ASSUME NEW f \in Files, NEW titles \in [1 .. FileLength -> Titles],
             NEW headed \in BOOLEAN, NEW active \in BOOLEAN,
             StartImportFile(f, titles, headed, active)
      PROVE  CsvImportInvariant'
  <2> DEFINE fresh == [running |-> TRUE, headed |-> headed, active |-> active,
                line |-> [i \in 1 .. FileLength |-> [pc |-> "wait", title |-> titles[i], raced |-> FALSE]]]
  <2>1. fresh \in File  BY DEF File, Line
  <2>2. \A i \in 1 .. FileLength : fresh.line[i].pc = "wait"  OBVIOUS
  <2>3. file' = [file EXCEPT ![f] = fresh]  BY <1>1 DEF StartImportFile
  <2>4. UNCHANGED <<listed, sellable, heading>>  BY <1>1 DEF StartImportFile, ListStays
  <2> HIDE DEF fresh
  <2>5. CsvImportTypeOK'  BY <1>0, <2>1, <2>3, <2>4 DEF CsvImportTypeOK
  <2>6. LinesFoundNothing'  BY <1>0, <2>2, <2>3, <2>4 DEF LinesFoundNothing
  <2> QED BY <2>5, <2>6
<1>2. ASSUME NEW f \in Files, NEW i \in 1 .. FileLength, LookUp(f, i) PROVE CsvImportInvariant'
  <2>1. CASE listed[file[f].line[i].title] > 0
    BY <1>2, <1>b, <2>1 DEF LookUp
  <2>2. CASE ~ (listed[file[f].line[i].title] > 0)
    <3>1. listed[file[f].line[i].title] = 0  BY <1>0, <1>a, <2>2
    <3> QED BY <1>2, <1>b, <2>2, <3>1 DEF LookUp
  <2> QED BY <2>1, <2>2
<1>3. ASSUME NEW f \in Files, NEW i \in 1 .. FileLength, CountInventory(f, i)
      PROVE  CsvImportInvariant'
  <2>1. ~ file[f].line[i].raced => listed[file[f].line[i].title] = 0
    BY <1>3 DEF CountInventory, LinesFoundNothing
  <2>2. PICK pc \in {"insert", "done"} : LineGoes(f, i, pc)  BY <1>3 DEF CountInventory
  <2> QED BY <1>b, <2>1, <2>2
<1>4. ASSUME NEW f \in Files, NEW i \in 1 .. FileLength, InsertLine(f, i)
      PROVE  CsvImportInvariant'
  <2> DEFINE t == file[f].line[i].title
             r == Raced(t)
             last == [r[f].line[i] EXCEPT !.pc = "done", !.raced = FALSE]
  <2>1. t \in Titles  BY <1>a
  <2> HIDE DEF t
  <2>2. r \in [Files -> File]  BY <2>1, RacedLines
  <2>3. file' = [r EXCEPT ![f].line[i] = [@ EXCEPT !.pc = "done", !.raced = FALSE]]
    BY <1>4 DEF InsertLine, t
  <2> HIDE DEF r
  <2>4. r[f].line \in [1 .. FileLength -> Line]  BY <2>2 DEF File
  <2>5. last \in Line /\ last.pc = "done"  BY <2>4 DEF Line
  <2>6. file' = [r EXCEPT ![f] = [r[f] EXCEPT !.line = [r[f].line EXCEPT ![i] = last]]]
    BY <2>2, <2>3, <2>4
  <2> HIDE DEF last
  <2>7. [r[f].line EXCEPT ![i] = last] \in [1 .. FileLength -> Line]  BY <2>4, <2>5
  <2>8. file' \in [Files -> File]  BY <2>2, <2>6, <2>7 DEF File
  <2>9. \A g \in Files, j \in 1 .. FileLength :
           file'[g].line[j] = r[g].line[j] \/ file'[g].line[j].pc = "done"
    BY <2>2, <2>4, <2>5, <2>6 DEF File
  <2>10. listed' = [listed EXCEPT ![t] = @ + 1] /\ sellable' = sellable /\ heading' = heading
    BY <1>4 DEF InsertLine, t
  <2> QED BY <1>c, <2>1, <2>8, <2>9, <2>10 DEF r
<1>5. ASSUME NEW f \in Files, NEW i \in 1 .. FileLength, LineFails(f, i)
      PROVE  CsvImportInvariant'
  BY <1>5, <1>b DEF LineFails
<1>6. ASSUME NEW f \in Files, EndImportFile(f) PROVE CsvImportInvariant'
  <2>1. IdleFile \in File  BY CsvImportAssumption DEF IdleFile, File, NoLine, Line
  <2>2. \A i \in 1 .. FileLength : IdleFile.line[i].pc = "done"  BY DEF IdleFile, NoLine
  <2>3. file' = [file EXCEPT ![f] = IdleFile] /\ UNCHANGED <<listed, sellable, heading>>
    BY <1>6 DEF EndImportFile, ListStays
  <2>4. CsvImportTypeOK'  BY <1>0, <2>1, <2>3 DEF CsvImportTypeOK
  <2>5. LinesFoundNothing'  BY <1>0, <2>2, <2>3 DEF LinesFoundNothing
  <2> QED BY <2>4, <2>5
<1>7. ASSUME NEW t \in Titles, CreateByHand(t) PROVE CsvImportInvariant'
  <2>1. file' \in [Files -> File]  BY <1>7, RacedLines DEF CreateByHand
  <2> QED BY <1>7, <1>c, <2>1 DEF CreateByHand
<1>8. ASSUME NEW t \in Titles, DeleteListed(t) PROVE CsvImportInvariant'
  <2>1. listed' \in [Titles -> Nat] /\ \A u \in Titles : listed[u] = 0 => listed'[u] = 0
    BY <1>0, <1>8 DEF DeleteListed
  <2>2. UNCHANGED <<sellable, heading, file>>  BY <1>8 DEF DeleteListed
  <2>3. CsvImportTypeOK'  BY <2>1, <2>2 DEF CsvImportTypeOK
  <2>4. LinesFoundNothing'  BY <1>a, <2>1, <2>2 DEF LinesFoundNothing
  <2> QED BY <2>3, <2>4
<1>9. ASSUME NEW s \in BOOLEAN, NEW c \in BOOLEAN, ShopChanges(s, c) PROVE CsvImportInvariant'
  BY <1>9 DEF ShopChanges, CsvImportTypeOK, LinesFoundNothing
<1>10. CASE UNCHANGED csvImportVars
  BY <1>10 DEF csvImportVars, CsvImportTypeOK, LinesFoundNothing
<1> QED BY <1>1, <1>2, <1>3, <1>4, <1>5, <1>6, <1>7, <1>8, <1>9, <1>10 DEF CsvImportNext

LEMMA CsvImportHolds == CsvImportSpec => []CsvImportInvariant
BY CsvImportStarts, CsvImportMoves, PTL DEF CsvImportSpec

(* The imports only have the states the module names, however many files   *)
(* are imported at a time and whatever their length and the batch size.    *)
THEOREM CsvImportTypeCorrect == CsvImportSpec => []CsvImportTypeOK
<1>1. CsvImportInvariant => CsvImportTypeOK  BY DEF CsvImportInvariant
<1> QED BY <1>1, CsvImportHolds, PTL

(* Whatever the batches, an import adds a second product of a name only    *)
(* when the first one appeared after the line had looked the name up.      *)
THEOREM RepeatsCorrect == CsvImportSpec => RepeatsOnlyRaced
<1>1. CsvImportInvariant =>
        [\A f \in Files, i \in 1 .. FileLength :
          (/\ file[f].line[i].pc = "insert" /\ file'[f].line[i].pc = "done"
           /\ listed[file[f].line[i].title] > 0 /\ listed' # listed) =>
          file[f].line[i].raced]_csvImportVars
  <2> SUFFICES ASSUME CsvImportInvariant, NEW f \in Files, NEW i \in 1 .. FileLength,
                      file[f].line[i].pc = "insert", listed[file[f].line[i].title] > 0,
                      ~ file[f].line[i].raced
               PROVE  FALSE
    OBVIOUS
  <2>1. listed[file[f].line[i].title] = 0  BY DEF CsvImportInvariant, LinesFoundNothing
  <2> QED BY <2>1
<1> QED BY <1>1, CsvImportHolds, PTL DEF RepeatsOnlyRaced

-----------------------------------------------------------------------------
(* Categories.                                                             *)

(* What a deletion that is not forced has counted, and nothing was added   *)
(* to since, there is none of.                                             *)
NothingLeft(q) ==
  /\ (\/ q.pc = "countChildren" /\ ~ q.found
      \/ q.pc = "delete" /\ ~ q.force) /\ "product" \notin q.added => Contents(q.id) = {}
  /\ q.pc = "delete" /\ ~ q.force /\ "category" \notin q.added => Children(q.id) = {}

DeletesWhatIsEmpty == \A k \in Curators : NothingLeft(curator[k])

(* A deletion in progress names a category.                                *)
CuratorsNameCategories == \A k \in Curators : curator[k].pc # "idle" => curator[k].id \in Shelves

CategoriesInvariant == CategoriesTypeOK /\ CuratorsNameCategories /\ DeletesWhatIsEmpty

LEMMA CategoriesStart == CategoriesInit => CategoriesInvariant
<1> USE CategoriesAssumption
<1> SUFFICES ASSUME CategoriesInit PROVE CategoriesInvariant  OBVIOUS
<1>1. CategoriesTypeOK  BY DEF CategoriesInit, CategoriesTypeOK, IdleCurator, Curator
<1>2. \A k \in Curators : curator[k].pc = "idle"  BY DEF CategoriesInit, IdleCurator
<1> QED BY <1>1, <1>2 DEF CategoriesInvariant, CuratorsNameCategories, DeletesWhatIsEmpty, NothingLeft

(* Something is put under a category, and whoever is deleting it knows.    *)
LEMMA FillsCurators ==
  ASSUME CategoriesTypeOK, NEW p, NEW kind \in {"product", "category"}
  PROVE  /\ Fills(p, kind) \in [Curators -> Curator]
         /\ \A k \in Curators :
              LET f == Fills(p, kind)[k]
              IN  /\ f.pc = curator[k].pc /\ f.id = curator[k].id /\ f.found = curator[k].found
                  /\ f.force = curator[k].force /\ curator[k].added \subseteq f.added
                  /\ f.pc # "idle" /\ f.id = p => kind \in f.added
<1>1. ASSUME NEW k \in Curators
      PROVE  LET f == Fills(p, kind)[k]
             IN  /\ f \in Curator
                 /\ f.pc = curator[k].pc /\ f.id = curator[k].id /\ f.found = curator[k].found
                 /\ f.force = curator[k].force /\ curator[k].added \subseteq f.added
                 /\ f.pc # "idle" /\ f.id = p => kind \in f.added
  <2>1. curator[k] \in Curator  BY DEF CategoriesTypeOK
  <2>2. CASE curator[k].pc # "idle" /\ curator[k].id = p
    <3>1. Fills(p, kind)[k] = [curator[k] EXCEPT !.added = @ \cup {kind}]  BY <2>2 DEF Fills
    <3> QED BY <2>1, <3>1 DEF Curator
  <2>3. CASE ~ (curator[k].pc # "idle" /\ curator[k].id = p)
    <3>1. Fills(p, kind)[k] = curator[k]  BY <2>3 DEF Fills
    <3> QED BY <2>1, <2>3, <3>1
  <2> QED BY <2>2, <2>3
<1>2. Fills(p, kind) = [k \in Curators |-> Fills(p, kind)[k]]  BY DEF Fills
<1> QED BY <1>1, <1>2

(* A step that puts something of a kind under p and takes it from anywhere.*)
LEMMA FillingKeeps ==
  ASSUME CategoriesInvariant, NEW p, NEW kind \in {"product", "category"},
         curator' = Fills(p, kind),
         parent' \in [Shelves -> Shelves \cup {Root, Gone}], demo' \in SUBSET Shelves,
         filed' \in [Articles -> Shelves \cup {Root}],
         \A c \in Shelves : c # p \/ kind # "product" => (Contents(c) = {} => Contents(c)' = {}),
         \A c \in Shelves : c # p \/ kind # "category" => (Children(c) = {} => Children(c)' = {})
  PROVE  CategoriesInvariant'
<1>1. CategoriesTypeOK  BY DEF CategoriesInvariant
<1>2. CategoriesTypeOK'  BY <1>1, FillsCurators DEF CategoriesTypeOK
<1>3. \A k \in Curators : /\ curator'[k].pc = curator[k].pc
                          /\ curator'[k].id = curator[k].id
                          /\ curator'[k].found = curator[k].found
                          /\ curator'[k].force = curator[k].force
                          /\ curator[k].added \subseteq curator'[k].added
                          /\ curator'[k].pc # "idle" /\ curator'[k].id = p => kind \in curator'[k].added
  BY <1>1, FillsCurators
<1>4. CuratorsNameCategories'  BY <1>3 DEF CategoriesInvariant, CuratorsNameCategories
<1>5. ASSUME NEW k \in Curators, curator'[k].pc # "idle", "product" \notin curator'[k].added,
             Contents(curator[k].id) = {}
      PROVE  Contents(curator[k].id)' = {}
  <2>1. curator[k].id \in Shelves
    BY <1>3, <1>5 DEF CategoriesInvariant, CuratorsNameCategories
  <2>2. curator'[k].id = p => kind # "product"  BY <1>3, <1>5
  <2>3. \A c \in Shelves : c = curator[k].id /\ Contents(c) = {} => Contents(c)' = {}
    BY <1>3, <2>2
  <2>4. curator'[k].id = curator[k].id  BY <1>3
  <2> QED BY <1>5, <2>1, <2>3, <2>4 DEF Contents
<1>6. ASSUME NEW k \in Curators, curator'[k].pc # "idle", "category" \notin curator'[k].added,
             Children(curator[k].id) = {}
      PROVE  Children(curator[k].id)' = {}
  <2>1. curator[k].id \in Shelves
    BY <1>3, <1>6 DEF CategoriesInvariant, CuratorsNameCategories
  <2>2. curator'[k].id = p => kind # "category"  BY <1>3, <1>6
  <2>3. \A c \in Shelves : c = curator[k].id /\ Children(c) = {} => Children(c)' = {}
    BY <1>3, <2>2
  <2>4. curator'[k].id = curator[k].id  BY <1>3
  <2> QED BY <1>6, <2>1, <2>3, <2>4 DEF Children
<1>7. DeletesWhatIsEmpty'
  <2> SUFFICES ASSUME NEW k \in Curators PROVE NothingLeft(curator[k])'
    BY DEF DeletesWhatIsEmpty
  <2>1. NothingLeft(curator[k])  BY DEF CategoriesInvariant, DeletesWhatIsEmpty
  <2>2. curator'[k].id = curator[k].id  BY <1>3
  <2> QED BY <1>3, <1>5, <1>6, <2>1, <2>2 DEF NothingLeft, Contents, Children
<1> QED BY <1>2, <1>4, <1>7 DEF CategoriesInvariant

(* Nothing is under a category that stays empty.                           *)
LEMMA DelistKeepsEmpty ==
  ASSUME CategoriesAssumption, CategoriesTypeOK, NEW cs \in SUBSET Shelves, Delist(cs)
  PROVE  /\ parent' \in [Shelves -> Shelves \cup {Root, Gone}] /\ demo' \in SUBSET Shelves
         /\ filed' \in [Articles -> Shelves \cup {Root}]
         /\ \A c \in Shelves : /\ Contents(c) = {} => Contents(c)' = {}
                               /\ Children(c) = {} => Children(c)' = {}
<1>1. parent' \in [Shelves -> Shelves \cup {Root, Gone}]  BY DEF Delist, CategoriesTypeOK
<1>2. filed' \in [Articles -> Shelves \cup {Root}]  BY DEF Delist, CategoriesTypeOK
<1>3. demo' \in SUBSET Shelves  BY DEF Delist, CategoriesTypeOK
<1>4. ASSUME NEW c \in Shelves, Children(c) = {} PROVE Children(c)' = {}
  BY <1>4 DEF Delist, Children, CategoriesAssumption
<1>5. ASSUME NEW c \in Shelves, Contents(c) = {} PROVE Contents(c)' = {}
  BY <1>5 DEF Delist, Contents, CategoriesAssumption
<1> QED BY <1>1, <1>2, <1>3, <1>4, <1>5

LEMMA CategoriesMove ==
  ASSUME CategoriesInvariant, [CategoriesNext]_categoriesVars
  PROVE  CategoriesInvariant'
<1> USE CategoriesAssumption
<1>0. CategoriesTypeOK  BY DEF CategoriesInvariant
<1>1. ASSUME NEW c \in Shelves, NEW p \in Shelves \cup {Root}, NEW d \in BOOLEAN,
             CreateCategory(c, p, d)
      PROVE  CategoriesInvariant'
  <2>1. parent' \in [Shelves -> Shelves \cup {Root, Gone}] /\ demo' \in SUBSET Shelves
        /\ filed' = filed /\ curator' = Fills(p, "category")
    BY <1>0, <1>1 DEF CreateCategory, CategoriesTypeOK
  <2>2. \A e \in Shelves : /\ Contents(e)' = Contents(e)
                           /\ e # p /\ Children(e) = {} => Children(e)' = {}
    BY <1>0, <1>1, <2>1 DEF CreateCategory, Contents, Children, CategoriesTypeOK
  <2> QED BY <2>1, <2>2, <1>0, FillingKeeps DEF CategoriesTypeOK
<1>2. ASSUME NEW c \in Shelves, NEW p \in Shelves \cup {Root}, UpdateCategory(c, p)
      PROVE  CategoriesInvariant'
  <2>1. parent' \in [Shelves -> Shelves \cup {Root, Gone}] /\ demo' = demo
        /\ filed' = filed /\ curator' = Fills(p, "category")
    BY <1>0, <1>2 DEF UpdateCategory, CategoriesTypeOK
  <2>2. \A e \in Shelves : /\ Contents(e)' = Contents(e)
                           /\ e # p /\ Children(e) = {} => Children(e)' = {}
    BY <1>0, <1>2, <2>1 DEF UpdateCategory, Contents, Children, CategoriesTypeOK
  <2> QED BY <2>1, <2>2, <1>0, FillingKeeps DEF CategoriesTypeOK
<1>3. ASSUME NEW a \in Articles, NEW c \in Shelves \cup {Root}, FileArticle(a, c)
      PROVE  CategoriesInvariant'
  <2>1. filed' \in [Articles -> Shelves \cup {Root}] /\ demo' = demo
        /\ parent' = parent /\ curator' = Fills(c, "product")
    BY <1>0, <1>3 DEF FileArticle, CategoriesTypeOK
  <2>2. \A e \in Shelves : /\ Children(e)' = Children(e)
                           /\ e # c /\ Contents(e) = {} => Contents(e)' = {}
    BY <1>0, <1>3, <2>1 DEF FileArticle, Contents, Children, CategoriesTypeOK
  <2> QED BY <2>1, <2>2, <1>0, FillingKeeps DEF CategoriesTypeOK
<1>4. ASSUME NEW k \in Curators, NEW q \in Curator, curator' = [curator EXCEPT ![k] = q],
             parent' \in [Shelves -> Shelves \cup {Root, Gone}], demo' \in SUBSET Shelves,
             filed' \in [Articles -> Shelves \cup {Root}],
             \A c \in Shelves : /\ Contents(c) = {} => Contents(c)' = {}
                                /\ Children(c) = {} => Children(c)' = {},
             q.pc # "idle" => q.id \in Shelves,
             NothingLeft(q)
      PROVE  CategoriesInvariant'
  <2>1. curator \in [Curators -> Curator]  BY <1>0 DEF CategoriesTypeOK
  <2>2. CategoriesTypeOK'  BY <1>4, <2>1 DEF CategoriesTypeOK
  <2>3. CuratorsNameCategories'  BY <1>4, <2>1 DEF CategoriesInvariant, CuratorsNameCategories
  <2>4. ASSUME NEW h \in Curators PROVE NothingLeft(curator'[h])
    BY <1>4, <2>1 DEF CategoriesInvariant, DeletesWhatIsEmpty
  <2>5. DeletesWhatIsEmpty'
    <3> SUFFICES ASSUME NEW h \in Curators PROVE NothingLeft(curator[h])'
      BY DEF DeletesWhatIsEmpty
    <3>1. curator'[h].pc # "idle" => curator'[h].id \in Shelves
      BY <2>3 DEF CuratorsNameCategories
    <3> QED BY <1>4, <2>4, <3>1 DEF NothingLeft, Contents, Children
  <2> QED BY <2>2, <2>3, <2>5 DEF CategoriesInvariant
<1>5. ASSUME UNCHANGED <<parent, demo, filed>>
      PROVE  /\ parent' \in [Shelves -> Shelves \cup {Root, Gone}] /\ demo' \in SUBSET Shelves
             /\ filed' \in [Articles -> Shelves \cup {Root}]
             /\ \A c \in Shelves : /\ Contents(c) = {} => Contents(c)' = {}
                                   /\ Children(c) = {} => Children(c)' = {}
  BY <1>0, <1>5 DEF CategoriesTypeOK, Contents, Children
<1>6. IdleCurator \in Curator /\ IdleCurator.pc = "idle" /\ NothingLeft(IdleCurator)
  BY DEF IdleCurator, Curator, NothingLeft
<1>7. ASSUME NEW k \in Curators, NEW c \in Shelves, NEW force \in BOOLEAN, StartDeletion(k, c, force)
      PROVE  CategoriesInvariant'
  <2> DEFINE q == [pc |-> IF force \/ IsEmpty(c) THEN "delete" ELSE "countProducts",
                   id |-> c, force |-> force, found |-> FALSE, added |-> {}]
  <2>1. q \in Curator  BY DEF Curator
  <2>2. q.id \in Shelves /\ NothingLeft(q)  BY DEF NothingLeft, IsEmpty
  <2>3. curator' = [curator EXCEPT ![k] = q]  BY <1>7 DEF StartDeletion
  <2>4. UNCHANGED <<parent, demo, filed>>  BY <1>7 DEF StartDeletion
  <2> HIDE DEF q
  <2> QED BY <1>4, <1>5, <2>1, <2>2, <2>3, <2>4
<1>8. ASSUME NEW k \in Curators, CountProducts(k) PROVE CategoriesInvariant'
  <2>0. curator[k] \in Curator /\ curator[k].id \in Shelves
    BY <1>0, <1>8 DEF CountProducts, CategoriesTypeOK, CategoriesInvariant, CuratorsNameCategories
  <2> DEFINE q == [curator[k] EXCEPT !.pc = "countChildren", !.found = Contents(curator[k].id) # {},
                                     !.added = @ \ {"product"}]
  <2>1. q \in Curator  BY <2>0 DEF Curator
  <2>2. q.id = curator[k].id /\ q.pc = "countChildren" /\ q.found = (Contents(curator[k].id) # {})
    BY <2>0 DEF Curator
  <2>3. curator' = [curator EXCEPT ![k] = q]  BY <1>0, <1>8 DEF CountProducts, CategoriesTypeOK
  <2>4. UNCHANGED <<parent, demo, filed>>  BY <1>8 DEF CountProducts
  <2> HIDE DEF q
  <2>5. NothingLeft(q)  BY <2>2 DEF NothingLeft
  <2> QED BY <1>4, <1>5, <2>0, <2>1, <2>2, <2>3, <2>4, <2>5
<1>13. ASSUME NEW k \in Curators, CountChildren(k) PROVE CategoriesInvariant'
  <2>0. curator[k] \in Curator /\ curator[k].id \in Shelves /\ curator[k].pc = "countChildren"
    BY <1>0, <1>13 DEF CountChildren, CategoriesTypeOK, CategoriesInvariant, CuratorsNameCategories
  <2> DEFINE e == [curator[k] EXCEPT !.pc = "delete", !.added = @ \ {"category"}]
             q == IF curator[k].found \/ Children(curator[k].id) # {} THEN IdleCurator ELSE e
  <2>1. /\ e \in Curator /\ e.id = curator[k].id /\ e.pc = "delete"
        /\ e.added = curator[k].added \ {"category"} /\ e.force = curator[k].force
    BY <2>0 DEF Curator
  <2>2. curator' = [curator EXCEPT ![k] = q]  BY <1>0, <1>13 DEF CountChildren, CategoriesTypeOK
  <2>3. UNCHANGED <<parent, demo, filed>>  BY <1>13 DEF CountChildren
  <2> HIDE DEF e
  <2>4. NothingLeft(curator[k])  BY DEF CategoriesInvariant, DeletesWhatIsEmpty
  <2>5. q \in Curator /\ (q.pc # "idle" => q.id \in Shelves)  BY <1>6, <2>0, <2>1
  <2>6. NothingLeft(q)  BY <1>6, <2>0, <2>1, <2>4 DEF NothingLeft
  <2> HIDE DEF q
  <2> QED BY <1>4, <1>5, <2>2, <2>3, <2>5, <2>6
<1>9. ASSUME NEW k \in Curators, DeleteCategory(k) PROVE CategoriesInvariant'
  <2>1. curator[k].id \in Shelves
    BY <1>9 DEF DeleteCategory, CategoriesInvariant, CuratorsNameCategories
  <2>2. Delist({curator[k].id}) /\ curator' = [curator EXCEPT ![k] = IdleCurator]
    BY <1>9 DEF DeleteCategory
  <2> QED BY <1>0, <1>4, <1>6, <2>1, <2>2, DelistKeepsEmpty
<1>10. ASSUME NEW k \in Curators, DeletionFails(k) PROVE CategoriesInvariant'
  BY <1>4, <1>5, <1>6, <1>10 DEF DeletionFails
<1>11. CASE ClearDemoCategories
  <2>1. demo \in SUBSET Shelves /\ Delist(demo) /\ curator' = curator
    BY <1>0, <1>11 DEF ClearDemoCategories, CategoriesTypeOK
  <2>2. CategoriesTypeOK' /\ \A c \in Shelves : /\ Contents(c) = {} => Contents(c)' = {}
                                                /\ Children(c) = {} => Children(c)' = {}
    BY <1>0, <2>1, DelistKeepsEmpty DEF CategoriesTypeOK
  <2>3. DeletesWhatIsEmpty'
    <3> SUFFICES ASSUME NEW h \in Curators PROVE NothingLeft(curator[h])'
      BY DEF DeletesWhatIsEmpty
    <3>1. NothingLeft(curator[h]) /\ (curator[h].pc # "idle" => curator[h].id \in Shelves)
      BY DEF CategoriesInvariant, CuratorsNameCategories, DeletesWhatIsEmpty
    <3> QED BY <2>1, <2>2, <3>1 DEF NothingLeft, Contents, Children
  <2> QED BY <2>1, <2>2, <2>3 DEF CategoriesInvariant, CuratorsNameCategories
<1>12. CASE UNCHANGED categoriesVars
  BY <1>12 DEF categoriesVars, CategoriesInvariant, CategoriesTypeOK, CuratorsNameCategories,
     DeletesWhatIsEmpty, NothingLeft, Contents, Children
<1> QED BY <1>1, <1>2, <1>3, <1>7, <1>8, <1>9, <1>10, <1>11, <1>12, <1>13 DEF CategoriesNext

LEMMA CategoriesHold == CategoriesSpec => []CategoriesInvariant
BY CategoriesStart, CategoriesMove, PTL DEF CategoriesSpec

(* The tree of categories and its deletions only have the states the       *)
(* module names: no product refers to a category that is gone.             *)
THEOREM CategoriesTypeCorrect == CategoriesSpec => []CategoriesTypeOK
<1>1. CategoriesInvariant => CategoriesTypeOK  BY DEF CategoriesInvariant
<1> QED BY <1>1, CategoriesHold, PTL

(* For any categories, products and number of deletions: one that is not   *)
(* forced orphans only what was put there after the last count of its kind.*)
THEOREM OrphansCorrect == CategoriesSpec => OrphansOnlyRaced
<1> DEFINE Orphans(k) ==
      LET c == curator[k].id
      IN  (/\ curator[k].pc = "delete" /\ curator'[k].pc = "idle" /\ ~ curator[k].force
           /\ parent'[c] = Gone) =>
          /\ "category" \in curator[k].added \/ \A d \in Shelves \ {c} : parent'[d] = parent[d]
          /\ "product" \in curator[k].added \/ filed' = filed
<1>1. CategoriesInvariant /\ [CategoriesNext]_categoriesVars =>
        [\A k \in Curators : Orphans(k)]_categoriesVars
  <2> SUFFICES ASSUME CategoriesInvariant, CategoriesNext, NEW k \in Curators,
                      curator[k].pc = "delete", curator'[k].pc = "idle",
                      ~ curator[k].force, parent'[curator[k].id] = Gone
               PROVE  /\ "category" \in curator[k].added \/
                           \A d \in Shelves \ {curator[k].id} : parent'[d] = parent[d]
                      /\ "product" \in curator[k].added \/ filed' = filed
    BY DEF categoriesVars
  <2>0. CategoriesTypeOK /\ NothingLeft(curator[k]) /\ curator[k].id \in Shelves
    BY DEF CategoriesInvariant, CuratorsNameCategories, DeletesWhatIsEmpty
  <2>1. \A p : Fills(p, "category")[k].pc = "delete" /\ Fills(p, "product")[k].pc = "delete"
    BY <2>0, FillsCurators
  <2>2. ASSUME NEW h \in Curators, DeleteCategory(h)
        PROVE  /\ "category" \in curator[k].added \/
                    \A d \in Shelves \ {curator[k].id} : parent'[d] = parent[d]
               /\ "product" \in curator[k].added \/ filed' = filed
    <3>1. h = k  BY <2>0, <2>2 DEF DeleteCategory, CategoriesTypeOK
    <3>2. Delist({curator[k].id})  BY <2>2, <3>1 DEF DeleteCategory
    <3>3. ASSUME "category" \notin curator[k].added
          PROVE  \A d \in Shelves \ {curator[k].id} : parent'[d] = parent[d]
      <4>1. \A c \in Shelves : parent[c] # curator[k].id  BY <2>0, <3>3 DEF NothingLeft, Children
      <4> QED BY <3>2, <4>1 DEF Delist
    <3>4. ASSUME "product" \notin curator[k].added PROVE filed' = filed
      <4>1. \A a \in Articles : filed[a] # curator[k].id  BY <2>0, <3>4 DEF NothingLeft, Contents
      <4>2. filed \in [Articles -> Shelves \cup {Root}]  BY <2>0 DEF CategoriesTypeOK
      <4>3. filed' = [a \in Articles |-> IF filed[a] \in {curator[k].id} THEN Root ELSE filed[a]]
        BY <3>2 DEF Delist
      <4> QED BY <4>1, <4>2, <4>3
    <3> QED BY <3>3, <3>4
  <2>3. ASSUME NEW h \in Curators, \/ \E c \in Shelves, force \in BOOLEAN : StartDeletion(h, c, force)
                                   \/ CountProducts(h) \/ CountChildren(h) \/ DeletionFails(h)
        PROVE  parent' = parent /\ filed' = filed
    BY <2>3 DEF StartDeletion, CountProducts, CountChildren, DeletionFails
  <2>4. ~ ClearDemoCategories
    BY DEF ClearDemoCategories
  <2>5. ASSUME NEW c \in Shelves, NEW p \in Shelves \cup {Root}, NEW d \in BOOLEAN,
               CreateCategory(c, p, d)
        PROVE  FALSE
    BY <2>1, <2>5 DEF CreateCategory
  <2>6. ASSUME NEW c \in Shelves, NEW p \in Shelves \cup {Root}, UpdateCategory(c, p) PROVE FALSE
    BY <2>1, <2>6 DEF UpdateCategory
  <2>7. ASSUME NEW a \in Articles, NEW c \in Shelves \cup {Root}, FileArticle(a, c) PROVE FALSE
    BY <2>1, <2>7 DEF FileArticle
  <2> QED BY <2>2, <2>3, <2>4, <2>5, <2>6, <2>7 DEF CategoriesNext
<1> QED BY <1>1, CategoriesHold, PTL DEF OrphansOnlyRaced, CategoriesSpec

-----------------------------------------------------------------------------
(* Listings.                                                               *)

(* Division rounds down.                                                   *)
LEMMA Quotient ==
  ASSUME NEW a \in Nat, NEW b \in Nat \ {0}
  PROVE  /\ a \div b \in Nat
         /\ b * (a \div b) <= a
         /\ a < b * (a \div b) + b
OBVIOUS

LEMMA TimesMonotonic ==
  ASSUME NEW m \in Nat, NEW n \in Nat, NEW k \in Nat, m <= n
  PROVE  m * k \in Nat /\ n * k \in Nat /\ m * k <= n * k
OBVIOUS

(* A page is before the last one just when its rows end before the total.  *)
LEMMA LastPage ==
  ASSUME NEW t \in Nat, NEW l \in Nat \ {0}, NEW p \in Nat
  PROVE  /\ p < (t + l - 1) \div l <=> p * l < t
         /\ p * l < t => p < t
<1>1. PICK a \in Nat : a = t + l - 1  OBVIOUS
<1>2. PICK q \in Nat : q = a \div l /\ l * q <= a /\ a < l * q + l  BY Quotient
<1>3. ASSUME p < q PROVE p * l < t
  <2>1. p + 1 \in Nat /\ p + 1 <= q  BY <1>3
  <2>2. (p + 1) * l <= q * l  BY <2>1, TimesMonotonic
  <2>3. (p + 1) * l = p * l + l /\ q * l = l * q  OBVIOUS
  <2> QED BY <1>1, <1>2, <2>2, <2>3
<1>4. ASSUME ~ (p < q) PROVE ~ (p * l < t)
  <2>1. q * l <= p * l  BY <1>4, TimesMonotonic
  <2>2. q * l = l * q  OBVIOUS
  <2> QED BY <1>1, <1>2, <2>1, <2>2
<1>5. ASSUME p * l < t PROVE p < t
  <2>1. p * 1 <= p * l
    <3>1. 1 * p <= l * p  BY TimesMonotonic
    <3> QED BY <3>1
  <2> QED BY <1>5, <2>1
<1> QED BY <1>1, <1>2, <1>3, <1>4, <1>5

-----------------------------------------------------------------------------
(* Rows and their positions.                                               *)

(* Where a row is in an order of the rows.                                 *)
PositionIn(p, i) == Cardinality({j \in RowsIn(p) : p[j] > p[i]}) + 1

LEMMA RowsAreFinite ==
  ASSUME NEW S \in SUBSET ListRows
  PROVE  IsFiniteSet(S) /\ Cardinality(S) \in Nat
BY ListingsAssumption, FS_Subset, FS_CardinalityType

LEMMA FewerRows ==
  ASSUME NEW S \in SUBSET ListRows, NEW T \in SUBSET S
  PROVE  Cardinality(T) \in Nat /\ Cardinality(S) \in Nat /\ Cardinality(T) <= Cardinality(S)
<1>1. IsFiniteSet(S) /\ T \in SUBSET ListRows  BY RowsAreFinite
<1> QED BY <1>1, RowsAreFinite, FS_Subset

LEMMA OneRowMore ==
  ASSUME NEW S \in SUBSET ListRows, NEW i \in ListRows, NEW T \in SUBSET (S \cup {i})
  PROVE  /\ Cardinality(S) \in Nat /\ Cardinality(T) \in Nat /\ Cardinality(T) <= Cardinality(S) + 1
         /\ i \in ListRows \ S => Cardinality(S \cup {i}) = Cardinality(S) + 1
<1>1. IsFiniteSet(S) /\ Cardinality(S) \in Nat  BY RowsAreFinite
<1>2. /\ i \in S => Cardinality(S \cup {i}) = Cardinality(S)
      /\ i \notin S => Cardinality(S \cup {i}) = Cardinality(S) + 1
  BY <1>1, FS_AddElement
<1>3. S \cup {i} \in SUBSET ListRows  OBVIOUS
<1>4. Cardinality(T) \in Nat /\ Cardinality(T) <= Cardinality(S \cup {i})  BY <1>3, FewerRows
<1> QED BY <1>1, <1>2, <1>4

LEMMA PositionIsNatural ==
  ASSUME NEW p, NEW i
  PROVE  PositionIn(p, i) \in Nat \ {0}
<1>1. {j \in RowsIn(p) : p[j] > p[i]} \in SUBSET ListRows  BY DEF RowsIn
<1> QED BY <1>1, RowsAreFinite DEF PositionIn

(* A row ahead has a lower position, and rows at one position are tied.    *)
LEMMA AheadIsLower ==
  ASSUME NEW p \in [ListRows -> Nat], NEW i \in RowsIn(p), NEW j \in ListRows, p[i] > p[j]
  PROVE  PositionIn(p, i) < PositionIn(p, j)
<1> DEFINE A == {x \in RowsIn(p) : p[x] > p[i]}
           B == {x \in RowsIn(p) : p[x] > p[j]}
<1>1. p[i] \in Nat /\ p[j] \in Nat /\ \A x \in RowsIn(p) : p[x] \in Nat  BY DEF RowsIn
<1>2. A \in SUBSET ListRows /\ i \in ListRows \ A /\ A \cup {i} \subseteq B  BY <1>1 DEF RowsIn
<1>3. B \in SUBSET ListRows  BY DEF RowsIn
<1> HIDE DEF A, B
<1>4. Cardinality(A \cup {i}) = Cardinality(A) + 1 /\ Cardinality(A) \in Nat  BY <1>2, OneRowMore
<1>5. Cardinality(A \cup {i}) <= Cardinality(B) /\ Cardinality(B) \in Nat  BY <1>2, <1>3, FewerRows
<1> QED BY <1>4, <1>5 DEF A, B, PositionIn

LEMMA PositionsDiffer ==
  ASSUME NEW p \in [ListRows -> Nat], NEW i \in RowsIn(p) \ TiedIn(p), NEW j \in RowsIn(p),
         PositionIn(p, i) = PositionIn(p, j)
  PROVE  i = j
<1> SUFFICES ASSUME i # j PROVE FALSE  OBVIOUS
<1>1. p[i] # p[j]  BY DEF TiedIn
<1>2. i \in ListRows /\ j \in ListRows /\ p[i] \in Nat /\ p[j] \in Nat  BY DEF RowsIn
<1>3. p[i] > p[j] \/ p[j] > p[i]  BY <1>1, <1>2
<1>4. PositionIn(p, i) \in Nat /\ PositionIn(p, j) \in Nat  BY PositionIsNatural
<1> QED BY <1>2, <1>3, <1>4, AheadIsLower

(* A row is ahead of the end of the list.                                  *)
LEMMA PositionInList ==
  ASSUME NEW p \in [ListRows -> Nat], NEW i \in RowsIn(p)
  PROVE  PositionIn(p, i) <= Cardinality(RowsIn(p))
<1> DEFINE A == {x \in RowsIn(p) : p[x] > p[i]}
<1>1. p[i] \in Nat  BY DEF RowsIn
<1>2. A \in SUBSET ListRows /\ i \in ListRows \ A /\ A \cup {i} \subseteq RowsIn(p)
  BY <1>1 DEF RowsIn
<1>3. RowsIn(p) \in SUBSET ListRows  BY DEF RowsIn
<1> HIDE DEF A
<1>4. Cardinality(A \cup {i}) = Cardinality(A) + 1 /\ Cardinality(A) \in Nat  BY <1>2, OneRowMore
<1>5. Cardinality(A \cup {i}) <= Cardinality(RowsIn(p))  BY <1>2, <1>3, FewerRows
<1> QED BY <1>4, <1>5 DEF A, PositionIn

(* When one row changes its place, another one's position falls by one at  *)
(* most, and by none when the row was not in the list.                     *)
LEMMA PositionsFallByOne ==
  ASSUME NEW p \in [ListRows -> Nat], NEW i \in ListRows, NEW k \in Nat,
         NEW r \in ListRows \ {i}
  PROVE  LET q == [p EXCEPT ![i] = k]
         IN  /\ PositionIn(q, r) + 1 >= PositionIn(p, r)
             /\ p[i] = 0 => PositionIn(q, r) >= PositionIn(p, r)
<1> DEFINE q == [p EXCEPT ![i] = k]
           A == {x \in RowsIn(p) : p[x] > p[r]}
           B == {x \in RowsIn(q) : q[x] > q[r]}
<1>1. q[r] = p[r] /\ p[r] \in Nat /\ \A x \in ListRows \ {i} : q[x] = p[x]  OBVIOUS
<1>2. A \subseteq B \cup {i} /\ (p[i] = 0 => A \subseteq B)
  <2>1. ASSUME NEW x \in A, x # i PROVE x \in B  BY <1>1, <2>1 DEF RowsIn
  <2>2. p[i] = 0 => i \notin A  BY <1>1 DEF RowsIn
  <2> QED BY <2>1, <2>2
<1>3. B \in SUBSET ListRows  BY DEF RowsIn
<1>4. PositionIn(q, r) = Cardinality(B) + 1 /\ PositionIn(p, r) = Cardinality(A) + 1
  BY DEF PositionIn
<1> HIDE DEF A, B, q
<1>5. Cardinality(A) \in Nat /\ Cardinality(B) \in Nat /\ Cardinality(A) <= Cardinality(B) + 1
  BY <1>2, <1>3, OneRowMore
<1>6. p[i] = 0 => Cardinality(A) <= Cardinality(B)  BY <1>2, <1>3, FewerRows
<1>7. PositionIn(q, r) + 1 >= PositionIn(p, r) /\ (p[i] = 0 => PositionIn(q, r) >= PositionIn(p, r))
  BY <1>4, <1>5, <1>6
<1> QED BY <1>7 DEF q

(* Rows that do not tie and are all behind position b are no more than the *)
(* rows there are without the first b.                                     *)
LEMMA FewBehind ==
  ASSUME NEW p \in [ListRows -> Nat], NEW b \in Nat, NEW S \in SUBSET (RowsIn(p) \ TiedIn(p)),
         \A i \in S : PositionIn(p, i) > b, S # {}
  PROVE  Cardinality(S) + b <= Cardinality(RowsIn(p))
<1>1. RowsIn(p) \in SUBSET ListRows  BY DEF RowsIn
<1>2. PICK i \in S : \A j \in S : PositionIn(p, i) <= PositionIn(p, j)
  <2> DEFINE At == {PositionIn(p, j) : j \in S}
  <2>1. At \subseteq Nat /\ At # {}  BY PositionIsNatural
  <2>2. PICK n \in At : \A m \in At : <<m, n>> \notin OpToRel(<, Nat)
    BY <2>1, NatLessThanWellFounded, WFMin
  <2>3. PICK i \in S : n = PositionIn(p, i)  OBVIOUS
  <2>4. ASSUME NEW j \in S PROVE PositionIn(p, i) <= PositionIn(p, j)
    <3>1. PositionIn(p, i) \in Nat /\ PositionIn(p, j) \in Nat  BY PositionIsNatural
    <3>2. <<PositionIn(p, j), PositionIn(p, i)>> \notin OpToRel(<, Nat)  BY <2>2, <2>3
    <3>3. ~ (PositionIn(p, j) < PositionIn(p, i))  BY <3>1, <3>2 DEF OpToRel
    <3> QED BY <3>1, <3>3
  <2> QED BY <2>4
<1> DEFINE A == {x \in RowsIn(p) : p[x] > p[i]}
<1>3. S \cap A = {}
  <2> SUFFICES ASSUME NEW x \in S, p[x] > p[i] PROVE FALSE  OBVIOUS
  <2>1. x \in RowsIn(p) /\ i \in ListRows  BY <1>1
  <2>2. PositionIn(p, x) < PositionIn(p, i)  BY <2>1, AheadIsLower
  <2>3. PositionIn(p, x) \in Nat /\ PositionIn(p, i) \in Nat  BY PositionIsNatural
  <2> QED BY <1>2, <2>2, <2>3
<1>4. S \in SUBSET ListRows /\ A \in SUBSET ListRows /\ S \cup A \subseteq RowsIn(p)  BY <1>1
<1>5. PositionIn(p, i) = Cardinality(A) + 1  BY DEF PositionIn
<1> HIDE DEF A
<1>6. /\ IsFiniteSet(S) /\ IsFiniteSet(A) /\ Cardinality(S) \in Nat /\ Cardinality(A) \in Nat
  BY <1>4, RowsAreFinite
<1>7. Cardinality(S \cup A) = Cardinality(S) + Cardinality(A)
  BY <1>3, <1>6, FS_Union, FS_EmptySet
<1>8. Cardinality(S \cup A) <= Cardinality(RowsIn(p)) /\ Cardinality(RowsIn(p)) \in Nat
  BY <1>1, <1>4, FewerRows
<1>9. Cardinality(A) + 1 > b  BY <1>5
<1> QED BY <1>6, <1>7, <1>8, <1>9

-----------------------------------------------------------------------------
(* The reader.                                                             *)

(* The rows of so many pages have been read, and this is how many rows     *)
(* they cover.                                                             *)
PagesRead == IF "rows" \in reader.todo THEN reader.page - 1 ELSE reader.page
Boundary == PagesRead * Limit("pages")

(* The rows that have fallen back among the pages that were read.          *)
Slipped == {i \in Missed : PositionIn(place, i) <= Boundary}

(* A row that ties is not counted on.  At most so many rows slip as have   *)
(* left or moved; the count is of the rows there are but for those that    *)
(* came late; on the last page there are few rows behind the boundary.     *)
TiedAreShaky == TiedIn(place) \subseteq reader.shaky
SlippedAreFew == LimitAgrees => Cardinality(Slipped) <= reader.moved
CountIsAlmost == reader.todo = {"rows"} => Cardinality(Present) <= reader.total + reader.late
OnTheLastPage ==
  LimitAgrees /\ reader.todo = {} /\ reader.total <= reader.page * Limit("pages") =>
    Cardinality(Missed) <= reader.moved + reader.late
OverAtTheEnd ==
  reader.over => reader.todo = {} /\ reader.total <= reader.page * Limit("pages")

ListingsInvariant ==
  /\ ListingsTypeOK
  /\ TiedAreShaky /\ SlippedAreFew /\ CountIsAlmost /\ OnTheLastPage /\ OverAtTheEnd

LEMMA LimitIsNatural ==
  ASSUME ListingsTypeOK, NEW part
  PROVE  Limit(part) \in Nat \ {0}
<1>1. reader.limit \in Nat \ {0}  BY ListingsAssumption DEF ListingsTypeOK, Reader
<1> QED BY <1>1, ListingsAssumption DEF Limit, AtMost

LEMMA AgreedLimits ==
  ASSUME ListingsTypeOK, LimitAgrees
  PROVE  /\ Limit("take") = Limit("pages") /\ Limit("skip") = Limit("pages")
         /\ PageAsked = reader.page
<1>1. reader.limit \in Nat \ {0} /\ reader.page \in Nat \ {0}
  BY ListingsAssumption DEF ListingsTypeOK, Reader
<1>2. PageAsked = reader.page
  BY <1>1, ListingsAssumption DEF PageAsked, AtMost, LimitAgrees
<1>3. CASE reader.limit <= MAX_PAGE_SIZE
  BY <1>1, <1>2, <1>3, ListingsAssumption DEF Limit, AtMost
<1>4. CASE {"take", "skip", "pages"} \cap reader.listing.capped \in {{}, {"take", "skip", "pages"}}
  <2>1. /\ "take" \in reader.listing.capped <=> "pages" \in reader.listing.capped
        /\ "skip" \in reader.listing.capped <=> "pages" \in reader.listing.capped
    BY <1>4
  <2> QED BY <1>2, <2>1 DEF Limit
<1> QED BY <1>3, <1>4 DEF LimitAgrees

LEMMA RowSets ==
  /\ Present \in SUBSET ListRows /\ Missed \in SUBSET ListRows /\ Slipped \in SUBSET Missed
  /\ Cardinality(Present) \in Nat /\ Cardinality(Missed) \in Nat /\ Cardinality(Slipped) \in Nat
<1>1. Present \in SUBSET ListRows /\ Missed \in SUBSET ListRows /\ Slipped \in SUBSET Missed
  BY DEF Present, RowsIn, Missed, Slipped
<1>2. Slipped \in SUBSET ListRows  BY <1>1
<1> QED BY <1>1, <1>2, RowsAreFinite

(* What the reader is made of.                                             *)
LEMMA ReaderParts ==
  ASSUME ListingsTypeOK
  PROVE  /\ place \in [ListRows -> Nat] /\ reader.page \in Nat \ {0} /\ reader.moved \in Nat
         /\ reader.late \in Nat /\ reader.total \in Nat /\ PagesRead \in Nat /\ Boundary \in Nat
<1>1. /\ reader.page \in Nat \ {0} /\ reader.moved \in Nat /\ reader.late \in Nat
      /\ reader.total \in Nat /\ place \in [ListRows -> Nat]
  BY ListingsAssumption DEF ListingsTypeOK, Reader
<1>2. PagesRead \in Nat  BY <1>1 DEF PagesRead
<1>3. PICK m \in Nat, l \in Nat : m = PagesRead /\ l = Limit("pages")  BY <1>2, LimitIsNatural
<1>4. m * l \in Nat  OBVIOUS
<1> QED BY <1>1, <1>2, <1>3, <1>4 DEF Boundary

LEMMA ListingsStart == ListingsInit => ListingsInvariant
<1> SUFFICES ASSUME ListingsInit PROVE ListingsInvariant  OBVIOUS
<1>1. PICK listing \in Listings, limit \in PageLimits :
        reader = [listing |-> listing, limit |-> limit, page |-> 1, todo |-> {"rows", "count"},
                  first |-> Present, got |-> {}, shaky |-> TiedIn(place), moved |-> 0, late |-> 0,
                  total |-> 0, over |-> FALSE]
  BY DEF ListingsInit, FirstPage
<1>2. /\ reader.page = 1 /\ reader.todo = {"rows", "count"} /\ reader.shaky = TiedIn(place)
      /\ ~ reader.over /\ reader.moved = 0
  BY <1>1
<1>3. ListingsTypeOK
  BY <1>1, ListingsAssumption
     DEF ListingsInit, FirstPage, ListingsTypeOK, Reader, Present, RowsIn, TiedIn
<1>4. TiedAreShaky  BY <1>2 DEF TiedAreShaky
<1>5. SlippedAreFew
  <2>1. PagesRead = 0  BY <1>2 DEF PagesRead
  <2>2. Boundary = 0  BY <1>3, <2>1, LimitIsNatural DEF Boundary
  <2>3. Slipped = {}  BY <2>2, PositionIsNatural DEF Slipped
  <2> QED BY <1>2, <2>3, FS_EmptySet DEF SlippedAreFew
<1>6. CountIsAlmost  BY <1>2 DEF CountIsAlmost
<1>7. OnTheLastPage  BY <1>2 DEF OnTheLastPage
<1>8. OverAtTheEnd  BY <1>2 DEF OverAtTheEnd
<1> QED BY <1>3, <1>4, <1>5, <1>6, <1>7, <1>8 DEF ListingsInvariant

(* A row that does not tie is shown when the page covers its position.     *)
LEMMA OneOnThePage ==
  ASSUME ListingsTypeOK, NEW i \in Present \ TiedIn(place), NEW shown \in SUBSET Present,
         Cardinality({j \in shown : place[j] = place[i]}) = Cardinality(OnThePage(i)),
         PositionIn(place, i) \in Skip + 1 .. Skip + Limit("take"), Skip \in Nat
  PROVE  i \in shown
<1> DEFINE n == PositionIn(place, i)
           A == {j \in Present : place[j] > place[i]}
           B == {j \in Present : place[j] >= place[i]}
<1>1. place \in [ListRows -> Nat]  BY ReaderParts
<1>2. place[i] \in Nat /\ \A j \in Present : place[j] \in Nat  BY <1>1 DEF Present, RowsIn
<1>3. A \in SUBSET ListRows /\ i \in ListRows \ A  BY <1>2 DEF Present, RowsIn
<1>4. B = A \cup {i}
  <2>1. ASSUME NEW j \in B, j # i PROVE j \in A
    <3>1. place[j] # place[i]  BY <2>1 DEF TiedIn, Present
    <3> QED BY <1>2, <3>1
  <2> QED BY <1>2, <2>1
<1>5. Position(i) = n /\ n = Cardinality(A) + 1  BY DEF Position, PositionIn, Present
<1>6. LastPosition(i) = Cardinality(B)  BY DEF LastPosition
<1> HIDE DEF A, B, n
<1>7. Cardinality(B) = Cardinality(A) + 1 /\ Cardinality(A) \in Nat  BY <1>3, <1>4, OneRowMore
<1>8. LastPosition(i) = n /\ n \in Nat  BY <1>5, <1>6, <1>7
<1>9. OnThePage(i) = {n}
  <2>1. n \in Skip + 1 .. Skip + Limit("take")  BY DEF n
  <2>2. Position(i) .. LastPosition(i) = {n}  BY <1>5, <1>8
  <2> QED BY <2>1, <2>2 DEF OnThePage
<1>10. Cardinality({j \in shown : place[j] = place[i]}) = 1  BY <1>9, FS_Singleton
<1>11. {j \in shown : place[j] = place[i]} # {}  BY <1>10, FS_EmptySet
<1>12. PICK j \in shown : place[j] = place[i]  BY <1>11
<1>13. j = i  BY <1>12 DEF TiedIn, Present
<1> QED BY <1>12, <1>13

(* A row that comes, leaves or moves lets at most one other row slip.      *)
LEMMA RowChanges ==
  ASSUME ListingsInvariant, NEW i \in ListRows, NEW k \in 0 .. MaxPlace,
         place' = [place EXCEPT ![i] = k], reader' \in Reader,
         reader'.listing = reader.listing, reader'.limit = reader.limit,
         reader'.page = reader.page, reader'.todo = reader.todo, reader'.first = reader.first,
         reader'.got = reader.got, reader'.total = reader.total, reader'.over = reader.over,
         reader'.shaky = Shaken(i),
         reader'.moved = IF place[i] = 0 THEN reader.moved ELSE reader.moved + 1,
         reader'.late = IF place[i] = 0 /\ reader.todo = {"rows"} THEN reader.late + 1
                        ELSE reader.late
  PROVE  ListingsInvariant'
<1>0. /\ ListingsTypeOK /\ TiedAreShaky /\ SlippedAreFew /\ CountIsAlmost /\ OnTheLastPage
      /\ OverAtTheEnd
  BY DEF ListingsInvariant
<1>1. /\ place \in [ListRows -> Nat] /\ reader.moved \in Nat /\ reader.late \in Nat
      /\ reader.total \in Nat /\ Boundary \in Nat
  BY <1>0, ReaderParts
<1>2. /\ LimitAgrees' <=> LimitAgrees
      /\ Limit("pages")' = Limit("pages") /\ Boundary' = Boundary
  BY DEF LimitAgrees, Limit, Boundary, PagesRead
<1>3. k \in Nat /\ place' \in [ListRows -> 0 .. MaxPlace]
  BY <1>0, ListingsAssumption DEF ListingsTypeOK
<1>4. ListingsTypeOK'  BY <1>3 DEF ListingsTypeOK
<1>5. TiedAreShaky'  BY DEF TiedAreShaky, Shaken
<1>6. Missed' \subseteq Missed \ {i}
  <2> SUFFICES ASSUME NEW r \in Missed' PROVE r \in Missed \ {i}  OBVIOUS
  <2>1. /\ r \in reader.first /\ r \in ListRows /\ place'[r] > 0 /\ r \notin reader.got
        /\ r \notin Shaken(i)
    BY DEF Missed, Present, RowsIn
  <2>2. r # i /\ r \notin reader.shaky  BY <2>1 DEF Shaken
  <2>3. place'[r] = place[r]  BY <1>1, <2>1, <2>2
  <2> QED BY <2>1, <2>2, <2>3 DEF Missed, Present, RowsIn
<1>7. /\ Slipped' \in SUBSET ListRows /\ Missed \in SUBSET ListRows /\ Slipped \in SUBSET ListRows
      /\ Missed' = {r \in reader.first \cap RowsIn(place') : r \notin reader.got \cup Shaken(i)}
      /\ Slipped' = {r \in Missed' : PositionIn(place', r) <= Boundary}
  <2>1. Slipped' = {r \in Missed' : PositionIn(place', r) <= Boundary}  BY <1>2 DEF Slipped
  <2> QED BY <1>6, <2>1, RowSets DEF Missed, Present
<1>8. ASSUME NEW r \in Slipped'
      PROVE  /\ r \in Missed /\ r \in ListRows \ {i}
             /\ PositionIn(place, r) \in Nat
             /\ PositionIn(place, r) <= Boundary + 1
             /\ place[i] = 0 => PositionIn(place, r) <= Boundary
  <2>1. r \in Missed /\ r \in ListRows \ {i} /\ PositionIn(place', r) <= Boundary
    BY <1>6, <1>7
  <2>2. PositionIn(place, r) \in Nat /\ PositionIn(place', r) \in Nat  BY PositionIsNatural
  <2>3. /\ PositionIn(place', r) + 1 >= PositionIn(place, r)
        /\ place[i] = 0 => PositionIn(place', r) >= PositionIn(place, r)
    BY <1>1, <1>3, <2>1, PositionsFallByOne
  <2> QED BY <1>1, <2>1, <2>2, <2>3
<1>9. SlippedAreFew'
  <2> SUFFICES ASSUME LimitAgrees PROVE Cardinality(Slipped') <= reader'.moved
    BY <1>2 DEF SlippedAreFew
  <2>1. Cardinality(Slipped) <= reader.moved /\ Cardinality(Slipped) \in Nat
    BY <1>0, RowSets DEF SlippedAreFew
  <2>2. CASE Slipped' \subseteq Slipped
    <3>1. Cardinality(Slipped') <= Cardinality(Slipped) /\ Cardinality(Slipped') \in Nat
      BY <1>7, <2>2, FewerRows
    <3> QED BY <1>1, <2>1, <3>1
  <2>3. CASE ~ (Slipped' \subseteq Slipped)
    <3>1. PICK r \in Slipped' : r \notin Slipped  BY <2>3
    <3>2. ASSUME NEW x \in Slipped', x \notin Slipped
          PROVE  /\ place[i] # 0 /\ PositionIn(place, x) = Boundary + 1
                 /\ x \in RowsIn(place) \ TiedIn(place)
      <4>1. x \in Missed /\ PositionIn(place, x) \in Nat /\ ~ (PositionIn(place, x) <= Boundary)
        BY <1>8, <3>2 DEF Slipped
      <4>2. x \in RowsIn(place) \ TiedIn(place)
        BY <1>0, <4>1 DEF Missed, Present, TiedAreShaky
      <4> QED BY <1>1, <1>8, <4>1, <4>2
    <3>3. ASSUME NEW x \in Slipped', x \notin Slipped PROVE x = r
      BY <1>1, <3>1, <3>2, <3>3, PositionsDiffer
    <3>4. Slipped' \subseteq Slipped \cup {r} /\ r \in ListRows  BY <1>7, <3>1, <3>3
    <3>5. Cardinality(Slipped') <= Cardinality(Slipped) + 1 /\ Cardinality(Slipped') \in Nat
      BY <1>7, <3>4, OneRowMore
    <3>6. reader'.moved = reader.moved + 1  BY <3>1, <3>2
    <3> QED BY <1>1, <2>1, <3>5, <3>6
  <2> QED BY <2>2, <2>3
<1>10. CountIsAlmost'
  <2> SUFFICES ASSUME reader.todo = {"rows"}
               PROVE  Cardinality(RowsIn(place')) <= reader.total + reader'.late
    BY DEF CountIsAlmost, Present
  <2>1. Cardinality(RowsIn(place)) <= reader.total + reader.late
    BY <1>0 DEF CountIsAlmost, Present
  <2>2. RowsIn(place) \in SUBSET ListRows  BY DEF RowsIn
  <2>3. \A j \in ListRows \ {i} : place'[j] = place[j]  BY <1>1
  <2>4. CASE place[i] = 0
    <3>1. RowsIn(place') \subseteq RowsIn(place) \cup {i}  BY <2>3 DEF RowsIn
    <3>2. /\ Cardinality(RowsIn(place')) <= Cardinality(RowsIn(place)) + 1
          /\ Cardinality(RowsIn(place')) \in Nat /\ Cardinality(RowsIn(place)) \in Nat
      <4> DEFINE S == RowsIn(place)
                 T == RowsIn(place')
      <4>1. S \in SUBSET ListRows /\ T \in SUBSET (S \cup {i})  BY <2>2, <3>1
      <4> HIDE DEF S, T
      <4>2. Cardinality(T) <= Cardinality(S) + 1 /\ Cardinality(T) \in Nat /\ Cardinality(S) \in Nat
        BY <4>1, OneRowMore
      <4> QED BY <4>2 DEF S, T
    <3> QED BY <1>1, <2>1, <2>4, <3>2
  <2>5. CASE place[i] # 0
    <3>1. i \in RowsIn(place)  BY <1>1, <2>5 DEF RowsIn
    <3>2. RowsIn(place') \subseteq RowsIn(place)  BY <2>3, <3>1 DEF RowsIn
    <3>3. /\ Cardinality(RowsIn(place')) <= Cardinality(RowsIn(place))
          /\ Cardinality(RowsIn(place')) \in Nat /\ Cardinality(RowsIn(place)) \in Nat
      BY <2>2, <3>2, FewerRows
    <3> QED BY <1>1, <2>1, <2>5, <3>3
  <2> QED BY <2>4, <2>5
<1>11. OnTheLastPage'
  <2> SUFFICES ASSUME LimitAgrees, reader.todo = {},
                      reader.total <= reader.page * Limit("pages")
               PROVE  Cardinality(Missed') <= reader'.moved + reader'.late
    BY <1>2 DEF OnTheLastPage
  <2>1. Cardinality(Missed) <= reader.moved + reader.late  BY <1>0 DEF OnTheLastPage
  <2>2. /\ Cardinality(Missed') <= Cardinality(Missed)
        /\ Cardinality(Missed') \in Nat /\ Cardinality(Missed) \in Nat
    BY <1>6, <1>7, FewerRows
  <2> QED BY <1>1, <2>1, <2>2
<1>12. OverAtTheEnd'  BY <1>0, <1>2 DEF OverAtTheEnd
<1> QED BY <1>4, <1>5, <1>9, <1>10, <1>11, <1>12 DEF ListingsInvariant

(* The statement that reads the rows leaves none between the boundary and  *)
(* the next one.                                                           *)
LEMMA ReadRowsStep ==
  ASSUME ListingsInvariant, ReadRows
  PROVE  ListingsInvariant'
<1>0. /\ ListingsTypeOK /\ TiedAreShaky /\ SlippedAreFew /\ CountIsAlmost /\ OnTheLastPage
      /\ OverAtTheEnd
  BY DEF ListingsInvariant
<1>1. PICK shown \in SUBSET Present :
        /\ \A i \in Present :
             Cardinality({j \in shown : place[j] = place[i]}) = Cardinality(OnThePage(i))
        /\ reader' = [reader EXCEPT !.todo = @ \ {"rows"}, !.got = @ \cup shown]
  BY DEF ReadRows
<1>2. "rows" \in reader.todo /\ place' = place  BY DEF ReadRows
<1>3. reader' \in Reader
  <2>1. reader \in Reader /\ shown \in SUBSET ListRows  BY <1>0 DEF ListingsTypeOK, Present, RowsIn
  <2> QED BY <1>1, <2>1 DEF Reader
<1>4. /\ reader'.listing = reader.listing /\ reader'.limit = reader.limit
      /\ reader'.page = reader.page /\ reader'.todo = reader.todo \ {"rows"}
      /\ reader'.first = reader.first /\ reader'.got = reader.got \cup shown
      /\ reader'.shaky = reader.shaky /\ reader'.moved = reader.moved
      /\ reader'.late = reader.late /\ reader'.total = reader.total /\ reader'.over = reader.over
  BY <1>0, <1>1 DEF ListingsTypeOK, Reader
<1>5. PICK l \in Nat \ {0}, p \in Nat \ {0}, m \in Nat, b \in Nat :
        l = Limit("pages") /\ p = reader.page /\ m = p - 1 /\ b = m * l /\ b = Boundary
  <2>1. PICK l \in Nat \ {0}, p \in Nat \ {0} : l = Limit("pages") /\ p = reader.page
    BY <1>0, LimitIsNatural, ReaderParts
  <2>2. PICK m \in Nat : m = p - 1  OBVIOUS
  <2>3. m * l \in Nat  OBVIOUS
  <2> QED BY <1>2, <2>1, <2>2, <2>3 DEF Boundary, PagesRead
<1>6. p * l = b + l
  <2>1. p = m + 1  BY <1>5
  <2>2. (m + 1) * l = m * l + l  OBVIOUS
  <2> QED BY <1>5, <2>1, <2>2
<1>7. /\ LimitAgrees' <=> LimitAgrees
      /\ Limit("pages")' = l /\ Boundary' = b + l
  BY <1>4, <1>5, <1>6 DEF LimitAgrees, Limit, Boundary, PagesRead
<1>8. ListingsTypeOK' /\ TiedAreShaky' /\ CountIsAlmost' /\ OverAtTheEnd'
  <2>1. ListingsTypeOK'  BY <1>0, <1>2, <1>3 DEF ListingsTypeOK
  <2>2. TiedAreShaky'  BY <1>0, <1>2, <1>4 DEF TiedAreShaky
  <2>3. reader'.todo # {"rows"}  BY <1>4
  <2>4. ~ reader.over  BY <1>0, <1>2 DEF OverAtTheEnd
  <2> QED BY <1>4, <2>1, <2>2, <2>3, <2>4 DEF CountIsAlmost, OverAtTheEnd
<1>9. Missed' = Missed \ shown  BY <1>2, <1>4 DEF Missed, Present
<1>10. ASSUME LimitAgrees, NEW i \in Missed'
       PROVE  /\ i \in Missed /\ i \in RowsIn(place) \ TiedIn(place) /\ PositionIn(place, i) \in Nat
              /\ PositionIn(place, i) <= b \/ PositionIn(place, i) > b + l
  <2>1. i \in Missed /\ i \notin shown /\ i \in Present \ TiedIn(place) /\ PositionIn(place, i) \in Nat
    BY <1>0, <1>9, PositionIsNatural DEF Missed, TiedAreShaky
  <2>2. Skip = b /\ Limit("take") = l
    BY <1>0, <1>5, <1>10, AgreedLimits DEF Skip
  <2>3. PositionIn(place, i) \notin b + 1 .. b + l
    BY <1>0, <1>1, <2>1, <2>2, OneOnThePage
  <2> QED BY <2>1, <2>3 DEF Present
<1>11. Slipped' = {i \in Missed' : PositionIn(place, i) <= b + l}  BY <1>2, <1>7 DEF Slipped
<1>12. ASSUME LimitAgrees PROVE Slipped' \subseteq Slipped
  BY <1>5, <1>10, <1>11, <1>12 DEF Slipped
<1>13. /\ reader.moved \in Nat /\ reader.late \in Nat /\ reader.total \in Nat
       /\ place \in [ListRows -> Nat]
  BY <1>0, ReaderParts
<1>14. ASSUME LimitAgrees
       PROVE  /\ Cardinality(Slipped') <= reader.moved
              /\ Cardinality(Slipped') \in Nat
  <2>1. Slipped \in SUBSET ListRows /\ Cardinality(Slipped) <= reader.moved
    BY <1>0, <1>14, RowSets DEF SlippedAreFew
  <2>2. Cardinality(Slipped') <= Cardinality(Slipped) /\ Cardinality(Slipped') \in Nat
        /\ Cardinality(Slipped) \in Nat
    BY <1>12, <1>14, <2>1, FewerRows
  <2> QED BY <1>13, <2>1, <2>2
<1>15. SlippedAreFew'  BY <1>4, <1>7, <1>14 DEF SlippedAreFew
<1>16. OnTheLastPage'
  <2> SUFFICES ASSUME LimitAgrees, reader'.todo = {}, reader.total <= b + l
               PROVE  Cardinality(Missed') <= reader.moved + reader.late
    BY <1>4, <1>5, <1>6, <1>7 DEF OnTheLastPage
  <2> DEFINE Behind == Missed' \ Slipped'
  <2>1. reader.todo = {"rows"}
    <3>1. reader.todo \in SUBSET {"rows", "count"}  BY <1>0 DEF ListingsTypeOK, Reader
    <3> QED BY <1>2, <1>4, <3>1
  <2>2. Cardinality(RowsIn(place)) <= reader.total + reader.late
    BY <1>0, <2>1 DEF CountIsAlmost, Present
  <2>3. Missed' \in SUBSET ListRows /\ Slipped' \in SUBSET Missed'
    BY <1>9, <1>11, RowSets
  <2>4. Behind \in SUBSET (RowsIn(place) \ TiedIn(place)) /\ \A i \in Behind : PositionIn(place, i) > b + l
    BY <1>10, <1>11
  <2>5. Cardinality(Behind) <= reader.late /\ Cardinality(Behind) \in Nat
    <3>1. Behind \in SUBSET ListRows  BY <2>3
    <3> HIDE DEF Behind
    <3>2. Cardinality(Behind) \in Nat  BY <3>1, RowsAreFinite
    <3>3. CASE Behind = {}  BY <1>13, <3>3, FS_EmptySet
    <3>4. CASE Behind # {}
      <4>1. b + l \in Nat  BY <1>5
      <4>2. Cardinality(Behind) + (b + l) <= Cardinality(RowsIn(place))
        BY <1>13, <2>4, <3>4, <4>1, FewBehind
      <4>3. Cardinality(RowsIn(place)) \in Nat  BY RowsAreFinite DEF RowsIn
      <4> QED BY <1>13, <2>2, <3>2, <4>1, <4>2, <4>3
    <3> QED BY <3>2, <3>3, <3>4
  <2>6. Missed' = Slipped' \cup Behind /\ Slipped' \cap Behind = {}  BY <2>3
  <2>7. IsFiniteSet(Slipped') /\ IsFiniteSet(Behind)
    <3>1. Slipped' \in SUBSET ListRows /\ Behind \in SUBSET ListRows  BY <2>3
    <3> QED BY <3>1, RowsAreFinite
  <2> HIDE DEF Behind
  <2>8. Cardinality(Missed') = Cardinality(Slipped') + Cardinality(Behind)
    <3> DEFINE S == Slipped'
    <3>1. IsFiniteSet(S) /\ IsFiniteSet(Behind) /\ S \cap Behind = {} /\ Missed' = S \cup Behind
      BY <2>6, <2>7
    <3>2. Cardinality(S) \in Nat /\ Cardinality(Behind) \in Nat  BY <1>14, <2>5
    <3> HIDE DEF S
    <3>3. Cardinality(S \cap Behind) = 0  BY <3>1, FS_EmptySet
    <3>4. Cardinality(S \cup Behind) = Cardinality(S) + Cardinality(Behind) - Cardinality(S \cap Behind)
      BY <3>1, FS_Union
    <3>5. Cardinality(Missed') = Cardinality(S) + Cardinality(Behind)  BY <3>1, <3>2, <3>3, <3>4
    <3> QED BY <3>5 DEF S
  <2> QED BY <1>13, <1>14, <2>5, <2>8
<1> QED BY <1>8, <1>15, <1>16 DEF ListingsInvariant

(* The count: the rows there are are the rows there were.                  *)
LEMMA ReadTotalStep ==
  ASSUME ListingsInvariant, ReadTotal
  PROVE  ListingsInvariant'
<1>0. /\ ListingsTypeOK /\ TiedAreShaky /\ SlippedAreFew /\ CountIsAlmost /\ OnTheLastPage
      /\ OverAtTheEnd
  BY DEF ListingsInvariant
<1>1. /\ "count" \in reader.todo /\ place' = place
      /\ reader' = [reader EXCEPT !.todo = @ \ {"count"}, !.total = Cardinality(Present), !.late = 0]
  BY DEF ReadTotal
<1>2. /\ Cardinality(Present) \in Nat /\ Cardinality(Missed) \in Nat
      /\ reader.moved \in Nat /\ Boundary \in Nat /\ place \in [ListRows -> Nat]
  BY <1>0, RowSets, ReaderParts
<1>3. reader' \in Reader
  <2>1. reader \in Reader  BY <1>0 DEF ListingsTypeOK
  <2> QED BY <1>1, <1>2, <2>1 DEF Reader
<1>4. /\ reader'.listing = reader.listing /\ reader'.limit = reader.limit
      /\ reader'.page = reader.page /\ reader'.todo = reader.todo \ {"count"}
      /\ reader'.first = reader.first /\ reader'.got = reader.got
      /\ reader'.shaky = reader.shaky /\ reader'.moved = reader.moved
      /\ reader'.late = 0 /\ reader'.total = Cardinality(Present) /\ reader'.over = reader.over
  BY <1>0, <1>1 DEF ListingsTypeOK, Reader
<1>5. /\ LimitAgrees' <=> LimitAgrees
      /\ Limit("pages")' = Limit("pages") /\ Boundary' = Boundary
  BY <1>4 DEF LimitAgrees, Limit, Boundary, PagesRead
<1>6. Missed' = Missed /\ Slipped' = Slipped
  <2>1. Missed' = Missed  BY <1>1, <1>4 DEF Missed, Present
  <2> QED BY <1>1, <1>5, <2>1 DEF Slipped
<1>7. ListingsTypeOK' /\ TiedAreShaky' /\ SlippedAreFew'
  BY <1>0, <1>1, <1>3, <1>4, <1>5, <1>6 DEF ListingsTypeOK, TiedAreShaky, SlippedAreFew
<1>8. CountIsAlmost'  BY <1>1, <1>2, <1>4 DEF CountIsAlmost, Present
<1>9. OnTheLastPage'
  <2> SUFFICES ASSUME LimitAgrees, reader'.todo = {},
                      Cardinality(Present) <= reader.page * Limit("pages")
               PROVE  Cardinality(Missed) <= reader.moved
    BY <1>2, <1>4, <1>5, <1>6 DEF OnTheLastPage
  <2>1. "rows" \notin reader.todo  BY <1>4
  <2>2. Cardinality(Present) <= Boundary  BY <2>1 DEF Boundary, PagesRead
  <2>3. ASSUME NEW i \in Missed PROVE PositionIn(place, i) <= Boundary
    <3>1. i \in RowsIn(place)  BY DEF Missed, Present
    <3>2. PositionIn(place, i) <= Cardinality(Present)  BY <1>2, <3>1, PositionInList DEF Present
    <3>3. PositionIn(place, i) \in Nat  BY PositionIsNatural
    <3> QED BY <1>2, <2>2, <3>2, <3>3
  <2>4. Slipped = Missed  BY <2>3 DEF Slipped
  <2> QED BY <1>0, <2>4 DEF SlippedAreFew
<1>10. OverAtTheEnd'  BY <1>0, <1>1, <1>4 DEF OverAtTheEnd
<1> QED BY <1>7, <1>8, <1>9, <1>10 DEF ListingsInvariant

(* The page is turned, or it was the last one.                             *)
LEMMA TurnPageStep ==
  ASSUME ListingsInvariant, TurnPage
  PROVE  ListingsInvariant'
<1>0. /\ ListingsTypeOK /\ TiedAreShaky /\ SlippedAreFew /\ CountIsAlmost /\ OnTheLastPage
      /\ OverAtTheEnd
  BY DEF ListingsInvariant
<1>1. reader.todo = {} /\ ~ reader.over /\ place' = place  BY DEF TurnPage
<1>2. reader \in Reader /\ reader.page \in Nat \ {0} /\ reader.total \in Nat
  BY <1>0, ReaderParts DEF ListingsTypeOK
<1>3. reader.page < TotalPages <=> reader.page * Limit("pages") < reader.total
  <2>1. PICK l \in Nat \ {0} : l = Limit("pages")  BY <1>0, LimitIsNatural
  <2> QED BY <1>2, <2>1, LastPage DEF TotalPages
<1>4. CASE reader.page < TotalPages
  <2>1. reader' = [reader EXCEPT !.page = @ + 1, !.todo = {"rows", "count"}]
    BY <1>4 DEF TurnPage
  <2>2. reader' \in Reader
    <3>1. reader.page + 1 \in Nat \ {0} /\ {"rows", "count"} \in SUBSET {"rows", "count"}  BY <1>2
    <3> QED BY <1>2, <2>1, <3>1 DEF Reader
  <2>3. /\ reader'.listing = reader.listing /\ reader'.limit = reader.limit
        /\ reader'.page = reader.page + 1 /\ reader'.todo = {"rows", "count"}
        /\ reader'.first = reader.first /\ reader'.got = reader.got
        /\ reader'.shaky = reader.shaky /\ reader'.moved = reader.moved
        /\ reader'.late = reader.late /\ reader'.total = reader.total
        /\ reader'.over = reader.over
    BY <1>2, <2>1 DEF Reader
  <2>4. Limit("pages")' = Limit("pages") /\ PagesRead' = PagesRead
    BY <1>1, <1>2, <2>3 DEF Limit, PagesRead
  <2>5. Boundary' = Boundary  BY <2>4 DEF Boundary
  <2>6. LimitAgrees' => LimitAgrees
    <3>1. reader.page + 1 <= MAX_PAGE_SIZE => reader.page <= MAX_PAGE_SIZE
      BY <1>2, ListingsAssumption
    <3> QED BY <2>3, <3>1 DEF LimitAgrees
  <2>7. Missed' = Missed  BY <1>1, <2>3 DEF Missed, Present
  <2>8. Slipped' = Slipped  BY <1>1, <2>5, <2>7 DEF Slipped
  <2>9. ListingsTypeOK' /\ TiedAreShaky' /\ SlippedAreFew'
    BY <1>0, <1>1, <2>2, <2>3, <2>6, <2>8 DEF ListingsTypeOK, TiedAreShaky, SlippedAreFew
  <2>10. CountIsAlmost' /\ OnTheLastPage' /\ OverAtTheEnd'
    BY <1>1, <2>3 DEF CountIsAlmost, OnTheLastPage, OverAtTheEnd
  <2> QED BY <2>9, <2>10 DEF ListingsInvariant
<1>5. CASE ~ (reader.page < TotalPages)
  <2>1. reader' = [reader EXCEPT !.over = TRUE]  BY <1>5 DEF TurnPage
  <2>2. reader' \in Reader  BY <1>2, <2>1 DEF Reader
  <2>3. /\ reader'.listing = reader.listing /\ reader'.limit = reader.limit
        /\ reader'.page = reader.page /\ reader'.todo = reader.todo
        /\ reader'.first = reader.first /\ reader'.got = reader.got
        /\ reader'.shaky = reader.shaky /\ reader'.moved = reader.moved
        /\ reader'.late = reader.late /\ reader'.total = reader.total
    BY <1>2, <2>1 DEF Reader
  <2>4. /\ Limit("pages")' = Limit("pages") /\ Boundary' = Boundary
        /\ LimitAgrees' <=> LimitAgrees
    BY <2>3 DEF Limit, PagesRead, Boundary, LimitAgrees
  <2>5. Missed' = Missed  BY <1>1, <2>3 DEF Missed, Present
  <2>6. Slipped' = Slipped  BY <1>1, <2>4, <2>5 DEF Slipped
  <2>7. ListingsTypeOK' /\ TiedAreShaky' /\ SlippedAreFew'
    BY <1>0, <1>1, <2>2, <2>3, <2>4, <2>6 DEF ListingsTypeOK, TiedAreShaky, SlippedAreFew
  <2>8. CountIsAlmost'  BY <1>1, <2>3 DEF CountIsAlmost
  <2>9. OnTheLastPage'  BY <1>0, <2>3, <2>4, <2>5 DEF OnTheLastPage
  <2>10. OverAtTheEnd'
    <3>1. PICK n \in Nat : n = reader.page * Limit("pages")
      <4>1. PICK l \in Nat, p \in Nat : l = Limit("pages") /\ p = reader.page
        BY <1>0, <1>2, LimitIsNatural
      <4>2. p * l \in Nat  OBVIOUS
      <4> QED BY <4>1, <4>2
    <3>2. reader.total <= n  BY <1>2, <1>3, <1>5, <3>1
    <3> QED BY <1>1, <2>3, <2>4, <3>1, <3>2 DEF OverAtTheEnd
  <2> QED BY <2>7, <2>8, <2>9, <2>10 DEF ListingsInvariant
<1> QED BY <1>4, <1>5

LEMMA ListingsMove ==
  ASSUME ListingsInvariant, [ListingsNext]_listingsVars
  PROVE  ListingsInvariant'
<1>1. /\ place \in [ListRows -> 0 .. MaxPlace] /\ reader \in Reader
      /\ MaxPlace \in Nat /\ MaxMoves \in Nat /\ place \in [ListRows -> Nat]
  BY ListingsAssumption, ReaderParts DEF ListingsInvariant, ListingsTypeOK
<1>2. ASSUME NEW i \in ListRows PROVE Shaken(i) \in SUBSET ListRows
  BY <1>1 DEF Shaken, TiedIn, RowsIn, Reader
<1>3. ASSUME NEW i \in ListRows, NEW k \in 1 .. MaxPlace, RowComes(i, k) PROVE ListingsInvariant'
  <2>1. /\ place[i] = 0 /\ place' = [place EXCEPT ![i] = k]
        /\ reader' = [reader EXCEPT !.shaky = Shaken(i),
                        !.late = IF reader.todo = {"rows"} THEN @ + 1 ELSE @]
    BY <1>3 DEF RowComes
  <2>2. reader' \in Reader
    <3>1. PICK n \in Nat : n = IF reader.todo = {"rows"} THEN reader.late + 1 ELSE reader.late
      BY <1>1 DEF Reader
    <3>2. reader' = [reader EXCEPT !.shaky = Shaken(i), !.late = n]  BY <2>1, <3>1
    <3>3. Shaken(i) \in SUBSET ListRows  BY <1>2
    <3> QED BY <1>1, <3>2, <3>3 DEF Reader
  <2>3. /\ reader'.listing = reader.listing /\ reader'.limit = reader.limit
        /\ reader'.page = reader.page /\ reader'.todo = reader.todo
        /\ reader'.first = reader.first /\ reader'.got = reader.got
        /\ reader'.total = reader.total /\ reader'.over = reader.over
        /\ reader'.shaky = Shaken(i) /\ reader'.moved = reader.moved
        /\ reader'.late = IF reader.todo = {"rows"} THEN reader.late + 1 ELSE reader.late
    BY <1>1, <2>1 DEF Reader
  <2>4. k \in 0 .. MaxPlace  BY <1>1
  <2> QED BY <2>1, <2>2, <2>3, <2>4, RowChanges
<1>4. ASSUME NEW i \in ListRows, NEW k \in 0 .. MaxPlace, place[i] > 0, reader.moved < MaxMoves,
             place' = [place EXCEPT ![i] = k],
             reader' = [reader EXCEPT !.shaky = Shaken(i), !.moved = @ + 1]
      PROVE  ListingsInvariant'
  <2>1. reader.moved + 1 \in 0 .. MaxMoves /\ place[i] # 0  BY <1>1, <1>4 DEF Reader
  <2>2. reader' \in Reader  BY <1>1, <1>2, <1>4, <2>1 DEF Reader
  <2>3. /\ reader'.listing = reader.listing /\ reader'.limit = reader.limit
        /\ reader'.page = reader.page /\ reader'.todo = reader.todo
        /\ reader'.first = reader.first /\ reader'.got = reader.got
        /\ reader'.total = reader.total /\ reader'.over = reader.over
        /\ reader'.shaky = Shaken(i) /\ reader'.moved = reader.moved + 1
        /\ reader'.late = reader.late
    BY <1>1, <1>4 DEF Reader
  <2> QED BY <1>4, <2>1, <2>2, <2>3, RowChanges
<1>5. ASSUME NEW i \in ListRows, RowLeaves(i) PROVE ListingsInvariant'
  <2>1. 0 \in 0 .. MaxPlace  BY <1>1
  <2> QED BY <1>4, <1>5, <2>1 DEF RowLeaves
<1>6. ASSUME NEW i \in ListRows, NEW k \in 1 .. MaxPlace, RowMoves(i, k) PROVE ListingsInvariant'
  <2>1. k \in 0 .. MaxPlace  BY <1>1
  <2> QED BY <1>4, <1>6, <2>1 DEF RowMoves
<1>7. CASE UNCHANGED listingsVars
  BY <1>7 DEF listingsVars, ListingsInvariant, ListingsTypeOK, TiedAreShaky, SlippedAreFew,
              CountIsAlmost, OnTheLastPage, OverAtTheEnd, LimitAgrees, Limit, Missed, Slipped,
              Present, Boundary, PagesRead
<1> QED BY <1>3, <1>5, <1>6, <1>7, ReadRowsStep, ReadTotalStep, TurnPageStep DEF ListingsNext

LEMMA ListingsHold == ListingsSpec => []ListingsInvariant
BY ListingsStart, ListingsMove, PTL DEF ListingsSpec

(* Every listing, its reader and its rows are well typed.                  *)
THEOREM ListingsTypeCorrect == ListingsSpec => []ListingsTypeOK
<1>1. ListingsInvariant => ListingsTypeOK  BY DEF ListingsInvariant
<1> QED BY <1>1, ListingsHold, PTL

(* Of the rows that were there all the time, kept their place and never    *)
(* shared it, the reader misses at most one for each row that left or moved*)
(* and one for each that came between the last count and its page.         *)
THEOREM MissesCorrect == ListingsSpec => []MissesAreBounded
<1>1. ListingsInvariant => MissesAreBounded
  BY DEF ListingsInvariant, OnTheLastPage, OverAtTheEnd, MissesAreBounded
<1> QED BY <1>1, ListingsHold, PTL

-----------------------------------------------------------------------------
(* Marketplace.                                                            *)

Charge == [pc : Stages, split : SUBSET Shares, todo : SUBSET Shares, told : SUBSET Shares,
           lost : SUBSET Shares, fresh : BOOLEAN, payer : Intents \cup {Nobody}]

ChargesAreCharges == intent \in [Intents -> Charge]

(* Every seller has been enrolled, no row twice: ids are not used again.   *)
SellersEnrolledOnce ==
  /\ \A s \in Enrolled : \E i \in DOMAIN enrolled : enrolled[i] = s
  /\ \A i, j \in DOMAIN enrolled : enrolled[i] = enrolled[j] => i = j

(* As long as no seller changes, the split of a charge is the one that     *)
(* would be decided now, and its mails are those that would be sent now:   *)
(* sent, lost or still to be sent once the sellers have been read, and     *)
(* none sent before.                                                       *)
Splits == {SplitFor(s) : s \in SellerOfOrder}
Notices == {NoticeFor(s) : s \in WithWallet}
Tells(c, splits, notices) ==
  /\ c.pc \notin {"telling", "cutOff"} => c.told = {}
  /\ c.fresh => /\ c.split = splits /\ c.pc # "idle"
                /\ c.told \subseteq notices
                /\ c.pc = "telling" => notices \subseteq c.todo \cup c.told \cup c.lost
                /\ c.pc = "telling" => c.todo \subseteq notices

FreshSplits == \A i \in Intents : Tells(intent[i], Splits, Notices)

MarketplaceInvariant ==
  MarketplaceTypeOK /\ ChargesAreCharges /\ SellersEnrolledOnce /\ FreshSplits

LEMMA MarketplaceStarts == MarketplaceInit => MarketplaceInvariant
<1> SUFFICES ASSUME MarketplaceInit PROVE MarketplaceInvariant  OBVIOUS
<1>1. NoSeller \in SellerRow  BY DEF NoSeller, SellerRow
<1>2. NoCharge \in Charge /\ ~ NoCharge.fresh /\ NoCharge.told = {}  BY DEF NoCharge, Charge, Stages
<1>3. ChargesAreCharges  BY <1>2 DEF MarketplaceInit, ChargesAreCharges
<1>4. FreshSplits  BY <1>2 DEF MarketplaceInit, FreshSplits, Tells
<1>5. Enrolled = {}  BY DEF MarketplaceInit, Enrolled, NoSeller
<1>6. SellersEnrolledOnce  BY <1>5 DEF MarketplaceInit, SellersEnrolledOnce
<1>7. MarketplaceTypeOK  BY <1>1, <1>3 DEF MarketplaceInit, MarketplaceTypeOK, ChargesAreCharges, Charge
<1> QED BY <1>3, <1>4, <1>6, <1>7 DEF MarketplaceInvariant

(* A change of the sellers makes every split a split of the past.          *)
LEMMA StaleCharges ==
  ASSUME ChargesAreCharges, FreshSplits, intent' = Stale
  PROVE  ChargesAreCharges' /\ FreshSplits'
<1>1. Stale \in [Intents -> Charge]  BY DEF ChargesAreCharges, Stale, Charge
<1>2. \A i \in Intents : /\ ~ Stale[i].fresh /\ Stale[i].pc = intent[i].pc
                         /\ Stale[i].told = intent[i].told
  BY DEF ChargesAreCharges, Stale, Charge
<1> QED BY <1>1, <1>2 DEF ChargesAreCharges, FreshSplits, Tells

(* A change of one seller keeps who is enrolled.                           *)
LEMMA SellerChanges ==
  ASSUME MarketplaceInvariant, NEW s \in SellerRows, NEW r \in SellerRow,
         seller' = [seller EXCEPT ![s] = r], r.there => s \in Enrolled,
         enrolled' = enrolled, opening' \in [SellerRows -> {"no", "asked", "closed"}],
         customer' = customer, intent' = Stale
  PROVE  MarketplaceInvariant'
<1>1. ChargesAreCharges' /\ FreshSplits'  BY StaleCharges DEF MarketplaceInvariant
<1>2. seller \in [SellerRows -> SellerRow]  BY DEF MarketplaceInvariant, MarketplaceTypeOK
<1>3. Enrolled' \subseteq Enrolled  BY <1>2 DEF Enrolled
<1>4. SellersEnrolledOnce'  BY <1>3 DEF MarketplaceInvariant, SellersEnrolledOnce
<1>5. MarketplaceTypeOK'
  BY <1>1, <1>2 DEF MarketplaceInvariant, MarketplaceTypeOK, ChargesAreCharges, Charge
<1> QED BY <1>1, <1>4, <1>5 DEF MarketplaceInvariant

(* A step of one charge that keeps its split, or decides it anew.          *)
LEMMA ChargeMoves ==
  ASSUME MarketplaceInvariant, NEW i \in Intents, NEW c \in Charge, IntentStays,
         intent' = [intent EXCEPT ![i] = c], customer' \in Intents \cup {Nobody},
         Tells(c, Splits, Notices)
  PROVE  MarketplaceInvariant'
<1>1. intent \in [Intents -> Charge]  BY DEF MarketplaceInvariant, ChargesAreCharges
<1>2. intent' \in [Intents -> Charge]  BY <1>1
<1>3. UNCHANGED <<seller, enrolled, opening>>  BY DEF IntentStays
<1>4. MarketplaceTypeOK'
  BY <1>2, <1>3 DEF MarketplaceInvariant, MarketplaceTypeOK, Charge
<1>5. SellersEnrolledOnce'  BY <1>3 DEF MarketplaceInvariant, SellersEnrolledOnce, Enrolled
<1>6. Splits' = Splits /\ Notices' = Notices
  BY <1>3 DEF Splits, Notices, SplitFor, SellerOfOrder, NoticeFor, WithWallet, Newest, Active, Enrolled
<1>7. \A j \in Intents : Tells(intent'[j], Splits, Notices)
  BY <1>1 DEF MarketplaceInvariant, FreshSplits
<1>8. \A j \in Intents : Tells(intent'[j], Splits', Notices')  BY <1>6, <1>7
<1>9. FreshSplits'  BY <1>8 DEF FreshSplits, Tells
<1> QED BY <1>2, <1>4, <1>5, <1>9 DEF MarketplaceInvariant, ChargesAreCharges

LEMMA PercentsArePercents ==
  ASSUME MarketplaceTypeOK, NEW s \in SellerRows
  PROVE  SplitFor(s) \in Shares /\ NoticeFor(s) \in Shares
<1>1. seller[s].commission \in Commissions \cup {0, 10}
  BY DEF MarketplaceTypeOK, SellerRow, DefaultCommission
<1>2. seller[s].commission \in 0 .. 100
  <2>1. 0 \in 0 .. 100 /\ 10 \in 0 .. 100  OBVIOUS
  <2>2. Commissions \subseteq 0 .. 100  BY MarketplaceAssumption
  <2> QED BY <1>1, <2>1, <2>2
<1> QED BY <1>2 DEF SplitFor, NoticeFor, Charged, DefaultCommission, Shares

LEMMA MarketplaceMoves ==
  ASSUME MarketplaceInvariant, [MarketplaceNext]_marketplaceVars
  PROVE  MarketplaceInvariant'
<1> USE MarketplaceAssumption
<1>0. /\ seller \in [SellerRows -> SellerRow] /\ enrolled \in Seq(SellerRows)
      /\ opening \in [SellerRows -> {"no", "asked", "closed"}]
      /\ customer \in Intents \cup {Nobody} /\ intent \in [Intents -> Charge]
  BY DEF MarketplaceInvariant, MarketplaceTypeOK, ChargesAreCharges
<1>a. ASSUME NEW i \in Intents PROVE intent[i] \in Charge  BY <1>0
<1>b. ASSUME NEW i \in Intents PROVE Tells(intent[i], Splits, Notices)
  BY DEF MarketplaceInvariant, FreshSplits
<1>1. ASSUME NEW s \in SellerRows, NEW u \in Owners, NEW c \in Commissions, NEW a \in BOOLEAN,
             CreateSeller(s, u, c, a)
      PROVE  MarketplaceInvariant'
  <2> DEFINE r == [there |-> TRUE, owner |-> u, active |-> a, commission |-> c, wallet |-> FALSE]
  <2>1. r \in SellerRow  BY DEF SellerRow
  <2>2. seller' = [seller EXCEPT ![s] = r] /\ enrolled' = Append(enrolled, s)
        /\ opening' = [opening EXCEPT ![s] = "asked"] /\ intent' = Stale /\ customer' = customer
    BY <1>1 DEF CreateSeller
  <2> HIDE DEF r
  <2>3. ChargesAreCharges' /\ FreshSplits'  BY <2>2, StaleCharges DEF MarketplaceInvariant
  <2>4. PICK n \in Nat : n = Len(enrolled)  BY <1>0, LenProperties
  <2>5. /\ enrolled' \in Seq(SellerRows) /\ DOMAIN enrolled = 1 .. n /\ DOMAIN enrolled' = 1 .. n + 1
        /\ enrolled'[n + 1] = s /\ \A i \in 1 .. n : enrolled'[i] = enrolled[i]
    BY <1>0, <2>2, <2>4, AppendProperties, LenProperties
  <2>6. \A i \in 1 .. n : enrolled[i] # s  BY <1>1, <2>5 DEF CreateSeller
  <2>7. \A i, j \in DOMAIN enrolled' : enrolled'[i] = enrolled'[j] => i = j
    <3> SUFFICES ASSUME NEW i \in 1 .. n + 1, NEW j \in 1 .. n + 1, enrolled'[i] = enrolled'[j]
                 PROVE  i = j
      BY <2>5
    <3>1. (i \in 1 .. n \/ i = n + 1) /\ (j \in 1 .. n \/ j = n + 1)  OBVIOUS
    <3> QED BY <2>5, <2>6, <3>1 DEF MarketplaceInvariant, SellersEnrolledOnce
  <2>8. Enrolled' \subseteq Enrolled \cup {s}  BY <1>0, <2>2 DEF Enrolled
  <2>9. \A t \in Enrolled' : \E i \in DOMAIN enrolled' : enrolled'[i] = t
    <3> TAKE t \in Enrolled'
    <3>1. CASE t = s  BY <2>5, <3>1
    <3>2. CASE t \in Enrolled
      <4>1. PICK i \in 1 .. n : enrolled[i] = t
        BY <2>5, <3>2 DEF MarketplaceInvariant, SellersEnrolledOnce
      <4>2. i \in 1 .. n + 1  OBVIOUS
      <4> QED BY <2>5, <4>1, <4>2
    <3> QED BY <2>8, <3>1, <3>2
  <2>10. SellersEnrolledOnce'  BY <2>7, <2>9 DEF SellersEnrolledOnce
  <2>11. MarketplaceTypeOK'
    BY <1>0, <2>1, <2>2, <2>3, <2>5 DEF MarketplaceTypeOK, ChargesAreCharges, Charge
  <2> QED BY <2>3, <2>10, <2>11 DEF MarketplaceInvariant
<1>2. ASSUME NEW s \in SellerRows, NEW c \in Commissions, NEW a \in BOOLEAN, UpdateSeller(s, c, a)
      PROVE  MarketplaceInvariant'
  <2> DEFINE r == [seller[s] EXCEPT !.commission = c, !.active = a]
  <2>1. r \in SellerRow  BY <1>0 DEF SellerRow
  <2>2. seller' = [seller EXCEPT ![s] = r]  BY <1>0, <1>2 DEF UpdateSeller, SellerRow
  <2>3. s \in Enrolled /\ UNCHANGED <<enrolled, opening, customer>> /\ intent' = Stale
    BY <1>2 DEF UpdateSeller
  <2> HIDE DEF r
  <2> QED BY <1>0, <2>1, <2>2, <2>3, SellerChanges
<1>3. ASSUME NEW s \in SellerRows, OpenSubAccount(s) PROVE MarketplaceInvariant'
  <2> DEFINE r == [seller[s] EXCEPT !.wallet = TRUE]
  <2>1. r \in SellerRow  BY <1>0 DEF SellerRow
  <2>2. seller' = [seller EXCEPT ![s] = r]  BY <1>0, <1>3 DEF OpenSubAccount, SellerRow
  <2>3. /\ s \in Enrolled /\ UNCHANGED <<enrolled, customer>> /\ intent' = Stale
        /\ opening' \in [SellerRows -> {"no", "asked", "closed"}]
    BY <1>0, <1>3 DEF OpenSubAccount
  <2> HIDE DEF r
  <2> QED BY <2>1, <2>2, <2>3, SellerChanges
<1>4. ASSUME NEW s \in SellerRows, DeleteSeller(s) PROVE MarketplaceInvariant'
  <2>1. NoSeller \in SellerRow /\ ~ NoSeller.there  BY DEF NoSeller, SellerRow
  <2> QED BY <1>0, <1>4, <2>1, SellerChanges DEF DeleteSeller
<1>5. ASSUME NEW s \in SellerRows, SubAccountFails(s) PROVE MarketplaceInvariant'
  <2>1. UNCHANGED <<seller, enrolled, customer, intent>>
        /\ opening' \in [SellerRows -> {"no", "asked", "closed"}]
    BY <1>0, <1>5 DEF SubAccountFails
  <2> QED BY <2>1 DEF MarketplaceInvariant, MarketplaceTypeOK, ChargesAreCharges, SellersEnrolledOnce,
     FreshSplits, Tells, Splits, Notices, Enrolled, SplitFor, SellerOfOrder, NoticeFor, WithWallet, Newest, Active
<1>6. ASSUME NEW i \in Intents, ReadSeller(i) PROVE MarketplaceInvariant'
  <2> DEFINE splits == Splits
  <2>1. splits \subseteq Shares
    BY PercentsArePercents DEF Splits, MarketplaceInvariant, SellerOfOrder, Newest, Active, Enrolled
  <2>2. intent' = [intent EXCEPT ![i] = [@ EXCEPT !.pc = "customer", !.fresh = TRUE, !.split = splits]]
    BY <1>a, <1>6 DEF ReadSeller, Charge, Splits
  <2> DEFINE c == [intent[i] EXCEPT !.pc = "customer", !.fresh = TRUE, !.split = splits]
  <2> HIDE DEF splits
  <2>3. c \in Charge  BY <1>a, <2>1 DEF Charge, Stages
  <2>4. /\ c.split = splits /\ c.pc = "customer" /\ c.told = intent[i].told
        /\ intent[i].pc = "idle"
    BY <1>a, <1>6 DEF Charge, ReadSeller
  <2>5. intent' = [intent EXCEPT ![i] = c]  BY <2>2
  <2> HIDE DEF c
  <2>6. Tells(c, Splits, Notices)  BY <1>b, <2>4 DEF Tells, splits
  <2> QED BY <1>0, <1>6, <2>3, <2>5, <2>6, ChargeMoves DEF ReadSeller
<1>c. ASSUME NEW i \in Intents, NEW pc \in Stages \ {"idle", "telling"},
             NEW payer \in Intents \cup {Nobody}, IntentStays,
             pc # "cutOff" => intent[i].pc \notin {"telling", "cutOff"},
             intent' = [intent EXCEPT ![i] = [@ EXCEPT !.pc = pc, !.payer = payer]],
             customer' \in Intents \cup {Nobody}
      PROVE  MarketplaceInvariant'
  <2> DEFINE c == [intent[i] EXCEPT !.pc = pc, !.payer = payer]
  <2>1. c \in Charge  BY <1>a DEF Charge
  <2>2. /\ c.fresh = intent[i].fresh /\ c.split = intent[i].split /\ c.pc = pc
        /\ c.told = intent[i].told
    BY <1>a DEF Charge
  <2>3. intent' = [intent EXCEPT ![i] = c]  BY <1>c
  <2> HIDE DEF c
  <2>4. Tells(c, Splits, Notices)
    <3>1. pc # "idle" /\ pc # "telling"  OBVIOUS
    <3>2. Tells(intent[i], Splits, Notices)  BY <1>b
    <3> QED BY <1>c, <2>2, <3>1, <3>2 DEF Tells
  <2> QED BY <1>c, <2>1, <2>3, <2>4, ChargeMoves
<1>7. ASSUME NEW i \in Intents, ReadCustomer(i) PROVE MarketplaceInvariant'
  <2> DEFINE pc == IF customer = Nobody THEN "save" ELSE "charge"
  <2>1. pc \in Stages \ {"idle", "telling", "cutOff"}  BY DEF Stages
  <2>2. intent' = [intent EXCEPT ![i] = [@ EXCEPT !.pc = pc, !.payer = customer]]
    BY <1>a, <1>7 DEF ReadCustomer, Charge
  <2>3. intent[i].pc \notin {"telling", "cutOff"} /\ IntentStays /\ customer' = customer
    BY <1>7 DEF ReadCustomer
  <2> HIDE DEF pc
  <2> QED BY <1>0, <1>c, <2>1, <2>2, <2>3
<1>8. ASSUME NEW i \in Intents, CreateCustomer(i) PROVE MarketplaceInvariant'
  <2>1. intent' = [intent EXCEPT ![i] = [@ EXCEPT !.pc = "save", !.payer = i]]
    BY <1>a, <1>8 DEF CreateCustomer, Charge
  <2> QED BY <1>0, <1>8, <1>c, <2>1 DEF CreateCustomer, Stages
<1>9. ASSUME NEW i \in Intents, SaveCustomer(i) PROVE MarketplaceInvariant'
  <2>1. intent' = [intent EXCEPT ![i] = [@ EXCEPT !.pc = "charge", !.payer = i]]
    BY <1>a, <1>9 DEF SaveCustomer, Charge
  <2> QED BY <1>0, <1>9, <1>c, <2>1 DEF SaveCustomer, Stages
<1>10. ASSUME NEW i \in Intents, CreateCharge(i) PROVE MarketplaceInvariant'
  <2>1. intent' = [intent EXCEPT ![i] = [@ EXCEPT !.pc = "created", !.payer = intent[i].payer]]
    BY <1>a, <1>10 DEF CreateCharge, Charge
  <2>2. intent[i].payer \in Intents \cup {Nobody}  BY <1>a DEF Charge
  <2> QED BY <1>0, <1>10, <1>c, <2>1, <2>2 DEF CreateCharge, Stages
<1>11. ASSUME NEW i \in Intents, RefuseIntent(i) PROVE MarketplaceInvariant'
  <2> DEFINE c == [NoCharge EXCEPT !.pc = "refused"]
  <2>1. c \in Charge /\ ~ c.fresh /\ c.told = {}  BY DEF NoCharge, Charge, Stages
  <2>2. intent' = [intent EXCEPT ![i] = c] /\ IntentStays /\ customer' = customer
    BY <1>11 DEF RefuseIntent
  <2> HIDE DEF c
  <2> QED BY <1>0, <2>1, <2>2, ChargeMoves DEF Tells
<1>12. ASSUME NEW i \in Intents, ApproveCharge(i) PROVE MarketplaceInvariant'
  <2>1. intent' = [intent EXCEPT ![i] = [@ EXCEPT !.pc = "approved", !.payer = intent[i].payer]]
    BY <1>a, <1>12 DEF ApproveCharge, Charge
  <2>2. intent[i].payer \in Intents \cup {Nobody}  BY <1>a DEF Charge
  <2> QED BY <1>0, <1>12, <1>c, <2>1, <2>2 DEF ApproveCharge, Stages
<1>14. ASSUME NEW i \in Intents, ReadSellers(i) PROVE MarketplaceInvariant'
  <2> DEFINE notices == Notices
             c == [intent[i] EXCEPT !.pc = "telling", !.todo = notices]
  <2>1. notices \subseteq Shares
    BY PercentsArePercents DEF Notices, MarketplaceInvariant, WithWallet, Active, Enrolled
  <2>2. intent' = [intent EXCEPT ![i] = c]
    BY <1>a, <1>14 DEF ReadSellers, Charge, Notices
  <2> HIDE DEF notices
  <2>3. c \in Charge  BY <1>a, <2>1 DEF Charge, Stages
  <2>4. /\ c.fresh = intent[i].fresh /\ c.split = intent[i].split /\ c.pc = "telling"
        /\ c.todo = notices /\ c.told = intent[i].told
    BY <1>a DEF Charge
  <2> HIDE DEF c
  <2>5. intent[i].pc = "approved"  BY <1>14 DEF ReadSellers
  <2>6. Tells(c, Splits, Notices)  BY <1>b, <2>4, <2>5 DEF Tells, notices
  <2> QED BY <1>0, <1>14, <2>2, <2>3, <2>6, ChargeMoves DEF ReadSellers
<1>15. ASSUME NEW i \in Intents, NEW share \in Shares, TellSeller(i, share)
       PROVE  MarketplaceInvariant'
  <2>0. intent[i].pc = "telling" /\ share \in intent[i].todo /\ IntentStays /\ customer' = customer
    BY <1>15 DEF TellSeller
  <2>1. ASSUME NEW c \in Charge, intent' = [intent EXCEPT ![i] = c],
               c.fresh = intent[i].fresh, c.split = intent[i].split, c.pc = "telling",
               c.todo = intent[i].todo \ {share},
               \/ c.told = intent[i].told \cup {share} /\ c.lost = intent[i].lost
               \/ c.told = intent[i].told /\ c.lost = intent[i].lost \cup {share}
        PROVE  MarketplaceInvariant'
    <3>1. Tells(c, Splits, Notices)  BY <1>b, <2>0, <2>1 DEF Tells
    <3> QED BY <1>0, <2>0, <2>1, <3>1, ChargeMoves
  <2>2. CASE intent' = [intent EXCEPT ![i].todo = @ \ {share}, ![i].told = @ \cup {share}]
    <3> DEFINE c == [intent[i] EXCEPT !.todo = @ \ {share}, !.told = @ \cup {share}]
    <3>1. intent' = [intent EXCEPT ![i] = c]  BY <1>a, <2>2 DEF Charge
    <3>2. /\ c \in Charge /\ c.fresh = intent[i].fresh /\ c.split = intent[i].split
          /\ c.pc = intent[i].pc /\ c.todo = intent[i].todo \ {share}
          /\ c.told = intent[i].told \cup {share} /\ c.lost = intent[i].lost
      BY <1>a DEF Charge
    <3> HIDE DEF c
    <3> QED BY <2>0, <2>1, <3>1, <3>2
  <2>3. CASE intent' = [intent EXCEPT ![i].todo = @ \ {share}, ![i].lost = @ \cup {share}]
    <3> DEFINE c == [intent[i] EXCEPT !.todo = @ \ {share}, !.lost = @ \cup {share}]
    <3>1. intent' = [intent EXCEPT ![i] = c]  BY <1>a, <2>3 DEF Charge
    <3>2. /\ c \in Charge /\ c.fresh = intent[i].fresh /\ c.split = intent[i].split
          /\ c.pc = intent[i].pc /\ c.todo = intent[i].todo \ {share}
          /\ c.told = intent[i].told /\ c.lost = intent[i].lost \cup {share}
      BY <1>a DEF Charge
    <3> HIDE DEF c
    <3> QED BY <2>0, <2>1, <3>1, <3>2
  <2> QED BY <1>15, <2>2, <2>3 DEF TellSeller
<1>16. ASSUME NEW i \in Intents, CutNoticeOff(i) PROVE MarketplaceInvariant'
  <2>1. intent' = [intent EXCEPT ![i] = [@ EXCEPT !.pc = "cutOff", !.payer = intent[i].payer]]
    BY <1>a, <1>16 DEF CutNoticeOff, Charge
  <2>2. intent[i].payer \in Intents \cup {Nobody}  BY <1>a DEF Charge
  <2> QED BY <1>0, <1>16, <1>c, <2>1, <2>2 DEF CutNoticeOff, Stages
<1>13. CASE UNCHANGED marketplaceVars
  BY <1>13 DEF marketplaceVars, MarketplaceInvariant, MarketplaceTypeOK, ChargesAreCharges,
     SellersEnrolledOnce, FreshSplits, Tells, Splits, Notices, Enrolled, SplitFor, SellerOfOrder,
     NoticeFor, WithWallet, Newest, Active
<1> QED BY <1>1, <1>2, <1>3, <1>4, <1>5, <1>6, <1>7, <1>8, <1>9, <1>10, <1>11, <1>12, <1>13,
        <1>14, <1>15, <1>16
        DEF MarketplaceNext

LEMMA MarketplaceHolds == MarketplaceSpec => []MarketplaceInvariant
BY MarketplaceStarts, MarketplaceMoves, PTL DEF MarketplaceSpec

(* The only active seller is the newest one.                               *)
LEMMA OnlySellerIsNewest ==
  ASSUME MarketplaceInvariant, Cardinality(Active) = 1, NEW s \in Active
  PROVE  s \in Newest
<1>1. enrolled \in Seq(SellerRows)  BY DEF MarketplaceInvariant, MarketplaceTypeOK
<1>2. PICK n \in Nat : n = Len(enrolled) /\ DOMAIN enrolled = 1 .. n  BY <1>1, LenProperties
<1> DEFINE T == {enrolled[i] : i \in 1 .. n}
<1>3. IsFiniteSet(T)
  <2>1. enrolled \in [1 .. n -> SellerRows]  BY <1>1, <1>2, LenProperties
  <2>2. enrolled \in [1 .. n -> T]  BY <2>1
  <2>3. enrolled \in Surjection(1 .. n, T)  BY <2>2 DEF Surjection
  <2>4. IsFiniteSet(1 .. n)  BY FS_Interval
  <2> HIDE DEF T
  <2> QED BY <2>3, <2>4, FS_Surjection
<1>4. Active \subseteq T
  BY <1>2 DEF Active, MarketplaceInvariant, SellersEnrolledOnce
<1>5. IsFiniteSet(Active)  BY <1>3, <1>4, FS_Subset
<1>6. PICK t : Active = {t}  BY <1>5, FS_Singleton
<1>7. \A i, j \in DOMAIN enrolled : enrolled[i] = s /\ enrolled[j] \in Active => j <= i
  BY <1>2, <1>6 DEF MarketplaceInvariant, SellersEnrolledOnce
<1> QED BY <1>7 DEF Newest

(* A notice speaks of the share the split gives, unless the commission is  *)
(* zero.                                                                   *)
LEMMA NoticeOfSplit ==
  ASSUME MarketplaceInvariant, NEW s \in WithWallet
  PROVE  /\ s \in SellerRows /\ NoticeFor(s).row = s /\ SplitFor(s).row = s
         /\ NoticeFor(s).percent # 100 => NoticeFor(s).percent = SplitFor(s).percent
<1>1. s \in SellerRows  BY DEF WithWallet, Active, Enrolled
<1>2. seller[s].commission \in Commissions \cup {0, 10}
  BY <1>1 DEF MarketplaceInvariant, MarketplaceTypeOK, SellerRow, DefaultCommission
<1>3. seller[s].commission \in 0 .. 100
  <2> DEFINE commission == seller[s].commission
  <2>1. commission \in Commissions \cup {0, 10}  BY <1>2
  <2> HIDE DEF commission
  <2>2. commission \in 0 .. 100  BY <2>1, MarketplaceAssumption
  <2> QED BY <2>2 DEF commission
<1> QED BY <1>1, <1>3 DEF NoticeFor, SplitFor, Charged

LEMMA FreshNoticeMatches == MarketplaceInvariant => NoticeMatchesSplit
<1> SUFFICES ASSUME MarketplaceInvariant, NEW i \in Intents, intent[i].fresh
             PROVE  /\ \A share \in intent[i].split, told \in intent[i].told :
                         told.row = share.row /\ told.percent # 100 => told.percent = share.percent
                    /\ intent[i].pc = "telling" /\ intent[i].todo = {} =>
                         \A share \in intent[i].split :
                           \E told \in intent[i].told \cup intent[i].lost : told.row = share.row
                    /\ Cardinality(Active) = 1 =>
                         \A told \in intent[i].told : \E share \in intent[i].split : share.row = told.row
  BY DEF NoticeMatchesSplit
<1>1. /\ intent[i].split = {SplitFor(s) : s \in SellerOfOrder}
      /\ intent[i].told \subseteq {NoticeFor(s) : s \in WithWallet}
      /\ intent[i].pc = "telling" =>
           {NoticeFor(s) : s \in WithWallet} \subseteq intent[i].todo \cup intent[i].told \cup intent[i].lost
  BY DEF MarketplaceInvariant, FreshSplits, Tells, Splits, Notices
<1>2. SellerOfOrder \subseteq WithWallet  BY DEF SellerOfOrder, Newest, WithWallet
<1>3. ASSUME NEW share \in intent[i].split, NEW told \in intent[i].told, told.row = share.row,
             told.percent # 100
      PROVE  told.percent = share.percent
  <2>1. PICK s \in SellerOfOrder : share = SplitFor(s)  BY <1>1
  <2>2. PICK t \in WithWallet : told = NoticeFor(t)  BY <1>1
  <2>3. s = t  BY <1>2, <1>3, <2>1, <2>2, NoticeOfSplit
  <2> QED BY <1>3, <2>1, <2>2, <2>3, NoticeOfSplit
<1>4. ASSUME intent[i].pc = "telling", intent[i].todo = {}, NEW share \in intent[i].split
      PROVE  \E told \in intent[i].told \cup intent[i].lost : told.row = share.row
  <2>1. PICK s \in SellerOfOrder : share = SplitFor(s)  BY <1>1
  <2>2. NoticeFor(s) \in intent[i].told \cup intent[i].lost  BY <1>1, <1>2, <1>4
  <2>3. NoticeFor(s).row = share.row  BY <1>2, <2>1, NoticeOfSplit
  <2> QED BY <2>2, <2>3
<1>5. ASSUME Cardinality(Active) = 1, NEW told \in intent[i].told
      PROVE  \E share \in intent[i].split : share.row = told.row
  <2>1. PICK s \in WithWallet : told = NoticeFor(s)  BY <1>1, <1>5
  <2>2. s \in SellerOfOrder  BY <1>5, OnlySellerIsNewest DEF WithWallet, SellerOfOrder
  <2>3. SplitFor(s).row = told.row  BY <2>1, NoticeOfSplit
  <2> QED BY <1>1, <2>2, <2>3
<1> QED BY <1>3, <1>4, <1>5

(* The sellers, their sub-accounts and the charges only have the states    *)
(* the module names; every share is a percentage.                          *)
THEOREM MarketplaceTypeCorrect == MarketplaceSpec => []MarketplaceTypeOK
<1>1. MarketplaceInvariant => MarketplaceTypeOK  BY DEF MarketplaceInvariant
<1> QED BY <1>1, MarketplaceHolds, PTL

(* For any sellers, commissions and number of charges, whichever mails are *)
(* lost and wherever the notice is cut off: as long as no seller changes   *)
(* in between, what the sellers are told agrees with the split.            *)
THEOREM NoticeCorrect == MarketplaceSpec => []NoticeMatchesSplit
BY FreshNoticeMatches, MarketplaceHolds, PTL
=============================================================================
