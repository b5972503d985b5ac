------------------------------ MODULE Listings ------------------------------
(***************************************************************************)
(* The paged listings: a reader asks for page after page, up to the        *)
(* totalPages of the last answer, while rows come, go and move.  A page is *)
(* two statements, the rows and the count: one after the other in one      *)
(* transaction, where at READ COMMITTED each sees what is committed when   *)
(* it starts, or side by side, in any order.                               *)
(*                                                                         *)
(* Rows are sorted by createdAt, those of products by stock first.  Rows   *)
(* that tie come in any order, which need not be the same for two pages; a *)
(* row may come into a listing anywhere: a filter begins to select it, or  *)
(* it is committed after a younger one.                                    *)
(***************************************************************************)
EXTENDS Naturals, FiniteSets

CONSTANTS
  MAX_PAGE_SIZE,   \* 100 in the code
  PageLimits,      \* limits that are asked for
  ListRows,        \* bound: rows that may be listed
  MaxPlace,        \* bound: places in the order of the rows
  MaxMoves         \* bound: rows that leave or move

ASSUME ListingsAssumption ==
  /\ MAX_PAGE_SIZE \in Nat \ {0} /\ PageLimits \subseteq Nat \ {0}
  /\ IsFiniteSet(ListRows) /\ MaxPlace \in Nat /\ MaxMoves \in Nat

(* A listing.  capped: the uses of the limit that are held to              *)
(* MAX_PAGE_SIZE - the rows taken, the rows skipped, the pages counted -   *)
(* and the page itself; changes: rows may leave, since they are deleted or *)
(* filtered, or move; aside: the statements are side by side.              *)
InTransaction(capped, changes) == [capped |-> capped, changes |-> changes, aside |-> FALSE]
SideBySide(capped, changes) == [capped |-> capped, changes |-> changes, aside |-> TRUE]

OrdersOfUser == InTransaction({}, {})
PaymentsOfUser == InTransaction({}, {})
NotificationsOfUser == InTransaction({}, {})
KeysOfProduct == InTransaction({}, {"leave"})
AccountsOfProduct == InTransaction({}, {"leave"})
AllCoupons == InTransaction({}, {"leave"})
AllSellers == InTransaction({}, {"leave"})
UsersOfAdmin == InTransaction({}, {"leave"})
AllFraudLogs == InTransaction({"take", "skip", "pages"}, {})
AllUsers == InTransaction({"take", "skip", "pages", "page"}, {"leave"})
ProductsOfAdmin == SideBySide({}, {"leave"})
OrdersOfAdmin == SideBySide({}, {"leave"})
KeysOfAdmin == SideBySide({}, {"leave"})
AllProducts == SideBySide({"take"}, {"leave", "move"})
ProductsOfCategory == SideBySide({"take", "skip"}, {"leave"})

Listings ==
  {OrdersOfUser, PaymentsOfUser, NotificationsOfUser, KeysOfProduct, AccountsOfProduct, AllCoupons,
   AllSellers, UsersOfAdmin, ProductsOfAdmin, OrdersOfAdmin, KeysOfAdmin, AllFraudLogs, AllUsers,
   AllProducts, ProductsOfCategory}

VARIABLES
  place,         \* where a row is in the order, higher first; 0 for not listed
  reader         \* the reader of a listing

listingsVars == <<place, reader>>

(* first: rows there when it began; got: rows it was shown; shaky: rows    *)
(* that have tied with another, come, left or moved; moved: how many times *)
(* rows left or moved; late: rows that came between the last count and the *)
(* rows of its page; total: the last count.                                *)
Reader == [listing : Listings, limit : PageLimits, page : Nat \ {0}, todo : SUBSET {"rows", "count"},
           first : SUBSET ListRows, got : SUBSET ListRows, shaky : SUBSET ListRows,
           moved : 0 .. MaxMoves, late : Nat, total : Nat, over : BOOLEAN]

ListingsTypeOK == place \in [ListRows -> 0 .. MaxPlace] /\ reader \in Reader

RowsIn(p) == {i \in ListRows : p[i] > 0}
TiedIn(p) == {i \in RowsIn(p) : \E j \in RowsIn(p) \ {i} : p[j] = p[i]}
Present == RowsIn(place)

FirstPage == 1

ListingsInit ==
  /\ place \in [ListRows -> 0 .. MaxPlace]
  /\ \E listing \in Listings, limit \in PageLimits :
       reader = [listing |-> listing, limit |-> limit, page |-> FirstPage, todo |-> {"rows", "count"},
                 first |-> Present, got |-> {}, shaky |-> TiedIn(place), moved |-> 0, late |-> 0,
                 total |-> 0, over |-> FALSE]

AtMost(n) == IF n > MAX_PAGE_SIZE THEN MAX_PAGE_SIZE ELSE n
PageAsked == IF "page" \in reader.listing.capped THEN AtMost(reader.page) ELSE reader.page
Limit(part) == IF part \in reader.listing.capped THEN AtMost(reader.limit) ELSE reader.limit

(* Mutant: as many rows are skipped as if they were.                       *)
SkipFromZero == PageAsked * Limit("skip")

Skip == (PageAsked - 1) * Limit("skip")

TotalPages == (reader.total + Limit("pages") - 1) \div Limit("pages")

-----------------------------------------------------------------------------
(* The page shows so many of the rows at one place as it covers of their   *)
(* positions in the order.                                                 *)
Position(i) == Cardinality({j \in Present : place[j] > place[i]}) + 1
LastPosition(i) == Cardinality({j \in Present : place[j] >= place[i]})
OnThePage(i) == (Skip + 1 .. Skip + Limit("take")) \cap (Position(i) .. LastPosition(i))

ReadRows ==
  /\ "rows" \in reader.todo
  /\ \E shown \in SUBSET Present :
       /\ \A i \in Present :
            Cardinality({j \in shown : place[j] = place[i]}) = Cardinality(OnThePage(i))
       /\ reader' = [reader EXCEPT !.todo = @ \ {"rows"}, !.got = @ \cup shown]
  /\ UNCHANGED place

ReadTotal ==
  /\ "count" \in reader.todo
  /\ "rows" \in reader.todo => reader.listing.aside
  /\ reader' = [reader EXCEPT !.todo = @ \ {"count"}, !.total = Cardinality(Present), !.late = 0]
  /\ UNCHANGED place

TurnPage ==
  /\ reader.todo = {} /\ ~ reader.over
  /\ reader' = IF reader.page < TotalPages
               THEN [reader EXCEPT !.page = @ + 1, !.todo = {"rows", "count"}]
               ELSE [reader EXCEPT !.over = TRUE]
  /\ UNCHANGED place

-----------------------------------------------------------------------------
(* The rows of the listing.                                                *)

Shaken(i) == reader.shaky \cup {i} \cup TiedIn(place')

RowComes(i, k) ==
  /\ place[i] = 0 /\ k > 0
  /\ place' = [place EXCEPT ![i] = k]
  /\ reader' = [reader EXCEPT !.shaky = Shaken(i),
                  !.late = IF reader.todo = {"rows"} THEN @ + 1 ELSE @]

RowLeaves(i) ==
  /\ "leave" \in reader.listing.changes /\ reader.moved < MaxMoves
  /\ place[i] > 0
  /\ place' = [place EXCEPT ![i] = 0]
  /\ reader' = [reader EXCEPT !.shaky = Shaken(i), !.moved = @ + 1]

RowMoves(i, k) ==
  /\ "move" \in reader.listing.changes /\ reader.moved < MaxMoves
  /\ place[i] > 0 /\ k > 0 /\ k # place[i]
  /\ place' = [place EXCEPT ![i] = k]
  /\ reader' = [reader EXCEPT !.shaky = Shaken(i), !.moved = @ + 1]

ListingsNext ==
  \/ ReadRows \/ ReadTotal \/ TurnPage
  \/ \E i \in ListRows : \/ RowLeaves(i)
                         \/ \E k \in 1 .. MaxPlace : RowComes(i, k) \/ RowMoves(i, k)

ListingsSpec == ListingsInit /\ [][ListingsNext]_listingsVars

-----------------------------------------------------------------------------
(* Properties.                                                             *)

(* The listing holds every use of the limit to the maximum or none, or the *)
(* limit is within it; and there are no more pages than the parameter may  *)
(* ask for.                                                                *)
LimitAgrees ==
  /\ \/ {"take", "skip", "pages"} \cap reader.listing.capped \in {{}, {"take", "skip", "pages"}}
     \/ reader.limit <= MAX_PAGE_SIZE
  /\ "page" \in reader.listing.capped => reader.page <= MAX_PAGE_SIZE

(* Rows that were there from the beginning to the end, kept their place and*)
(* never shared it, and were not shown.                                    *)
Missed == {i \in reader.first \cap Present : i \notin reader.got \cup reader.shaky}

(* Whoever turns the pages to the end misses at most one such row for each *)
(* row that left or moved meanwhile, and one for each that came between the*)
(* last count and the rows beside it: however many rows come, none of them *)
(* hides another.  Of a listing whose limit does not agree with itself     *)
(* nothing is said.                                                        *)
MissesAreBounded ==
  reader.over /\ LimitAgrees => Cardinality(Missed) <= reader.moved + reader.late
=============================================================================
