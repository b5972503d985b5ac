----------------------------- MODULE Categories -----------------------------
(***************************************************************************)
(* categories.repository create, update and delete, statement by           *)
(* statement, with what generateDemoData and clearDemoData (admin.service) *)
(* do to categories.  Deleting a category sets the references of its       *)
(* products and subcategories to null.                                     *)
(***************************************************************************)
EXTENDS FiniteSets, Naturals

CONSTANTS
  Shelves,       \* identities of Category rows
  Articles,      \* identities of products
  Curators,      \* deletions in progress at the same time
  Root, Gone     \* no parent or category; no such row

ASSUME CategoriesAssumption == Root \notin Shelves /\ Gone \notin Shelves /\ Root # Gone

VARIABLES
  parent,        \* Category.parentId, Gone where there is no row
  demo,          \* categories with isDemo
  filed,         \* Product.categoryId
  curator        \* what each deletion is doing

categoriesVars == <<parent, demo, filed, curator>>

(* found: products were counted.  added: what was put into the category    *)
(* after the last count of its kind.                                       *)
Curator == [pc : {"idle", "countProducts", "countChildren", "delete"}, id : Shelves \cup {Root},
            force : BOOLEAN, found : BOOLEAN, added : SUBSET {"product", "category"}]
IdleCurator == [pc |-> "idle", id |-> Root, force |-> FALSE, found |-> FALSE, added |-> {}]

CategoriesTypeOK ==
  /\ parent \in [Shelves -> Shelves \cup {Root, Gone}]
  /\ demo \in SUBSET Shelves
  /\ filed \in [Articles -> Shelves \cup {Root}]
  /\ curator \in [Curators -> Curator]

CategoriesInit ==
  /\ parent = [c \in Shelves |-> Gone]
  /\ demo = {}
  /\ filed = [a \in Articles |-> Root]
  /\ curator = [k \in Curators |-> IdleCurator]

There(c) == parent[c] # Gone
Places == {Root} \cup {c \in Shelves : There(c)}
Fills(c, kind) ==
  [k \in Curators |-> IF curator[k].pc # "idle" /\ curator[k].id = c
                      THEN [curator[k] EXCEPT !.added = @ \cup {kind}] ELSE curator[k]]

Children(c) == {d \in Shelves : parent[d] = c}
Contents(c) == {a \in Articles : filed[a] = c}

-----------------------------------------------------------------------------
CreateCategory(c, p, d) ==
  /\ ~ There(c) /\ \A k \in Curators : curator[k].id # c
  /\ p # c /\ p \in Places
  /\ parent' = [parent EXCEPT ![c] = p]
  /\ demo' = IF d THEN demo \cup {c} ELSE demo
  /\ curator' = Fills(p, "category")
  /\ UNCHANGED filed

(* Any category may become the parent, the category itself included.       *)
UpdateCategory(c, p) ==
  /\ There(c) /\ p \in Places
  /\ parent' = [parent EXCEPT ![c] = p]
  /\ curator' = Fills(p, "category")
  /\ UNCHANGED <<demo, filed>>

FileArticle(a, c) ==
  /\ c \in Places
  /\ filed' = [filed EXCEPT ![a] = c]
  /\ curator' = Fills(c, "product")
  /\ UNCHANGED <<parent, demo>>

-----------------------------------------------------------------------------
(* delete reads the category with its counts in one query; unless forced,  *)
(* counts that are not zero are taken once more, the products in one query *)
(* and the subcategories in the next; then the row is deleted.             *)

(* Mutant: subcategories are not counted.                                  *)
OnlyArticles(c) == Contents(c) = {}

IsEmpty(c) == Contents(c) = {} /\ Children(c) = {}

StartDeletion(k, c, force) ==
  /\ curator[k].pc = "idle"
  /\ There(c)
  /\ curator' = [curator EXCEPT ![k] =
                   [pc |-> IF force \/ IsEmpty(c) THEN "delete" ELSE "countProducts",
                    id |-> c, force |-> force, found |-> FALSE, added |-> {}]]
  /\ UNCHANGED <<parent, demo, filed>>

CountProducts(k) ==
  /\ curator[k].pc = "countProducts"
  /\ curator' = [curator EXCEPT ![k].pc = "countChildren", ![k].found = Contents(curator[k].id) # {},
                                ![k].added = @ \ {"product"}]
  /\ UNCHANGED <<parent, demo, filed>>

CountChildren(k) ==
  /\ curator[k].pc = "countChildren"
  /\ curator' = [curator EXCEPT ![k] =
                   IF curator[k].found \/ Children(curator[k].id) # {} THEN IdleCurator
                   ELSE [curator[k] EXCEPT !.pc = "delete", !.added = @ \ {"category"}]]
  /\ UNCHANGED <<parent, demo, filed>>

Delist(cs) ==
  /\ parent' = [c \in Shelves |-> IF c \in cs THEN Gone ELSE IF parent[c] \in cs THEN Root ELSE parent[c]]
  /\ filed' = [a \in Articles |-> IF filed[a] \in cs THEN Root ELSE filed[a]]
  /\ demo' = demo \ cs

DeleteCategory(k) ==
  /\ curator[k].pc = "delete"
  /\ There(curator[k].id)
  /\ Delist({curator[k].id})
  /\ curator' = [curator EXCEPT ![k] = IdleCurator]

(* The last statement of clearDemoData.                                    *)
ClearDemoCategories ==
  /\ demo # {}
  /\ Delist(demo)
  /\ UNCHANGED curator

DeletionFails(k) ==
  /\ curator[k].pc # "idle"
  /\ curator' = [curator EXCEPT ![k] = IdleCurator]
  /\ UNCHANGED <<parent, demo, filed>>

CategoriesNext ==
  \/ \E c \in Shelves, p \in Shelves \cup {Root} :
       (\E d \in BOOLEAN : CreateCategory(c, p, d)) \/ UpdateCategory(c, p)
  \/ \E a \in Articles, c \in Shelves \cup {Root} : FileArticle(a, c)
  \/ \E k \in Curators :
       \/ \E c \in Shelves, force \in BOOLEAN : StartDeletion(k, c, force)
       \/ CountProducts(k) \/ CountChildren(k) \/ DeleteCategory(k) \/ DeletionFails(k)
  \/ ClearDemoCategories

CategoriesSpec == CategoriesInit /\ [][CategoriesNext]_categoriesVars

-----------------------------------------------------------------------------
(* A deletion that is not forced takes the parent from a subcategory only  *)
(* if one was put there after the subcategories were last counted, and the *)
(* category from a product only if one was filed there after the products  *)
(* were - which may be before the count of the subcategories.              *)
OrphansOnlyRaced ==
  [][\A k \in Curators :
       LET c == curator[k].id
       IN  (/\ curator[k].pc = "delete" /\ curator'[k].pc = "idle" /\ ~ curator[k].force
            /\ parent'[c] = Gone) =>
           /\ "category" \in curator[k].added \/ \A d \in Shelves \ {c} : parent'[d] = parent[d]
           /\ "product" \in curator[k].added \/ filed' = filed]_categoriesVars
=============================================================================
