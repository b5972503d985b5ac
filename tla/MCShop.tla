------------------------------- MODULE MCShop -------------------------------
(***************************************************************************)
(* One instance of every component that shares no variable with another.   *)
(* A behaviour is about one of them, its focus, chosen at the start; the   *)
(* others are parked in one of their initial states, so that the states of *)
(* the components add up where an interleaving would multiply them.        *)
(* Nothing is lost: no action here reads another component's variables.    *)
(* Catalog and Listings are composed in MCCatalog in the same way.         *)
(***************************************************************************)
EXTENDS Inventory, Checkout, Cart, Wallet, Sessions, Registration, Staff, CsvImport,
        Categories, CsvParser, Marketplace

CONSTANTS a1, a2, r1, r2, g1, g2

VARIABLE focus

Parts == {"inventory", "checkout", "cart", "wallet", "sessions", "registration", "staff",
          "csvImport", "categories", "csvParser", "marketplace"}

-----------------------------------------------------------------------------
(* The values of the constants.                                            *)
ShopGoodType == [g \in Goods |-> IF g = g1 THEN "ACCOUNT" ELSE "KEY"]
ShopImports == {<<"ACCOUNT", g1>>, <<"KEY", g1>>, <<"ACCOUNT", g2>>}
ShopDiscounts == {[type |-> "PERCENTAGE", value |-> 50], [type |-> "FIXED", value |-> 5]}
ShopLower == [e \in Emails |-> IF e = "Ana" THEN "ana" ELSE e]
ShopTitled == {<<"Doom">>, <<"Doom", Comma, "II">>, <<QuoteMark, "Doom", "apostrophe", QuoteMark>>,
               <<"II", Comma, QuoteMark, QuoteMark>>}
ShopHints == [r \in Regions |-> IF r = "europa" THEN {"eu"} ELSE {"ar", "conta"}]
ShopProducts ==
  {p \in Product : \/ p.name = <<"Doom">> /\ p.region = "none" /\ p.price.part # <<"00">>
                   \/ /\ p.region # "none" /\ p.style = "BRL"
                      /\ p.price = [whole |-> <<"7", "234">>, part |-> <<"50">>]}

(* One set of values serves the actors of every component, another their   *)
(* rows: a behaviour is about one component, so they never meet.           *)
ShopSymmetry == Permutations({a1, a2}) \cup Permutations({r1, r2})

-----------------------------------------------------------------------------
(* Where a component may start from many states, the instance names those  *)
(* it starts from, and one of them for the time the component is parked.   *)
ShopInit ==
  /\ focus \in Parts
  /\ InventoryInit /\ WalletInit /\ SessionsInit /\ CategoriesInit
  /\ MarketplaceInit
  /\ focus # "marketplace" => customer = Nobody
  /\ CheckoutInit
  /\ \A p \in Wares, q \in Prices : q <= ware[p].price
  /\ coupon.max = Unlimited <=> coupon.discount.type = "PERCENTAGE"
  /\ focus # "checkout" => coupon.max = Unlimited
  /\ CartInit
  /\ focus # "cart" => \A p \in Offers : offer[p].stock = 0
  /\ RegistrationInit
  /\ \A a \in Accounts : account[a] # Unwritten => focus = "registration" /\ account[a].email = "bia"
  /\ StaffInit
  /\ focus # "staff" => \A u \in People : role[u] = NoPerson
  /\ CsvImportInit
  /\ focus # "csvImport" => ~ sellable
  /\ CsvParserInit
  /\ focus # "csvParser" => layout = 3

OthersPark ==
  /\ UNCHANGED focus
  /\ IF focus = "inventory" THEN TRUE ELSE UNCHANGED inventoryVars
  /\ IF focus = "checkout" THEN TRUE ELSE UNCHANGED checkoutVars
  /\ IF focus = "cart" THEN TRUE ELSE UNCHANGED cartVars
  /\ IF focus = "wallet" THEN TRUE ELSE UNCHANGED walletVars
  /\ IF focus = "sessions" THEN TRUE ELSE UNCHANGED sessionsVars
  /\ IF focus = "registration" THEN TRUE ELSE UNCHANGED registrationVars
  /\ IF focus = "staff" THEN TRUE ELSE UNCHANGED staffVars
  /\ IF focus = "csvImport" THEN TRUE ELSE UNCHANGED csvImportVars
  /\ IF focus = "categories" THEN TRUE ELSE UNCHANGED categoriesVars
  /\ IF focus = "csvParser" THEN TRUE ELSE UNCHANGED csvParserVars
  /\ IF focus = "marketplace" THEN TRUE ELSE UNCHANGED marketplaceVars

ShopNext ==
  /\ OthersPark
  /\ \/ focus = "inventory" /\ InventoryNext
     \/ focus = "checkout" /\ CheckoutNext
     \/ focus = "cart" /\ CartNext
     \/ focus = "wallet" /\ WalletNext
     \/ focus = "sessions" /\ SessionsNext
     \/ focus = "registration" /\ RegistrationNext
     \/ focus = "staff" /\ StaffNext
     \/ focus = "csvImport" /\ CsvImportNext
     \/ focus = "categories" /\ CategoriesNext
     \/ focus = "csvParser" /\ CsvParserNext
     \/ focus = "marketplace" /\ MarketplaceNext

shopVars == <<focus, inventoryVars, checkoutVars, cartVars, walletVars, sessionsVars,
              registrationVars, staffVars, csvImportVars, categoriesVars, csvParserVars,
              marketplaceVars>>

ShopSpec == ShopInit /\ [][ShopNext]_shopVars

(* The type invariant of the component in focus.                            *)
ShopTypeOK ==
  CASE focus = "inventory" -> InventoryTypeOK
    [] focus = "checkout" -> CheckoutTypeOK
    [] focus = "cart" -> CartTypeOK
    [] focus = "wallet" -> WalletTypeOK
    [] focus = "sessions" -> SessionsTypeOK
    [] focus = "registration" -> RegistrationTypeOK
    [] focus = "staff" -> StaffTypeOK
    [] focus = "csvImport" -> CsvImportTypeOK
    [] focus = "categories" -> CategoriesTypeOK
    [] focus = "csvParser" -> CsvParserTypeOK
    [] focus = "marketplace" -> MarketplaceTypeOK

(* What tells two states apart: the parked components never change.        *)
ShopView ==
  CASE focus = "inventory" -> <<focus, inventoryVars>>
    [] focus = "checkout" -> <<focus, checkoutVars>>
    [] focus = "cart" -> <<focus, cartVars>>
    [] focus = "wallet" -> <<focus, walletVars>>
    [] focus = "sessions" -> <<focus, sessionsVars>>
    [] focus = "registration" -> <<focus, registrationVars>>
    [] focus = "staff" -> <<focus, staffVars>>
    [] focus = "csvImport" -> <<focus, csvImportVars>>
    [] focus = "categories" -> <<focus, categoriesVars>>
    [] focus = "csvParser" -> <<focus, csvParserVars>>
    [] focus = "marketplace" -> <<focus, marketplaceVars>>
=============================================================================
