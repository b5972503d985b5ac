----------------------------- MODULE ShopProofs -----------------------------
(***************************************************************************)
(* MCShop runs one component at a time beside the others.  That it runs    *)
(* each of them as its own module specifies it - from an initial state of  *)
(* the component, by its steps only, and standing still while another is   *)
(* in focus - is what lets a theorem about a component speak of the shop,  *)
(* and what the run finds of the shop speak of the component.              *)
(***************************************************************************)
EXTENDS MCShop, InventoryProofs, CustomerProofs, UserProofs, CatalogProofs,
        CsvParserProofs

-----------------------------------------------------------------------------
(* A step of the shop is one of the component in focus.                    *)

LEMMA FocusStays ==
  ASSUME [ShopNext]_shopVars
  PROVE  focus' = focus
BY Zenon DEF ShopNext, OthersPark, shopVars

LEMMA InventoryInShop == ShopSpec => InventorySpec
<1>1. ShopInit => InventoryInit  BY DEF ShopInit
<1>2. [ShopNext]_shopVars => [InventoryNext]_inventoryVars
  BY Zenon DEF ShopNext, OthersPark, shopVars
<1> QED BY <1>1, <1>2, PTL DEF ShopSpec, InventorySpec

LEMMA CheckoutInShop == ShopSpec => CheckoutSpec
<1>1. ShopInit => CheckoutInit  BY DEF ShopInit
<1>2. [ShopNext]_shopVars => [CheckoutNext]_checkoutVars
  BY Zenon DEF ShopNext, OthersPark, shopVars
<1> QED BY <1>1, <1>2, PTL DEF ShopSpec, CheckoutSpec

LEMMA CartInShop == ShopSpec => CartSpec
<1>1. ShopInit => CartInit  BY DEF ShopInit
<1>2. [ShopNext]_shopVars => [CartNext]_cartVars
  BY Zenon DEF ShopNext, OthersPark, shopVars
<1> QED BY <1>1, <1>2, PTL DEF ShopSpec, CartSpec

LEMMA WalletInShop == ShopSpec => WalletSpec
<1>1. ShopInit => WalletInit  BY DEF ShopInit
<1>2. [ShopNext]_shopVars => [WalletNext]_walletVars
  BY Zenon DEF ShopNext, OthersPark, shopVars
<1> QED BY <1>1, <1>2, PTL DEF ShopSpec, WalletSpec

LEMMA SessionsInShop == ShopSpec => SessionsSpec
<1>1. ShopInit => SessionsInit  BY DEF ShopInit
<1>2. [ShopNext]_shopVars => [SessionsNext]_sessionsVars
  BY Zenon DEF ShopNext, OthersPark, shopVars
<1> QED BY <1>1, <1>2, PTL DEF ShopSpec, SessionsSpec

LEMMA RegistrationInShop == ShopSpec => RegistrationSpec
<1>1. ShopInit => RegistrationInit  BY DEF ShopInit
<1>2. [ShopNext]_shopVars => [RegistrationNext]_registrationVars
  BY Zenon DEF ShopNext, OthersPark, shopVars
<1> QED BY <1>1, <1>2, PTL DEF ShopSpec, RegistrationSpec

LEMMA StaffInShop == ShopSpec => StaffSpec
<1>1. ShopInit => StaffInit  BY DEF ShopInit
<1>2. [ShopNext]_shopVars => [StaffNext]_staffVars
  BY Zenon DEF ShopNext, OthersPark, shopVars
<1> QED BY <1>1, <1>2, PTL DEF ShopSpec, StaffSpec

LEMMA CsvImportInShop == ShopSpec => CsvImportSpec
<1>1. ShopInit => CsvImportInit  BY DEF ShopInit
<1>2. [ShopNext]_shopVars => [CsvImportNext]_csvImportVars
  BY Zenon DEF ShopNext, OthersPark, shopVars
<1> QED BY <1>1, <1>2, PTL DEF ShopSpec, CsvImportSpec

LEMMA CategoriesInShop == ShopSpec => CategoriesSpec
<1>1. ShopInit => CategoriesInit  BY DEF ShopInit
<1>2. [ShopNext]_shopVars => [CategoriesNext]_categoriesVars
  BY Zenon DEF ShopNext, OthersPark, shopVars
<1> QED BY <1>1, <1>2, PTL DEF ShopSpec, CategoriesSpec

LEMMA CsvParserInShop == ShopSpec => CsvParserSpec
<1>1. ShopInit => CsvParserInit  BY DEF ShopInit
<1>2. [ShopNext]_shopVars => [CsvParserNext]_csvParserVars
  BY Zenon DEF ShopNext, OthersPark, shopVars
<1> QED BY <1>1, <1>2, PTL DEF ShopSpec, CsvParserSpec

LEMMA MarketplaceInShop == ShopSpec => MarketplaceSpec
<1>1. ShopInit => MarketplaceInit  BY DEF ShopInit
<1>2. [ShopNext]_shopVars => [MarketplaceNext]_marketplaceVars
  BY Zenon DEF ShopNext, OthersPark, shopVars
<1> QED BY <1>1, <1>2, PTL DEF ShopSpec, MarketplaceSpec

-----------------------------------------------------------------------------
(* A behaviour of the shop is, of each component, a behaviour its module   *)
(* allows: the instance that is model-checked adds nothing of its own.     *)
THEOREM ShopIsItsParts ==
  ShopSpec =>
    /\ InventorySpec
    /\ CheckoutSpec
    /\ CartSpec
    /\ WalletSpec
    /\ SessionsSpec
    /\ RegistrationSpec
    /\ StaffSpec
    /\ CsvImportSpec
    /\ CategoriesSpec
    /\ CsvParserSpec
    /\ MarketplaceSpec
BY InventoryInShop, CheckoutInShop, CartInShop, WalletInShop, SessionsInShop,
   RegistrationInShop, StaffInShop, CsvImportInShop, CategoriesInShop, CsvParserInShop,
   MarketplaceInShop

LEMMA FocusIsAPart == ShopSpec => [](focus \in Parts)
<1>1. ShopInit => focus \in Parts  BY DEF ShopInit
<1>2. focus \in Parts /\ [ShopNext]_shopVars => (focus \in Parts)'
  BY FocusStays
<1> QED BY <1>1, <1>2, PTL DEF ShopSpec

(* Whichever component is in focus, its state is of the types its module   *)
(* declares, for any values of the constants of all of them.               *)
THEOREM ShopTypeCorrect == ShopSpec => []ShopTypeOK
<1> DEFINE AllTyped == /\ InventoryTypeOK
                   /\ CheckoutTypeOK
                   /\ CartTypeOK
                   /\ WalletTypeOK
                   /\ SessionsTypeOK
                   /\ RegistrationTypeOK
                   /\ StaffTypeOK
                   /\ CsvImportTypeOK
                   /\ CategoriesTypeOK
                   /\ CsvParserTypeOK
                   /\ MarketplaceTypeOK
<1>1. AllTyped /\ focus \in Parts => ShopTypeOK
  BY DEF Parts, ShopTypeOK
<1> HIDE DEF AllTyped
<1>2. ShopSpec => []AllTyped
  BY InventoryInShop, InventoryTypeCorrect, CheckoutInShop, CheckoutTypeCorrect,
     CartInShop, CartTypeCorrect, WalletInShop, WalletTypeCorrect, SessionsInShop,
     SessionsTypeCorrect, RegistrationInShop, RegistrationTypeCorrect, StaffInShop,
     StaffTypeCorrect, CsvImportInShop, CsvImportTypeCorrect, CategoriesInShop,
     CategoriesTypeCorrect, CsvParserInShop, CsvParserTypeCorrect, MarketplaceInShop,
     MarketplaceTypeCorrect, PTL DEF AllTyped
<1> QED BY <1>1, <1>2, FocusIsAPart, PTL
=============================================================================
