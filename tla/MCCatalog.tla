----------------------------- MODULE MCCatalog -----------------------------
(***************************************************************************)
(* One product and the listings it is shown in, for TLC.  A behaviour is   *)
(* about one of the two, its focus; the other is parked, since neither     *)
(* reads the other's variables.                                            *)
(***************************************************************************)
EXTENDS Catalog, Listings

VARIABLE focus

allOfCatalog == <<focus, catalogVars, listingsVars>>

FocusInit ==
  /\ focus \in {"catalog", "listings"}
  /\ CatalogInit /\ ListingsInit
  /\ focus = "catalog" =>
       /\ place = [i \in ListRows |-> 0] /\ reader.listing = AllProducts
       /\ \A n \in PageLimits : reader.limit <= n

FocusNext ==
  /\ UNCHANGED focus
  /\ \/ focus = "catalog" /\ CatalogNext /\ UNCHANGED listingsVars
     \/ focus = "listings" /\ ListingsNext /\ UNCHANGED catalogVars

FocusSpec == FocusInit /\ [][FocusNext]_allOfCatalog

(* The product, its units, the listed rows and what every request is doing *)
(* stay of the types that their modules declare.                           *)
FocusTypeOK == CatalogTypeOK /\ ListingsTypeOK
=============================================================================
