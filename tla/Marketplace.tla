---------------------------- MODULE Marketplace ----------------------------
(***************************************************************************)
(* Sellers and the share of a payment that goes to one of them:            *)
(* sellers.service (the row first, then the sub-account at Asaas),         *)
(* payment-provider.factory createAsaasIntent (the seller, the customer    *)
(* and the charge with its split) and the notice payments.service sends    *)
(* to the sellers, one after the other, once the charge is approved.       *)
(*                                                                         *)
(* Asaas is external: a call answers or fails, and it may have acted when  *)
(* it fails.  The intents are first payments of one buyer, side by side.   *)
(***************************************************************************)
EXTENDS Naturals, Sequences, FiniteSets

CONSTANTS
  SellerRows,    \* rows of the table Seller, each used once
  Owners,        \* users who may have a seller profile
  Commissions,   \* percentages the platform keeps
  Intents,       \* charges asked for
  Nobody         \* no customer yet, no seller

ASSUME MarketplaceAssumption == Commissions \subseteq 0 .. 100

VARIABLES
  seller,        \* the sellers: row -> record
  enrolled,      \* the rows in the order of createdAt
  opening,       \* the sub-account of each row: asked for or not
  customer,      \* the buyer's asaasCustomerId, named by the intent it is from
  intent         \* what each charge is doing

marketplaceVars == <<seller, enrolled, opening, customer, intent>>

DefaultCommission == 10
NoSeller == [there |-> FALSE, owner |-> Nobody,
          active |-> FALSE, commission |-> 0, wallet |-> FALSE]
SellerRow == [there : BOOLEAN, owner : Owners \cup {Nobody}, active : BOOLEAN,
              commission : Commissions \cup {0, DefaultCommission}, wallet : BOOLEAN]

(* A share: so many percent to the seller of a row.                        *)
Shares == [row : SellerRows, percent : 0 .. 100]

(* split is the empty set or one share; todo, told and lost are the shares *)
(* of which a mail is still to be sent, was sent, or could not be sent;    *)
(* fresh: the split is decided, and no seller has changed since.           *)
Stages == {"idle", "customer", "save", "charge", "created", "approved", "telling", "cutOff", "refused"}
NoCharge == [pc |-> "idle", split |-> {}, todo |-> {}, told |-> {}, lost |-> {},
             fresh |-> FALSE, payer |-> Nobody]

MarketplaceTypeOK ==
  /\ seller \in [SellerRows -> SellerRow]
  /\ enrolled \in Seq(SellerRows)
  /\ opening \in [SellerRows -> {"no", "asked", "closed"}]
  /\ customer \in Intents \cup {Nobody}
  /\ \A i \in Intents :
       /\ intent[i].pc \in Stages
       /\ intent[i].split \subseteq Shares /\ intent[i].todo \subseteq Shares
       /\ intent[i].told \subseteq Shares /\ intent[i].lost \subseteq Shares
       /\ intent[i].fresh \in BOOLEAN /\ intent[i].payer \in Intents \cup {Nobody}

MarketplaceInit ==
  /\ seller = [s \in SellerRows |-> NoSeller]
  /\ enrolled = <<>>
  /\ opening = [s \in SellerRows |-> "no"]
  /\ customer \in Intents \cup {Nobody}    \* an earlier order may have saved one
  /\ intent = [i \in Intents |-> NoCharge]

Enrolled == {s \in SellerRows : seller[s].there}
Active == {s \in Enrolled : seller[s].active}
Stale == [i \in Intents |-> [intent[i] EXCEPT !.fresh = FALSE]]

-----------------------------------------------------------------------------
(* sellers.service: the row, one per user.                                 *)
CreateSeller(s, u, commission, active) ==
  /\ \A i \in DOMAIN enrolled : enrolled[i] # s
  /\ \A t \in Enrolled : seller[t].owner # u
  /\ seller' = [seller EXCEPT ![s] = [there |-> TRUE, owner |-> u, active |-> active,
                                      commission |-> commission, wallet |-> FALSE]]
  /\ enrolled' = Append(enrolled, s)
  /\ opening' = [opening EXCEPT ![s] = "asked"]
  /\ intent' = Stale
  /\ UNCHANGED customer

(* Then the sub-account.  Whatever fails is logged and the seller stays    *)
(* without a wallet; no other operation writes one.                        *)
OpenSubAccount(s) ==
  /\ opening[s] = "asked" /\ s \in Enrolled
  /\ opening' = [opening EXCEPT ![s] = "closed"]
  /\ seller' = [seller EXCEPT ![s].wallet = TRUE]
  /\ intent' = Stale
  /\ UNCHANGED <<enrolled, customer>>

SubAccountFails(s) ==
  /\ opening[s] = "asked"
  /\ opening' = [opening EXCEPT ![s] = "closed"]
  /\ UNCHANGED <<seller, enrolled, customer, intent>>

UpdateSeller(s, commission, active) ==
  /\ s \in Enrolled
  /\ seller' = [seller EXCEPT ![s].commission = commission, ![s].active = active]
  /\ intent' = Stale
  /\ UNCHANGED <<enrolled, opening, customer>>

DeleteSeller(s) ==
  /\ s \in Enrolled
  /\ seller' = [seller EXCEPT ![s] = NoSeller]
  /\ intent' = Stale
  /\ UNCHANGED <<enrolled, opening, customer>>

-----------------------------------------------------------------------------
(* asaas.provider getSellerWalletForOrder: the newest active seller, if it *)
(* has a wallet.                                                           *)
Newest == {s \in Active : \A i, j \in DOMAIN enrolled :
             enrolled[i] = s /\ enrolled[j] \in Active => j <= i}
SellerOfOrder == {s \in Newest : seller[s].wallet}

(* createAsaasIntent's `commission || 10`: a commission of zero is none.   *)
Charged(commission) == IF commission = 0 THEN DefaultCommission ELSE commission

(* createPayment: the seller gets what the platform does not keep.         *)
(* Mutant: the seller is sent the platform's part.                         *)
PlatformsPart(s) == [row |-> s, percent |-> Charged(seller[s].commission)]
SplitFor(s) == [row |-> s, percent |-> 100 - Charged(seller[s].commission)]

IntentStays == UNCHANGED <<seller, enrolled, opening>>

(* The seller is read first, then the buyer's customer.                    *)
ReadSeller(i) ==
  /\ intent[i].pc = "idle"
  /\ intent' = [intent EXCEPT ![i].pc = "customer", ![i].fresh = TRUE,
                              ![i].split = {SplitFor(s) : s \in SellerOfOrder}]
  /\ IntentStays /\ UNCHANGED customer

(* ensureCustomer: the saved one, or a new one saved over whatever is      *)
(* there by then.                                                          *)
ReadCustomer(i) ==
  /\ intent[i].pc = "customer"
  /\ intent' = [intent EXCEPT ![i].payer = customer,
                              ![i].pc = IF customer = Nobody THEN "save" ELSE "charge"]
  /\ IntentStays /\ UNCHANGED customer

CreateCustomer(i) ==
  /\ intent[i].pc = "save" /\ intent[i].payer = Nobody
  /\ intent' = [intent EXCEPT ![i].payer = i]
  /\ IntentStays /\ UNCHANGED customer

SaveCustomer(i) ==
  /\ intent[i].pc = "save" /\ intent[i].payer = i
  /\ customer' = i
  /\ intent' = [intent EXCEPT ![i].pc = "charge"]
  /\ IntentStays

CreateCharge(i) ==
  /\ intent[i].pc = "charge"
  /\ intent' = [intent EXCEPT ![i].pc = "created"]
  /\ IntentStays /\ UNCHANGED customer

(* No charge: the seller, the order or the buyer cannot be read, or Asaas  *)
(* refuses the customer or the charge.  A customer it has made by then and *)
(* that was not saved is forgotten.                                        *)
RefuseIntent(i) ==
  /\ intent[i].pc \in {"idle", "customer", "save", "charge"}
  /\ intent' = [intent EXCEPT ![i] = [NoCharge EXCEPT !.pc = "refused"]]
  /\ IntentStays /\ UNCHANGED customer

(* payments.service approvePaymentByProviderTxId: the payment is approved, *)
(* its order delivered (no error of that gets out), and then every active  *)
(* seller with a wallet is told of a share at the commission of that       *)
(* moment; here zero stays zero.  Every user has an address.               *)
ApproveCharge(i) ==
  /\ intent[i].pc = "created"
  /\ intent' = [intent EXCEPT ![i].pc = "approved"]
  /\ IntentStays /\ UNCHANGED customer

NoticeFor(s) == [row |-> s, percent |-> 100 - seller[s].commission]
WithWallet == {s \in Active : seller[s].wallet}

ReadSellers(i) ==
  /\ intent[i].pc = "approved"
  /\ intent' = [intent EXCEPT ![i].pc = "telling", ![i].todo = {NoticeFor(s) : s \in WithWallet}]
  /\ IntentStays /\ UNCHANGED customer

(* A mail that cannot be sent is logged, and the next seller is told.      *)
TellSeller(i, share) ==
  /\ intent[i].pc = "telling" /\ share \in intent[i].todo
  /\ \/ intent' = [intent EXCEPT ![i].todo = @ \ {share}, ![i].told = @ \cup {share}]
     \/ intent' = [intent EXCEPT ![i].todo = @ \ {share}, ![i].lost = @ \cup {share}]
  /\ IntentStays /\ UNCHANGED customer

(* The query of the sellers fails, which is caught and logged, or the      *)
(* process stops.  The repeated event finds the payment approved and is    *)
(* skipped: whoever has not been told never is.                            *)
CutNoticeOff(i) ==
  /\ intent[i].pc \in {"approved", "telling"}
  /\ intent' = [intent EXCEPT ![i].pc = "cutOff"]
  /\ IntentStays /\ UNCHANGED customer

MarketplaceNext ==
  \/ \E s \in SellerRows, c \in Commissions, a \in BOOLEAN :
       \/ \E u \in Owners : CreateSeller(s, u, c, a)
       \/ UpdateSeller(s, c, a)
  \/ \E s \in SellerRows : OpenSubAccount(s) \/ SubAccountFails(s) \/ DeleteSeller(s)
  \/ \E i \in Intents : \/ ReadSeller(i) \/ ReadCustomer(i) \/ CreateCustomer(i)
                        \/ SaveCustomer(i) \/ CreateCharge(i) \/ RefuseIntent(i)
                        \/ ApproveCharge(i) \/ ReadSellers(i) \/ CutNoticeOff(i)
                        \/ \E share \in Shares : TellSeller(i, share)

MarketplaceSpec == MarketplaceInit /\ [][MarketplaceNext]_marketplaceVars

-----------------------------------------------------------------------------
(* When no seller has changed since the split of a charge was decided, the *)
(* seller in the split is told of that very percentage, unless its         *)
(* commission is zero; it has been told when all the mails are out, unless *)
(* that mail could not be sent; and where there is one active seller,      *)
(* nobody is told of a share that the charge does not carry.  The split    *)
(* and the notice are two reads of the table, minutes or days apart, with  *)
(* two defaults: `|| 10` and `?? 10`.                                      *)
NoticeMatchesSplit ==
  \A i \in Intents :
    LET c == intent[i] IN
      c.fresh =>
        /\ \A share \in c.split, told \in c.told :
             told.row = share.row /\ told.percent # 100 => told.percent = share.percent
        /\ c.pc = "telling" /\ c.todo = {} =>
             \A share \in c.split : \E told \in c.told \cup c.lost : told.row = share.row
        /\ Cardinality(Active) = 1 =>
             \A told \in c.told : \E share \in c.split : share.row = told.row
=============================================================================
