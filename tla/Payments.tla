------------------------------ MODULE Payments ------------------------------
(***************************************************************************)
(* Payments on top of fulfilment: the payment record of an order, the      *)
(* charges it has at the provider (Asaas), and the handlers of             *)
(* payments.service: createPayment, refundPayment and the webhook events   *)
(* that approve, refund and reject.  Approving a payment delivers the      *)
(* order inside the same request.                                          *)
(*                                                                         *)
(* A worker that handles a payment request has its place in call[w]; while *)
(* it delivers or changes the order's status, job[w] is where Fulfilment   *)
(* has got to.  Orders are also delivered, changed and cancelled by        *)
(* requests of their own, for which call[w] stays idle.                    *)
(***************************************************************************)
EXTENDS Fulfilment

CONSTANTS
  Charges,        \* provider transaction ids
  AdminTargets,   \* the statuses that PATCH /orders/:id/status and cancel ask for
  Methods,        \* payment methods asked for: "PIX", or "CARD" for all others
  Ops,            \* the requests and provider actions of a run
  Faults          \* of "crash" and "statement"

AllOps == {"deliver", "update", "pay", "refund", "chargeCancelled", "providerRefund"}

ASSUME PaymentsAssumption ==
  /\ None \notin Charges
  /\ AdminTargets \cup {"PROCESSING"} \subseteq Targets
  /\ Methods \subseteq {"PIX", "CARD"}
  /\ Ops \subseteq AllOps
  /\ Faults \subseteq {"crash", "statement"}

VARIABLES
  payStatus,      \* Payment.status, "NONE" while the order has no payment
  payCharge,      \* Payment.providerTxId
  payExpired,     \* Payment.expiresAt has passed
  charge,         \* the provider's view of each charge
  chargeOrder,    \* the order each charge was created for
  call            \* the payment request each worker handles

payTables == <<payStatus, payCharge, payExpired>>
provider == <<charge, chargeOrder>>
payVars == <<payStatus, payCharge, payExpired, charge, chargeOrder, call>>
allVars == <<vars, payVars>>

Events == {"RECEIVED", "REFUNDED", "CANCELLED"}
ChargeStates == {"unused", "open", "paid", "refunded", "cancelled"}

CallPcs == {"idle", "event", "approve", "approveWrite", "findOrder", "delivering",
            "demote", "demoting", "markRefunded", "reject",
            "lookup", "intent", "create", "replace",
            "refund", "providerRefund", "storeRefund"}

Call == [pc : CallPcs, event : Events \cup {None}, method : Methods \cup {None},
         ord : Orders \cup {None}, charge : Charges \cup {None}]

IdleCall == [pc |-> "idle", event |-> None, method |-> None, ord |-> None, charge |-> None]

PayTypeOK ==
  /\ payStatus \in [Orders -> PaymentStatuses \cup {"NONE"}]
  /\ payCharge \in [Orders -> Charges \cup {None}]
  /\ payExpired \in [Orders -> BOOLEAN]
  /\ charge \in [Charges -> ChargeStates]
  /\ chargeOrder \in [Charges -> Orders \cup {None}]
  /\ call \in [Workers -> Call]

PayInit ==
  /\ Init
  /\ payStatus = [o \in Orders |-> "NONE"]
  /\ payCharge = [o \in Orders |-> None]
  /\ payExpired = [o \in Orders |-> FALSE]
  /\ charge = [c \in Charges |-> "unused"]
  /\ chargeOrder = [c \in Charges |-> None]
  /\ call = [w \in Workers |-> IdleCall]

Free(w) == call[w].pc = "idle" /\ job[w].pc = "idle"
At(w, pc) == call[w].pc = pc /\ job[w].pc = "idle"

Goto(w, pc) == call' = [call EXCEPT ![w].pc = pc]
Answer(w)   == call' = [call EXCEPT ![w] = IdleCall]

-----------------------------------------------------------------------------
(* createPayment.  The order's status is not looked at.                    *)

StartPay(w, o, m) ==
  /\ "pay" \in Ops
  /\ Free(w)
  /\ call' = [call EXCEPT ![w] = [IdleCall EXCEPT !.pc = "lookup", !.ord = o, !.method = m]]
  /\ UNCHANGED <<vars, payTables, provider>>

(* findByOrderId and the branches on what it returned.  A PIX payment that *)
(* is pending and not expired is returned; so is, for the other methods,   *)
(* one that is pending or approved.                                        *)
LookupPayment(w) ==
  LET o == call[w].ord
      m == call[w].method
  IN  /\ At(w, "lookup")
      /\ \/ /\ payStatus[o] = "NONE"
            /\ Goto(w, IF m = "PIX" THEN "intent" ELSE "create")
         \/ /\ m = "PIX" /\ payStatus[o] = "PENDING" /\ payExpired[o]
            /\ call' = [call EXCEPT ![w].pc = "intent", ![w].charge = payCharge[o]]
         \/ /\ payStatus[o] # "NONE"
            /\ ~ (m = "PIX" /\ payStatus[o] = "PENDING" /\ payExpired[o])
            /\ Answer(w)
      /\ UNCHANGED <<vars, payTables, provider>>

(* createPaymentIntent: the provider creates a charge.  The old one of an  *)
(* expired payment stays open: nothing cancels it.                         *)
CreateIntent(w, c) ==
  /\ At(w, "intent")
  /\ charge[c] = "unused"
  /\ charge' = [charge EXCEPT ![c] = "open"]
  /\ chargeOrder' = [chargeOrder EXCEPT ![c] = call[w].ord]
  /\ call' = [call EXCEPT ![w].pc = IF call[w].charge = None THEN "create" ELSE "replace",
                          ![w].charge = c]
  /\ UNCHANGED <<vars, payTables>>

(* The provider answers with an error, or not at all.                      *)
IntentFails(w) ==
  /\ At(w, "intent")
  /\ Answer(w)
  /\ UNCHANGED <<vars, payTables, provider>>

(* createPixPayment and createPayment: orderId is unique, so the second of *)
(* two concurrent requests throws.                                         *)
CreatePayment(w) ==
  LET o == call[w].ord
  IN  /\ At(w, "create")
      /\ \/ /\ payStatus[o] = "NONE"
            /\ payStatus' = [payStatus EXCEPT ![o] = "PENDING"]
            /\ payCharge' = [payCharge EXCEPT ![o] = call[w].charge]
         \/ /\ payStatus[o] # "NONE"
            /\ UNCHANGED <<payStatus, payCharge>>
      /\ Answer(w)
      /\ UNCHANGED <<vars, payExpired, provider>>

(* updatePixPaymentForOrder: back to PENDING with the new charge, whatever *)
(* the payment has become since it was read.                               *)
ReplacePix(w) ==
  LET o == call[w].ord
  IN  /\ At(w, "replace")
      /\ payStatus' = [payStatus EXCEPT ![o] = "PENDING"]
      /\ payCharge' = [payCharge EXCEPT ![o] = call[w].charge]
      /\ payExpired' = [payExpired EXCEPT ![o] = FALSE]
      /\ Answer(w)
      /\ UNCHANGED <<vars, provider>>

(* expiresAt, 15 minutes after creation, only exists for a PIX payment.    *)
PixExpires(o) ==
  /\ payStatus[o] = "PENDING"
  /\ payCharge[o] # None
  /\ payExpired' = [payExpired EXCEPT ![o] = TRUE]
  /\ UNCHANGED <<vars, payStatus, payCharge, provider, call>>

-----------------------------------------------------------------------------
(* The provider.  A charge stays payable for days after the local expiry.  *)
(* An event can be delivered any number of times and at any time after it  *)
(* became true.                                                            *)

CustomerPays(c) ==
  /\ charge[c] = "open"
  /\ charge' = [charge EXCEPT ![c] = "paid"]
  /\ UNCHANGED <<vars, payTables, chargeOrder, call>>

ChargeCancelled(c) ==
  /\ "chargeCancelled" \in Ops
  /\ charge[c] = "open"
  /\ charge' = [charge EXCEPT ![c] = "cancelled"]
  /\ UNCHANGED <<vars, payTables, chargeOrder, call>>

ProviderRefunds(c) ==
  /\ "providerRefund" \in Ops
  /\ charge[c] = "paid"
  /\ charge' = [charge EXCEPT ![c] = "refunded"]
  /\ UNCHANGED <<vars, payTables, chargeOrder, call>>

Happened(c, e) ==
  \/ e = "RECEIVED" /\ charge[c] \in {"paid", "refunded"}
  \/ e = "REFUNDED" /\ charge[c] = "refunded"
  \/ e = "CANCELLED" /\ charge[c] = "cancelled"

-----------------------------------------------------------------------------
(* The webhook handler.  It answers HTTP 200 on every path, so a branch    *)
(* that throws is the end of the event.                                    *)

ReceiveEvent(w, c, e) ==
  /\ Free(w)
  /\ Happened(c, e)
  /\ call' = [call EXCEPT ![w] = [IdleCall EXCEPT !.pc = "event", !.event = e, !.charge = c]]
  /\ UNCHANGED <<vars, payTables, provider>>

(* findByProviderTxId and the checks made on what it returned: a payment   *)
(* already approved, or whose order is PAID, is skipped on RECEIVED; one   *)
(* already refunded on REFUNDED.                                           *)
Skips(e, o) ==
  \/ e = "RECEIVED" /\ (payStatus[o] = "APPROVED" \/ status[o] = "PAID")
  \/ e = "REFUNDED" /\ payStatus[o] = "REFUNDED"

(* Mutant: the event of a charge that was cancelled approves the payment.  *)
CancelledApproves(e) ==
  [RECEIVED |-> "approve", REFUNDED |-> "markRefunded", CANCELLED |-> "approve"][e]

AfterLookup(e) ==
  [RECEIVED |-> "approve", REFUNDED |-> "markRefunded", CANCELLED |-> "reject"][e]

LookupEvent(w) ==
  LET e == call[w].event
      known == {o \in Orders : payCharge[o] = call[w].charge}
  IN  /\ At(w, "event")
      /\ \/ /\ known = {}
            /\ Answer(w)
         \/ \E o \in known :
              \/ Skips(e, o) /\ Answer(w)
              \/ /\ ~ Skips(e, o)
                 /\ call' = [call EXCEPT ![w].pc = AfterLookup(e), ![w].ord = o]
      /\ UNCHANGED <<vars, payTables, provider>>

(* approvePayment, a transaction: read the payment again; unless APPROVED, *)
(* set it APPROVED with this event's charge and the order PAID, both       *)
(* unconditionally.  Either way the order is then looked up for delivery.  *)
ReadForApproval(w) ==
  /\ At(w, "approve")
  /\ Goto(w, IF payStatus[call[w].ord] = "APPROVED" THEN "findOrder" ELSE "approveWrite")
  /\ UNCHANGED <<vars, payTables, provider>>

(* Mutant: the payment keeps the charge it names now.                      *)
ApprovalKeepsCharge(w) ==
  /\ At(w, "approveWrite")
  /\ payStatus' = [payStatus EXCEPT ![call[w].ord] = "APPROVED"]
  /\ PaymentApproved(call[w].ord)
  /\ Goto(w, "findOrder")
  /\ UNCHANGED <<payCharge, payExpired, provider>>

(* Mutant: the order's status is written to the payment.                   *)
ApprovalWritesOrderStatus(w) ==
  LET o == call[w].ord
  IN  /\ At(w, "approveWrite")
      /\ payStatus' = [payStatus EXCEPT ![o] = "PAID"]
      /\ payCharge' = [payCharge EXCEPT ![o] = call[w].charge]
      /\ PaymentApproved(o)
      /\ Goto(w, "findOrder")
      /\ UNCHANGED <<payExpired, provider>>

CommitApproval(w) ==
  LET o == call[w].ord
  IN  /\ At(w, "approveWrite")
      /\ payStatus' = [payStatus EXCEPT ![o] = "APPROVED"]
      /\ payCharge' = [payCharge EXCEPT ![o] = call[w].charge]
      /\ PaymentApproved(o)
      /\ Goto(w, "findOrder")
      /\ UNCHANGED <<payExpired, provider>>

(* deliverOrderByPayment: deliver unless DELIVERED; when that fails, and   *)
(* only then, updateStatus(PROCESSING).  Both outcomes are swallowed.      *)
AlreadyDelivered(w) ==
  /\ At(w, "findOrder")
  /\ status[call[w].ord] = "DELIVERED"
  /\ Answer(w)
  /\ UNCHANGED <<vars, payTables, provider>>

DeliverPaidOrder(w) ==
  /\ At(w, "findOrder")
  /\ status[call[w].ord] # "DELIVERED"
  /\ StartDeliver(w, call[w].ord)
  /\ Goto(w, "delivering")
  /\ UNCHANGED <<payTables, provider>>

(* Mutant: a delivery that failed is only logged.                          *)
DeliveryErrorLogged(w) ==
  /\ call[w].pc = "delivering"
  /\ Return(w)
  /\ Answer(w)
  /\ UNCHANGED <<payTables, provider>>

DeliveryReturns(w) ==
  /\ call[w].pc = "delivering"
  /\ Return(w)
  /\ IF job[w].pc = "done" THEN Answer(w) ELSE Goto(w, "demote")
  /\ UNCHANGED <<payTables, provider>>

DemoteOrder(w) ==
  /\ At(w, "demote")
  /\ StartUpdate(w, call[w].ord, "PROCESSING")
  /\ Goto(w, "demoting")
  /\ UNCHANGED <<payTables, provider>>

DemotionReturns(w) ==
  /\ call[w].pc = "demoting"
  /\ Return(w)
  /\ Answer(w)
  /\ UNCHANGED <<payTables, provider>>

(* markPaymentRefunded; the order is left as it is.                        *)
MarkRefunded(w) ==
  /\ At(w, "markRefunded")
  /\ payStatus' = [payStatus EXCEPT ![call[w].ord] = "REFUNDED"]
  /\ Answer(w)
  /\ UNCHANGED <<vars, payCharge, payExpired, provider>>

(* rejectPayment, a transaction whose read only checks that the payment    *)
(* exists: REJECTED and CANCELLED whatever they were.                      *)
RejectPayment(w) ==
  /\ At(w, "reject")
  /\ payStatus' = [payStatus EXCEPT ![call[w].ord] = "REJECTED"]
  /\ PaymentRejected(call[w].ord)
  /\ Answer(w)
  /\ UNCHANGED <<payCharge, payExpired, provider>>

-----------------------------------------------------------------------------
(* refundPayment (admin): check, refund at the provider, write.            *)

StartRefund(w, o) ==
  /\ "refund" \in Ops
  /\ Free(w)
  /\ payStatus[o] # "NONE"
  /\ call' = [call EXCEPT ![w] = [IdleCall EXCEPT !.pc = "refund", !.ord = o]]
  /\ UNCHANGED <<vars, payTables, provider>>

CheckRefund(w) ==
  LET o == call[w].ord
  IN  /\ At(w, "refund")
      /\ \/ /\ payStatus[o] = "APPROVED" /\ payCharge[o] # None
            /\ call' = [call EXCEPT ![w].pc = "providerRefund", ![w].charge = payCharge[o]]
         \/ /\ ~ (payStatus[o] = "APPROVED" /\ payCharge[o] # None)
            /\ Answer(w)
      /\ UNCHANGED <<vars, payTables, provider>>

(* Mutant: the refund is written without waiting for the provider.         *)
RefundNotAwaited(w) ==
  /\ At(w, "providerRefund")
  /\ Goto(w, "storeRefund")
  /\ UNCHANGED <<vars, payTables, provider>>

(* The provider refuses a charge that is not paid (any more).              *)
RefundAtProvider(w) ==
  LET c == call[w].charge
  IN  /\ At(w, "providerRefund")
      /\ \/ /\ charge[c] = "paid"
            /\ charge' = [charge EXCEPT ![c] = "refunded"]
            /\ Goto(w, "storeRefund")
         \/ /\ charge[c] # "paid"
            /\ Answer(w)
            /\ UNCHANGED charge
      /\ UNCHANGED <<vars, payTables, chargeOrder>>

StoreRefund(w) ==
  /\ At(w, "storeRefund")
  /\ payStatus' = [payStatus EXCEPT ![call[w].ord] = "REFUNDED"]
  /\ Answer(w)
  /\ UNCHANGED <<vars, payCharge, payExpired, provider>>

-----------------------------------------------------------------------------
(* Requests on orders that carry no payment logic, and failures.           *)

OrderRequest(w) ==
  /\ Free(w)
  /\ \E o \in Orders :
       \/ "deliver" \in Ops /\ StartDeliver(w, o)
       \/ "update" \in Ops /\ \E t \in AdminTargets : StartUpdate(w, o, t)
  /\ UNCHANGED payVars

OrderStep(w) == HandlerStep(w) /\ UNCHANGED payVars

OrderRequestReturns(w) ==
  /\ call[w].pc = "idle"
  /\ Return(w)
  /\ UNCHANGED payVars

(* An error in the order part is the order part's to handle; inside        *)
(* deliverOrderByPayment it leads to the demotion.  The findById before    *)
(* the delivery is inside the same try block.                              *)
OrderStepFails(w) ==
  /\ "statement" \in Faults
  /\ StatementFails(w)
  /\ UNCHANGED payVars

PaymentStepFails(w) ==
  /\ "statement" \in Faults
  /\ call[w].pc # "idle" /\ job[w].pc = "idle"
  /\ IF call[w].pc = "findOrder" THEN Goto(w, "demote") ELSE Answer(w)
  /\ UNCHANGED <<vars, payTables, provider>>

ProcessCrash ==
  /\ "crash" \in Faults
  /\ Crash
  /\ call' = [w \in Workers |-> IdleCall]
  /\ UNCHANGED <<payTables, provider>>

-----------------------------------------------------------------------------
PaymentRequest(w) ==
  \/ \E o \in Orders : StartRefund(w, o) \/ \E m \in Methods : StartPay(w, o, m)
  \/ \E c \in Charges, e \in Events : ReceiveEvent(w, c, e)

PaymentStep(w) ==
  \/ LookupPayment(w) \/ CreatePayment(w) \/ ReplacePix(w)
  \/ LookupEvent(w) \/ ReadForApproval(w) \/ CommitApproval(w) \/ AlreadyDelivered(w)
  \/ DeliverPaidOrder(w) \/ DeliveryReturns(w) \/ DemoteOrder(w) \/ DemotionReturns(w)
  \/ MarkRefunded(w) \/ RejectPayment(w)
  \/ IntentFails(w) \/ CheckRefund(w) \/ RefundAtProvider(w) \/ StoreRefund(w)
  \/ \E c \in Charges : CreateIntent(w, c)

Outside ==
  \/ \E o \in Orders : PixExpires(o)
  \/ \E c \in Charges : CustomerPays(c) \/ ChargeCancelled(c) \/ ProviderRefunds(c)

PayNext ==
  \/ \E w \in Workers :
       \/ OrderRequest(w) \/ OrderStep(w) \/ OrderRequestReturns(w) \/ OrderStepFails(w)
       \/ PaymentRequest(w) \/ PaymentStep(w) \/ PaymentStepFails(w)
  \/ Outside
  \/ ProcessCrash

PaySpec == PayInit /\ [][PayNext]_allVars

(* A request that runs keeps running until it is answered.                 *)
HandlersRun ==
  \A w \in Workers : WF_allVars(OrderStep(w) \/ OrderRequestReturns(w) \/ PaymentStep(w))

(* The provider delivers the event of a paid charge again and again.       *)
ProviderPersists ==
  \A c \in Charges : SF_allVars(\E w \in Workers : ReceiveEvent(w, c, "RECEIVED"))

FairPaySpec == PaySpec /\ HandlersRun
RetriedPaySpec == FairPaySpec /\ ProviderPersists

-----------------------------------------------------------------------------
(* Properties.                                                             *)

MoneyCameIn(c) == charge[c] \in {"paid", "refunded"}
PaidFor(o) == \E c \in Charges : chargeOrder[c] = o /\ MoneyCameIn(c)

(* Goods leave only against money: an item that got a unit belongs to an   *)
(* order one of whose charges was paid (statuses set by an administrator   *)
(* aside).  Between the two lie the webhook's lookup by charge, the two    *)
(* PAID checks of the delivery and every write that sets PAID blindly.     *)
GoodsOnlyAgainstMoney ==
  \A i \in Items : link[i] # None => PaidFor(OrderOf[i])

(* An approved payment names a charge of its own order that was paid, even *)
(* when the payment's charge was replaced while its approval was under     *)
(* way: approvePayment writes the charge it approves.                      *)
ApprovalNamesPaidCharge ==
  \A o \in Orders : payStatus[o] = "APPROVED" =>
    /\ payCharge[o] # None
    /\ chargeOrder[payCharge[o]] = o
    /\ MoneyCameIn(payCharge[o])

(* Requests, webhook events and crashes together implement the abstract    *)
(* sale against money: what createPayment, approvePayment, refundPayment,  *)
(* rejectPayment and markPaymentRefunded write to a payment has a cause at *)
(* the provider, although they write without looking at what the payment   *)
(* has become, and a delivery serves orders that money came in for.        *)
OrdersWith(state) == {o \in Orders : \E c \in Charges : chargeOrder[c] = o /\ charge[c] = state}

Shop == INSTANCE PaidSale WITH
          sold <- link, said <- payStatus,
          paid <- {o \in Orders : PaidFor(o)},
          returned <- OrdersWith("refunded"), cancelled <- OrdersWith("cancelled")
PaidSaleRefinement == Shop!PaidSaleSpec

(* "Automatically deliver order after payment approval": an order that is  *)
(* PAID with its payment approved does not stay so.                        *)
PaidIsServed ==
  \A o \in Orders : (status[o] = "PAID" /\ payStatus[o] = "APPROVED") ~> status[o] # "PAID"

(* A refunded payment is not approved again by an event that is delivered  *)
(* once more.                                                              *)
RefundIsFinal ==
  [][\A o \in Orders : payStatus[o] = "REFUNDED" => payStatus'[o] # "APPROVED"]_allVars

(* A payment that was decided is not made PENDING again by a new PIX:      *)
(* "Cannot create a new PIX for payment with status ...".                  *)
DecidedStaysDecided ==
  [][\A o \in Orders : payStatus[o] \notin {"NONE", "PENDING"} => payStatus'[o] # "PENDING"]_allVars

-----------------------------------------------------------------------------
(* The inductive invariants behind the two safety properties.              *)

Named(c, o) == chargeOrder[c] = o /\ charge[c] # "unused"

(* A request knows its order from the moment it has looked it up, and the  *)
(* charge it carries was created for that order; on the way to an approval *)
(* it was also paid.                                                       *)
CallShape(k) ==
  /\ k.pc \notin {"idle", "event"} => k.ord \in Orders
  /\ k.pc = "lookup" => k.charge = None
  /\ k.pc \in {"create", "replace"} /\ k.charge # None => Named(k.charge, k.ord)
  /\ k.pc \in {"event", "approve", "approveWrite"} => k.charge \in Charges
  /\ k.pc = "event" => k.event \in Events
  /\ k.pc = "event" /\ k.event = "RECEIVED" => MoneyCameIn(k.charge)
  /\ k.pc \in {"approve", "approveWrite"} => Named(k.charge, k.ord) /\ MoneyCameIn(k.charge)

ApprovalTrail ==
  /\ \A o \in Orders : payCharge[o] # None => Named(payCharge[o], o)
  /\ \A w \in Workers : CallShape(call[w])

PayInv == PayTypeOK /\ ApprovalTrail /\ ApprovalNamesPaidCharge

(* Behind PaidSaleRefinement: a request that is about to write what became *)
(* of a payment carries a charge of the payment's order of which it is     *)
(* true, and a refund is only sent for a charge of its order.              *)
KnowsCause(k) ==
  /\ k.pc = "event" /\ k.event = "REFUNDED" => charge[k.charge] = "refunded"
  /\ k.pc = "event" /\ k.event = "CANCELLED" => charge[k.charge] = "cancelled"
  /\ k.pc \in {"markRefunded", "reject", "providerRefund", "storeRefund"} =>
       k.charge \in Charges /\ chargeOrder[k.charge] = k.ord
  /\ k.pc \in {"markRefunded", "storeRefund"} => charge[k.charge] = "refunded"
  /\ k.pc = "reject" => charge[k.charge] = "cancelled"
  /\ k.pc = "providerRefund" => charge[k.charge] # "unused"

CausesKnown == \A w \in Workers : KnowsCause(call[w])

(* Behind GoodsOnlyAgainstMoney: PAID is only written by an approval, and  *)
(* a delivery under way has seen it.                                       *)
GoodsTrail ==
  /\ \A o \in Orders : status[o] = "PAID" => PaidFor(o)
  /\ \A w \in Workers :
       /\ job[w].target # "PAID"
       /\ job[w].pc \in {"findItems", "begin"} \cup InDelivery => PaidFor(job[w].ord)
=============================================================================
