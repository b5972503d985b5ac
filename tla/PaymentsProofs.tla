--------------------------- MODULE PaymentsProofs ---------------------------
(***************************************************************************)
(* Proofs about Payments: that it is Fulfilment with a particular          *)
(* environment, so that everything proved of Fulfilment holds of it; that  *)
(* an approved payment names a charge that was paid; and that units only   *)
(* go to orders for which money came in.                                   *)
(***************************************************************************)
EXTENDS Payments, FulfilmentProofs

-----------------------------------------------------------------------------
(* What a step of Payments does to the tables of Fulfilment.               *)

(* The steps of Fulfilment that payments cause or allow.  The approval is  *)
(* the only one with a condition of its own, which is proved below.        *)
OrderSide ==
  \/ \E w \in Workers :
       \/ HandlerStep(w) \/ StatementFails(w) \/ Return(w)
       \/ \E o \in Orders : \/ StartDeliver(w, o)
                            \/ \E t \in AdminTargets \cup {"PROCESSING"} : StartUpdate(w, o, t)
  \/ \E o \in Orders : PaymentRejected(o)
  \/ Crash
  \/ UNCHANGED vars

Approval == \E w \in Workers : CommitApproval(w)

(* Every request, webhook event, provider action and failure is a step of  *)
(* Fulfilment, or leaves its tables and requests alone.                    *)
LEMMA StepOfOrderSide ==
  ASSUME \A w \in Workers :
           call[w].pc \in {"findOrder", "demote", "reject"} => call[w].ord \in Orders,
         [PayNext]_allVars
  PROVE  OrderSide \/ Approval
<1>1. ASSUME NEW w \in Workers, OrderRequest(w)
      PROVE  OrderSide
  BY <1>1 DEF OrderRequest, OrderSide
<1>2. ASSUME NEW w \in Workers,
             OrderStep(w) \/ OrderRequestReturns(w) \/ OrderStepFails(w)
      PROVE  OrderSide
  BY <1>2 DEF OrderStep, OrderRequestReturns, OrderStepFails, OrderSide
<1>3. ASSUME NEW w \in Workers, PaymentRequest(w) \/ PaymentStepFails(w)
      PROVE  OrderSide
  BY <1>3 DEF PaymentRequest, PaymentStepFails, StartRefund, StartPay, ReceiveEvent, OrderSide
<1>4. ASSUME NEW w \in Workers, PaymentStep(w)
      PROVE  OrderSide \/ Approval
  <2>1. CASE \/ LookupPayment(w) \/ CreatePayment(w) \/ ReplacePix(w) \/ IntentFails(w)
             \/ LookupEvent(w) \/ ReadForApproval(w) \/ AlreadyDelivered(w)
             \/ MarkRefunded(w) \/ CheckRefund(w) \/ RefundAtProvider(w) \/ StoreRefund(w)
             \/ \E c \in Charges : CreateIntent(w, c)
    <3>1. UNCHANGED vars
      BY <2>1 DEF LookupPayment, CreatePayment, ReplacePix, IntentFails, LookupEvent,
             ReadForApproval, AlreadyDelivered, MarkRefunded, CheckRefund, RefundAtProvider,
             StoreRefund, CreateIntent
    <3> QED
      BY <3>1 DEF OrderSide
  <2>2. CASE DeliverPaidOrder(w)
    BY <2>2 DEF DeliverPaidOrder, At, OrderSide
  <2>3. CASE DeliveryReturns(w) \/ DemotionReturns(w)
    BY <2>3 DEF DeliveryReturns, DemotionReturns, OrderSide
  <2>4. CASE DemoteOrder(w)
    BY <2>4 DEF DemoteOrder, At, OrderSide
  <2>5. CASE RejectPayment(w)
    BY <2>5 DEF RejectPayment, At, OrderSide
  <2> QED
    BY <1>4, <2>1, <2>2, <2>3, <2>4, <2>5 DEF PaymentStep, Approval
<1>5. CASE Outside
  <2>1. UNCHANGED vars
    BY <1>5 DEF Outside, PixExpires, CustomerPays, ChargeCancelled, ProviderRefunds
  <2> QED
    BY <2>1 DEF OrderSide
<1>6. CASE ProcessCrash
  BY <1>6 DEF ProcessCrash, OrderSide
<1>7. CASE UNCHANGED allVars
  BY <1>7 DEF allVars, OrderSide
<1> QED
  BY <1>1, <1>2, <1>3, <1>4, <1>5, <1>6, <1>7 DEF PayNext

-----------------------------------------------------------------------------
(* Payments and charges.                                                   *)

(* What the invariant says of one request.                                 *)
LEMMA CallIsTyped ==
  ASSUME PayInv, NEW w \in Workers
  PROVE  /\ call[w] \in Call /\ CallShape(call[w])
         /\ call[w].ord \in Orders \cup {None}
         /\ call[w].charge \in Charges \cup {None}
BY DEF PayInv, PayTypeOK, ApprovalTrail, Call

(* A worker without a payment request.                                     *)
LEMMA IdleCallShape == IdleCall \in Call /\ CallShape(IdleCall)
BY DEF IdleCall, Call, CallPcs, CallShape

(* A step that only changes what one request remembers.                    *)
LEMMA CallStep ==
  ASSUME PayInv, NEW w \in Workers, NEW k \in Call, CallShape(k),
         call' = [call EXCEPT ![w] = k],
         UNCHANGED <<payTables, provider>>
  PROVE  PayInv'
<1> USE DEF payTables, provider
<1>1. call'[w] = k /\ \A v \in Workers : v # w => call'[v] = call[v]
  BY DEF PayInv, PayTypeOK
<1>2. PayTypeOK'
  BY DEF PayInv, PayTypeOK
<1>3. ApprovalTrail'
  <2>1. \A o \in Orders : payCharge'[o] # None => Named(payCharge[o], o)'
    BY DEF PayInv, ApprovalTrail, Named
  <2>2. \A v \in Workers : CallShape(call[v])'
    BY <1>1 DEF PayInv, ApprovalTrail, CallShape, Named, MoneyCameIn
  <2> QED
    BY <2>1, <2>2 DEF ApprovalTrail
<1>4. ApprovalNamesPaidCharge'
  BY DEF PayInv, ApprovalNamesPaidCharge, MoneyCameIn
<1> QED
  BY <1>2, <1>3, <1>4 DEF PayInv

(* Every answer, early return, failure and end of an event.                *)
LEMMA AnswerStep ==
  ASSUME PayInv, NEW w \in Workers, Answer(w), UNCHANGED <<payTables, provider>>
  PROVE  PayInv'
BY IdleCallShape, CallStep DEF Answer

(* A request that moves on without having anything new to remember, to a   *)
(* place where CallShape asks for its order only.                          *)
LEMMA GotoStep ==
  ASSUME PayInv, NEW w \in Workers,
         NEW pc \in {"findOrder", "delivering", "demote", "demoting"},
         call[w].pc \notin {"idle", "event"},
         Goto(w, pc), UNCHANGED <<payTables, provider>>
  PROVE  PayInv'
<1> DEFINE k == [call[w] EXCEPT !.pc = pc]
<1>1. k \in Call /\ CallShape(k)
  BY CallIsTyped DEF Call, CallPcs, CallShape
<1> QED
  BY <1>1, CallStep DEF Goto

(* The requests that arrive: an event that says a charge was received comes *)
(* only from a charge that was paid.                                       *)
LEMMA PaymentRequestStep ==
  ASSUME PayInv, NEW w \in Workers, PaymentRequest(w)
  PROVE  PayInv'
<1>1. ASSUME NEW o \in Orders, StartRefund(w, o)
      PROVE  PayInv'
  <2> DEFINE k == [IdleCall EXCEPT !.pc = "refund", !.ord = o]
  <2>1. k \in Call /\ CallShape(k)
    BY DEF IdleCall, Call, CallPcs, CallShape
  <2> QED
    BY <1>1, <2>1, CallStep DEF StartRefund
<1>2. ASSUME NEW o \in Orders, NEW m \in Methods, StartPay(w, o, m)
      PROVE  PayInv'
  <2> DEFINE k == [IdleCall EXCEPT !.pc = "lookup", !.ord = o, !.method = m]
  <2>1. k \in Call /\ CallShape(k)
    BY DEF IdleCall, Call, CallPcs, CallShape
  <2> QED
    BY <1>2, <2>1, CallStep DEF StartPay
<1>3. ASSUME NEW c \in Charges, NEW e \in Events, ReceiveEvent(w, c, e)
      PROVE  PayInv'
  <2> DEFINE k == [IdleCall EXCEPT !.pc = "event", !.event = e, !.charge = c]
  <2>1. k \in Call /\ CallShape(k)
    BY <1>3 DEF ReceiveEvent, Happened, MoneyCameIn, Events, IdleCall, Call, CallPcs, CallShape
  <2> QED
    BY <1>3, <2>1, CallStep DEF ReceiveEvent
<1> QED
  BY <1>1, <1>2, <1>3 DEF PaymentRequest

(* The old charge that a new PIX is to replace is not used as the order's. *)
LEMMA LookupPaymentStep ==
  ASSUME PayInv, NEW w \in Workers, LookupPayment(w)
  PROVE  PayInv'
<1> DEFINE o == call[w].ord
<1>0. /\ call[w] \in Call /\ call[w].pc = "lookup"
      /\ o \in Orders /\ call[w].charge = None
      /\ payCharge[o] \in Charges \cup {None}
  BY CallIsTyped DEF LookupPayment, At, CallShape, PayInv, PayTypeOK
<1>1. UNCHANGED <<payTables, provider>>
  BY DEF LookupPayment
<1>2. CASE Answer(w)
  BY <1>1, <1>2, AnswerStep
<1>3. ASSUME NEW pc \in {"intent", "create"}, Goto(w, pc)
      PROVE  PayInv'
  <2> DEFINE k == [call[w] EXCEPT !.pc = pc]
  <2>1. k \in Call /\ CallShape(k)
    BY <1>0 DEF Call, CallPcs, CallShape
  <2> QED
    BY <1>1, <1>3, <2>1, CallStep DEF Goto
<1>4. CASE call' = [call EXCEPT ![w].pc = "intent", ![w].charge = payCharge[o]]
  <2> DEFINE k == [call[w] EXCEPT !.pc = "intent", !.charge = payCharge[o]]
  <2>1. k \in Call /\ CallShape(k)
    BY <1>0 DEF Call, CallPcs, CallShape
  <2>2. call' = [call EXCEPT ![w] = k]
    BY <1>4
  <2> QED
    BY <1>1, <2>1, <2>2, CallStep
<1> QED
  BY <1>2, <1>3, <1>4 DEF LookupPayment

(* The payment that the event's charge belongs to is the payment of the    *)
(* order the charge was created for.                                       *)
LEMMA LookupEventStep ==
  ASSUME PayInv, NEW w \in Workers, LookupEvent(w)
  PROVE  PayInv'
<1>0. /\ call[w] \in Call /\ call[w].pc = "event"
      /\ call[w].charge \in Charges /\ call[w].event \in Events
      /\ call[w].event = "RECEIVED" => MoneyCameIn(call[w].charge)
  BY CallIsTyped DEF LookupEvent, At, CallShape
<1>1. UNCHANGED <<payTables, provider>>
  BY DEF LookupEvent
<1>2. CASE Answer(w)
  BY <1>1, <1>2, AnswerStep
<1>3. ASSUME NEW o \in Orders, payCharge[o] = call[w].charge,
             call' = [call EXCEPT ![w].pc = AfterLookup(call[w].event), ![w].ord = o]
      PROVE  PayInv'
  <2> DEFINE pc == AfterLookup(call[w].event)
             k == [call[w] EXCEPT !.pc = pc, !.ord = o]
  <2>1. /\ pc \in {"approve", "markRefunded", "reject"}
        /\ pc = "approve" => call[w].event = "RECEIVED"
    BY <1>0 DEF AfterLookup, Events
  <2>2. Named(call[w].charge, o)
    BY <1>0, <1>3, PaymentsAssumption DEF PayInv, ApprovalTrail
  <2>3. k \in Call
    BY <1>0, <2>1 DEF Call, CallPcs
  <2>4. k.pc = pc /\ k.ord = o /\ k.charge = call[w].charge
    BY <1>0 DEF Call
  <2>5. CallShape(k)
    BY <1>0, <2>1, <2>2, <2>4 DEF CallShape
  <2>6. call' = [call EXCEPT ![w] = k]
    BY <1>3
  <2> QED
    BY <1>1, <2>3, <2>5, <2>6, CallStep
<1> QED
  BY <1>2, <1>3 DEF LookupEvent

(* The transaction of the approval reads the payment once more.            *)
LEMMA ReadForApprovalStep ==
  ASSUME PayInv, NEW w \in Workers, ReadForApproval(w)
  PROVE  PayInv'
<1>0. call[w].pc = "approve" /\ UNCHANGED <<payTables, provider>>
  BY DEF ReadForApproval, At
<1>1. CASE Goto(w, "findOrder")
  BY <1>0, <1>1, GotoStep
<1>2. CASE Goto(w, "approveWrite")
  <2> DEFINE k == [call[w] EXCEPT !.pc = "approveWrite"]
  <2>1. k \in Call /\ CallShape(k)
    BY <1>0, CallIsTyped DEF Call, CallPcs, CallShape
  <2> QED
    BY <1>0, <1>2, <2>1, CallStep DEF Goto
<1> QED
  BY <1>1, <1>2 DEF ReadForApproval

(* A refund looks at the payment and picks up its charge.                  *)
LEMMA CheckRefundStep ==
  ASSUME PayInv, NEW w \in Workers, CheckRefund(w)
  PROVE  PayInv'
<1> DEFINE o == call[w].ord
<1>0. /\ call[w] \in Call /\ call[w].pc = "refund" /\ o \in Orders
      /\ payCharge[o] \in Charges \cup {None}
      /\ UNCHANGED <<payTables, provider>>
  BY CallIsTyped DEF CheckRefund, At, CallShape, PayInv, PayTypeOK
<1>1. CASE Answer(w)
  BY <1>0, <1>1, AnswerStep
<1>2. CASE call' = [call EXCEPT ![w].pc = "providerRefund", ![w].charge = payCharge[o]]
  <2> DEFINE k == [call[w] EXCEPT !.pc = "providerRefund", !.charge = payCharge[o]]
  <2>1. k \in Call /\ CallShape(k)
    BY <1>0 DEF Call, CallPcs, CallShape
  <2>2. call' = [call EXCEPT ![w] = k]
    BY <1>2
  <2> QED
    BY <1>0, <2>1, <2>2, CallStep
<1> QED
  BY <1>1, <1>2 DEF CheckRefund

(* The delivery inside a request, its two outcomes, and every failure.     *)
LEMMA OrderCallSteps ==
  ASSUME PayInv, NEW w \in Workers,
         \/ AlreadyDelivered(w) \/ DeliverPaidOrder(w) \/ DeliveryReturns(w)
         \/ DemoteOrder(w) \/ DemotionReturns(w) \/ IntentFails(w) \/ PaymentStepFails(w)
  PROVE  PayInv'
<1>1. UNCHANGED <<payTables, provider>>
  BY DEF AlreadyDelivered, DeliverPaidOrder, DeliveryReturns, DemoteOrder, DemotionReturns,
         IntentFails, PaymentStepFails
<1>2. CASE Answer(w)
  BY <1>1, <1>2, AnswerStep
<1>3. CASE \E pc \in {"delivering", "demote", "demoting"} :
             Goto(w, pc) /\ call[w].pc \in {"findOrder", "delivering", "demote"}
  BY <1>1, <1>3, GotoStep
<1> QED
  BY <1>2, <1>3 DEF AlreadyDelivered, DeliverPaidOrder, DeliveryReturns, DemoteOrder,
     DemotionReturns, IntentFails, PaymentStepFails, At

(* Requests on orders leave payments alone.                                *)
LEMMA PayStutter ==
  ASSUME PayInv, UNCHANGED payVars
  PROVE  PayInv'
<1>1. PayTypeOK'
  BY DEF PayInv, PayTypeOK, payVars
<1>2. ApprovalTrail'
  BY DEF PayInv, ApprovalTrail, CallShape, Named, MoneyCameIn, payVars
<1>3. ApprovalNamesPaidCharge'
  BY DEF PayInv, ApprovalNamesPaidCharge, MoneyCameIn, payVars
<1> QED
  BY <1>1, <1>2, <1>3 DEF PayInv

(* Every write of a payment: the charge it names is one of its order's,    *)
(* and it was paid if the payment is approved.                             *)
LEMMA PaymentWrite ==
  ASSUME PayInv, NEW w \in Workers, NEW k \in Call, CallShape(k),
         NEW o \in Orders, NEW s \in PaymentStatuses, NEW c \in Charges \cup {None},
         payStatus' = [payStatus EXCEPT ![o] = s],
         payCharge' = [payCharge EXCEPT ![o] = c],
         payExpired' \in [Orders -> BOOLEAN],
         call' = [call EXCEPT ![w] = k],
         UNCHANGED provider,
         c # None => Named(c, o),
         s = "APPROVED" => c # None /\ MoneyCameIn(c)
  PROVE  PayInv'
<1> USE DEF provider
<1>0. PayTypeOK /\ ApprovalTrail /\ ApprovalNamesPaidCharge
  BY DEF PayInv
<1>1. /\ \A v \in Workers : call'[v] = IF v = w THEN k ELSE call[v]
      /\ \A p \in Orders : payStatus'[p] = IF p = o THEN s ELSE payStatus[p]
      /\ \A p \in Orders : payCharge'[p] = IF p = o THEN c ELSE payCharge[p]
  BY <1>0 DEF PayTypeOK
<1>2. PayTypeOK'
  BY <1>0 DEF PayTypeOK
<1>3. ApprovalTrail'
  <2>1. \A p \in Orders : payCharge'[p] # None => Named(payCharge[p], p)'
    BY <1>0, <1>1 DEF ApprovalTrail, Named
  <2>2. \A v \in Workers : CallShape(call[v])'
    BY <1>0, <1>1 DEF ApprovalTrail, CallShape, Named, MoneyCameIn
  <2> QED
    BY <2>1, <2>2 DEF ApprovalTrail
<1>4. ApprovalNamesPaidCharge'
  BY <1>0, <1>1 DEF ApprovalNamesPaidCharge, Named, MoneyCameIn
<1> QED
  BY <1>2, <1>3, <1>4 DEF PayInv

(* The writes that end a request.                                          *)
LEMMA FinalWrites ==
  ASSUME PayInv, NEW w \in Workers,
         \/ CreatePayment(w) \/ ReplacePix(w) \/ MarkRefunded(w)
         \/ StoreRefund(w) \/ RejectPayment(w)
  PROVE  PayInv'
<1> DEFINE o == call[w].ord
           c == call[w].charge
<1>0. /\ PayTypeOK /\ call[w] \in Call /\ c \in Charges \cup {None}
      /\ call[w].pc \in {"create", "replace", "markRefunded", "storeRefund", "reject"}
      /\ o \in Orders /\ payCharge[o] \in Charges \cup {None}
      /\ payCharge[o] # None => Named(payCharge[o], o)
      /\ call[w].pc \in {"create", "replace"} /\ c # None => Named(c, o)
  BY CallIsTyped DEF PayInv, PayTypeOK, ApprovalTrail, CallShape, At, CreatePayment, ReplacePix,
     MarkRefunded, StoreRefund, RejectPayment
<1>1. call' = [call EXCEPT ![w] = IdleCall]
  BY DEF CreatePayment, ReplacePix, MarkRefunded, StoreRefund, RejectPayment, Answer
<1>2. payExpired' \in [Orders -> BOOLEAN]
  BY <1>0 DEF PayTypeOK, CreatePayment, ReplacePix, MarkRefunded, StoreRefund, RejectPayment
<1>3. UNCHANGED provider
  BY DEF CreatePayment, ReplacePix, MarkRefunded, StoreRefund, RejectPayment
<1>4. CASE CreatePayment(w) /\ UNCHANGED <<payStatus, payCharge>>
  <2>1. UNCHANGED payTables
    BY <1>4 DEF CreatePayment, payTables
  <2> QED
    BY <1>1, <1>3, <2>1, AnswerStep DEF Answer
<1>5. CASE /\ CreatePayment(w) \/ ReplacePix(w)
           /\ payStatus' = [payStatus EXCEPT ![o] = "PENDING"]
           /\ payCharge' = [payCharge EXCEPT ![o] = c]
  <2>1. call[w].pc \in {"create", "replace"}
    BY <1>5 DEF CreatePayment, ReplacePix, At
  <2> QED
    BY <1>0, <1>1, <1>2, <1>3, <1>5, <2>1, IdleCallShape, PaymentWrite DEF PaymentStatuses
<1>6. CASE MarkRefunded(w) \/ StoreRefund(w) \/ RejectPayment(w)
  <2>1. payCharge' = [payCharge EXCEPT ![o] = payCharge[o]]
    BY <1>0, <1>6 DEF PayTypeOK, MarkRefunded, StoreRefund, RejectPayment
  <2>2. PICK s \in {"REFUNDED", "REJECTED"} : payStatus' = [payStatus EXCEPT ![o] = s]
    BY <1>6 DEF MarkRefunded, StoreRefund, RejectPayment
  <2> QED
    BY <1>0, <1>1, <1>2, <1>3, <2>1, <2>2, IdleCallShape, PaymentWrite DEF PaymentStatuses
<1> QED
  BY <1>4, <1>5, <1>6 DEF CreatePayment, ReplacePix

(* The approval writes the charge whose event it handles.                  *)
LEMMA CommitApprovalStep ==
  ASSUME PayInv, NEW w \in Workers, CommitApproval(w)
  PROVE  PayInv'
<1> DEFINE o == call[w].ord
           c == call[w].charge
           k == [call[w] EXCEPT !.pc = "findOrder"]
<1>0. /\ PayTypeOK /\ call[w] \in Call /\ c \in Charges /\ o \in Orders
      /\ Named(c, o) /\ MoneyCameIn(c)
  BY CallIsTyped DEF PayInv, CallShape, CommitApproval, At
<1>1. k \in Call /\ CallShape(k)
  BY <1>0 DEF Call, CallPcs, CallShape
<1>2. /\ payStatus' = [payStatus EXCEPT ![o] = "APPROVED"]
      /\ payCharge' = [payCharge EXCEPT ![o] = c]
      /\ call' = [call EXCEPT ![w] = k]
      /\ payExpired' \in [Orders -> BOOLEAN]
      /\ UNCHANGED provider
  BY <1>0 DEF CommitApproval, Goto, PayTypeOK
<1> QED
  BY <1>0, <1>1, <1>2, PaymentsAssumption, PaymentWrite DEF PaymentStatuses

-----------------------------------------------------------------------------
(* The provider's side of a step.                                          *)

(* A charge keeps its order once it has one, is never unused again, and    *)
(* what was once paid stays paid, or refunded after having been paid; what *)
(* was refunded or cancelled stays so.                                     *)
Forward ==
  \A c \in Charges :
    /\ charge[c] # "unused" => charge'[c] # "unused" /\ chargeOrder'[c] = chargeOrder[c]
    /\ charge[c] \in {"paid", "refunded"} => charge'[c] \in {"paid", "refunded"}
    /\ charge[c] \in {"refunded", "cancelled"} => charge'[c] = charge[c]

(* Only the provider and the requests sent to it change a charge, and they *)
(* move it forward.                                                        *)
LEMMA StepIsForward ==
  ASSUME PayTypeOK, [PayNext]_allVars
  PROVE  Forward
<1>1. ASSUME NEW w \in Workers, NEW c \in Charges, CreateIntent(w, c)
      PROVE  Forward
  BY <1>1 DEF CreateIntent, Forward, PayTypeOK
<1>2. ASSUME NEW w \in Workers, RefundAtProvider(w)
      PROVE  Forward
  BY <1>2 DEF RefundAtProvider, Forward, PayTypeOK
<1>3. CASE Outside
  BY <1>3 DEF Outside, PixExpires, CustomerPays, ChargeCancelled, ProviderRefunds, provider,
     Forward, PayTypeOK
<1>4. ASSUME UNCHANGED provider
      PROVE  Forward
  BY <1>4 DEF provider, Forward
<1>5. ASSUME NEW w \in Workers,
             OrderRequest(w) \/ OrderStep(w) \/ OrderRequestReturns(w) \/ OrderStepFails(w)
      PROVE  UNCHANGED provider
  BY <1>5 DEF OrderRequest, OrderStep, OrderRequestReturns, OrderStepFails, payVars, provider
<1>6. ASSUME NEW w \in Workers, PaymentRequest(w) \/ PaymentStepFails(w)
      PROVE  UNCHANGED provider
  BY <1>6 DEF PaymentRequest, StartRefund, StartPay, ReceiveEvent, PaymentStepFails
<1>7. ASSUME NEW w \in Workers, PaymentStep(w)
      PROVE  Forward
  <2>1. \/ UNCHANGED provider
        \/ RefundAtProvider(w)
        \/ \E c \in Charges : CreateIntent(w, c)
    BY <1>7 DEF PaymentStep, LookupPayment, CreatePayment, ReplacePix, LookupEvent,
       ReadForApproval, CommitApproval, AlreadyDelivered, DeliverPaidOrder, DeliveryReturns,
       DemoteOrder, DemotionReturns, MarkRefunded, RejectPayment, IntentFails, CheckRefund,
       StoreRefund
  <2> QED
    BY <1>1, <1>2, <1>4, <2>1
<1>8. CASE ProcessCrash \/ UNCHANGED allVars
  BY <1>4, <1>8 DEF ProcessCrash, allVars, payVars, provider
<1> QED
  BY <1>3, <1>4, <1>5, <1>6, <1>7, <1>8 DEF PayNext

(* Nothing a request knows of a charge is undone when the provider moves.  *)
LEMMA ForwardStep ==
  ASSUME PayInv, Forward, UNCHANGED <<payStatus, payCharge>>,
         payExpired' \in [Orders -> BOOLEAN],
         charge' \in [Charges -> ChargeStates],
         chargeOrder' \in [Charges -> Orders \cup {None}],
         call' \in [Workers -> Call],
         \A v \in Workers : call'[v] = call[v] \/ CallShape(call[v])'
  PROVE  PayInv'
<1>0. PayTypeOK /\ ApprovalTrail /\ ApprovalNamesPaidCharge
  BY DEF PayInv
<1>1. PayTypeOK'
  BY <1>0 DEF PayTypeOK
<1>2. \A p \in Orders : payCharge'[p] # None => Named(payCharge[p], p)'
  BY <1>0 DEF PayTypeOK, ApprovalTrail, Named, Forward
<1>3. ASSUME NEW v \in Workers
      PROVE  CallShape(call[v])'
  <2>1. CASE call'[v] = call[v]
    <3>1. CallShape(call[v]) /\ call[v].charge \in Charges \cup {None}
      BY CallIsTyped
    <3> QED
      BY <2>1, <3>1 DEF CallShape, Named, MoneyCameIn, Forward
  <2> QED
    BY <2>1
<1>4. ApprovalNamesPaidCharge'
  BY <1>0 DEF PayTypeOK, ApprovalTrail, ApprovalNamesPaidCharge, Named, MoneyCameIn, Forward
<1> QED
  BY <1>1, <1>2, <1>3, <1>4 DEF PayInv, ApprovalTrail

(* A new charge was unused, so it is nobody else's.                        *)
LEMMA CreateIntentStep ==
  ASSUME PayInv, Forward, NEW w \in Workers, NEW c \in Charges, CreateIntent(w, c)
  PROVE  PayInv'
<1> DEFINE pc == IF call[w].charge = None THEN "create" ELSE "replace"
           k == [call[w] EXCEPT !.pc = pc, !.charge = c]
<1>0. /\ PayTypeOK /\ call[w] \in Call /\ call[w].pc = "intent" /\ call[w].ord \in Orders
  BY CallIsTyped DEF PayInv, CallShape, CreateIntent, At
<1>1. /\ call' = [call EXCEPT ![w] = k] /\ k \in Call
      /\ k.pc \in {"create", "replace"} /\ k.charge = c /\ k.ord = call[w].ord
  BY <1>0 DEF CreateIntent, Call, CallPcs
<1>2. call'[w] = k /\ \A v \in Workers : v # w => call'[v] = call[v]
  BY <1>0, <1>1 DEF PayTypeOK
<1>3. chargeOrder'[c] = call[w].ord /\ charge'[c] = "open"
  BY <1>0 DEF CreateIntent, PayTypeOK
<1>4. CallShape(call[w])'
  BY <1>0, <1>1, <1>2, <1>3 DEF CallShape, Named
<1>5. /\ charge' \in [Charges -> ChargeStates]
      /\ chargeOrder' \in [Charges -> Orders \cup {None}]
      /\ call' \in [Workers -> Call]
      /\ UNCHANGED payTables
  BY <1>0, <1>1 DEF CreateIntent, PayTypeOK, ChargeStates
<1> QED
  BY <1>0, <1>2, <1>4, <1>5, ForwardStep DEF payTables, PayTypeOK

(* The provider refunds a charge, or refuses to.                           *)
LEMMA RefundAtProviderStep ==
  ASSUME PayInv, Forward, NEW w \in Workers, RefundAtProvider(w)
  PROVE  PayInv'
<1> DEFINE c == call[w].charge
           k == [call[w] EXCEPT !.pc = "storeRefund"]
<1>0. /\ PayTypeOK /\ call[w] \in Call /\ call[w].pc = "providerRefund"
      /\ call[w].ord \in Orders
  BY CallIsTyped DEF PayInv, CallShape, RefundAtProvider, At
<1>1. CASE Answer(w) /\ UNCHANGED charge
  BY <1>1, AnswerStep DEF RefundAtProvider, provider
<1>2. CASE Goto(w, "storeRefund") /\ charge' = [charge EXCEPT ![c] = "refunded"]
  <2>1. call' = [call EXCEPT ![w] = k] /\ k \in Call /\ k.pc = "storeRefund" /\ k.ord \in Orders
    BY <1>0, <1>2 DEF Goto, Call, CallPcs
  <2>2. call'[w] = k /\ \A v \in Workers : v # w => call'[v] = call[v]
    BY <1>0, <2>1 DEF PayTypeOK
  <2>3. CallShape(call[w])'
    BY <2>1, <2>2 DEF CallShape
  <2>4. /\ charge' \in [Charges -> ChargeStates]
        /\ UNCHANGED chargeOrder
        /\ call' \in [Workers -> Call]
        /\ UNCHANGED payTables
    BY <1>0, <1>2, <2>1 DEF RefundAtProvider, PayTypeOK, ChargeStates
  <2> QED
    BY <1>0, <2>2, <2>3, <2>4, ForwardStep DEF payTables, PayTypeOK
<1> QED
  BY <1>1, <1>2 DEF RefundAtProvider

(* Customers pay, charges are cancelled or refunded and PIX codes expire   *)
(* while requests run.                                                     *)
LEMMA OutsideStep ==
  ASSUME PayInv, Forward, Outside
  PROVE  PayInv'
<1>0. PayTypeOK
  BY DEF PayInv
<1>1. /\ charge' \in [Charges -> ChargeStates] /\ UNCHANGED <<chargeOrder, call>>
      /\ UNCHANGED <<payStatus, payCharge>>
      /\ payExpired' \in [Orders -> BOOLEAN]
  BY <1>0 DEF Outside, PixExpires, CustomerPays, ChargeCancelled, ProviderRefunds, provider,
     payTables, PayTypeOK, ChargeStates
<1> QED
  BY <1>0, <1>1, ForwardStep DEF PayTypeOK

(* After a crash no request is left; the payments are as they were.        *)
LEMMA ProcessCrashStep ==
  ASSUME PayInv, ProcessCrash
  PROVE  PayInv'
<1>0. PayTypeOK /\ ApprovalTrail /\ ApprovalNamesPaidCharge
  BY DEF PayInv
<1>1. call' = [w \in Workers |-> IdleCall] /\ UNCHANGED <<payTables, provider>>
  BY DEF ProcessCrash
<1>2. PayTypeOK'
  BY <1>0, <1>1, IdleCallShape DEF PayTypeOK, payTables, provider
<1>3. \A v \in Workers : CallShape(call[v])'
  BY <1>1 DEF IdleCall, CallShape
<1>4. ApprovalTrail' /\ ApprovalNamesPaidCharge'
  BY <1>0, <1>1, <1>3 DEF ApprovalTrail, ApprovalNamesPaidCharge, Named, MoneyCameIn,
     payTables, provider
<1> QED
  BY <1>2, <1>4 DEF PayInv

-----------------------------------------------------------------------------
(* The two facts PayInv has to have.                                       *)

(* It holds at the start, when there are neither payments nor charges.     *)
LEMMA PayInitInv == PayInit => PayInv
<1> SUFFICES ASSUME PayInit PROVE PayInv
  OBVIOUS
<1>1. PayTypeOK
  BY IdleCallShape DEF PayInit, PayTypeOK, ChargeStates
<1>2. ApprovalTrail
  BY IdleCallShape DEF PayInit, ApprovalTrail
<1>3. ApprovalNamesPaidCharge
  BY DEF PayInit, ApprovalNamesPaidCharge
<1> QED
  BY <1>1, <1>2, <1>3 DEF PayInv

(* Every step keeps it.                                                    *)
LEMMA PayNextInv == PayInv /\ [PayNext]_allVars => PayInv'
<1> SUFFICES ASSUME PayInv, [PayNext]_allVars PROVE PayInv'
  OBVIOUS
<1>0. Forward
  BY StepIsForward DEF PayInv
<1>1. ASSUME NEW w \in Workers,
             OrderRequest(w) \/ OrderStep(w) \/ OrderRequestReturns(w) \/ OrderStepFails(w)
      PROVE  PayInv'
  BY <1>1, PayStutter DEF OrderRequest, OrderStep, OrderRequestReturns, OrderStepFails
<1>2. ASSUME NEW w \in Workers, PaymentStep(w)
      PROVE  PayInv'
  BY <1>0, <1>2, LookupPaymentStep, LookupEventStep, ReadForApprovalStep, CheckRefundStep,
     OrderCallSteps, FinalWrites, CommitApprovalStep, CreateIntentStep, RefundAtProviderStep
  DEF PaymentStep
<1>3. ASSUME NEW w \in Workers, PaymentRequest(w) \/ PaymentStepFails(w)
      PROVE  PayInv'
  BY <1>3, PaymentRequestStep, OrderCallSteps
<1>4. CASE Outside \/ ProcessCrash
  BY <1>0, <1>4, OutsideStep, ProcessCrashStep
<1>5. CASE UNCHANGED allVars
  BY <1>5, PayStutter DEF allVars
<1> QED
  BY <1>1, <1>2, <1>3, <1>4, <1>5 DEF PayNext

(* So it holds in every state of every behaviour.                          *)
LEMMA PaymentInvariance == PaySpec => []PayInv
BY PayInitInv, PayNextInv, PTL DEF PaySpec

(* Every payment and every charge has a value of its type, whatever the    *)
(* requests, events and failures.                                          *)
THEOREM PaymentTypes == PaySpec => []PayTypeOK
<1>1. PayInv => PayTypeOK
  BY DEF PayInv
<1> QED
  BY <1>1, PaymentInvariance, PTL

(* However an approval interleaves with new PIX charges, rejections and    *)
(* refunds, an approved payment names a paid charge of its own order.      *)
THEOREM ApprovedWasPaid == PaySpec => []ApprovalNamesPaidCharge
<1>1. PayInv => ApprovalNamesPaidCharge
  BY DEF PayInv
<1> QED
  BY <1>1, PaymentInvariance, PTL

-----------------------------------------------------------------------------
(* Payments as an environment of Fulfilment.                               *)

(* A step of payments is one of fulfilment, because the orders its handlers *)
(* pass on are orders and the statuses they ask for are in Targets.        *)
LEMMA StepImplementsNext ==
  ASSUME PayInv, [PayNext]_allVars
  PROVE  [Next]_vars
<1>1. \A w \in Workers : call[w].pc \notin {"idle", "event"} => call[w].ord \in Orders
  BY DEF PayInv, ApprovalTrail, CallShape
<1>2. OrderSide \/ Approval
  BY <1>1, StepOfOrderSide
<1>3. CASE OrderSide
  BY <1>3, PaymentsAssumption DEF OrderSide, Next, Request
<1>4. CASE Approval
  <2>1. PICK w \in Workers : CommitApproval(w)
    BY <1>4 DEF Approval
  <2>2. call[w].ord \in Orders /\ PaymentApproved(call[w].ord)
    BY <1>1, <2>1 DEF CommitApproval, At
  <2> QED
    BY <2>2 DEF Next
<1> QED
  BY <1>2, <1>3, <1>4

(* The payments model is the fulfilment model with its environment made    *)
(* concrete: each of its steps is a step of Fulfilment or a stutter, so    *)
(* what is proved there holds here.                                        *)
THEOREM PaymentsAreFulfilment == PaySpec => Spec
<1>1. PayInit => Init
  BY DEF PayInit
<1>2. PayInv /\ [PayNext]_allVars => [Next]_vars
  BY StepImplementsNext
<1> QED
  BY <1>1, <1>2, PaymentInvariance, PTL DEF PaySpec, Spec

(* Units, items and their links stay together under payments too.          *)
THEOREM PaymentsKeepCustody == PaySpec => []UnitCustody
BY PaymentsAreFulfilment, Custody, PTL

(* Under payments too a delivery serves whole orders, each unit once, and  *)
(* takes nothing back, unless a request may release units.                 *)
THEOREM PaymentsKeepSale ==
  Targets \cap (ReleasingStatuses \cup {"DELIVERED"}) = {} => (PaySpec => SaleRefinement)
<1> SUFFICES ASSUME Targets \cap (ReleasingStatuses \cup {"DELIVERED"}) = {}
             PROVE  PaySpec => SaleRefinement
  OBVIOUS
<1>1. Spec => SaleRefinement
  BY SaleImplemented
<1> QED
  BY <1>1, PaymentsAreFulfilment, PTL

-----------------------------------------------------------------------------
(* Goods leave only against money.  Inductive together with GoodsTrail and *)
(* the invariants above.                                                   *)

GoodsInv == GoodsOnlyAgainstMoney /\ GoodsTrail

SawPaid == {"findItems", "begin"} \cup InDelivery

(* The order is paid for after the step.                                   *)
PaidAfter(o) == \E c \in Charges : chargeOrder'[c] = o /\ charge'[c] \in {"paid", "refunded"}

Stays == \A o \in Orders : PaidFor(o) => PaidAfter(o)

(* Money that came in for an order stays on record for it.                 *)
LEMMA PaidStays ==
  ASSUME Forward
  PROVE  Stays
BY DEF Stays, Forward, PaidFor, PaidAfter, MoneyCameIn

(* A step of one worker that leaves statuses and items alone.              *)
LEMMA GoodsLocal ==
  ASSUME IInv, GoodsInv, Stays, NEW w \in Workers, NEW k \in Job,
         job' = [job EXCEPT ![w] = k],
         UNCHANGED <<status, link>>,
         k.target # "PAID",
         k.pc \in SawPaid => k.ord \in Orders /\ PaidFor(k.ord)
  PROVE  GoodsInv'
<1>1. /\ job'[w] = k /\ \A v \in Workers : v # w => job'[v] = job[v]
      /\ \A v \in Workers : job[v].pc \in SawPaid => job[v].ord \in Orders
  BY DEF IInv, TypeOK, RequestShape, WellFormed, SawPaid, Reading
<1>2. GoodsOnlyAgainstMoney'
  BY CatalogAssumption DEF GoodsInv, GoodsOnlyAgainstMoney, Stays, PaidFor, PaidAfter, MoneyCameIn
<1>3. \A o \in Orders : status'[o] = "PAID" => PaidAfter(o)
  BY DEF GoodsInv, GoodsTrail, Stays
<1>4. ASSUME NEW v \in Workers
      PROVE  job'[v].target # "PAID" /\ (job'[v].pc \in SawPaid => PaidAfter(job'[v].ord))
  BY <1>1 DEF GoodsInv, GoodsTrail, Stays, SawPaid
<1>5. GoodsTrail'
  BY <1>3, <1>4 DEF GoodsTrail, PaidFor, PaidAfter, MoneyCameIn, SawPaid
<1> QED
  BY <1>2, <1>5 DEF GoodsInv

(* Every early return, failure and answer.                                 *)
LEMMA GoodsEnding ==
  ASSUME IInv, GoodsInv, Stays, NEW w \in Workers,
         UNCHANGED <<status, link>>,
         \/ \E pc \in Ended : job' = [job EXCEPT ![w] = Outcome(w, pc)]
         \/ job' = [job EXCEPT ![w] = IdleJob]
  PROVE  GoodsInv'
<1>1. job[w].ord \in Orders \cup {None}
  BY DEF IInv, TypeOK, Job
<1>2. PICK pc \in {"idle"} \cup Ended, o \in Orders \cup {None} :
        job' = [job EXCEPT ![w] = Blank(pc, o)]
  BY <1>1 DEF Outcome, IdleJob
<1>3. Blank(pc, o) \in Job
  BY BlankType
<1>4. Blank(pc, o).target # "PAID" /\ Blank(pc, o).pc \notin SawPaid
  BY NoneAssumption DEF Blank, Ended, OrderStatuses, SawPaid, InDelivery
<1> QED
  BY <1>2, <1>3, <1>4, GoodsLocal

(* The steps that enter the part of a delivery that relies on the order    *)
(* being PAID have just read that it is; the others stay inside it, or     *)
(* outside.                                                                *)
LEMMA GoodsQuietSteps ==
  ASSUME IInv, GoodsInv, Stays, NEW w \in Workers,
         \/ \E o \in Orders : StartDeliver(w, o)
         \/ FindOrder(w) \/ FindItems(w) \/ BeginDelivery(w) \/ TakeUnit(w) \/ BeginSync(w)
         \/ \E i \in Items, u \in Units : FindUnit(w, i, u)
         \/ \E i \in Items : NoUnitAvailable(w, i)
         \/ \E p \in Products : CountStock(w, p)
         \/ ReadOrder(w) \/ ReadItems(w) \/ ReleaseKeys(w) \/ ReleaseAccounts(w)
         \/ StoreStock(w) \/ StatementFails(w) \/ Return(w),
         job' \in [Workers -> Job]
  PROVE  GoodsInv'
<1> DEFINE k == job'[w]
<1>0. /\ job \in [Workers -> Job] /\ job[w] \in Job /\ k \in Job /\ WellFormed(job[w])
  BY DEF IInv, TypeOK, RequestShape
<1>1. UNCHANGED <<status, link>>
  BY DEF StartDeliver, FindOrder, FindItems, BeginDelivery, TakeUnit, BeginSync, FindUnit,
         NoUnitAvailable, CountStock, ReadOrder, ReadItems, ReleaseKeys, ReleaseAccounts,
         Release, StoreStock, StatementFails, Return, tables
<1>2. \/ \E pc \in Ended : job' = [job EXCEPT ![w] = Outcome(w, pc)]
      \/ job' = [job EXCEPT ![w] = IdleJob]
      \/ /\ job' = [job EXCEPT ![w] = k]
         /\ k.target = job[w].target
         /\ k.pc \in SawPaid =>
              /\ k.ord = job[w].ord
              /\ job[w].pc \in Reading \cup InDelivery
              /\ job[w].pc \in SawPaid \/ status[job[w].ord] = "PAID"
  <2>1. CASE \E o \in Orders : StartDeliver(w, o)
    <3>1. PICK o \in Orders : StartDeliver(w, o)
      BY <2>1
    <3>2. job' = [job EXCEPT ![w].pc = "find", ![w].ord = o]
      BY <3>1 DEF StartDeliver
    <3> QED
      BY <1>0, <3>2 DEF Job, SawPaid, InDelivery
  <2>2. CASE FindOrder(w)
    BY <1>0, <2>2 DEF FindOrder, Job, Ended, Reading
  <2>3. CASE FindItems(w)
    BY <1>0, <2>3 DEF FindItems, Job, SawPaid, Reading
  <2>4. CASE BeginDelivery(w)
    BY <1>0, <2>4 DEF BeginDelivery, Job, Ended, Reading
  <2>5. CASE TakeUnit(w)
    BY <1>0, <2>5 DEF TakeUnit, Job, Ended, SawPaid, InDelivery
  <2>6. CASE BeginSync(w)
    BY <1>0, <2>6 DEF BeginSync, Job, SawPaid, InDelivery
  <2>7. CASE \E i \in Items, u \in Units : FindUnit(w, i, u)
    <3>1. PICK i \in Items, u \in Units : FindUnit(w, i, u)
      BY <2>7
    <3>2. /\ job' = [job EXCEPT ![w].pc = "lock", ![w].item = i, ![w].unit = u]
          /\ job[w].pc = "take"
      BY <3>1 DEF FindUnit
    <3> QED
      BY <1>0, <3>2 DEF Job, SawPaid, InDelivery
  <2>8. CASE \E i \in Items : NoUnitAvailable(w, i)
    BY <2>8 DEF NoUnitAvailable, Ended
  <2>9. CASE \E p \in Products : CountStock(w, p)
    <3>1. PICK p \in Products : CountStock(w, p)
      BY <2>9
    <3>2. /\ job' = [job EXCEPT ![w] = k] /\ k.target = job[w].target /\ k.ord = job[w].ord
          /\ k.pc \in SawPaid => job[w].pc = "count"
      BY <1>0, <3>1 DEF CountStock, Job, SawPaid, InDelivery
    <3> QED
      BY <3>2 DEF SawPaid, InDelivery
  <2>10. CASE ReadOrder(w) \/ ReadItems(w) \/ ReleaseKeys(w) \/ ReleaseAccounts(w) \/ StoreStock(w)
    BY <1>0, <2>10 DEF ReadOrder, ReadItems, ReleaseKeys, ReleaseAccounts, StoreStock, Job,
       Ended, SawPaid, InDelivery
  <2>11. CASE StatementFails(w) \/ Return(w)
    BY <2>11 DEF StatementFails, Return, Ended
  <2> QED
    BY <2>1, <2>2, <2>3, <2>4, <2>5, <2>6, <2>7, <2>8, <2>9, <2>10, <2>11
<1>3. CASE \/ \E pc \in Ended : job' = [job EXCEPT ![w] = Outcome(w, pc)]
           \/ job' = [job EXCEPT ![w] = IdleJob]
  BY <1>1, <1>3, GoodsEnding
<1>4. CASE /\ job' = [job EXCEPT ![w] = k]
           /\ k.target = job[w].target
           /\ k.pc \in SawPaid =>
                /\ k.ord = job[w].ord
                /\ job[w].pc \in Reading \cup InDelivery
                /\ job[w].pc \in SawPaid \/ status[job[w].ord] = "PAID"
  <2>1. k.pc \in SawPaid => k.ord \in Orders /\ PaidFor(k.ord)
    BY <1>0, <1>4 DEF WellFormed, GoodsInv, GoodsTrail, SawPaid
  <2>2. k.target # "PAID"
    BY <1>4 DEF GoodsInv, GoodsTrail
  <2> QED
    BY <1>0, <1>1, <1>4, <2>1, <2>2, GoodsLocal
<1> QED
  BY <1>2, <1>3, <1>4

(* A status change that is asked for, by an administrator or as the        *)
(* demotion after a failed delivery.                                       *)
LEMMA GoodsStartUpdate ==
  ASSUME IInv, GoodsInv, Stays, NEW w \in Workers, NEW o \in Orders, NEW t \in OrderStatuses,
         t # "PAID", StartUpdate(w, o, t)
  PROVE  GoodsInv'
<1> DEFINE k == [job[w] EXCEPT !.pc = "readOrder", !.ord = o, !.target = t]
<1>0. job[w] \in Job
  BY DEF IInv, TypeOK
<1>1. k \in Job /\ k.pc \notin SawPaid /\ k.target = t
  BY <1>0 DEF Job, Reading, SawPaid, InDelivery
<1>2. job' = [job EXCEPT ![w] = k] /\ UNCHANGED <<status, link>>
  BY DEF StartUpdate, tables
<1> QED
  BY <1>1, <1>2, GoodsLocal

(* The commit links units to items of its own order only, and that order   *)
(* was PAID when the transaction began.                                    *)
LEMMA GoodsCommit ==
  ASSUME IInv, GoodsInv, Stays, NEW w \in Workers, CommitDelivery(w)
  PROVE  GoodsInv'
<1> DEFINE t == job[w].taken
           o == job[w].ord
           k == Outcome(w, "done")
<1>0. /\ job \in [Workers -> Job] /\ status \in [Orders -> OrderStatuses]
      /\ job[w].pc = "count" /\ o \in Orders
  BY DEF IInv, TypeOK, RequestShape, WellFormed, CommitDelivery, InDelivery
<1>1. /\ link' = [i \in Items |-> IF t[i] = None THEN link[i] ELSE t[i]]
      /\ status' = [status EXCEPT ![o] = "DELIVERED"]
      /\ job' = [job EXCEPT ![w] = k]
  BY DEF CommitDelivery
<1>2. PaidAfter(o)
  BY <1>0 DEF GoodsInv, GoodsTrail, Stays, InDelivery
<1>3. ASSUME NEW i \in Items, link'[i] # None
      PROVE  PaidAfter(OrderOf[i])
  <2>1. CASE t[i] = None
    BY <1>1, <1>3, <2>1, CatalogAssumption DEF GoodsInv, GoodsOnlyAgainstMoney, Stays
  <2>2. CASE t[i] # None
    BY <1>2, <2>2 DEF IInv, RowLocks
  <2> QED
    BY <2>1, <2>2
<1>4. GoodsOnlyAgainstMoney'
  BY <1>3 DEF GoodsOnlyAgainstMoney, PaidFor, PaidAfter, MoneyCameIn
<1>5. k.target # "PAID" /\ k.pc \notin SawPaid
  BY NoneAssumption DEF Outcome, Blank, OrderStatuses, SawPaid, InDelivery
<1>6. ASSUME NEW v \in Workers
      PROVE  job'[v].target # "PAID" /\ (job'[v].pc \in SawPaid => PaidAfter(job'[v].ord))
  <2>1. CASE v = w
    BY <1>0, <1>1, <1>5, <2>1
  <2>2. CASE v # w
    <3>1. job'[v] = job[v]
      BY <1>0, <1>1, <2>2
    <3>2. job[v].pc \in SawPaid => job[v].ord \in Orders
      BY DEF IInv, RequestShape, WellFormed, SawPaid, Reading
    <3> QED
      BY <3>1, <3>2 DEF GoodsInv, GoodsTrail, Stays, SawPaid
  <2> QED
    BY <2>1, <2>2
<1>7. \A p \in Orders : status'[p] = "PAID" => PaidAfter(p)
  BY <1>0, <1>1 DEF GoodsInv, GoodsTrail, Stays
<1>8. GoodsTrail'
  BY <1>6, <1>7 DEF GoodsTrail, PaidFor, PaidAfter, MoneyCameIn, SawPaid
<1> QED
  BY <1>4, <1>8 DEF GoodsInv

(* The writes of a status.  PAID is written for an order that is paid for. *)
LEMMA GoodsStatus ==
  ASSUME IInv, GoodsInv, Stays, NEW o \in Orders, NEW s \in OrderStatuses,
         s = "PAID" => PaidFor(o),
         status' = [status EXCEPT ![o] = s],
         UNCHANGED link,
         \/ UNCHANGED job
         \/ \E w \in Workers : job' = [job EXCEPT ![w] = Outcome(w, "done")]
  PROVE  GoodsInv'
<1>0. /\ job \in [Workers -> Job] /\ status \in [Orders -> OrderStatuses]
      /\ \A v \in Workers : job[v].pc \in SawPaid => job[v].ord \in Orders
  BY DEF IInv, TypeOK, RequestShape, WellFormed, SawPaid, Reading
<1>1. GoodsOnlyAgainstMoney'
  BY CatalogAssumption DEF GoodsInv, GoodsOnlyAgainstMoney, Stays, PaidFor, PaidAfter, MoneyCameIn
<1>2. \A p \in Orders : status'[p] = "PAID" => PaidAfter(p)
  BY <1>0 DEF GoodsInv, GoodsTrail, Stays
<1>3. ASSUME NEW v \in Workers
      PROVE  job'[v].target # "PAID" /\ (job'[v].pc \in SawPaid => PaidAfter(job'[v].ord))
  <2>1. CASE job'[v] = job[v]
    BY <1>0, <2>1 DEF GoodsInv, GoodsTrail, Stays, SawPaid
  <2>2. CASE job'[v] # job[v]
    <3>1. job'[v] = Outcome(v, "done")
      BY <1>0, <2>2
    <3> QED
      BY <3>1, NoneAssumption DEF Outcome, Blank, OrderStatuses, SawPaid, InDelivery
  <2> QED
    BY <2>1, <2>2
<1>4. GoodsTrail'
  BY <1>2, <1>3 DEF GoodsTrail, PaidFor, PaidAfter, MoneyCameIn, SawPaid
<1> QED
  BY <1>1, <1>4 DEF GoodsInv

(* Steps that leave the order side alone.                                  *)
LEMMA GoodsUntouched ==
  ASSUME IInv, GoodsInv, Stays, UNCHANGED vars
  PROVE  GoodsInv'
<1>1. UNCHANGED <<status, link, job>>
  BY DEF vars
<1>2. GoodsOnlyAgainstMoney'
  BY <1>1, CatalogAssumption DEF GoodsInv, GoodsOnlyAgainstMoney, Stays, PaidFor, PaidAfter,
     MoneyCameIn
<1>3. /\ \A p \in Orders : status'[p] = "PAID" => PaidAfter(p)
      /\ \A v \in Workers : /\ job'[v].target # "PAID"
                            /\ job'[v].pc \in SawPaid => PaidAfter(job'[v].ord)
  BY <1>1 DEF GoodsInv, GoodsTrail, Stays, SawPaid, IInv, RequestShape, WellFormed, Reading
<1>4. GoodsTrail'
  BY <1>3 DEF GoodsTrail, PaidFor, PaidAfter, MoneyCameIn, SawPaid
<1> QED
  BY <1>2, <1>4 DEF GoodsInv

(* Everything that changes orders, short of an approval.                   *)
LEMMA GoodsOrderSide ==
  ASSUME IInv, GoodsInv, Stays, "PAID" \notin AdminTargets, OrderSide,
         job' \in [Workers -> Job]
  PROVE  GoodsInv'
<1>1. ASSUME NEW w \in Workers, HandlerStep(w) \/ StatementFails(w) \/ Return(w)
      PROVE  GoodsInv'
  <2>1. ASSUME WriteStatus(w) PROVE GoodsInv'
    <3>1. /\ job[w].ord \in Orders /\ job[w].target \in OrderStatuses
          /\ job[w].target # "PAID"
      BY <2>1 DEF IInv, RequestShape, WellFormed, InUpdate, WriteStatus, GoodsInv, GoodsTrail
    <3> QED
      BY <2>1, <3>1, GoodsStatus DEF WriteStatus
  <2> QED
    BY <1>1, <2>1, GoodsQuietSteps, GoodsCommit DEF HandlerStep, DeliverStep, UpdateStep
<1>2. ASSUME NEW w \in Workers, NEW o \in Orders, StartDeliver(w, o)
      PROVE  GoodsInv'
  BY <1>2, GoodsQuietSteps
<1>3. ASSUME NEW w \in Workers, NEW o \in Orders, NEW t \in AdminTargets \cup {"PROCESSING"},
             StartUpdate(w, o, t)
      PROVE  GoodsInv'
  <2>1. t \in OrderStatuses /\ t # "PAID"
    BY PaymentsAssumption, TargetsAssumption
  <2> QED
    BY <1>3, <2>1, GoodsStartUpdate
<1>4. ASSUME NEW o \in Orders, PaymentRejected(o)
      PROVE  GoodsInv'
  BY <1>4, GoodsStatus DEF PaymentRejected, SetStatus, OrderStatuses
<1>5. CASE Crash
  <2>1. UNCHANGED <<status, link>> /\ \A v \in Workers : job'[v] = IdleJob
    BY <1>5 DEF Crash, tables
  <2>2. GoodsOnlyAgainstMoney'
    BY <2>1, CatalogAssumption DEF GoodsInv, GoodsOnlyAgainstMoney, Stays, PaidFor, PaidAfter,
       MoneyCameIn
  <2>3. /\ \A p \in Orders : status'[p] = "PAID" => PaidAfter(p)
        /\ \A v \in Workers : job'[v].target # "PAID" /\ job'[v].pc \notin SawPaid
    BY <2>1, NoneAssumption DEF GoodsInv, GoodsTrail, Stays, IdleJob, Blank, OrderStatuses,
       SawPaid, InDelivery
  <2>4. GoodsTrail'
    BY <2>3 DEF GoodsTrail, PaidFor, PaidAfter, MoneyCameIn, SawPaid
  <2> QED
    BY <2>2, <2>4 DEF GoodsInv
<1>6. CASE UNCHANGED vars
  BY <1>6, GoodsUntouched
<1> QED
  BY <1>1, <1>2, <1>3, <1>4, <1>5, <1>6 DEF OrderSide

(* The approval writes PAID for the order whose charge was paid.           *)
LEMMA GoodsApproval ==
  ASSUME IInv, PayInv, GoodsInv, Stays, Approval
  PROVE  GoodsInv'
<1>1. PICK w \in Workers : CommitApproval(w)
  BY DEF Approval
<1>2. /\ call[w].ord \in Orders /\ call[w].charge \in Charges
      /\ Named(call[w].charge, call[w].ord) /\ MoneyCameIn(call[w].charge)
  BY <1>1, CallIsTyped DEF CallShape, CommitApproval, At
<1>3. PaidFor(call[w].ord)
  BY <1>2 DEF PaidFor, Named
<1>4. PaymentApproved(call[w].ord)
  BY <1>1 DEF CommitApproval
<1> QED
  BY <1>2, <1>3, <1>4, GoodsStatus DEF PaymentApproved, SetStatus, OrderStatuses

(* Every step keeps goods behind money.                                    *)
LEMMA GoodsNext ==
  ASSUME "PAID" \notin AdminTargets
  PROVE  IInv /\ PayInv /\ GoodsInv /\ [PayNext]_allVars => GoodsInv'
<1> SUFFICES ASSUME IInv, PayInv, GoodsInv, [PayNext]_allVars PROVE GoodsInv'
  OBVIOUS
<1>1. [Next]_vars
  BY StepImplementsNext
<1>2. job' \in [Workers -> Job]
  BY <1>1, NextIInv DEF IInv, TypeOK
<1>3. Stays
  BY StepIsForward, PaidStays DEF PayInv
<1>4. \A w \in Workers : call[w].pc \notin {"idle", "event"} => call[w].ord \in Orders
  BY DEF PayInv, ApprovalTrail, CallShape
<1>5. OrderSide \/ Approval
  BY <1>4, StepOfOrderSide
<1> QED
  BY <1>2, <1>3, <1>5, GoodsOrderSide, GoodsApproval

LEMMA GoodsInvariance ==
  "PAID" \notin AdminTargets => (PaySpec => [](IInv /\ PayInv /\ GoodsInv))
<1> SUFFICES ASSUME "PAID" \notin AdminTargets
             PROVE  PaySpec => [](IInv /\ PayInv /\ GoodsInv)
  OBVIOUS
<1>1. PayInit => GoodsInv
  <2> SUFFICES ASSUME PayInit PROVE GoodsInv
    OBVIOUS
  <2>1. /\ \A o \in Orders : status[o] # "PAID"
        /\ \A i \in Items : link[i] = None
        /\ \A w \in Workers : job[w] = IdleJob
    BY DEF PayInit, Init, NoUnits
  <2>2. IdleJob.target # "PAID" /\ IdleJob.pc \notin SawPaid
    BY NoneAssumption DEF IdleJob, Blank, OrderStatuses, SawPaid, InDelivery
  <2> QED
    BY <2>1, <2>2 DEF GoodsInv, GoodsOnlyAgainstMoney, GoodsTrail, SawPaid
<1>2. IInv /\ PayInv /\ GoodsInv /\ [PayNext]_allVars => GoodsInv'
  BY GoodsNext
<1> QED
  BY <1>1, <1>2, PaymentsAreFulfilment, PaymentInvariance, Invariance, PTL DEF PaySpec

(* Unless an administrator writes PAID, an item only ever gets a unit when *)
(* one of the charges of its order was paid, whatever requests, events,    *)
(* failures and crashes lie between the two.                               *)
THEOREM GoodsAgainstMoney == "PAID" \notin AdminTargets => (PaySpec => []GoodsOnlyAgainstMoney)
<1>1. GoodsInv => GoodsOnlyAgainstMoney
  BY DEF GoodsInv
<1> QED
  BY <1>1, GoodsInvariance, PTL

-----------------------------------------------------------------------------
(* What a request knows when it writes what became of a payment.           *)

Telling == {"event", "markRefunded", "reject", "providerRefund", "storeRefund"}

(* What a request knows of a charge stays true while others move, because  *)
(* refunds and cancellations are final at the provider.                    *)
LEMMA CausesStay ==
  ASSUME PayInv, CausesKnown, Forward,
         \A v \in Workers : call'[v] = call[v] \/ KnowsCause(call[v])'
  PROVE  CausesKnown'
<1> SUFFICES ASSUME NEW v \in Workers, call'[v] = call[v] PROVE KnowsCause(call[v])'
  BY DEF CausesKnown
<1>1. KnowsCause(call[v]) /\ CallShape(call[v])
  BY CallIsTyped DEF CausesKnown
<1> QED
  BY <1>1 DEF KnowsCause, CallShape, Forward

(* A step after which its worker knows what it has to.                     *)
LEMMA CausesLocal ==
  ASSUME PayInv, CausesKnown, Forward, NEW w \in Workers, NEW k \in Call,
         call' = [call EXCEPT ![w] = k],
         k.pc \in Telling => KnowsCause(call[w])'
  PROVE  CausesKnown'
<1>1. call'[w] = k /\ \A v \in Workers : v # w => call'[v] = call[v]
  BY DEF PayInv, PayTypeOK
<1>2. KnowsCause(call[w])'
  BY <1>1 DEF KnowsCause, Telling
<1> QED
  BY <1>1, <1>2, CausesStay

(* Answers, and steps to a place where no cause has to be known.           *)
LEMMA CausesGoto ==
  ASSUME PayInv, CausesKnown, Forward, NEW w \in Workers,
         \/ Answer(w)
         \/ \E pc \in CallPcs \ Telling : Goto(w, pc)
  PROVE  CausesKnown'
<1>1. CASE Answer(w)
  <2>1. IdleCall \in Call /\ IdleCall.pc \notin Telling
    BY IdleCallShape DEF IdleCall, Telling
  <2> QED
    BY <1>1, <2>1, CausesLocal DEF Answer
<1>2. ASSUME NEW pc \in CallPcs \ Telling, Goto(w, pc)
      PROVE  CausesKnown'
  <2> DEFINE k == [call[w] EXCEPT !.pc = pc]
  <2>1. k \in Call /\ k.pc \notin Telling
    BY CallIsTyped DEF Call
  <2> QED
    BY <1>2, <2>1, CausesLocal DEF Goto
<1> QED
  BY <1>1, <1>2

(* An event comes from a charge of which it is true.                       *)
LEMMA CausesRequest ==
  ASSUME PayInv, CausesKnown, Forward, NEW w \in Workers, PaymentRequest(w)
  PROVE  CausesKnown'
<1>1. ASSUME NEW o \in Orders, StartRefund(w, o)
      PROVE  CausesKnown'
  <2> DEFINE k == [IdleCall EXCEPT !.pc = "refund", !.ord = o]
  <2>1. k \in Call /\ k.pc \notin Telling
    BY DEF IdleCall, Call, CallPcs, Telling
  <2> QED
    BY <1>1, <2>1, CausesLocal DEF StartRefund
<1>2. ASSUME NEW o \in Orders, NEW m \in Methods, StartPay(w, o, m)
      PROVE  CausesKnown'
  <2> DEFINE k == [IdleCall EXCEPT !.pc = "lookup", !.ord = o, !.method = m]
  <2>1. k \in Call /\ k.pc \notin Telling
    BY PaymentsAssumption DEF IdleCall, Call, CallPcs, Telling
  <2> QED
    BY <1>2, <2>1, CausesLocal DEF StartPay
<1>3. ASSUME NEW c \in Charges, NEW e \in Events, ReceiveEvent(w, c, e)
      PROVE  CausesKnown'
  <2> DEFINE k == [IdleCall EXCEPT !.pc = "event", !.event = e, !.charge = c]
  <2>1. k \in Call /\ k.pc = "event" /\ k.event = e /\ k.charge = c
    BY DEF IdleCall, Call, CallPcs
  <2>2. call' = [call EXCEPT ![w] = k] /\ call'[w] = k /\ UNCHANGED provider
    BY <1>3 DEF ReceiveEvent, PayInv, PayTypeOK
  <2>3. KnowsCause(call[w])'
    BY <1>3, <2>1, <2>2 DEF KnowsCause, ReceiveEvent, Happened, provider
  <2> QED
    BY <2>1, <2>2, <2>3, CausesLocal
<1> QED
  BY <1>1, <1>2, <1>3 DEF PaymentRequest

(* The payment an event finds is the one of its charge's order.            *)
LEMMA CausesLookup ==
  ASSUME PayInv, CausesKnown, Forward, NEW w \in Workers, LookupEvent(w)
  PROVE  CausesKnown'
<1>0. /\ call \in [Workers -> Call] /\ call[w] \in Call /\ call[w].pc = "event"
      /\ call[w].charge \in Charges /\ call[w].event \in Events
      /\ KnowsCause(call[w]) /\ UNCHANGED provider
  BY CallIsTyped DEF LookupEvent, At, CallShape, CausesKnown, PayInv, PayTypeOK
<1>1. CASE Answer(w)
  BY <1>1, CausesGoto
<1>2. ASSUME NEW o \in Orders, payCharge[o] = call[w].charge,
             call' = [call EXCEPT ![w].pc = AfterLookup(call[w].event), ![w].ord = o]
      PROVE  CausesKnown'
  <2> DEFINE pc == AfterLookup(call[w].event)
             k == [call[w] EXCEPT !.pc = pc, !.ord = o]
  <2>1. /\ pc \in {"approve", "markRefunded", "reject"}
        /\ pc = "markRefunded" => call[w].event = "REFUNDED"
        /\ pc = "reject" => call[w].event = "CANCELLED"
    BY <1>0 DEF AfterLookup, Events
  <2>2. chargeOrder[call[w].charge] = o
    BY <1>0, <1>2, PaymentsAssumption DEF PayInv, ApprovalTrail, Named
  <2>3. k \in Call
    BY <1>0, <2>1 DEF Call, CallPcs
  <2>4. k.pc = pc /\ k.ord = o /\ k.charge = call[w].charge
    BY <1>0 DEF Call
  <2>5. call' = [call EXCEPT ![w] = k] /\ call'[w] = k
    BY <1>0, <1>2
  <2>6. KnowsCause(call[w])'
    BY <1>0, <2>1, <2>2, <2>4, <2>5 DEF KnowsCause, provider
  <2> QED
    BY <2>3, <2>5, <2>6, CausesLocal
<1> QED
  BY <1>1, <1>2 DEF LookupEvent

(* A refund is asked for the charge the payment names, and refunds it.     *)
LEMMA CausesRefund ==
  ASSUME PayInv, CausesKnown, Forward, NEW w \in Workers,
         CheckRefund(w) \/ RefundAtProvider(w)
  PROVE  CausesKnown'
<1>0. call \in [Workers -> Call] /\ call[w] \in Call /\ KnowsCause(call[w]) /\ CallShape(call[w])
  BY CallIsTyped DEF CausesKnown, PayInv, PayTypeOK
<1>1. CASE Answer(w)
  BY <1>1, CausesGoto
<1>2. CASE CheckRefund(w) /\ ~ Answer(w)
  <2> DEFINE o == call[w].ord
             k == [call[w] EXCEPT !.pc = "providerRefund", !.charge = payCharge[o]]
  <2>1. /\ call' = [call EXCEPT ![w].pc = "providerRefund", ![w].charge = payCharge[o]]
        /\ payCharge[o] # None /\ UNCHANGED provider /\ call[w].pc = "refund"
    BY <1>2 DEF CheckRefund, At
  <2>2. o \in Orders /\ payCharge[o] \in Charges /\ Named(payCharge[o], o)
    BY <1>0, <2>1 DEF CallShape, PayInv, PayTypeOK, ApprovalTrail
  <2>3. k \in Call /\ k.pc = "providerRefund" /\ k.ord = o /\ k.charge = payCharge[o]
    BY <1>0, <2>2 DEF Call, CallPcs
  <2>4. call' = [call EXCEPT ![w] = k] /\ call'[w] = k
    BY <1>0, <2>1
  <2>5. KnowsCause(call[w])'
    BY <2>1, <2>2, <2>3, <2>4 DEF KnowsCause, Named, provider
  <2> QED
    BY <2>3, <2>4, <2>5, CausesLocal
<1>3. CASE RefundAtProvider(w) /\ ~ Answer(w)
  <2> DEFINE c == call[w].charge
             k == [call[w] EXCEPT !.pc = "storeRefund"]
  <2>1. /\ Goto(w, "storeRefund") /\ charge' = [charge EXCEPT ![c] = "refunded"]
        /\ UNCHANGED chargeOrder /\ call[w].pc = "providerRefund"
    BY <1>3 DEF RefundAtProvider, At
  <2>2. c \in Charges /\ chargeOrder[c] = call[w].ord
    BY <1>0, <2>1 DEF KnowsCause
  <2>3. charge'[c] = "refunded"
    BY <2>1, <2>2 DEF PayInv, PayTypeOK
  <2>4. k \in Call /\ k.pc = "storeRefund" /\ k.ord = call[w].ord /\ k.charge = c
    BY <1>0 DEF Call, CallPcs
  <2>5. call' = [call EXCEPT ![w] = k] /\ call'[w] = k
    BY <1>0, <2>1 DEF Goto
  <2>6. KnowsCause(call[w])'
    BY <2>1, <2>2, <2>3, <2>4, <2>5 DEF KnowsCause
  <2> QED
    BY <2>4, <2>5, <2>6, CausesLocal
<1> QED
  BY <1>1, <1>2, <1>3

(* Every other step of a request goes where no cause has to be known.      *)
LEMMA CausesElsewhere ==
  ASSUME PayInv, CausesKnown, Forward, NEW w \in Workers,
         PaymentStep(w) \/ PaymentStepFails(w)
  PROVE  CausesKnown'
<1>0. call \in [Workers -> Call] /\ call[w] \in Call /\ CallShape(call[w])
  BY CallIsTyped DEF PayInv, PayTypeOK
<1>1. CASE LookupPayment(w) /\ ~ Answer(w)
  <2>1. CASE \E pc \in {"intent", "create"} : Goto(w, pc)
    BY <2>1, CausesGoto DEF CallPcs, Telling
  <2>2. CASE call' = [call EXCEPT ![w].pc = "intent", ![w].charge = payCharge[call[w].ord]]
    <3> DEFINE k == [call[w] EXCEPT !.pc = "intent", !.charge = payCharge[call[w].ord]]
    <3>1. payCharge[call[w].ord] \in Charges \cup {None}
      BY <1>0, <1>1 DEF LookupPayment, At, CallShape, PayInv, PayTypeOK
    <3>2. k \in Call /\ k.pc \notin Telling /\ call' = [call EXCEPT ![w] = k]
      BY <1>0, <2>2, <3>1 DEF Call, CallPcs, Telling
    <3> QED
      BY <3>2, CausesLocal
  <2> QED
    BY <1>1, <2>1, <2>2 DEF LookupPayment
<1>2. ASSUME NEW c \in Charges, CreateIntent(w, c)
      PROVE  CausesKnown'
  <2> DEFINE pc == IF call[w].charge = None THEN "create" ELSE "replace"
             k == [call[w] EXCEPT !.pc = pc, !.charge = c]
  <2>1. k \in Call /\ k.pc \notin Telling
    BY <1>0 DEF Call, CallPcs, Telling
  <2>2. call' = [call EXCEPT ![w] = k]
    BY <1>0, <1>2 DEF CreateIntent
  <2> QED
    BY <2>1, <2>2, CausesLocal
<1>3. CASE LookupEvent(w) \/ CheckRefund(w) \/ RefundAtProvider(w)
  BY <1>3, CausesLookup, CausesRefund
<1>4. CASE \/ Answer(w)
           \/ \E pc \in {"findOrder", "approveWrite", "delivering", "demote", "demoting"} :
                Goto(w, pc)
  BY <1>4, CausesGoto DEF CallPcs, Telling
<1> QED
  BY <1>1, <1>2, <1>3, <1>4 DEF PaymentStep, PaymentStepFails, CreatePayment, ReplacePix,
     ReadForApproval, CommitApproval, AlreadyDelivered, DeliverPaidOrder, DeliveryReturns,
     DemoteOrder, DemotionReturns, MarkRefunded, RejectPayment, IntentFails, StoreRefund

(* Every step.                                                             *)
LEMMA CausesNext ==
  ASSUME PayInv, CausesKnown, [PayNext]_allVars
  PROVE  CausesKnown'
<1>0. Forward
  BY StepIsForward DEF PayInv
<1>1. CASE UNCHANGED call
  BY <1>0, <1>1, CausesStay
<1>2. ASSUME NEW w \in Workers,
             OrderRequest(w) \/ OrderStep(w) \/ OrderRequestReturns(w) \/ OrderStepFails(w)
      PROVE  UNCHANGED call
  BY <1>2 DEF OrderRequest, OrderStep, OrderRequestReturns, OrderStepFails, payVars
<1>3. ASSUME NEW w \in Workers,
             PaymentRequest(w) \/ PaymentStep(w) \/ PaymentStepFails(w)
      PROVE  CausesKnown'
  BY <1>0, <1>3, CausesRequest, CausesElsewhere
<1>4. ASSUME Outside \/ UNCHANGED allVars
      PROVE  UNCHANGED call
  BY <1>4 DEF Outside, PixExpires, CustomerPays, ChargeCancelled, ProviderRefunds, allVars, payVars
<1>5. CASE ProcessCrash
  <2>1. \A v \in Workers : call'[v].pc = "idle"
    BY <1>5 DEF ProcessCrash, IdleCall
  <2> QED
    BY <2>1 DEF CausesKnown, KnowsCause
<1> QED
  BY <1>1, <1>2, <1>3, <1>4, <1>5 DEF PayNext

LEMMA CausesInvariance == PaySpec => [](PayInv /\ CausesKnown)
<1>1. PayInit => CausesKnown
  BY DEF PayInit, CausesKnown, KnowsCause, IdleCall
<1>2. PayInv /\ CausesKnown /\ [PayNext]_allVars => CausesKnown'
  BY CausesNext
<1> QED
  BY <1>1, <1>2, PaymentInvariance, PTL DEF PaySpec

-----------------------------------------------------------------------------
(* The refinement of PaidSale.                                             *)

ShopVars == <<Shop!happened, payStatus, link>>

(* What happened to the charges of an order only changes with the provider. *)
LEMMA QuietProvider ==
  ASSUME UNCHANGED provider
  PROVE  UNCHANGED Shop!happened
<1>1. {o \in Orders : PaidFor(o)}' = {o \in Orders : PaidFor(o)}
  BY DEF provider, PaidFor, MoneyCameIn
<1>2. OrdersWith("refunded")' = OrdersWith("refunded")
  BY DEF provider, OrdersWith
<1>3. OrdersWith("cancelled")' = OrdersWith("cancelled")
  BY DEF provider, OrdersWith
<1> QED
  BY <1>1, <1>2, <1>3 DEF Shop!happened

LEMMA ShopStutters ==
  ASSUME UNCHANGED <<provider, payStatus, link>>
  PROVE  UNCHANGED ShopVars
BY QuietProvider DEF ShopVars

(* A write of a payment's status says what has a cause.                    *)
LEMMA WriteSays ==
  ASSUME NEW o \in Orders, NEW s \in {"PENDING", "APPROVED", "REFUNDED", "REJECTED"},
         payStatus' = [payStatus EXCEPT ![o] = s], UNCHANGED <<provider, link>>,
         s = "APPROVED" => PaidFor(o),
         s = "REFUNDED" => o \in OrdersWith("refunded"),
         s = "REJECTED" => o \in OrdersWith("cancelled")
  PROVE  Shop!PaidSaleNext
<1>1. o \in Shop!Cause[s] /\ s \in DOMAIN Shop!Cause
  BY DEF Shop!Cause
<1>2. Shop!Says(o, s)
  BY <1>1, QuietProvider DEF Shop!Says
<1> QED
  BY <1>1, <1>2 DEF Shop!PaidSaleNext

(* A charge that is paid, refunded or cancelled, for the order it was      *)
(* created for.                                                            *)
LEMMA ChargeMoves ==
  ASSUME PayTypeOK, NEW c \in Charges, NEW to \in {"paid", "refunded", "cancelled"},
         charge[c] = IF to = "refunded" THEN "paid" ELSE "open",
         charge' = [charge EXCEPT ![c] = to],
         UNCHANGED <<chargeOrder, payStatus, link>>
  PROVE  Shop!PaidSaleNext \/ UNCHANGED ShopVars
<1> DEFINE o == chargeOrder[c]
           Paid == {q \in Orders : PaidFor(q)}
           Returned == OrdersWith("refunded")
           Cancelled == OrdersWith("cancelled")
<1>0. /\ o \in Orders \cup {None}
      /\ \A d \in Charges : charge'[d] = IF d = c THEN to ELSE charge[d]
  BY DEF PayTypeOK
<1>1. Paid' = IF to = "paid" /\ o \in Orders THEN Paid \cup {o} ELSE Paid
  BY <1>0 DEF PaidFor, MoneyCameIn
<1>2. Returned' = IF to = "refunded" /\ o \in Orders THEN Returned \cup {o} ELSE Returned
  BY <1>0 DEF OrdersWith
<1>3. Cancelled' = IF to = "cancelled" /\ o \in Orders THEN Cancelled \cup {o} ELSE Cancelled
  BY <1>0 DEF OrdersWith
<1>4. CASE o \notin Orders
  BY <1>1, <1>2, <1>3, <1>4 DEF ShopVars, Shop!happened
<1>5. CASE o \in Orders /\ to = "paid"
  <2>1. Shop!MoneyComesIn(o)
    BY <1>1, <1>2, <1>3, <1>5 DEF Shop!MoneyComesIn
  <2> QED
    BY <1>5, <2>1 DEF Shop!PaidSaleNext
<1>6. CASE o \in Orders /\ to = "refunded"
  <2>1. o \in Paid
    BY <1>6 DEF PaidFor, MoneyCameIn
  <2>2. Shop!MoneyGoesBack(o)
    BY <1>1, <1>2, <1>3, <1>6, <2>1 DEF Shop!MoneyGoesBack
  <2> QED
    BY <1>6, <2>2 DEF Shop!PaidSaleNext
<1>7. CASE o \in Orders /\ to = "cancelled"
  <2>1. Shop!ChargeIsCancelled(o)
    BY <1>1, <1>2, <1>3, <1>7 DEF Shop!ChargeIsCancelled
  <2> QED
    BY <1>7, <2>1 DEF Shop!PaidSaleNext
<1> QED
  BY <1>0, <1>4, <1>5, <1>6, <1>7

(* The provider and its customers act.                                     *)
LEMMA OutsideIsShop ==
  ASSUME PayTypeOK, Outside
  PROVE  Shop!PaidSaleNext \/ UNCHANGED ShopVars
<1>1. UNCHANGED <<payStatus, link>>
  BY DEF Outside, PixExpires, CustomerPays, ChargeCancelled, ProviderRefunds, payTables, vars,
         tables
<1>2. CASE UNCHANGED provider
  BY <1>1, <1>2, ShopStutters
<1>3. ASSUME NEW c \in Charges, CustomerPays(c)
      PROVE  Shop!PaidSaleNext \/ UNCHANGED ShopVars
  BY <1>1, <1>3, ChargeMoves DEF CustomerPays
<1>4. ASSUME NEW c \in Charges, ChargeCancelled(c)
      PROVE  Shop!PaidSaleNext \/ UNCHANGED ShopVars
  BY <1>1, <1>4, ChargeMoves DEF ChargeCancelled
<1>5. ASSUME NEW c \in Charges, ProviderRefunds(c)
      PROVE  Shop!PaidSaleNext \/ UNCHANGED ShopVars
  BY <1>1, <1>5, ChargeMoves DEF ProviderRefunds
<1> QED
  BY <1>2, <1>3, <1>4, <1>5 DEF Outside, PixExpires

(* A new charge is nobody's money yet.                                     *)
LEMMA IntentIsNoMoney ==
  ASSUME PayInv, NEW w \in Workers, NEW c \in Charges, CreateIntent(w, c)
  PROVE  UNCHANGED ShopVars
<1> DEFINE Paid == {q \in Orders : PaidFor(q)}
<1>1. /\ charge[c] = "unused" /\ charge'[c] = "open" /\ UNCHANGED <<payStatus, link>>
      /\ \A d \in Charges : d # c => charge'[d] = charge[d] /\ chargeOrder'[d] = chargeOrder[d]
  BY DEF CreateIntent, PayInv, PayTypeOK, vars, tables, payTables
<1>2. \A o \in Orders : PaidFor(o)' <=> PaidFor(o)
  BY <1>1 DEF PaidFor, MoneyCameIn
<1>3. OrdersWith("refunded")' = OrdersWith("refunded")
  BY <1>1 DEF OrdersWith
<1>4. OrdersWith("cancelled")' = OrdersWith("cancelled")
  BY <1>1 DEF OrdersWith
<1>5. Paid' = Paid
  BY <1>2
<1> QED
  BY <1>1, <1>3, <1>4, <1>5 DEF ShopVars, Shop!happened

(* The steps of payment requests that write: what they write is so.        *)
LEMMA PaymentStepIsShop ==
  ASSUME PayInv, CausesKnown, NEW w \in Workers, PaymentStep(w)
  PROVE  Shop!PaidSaleNext \/ UNCHANGED ShopVars
<1> DEFINE o == call[w].ord
           c == call[w].charge
<1>0. PayTypeOK /\ CallShape(call[w]) /\ KnowsCause(call[w])
  BY CallIsTyped DEF PayInv, CausesKnown
<1>1. CASE CreatePayment(w) \/ ReplacePix(w)
  <2>1. o \in Orders /\ UNCHANGED <<provider, link>>
    BY <1>0, <1>1 DEF CallShape, CreatePayment, ReplacePix, At, vars, tables
  <2>2. \/ payStatus' = [payStatus EXCEPT ![o] = "PENDING"]
        \/ UNCHANGED payStatus
    BY <1>1 DEF CreatePayment, ReplacePix
  <2> QED
    BY <2>1, <2>2, WriteSays, ShopStutters
<1>2. CASE CommitApproval(w)
  <2>1. /\ o \in Orders /\ c \in Charges /\ Named(c, o) /\ MoneyCameIn(c)
        /\ payStatus' = [payStatus EXCEPT ![o] = "APPROVED"]
        /\ UNCHANGED <<provider, link>>
    BY <1>0, <1>2 DEF CallShape, CommitApproval, At, PaymentApproved, SetStatus
  <2>2. PaidFor(o)
    BY <2>1 DEF PaidFor, Named
  <2> QED
    BY <2>1, <2>2, WriteSays
<1>3. CASE MarkRefunded(w) \/ StoreRefund(w)
  <2>1. /\ o \in Orders /\ c \in Charges /\ chargeOrder[c] = o /\ charge[c] = "refunded"
        /\ payStatus' = [payStatus EXCEPT ![o] = "REFUNDED"]
        /\ UNCHANGED <<provider, link>>
    BY <1>0, <1>3 DEF CallShape, KnowsCause, MarkRefunded, StoreRefund, At, vars, tables
  <2>2. o \in OrdersWith("refunded")
    BY <2>1 DEF OrdersWith
  <2> QED
    BY <2>1, <2>2, WriteSays
<1>4. CASE RejectPayment(w)
  <2>1. /\ o \in Orders /\ c \in Charges /\ chargeOrder[c] = o /\ charge[c] = "cancelled"
        /\ payStatus' = [payStatus EXCEPT ![o] = "REJECTED"]
        /\ UNCHANGED <<provider, link>>
    BY <1>0, <1>4 DEF CallShape, KnowsCause, RejectPayment, At, PaymentRejected, SetStatus
  <2>2. o \in OrdersWith("cancelled")
    BY <2>1 DEF OrdersWith
  <2> QED
    BY <2>1, <2>2, WriteSays
<1>5. CASE RefundAtProvider(w)
  <2>1. UNCHANGED <<chargeOrder, payStatus, link>>
    BY <1>5 DEF RefundAtProvider, vars, tables, payTables
  <2>2. CASE UNCHANGED charge
    BY <2>1, <2>2, ShopStutters DEF provider
  <2>3. CASE charge[c] = "paid" /\ charge' = [charge EXCEPT ![c] = "refunded"]
    <3>1. c \in Charges
      BY <1>0, <1>5 DEF KnowsCause, RefundAtProvider, At
    <3> QED
      BY <1>0, <2>1, <2>3, <3>1, ChargeMoves
  <2> QED
    BY <1>5, <2>2, <2>3 DEF RefundAtProvider
<1>6. CASE \E d \in Charges : CreateIntent(w, d)
  BY <1>6, IntentIsNoMoney
<1>7. CASE UNCHANGED <<provider, payStatus, link>>
  BY <1>7, ShopStutters
<1>8. ASSUME \/ LookupPayment(w) \/ LookupEvent(w) \/ ReadForApproval(w) \/ AlreadyDelivered(w)
             \/ IntentFails(w) \/ CheckRefund(w)
      PROVE  UNCHANGED <<provider, payStatus, link>>
  BY <1>8 DEF LookupPayment, LookupEvent, ReadForApproval, AlreadyDelivered, IntentFails,
     CheckRefund, vars, tables, payTables
<1>9. ASSUME \/ DeliverPaidOrder(w) \/ DeliveryReturns(w) \/ DemoteOrder(w) \/ DemotionReturns(w)
      PROVE  UNCHANGED <<provider, payStatus, link>>
  BY <1>9 DEF DeliverPaidOrder, DeliveryReturns, DemoteOrder, DemotionReturns, StartDeliver,
     StartUpdate, Return, tables, payTables
<1> QED
  BY <1>1, <1>2, <1>3, <1>4, <1>5, <1>6, <1>7, <1>8, <1>9 DEF PaymentStep

(* A step of a delivery or a status change: the commit serves an order     *)
(* that money came in for.                                                 *)
LEMMA OrderStepIsShop ==
  ASSUME GoodsInv, [Next]_vars, UNCHANGED payVars,
         \A w \in Workers :
           CommitDelivery(w) => job[w].ord \in Orders /\ Sale!Serve(job[w].ord)
  PROVE  Shop!PaidSaleNext \/ UNCHANGED ShopVars
<1>1. UNCHANGED <<provider, payStatus>>
  BY DEF payVars, provider
<1>2. ASSUME NEW w \in Workers, CommitDelivery(w)
      PROVE  Shop!PaidSaleNext
  <2> DEFINE o == job[w].ord
  <2>1. o \in Orders /\ Sale!Serve(o)
    BY <1>2
  <2>2. o \in {q \in Orders : PaidFor(q)}
    BY <1>2, <2>1 DEF GoodsInv, GoodsTrail, CommitDelivery, InDelivery
  <2>3. Shop!Serve(o)
    BY <2>1 DEF Sale!Serve, Shop!Serve, Sale!Unserved, Shop!Unserved
  <2>4. Shop!ServePaid(o)
    BY <1>1, <2>2, <2>3, QuietProvider DEF Shop!ServePaid
  <2> QED
    BY <2>1, <2>4 DEF Shop!PaidSaleNext
<1>3. CASE \A w \in Workers : ~ CommitDelivery(w)
  BY <1>1, <1>3, OnlyCommitsLink, ShopStutters
<1> QED
  BY <1>2, <1>3

(* Every step of the shop is one of the abstract sale, or invisible to it. *)
LEMMA StepIsShop ==
  ASSUME PayInv, GoodsInv, CausesKnown, [PayNext]_allVars,
         \A w \in Workers :
           CommitDelivery(w) => job[w].ord \in Orders /\ Sale!Serve(job[w].ord)
  PROVE  Shop!PaidSaleNext \/ UNCHANGED ShopVars
<1>0. [Next]_vars
  BY StepImplementsNext
<1>1. ASSUME NEW w \in Workers,
             OrderRequest(w) \/ OrderStep(w) \/ OrderRequestReturns(w) \/ OrderStepFails(w)
      PROVE  Shop!PaidSaleNext \/ UNCHANGED ShopVars
  <2>1. UNCHANGED payVars
    BY <1>1 DEF OrderRequest, OrderStep, OrderRequestReturns, OrderStepFails
  <2> QED
    BY <1>0, <2>1, OrderStepIsShop
<1>2. ASSUME NEW w \in Workers, PaymentRequest(w) \/ PaymentStepFails(w)
      PROVE  UNCHANGED <<provider, payStatus, link>>
  BY <1>2 DEF PaymentRequest, StartRefund, StartPay, ReceiveEvent, PaymentStepFails, vars, tables,
     payTables
<1>3. ASSUME NEW w \in Workers, PaymentStep(w)
      PROVE  Shop!PaidSaleNext \/ UNCHANGED ShopVars
  BY <1>3, PaymentStepIsShop
<1>4. CASE Outside
  BY <1>4, OutsideIsShop DEF PayInv
<1>5. ASSUME ProcessCrash \/ UNCHANGED allVars
      PROVE  UNCHANGED <<provider, payStatus, link>>
  BY <1>5 DEF ProcessCrash, Crash, tables, payTables, allVars, vars, payVars, provider
<1>6. CASE UNCHANGED <<provider, payStatus, link>>
  BY <1>6, ShopStutters
<1> QED
  BY <1>1, <1>2, <1>3, <1>4, <1>5, <1>6 DEF PayNext

(* Before the first request nobody paid and nothing is said.               *)
LEMMA ShopStarts == PayInit => Shop!PaidSaleInit
<1> SUFFICES ASSUME PayInit PROVE Shop!PaidSaleInit
  OBVIOUS
<1>1. {o \in Orders : PaidFor(o)} = {}
  BY DEF PayInit, PaidFor, MoneyCameIn
<1>2. OrdersWith("refunded") = {} /\ OrdersWith("cancelled") = {}
  BY DEF PayInit, OrdersWith
<1>3. Shop!SaleInit
  BY DEF PayInit, Init, NoUnits, Shop!SaleInit
<1> QED
  BY <1>1, <1>2, <1>3 DEF PayInit, Shop!PaidSaleInit

(* As long as nobody asks for PAID, DELIVERED or a status that releases    *)
(* units, any number of concurrent requests and events implement the sale  *)
(* against money: whatever a payment is said to be has a cause at the      *)
(* provider, and a commit serves a whole order that money came in for.     *)
THEOREM PaidSaleImplemented ==
  Targets \cap (ReleasingStatuses \cup {"DELIVERED", "PAID"}) = {} =>
    (PaySpec => PaidSaleRefinement)
<1> SUFFICES ASSUME Targets \cap (ReleasingStatuses \cup {"DELIVERED", "PAID"}) = {}
             PROVE  PaySpec => PaidSaleRefinement
  OBVIOUS
<1>1. PaySpec => [](IInv /\ PayInv /\ GoodsInv)
  BY GoodsInvariance, PaymentsAssumption
<1>2. Spec => [](IInv /\ ServedInv /\ SaleInv)
  BY SaleInvariance
<1>3. IInv /\ ServedInv /\ SaleInv /\ PayInv /\ GoodsInv /\ CausesKnown /\ [PayNext]_allVars
        => Shop!PaidSaleNext \/ UNCHANGED ShopVars
  BY StepIsShop, CommitServes
<1> QED
  BY <1>1, <1>2, <1>3, ShopStarts, CausesInvariance, PaymentsAreFulfilment, PTL
  DEF PaySpec, PaidSaleRefinement, Shop!PaidSaleSpec, ShopVars

(* One request at a time they do so whatever statuses are asked for, as    *)
(* long as it is not PAID itself: cancelling, refunding and completing     *)
(* orders by hand takes no unit from an item and says nothing of payments. *)
THEOREM PaidSaleImplementedAlone ==
  ((\A v, w \in Workers : v = w) /\ "PAID" \notin AdminTargets) =>
    (PaySpec => PaidSaleRefinement)
<1> SUFFICES ASSUME \A v, w \in Workers : v = w, "PAID" \notin AdminTargets
             PROVE  PaySpec => PaidSaleRefinement
  OBVIOUS
<1>1. PaySpec => [](IInv /\ PayInv /\ GoodsInv)
  BY GoodsInvariance
<1>2. Spec => [](IInv /\ SnapshotsHold)
  BY SnapshotInvariance
<1>3. IInv /\ SnapshotsHold /\ PayInv /\ GoodsInv /\ CausesKnown /\ [PayNext]_allVars
        => Shop!PaidSaleNext \/ UNCHANGED ShopVars
  BY StepIsShop, CommitServesAlone
<1> QED
  BY <1>1, <1>2, <1>3, ShopStarts, CausesInvariance, PaymentsAreFulfilment, PTL
  DEF PaySpec, PaidSaleRefinement, Shop!PaidSaleSpec, ShopVars
=============================================================================
