----------------------------- MODULE ShopDomain -----------------------------
(***************************************************************************)
(* The enumerations of prisma/schema.prisma and the status machine of an   *)
(* order, shared by every module.  None of these has state.                *)
(***************************************************************************)

OrderStatuses ==
  {"PENDING", "AWAITING_PAYMENT", "PAID", "PROCESSING",
   "DELIVERED", "CANCELLED", "REFUNDED"}

(* Key and Account share one status enum.                                  *)
UnitStatuses == {"AVAILABLE", "RESERVED", "DELIVERED", "ARCHIVED"}

PaymentStatuses == {"PENDING", "APPROVED", "REJECTED", "REFUNDED"}

ProductTypes == {"KEY", "ACCOUNT"}

(* The table updateStatus checks a requested status against.               *)
ValidTransitions ==
  [PENDING          |-> {"AWAITING_PAYMENT", "CANCELLED"},
   AWAITING_PAYMENT |-> {"PAID", "CANCELLED"},
   PAID             |-> {"PROCESSING", "DELIVERED", "REFUNDED"},
   PROCESSING       |-> {"DELIVERED", "CANCELLED"},
   DELIVERED        |-> {},
   CANCELLED        |-> {},
   REFUNDED         |-> {}]

(* The statuses no request may leave: the rows of the table without exits. *)
TerminalStatuses == {s \in OrderStatuses : ValidTransitions[s] = {}}

(* The two targets for which updateStatus gives the order's units back.    *)
ReleasingStatuses == {"CANCELLED", "REFUNDED"}
=============================================================================
