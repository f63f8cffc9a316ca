----------------------------- MODULE OrderStatus -----------------------------
(***************************************************************************)
(* The order status machine of services/order.service.ts as data.          *)
(* UNPLACED is not a status of the program: it stands for an order row     *)
(* that does not exist yet.                                                *)
(***************************************************************************)

HELD_STATUSES     == {"NEEDS_APPROVAL", "AWAITING_ADVANCE_PAYMENT"}
EDITABLE_STATUSES == {"PENDING", "CONFIRMED"}
KitchenQueue      == {"PENDING", "CONFIRMED", "PREPARING", "READY"}
TerminalStatuses  == {"SERVED", "CANCELLED"}
OrderStatuses     == HELD_STATUSES \union KitchenQueue \union TerminalStatuses

\* What PATCH /orders/:id/status accepts.
SettableStatuses  == KitchenQueue \union TerminalStatuses

ALLOWED_TRANSITIONS ==
    { <<"NEEDS_APPROVAL", "AWAITING_ADVANCE_PAYMENT">>, <<"NEEDS_APPROVAL", "PENDING">>,
      <<"NEEDS_APPROVAL", "CANCELLED">>,
      <<"AWAITING_ADVANCE_PAYMENT", "PENDING">>, <<"AWAITING_ADVANCE_PAYMENT", "CANCELLED">>,
      <<"PENDING", "CONFIRMED">>,   <<"PENDING", "CANCELLED">>,
      <<"CONFIRMED", "PREPARING">>, <<"CONFIRMED", "CANCELLED">>,
      <<"PREPARING", "READY">>,     <<"PREPARING", "CANCELLED">>,
      <<"READY", "SERVED">>,        <<"READY", "CANCELLED">> }

CanTransition(from, to) == <<from, to>> \in ALLOWED_TRANSITIONS
=============================================================================
