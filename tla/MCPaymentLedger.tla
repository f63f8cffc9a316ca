--------------------------- MODULE MCPaymentLedger ---------------------------
(***************************************************************************)
(* Instances of PaymentLedger for TLC.  An advance of 2 on a bill of 4:    *)
(* two advances cover the bill, one and the bill exceed it.                *)
(***************************************************************************)
EXTENDS PaymentLedger, TLC

HandlerSymmetry == Permutations(Handlers)

\* Without fairness no step reads acked, and none reads stale once overtaken.
SafetyView ==
    <<order, payment, attempt, request, IF overtaken THEN {} ELSE stale, overtaken>>
=============================================================================
