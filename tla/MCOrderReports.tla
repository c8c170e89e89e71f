----------------------------- MODULE MCOrderReports -----------------------------
(* Values of the constants of OrderReports for TLC.                          *)
EXTENDS OrderReports

\* The defaults of config/schema.ts:670-678.
ConfirmedPolicy ==
  [cancelUnfilledOrders |-> TRUE, postTradeReconcileRequired |-> TRUE,
   pauseOnUnhedgedResidual |-> TRUE]
=============================================================================
