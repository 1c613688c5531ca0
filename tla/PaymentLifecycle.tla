-------------------------- MODULE PaymentLifecycle --------------------------
(***************************************************************************)
(* The two state machines a paid request drives: the summary stage of its  *)
(* payment_attempts row (packages/protocol-x402 lifecycle/stage.ts) and    *)
(* the state of its job (control-plane types/index.ts).  Both tables are   *)
(* the source's, edge by edge; nothing else in the repository says which   *)
(* moves are legal.                                                        *)
(***************************************************************************)

Stages ==
  {"acquired", "verified", "verification_failed", "executed",
   "settlement_pending", "settled_external", "link_verified", "settled",
   "settlement_failed"}

\* PAYMENT_LIFECYCLE_TRANSITIONS, as the set of its edges.
LifecycleTransitions ==
  {<<"acquired", "verified">>, <<"acquired", "verification_failed">>,
   <<"verified", "settled">>, <<"verified", "settlement_failed">>,
   <<"verified", "executed">>,
   <<"executed", "settlement_pending">>,
   <<"settlement_pending", "settled_external">>,
   <<"settlement_pending", "settlement_failed">>,
   <<"settled_external", "link_verified">>,
   <<"link_verified", "settled">>,
   <<"settlement_failed", "settled_external">>}

JobStates ==
  {"RECEIVED", "VALIDATED", "QUOTED", "PAYMENT_CHALLENGED",
   "PAYMENT_VERIFIED", "LOCKED", "ROUTED", "EXECUTING", "VERIFYING",
   "SETTLING", "DELIVERED", "REJECTED", "REQUOTE_REQUIRED", "RETRYABLE",
   "REFUND_REQUIRED", "QUARANTINED", "TOMBSTONED"}

\* AllowedTransitions, as the set of its edges.
AllowedTransitions ==
       {"RECEIVED"} \X {"VALIDATED", "REJECTED"}
  \cup {"VALIDATED"} \X {"QUOTED", "REJECTED", "REQUOTE_REQUIRED"}
  \cup {"QUOTED"} \X {"PAYMENT_CHALLENGED", "LOCKED", "REJECTED",
                      "REQUOTE_REQUIRED"}
  \cup {"PAYMENT_CHALLENGED"} \X {"PAYMENT_VERIFIED", "REJECTED", "RETRYABLE"}
  \cup {"PAYMENT_VERIFIED"} \X {"LOCKED", "REJECTED"}
  \cup {"LOCKED"} \X {"ROUTED", "REJECTED", "RETRYABLE"}
  \cup {"ROUTED"} \X {"EXECUTING", "REJECTED", "RETRYABLE"}
  \cup {"EXECUTING"} \X {"VERIFYING", "RETRYABLE", "QUARANTINED"}
  \cup {"VERIFYING"} \X {"SETTLING", "RETRYABLE", "QUARANTINED", "REJECTED"}
  \cup {"SETTLING"} \X {"DELIVERED", "REFUND_REQUIRED", "RETRYABLE"}
  \cup {"REJECTED"} \X {"TOMBSTONED"}
  \cup {"REQUOTE_REQUIRED"} \X {"QUOTED", "REJECTED"}
  \cup {"RETRYABLE"} \X {"ROUTED", "REJECTED", "QUARANTINED"}
  \cup {"REFUND_REQUIRED"} \X {"REJECTED", "TOMBSTONED"}
  \cup {"QUARANTINED"} \X {"REJECTED", "TOMBSTONED"}

\* TerminalStates: the states canTransitionFrom refuses to leave.
TerminalStates == {"DELIVERED", "TOMBSTONED"}

\* The stages a payment is in once its settlement is known to have happened.
SettledStages == {"settled_external", "link_verified", "settled"}

=============================================================================
