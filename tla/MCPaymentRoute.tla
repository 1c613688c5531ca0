--------------------------- MODULE MCPaymentRoute ---------------------------
(***************************************************************************)
(* Small instances of PaymentRoute for TLC: the rail, the faults and the   *)
(* steps at which a Worker may die are chosen by the configuration.        *)
(***************************************************************************)
EXTENDS PaymentRouteInvariant, TLC

\* A Worker may die before any step of its handler.
Anywhere == Working

\* From the settle call until its outcome is in the row, and in a recovery
\* until the row says settled_external: what the pre-settle write protects.
WhileSettling ==
  {"callSettle", "awaitSettle", "toRefund", "recordFailure", "recordSettled",
   "readAttempt", "readJob", "reconcile", "recoverSettled", "reconstructJob",
   "reconstructResult"}

\* The Worker dies while it waits for settle() to answer.
AtSettle == {"awaitSettle"}

Nowhere == {}

Symmetric == Permutations(Requests)

=============================================================================
