--------------------------- MODULE PaymentPromise ---------------------------
(***************************************************************************)
(* What the route promises the buyer of one payment identifier, whatever   *)
(* rail it settles on: one charge, then one stored outcome, then that same *)
(* outcome in every 200 the buyer gets.  Where a settle call is made again *)
(* the buyer may be charged again too, but not before a failed settlement  *)
(* is on record, and not for another outcome.  A refusal promises nothing, *)
(* so the other answers do not appear.                                     *)
(***************************************************************************)
EXTENDS Naturals

CONSTANTS
  Requests, NoRequest,
  Retries,   \* the rail may settle again what it recorded as failed
  Failures   \* what may be on record of a failed settlement

VARIABLES
  charged,   \* how often the buyer paid
  failure,   \* what is on record of a failed settlement, "none" before one
  outcome,   \* the request whose response is the identifier's, once stored
  answers    \* the response in the 200 of each request

promise == <<charged, failure, outcome, answers>>

Init ==
  /\ charged = 0
  /\ failure = "none"
  /\ outcome = NoRequest
  /\ answers = [r \in Requests |-> NoRequest]

Charge ==
  /\ charged = 0 \/ failure # "none"
  /\ charged' = charged + 1
  /\ UNCHANGED <<failure, outcome, answers>>

\* Never once the identifier has its outcome.
Fail ==
  /\ Retries
  /\ outcome = NoRequest
  /\ failure' \in Failures
  /\ UNCHANGED <<charged, outcome, answers>>

\* The outcome is stored by the request it answers, now or with its next step.
Fulfil(r) ==
  /\ charged > 0
  /\ outcome = NoRequest
  /\ outcome' = r
  /\ answers' \in {answers, [answers EXCEPT ![r] = r]}
  /\ UNCHANGED <<charged, failure>>

Answer(r) ==
  /\ outcome # NoRequest
  /\ answers' = [answers EXCEPT ![r] = outcome]
  /\ UNCHANGED <<charged, failure, outcome>>

\* The buyer uses the connection for another POST.
Forget(r) ==
  /\ answers' = [answers EXCEPT ![r] = NoRequest]
  /\ UNCHANGED <<charged, failure, outcome>>

Next ==
  \/ Charge \/ Fail
  \/ \E r \in Requests : Fulfil(r) \/ Answer(r) \/ Forget(r)

Spec == Init /\ [][Next]_promise

=============================================================================
